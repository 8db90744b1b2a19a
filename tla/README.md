# Verification of the streaming core

The program is an Android client for game streaming: a Java application around
`moonlight-common-c`, the C library that connects to the host, receives video
and audio and sends input. This directory holds TLA+ models of the parts of it
in which concurrency, loss and failure meet, their TLC configurations, and
proofs checked by TLAPS. Paths are relative to the repository;
`MCC` is `app/src/main/jni/moonlight-core/moonlight-common-c/src` and `JAVA` is
`app/src/main/java/com/antplay`.

    tlc -workers 2 -config LinkedBlockingQueue.cfg MCLinkedBlockingQueue
    tlapm LinkedBlockingQueueProofs.tla

## 1. Inventory

### How the parts work together

`JAVA/Game.java` starts an `NvConnection`, which calls the core through JNI.
`LiStartConnection()` goes through eleven stages; the last ones start the
streams and their threads:

    network -> VideoRecv: RtpVideoQueue -> VideoDepacketizer -> [decode unit queue] -> VideoDec -> MediaCodec
                               |                 |                                        |
                               +--- frame losses +---- IDR requests (event) --------------+
                                          v
                                 ControlStream: ReqIdrFrame, InvRefFrames threads -> ENet -> host
    network -> AudioRecv: RtpAudioQueue -> [packet queue] -> AudioDec -> AudioTrack
    UI threads -> [input queue] -> InputSend -> ENet -> host

Every arrow in brackets is a `LinkedBlockingQueue`. A thread that meets a fatal
error calls the termination callback, which reaches the client on yet another
thread. `LiStopConnection()` undoes the stages in reverse.

### Components

| component | state | operations | what is hard | correct when | model |
|---|---|---|---|---|---|
| Linked blocking queue (`MCC/LinkedBlockingQueue.c`) | list, two counters, three flags, condition variable | offer, wait, poll, peek, flush, shutdown, drain, wake, destroy | signal after the unlock and only on empty -> non-empty; closing while others use it | first in first out, exactly once; no lost wake-up; drain loses nothing | `LinkedBlockingQueue`, proved |
| RTP video queue (`MCC/RtpVideoQueue.c`) | the block being collected, five counters, completed blocks, loss-report flags | add packet, recover, stage, submit, report | loss, reordering, repetition, wrap-around, speculation | whole frames in order; counters agree with the list; reports sound | `RtpVideoQueue` |
| Video depacketizer (`MCC/VideoDepacketizer.c`) | three waiting flags, frame numbers, drop counter, decode unit queue | process payload, notify lost, complete unit, refresh | two threads share flags without a lock; overflow; answers to old requests | the decoder gets only what it can decode; every wait is answered | `VideoDepacketizer` |
| Frame loss reporting (`MCC/ControlStream.c`) | an event, a queue of ranges, two threads | request IDR, report range, merge ranges, send | clear-after-wait, flush of ranges, full queue | a request is never forgotten | `FrameLossControl` |
| Connection lifecycle (`MCC/Connection.c` and the start and stop functions of the streams) | stage, two flags, threads, queues, sockets, renderers | start, stop, interrupt, terminate | an error at any call, with clean-up of its own; join of blocked threads; the asynchronous callback | nothing outlives what it uses; nothing is left behind; start and stop return (but for finding 1) | `Connection` |
| RTP audio queue and audio stream (`MCC/RtpAudioQueue.c`, `AudioStream.c`) | list of FEC blocks, next sequence number | add, recover, resynchronise, give up | a whole block lost, late packets, when to stop waiting | no packet twice or out of order; parity is used before anything is concealed | `RtpAudioQueue`, `AudioStream`, proved |
| Input stream (`MCC/InputStream.c`) | queue, free list of packet holders, scroll remainder | send functions, merge, send, stop, destroy | peek then poll, sums of 16 bits, texts that wait for acknowledgements, use during a stop | what is sent stands for what was accepted, in order; no holder is used after it was freed | `InputStream` |
| Control stream messages (`MCC/ControlStream.c`, `enet/peer.c`, `enet/protocol.c`) | ENet peer with its queues and window, pending disconnect | send, receive, hold back, dispatch, disconnect | any thread may read what another waits for; a disconnect overtakes data; late acknowledgements | nothing that arrived is lost to a disconnect; the last input reaches the host; its end is noticed | `EnetPeer`, `ControlStream` |
| Stream session (`JAVA/nvstream/NvConnection.java`, `JAVA/Game.java`) | one static permit, a class lock, two booleans | start, stop, callbacks | start and stop on three threads; `connecting` is never set | one connection at a time; the next one is served | `StreamSession` |
| Video decoder (`JAVA/binding/video/MediaCodecDecoderRenderer.java`) | recovery type, quiescence flags, stop flag | recover, render, stop, HDR switch | three threads must be quiet at once while a stop may come | recovery runs alone and leaves nothing stale; stop returns | `CodecRecovery` |
| RTSP handshake, sockets, crypto, STUN, connection test | none shared | request and reply | text and I/O | | one step of `Connection`, or left out |
| HTTP client, pairing, discovery, computer manager | host list, database | poll, pair, launch | parallel polls | | not modelled: network I/O and XML |
| Input devices, asset cache, screens, preferences, models | Android objects | UI callbacks | | | not modelled |
| Rest of ENet, Reed-Solomon, OpenSSL, Opus | | | third party | | through their use only |

`PROJECT.json` has the same list with the source files, and the hazards with the
line at which each bites and the property that watches it.

## 2. Plan

Order of work, most important behaviour first:

1. `ClosableFifo`, `LinkedBlockingQueue` and its proofs: all streams rest on it. Done.
2. `FrameLossControl` and `VideoDepacketizer` on top of it: loss recovery, the
   most intricate protocol of the core. Done, with proofs.
3. `RtpVideoQueue`: what feeds it. Done, with proofs.
4. `Connection`: start, stop, failure and termination. Done for generation 5 and later,
   with proofs.
5. `RtpAudioQueue` and `AudioStream`, with an abstract playout as their
   specification. Done, with proofs.
6. `InputStream`: the sender of `InputStream.c`, its merging and its stop, over
   an abstract log. Done, with proofs.
7. `CodecRecovery`: the barrier of `MediaCodecDecoderRenderer` and its stop. Done,
   with proofs.
8. `StreamSession`: `NvConnection` and `Game`, which share one connection. Done,
   with proofs.
9. `ControlStream` over `EnetPeer`: messages, the disconnect that is held back, the
   graceful stop. Done.

What is left, most valuable first:

- The computer manager, whose polling threads share the list of hosts.

Abstract specifications: `ClosableFifo`, `AudioPlayout`, `InputLog` and
`ConnectionSlot`.

## 3. The modules

**`ClosableFifo`** says what callers of the queue may rely on: a bounded buffer
that is open, draining, shut or destroyed. It has no threads.

**`LinkedBlockingQueue`** has one action per function. The code between lock and
unlock is atomic, since every function takes the mutex once. What follows the
unlock, `PltSignalConditionVariable()`, is an action of its own, so other
threads run between the two; a waiter may also wake for no reason. Items are
numbered in the order in which they are accepted. `pc` is where a thread stands
in its call, `result` what its last call returned, `removed` is history.
`Abstract` maps `queue`, `removed` and the flags to `ClosableFifo`.

**`FrameLossControl`** is the part of `ControlStream.c` that carries losses to the
host: `idrFrameRequiredEvent`, the queue of invalid reference frame ranges, and
the two threads that wait on them, each cut at the places where it reads or
clears what others write. It is extended by `VideoDepacketizer`, whose steps call
`LiRequestIdrFrame` and `ConnectionDetectedFrameLoss`.

**`VideoDepacketizer`** has the receive thread, cut where it looks at a flag the
decoder thread writes (`rpc`), the decoder thread (`dpc`), and an external host
that encodes frames and answers requests. A frame is its first packet and the
rest. `silentDrops`, `lastSubmitted` and `faults`, which counts what went wrong, are
history; `faults.brokenIdr` says that an IDR frame was broken off after its first
packet, and `faults.overtaken` that an invalidation was answered while an IDR frame was
awaited. With direct submission the receive thread is the decoder.

**`RtpVideoQueue`** makes `RtpvAddPacket()` one action, as it runs on one thread;
the network around it loses, delays and repeats. Sequence numbers wrap. `buf` is
the block being collected with the counters the code keeps beside its list;
`notes` are the calls of `notifyFrameLost()`, `submitted` the frames handed on.
Reed-Solomon is external: any `Data` packets of a block recover it.

**`Connection`** keeps the straight-line code as data. `program` is what the thread
inside `LiStartConnection()` or `LiStopConnection()` does for one stage and `pc` the
next of its operations; `api` says whether it starts, undoes a stage or is in an
error path. An operation that may fail carries the clean-up of its error path
(the `Abort...` programs), after which `LiStopConnection()` undoes the stages
completed so far, as at the label `Cleanup`. `Start...` and `Stop...`
are read off the functions of the same name, in their order, error paths
included. Beside it run the eleven threads with what can block them:
a poll, a queue, the IDR event, or, for the send thread at a text, control data
in transit (`TextWaits`), which a stop does not end.

**`RtpAudioQueue`** makes `RtpaAddPacket()` and `RtpaGetQueuedPacket()` operators on
the list of FEC blocks; the queue belongs to the receive thread. Of the packets
of a block it keeps which have arrived, of sequence numbers the low bits.
`position` is `nextRtpSequenceNumber` without wrap-around, a history variable.
**`AudioStream`** adds the network, the backlog that is dropped at the start, the
receive thread's loop over `RtpaGetQueuedPacket()`, the bounded queue that is
flushed when it overflows, and the decoder thread. **`AudioPlayout`** is what the
decoder is promised: a time line that is played or concealed once and in
order, with jumps over whole blocks only.

**`InputStream`** has the client threads, cut between the allocation of a holder,
its offer and the clean-up of a failed offer; the send thread, cut between
peek and poll of its merging loop and before each send; and the stop, cut at
each of its calls. `packet` maps each holder (an address) to what it contains,
to `Blank` or to `Freed`; `malloc()` returns a freed one or fails. Of the control stream only the two things the send
thread sees are kept: whether the peer is connected, and whether reliable data
is in transit (`transit`). **`InputLog`** is what callers are promised: one log of
accepted events, and packets that each stand for the next run of them.

**`CodecRecovery`** has the input, renderer and choreographer threads. Each is at a
codec call, in the handler of an exception, or at a place of
`doCodecRecoveryIfRequired()`; `recoveryType`, `flags` (`codecRecoveryThreadQuiescedFlags`)
and `attempts` are the fields they share. The stop is cut at the setting of
`stopping`, the withdrawal of the recovery and the joins. Buffers are `fresh` or,
when the codec was recovered behind their back, `stale`.

**`StreamSession`** has the activities of `Game.java` with their `connected` flag and
what `onStop()` and `onDestroy()` do, the threads of `NvConnection.start()` and
`stop()`, cut where they wait for or change something shared (the permit, the
lock of `MoonBridge`, the listener, `moonlight-core`), and the runnables posted to the UI
thread. `moonlight-core` is reduced to whose connection is up and its two flags.
`Slot` maps it to **`ConnectionSlot`**: one slot, taken and given up by its owner.

**`EnetPeer`** has `enet_host_service()` and the functions of `peer.c` and `protocol.c`
under it as operators from a peer to a peer; it has no variables, as every call
is made under `enetMutex` or by the only thread left. A peer is its state, its
outgoing and sent commands, the sum in transit, and what it received. What
depends on the clock (which commands have expired, giving up on the host, the
window that the throttle leaves) is an input. A disconnect has two forms, as in
`protocol.c`: one that is to be acknowledged, and one that is not (`"leave"`), which the
hook of `ControlStream.c` does not notice. **`ControlStream`** adds the network,
the threads that send, the receive thread, cut at each unlock, and the stop:
`Interrupt` is the start of `LiStopConnection()`, `Joined` to `LingerExpires` the end of
`stopControlStream()`. While the receive thread holds a pending disconnect back
it keeps the mutex (`receiver.pc = "held"`), so nobody else services the host. Threads
send until they are told to end, also after the interrupt. The host is external;
it disconnects, leaves or dies.

Definitions whose name begins like that of another one and whose comment begins
with "Mutant" are the faulty variants that show that a property can fail.

## 4. Runs

| run | configuration | shows | bounds |
|---|---|---|---|
| `queue` | `LinkedBlockingQueue.cfg` | order, exactly once, no lost wake-up, drain, return of waiters, implements `ClosableFifo` | 2 producers, 1 consumer, 1 controller, bound 2, 3 items: the queue is empty, partly filled and full, and is reopened |
| `video_direct` | `VideoDirect.cfg` | the decoder gets only decodable frames and every wait has its answer under way, with losses and a refresh | 7 frames, 3 losses, 1 refresh, drop limit 3, ranges queue of 2 that overflows |
| `video_queued` | `VideoQueued.cfg` | the same with a decoder thread and a decode unit queue of 1 that overflows, up to the first refresh; a loss stays known until it is answered and drops are bounded (`LossHandled`) | 5 frames, 2 losses, 1 corrupt frame, 1 refresh, drop limit 4 |
| `rtp_video` | `RtpVideo.cfg` | whole frames in order, counters, sound reports and predictions, FEC suffices | 3 frames of 1, 2 and 1 blocks of 3+1 packets, 3 lost, 2 overtaken or 1 repeated, numbers modulo 16 |
| `connection` | `Connection.cfg` | dependencies, nothing left behind, no silent death, orderly queues and renderers; every call returns, but for a stop that joins a send thread waiting at a text (`TextHoldsStop`, finding 1) | 2 connections, a failure at any of 22 calls, the control receive thread may die |
| `audio` | `AudioStream.cfg` | order and exactly once, concealment only of what parity cannot repair, no waiting for packets out of sequence when there were none, valid list of blocks, 16 bits suffice (`Unambiguous`), implements `AudioPlayout` | 6 blocks of 2+1 packets, numbers modulo 16 that wrap, 3 lost, 1 delayed or repeated, queue of 1, one packet of another size, one parity packet with a wrong base |
| `input` | `InputStream.cfg` | each holder has one owner on every path, scrolls lose nothing, texts wait, the stop drains, implements `InputLog` | 2 clients, 2 calls after an event accepted before, queue of 2, 6 holders, notch of 2 and amounts 3 and -2, motions in -3..2, texts of 1 and 2 code points |
| `codec` | `CodecRecovery.cfg` | recovery runs alone, no stale buffer, an IDR frame is requested after it, recoveries and the stop end (`WaitsEnd`) | 3 threads, one try per type, 1 output buffer, 2 events (exceptions, HDR changes) |
| `session` | `StreamSession.cfg` | one connection at a time, ended by its owner (implements `ConnectionSlot`); the next one is served | 3 activities, numbered in the order in which they are opened |
| `control` | `ControlStream.cfg` | the sum in transit is exact; what arrived in order is handled before a disconnect that is to be acknowledged is reported; a host told of the disconnect has all messages; the end of the host is noticed | 1 sender, 2 messages each way, window of 1 or 2 packets, 2 datagrams read in a round, 1 round of retries, 1 datagram lost or sent again without need |
| `input_stop_hangs` | `InputStop.cfg` | finding 1 | as `input` |
| `codec_recovery_lost` | `CodecRecoveryLost.cfg` | finding 2 | as `codec` |

The type invariant `TypeOK` of a module is the first conjunct of an invariant of
its run: `CountersAgree`, `TuplesOrdered`, `DependenciesAlive`, `BlockStateValid`,
`HoldersOwned`, `RecoveryExclusive`, `TransitExact`. All but that of
`ControlStream` are theorems.

Why these bounds are enough: the queue's behaviour depends on empty, between and
full, and the proofs remove the bound. A loss, a request, its answer and a
second loss overlapping both need four frames; seven leave room for the stream
to recover and lose again, and for the drop limit of three to be reached. A block needs one packet more than it has
parity to lose for recovery to fail, and a frame of two blocks between two of
one reaches every combination of unfinished, skipped and current block. A second
connection shows what the first one leaves behind; a third starts from the same
states. Three losses empty an audio block of 2+1 packets, and one packet more
than the window lets a delayed one arrive after its block was given up. In the
input queue of two, two calls and the event before them give a full queue, a
merge of three, a merge refused by the range and a holder taken from the free
list while another is freed. Two events let a second failure or an HDR change
meet a recovery that is under way. Three activities are one that closes, one
that holds the connection and one that waits for it. On the control stream two
messages fill the window of two; when it shrinks to one while both are under
way, an expired one waits in the outgoing queue and its acknowledgement comes
late. A datagram that was lost may be sent again without counting as a fault,
so the one fault can be met in each of the phases of the connection. The
invariants were also checked with two senders and a window of one (277,064
states).

Deadlock is not checked where the model ends on purpose: the last frame has been
handled, or the last connection stopped.

### Fairness

- `LinkedBlockingQueue!FairSpec`: weak fairness of what a thread does after its
  call began (signal, and looking again after being woken). No call need ever be
  made. The scheduler runs every runnable thread.
- `Connection!FairSpec`: weak fairness of the thread inside the call, of each
  internal thread leaving its loop once it can see that it should, and of the
  steps of the IDR thread. An exchange with the host ends, since each has a
  timeout; callbacks into the client return. Nothing is assumed of failures. The
  input send thread has strong fairness of leaving its loop once the queue is
  closed: the texts that hold it up on the way are those of a drained queue, so
  finitely many. That a text gets past its wait (`TextGoesOn`) is not assumed, since
  finding 1 shows that it may not: `CallReturns` says that every call returns or
  that the stop stands at this join for ever.
- `InputStream!Spec`: weak fairness of each client inside a call, the send thread,
  the thread that stops the stream and the receive thread of the control stream;
  the host acknowledges while it is connected, and the statistics thread goes on
  to ping. Without the last two a stop could also hang on a silent host; the
  ping is what keeps data in transit in finding 1.
- `CodecRecovery!Spec`: the host keeps sending frames, each codec call returns or
  throws, and each thread runs on. No exception ever has to happen.
- `StreamSession!Spec`: threads run on, a start of `moonlight-core` returns (as
  `CallReturns` of `Connection` says, in which only a stop may hang), posted runnables
  run, and an activity that was stopped is destroyed. That a stop of `moonlight-core`
  returns is not assumed: one that hangs keeps the permit and the lock, and
  `NextServed` exempts it. The semaphore of `NvConnection` is not fair; weak fairness
  of the acquisition suffices, as each activity acquires it once.
- `ControlStream!Spec`: weak fairness of the receive thread's own steps, which
  includes that it holds a disconnect back for 100 ms and then 1 s at most;
  strong fairness of a peer giving up on a host that is gone, which ENet does
  after 10 s (`enet_peer_timeout()`, `ControlStream.c`). Strong, since a poll that finds
  something else to do may come first. Nothing is assumed of network, senders or
  stop.
- The depacketizer and the RTP queues are checked for safety only; `LossHandled`
  and `FastRecovery` state as safety how long a stall or a wait can last.

## 5. Proofs

`LinkedBlockingQueueProofs` proves, for any number of threads, any bound and any
number of items:

- `TypeCorrect`, `Fifo`: `Spec => []TypeOK`, `Spec => []FifoExactlyOnce`. The
  inductive invariant `IInv` is `ContentsOK` (the numbers in `removed` and `queue`
  are consecutive, the counters agree with them) and `ControlOK` (types of flags,
  program counters and results). `FifoExactlyOnce` alone is not inductive: it
  says nothing of what the elements are. One lemma per list operation shows
  that `ContentsOK` is kept, and `NextIInv` goes through the actions.
- `NoLostWakeUp`: `NoStrandedWaiter` is invariant when there is one consumer
  (`OneConsumer`), as every queue of the core has. A waiter goes to sleep only
  when there is nothing to wake for, and whoever changes that has yet to signal;
  the only waiter is the one woken. With two consumers it does not hold, since
  an offer to a non-empty queue does not signal.
- `DrainComplete`: `DrainLosesNothing`.
- `Refinement`: every step of `Spec` is a step of `ClosableFifo` or leaves its
  variables unchanged. The value of `closed` is a case split over the flags; the
  contents follow from `IInv`.

The assumptions are `SizeBoundAssumption` and `RolesAssumption`.

`CodecRecoveryProofs`, for any number of tries, output buffers and events:

- `Exclusive` (`RecoveryExclusive`), `Fresh` (`BuffersFresh`), `IdrAsked`
  (`IdrAfterRecovery`), and `StopExclusive`: when the stop has let threads out of the
  barrier with their flags set, still nobody is in a codec call while another
  thread recovers. Exclusion follows from the flags only if a thread whose flag
  is set does no work (`QuiescedIdle`) and the one that recovers has found all set
  (`RecovererQuiesced`). A thread inside the barrier must find a type
  (`InsideForRecovery`) and a try (`TryLeft`), or the bound of the recoveries breaks;
  that the owed IDR frame is asked for rests on the input thread being in the
  barrier when it becomes owed (`OwedInBarrier`).

`StreamSessionProofs`, for any number of activities:

- `Implements` (`SlotSpec`): each step is a step of `ConnectionSlot` or leaves the slot
  alone. The permit is at one activity or free (`OnePermit`); the one that has it
  listens, and exactly its connection is up (`HolderListens`). A permit could still
  be released twice by two stops: `StopOnce` shows that "started" is posted once,
  and that a stop begins only after it was handled and clears `connected`.
- `PermitReleasedOnce`: the semaphore never exceeds 1, and nothing is left of the
  others when `moonlight-core` starts or stops.

`VideoDepacketizerProofs` (with `FrameLossControl`), for any number of frames, losses,
corrupt frames and refreshes, any bound of the two queues and any drop limit:

- `InvalidationsOrdered` (`TuplesOrdered`) and `LossIsHandled` (`LossHandled`). A range ends
  at the frame that was found missing, so that the ends increase needs to know
  that what arrives lies ahead of the frame worked on, except for frames
  predicted as lost (`WireAhead`), and where the expected frame is at each step of
  the receive thread (`AtFrame`); `LossHandled` needs that the silent drops are
  among those counted (`DropsCounted`).
- `DirectDecodable` (`DecoderGetsDecodable`, given `DirectSubmit`) and `QueuedDecodable`
  (`DecodableUntilRefresh`, with or without the queue). `ChainInv`: what is queued is a
  chain of frames each of which the decoder can go on from (`QueueChained`), and
  unless something is awaited the next frame continues it (`WaitsUnlessChained`).
  `Turns` says which thread may be where, and what it then waits for.
  Both properties were once stated without `faults.brokenIdr`; the proof failed
  in the step that breaks off an IDR frame, and TLC then found the
  counterexample described in section 6 at a bound just above that of the run.
- `Answered` (`AnswerUnderWay`, given `DirectSubmit` and `RfiEnabled`). What is asked is followed from the thread that asks to
  the host and back (`IdrComing`, `RfiComing`): a request is never lost
  (`RequestsTravel`, `HostTakes`), what the host answers with is on the wire (`Encodes`), and
  a frame taken off the wire is used, or missed by the next one (`LossBeyond`).
  `IdrAsked` and `RefAsked` say at every step, and not only between frames, who has it
  coming or will ask; `Awaited` says where the receive thread can be while
  something is awaited, and that only a decoder that had an IDR frame is worth an
  invalidation. Before the proof the run had a drop limit it could not
  reach. With one it reaches, the property needs the exemption
  `faults.overtaken` (section 6), and the run now has such a limit.

`RtpVideoQueueProofs`, for any frames and blocks, any number of packets that are
lost, overtaken or repeated, and sequence numbers of any width that is at least
twice the size of a block:

- `TypeCorrect`, and `Counters` (`CountersAgree` while `faults.dup = 0`). The packets of a block are
  numbered one after the other (`Aligned`), so the place of each follows from
  the first one's, and within half the range the wrapped numbers are ordered as
  the places are (`Order`). The list holds no place twice, since what is in flight is
  not in the list (`Once`); a packet beyond the highest one then adds the holes
  between, one below it fills a hole (`HolesAbove`, `HolesBelow`). A repeated packet
  that was overtaken before is counted twice (section 6), hence the condition.
- `InOrder` (`ReportsOrdered`), without any condition: nothing later than the current frame
  was told, of the current one only predictions, and what was submitted lies
  before it (`Reports`).
- `Sound` (`ReportsSound` while `faults.dup = 0`): that a prediction comes true in order needs
  the counters. The block of a predicted frame keeps more holes than it has parity
  packets, holes and packets together are no more than the block
  (`PredictedBlock`), and no other block of the frame is begun after it.

`InputStreamProofs`, for any clients and events, any bound of the queue and the free
list, any range of a motion and any wheel delta:

- `Owned` (`HoldersOwned`): the queue, the free list, the hands of the clients and the
  send thread have no holder twice (`Apart`), and what is in one of them is
  what is allocated (`Accounted`). Batching polls after it peeked: that the
  packet peeked at is still the first one (`PeekedFirst`) holds as nobody else takes
  from the queue, and as a drain that empties it comes only after a shutdown.
- `Exact` (`ScrollExact`): the batched delta is what was asked for less what was
  queued, also while a notch is between its allocation and its offer
  (`ScrollState`).
- `TextWaits` (`TextAfterInput`): input the host has not acknowledged keeps reliable
  data in transit as long as the host is there (`Unheard`).

`ConnectionProofs`, for any number of connections, any combination of decoders and of
reference frame invalidation, any threads that may die, and any set `Failing` of
operations that may fail but for four (`NoKnownFault`):

- `Dependencies` (`DependenciesAlive`), `LeftBehind` (`NothingLeftBehind`), `Quiet`
  (`DestroyedQuiet`), `Renderers` (`RendererProtocol`), and `Orderly` (`LivesInOrder`, the two together). All rest on `Invariance`. What matters of
  a state is what the call under way has acquired (`Acquired`): threads it created,
  queues that exist and those used, open sockets, what the renderers were told.
  The eleven threads never change that, as a thread that has ended is still to
  be joined. So the programs can be followed as if they ran alone: `Good` is the
  largest set of positions (mode, stage, program, operation, what is acquired)
  from which no operation breaks a rule (`Legal`) or takes something from under
  a thread (`Safe`), whatever fails, and nothing is left at stage 0. It is defined as
  membership in some set closed under the steps, so it needs no induction. The lemmas go
  through the programs backwards: `LiStopConnection()` from the last stage it
  undoes to the first, the error paths, and each start function from its last
  operation to its first. `Good` allows for less than was expected
  (`Within`), as the audio ping thread may be missing.
- `NoSilence` (`NoSilentDeath`): while nobody interrupts and no call has failed, a
  thread that is gone has reported (`Reported`), since only what a failing or stopping call does
  tells a thread to end (`Up`; this is a rule of `Legal`).
- The four known faults are those of section 6, at which the properties do fail: binding
  the audio socket, and creating `AudioRecv`, `AudioDec` and `VideoDec`.

`AudioStreamProofs` (with `RtpAudioQueue`), for any numbers of data and parity packets, any
bounds of losses, delays and repetitions, with direct submission or any bound of
the queue to the decoder. The code compares 16 bit numbers, so all
theorems have the condition `[]Unambiguous`: what is under way is within half the range
of sequence numbers of the block being played, and the queue synchronizes once.
TLC checks that condition as an invariant of the run, where numbers do wrap; it is
not proved. It cannot hold for every value of the constants: it fails from
another start (section 6), and when more is lost in a row than half the range.

- `BlocksValid` (`BlockStateValid`) and `InOrder` (`PlayedInOrder`), from `AudioInvariant`. Each block
  of the list is at or ahead of the one being played, by less than half the
  range, which makes the code's comparisons those of positions (`Order`), and holds
  only what was sent (`GoodBlock`); a block that was given up is the one being played,
  and a later one has been sent. A position in the middle of a block has that
  block as the head of the list (`ListOK`).
- `FastRecovered` (`FastRecovery`): without reordering a packet is of the newest block, and
  that is never behind `oldestRtpBaseSequenceNumber`, because a finished or given-up
  block has all been sent (`Reached`, `Passed`). The property once said also that no more than
  two blocks wait; the proof failed, as each block that is lost wholly lets one more
  incomplete block wait.
- `ParitySuffices` (`FecSuffices`), from `FecInv`: without reordering, what was sent of the
  block being played and of later ones is in the list or lost (`AllUsed`), and a
  block that is not whole has fewer packets than would make it so (`Sparse`).
  Counting the missing packets of a block that has all been sent gives the rest.
- `PlaysOut` (`PlayoutSpec`): the refinement of `AudioPlayout`, one step for each action.

The assumptions on constants are `StreamAssumption` and `ShardsAssumption` (blocks of at least two
data packets, a range of numbers that is twice a whole number of blocks, a
stream that begins with a block), `ConnectionAssumption`, `DepacketizerAssumption`, `RecoveryAssumption`,
`CodecAssumption`, `QueueAssumption` (a frame has up to 4 blocks, a block with all its parity
is no more than half the range of sequence numbers), `InputAssumption` and
`EventsAssumption` (an event has a kind of message a client can send, a motion fits the
range of a packet). TLC evaluates
each on every run of its module. The inductive invariants were checked with TLC
before they were proved: `IInv` of the depacketizer also with 9 frames, a
corrupt one, and both ways of submission, `AnswerInv` with 7 frames, a corrupt one and a
drop limit of 4 (6.2 million states), `FecInv` of the audio stream on its run, `ReportInv` of the RTP queue also with repetition
and reordering together and numbers modulo 10 (6.9 million).

Only model-checked:

- liveness, which the prover does not handle: `WaiterReturns` and `CallReturns` of the
  queue and of `Connection`, `WaitsEnd`, `NextServed`, the end of the host;
- what folds, `SelectSeq` or a recursive function compute from a sequence of any
  length, which needs an induction the provers cannot do: `TransitExact`,
  `NothingLost` and `FinalTraffic` of `ControlStream`, `LogSpec` of `InputStream` (`InputLog`
  adds up motions with a fold), `SubmittedWhole` and `FecSuffices` of the RTP queue;
- `Unambiguous` of `AudioStream`, the condition of its theorems;
- what has not been proved yet, see the plan.

## 6. Findings

Each is shown by a run whose one property is what the quoted comment or
condition of the source says.

1. `input_stop_hangs` (`MCC/InputStream.c:442`): a text waits until no control data is
   in transit. Once the connection is interrupted nobody reads
   acknowledgements except the pings, each of which is in transit itself. The
   send thread never ends, and `stopInputStream()` waits for it.
2. `codec_recovery_lost` (`JAVA/binding/video/MediaCodecDecoderRenderer.java:732`): a
   recovery required right after another finds a thread that has not yet left
   the barrier of the first and whose flag was reset. All threads wait for ever.

### Properties the code does not keep

These are defined in the modules and refuted by TLC within seconds when added
to the configuration named; the passing runs leave them out.

- `RefreshTakesEffect` (`PROPERTY`, `VideoQueued.cfg`), `MCC/VideoDepacketizer.c:978`:
  `requestDecoderRefresh()` flushes the queue and sets two flags while the receive
  thread is past its test of them, so a frame that is not an IDR frame follows.
- `IdrWaitAnswered` (`INVARIANT`, `VideoQueued.cfg`), `MCC/VideoDepacketizer.c:812` and `:97`:
  a frame that answers an earlier invalidation ends the bookkeeping of a later
  loss while the IDR wait goes on; or a frame is predicted as lost before the
  decoder finished the first IDR frame and then arrives after all. Nothing has
  been requested, and the stream stands until the drop limit asks. With direct
  submission the first happens when the drop limit asks for an IDR frame while an
  invalidation is under way and the IDR frame is lost, which `AnswerUnderWay` exempts
  (`faults.overtaken`); the second only with `RfiEnabled = FALSE`, where every drop starts
  an IDR wait and `notifyFrameLost()` asks for nothing (`MCC/VideoDepacketizer.c:1000`).
- `AcceptedFillsHole` (`INVARIANT`, `RtpVideo.cfg` with `DupAndReorder = TRUE`),
  `MCC/RtpVideoQueue.c:121`: a repeated packet is accepted twice after an overtaken one.
- `MostRecentLossReported` (`PROPERTY`, `RtpVideo.cfg`), `MCC/RtpVideoQueue.c:658`: a lost
  frame is not reported when the flag of the frame before it is still set.
- `NoCallbackAfterStop` (`INVARIANT`, `Connection.cfg`), `MCC/Connection.c:158`: the
  termination callback can run after `LiStopConnection()` returned, or in the next
  connection. In `StreamSession` it then reaches the activity that listens now.
- `NothingKept` (`PROPERTY`, `StreamSession.cfg` with `MaxActivities = 2`), `JAVA/Game.java:1985`:
  `connecting` is never set, so an activity left while it connects stops nothing,
  against the condition `connecting || connected`. Its connection comes up for
  nobody and keeps the permit. `NextServed` therefore exempts a connection that
  is kept for ever.
- `DisconnectHeldBack` (`INVARIANT`, `ControlStream.cfg`), `MCC/ControlStream.c:726`:
  `ignoreDisconnectIntercept()` "drops disconnect events to allow us to process
  pending receives first" (719). It knows one by the length of a datagram whose
  header has the time it was sent. A host that does not wait for an
  acknowledgement (`enet_peer_disconnect_now()`) sends none, so its datagram is two
  bytes shorter and passes; `enet_protocol_handle_disconnect()` then resets the
  queues, with messages that had arrived in order, the reason for the termination
  among them, and the receive thread reports -1. `NothingLost` exempts such a host.
- `ReasonReported` (`INVARIANT`, `ControlStream.cfg`), `MCC/ControlStream.c:1003`: the
  receive thread disconnects the peer, gives the mutex back and then reports
  why the host terminated. A thread that sends in between fails and reports a
  socket error first, also where the code was to be 0 "to notify the client that
  this was not an error" (`MCC/ControlStream.c:954`).
- `Unambiguous`, `BlockStateValid` and `PlayoutSpec` (`AudioStream.cfg` with `FirstPosition = 12`),
  `MCC/RtpAudioQueue.c:284`: an `oldestRtpBaseSequenceNumber` of 0 stands for "not yet
  synchronized" and is also the first block after a wrap-around, which
  synchronizes the queue a second time.

Of the recovery of the codec, seen in the same model:

- An HDR change during a running recovery is lost: `setHdrMode()` sets the type
  only when it is `NONE`, and the recovery may already have configured the codec
  (`MediaCodecDecoderRenderer.java:1216`, against the comment at 1210).
- `prepareForStop()` can withdraw the recovery between the test and the read of the
  type (785, 802, 829), and the exception for an unexpected type is thrown.
- A recovery required after that withdrawal meets a barrier whose threads are
  gone or whose flags are stale: the choreographer waits there and `stop()` joins
  it. `WaitsEnd` exempts this case, `RecoveryExclusive` holds until `stopping`.
- A surface destroyed while the connection is being established leaves the
  decoder stopped; nothing sets `stopping` back.

Reproduced with a constant changed, and kept out of the passing runs:

- `MCC/AudioStream.c:91`: when the audio socket cannot be bound, the packet queue
  and the cipher contexts are not destroyed (`NothingLeftBehind`, with
  `<<"bind","audio">>` in `Failing`).
- `MCC/AudioStream.c:459`: when an audio thread cannot be created, the socket is
  closed under the ping thread and once more by `destroyAudioStream()`
  (`DependenciesAlive`, with `<<"spawn","audioRecv">>` or `<<"spawn","audioDec">>`).
- `MCC/VideoStream.c:275`: when the decoder thread cannot be created, the decode
  unit queue is destroyed without having been shut down (`DestroyedQuiet`, with
  `<<"spawn","videoDec">>`).
- `MCC/VideoDepacketizer.c:635`: the first packet of an IDR frame ends the IDR wait.
  When a later packet is corrupt, an invalidation is requested although the
  decoder may hold nothing, and the frame that answers it is submitted.
  TLC shows it without a refresh too: `DecodableUntilRefresh` without its condition
  `~faults.brokenIdr`, with `DirectSubmit = FALSE`, `QueueBound = 1`, `DropLimit = 20`,
  `MaxFrame = 9`, `MaxInFlight = 2`, one loss, one corrupt frame and no refresh. The
  queue overflows and is flushed, the IDR frame asked for breaks off, and
  of the two answers under way the IDR frame is lost. The properties promise
  decodable frames up to the first broken IDR frame.
- `MCC/VideoDepacketizer.c:806`: the first frame after an invalidation may refer to
  a frame lost after the host encoded it. The frame header does not tell, and
  `DecoderGetsDecodable` accepts it.

## 7. Left out

- Hosts before generation 5 (TCP control and input) and the pull renderer.
- `malloc()` (but for packet holders) and mutex creation failing; the content of packets, frames and
  messages; encryption; the validation mode of FEC.
- In `Connection`, the argument checks of `LiStartConnection()`. The thread that may
  die is the control receive thread: the others differ only in where they stand. With several, the unsynchronised test at `Connection.c:158` lets
  more than one callback through.
- Memory order: flags shared without a lock are read and written in program
  order.
- Audio: failing allocations, the cache of free blocks, decryption, the arithmetic of
  the shards (a block with enough shards is whole).
- Input: encryption and the TCP socket of old hosts, layouts and key fix-ups of
  packets, the absolute pointer position, which is read and
  written without a lock. `destroyInputStream()` is assumed to come when no client is
  inside a call, as the code assumes.
- Decoder: its choice and set-up, the patching and replay of the SPS, the timer that
  detects a hang, the blocking of `take()` against the limit of the output queue,
  and `CR_RECOVERY_TYPE_FLUSH`, which nothing requests.
- Session: dialogs and the launch request, which succeeds or fails in one step.
- Control stream: the content of messages and what is done with them but for the
  termination, encryption, unreliable messages, the TCP stream of old hosts.
  `HoldExpires` assumes that 100 ms are enough for data the host sent before it
  disconnected. `NothingLost` excludes a peer that timed out, whose messages
  ENet drops with it, and a host that left without waiting (`DisconnectHeldBack`,
  section 6). Of ENet: the handshake, fragments, channels other than
  one, wrap-around of its sequence numbers, bandwidth limits. In `Connection` a
  thread that may die stands for all of this.
- Everything the table in section 1 lists as not modelled: text, cryptography,
  network I/O or Android user interface code without shared protocol state.
  Most of the lines of the repository are there, in vendored libraries and in
  screens.
