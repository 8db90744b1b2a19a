---------------------------- MODULE Connection ----------------------------
(***************************************************************************)
(* The lifecycle of a connection: LiStartConnection(), LiStopConnection(), *)
(* LiInterruptConnection() and the termination callback of Connection.c,   *)
(* with the start, stop and destroy functions of the audio, video, input   *)
(* and control streams they call and the threads those create.             *)
(*                                                                         *)
(* The code is a long straight line with an exit at every call that may    *)
(* fail, each with its own clean-up.  It is kept as data: "program" is     *)
(* what the thread inside LiStartConnection() or LiStopConnection() does   *)
(* for one stage, a sequence of operations, and "pc" the next of them.  An *)
(* operation that may fail carries what its error path does before         *)
(* LiStopConnection() undoes the stages completed so far.  The internal    *)
(* threads run beside it.                                                  *)
(*                                                                         *)
(* Left out: hosts before generation 5 (TCP control and input, the socket  *)
(* of the first frame), failing malloc() and mutex creation, and what the  *)
(* streams carry, which is modelled by the other modules.                  *)
(***************************************************************************)
EXTENDS Integers, Sequences

CONSTANTS
    MaxSessions,   \* bound: calls of LiStartConnection()
    Failing,       \* the operations that may fail
    MayDie,        \* the threads whose fatal errors are explored
    VideoDecoder,  \* neither CAPABILITY_DIRECT_SUBMIT nor CAPABILITY_PULL_RENDERER
    AudioDecoder,  \* no CAPABILITY_DIRECT_SUBMIT for audio
    RfiEnabled     \* isReferenceFrameInvalidationEnabled()

VARIABLES
    stage,                 \* the last stage completed, 0 to 11
    api,                   \* "idle", "starting", "failing", "stopping" or "undoing"
    program, pc,           \* what that call does for one stage, and where it is
    session,               \* how often LiStartConnection() was called
    alreadyTerminated,
    ConnectionInterrupted,
    stopping,              \* ControlStream.c
    idrEvent,              \* idrFrameRequiredEvent is set
    thread,                \* where each internal thread is
    cancelled,             \* the threads told to stop by PltInterruptThread()
    queue,                 \* none, fresh (nothing offered), used, stopped
    socket,                \* invalid, open, or closed but still remembered
    peer,                  \* the ENet peer exists
    renderer,              \* what the video and the audio renderer were told
    asyncTerm,             \* AsyncTerm threads not yet run, by session
    callbacks              \* the termination callbacks the client has got

apiVars == <<stage, api, program, pc, session>>
flags   == <<alreadyTerminated, ConnectionInterrupted, stopping, idrEvent>>
objects == <<queue, socket, peer, renderer>>
clients == <<asyncTerm, callbacks>>
vars == <<apiVars, flags, objects, clients, thread, cancelled>>

Threads == {"audioPing", "audioRecv", "audioDec", "controlRecv", "lossStats",
            "requestIdr", "invalidateRef", "videoRecv", "videoDec", "videoPing",
            "inputSend"}
ASSUME ConnectionAssumption == MaxSessions \in Nat /\ MayDie \subseteq Threads

Queues  == {"audio", "tuples", "fec", "decode", "input", "holders"}
Sockets == {"audio", "video"}
Media   == {"audio", "video"}

NONE == 0                 AUDIO_STREAM_INIT == 3    CONTROL_STREAM_INIT == 5
VIDEO_STREAM_INIT == 6    INPUT_STREAM_INIT == 7    CONTROL_STREAM_START == 8
VIDEO_STREAM_START == 9   AUDIO_STREAM_START == 10  INPUT_STREAM_START == 11
Stages == 0..11

-----------------------------------------------------------------------------
(* Operations.  Try is one that may fail; undo is its error path.          *)

Op(do, what) == [do |-> do, what |-> what, fails |-> "no", undo |-> <<>>]
Try(do, what, undo) == [do |-> do, what |-> what, fails |-> "yes", undo |-> undo]
Soft(do, what) == [do |-> do, what |-> what, fails |-> "ignored", undo |-> <<>>]

Skip == Op("skip", "none")
When(b, o) == IF b THEN o ELSE Skip

InitAudio == <<Op("create", "audio"), Try("bind", "audio", <<>>)>>
\* notifyAudioPortNegotiationComplete() runs inside the handshake; its error
\* is ignored.
Handshake == <<Try("network", "rtsp", <<>>), Soft("spawn", "audioPing"),
               Try("network", "rtsp", <<>>)>>
InitControl == <<Op("stopping", FALSE), Op("idrEvent", FALSE),
                 Op("create", "tuples"), Op("create", "fec")>>
InitVideo == <<Op("create", "decode")>>
InitInput == <<Op("create", "input"), Op("create", "holders")>>

\* Mutant: the receive thread is neither interrupted nor joined.
AbortControlLeavesThread ==
    <<Op("stopping", TRUE), Op("interrupted", TRUE), Op("peer", FALSE)>>
AbortControl ==
    <<Op("stopping", TRUE), Op("interrupted", TRUE),
      Op("interrupt", "controlRecv"), Op("join", "controlRecv"), Op("peer", FALSE)>>
AbortControlAndStats ==
    <<Op("stopping", TRUE), Op("interrupted", TRUE),
      Op("interrupt", "lossStats"), Op("join", "lossStats"),
      Op("interrupt", "controlRecv"), Op("join", "controlRecv"), Op("peer", FALSE)>>
AbortControlAndRequests ==
    <<Op("stopping", TRUE), Op("idrEvent", TRUE), Op("interrupted", TRUE),
      Op("interrupt", "lossStats"), Op("join", "lossStats"),
      Op("interrupt", "controlRecv"), Op("join", "controlRecv"),
      Op("interrupt", "requestIdr"), Op("join", "requestIdr"), Op("peer", FALSE)>>
StartControl ==
    <<Try("network", "enet", <<Op("stopping", TRUE)>>), Op("peer", TRUE),
      Try("spawn", "controlRecv", <<Op("stopping", TRUE), Op("peer", FALSE)>>),
      Try("message", "startA", AbortControl), Try("message", "startB", AbortControl),
      Try("spawn", "lossStats", AbortControl),
      Try("spawn", "requestIdr", AbortControlAndStats),
      When(RfiEnabled, Try("spawn", "invalidateRef", AbortControlAndRequests))>>

AbortVideo == <<Op("stop", "video"), Op("close", "video"), Op("cleanup", "video")>>
AbortVideoReceive ==
    <<Op("stop", "video"), Op("interrupt", "videoRecv"), Op("join", "videoRecv"),
      Op("close", "video"), Op("cleanup", "video")>>
AbortVideoThreads ==
    <<Op("stop", "video"), Op("shutdown", "decode"), Op("interrupt", "videoRecv"),
      When(VideoDecoder, Op("interrupt", "videoDec")), Op("join", "videoRecv"),
      When(VideoDecoder, Op("join", "videoDec")), Op("close", "video"), Op("cleanup", "video")>>
StartVideo ==
    <<Try("setup", "video", <<>>), Try("bind", "video", <<Op("cleanup", "video")>>),
      Op("start", "video"), Try("spawn", "videoRecv", AbortVideo),
      When(VideoDecoder, Try("spawn", "videoDec", AbortVideoReceive)),
      Try("spawn", "videoPing", AbortVideoThreads)>>

AbortAudio == <<Op("stop", "audio"), Op("close", "audio"), Op("cleanup", "audio")>>
AbortAudioReceive ==
    <<Op("stop", "audio"), Op("interrupt", "audioRecv"), Op("join", "audioRecv"),
      Op("close", "audio"), Op("cleanup", "audio")>>
StartAudio ==
    <<Try("setup", "audio", <<>>), Op("start", "audio"),
      Try("spawn", "audioRecv", AbortAudio),
      When(AudioDecoder, Try("spawn", "audioDec", AbortAudioReceive))>>

StartInput == <<Try("spawn", "inputSend", <<>>)>>

\* LiStartConnection(): what each stage does.
Do(s) ==
    CASE s = 1 -> <<Try("network", "platform", <<>>)>>
      [] s = 2 -> <<Try("network", "resolve", <<>>)>>
      [] s = AUDIO_STREAM_INIT -> InitAudio
      [] s = 4 -> Handshake
      [] s = CONTROL_STREAM_INIT -> InitControl
      [] s = VIDEO_STREAM_INIT -> InitVideo
      [] s = INPUT_STREAM_INIT -> InitInput
      [] s = CONTROL_STREAM_START -> StartControl
      [] s = VIDEO_STREAM_START -> StartVideo
      [] s = AUDIO_STREAM_START -> StartAudio
      [] s = INPUT_STREAM_START -> StartInput

StopInput == <<Op("shutdown", "holders"), Op("shutdown", "input"),
               Op("join", "inputSend")>>
StopAudio ==
    <<Op("stop", "audio"), Op("interrupt", "audioRecv"),
      When(AudioDecoder, Op("shutdown", "audio")),
      When(AudioDecoder, Op("interrupt", "audioDec")),
      Op("join", "audioRecv"), When(AudioDecoder, Op("join", "audioDec")),
      Op("cleanup", "audio")>>
\* Mutant: the renderer is cleaned up without having been stopped.
StopVideoWithoutStop ==
    <<Op("shutdown", "decode"), Op("interrupt", "videoPing"), Op("interrupt", "videoRecv"),
      When(VideoDecoder, Op("interrupt", "videoDec")),
      Op("join", "videoPing"), Op("join", "videoRecv"),
      When(VideoDecoder, Op("join", "videoDec")),
      Op("close", "video"), Op("forget", "video"), Op("cleanup", "video")>>
StopVideo ==
    <<Op("stop", "video"), Op("shutdown", "decode"),
      Op("interrupt", "videoPing"), Op("interrupt", "videoRecv"),
      When(VideoDecoder, Op("interrupt", "videoDec")),
      Op("join", "videoPing"), Op("join", "videoRecv"),
      When(VideoDecoder, Op("join", "videoDec")),
      Op("close", "video"), Op("forget", "video"), Op("cleanup", "video")>>
\* Mutant: the event is set before the flag the thread tests after clearing it.
StopControlSignalsFirst ==
    <<Op("idrEvent", TRUE), Op("stopping", TRUE),
      Op("shutdown", "tuples"), Op("shutdown", "fec"),
      Op("interrupt", "lossStats"), Op("interrupt", "requestIdr"),
      Op("interrupt", "controlRecv"), Op("join", "lossStats"), Op("join", "requestIdr"),
      Op("join", "controlRecv"), When(RfiEnabled, Op("interrupt", "invalidateRef")),
      When(RfiEnabled, Op("join", "invalidateRef")), Op("peer", FALSE)>>
StopControl ==
    <<Op("stopping", TRUE), Op("shutdown", "tuples"), Op("shutdown", "fec"),
      Op("idrEvent", TRUE), Op("interrupt", "lossStats"), Op("interrupt", "requestIdr"),
      Op("interrupt", "controlRecv"), Op("join", "lossStats"), Op("join", "requestIdr"),
      Op("join", "controlRecv"), When(RfiEnabled, Op("interrupt", "invalidateRef")),
      When(RfiEnabled, Op("join", "invalidateRef")), Op("peer", FALSE)>>
DestroyInput == <<Op("destroy", "input"), Op("destroy", "holders")>>
DestroyVideo == <<Op("destroy", "decode")>>
DestroyControl == <<Op("destroy", "tuples"), Op("destroy", "fec")>>
\* Mutant: the ping thread is left to itself.
DestroyAudioLeavesPing == <<Op("close", "audio"), Op("forget", "audio"),
                            Op("destroy", "audio")>>
DestroyAudio ==
    <<Op("interrupt", "audioPing"), Op("join", "audioPing"),
      Op("close", "audio"), Op("forget", "audio"), Op("destroy", "audio")>>

\* LiStopConnection(): how each stage is undone.
Undo(s) ==
    CASE s = INPUT_STREAM_START -> StopInput
      [] s = AUDIO_STREAM_START -> StopAudio
      [] s = VIDEO_STREAM_START -> StopVideo
      [] s = CONTROL_STREAM_START -> StopControl
      [] s = INPUT_STREAM_INIT -> DestroyInput
      [] s = VIDEO_STREAM_INIT -> DestroyVideo
      [] s = CONTROL_STREAM_INIT -> DestroyControl
      [] s = AUDIO_STREAM_INIT -> DestroyAudio
      [] s \in {1, 2, 4} -> <<>>

\* LiStopConnection() begins with these two assignments.
StopConnection == <<Op("terminated", TRUE), Op("interrupted", TRUE)>>

-----------------------------------------------------------------------------
Init ==
    /\ stage = NONE /\ api = "idle" /\ program = <<>> /\ pc = 1 /\ session = 0
    /\ alreadyTerminated = FALSE /\ ConnectionInterrupted = FALSE
    /\ stopping = FALSE /\ idrEvent = FALSE
    /\ thread = [t \in Threads |-> "none"] /\ cancelled = {}
    /\ queue = [q \in Queues |-> "none"]
    /\ socket = [s \in Sockets |-> "invalid"]
    /\ peer = FALSE
    /\ renderer = [m \in Media |-> "none"]
    /\ asyncTerm = [n \in 1..MaxSessions |-> 0]
    /\ callbacks = {}

(* The calls of the client.  moonlight-core is not thread-safe with respect *)
(* to start and stop: NvConnection holds a lock around both.                *)

\* Mutant: the flags of the last connection are kept.
LiStartConnectionKeepsFlags ==
    /\ api = "idle" /\ stage = NONE /\ session < MaxSessions
    /\ session' = session + 1
    /\ ConnectionInterrupted' = FALSE
    /\ api' = "starting" /\ program' = Do(1) /\ pc' = 1
    /\ UNCHANGED <<stage, alreadyTerminated, stopping, idrEvent, objects, clients,
                   thread, cancelled>>
LiStartConnection ==
    /\ api = "idle" /\ stage = NONE /\ session < MaxSessions
    /\ session' = session + 1
    /\ alreadyTerminated' = FALSE
    /\ ConnectionInterrupted' = FALSE
    /\ api' = "starting" /\ program' = Do(1) /\ pc' = 1
    /\ UNCHANGED <<stage, stopping, idrEvent, objects, clients, thread, cancelled>>

LiStopConnection ==
    /\ api = "idle" /\ stage = INPUT_STREAM_START
    /\ api' = "stopping" /\ program' = StopConnection /\ pc' = 1
    /\ UNCHANGED <<stage, session, flags, objects, clients, thread, cancelled>>

LiInterruptConnection ==
    /\ api = "starting" \/ (api = "idle" /\ stage = INPUT_STREAM_START)
    /\ ~ConnectionInterrupted
    /\ ConnectionInterrupted' = TRUE
    /\ UNCHANGED <<apiVars, alreadyTerminated, stopping, idrEvent, objects, clients,
                   thread, cancelled>>

-----------------------------------------------------------------------------
(* One operation of the call under way.                                    *)

AtEnd == pc > Len(program)
op == program[pc]
Pop == pc' = pc + 1 /\ UNCHANGED <<stage, api, program, session>>
Enter(mode, what) == api' = mode /\ program' = what /\ pc' = 1 /\ UNCHANGED session

\* The queues a thread appends to.  A queue counts as used from the moment
\* one of its producers exists; audio submitted directly is not queued.
Feeds(t) == CASE t = "audioRecv" -> IF AudioDecoder THEN {"audio"} ELSE {}
              [] t = "videoRecv" -> {"decode", "tuples", "fec"}
              [] t = "inputSend" -> {"input", "holders"}
              [] OTHER -> {}

Spawn(t) ==
    /\ op.do = "spawn" /\ op.what = t
    /\ thread' = [thread EXCEPT ![t] = "running"]
    /\ cancelled' = cancelled \ {t}
    /\ queue' = [q \in Queues |-> IF q \in Feeds(t) THEN "used" ELSE queue[q]]
    /\ Pop /\ UNCHANGED <<flags, socket, peer, renderer, clients>>

Interrupt(t) ==
    /\ op.do = "interrupt" /\ op.what = t
    /\ cancelled' = cancelled \cup {t}
    /\ Pop /\ UNCHANGED <<flags, objects, clients, thread>>

\* Blocks until the thread procedure has returned.  Only the audio ping
\* thread may be missing (pingThreadStarted).
Join(t) ==
    /\ op.do = "join" /\ op.what = t
    /\ thread[t] \in {"none", "exited"}
    /\ thread' = [thread EXCEPT ![t] = "none"]
    /\ cancelled' = cancelled \ {t}
    /\ Pop /\ UNCHANGED <<flags, objects, clients>>

QueueOp ==
    /\ op.do \in {"create", "shutdown", "destroy"}
    /\ queue' = [queue EXCEPT ![op.what] =
           CASE op.do = "create" -> "fresh"
             [] op.do = "shutdown" -> "stopped"
             [] op.do = "destroy" -> "none"]
    /\ Pop /\ UNCHANGED <<flags, socket, peer, renderer, clients,
                          thread, cancelled>>

SocketOp ==
    /\ op.do \in {"bind", "close", "forget"}
    /\ socket' = [socket EXCEPT ![op.what] =
           CASE op.do = "bind" -> "open"
             [] op.do = "close" -> "closed"
             [] op.do = "forget" -> "invalid"]
    /\ Pop /\ UNCHANGED <<flags, queue, peer, renderer, clients,
                          thread, cancelled>>

RendererOp ==
    /\ op.do \in {"setup", "start", "stop", "cleanup"}
    /\ renderer' = [renderer EXCEPT ![op.what] =
           CASE op.do = "setup" -> "ready"
             [] op.do = "start" -> "started"
             [] op.do = "stop" -> "stopped"
             [] op.do = "cleanup" -> "none"]
    /\ Pop /\ UNCHANGED <<flags, queue, socket, peer, clients,
                          thread, cancelled>>

FlagOp ==
    /\ op.do \in {"stopping", "idrEvent", "terminated", "interrupted", "peer"}
    /\ stopping' = IF op.do = "stopping" THEN op.what ELSE stopping
    /\ idrEvent' = IF op.do = "idrEvent" THEN op.what ELSE idrEvent
    /\ alreadyTerminated' = IF op.do = "terminated" THEN op.what ELSE alreadyTerminated
    /\ ConnectionInterrupted' =
           IF op.do = "interrupted" THEN op.what ELSE ConnectionInterrupted
    /\ peer' = IF op.do = "peer" THEN op.what ELSE peer
    /\ Pop /\ UNCHANGED <<queue, socket, renderer, clients,
                          thread, cancelled>>

SkipOp ==
    /\ op.do = "skip"
    /\ Pop /\ UNCHANGED <<flags, objects, clients, thread, cancelled>>

\* The handshake and the ENet connection give up when interrupted.
GivesUp == op.do = "network" /\ op.what \in {"rtsp", "enet"} /\ ConnectionInterrupted

Exchange ==
    /\ op.do \in {"network", "message"} /\ ~GivesUp
    /\ Pop /\ UNCHANGED <<flags, objects, clients, thread, cancelled>>

\* LiStartConnection() jumps to its Cleanup label.
Fails ==
    /\ op.fails = "yes" /\ (<<op.do, op.what>> \in Failing \/ GivesUp)
    /\ Enter("failing", op.undo) /\ UNCHANGED stage
    /\ UNCHANGED <<flags, objects, clients, thread, cancelled>>
FailsUnnoticed ==
    /\ op.fails = "ignored" /\ <<op.do, op.what>> \in Failing
    /\ Pop /\ UNCHANGED <<flags, objects, clients, thread, cancelled>>

\* stage++: the next stage, or LiStartConnection() returns.
Completed ==
    /\ api = "starting"
    /\ stage' = stage + 1
    /\ IF stage' = INPUT_STREAM_START THEN Enter("idle", <<>>)
       ELSE Enter("starting", Do(stage' + 1))
\* LiStopConnection() undoes the last stage completed, or returns.
UndoOrReturn(s) == IF s = NONE THEN Enter("idle", <<>>) ELSE Enter("undoing", Undo(s))
CleanedUp ==
    \/ api = "failing" /\ Enter("stopping", StopConnection) /\ UNCHANGED stage
    \/ api = "stopping" /\ UndoOrReturn(stage) /\ UNCHANGED stage
    \/ api = "undoing" /\ stage' = stage - 1 /\ UndoOrReturn(stage')

ApiStep ==
    /\ api # "idle"
    /\ \/ /\ ~AtEnd
          /\ \/ \E t \in Threads : Spawn(t) \/ Interrupt(t) \/ Join(t)
             \/ QueueOp \/ SocketOp \/ RendererOp \/ FlagOp \/ SkipOp
             \/ Exchange \/ Fails \/ FailsUnnoticed
       \/ /\ AtEnd
          /\ Completed \/ CleanedUp
          /\ UNCHANGED <<flags, objects, clients, thread, cancelled>>

-----------------------------------------------------------------------------
(* The internal threads.                                                   *)

ThreadAt(t, there) ==
    /\ thread' = [thread EXCEPT ![t] = there]
    /\ UNCHANGED <<apiVars, objects, cancelled>>

\* What a consumer waits on: PltInterruptThread() does not wake it.
WaitsOn(t) == CASE t = "audioDec" -> "audio" [] t = "videoDec" -> "decode"
                [] t = "invalidateRef" -> "tuples" [] t = "inputSend" -> "input"
Consumers == {"audioDec", "videoDec", "invalidateRef", "inputSend"}

\* A thread that polls sees its interrupt flag, the control receive thread
\* the interrupt of the connection as well.
PollingThreadExits(t) ==
    /\ t \notin Consumers \cup {"requestIdr"}
    /\ thread[t] = "running"
    /\ t \in cancelled \/ (t = "controlRecv" /\ ConnectionInterrupted)
    /\ ThreadAt(t, "exited") /\ UNCHANGED <<flags, clients>>

ConsumerExits(t) ==
    /\ t \in Consumers
    /\ thread[t] = "running" /\ queue[WaitsOn(t)] = "stopped"
    /\ ThreadAt(t, "exited") /\ UNCHANGED <<flags, clients>>

\* A consumer that was busy when interrupted leaves at the top of its loop.
BusyConsumerExits(t) ==
    /\ t \in Consumers
    /\ thread[t] = "running" /\ t \in cancelled
    /\ ThreadAt(t, "exited") /\ UNCHANGED <<flags, clients>>

\* inputSendThreadProc() at a text: it waits until the control stream has no
\* data in transit.  A stop does not end this wait: nothing interrupts this
\* thread.
TextWaits ==
    /\ thread["inputSend"] = "running"
    /\ ThreadAt("inputSend", "transit") /\ UNCHANGED <<flags, clients>>
TextGoesOn ==
    /\ thread["inputSend"] = "transit"
    /\ ThreadAt("inputSend", "running") /\ UNCHANGED <<flags, clients>>

\* requestIdrFrameFunc(): test the interrupt flag, wait for the event, clear
\* it, test "stopping", send.
IdrLoopTop ==
    /\ thread["requestIdr"] = "running"
    /\ ThreadAt("requestIdr", IF "requestIdr" \in cancelled THEN "exited" ELSE "waiting")
    /\ UNCHANGED <<flags, clients>>
IdrWakes ==
    /\ thread["requestIdr"] = "waiting" /\ idrEvent
    /\ ThreadAt("requestIdr", "woken") /\ UNCHANGED <<flags, clients>>
IdrClears ==
    /\ thread["requestIdr"] = "woken"
    /\ idrEvent' = FALSE
    /\ ThreadAt("requestIdr", "cleared")
    /\ UNCHANGED <<alreadyTerminated, ConnectionInterrupted, stopping, clients>>
IdrTests ==
    /\ thread["requestIdr"] = "cleared"
    /\ ThreadAt("requestIdr", IF stopping THEN "exited" ELSE "sending")
    /\ UNCHANGED <<flags, clients>>
IdrSent ==
    /\ thread["requestIdr"] = "sending"
    /\ ThreadAt("requestIdr", "running") /\ UNCHANGED <<flags, clients>>
\* LiRequestIdrFrame() on a thread of the video stream.
IdrRequested ==
    /\ "running" \in {thread["videoRecv"], thread["videoDec"]} /\ ~idrEvent
    /\ idrEvent' = TRUE
    /\ UNCHANGED <<apiVars, alreadyTerminated, ConnectionInterrupted, stopping, objects,
                   clients, thread, cancelled>>

\* A thread that reported a fatal error returns, but the two request threads
\* carry on.
AfterError(t) == IF t \in {"requestIdr", "invalidateRef"} THEN "running" ELSE "exited"

\* ClInternalConnectionTerminated(): the test ...
FatalError(t) ==
    /\ t \in MayDie
    /\ thread[t] = IF t = "requestIdr" THEN "sending" ELSE "running"
    /\ ThreadAt(t, IF alreadyTerminated \/ ConnectionInterrupted
                   THEN AfterError(t) ELSE "terminating")
    /\ UNCHANGED <<flags, clients>>
\* ... and what follows it, without a lock.
Terminates(t) ==
    /\ thread[t] = "terminating"
    /\ alreadyTerminated' = TRUE
    /\ asyncTerm' = [asyncTerm EXCEPT ![session] = @ + 1]
    /\ ThreadAt(t, AfterError(t))
    /\ UNCHANGED <<ConnectionInterrupted, stopping, idrEvent, callbacks>>

\* The AsyncTerm thread calls the client.
Phase == IF api = "idle" /\ stage = NONE THEN "none" ELSE "connection"
AsyncTermRuns(n) ==
    /\ asyncTerm[n] > 0
    /\ asyncTerm' = [asyncTerm EXCEPT ![n] = @ - 1]
    /\ callbacks' = callbacks \cup {[from |-> n, at |-> session, phase |-> Phase]}
    /\ UNCHANGED <<apiVars, flags, objects, thread, cancelled>>

ThreadStep(t) == PollingThreadExits(t) \/ ConsumerExits(t) \/ Terminates(t)
IdrStep == IdrLoopTop \/ IdrWakes \/ IdrClears \/ IdrTests \/ IdrSent

Next ==
    \/ LiStartConnection \/ LiStopConnection \/ LiInterruptConnection
    \/ ApiStep
    \/ \E t \in Threads : ThreadStep(t) \/ BusyConsumerExits(t) \/ FatalError(t)
    \/ IdrStep \/ IdrRequested \/ TextWaits \/ TextGoesOn
    \/ \E n \in 1..MaxSessions : AsyncTermRuns(n)

Spec == Init /\ [][Next]_vars

\* The scheduler runs the thread inside the call and every internal thread.
\* A drained input queue holds finitely many texts, so the send thread comes
\* to its end again and again unless it stays at one of them (SF); that its
\* data is acknowledged there is not assumed.
FairSpec == /\ Spec /\ WF_vars(ApiStep) /\ WF_vars(IdrStep)
            /\ \A t \in Threads : WF_vars(ThreadStep(t))
            /\ SF_vars(ConsumerExits("inputSend"))

-----------------------------------------------------------------------------
(* Properties.                                                             *)

TypeOK ==
    /\ stage \in Stages /\ session \in 0..MaxSessions
    /\ api \in {"idle", "starting", "failing", "stopping", "undoing"}
    /\ pc \in 1..Len(program) + 1
    /\ alreadyTerminated \in BOOLEAN /\ ConnectionInterrupted \in BOOLEAN
    /\ stopping \in BOOLEAN /\ idrEvent \in BOOLEAN /\ peer \in BOOLEAN
    /\ thread \in [Threads -> {"none", "running", "waiting", "woken", "cleared",
                               "sending", "transit", "terminating", "exited"}]
    /\ cancelled \subseteq Threads
    /\ queue \in [Queues -> {"none", "fresh", "used", "stopped"}]
    /\ socket \in [Sockets -> {"invalid", "open", "closed"}]
    /\ renderer \in [Media -> {"none", "ready", "started", "stopped"}]
    /\ asyncTerm \in [1..MaxSessions -> Nat]

Alive(t) == thread[t] \notin {"none", "exited"}
Exists(qs) == \A q \in qs : queue[q] # "none"

\* No thread outlives what it uses: the queues, sockets, renderers and the
\* ENet peer of LiStopConnection() and of every error path of the start
\* functions go only after the threads that use them have been joined.
DependenciesAlive ==
    /\ TypeOK
    /\ Alive("audioPing") \/ Alive("audioRecv") => socket["audio"] = "open"
    /\ Alive("videoPing") \/ Alive("videoRecv") => socket["video"] = "open"
    /\ Alive("audioRecv") \/ Alive("audioDec") =>
           Exists({"audio"}) /\ renderer["audio"] # "none"
    /\ Alive("videoRecv") \/ Alive("videoDec") =>
           Exists({"decode", "tuples", "fec"}) /\ renderer["video"] # "none"
    /\ (\E t \in {"controlRecv", "lossStats", "requestIdr", "invalidateRef"} : Alive(t)) =>
           Exists({"tuples", "fec"}) /\ peer
    /\ Alive("inputSend") => Exists({"input", "holders"}) /\ peer

\* A connection that was stopped, or whose start failed at any point, leaves
\* nothing behind: what cleanupPlatform() asserts of threads, mutexes and
\* events, and the sockets, renderers and the peer besides.
NothingLeftBehind ==
    api = "idle" /\ stage = NONE =>
        /\ \A t \in Threads : thread[t] = "none"
        /\ \A q \in Queues : queue[q] = "none"
        /\ \A s \in Sockets : socket[s] # "open"
        /\ \A m \in Media : renderer[m] = "none"
        /\ ~peer

\* A queue something may have been put in is shut down before it is destroyed
\* (the assertion at the top of LbqDestroyLinkedBlockingQueue()).
DestroyedQuiet ==
    [][\A q \in Queues : queue'[q] = "none" => queue[q] # "used"]_vars

\* The renderers see setup, start, stop, cleanup in this order, once each, or
\* cleanup right after setup, whatever fails in between.
RendererProtocol ==
    [][\A m \in Media : renderer'[m] # renderer[m] =>
          <<renderer[m], renderer'[m]>> \in
             {<<"none", "ready">>, <<"ready", "started">>, <<"ready", "none">>,
              <<"started", "stopped">>, <<"stopped", "none">>}]_vars

\* Queues and renderers go through their lives in order.
LivesInOrder == DestroyedQuiet /\ RendererProtocol

\* A thread of an established connection that stops because of an error is
\* reported: unless the client has interrupted the connection itself, its
\* termination callback ran or is about to.
NoSilentDeath ==
    /\ api = "idle" /\ stage = INPUT_STREAM_START /\ ~ConnectionInterrupted
    /\ \E t \in MayDie : thread[t] = "exited"
    => asyncTerm[session] > 0 \/ \E c \in callbacks : c.from = session

\* LiStopConnection() joins a send thread that waits at a text.
TextHoldsStop ==
    /\ api = "undoing" /\ ~AtEnd /\ op = Op("join", "inputSend")
    /\ thread["inputSend"] = "transit"

\* Starting or stopping a connection comes to an end: no join waits for a
\* thread that nothing wakes.  The one stop that may hang waits for a text
\* whose control data is never acknowledged (inputSendThreadProc(); how that
\* comes about is the run input_stop_hangs of InputStream).
CallReturns == []<>(api = "idle") \/ <>[]TextHoldsStop

\* The termination callback of a connection does not reach the client any more
\* when LiStopConnection() has returned, let alone in its next connection (the
\* comment on the hook of the callback in LiStartConnection()).
NoCallbackAfterStop ==
    \A c \in callbacks : c.phase = "connection" /\ c.from = c.at
=============================
