-------------------------- MODULE ConnectionProofs --------------------------
(***************************************************************************)
(* Proofs about Connection, for every choice of decoders, of invalidation, *)
(* of the operations that fail (but for four) and of the threads that die. *)
(*                                                                         *)
(* What matters of a state is what the call under way has acquired: which  *)
(* threads it has created, which queues exist and are used, which sockets  *)
(* are open, the peer, and what the renderers were told.  The internal     *)
(* threads never change that: they only end, and a thread that has ended   *)
(* is still to be joined.  So the programs of Connection can be followed   *)
(* operation by operation as if they ran alone.                            *)
(*                                                                         *)
(* Good(m, s, p, k, a) says that from operation k of program p on, in mode *)
(* m with s stages completed and a acquired, whatever fails, no operation  *)
(* ever breaks a rule (Legal) or takes something from under a thread       *)
(* (Safe), and nothing is left when the call returns at stage 0.  The      *)
(* lemmas go through the programs backwards, LiStopConnection() first;     *)
(* that Good is an invariant then takes one step per action.               *)
(***************************************************************************)
EXTENDS Connection, TLAPS

Modes == {"idle", "starting", "failing", "stopping", "undoing"}

\* The failures after which the code does not clean up, or cleans up too much
\* (AudioStream.c:91, 459 and 467, VideoStream.c:275): see the README.
KnownFaults == {<<"bind", "audio">>, <<"spawn", "audioRecv">>, <<"spawn", "audioDec">>,
                <<"spawn", "videoDec">>}
NoKnownFault == KnownFaults \cap Failing = {}

-----------------------------------------------------------------------------
(* What a call has acquired.  The peer counts among the sockets.            *)

Has(threads, exist, used, open, video, audio) ==
    [threads |-> threads, exist |-> exist, used |-> used, open |-> open,
     video |-> video, audio |-> audio]

Acquired ==
    Has({t \in Threads : thread[t] # "none"}, {q \in Queues : queue[q] # "none"},
        {q \in Queues : queue[q] = "used"},
        {s \in Sockets \cup {"peer"} : IF s = "peer" THEN peer ELSE socket[s] = "open"},
        renderer["video"], renderer["audio"])

\* b allows all that a allows: it counts at least the threads and the used
\* queues of a.
Within(a, b) ==
    /\ a.threads \subseteq b.threads /\ a.used \subseteq b.used
    /\ a.exist = b.exist /\ a.open = b.open
    /\ a.video = b.video /\ a.audio = b.audio

\* The threads created have what they use.
Safe(s, a) ==
    /\ "audioPing" \in a.threads \/ "audioRecv" \in a.threads => "audio" \in a.open
    /\ "videoPing" \in a.threads \/ "videoRecv" \in a.threads => "video" \in a.open
    /\ "audioRecv" \in a.threads \/ "audioDec" \in a.threads =>
           "audio" \in a.exist /\ a.audio # "none"
    /\ "videoRecv" \in a.threads \/ "videoDec" \in a.threads =>
           {"decode", "tuples", "fec"} \subseteq a.exist /\ a.video # "none"
    /\ "controlRecv" \in a.threads \/ "lossStats" \in a.threads
         \/ "requestIdr" \in a.threads \/ "invalidateRef" \in a.threads =>
           {"tuples", "fec"} \subseteq a.exist /\ "peer" \in a.open
    /\ "inputSend" \in a.threads => {"input", "holders"} \subseteq a.exist /\ "peer" \in a.open
    /\ "requestIdr" \in a.threads => s >= CONTROL_STREAM_INIT

Nothing(a) ==
    /\ a.threads = {} /\ a.exist = {} /\ a.open = {}
    /\ a.video = "none" /\ a.audio = "none"

Told(do, before) == CASE do = "setup" -> "ready" [] do = "start" -> "started"
                      [] do = "stop" -> "stopped" [] do = "cleanup" -> "none"
                      [] OTHER -> before

Effect(o, a) ==
    Has(CASE o.do = "spawn" -> a.threads \cup {o.what}
          [] o.do = "join" -> a.threads \ {o.what} [] OTHER -> a.threads,
        CASE o.do = "spawn" -> a.exist \cup Feeds(o.what)
          [] o.do \in {"create", "shutdown"} -> a.exist \cup {o.what}
          [] o.do = "destroy" -> a.exist \ {o.what} [] OTHER -> a.exist,
        CASE o.do = "spawn" -> a.used \cup Feeds(o.what)
          [] o.do \in {"create", "shutdown", "destroy"} -> a.used \ {o.what}
          [] OTHER -> a.used,
        CASE o.do = "bind" -> a.open \cup {o.what}
          [] o.do \in {"close", "forget"} -> a.open \ {o.what}
          [] o.do = "peer" -> IF o.what THEN a.open \cup {"peer"} ELSE a.open \ {"peer"}
          [] OTHER -> a.open,
        IF o.what = "video" THEN Told(o.do, a.video) ELSE a.video,
        IF o.what = "audio" THEN Told(o.do, a.audio) ELSE a.audio)

\* The rules of an operation: what it may be applied to, a used queue is not
\* destroyed, the renderers are called in order, and nobody is told to stop
\* by a start that has not failed.
OnThread == {"spawn", "interrupt", "join"}
OnQueue == {"create", "shutdown", "destroy"}
OnSocket == {"bind", "close", "forget"}
OnRenderer == {"setup", "start", "stop", "cleanup"}
OnFlag == {"stopping", "idrEvent", "terminated", "interrupted", "peer"}
Status(o, a) == IF o.what = "video" THEN a.video ELSE a.audio
Legal(m, o, a) ==
    /\ o.do \in OnThread \cup OnQueue \cup OnSocket \cup OnRenderer \cup OnFlag
                  \cup {"network", "message", "skip"}
    /\ o.fails \in {"no", "yes", "ignored"}
    /\ o.do \in OnThread => o.what \in Threads
    /\ o.do \in OnQueue => o.what \in Queues
    /\ o.do \in OnSocket => o.what \in Sockets
    /\ o.do \in OnRenderer => o.what \in Media
    /\ o.do \in OnFlag => o.what \in BOOLEAN
    /\ o.do = "destroy" => o.what \notin a.used
    /\ o.do = "setup" => Status(o, a) = "none"
    /\ o.do = "start" => Status(o, a) = "ready"
    /\ o.do = "stop" => Status(o, a) = "started"
    /\ o.do = "cleanup" => Status(o, a) \in {"ready", "stopped"}
    /\ o.fails = "ignored" => o.do = "spawn" /\ Feeds(o.what) = {}
    /\ m = "starting" => /\ o.do \notin {"interrupt", "shutdown", "terminated", "interrupted"}
                         /\ o.do = "stopping" => o.what = FALSE

MayFail(o) == o.fails = "yes" /\ (<<o.do, o.what>> \in Failing \/ o.do = "network")

-----------------------------------------------------------------------------
(* Good is the largest set of positions that keep the rules and lead to    *)
(* positions of the set.                                                   *)

Fits(m, s, p, k) ==
    /\ m \in Modes /\ s \in Stages
    /\ Len(p) \in Nat /\ k \in 1 .. Len(p) + 1
    /\ m = "starting" => s < INPUT_STREAM_START /\ p = Do(s + 1)
    /\ m = "undoing" => s > NONE
    /\ m = "idle" => s \in {NONE, INPUT_STREAM_START}

Reaches(G, m, s, p, k, a) == \E b : Within(a, b) /\ <<m, s, p, k, b>> \in G

Undone(G, s, a) ==
    IF s = NONE THEN Reaches(G, "idle", s, <<>>, 1, a)
    ELSE Reaches(G, "undoing", s, Undo(s), 1, a)
Continues(G, m, s, a) ==
    /\ m = "starting" =>
          IF s + 1 = INPUT_STREAM_START THEN Reaches(G, "idle", s + 1, <<>>, 1, a)
          ELSE Reaches(G, "starting", s + 1, Do(s + 2), 1, a)
    /\ m = "failing" => Reaches(G, "stopping", s, StopConnection, 1, a)
    /\ m = "stopping" => Undone(G, s, a)
    /\ m = "undoing" => Undone(G, s - 1, a)

Proceeds(G, m, s, p, k, a) ==
    /\ Legal(m, p[k], a)
    /\ Reaches(G, m, s, p, k + 1, Effect(p[k], a))
    /\ MayFail(p[k]) => Reaches(G, "failing", s, p[k].undo, 1, a)

Sound(G, m, s, p, k, a) ==
    /\ Fits(m, s, p, k) /\ Safe(s, a)
    /\ m = "idle" /\ s = NONE => Nothing(a)
    /\ m = "idle" /\ s # NONE => Reaches(G, "stopping", s, StopConnection, 1, a)
    /\ m # "idle" /\ k <= Len(p) => Proceeds(G, m, s, p, k, a)
    /\ m # "idle" /\ k > Len(p) => Continues(G, m, s, a)

Closed(G) == \A m, s, p, k, a : <<m, s, p, k, a>> \in G => Sound(G, m, s, p, k, a)

Good(m, s, p, k, a) == \E G : Closed(G) /\ Reaches(G, m, s, p, k, a)

-----------------------------------------------------------------------------
(* Lemmas about Within.                                                    *)

LEMMA WithinSelf == ASSUME NEW a PROVE Within(a, a)
  BY DEF Within

LEMMA WithinTrans ==
  ASSUME NEW a, NEW b, NEW c, Within(a, b), Within(b, c) PROVE Within(a, c)
  BY DEF Within

LEMMA SafeWithin ==
  ASSUME NEW s, NEW a, NEW b, Within(a, b), Safe(s, b) PROVE Safe(s, a)
  BY DEF Within, Safe

LEMMA NothingWithin ==
  ASSUME NEW a, NEW b, Within(a, b), Nothing(b) PROVE Nothing(a)
  BY DEF Within, Nothing

LEMMA LegalWithin ==
  ASSUME NEW m, NEW o, NEW a, NEW b, Within(a, b), Legal(m, o, b) PROVE Legal(m, o, a)
  BY DEF Within, Legal, Status

LEMMA EffectWithin ==
  ASSUME NEW o, NEW a, NEW b, Within(a, b) PROVE Within(Effect(o, a), Effect(o, b))
  <1>1. Effect(o, a).threads \subseteq Effect(o, b).threads
    BY DEF Within, Effect, Has
  <1>2. Effect(o, a).used \subseteq Effect(o, b).used
    BY DEF Within, Effect, Has
  <1>3. Effect(o, a).exist = Effect(o, b).exist
    BY DEF Within, Effect, Has
  <1>4. Effect(o, a).open = Effect(o, b).open
    BY DEF Within, Effect, Has
  <1>5. Effect(o, a).video = Effect(o, b).video /\ Effect(o, a).audio = Effect(o, b).audio
    BY DEF Within, Effect, Has
  <1>6. QED
    BY <1>1, <1>2, <1>3, <1>4, <1>5 DEF Within

-----------------------------------------------------------------------------
(* What Good promises.                                                     *)

LEMMA ReachesGood ==
  ASSUME NEW G, NEW m, NEW s, NEW p, NEW k, NEW a, NEW b,
         Closed(G), Reaches(G, m, s, p, k, b), Within(a, b)
  PROVE  Good(m, s, p, k, a)
  <1>1. PICK c : Within(b, c) /\ <<m, s, p, k, c>> \in G
    BY DEF Reaches
  <1>2. Within(a, c)
    BY <1>1, WithinTrans
  <1>3. QED
    BY <1>1, <1>2 DEF Good, Reaches

LEMMA GoodWithin ==
  ASSUME NEW m, NEW s, NEW p, NEW k, NEW a, NEW b, Good(m, s, p, k, b), Within(a, b)
  PROVE  Good(m, s, p, k, a)
  BY ReachesGood DEF Good

LEMMA GoodSafe ==
  ASSUME NEW m, NEW s, NEW p, NEW k, NEW a, Good(m, s, p, k, a)
  PROVE  Fits(m, s, p, k) /\ Safe(s, a) /\ (m = "idle" /\ s = NONE => Nothing(a))
  <1>1. PICK G, b : Closed(G) /\ Within(a, b) /\ <<m, s, p, k, b>> \in G
    BY DEF Good, Reaches
  <1>2. Sound(G, m, s, p, k, b)
    BY <1>1 DEF Closed
  <1>3. QED
    BY <1>1, <1>2, SafeWithin, NothingWithin DEF Sound

LEMMA GoodIdle ==
  ASSUME NEW s, NEW p, NEW k, NEW a, Good("idle", s, p, k, a), s # NONE
  PROVE  Good("stopping", s, StopConnection, 1, a)
  <1>1. PICK G, b : Closed(G) /\ Within(a, b) /\ <<"idle", s, p, k, b>> \in G
    BY DEF Good, Reaches
  <1>2. Reaches(G, "stopping", s, StopConnection, 1, b)
    BY <1>1 DEF Closed, Sound
  <1>3. QED
    BY <1>1, <1>2, ReachesGood

LEMMA GoodProceeds ==
  ASSUME NEW m, NEW s, NEW p, NEW k, NEW a, Good(m, s, p, k, a), m # "idle", k <= Len(p)
  PROVE  /\ Legal(m, p[k], a)
         /\ Good(m, s, p, k + 1, Effect(p[k], a))
         /\ MayFail(p[k]) => Good("failing", s, p[k].undo, 1, a)
  <1>1. PICK G, b : Closed(G) /\ Within(a, b) /\ <<m, s, p, k, b>> \in G
    BY DEF Good, Reaches
  <1>2. Proceeds(G, m, s, p, k, b)
    BY <1>1 DEF Closed, Sound
  <1>3. Legal(m, p[k], a)
    BY <1>1, <1>2, LegalWithin DEF Proceeds
  <1>4. Good(m, s, p, k + 1, Effect(p[k], a))
    <2>1. Reaches(G, m, s, p, k + 1, Effect(p[k], b))
      BY <1>2 DEF Proceeds
    <2>2. QED
      BY <1>1, <2>1, EffectWithin, ReachesGood
  <1>5. MayFail(p[k]) => Good("failing", s, p[k].undo, 1, a)
    BY <1>1, <1>2, ReachesGood DEF Proceeds
  <1>6. QED
    BY <1>3, <1>4, <1>5

\* Where LiStopConnection() is when s stages are left.
GoodUndone(s, a) == IF s = NONE THEN Good("idle", s, <<>>, 1, a)
                    ELSE Good("undoing", s, Undo(s), 1, a)

LEMMA GoodContinues ==
  ASSUME NEW m, NEW s, NEW p, NEW k, NEW a, Good(m, s, p, k, a), m # "idle", k > Len(p)
  PROVE  /\ m = "starting" =>
              IF s + 1 = INPUT_STREAM_START THEN Good("idle", s + 1, <<>>, 1, a)
              ELSE Good("starting", s + 1, Do(s + 2), 1, a)
         /\ m = "failing" => Good("stopping", s, StopConnection, 1, a)
         /\ m = "stopping" => GoodUndone(s, a)
         /\ m = "undoing" => GoodUndone(s - 1, a)
  <1>1. PICK G, b : Closed(G) /\ Within(a, b) /\ <<m, s, p, k, b>> \in G
    BY DEF Good, Reaches
  <1>2. Continues(G, m, s, b)
    BY <1>1 DEF Closed, Sound
  <1>3. ASSUME NEW mm, NEW ss, NEW pp, NEW kk, Reaches(G, mm, ss, pp, kk, b)
        PROVE  Good(mm, ss, pp, kk, a)
    BY <1>1, <1>3, ReachesGood
  <1>4. ASSUME NEW ss, Undone(G, ss, b) PROVE GoodUndone(ss, a)
    BY <1>3, <1>4 DEF Undone, GoodUndone
  <1>5. QED
    BY <1>2, <1>3, <1>4 DEF Continues

-----------------------------------------------------------------------------
(* How Good is shown: from the positions an operation leads to.            *)

LEMMA ReachesMore ==
  ASSUME NEW G, NEW H, G \subseteq H, NEW m, NEW s, NEW p, NEW k, NEW a,
         Reaches(G, m, s, p, k, a)
  PROVE  Reaches(H, m, s, p, k, a)
  BY DEF Reaches

LEMMA SoundMore ==
  ASSUME NEW G, NEW H, G \subseteq H, NEW m, NEW s, NEW p, NEW k, NEW a,
         Sound(G, m, s, p, k, a)
  PROVE  Sound(H, m, s, p, k, a)
  <1>1. ASSUME NEW ss, Undone(G, ss, a) PROVE Undone(H, ss, a)
    BY <1>1, ReachesMore DEF Undone
  <1>2. Proceeds(G, m, s, p, k, a) => Proceeds(H, m, s, p, k, a)
    BY ReachesMore DEF Proceeds
  <1>3. Continues(G, m, s, a) => Continues(H, m, s, a)
    BY <1>1, ReachesMore DEF Continues
  <1>4. QED
    BY <1>2, <1>3, ReachesMore DEF Sound

LEMMA ClosedUnion ==
  ASSUME NEW G, NEW H, Closed(G), Closed(H) PROVE Closed(G \cup H)
  <1> SUFFICES ASSUME NEW m, NEW s, NEW p, NEW k, NEW a, <<m, s, p, k, a>> \in G \cup H
               PROVE  Sound(G \cup H, m, s, p, k, a)
    BY DEF Closed
  <1>1. CASE <<m, s, p, k, a>> \in G
    <2>1. Sound(G, m, s, p, k, a) /\ G \subseteq G \cup H
      BY <1>1 DEF Closed
    <2>2. QED
      BY <2>1, SoundMore
  <1>2. CASE <<m, s, p, k, a>> \in H
    <2>1. Sound(H, m, s, p, k, a) /\ H \subseteq G \cup H
      BY <1>2 DEF Closed
    <2>2. QED
      BY <2>1, SoundMore
  <1>3. QED
    BY <1>1, <1>2

LEMMA GoodAdded ==
  ASSUME NEW G, Closed(G), NEW m, NEW s, NEW p, NEW k, NEW a, Sound(G, m, s, p, k, a)
  PROVE  Good(m, s, p, k, a)
  <1> DEFINE H == G \cup {<<m, s, p, k, a>>}
  <1>1. G \subseteq H /\ <<m, s, p, k, a>> \in H
    OBVIOUS
  <1>2. Sound(H, m, s, p, k, a)
    BY <1>1, SoundMore
  <1>3. Closed(H)
    <2> SUFFICES ASSUME NEW mm, NEW ss, NEW pp, NEW kk, NEW aa, <<mm, ss, pp, kk, aa>> \in H
                 PROVE  Sound(H, mm, ss, pp, kk, aa)
      BY DEF Closed
    <2>1. CASE <<mm, ss, pp, kk, aa>> \in G
      <3>1. Sound(G, mm, ss, pp, kk, aa)
        BY <2>1 DEF Closed
      <3>2. QED
        BY <1>1, <3>1, SoundMore
    <2>2. CASE <<mm, ss, pp, kk, aa>> = <<m, s, p, k, a>>
      BY <1>2, <2>2
    <2>3. QED
      BY <2>1, <2>2
  <1>4. Reaches(H, m, s, p, k, a)
    BY <1>1, WithinSelf DEF Reaches
  <1>5. QED
    BY <1>3, <1>4 DEF Good

\* One operation.
LEMMA Step ==
  ASSUME NEW m, NEW s, NEW p, Fits(m, s, p, 1), m # "idle",
         NEW k \in 1 .. Len(p), NEW a, NEW b, Safe(s, a),
         Legal(m, p[k], a), Within(Effect(p[k], a), b), Good(m, s, p, k + 1, b),
         MayFail(p[k]) => Good("failing", s, p[k].undo, 1, a)
  PROVE  Good(m, s, p, k, a)
  <1>1. Good(m, s, p, k + 1, Effect(p[k], a))
    BY GoodWithin
  <1>2. PICK G : Closed(G) /\ Reaches(G, m, s, p, k + 1, Effect(p[k], a))
    BY <1>1 DEF Good
  <1>3. PICK H : Closed(H) /\ (MayFail(p[k]) => Reaches(H, "failing", s, p[k].undo, 1, a))
    <2>1. Closed({})
      BY DEF Closed
    <2>2. QED
      BY <2>1 DEF Good
  <1>4. Closed(G \cup H) /\ G \subseteq G \cup H /\ H \subseteq G \cup H
    BY <1>2, <1>3, ClosedUnion
  <1>5. Proceeds(G \cup H, m, s, p, k, a)
    BY <1>2, <1>3, <1>4, ReachesMore DEF Proceeds
  <1>6. Sound(G \cup H, m, s, p, k, a)
    <2>1. Fits(m, s, p, k) /\ k <= Len(p)
      BY DEF Fits
    <2>2. QED
      BY <1>5, <2>1 DEF Sound, Fits
  <1>7. QED
    BY <1>4, <1>6, GoodAdded

\* The end of a program.
LEMMA StartedStage ==
  ASSUME NEW s, NEW p, NEW k, NEW a, NEW b,
         Fits("starting", s, p, 1), k = Len(p) + 1, Safe(s, a), Within(a, b),
         IF s + 1 = INPUT_STREAM_START THEN Good("idle", s + 1, <<>>, 1, b)
         ELSE Good("starting", s + 1, Do(s + 2), 1, b)
  PROVE  Good("starting", s, p, k, a)
  <1>1. IF s + 1 = INPUT_STREAM_START THEN Good("idle", s + 1, <<>>, 1, a)
        ELSE Good("starting", s + 1, Do(s + 2), 1, a)
    BY GoodWithin
  <1>2. PICK G : Closed(G) /\ IF s + 1 = INPUT_STREAM_START
                              THEN Reaches(G, "idle", s + 1, <<>>, 1, a)
                              ELSE Reaches(G, "starting", s + 1, Do(s + 2), 1, a)
    BY <1>1 DEF Good
  <1>3. Sound(G, "starting", s, p, k, a)
    BY <1>2 DEF Sound, Fits, Continues
  <1>4. QED
    BY <1>2, <1>3, GoodAdded

LEMMA AbortedStage ==
  ASSUME NEW s, NEW p, NEW k, NEW a, NEW b,
         Fits("failing", s, p, 1), k = Len(p) + 1, Safe(s, a), Within(a, b),
         Good("stopping", s, StopConnection, 1, b)
  PROVE  Good("failing", s, p, k, a)
  <1>1. PICK G : Closed(G) /\ Reaches(G, "stopping", s, StopConnection, 1, a)
    BY GoodWithin DEF Good
  <1>2. Sound(G, "failing", s, p, k, a)
    BY <1>1 DEF Sound, Fits, Continues
  <1>3. QED
    BY <1>1, <1>2, GoodAdded

LEMMA BegunStop ==
  ASSUME NEW s, NEW p, NEW k, NEW a,
         Fits("stopping", s, p, 1), k = Len(p) + 1, Safe(s, a), GoodUndone(s, a)
  PROVE  Good("stopping", s, p, k, a)
  <1>1. PICK G : Closed(G) /\ Undone(G, s, a)
    BY DEF Good, GoodUndone, Undone
  <1>2. Sound(G, "stopping", s, p, k, a)
    BY <1>1 DEF Sound, Fits, Continues
  <1>3. QED
    BY <1>1, <1>2, GoodAdded

LEMMA UndoneStage ==
  ASSUME NEW s, NEW p, NEW k, NEW a, NEW b,
         Fits("undoing", s, p, 1), k = Len(p) + 1, Safe(s, a), Within(a, b),
         GoodUndone(s - 1, b)
  PROVE  Good("undoing", s, p, k, a)
  <1>1. GoodUndone(s - 1, a)
    BY GoodWithin DEF GoodUndone
  <1>2. PICK G : Closed(G) /\ Undone(G, s - 1, a)
    BY <1>1 DEF Good, GoodUndone, Undone
  <1>3. Sound(G, "undoing", s, p, k, a)
    BY <1>2 DEF Sound, Fits, Continues
  <1>4. QED
    BY <1>2, <1>3, GoodAdded

LEMMA Stopped ==
  ASSUME NEW a, Nothing(a), Safe(NONE, a) PROVE Good("idle", NONE, <<>>, 1, a)
  <1>1. Closed({})
    BY DEF Closed
  <1>2. Fits("idle", NONE, <<>>, 1)
    BY DEF Fits, Modes, Stages, NONE
  <1>3. Sound({}, "idle", NONE, <<>>, 1, a)
    BY <1>2 DEF Sound, NONE
  <1>4. QED
    BY <1>1, <1>3, GoodAdded

LEMMA Established ==
  ASSUME NEW a, Safe(INPUT_STREAM_START, a), Good("stopping", INPUT_STREAM_START, StopConnection, 1, a)
  PROVE  Good("idle", INPUT_STREAM_START, <<>>, 1, a)
  <1>1. PICK G : Closed(G) /\ Reaches(G, "stopping", INPUT_STREAM_START, StopConnection, 1, a)
    BY DEF Good
  <1>2. Fits("idle", INPUT_STREAM_START, <<>>, 1)
    BY DEF Fits, Modes, Stages, NONE, INPUT_STREAM_START
  <1>3. Sound(G, "idle", INPUT_STREAM_START, <<>>, 1, a)
    BY <1>1, <1>2 DEF Sound, NONE, INPUT_STREAM_START
  <1>4. QED
    BY <1>1, <1>3, GoodAdded

-----------------------------------------------------------------------------
(* A clean-up is mostly operations that only tell threads to stop, wait    *)
(* for them and shut queues down: a run of them, from k to before j.       *)

Harmless(o) ==
    /\ o.fails = "no"
    /\ \/ o.do \in {"interrupt", "join"} /\ o.what \in Threads
       \/ o.do = "shutdown" /\ o.what \in Queues
       \/ o.do \in {"stopping", "idrEvent", "terminated", "interrupted"} /\ o.what \in BOOLEAN
       \/ o.do = "skip"

LEMMA HarmlessFlag ==
  ASSUME NEW do \in {"stopping", "idrEvent", "terminated", "interrupted"}
  PROVE  Harmless(Op(do, TRUE)) /\ Op(do, TRUE).do # "shutdown"
  <1>1. /\ Op(do, TRUE).do = do /\ Op(do, TRUE).what = TRUE
        /\ Op(do, TRUE).fails = "no"
    BY Zenon DEF Op
  <1>2. Op(do, TRUE).what \in BOOLEAN
    BY <1>1, Zenon
  <1>3. QED
    BY <1>1, <1>2 DEF Harmless

Done(p, k, j, do) == {p[i].what : i \in {l \in k .. j - 1 : p[l].do = do}}
Left(a, joined, shut) ==
    Has(a.threads \ joined, a.exist, a.used \ shut, a.open, a.video, a.audio)

LEMMA DoneHas ==
  ASSUME NEW p, NEW k, NEW j, NEW i \in k .. j - 1, NEW do, p[i].do = do
  PROVE  p[i].what \in Done(p, k, j, do)
  BY DEF Done

LEMMA DoneNext ==
  ASSUME NEW p, NEW k \in Nat, NEW i \in Nat, k <= i, NEW do, NEW x \in Done(p, k, i + 1, do)
  PROVE  x \in Done(p, k, i, do) \/ (p[i].do = do /\ x = p[i].what)
  <1>1. PICK l \in k .. i : p[l].do = do /\ x = p[l].what
    BY DEF Done
  <1>2. CASE l = i
    BY <1>1, <1>2
  <1>3. CASE l \in k .. i - 1
    BY <1>1, <1>3 DEF Done
  <1>4. QED
    BY <1>2, <1>3

LEMMA HarmlessLegal ==
  ASSUME NEW m, m # "starting", NEW o, NEW a, Harmless(o) PROVE Legal(m, o, a) /\ ~MayFail(o)
  <1>1. /\ o.do \in {"interrupt", "join", "shutdown", "stopping", "idrEvent", "terminated",
                     "interrupted", "skip"}
        /\ o.fails = "no"
        /\ o.do \in {"interrupt", "join"} => o.what \in Threads
        /\ o.do = "shutdown" => o.what \in Queues
        /\ o.do \in {"stopping", "idrEvent", "terminated", "interrupted"} => o.what \in BOOLEAN
    BY DEF Harmless
  <1>2. QED
    BY <1>1 DEF Legal, MayFail, OnThread, OnQueue, OnSocket, OnRenderer, OnFlag

LEMMA HarmlessEffect ==
  ASSUME NEW o, NEW a, NEW b, Harmless(o), o.do = "shutdown" => o.what \in a.exist,
         \A t \in a.threads : t \in b.threads \/ (o.do = "join" /\ t = o.what),
         \A q \in a.used : q \in b.used \/ (o.do = "shutdown" /\ q = o.what),
         a.exist = b.exist, a.open = b.open, a.video = b.video, a.audio = b.audio
  PROVE  Within(Effect(o, a), b)
  <1>1. o.do \in {"interrupt", "join", "shutdown", "stopping", "idrEvent", "terminated",
                  "interrupted", "skip"}
    BY DEF Harmless
  <1>2. Effect(o, a).threads \subseteq b.threads
    BY <1>1 DEF Effect, Has
  <1>3. Effect(o, a).used \subseteq b.used
    BY <1>1 DEF Effect, Has
  <1>4. Effect(o, a).exist = b.exist
    BY <1>1 DEF Effect, Has
  <1>5. Effect(o, a).open = b.open
    BY <1>1 DEF Effect, Has
  <1>6. Effect(o, a).video = b.video /\ Effect(o, a).audio = b.audio
    BY <1>1 DEF Effect, Has, Told
  <1>7. QED
    BY <1>2, <1>3, <1>4, <1>5, <1>6 DEF Within

LEMMA LeftSafe ==
  ASSUME NEW s, NEW a, Safe(s, a), NEW J, NEW S PROVE Safe(s, Left(a, J, S))
  <1>1. Within(Left(a, J, S), a)
    BY DEF Within, Left, Has
  <1>2. QED
    BY <1>1, SafeWithin

LEMMA Run ==
  ASSUME NEW m \in {"failing", "stopping", "undoing"}, NEW s, NEW p, NEW k,
         Fits(m, s, p, 1), k \in 1 .. Len(p) + 1, NEW j \in k .. Len(p) + 1, NEW a, Safe(s, a),
         \A i \in k .. j - 1 : Harmless(p[i]) /\ (p[i].do = "shutdown" => p[i].what \in a.exist),
         NEW b, Within(Left(a, Done(p, k, j, "join"), Done(p, k, j, "shutdown")), b),
         Good(m, s, p, j, b)
  PROVE  Good(m, s, p, k, a)
  <1> DEFINE M(i) == Left(a, Done(p, k, i, "join"), Done(p, k, i, "shutdown"))
  <1>a. k \in Nat /\ Len(p) \in Nat /\ k >= 1 /\ j \in Nat /\ m # "idle" /\ m # "starting"
    BY DEF Fits
  <1>1. PICK G : Closed(G) /\ Reaches(G, m, s, p, j, b)
    BY DEF Good
  <1> DEFINE H == G \cup {<<m, s, p, i, M(i)>> : i \in k .. j - 1}
  <1>2. G \subseteq H /\ \A i \in k .. j - 1 : <<m, s, p, i, M(i)>> \in H
    OBVIOUS
  <1>3. Within(M(j), b)
    OBVIOUS
  <1>4. Reaches(G, m, s, p, j, M(j))
    <2>1. PICK c : Within(b, c) /\ <<m, s, p, j, c>> \in G
      BY <1>1 DEF Reaches
    <2> HIDE DEF M
    <2>2. QED
      BY <1>3, <2>1, WithinTrans DEF Reaches
  <1>5. Within(a, M(k))
    <2>1. Done(p, k, k, "join") = {} /\ Done(p, k, k, "shutdown") = {}
      BY <1>a DEF Done
    <2>2. QED
      BY <2>1 DEF Within, Left, Has
  <1>6. ASSUME NEW i \in k .. j PROVE Reaches(H, m, s, p, i, M(i))
    <2>1. CASE i = j
      BY <1>2, <1>4, <2>1, ReachesMore
    <2>2. CASE i \in k .. j - 1
      BY <1>2, <2>2, WithinSelf DEF Reaches
    <2>3. QED
      BY <1>a, <2>1, <2>2
  <1>7. ASSUME NEW i \in k .. j - 1 PROVE Sound(H, m, s, p, i, M(i))
    <2>1. Fits(m, s, p, i) /\ i <= Len(p) /\ i + 1 \in k .. j
      BY <1>a DEF Fits
    <2>2. Safe(s, M(i))
      <3>1. Within(M(i), a)
        BY DEF Within, Left, Has
      <3>2. QED
        BY <3>1, SafeWithin
    <2>3. Within(Effect(p[i], M(i)), M(i + 1))
      <3> DEFINE x == M(i)
                 y == M(i + 1)
      <3>1. \A t \in x.threads : t \in y.threads \/ (p[i].do = "join" /\ t = p[i].what)
        <4>1. \A t \in Done(p, k, i + 1, "join") :
                 t \in Done(p, k, i, "join") \/ (p[i].do = "join" /\ t = p[i].what)
          BY <1>a, DoneNext
        <4>2. QED
          BY <4>1 DEF Left, Has
      <3>2. \A q \in x.used : q \in y.used \/ (p[i].do = "shutdown" /\ q = p[i].what)
        <4>1. \A q \in Done(p, k, i + 1, "shutdown") :
                 q \in Done(p, k, i, "shutdown") \/ (p[i].do = "shutdown" /\ q = p[i].what)
          BY <1>a, DoneNext
        <4>2. QED
          BY <4>1 DEF Left, Has
      <3>3. /\ x.exist = y.exist /\ x.open = y.open /\ x.video = y.video
            /\ x.audio = y.audio /\ (p[i].do = "shutdown" => p[i].what \in x.exist)
        BY DEF Left, Has
      <3> HIDE DEF x, y
      <3>4. Within(Effect(p[i], x), y)
        BY <3>1, <3>2, <3>3, HarmlessEffect
      <3>5. QED
        BY <3>4 DEF x, y
    <2>4. Reaches(H, m, s, p, i + 1, Effect(p[i], M(i)))
      <3>1. Reaches(H, m, s, p, i + 1, M(i + 1))
        BY <1>6, <2>1
      <3>2. PICK c : Within(M(i + 1), c) /\ <<m, s, p, i + 1, c>> \in H
        BY <3>1 DEF Reaches
      <3> HIDE DEF M, H
      <3>3. Within(Effect(p[i], M(i)), c)
        BY <2>3, <3>2, WithinTrans
      <3>4. QED
        BY <3>2, <3>3 DEF Reaches
    <2>5. Legal(m, p[i], M(i)) /\ ~MayFail(p[i])
      BY <1>a, HarmlessLegal
    <2> HIDE DEF M, H
    <2>6. Proceeds(H, m, s, p, i, M(i))
      BY <2>4, <2>5 DEF Proceeds
    <2>7. QED
      BY <1>a, <2>1, <2>2, <2>6 DEF Sound, Fits
  <1>8. Closed(H)
    <2> SUFFICES ASSUME NEW mm, NEW ss, NEW pp, NEW kk, NEW aa, <<mm, ss, pp, kk, aa>> \in H
                 PROVE  Sound(H, mm, ss, pp, kk, aa)
      BY DEF Closed
    <2>1. CASE <<mm, ss, pp, kk, aa>> \in G
      BY <1>1, <1>2, <2>1, SoundMore DEF Closed
    <2>2. CASE \E i \in k .. j - 1 : <<mm, ss, pp, kk, aa>> = <<m, s, p, i, M(i)>>
      <3>1. PICK i \in k .. j - 1 : <<mm, ss, pp, kk, aa>> = <<m, s, p, i, M(i)>>
        BY <2>2
      <3> HIDE DEF M, H
      <3>2. mm = m /\ ss = s /\ pp = p /\ kk = i /\ aa = M(i)
        BY <3>1
      <3>3. QED
        BY <1>7, <3>2
    <2>3. QED
      BY <2>1, <2>2
  <1>9. Reaches(H, m, s, p, k, M(k))
    BY <1>6, <1>a
  <1> HIDE DEF M, H
  <1>10. QED
    BY <1>5, <1>8, <1>9, ReachesGood

-----------------------------------------------------------------------------
(* What is acquired when s stages are completed.  The audio ping thread,   *)
(* created in the handshake or not, counts from the stage before it.       *)

ThreadsAt(s) == {t \in Threads :
    \/ s >= 3 /\ t = "audioPing"
    \/ s >= 8 /\ (t \in {"controlRecv", "lossStats", "requestIdr"}
                    \/ (RfiEnabled /\ t = "invalidateRef"))
    \/ s >= 9 /\ (t \in {"videoRecv", "videoPing"} \/ (VideoDecoder /\ t = "videoDec"))
    \/ s >= 10 /\ (t = "audioRecv" \/ (AudioDecoder /\ t = "audioDec"))
    \/ s >= 11 /\ t = "inputSend"}
ExistAt(s) == {q \in Queues :
    \/ s >= 3 /\ q = "audio"
    \/ s >= 5 /\ q \in {"tuples", "fec"}
    \/ s >= 6 /\ q = "decode"
    \/ s >= 7 /\ q \in {"input", "holders"}}
\* The queues of the control stream are used by the video stream, and are not
\* shut down with it.
UsedAt(s) == {q \in Queues :
    \/ s >= 8 /\ q \in {"tuples", "fec"}
    \/ s >= 9 /\ q = "decode"
    \/ s >= 10 /\ AudioDecoder /\ q = "audio"
    \/ s >= 11 /\ q \in {"input", "holders"}}
OpenAt(s) == {x \in Sockets \cup {"peer"} :
    (s >= 3 /\ x = "audio") \/ (s >= 8 /\ x = "peer") \/ (s >= 9 /\ x = "video")}

At(s) == Has(ThreadsAt(s), ExistAt(s), UsedAt(s), OpenAt(s),
             IF s >= 9 THEN "started" ELSE "none", IF s >= 10 THEN "started" ELSE "none")

LEMMA AtSafe == ASSUME NEW s \in Stages PROVE Safe(s, At(s))
  <1>1. \A t \in ThreadsAt(s) :
           /\ t = "audioPing" => s >= 3
           /\ t \in {"controlRecv", "lossStats", "requestIdr", "invalidateRef"} => s >= 8
           /\ t \in {"videoRecv", "videoPing", "videoDec"} => s >= 9
           /\ t \in {"audioRecv", "audioDec"} => s >= 10
           /\ t = "inputSend" => s >= 11
    BY DEF ThreadsAt
  <1>2. /\ s >= 3 => "audio" \in ExistAt(s)
        /\ s >= 5 => {"tuples", "fec"} \subseteq ExistAt(s)
        /\ s >= 6 => "decode" \in ExistAt(s)
        /\ s >= 7 => {"input", "holders"} \subseteq ExistAt(s)
        /\ s >= 3 => "audio" \in OpenAt(s)
        /\ s >= 8 => "peer" \in OpenAt(s)
        /\ s >= 9 => "video" \in OpenAt(s)
    BY DEF ExistAt, OpenAt, Queues, Sockets
  <1>3. /\ At(s).threads = ThreadsAt(s) /\ At(s).exist = ExistAt(s) /\ At(s).open = OpenAt(s)
        /\ s >= 9 => At(s).video # "none"
        /\ s >= 10 => At(s).audio # "none"
    BY DEF At, Has
  <1>4. s \in Int
    BY DEF Stages
  <1> DEFINE x == At(s)
  <1> HIDE DEF x
  <1>5. /\ "audioPing" \in x.threads \/ "audioRecv" \in x.threads => "audio" \in x.open
        /\ "videoPing" \in x.threads \/ "videoRecv" \in x.threads => "video" \in x.open
    BY <1>1, <1>2, <1>3, <1>4 DEF x
  <1>6. /\ "audioRecv" \in x.threads \/ "audioDec" \in x.threads =>
             "audio" \in x.exist /\ x.audio # "none"
        /\ "videoRecv" \in x.threads \/ "videoDec" \in x.threads =>
             {"decode", "tuples", "fec"} \subseteq x.exist /\ x.video # "none"
    BY <1>1, <1>2, <1>3, <1>4 DEF x
  <1>7. /\ "controlRecv" \in x.threads \/ "lossStats" \in x.threads
             \/ "requestIdr" \in x.threads \/ "invalidateRef" \in x.threads =>
             {"tuples", "fec"} \subseteq x.exist /\ "peer" \in x.open
        /\ "inputSend" \in x.threads => {"input", "holders"} \subseteq x.exist /\ "peer" \in x.open
    BY <1>1, <1>2, <1>3, <1>4 DEF x
  <1>8. "requestIdr" \in x.threads => s >= CONTROL_STREAM_INIT
    BY <1>1, <1>3, <1>4 DEF x, CONTROL_STREAM_INIT
  <1>9. QED
    BY <1>5, <1>6, <1>7, <1>8 DEF Safe, x

-----------------------------------------------------------------------------
(* LiStopConnection(), from the last stage undone to the first.            *)

LEMMA UndoIs ==
  /\ Undo(11) = StopInput /\ Undo(10) = StopAudio /\ Undo(9) = StopVideo
  /\ Undo(8) = StopControl /\ Undo(7) = DestroyInput /\ Undo(6) = DestroyVideo
  /\ Undo(5) = DestroyControl /\ Undo(3) = DestroyAudio
  /\ Undo(1) = <<>> /\ Undo(2) = <<>> /\ Undo(4) = <<>>
  BY DEF Undo, INPUT_STREAM_START, AUDIO_STREAM_START, VIDEO_STREAM_START, CONTROL_STREAM_START,
         INPUT_STREAM_INIT, VIDEO_STREAM_INIT, CONTROL_STREAM_INIT, AUDIO_STREAM_INIT

LEMMA DoIs ==
  /\ Do(1) = <<Try("network", "platform", <<>>)>>
  /\ Do(2) = <<Try("network", "resolve", <<>>)>>
  /\ Do(3) = InitAudio /\ Do(4) = Handshake /\ Do(5) = InitControl
  /\ Do(6) = InitVideo /\ Do(7) = InitInput /\ Do(8) = StartControl
  /\ Do(9) = StartVideo /\ Do(10) = StartAudio /\ Do(11) = StartInput
  BY DEF Do, INPUT_STREAM_START, AUDIO_STREAM_START, VIDEO_STREAM_START, CONTROL_STREAM_START,
         INPUT_STREAM_INIT, VIDEO_STREAM_INIT, CONTROL_STREAM_INIT, AUDIO_STREAM_INIT

LEMMA UndoPlatform == GoodUndone(0, At(0))
  <1>1. ThreadsAt(0) = {} /\ ExistAt(0) = {} /\ OpenAt(0) = {}
    BY DEF ThreadsAt, ExistAt, OpenAt
  <1>2. Nothing(At(0)) /\ Safe(NONE, At(0))
    <2>1. Nothing(At(0))
      BY <1>1 DEF Nothing, At, Has
    <2>2. QED
      BY <2>1, AtSafe DEF Stages, NONE
  <1>3. QED
    BY <1>2, Stopped DEF GoodUndone, NONE

\* A stage that leaves nothing to undo.
LEMMA UndoQuiet ==
  ASSUME NEW s \in {1, 2, 4}, GoodUndone(s - 1, At(s - 1)), Within(At(s), At(s - 1))
  PROVE  GoodUndone(s, At(s))
  <1>1. Undo(s) = <<>>
    BY UndoIs
  <1>2. Fits("undoing", s, <<>>, 1) /\ 1 = Len(<<>>) + 1
    BY DEF Fits, Modes, Stages, NONE
  <1>3. Safe(s, At(s))
    BY AtSafe DEF Stages
  <1>4. Good("undoing", s, <<>>, 1, At(s))
    BY <1>2, <1>3, UndoneStage
  <1>5. QED
    BY <1>1, <1>4 DEF GoodUndone, NONE

\* What is safe stays so when more stages are counted (or fewer, while the IDR
\* thread may run), or when there is more to use and nobody new to use it.
LEMMA SafeLater ==
  ASSUME NEW s \in Stages, NEW r \in Stages, s <= r \/ CONTROL_STREAM_INIT <= r, NEW a, Safe(s, a)
  PROVE  Safe(r, a)
  BY DEF Safe, Stages, CONTROL_STREAM_INIT

LEMMA SafeKept ==
  ASSUME NEW s, NEW T, NEW E, NEW U, NEW O, NEW v, NEW w, Safe(s, Has(T, E, U, O, v, w)),
         NEW T2, NEW E2, NEW U2, NEW O2, NEW x, NEW y, T2 \subseteq T, E \subseteq E2,
         O \subseteq O2, v # "none" => x # "none", w # "none" => y # "none"
  PROVE  Safe(s, Has(T2, E2, U2, O2, x, y))
  BY DEF Safe, Has

\* An operation that cannot fail.
LEMMA Goes ==
  ASSUME NEW m \in {"starting", "failing", "undoing"}, NEW s, NEW p, Fits(m, s, p, 1),
         NEW k \in 1 .. Len(p), NEW a, NEW b, Safe(s, a), Within(Effect(p[k], a), b),
         Good(m, s, p, k + 1, b), p[k].fails = "no", Legal(m, p[k], a)
  PROVE  Good(m, s, p, k, a)
  BY Step DEF MayFail

LEMMA UndoInputStart ==
  ASSUME GoodUndone(10, At(10)) PROVE GoodUndone(11, At(11))
  <1> DEFINE p == StopInput
             J == Done(p, 1, 4, "join")
             S == Done(p, 1, 4, "shutdown")
  <1>1. /\ p[1] = Op("shutdown", "holders") /\ p[2] = Op("shutdown", "input")
        /\ p[3] = Op("join", "inputSend") /\ Len(p) = 3
    BY DEF StopInput
  <1> HIDE DEF p
  <1>2. Fits("undoing", 11, p, 1)
    BY <1>1 DEF Fits, Modes, Stages, NONE
  <1>3. Safe(11, At(11)) /\ Safe(11, At(10))
    BY AtSafe, SafeLater DEF Stages
  <1>4. Within(Left(At(11), J, S), At(10))
    <2>1. "inputSend" \in J /\ {"input", "holders"} \subseteq S
      <3>1. 1 \in 1 .. 4 - 1 /\ 2 \in 1 .. 4 - 1 /\ 3 \in 1 .. 4 - 1
        OBVIOUS
      <3>2. QED
        BY <1>1, <3>1 DEF Done, Op
    <2> HIDE DEF J, S
    <2>2. ThreadsAt(11) \ J \subseteq ThreadsAt(10)
      BY <2>1 DEF ThreadsAt
    <2>3. UsedAt(11) \ S \subseteq UsedAt(10)
      BY <2>1 DEF UsedAt
    <2>4. ExistAt(11) = ExistAt(10) /\ OpenAt(11) = OpenAt(10)
      BY DEF ExistAt, OpenAt
    <2>5. QED
      BY <2>2, <2>3, <2>4 DEF Within, Left, At, Has
  <1>5. Good("undoing", 11, p, 4, At(10))
    <2>1. GoodUndone(11 - 1, At(10)) /\ 4 = Len(p) + 1
      BY <1>1
    <2>2. QED
      BY <1>2, <1>3, <2>1, WithinSelf, UndoneStage
  <1>6. \A i \in 1 .. 4 - 1 : Harmless(p[i]) /\ (p[i].do = "shutdown" => p[i].what \in At(11).exist)
    <2>1. {"input", "holders"} \subseteq At(11).exist
      BY DEF At, Has, ExistAt, Queues
    <2>2. QED
      BY <1>1, <2>1 DEF Harmless, Op, Threads, Queues
  <1>7. Good("undoing", 11, p, 1, At(11))
    <2>1. 1 \in 1 .. Len(p) + 1 /\ 4 \in 1 .. Len(p) + 1
      BY <1>1
    <2>2. QED
      BY <1>2, <1>3, <1>4, <1>5, <1>6, <2>1, Run
  <1>8. QED
    BY <1>7, UndoIs DEF GoodUndone, NONE, p

LEMMA UndoAudioStart ==
  ASSUME GoodUndone(9, At(9)) PROVE GoodUndone(10, At(10))
  <1> DEFINE p == StopAudio
             a == Has(ThreadsAt(10), ExistAt(10), UsedAt(10), OpenAt(10), "started", "stopped")
             b == Has(ThreadsAt(9), ExistAt(9), UsedAt(9), OpenAt(9), "started", "stopped")
             J == Done(p, 2, 7, "join")
             S == Done(p, 2, 7, "shutdown")
  <1>1. /\ p[1] = Op("stop", "audio") /\ p[2] = Op("interrupt", "audioRecv")
        /\ p[3] = When(AudioDecoder, Op("shutdown", "audio"))
        /\ p[4] = When(AudioDecoder, Op("interrupt", "audioDec"))
        /\ p[5] = Op("join", "audioRecv") /\ p[6] = When(AudioDecoder, Op("join", "audioDec"))
        /\ p[7] = Op("cleanup", "audio") /\ Len(p) = 7
    BY DEF StopAudio
  <1> HIDE DEF p
  <1>2. Fits("undoing", 10, p, 1)
    BY <1>1 DEF Fits, Modes, Stages, NONE
  <1>3. /\ At(10) = Has(ThreadsAt(10), ExistAt(10), UsedAt(10), OpenAt(10), "started", "started")
        /\ At(9) = Has(ThreadsAt(9), ExistAt(9), UsedAt(9), OpenAt(9), "started", "none")
    BY DEF At
  <1>4. Safe(10, At(10)) /\ Safe(10, a) /\ Safe(10, At(9)) /\ Safe(10, b)
    <2>1. Safe(10, At(10)) /\ Safe(10, At(9))
      BY AtSafe, SafeLater DEF Stages
    <2>2. QED
      BY <1>3, <2>1, SafeKept
  <1>5. Good("undoing", 10, p, 8, At(9))
    <2>1. GoodUndone(10 - 1, At(9)) /\ 8 = Len(p) + 1
      BY <1>1
    <2>2. QED
      BY <1>2, <1>4, <2>1, WithinSelf, UndoneStage
  <1>6. Good("undoing", 10, p, 7, b)
    <2>1. Within(Effect(p[7], b), At(9)) /\ Legal("undoing", p[7], b) /\ ~MayFail(p[7])
      BY <1>1, <1>3 DEF Within, Effect, Has, Told, Op, Legal, Status, MayFail, OnThread, OnQueue,
                        OnSocket, OnRenderer, OnFlag, Media
    <2>2. Good("undoing", 10, p, 7 + 1, At(9)) /\ 7 \in 1 .. Len(p)
      BY <1>1, <1>5
    <2> HIDE DEF b
    <2>3. QED
      BY <1>2, <1>4, <2>1, <2>2, Step
  <1>7. Within(Left(a, J, S), b)
    <2>1. "audioRecv" \in J /\ (AudioDecoder => "audioDec" \in J) /\ (AudioDecoder => "audio" \in S)
      <3>1. 3 \in 2 .. 7 - 1 /\ 5 \in 2 .. 7 - 1 /\ 6 \in 2 .. 7 - 1
        OBVIOUS
      <3>2. /\ p[5].do = "join" /\ p[5].what = "audioRecv"
            /\ AudioDecoder => /\ p[6].do = "join" /\ p[6].what = "audioDec"
                               /\ p[3].do = "shutdown" /\ p[3].what = "audio"
        BY <1>1 DEF Op, When
      <3>3. p[5].what \in J
        BY <3>1, <3>2, DoneHas
      <3>4. AudioDecoder => p[6].what \in J
        BY <3>1, <3>2, DoneHas
      <3>5. AudioDecoder => p[3].what \in S
        BY <3>1, <3>2, DoneHas
      <3> HIDE DEF J, S
      <3>6. QED
        BY <3>2, <3>3, <3>4, <3>5
    <2> HIDE DEF J, S
    <2>3. ThreadsAt(10) \ J \subseteq ThreadsAt(9)
      BY <2>1 DEF ThreadsAt
    <2>4. UsedAt(10) \ S \subseteq UsedAt(9)
      BY <2>1 DEF UsedAt
    <2>5. ExistAt(10) = ExistAt(9) /\ OpenAt(10) = OpenAt(9)
      BY DEF ExistAt, OpenAt
    <2>6. QED
      BY <2>3, <2>4, <2>5 DEF Within, Left, Has
  <1>8. Good("undoing", 10, p, 2, a)
    <2>1. \A i \in 2 .. 7 - 1 : Harmless(p[i]) /\ (p[i].do = "shutdown" => p[i].what \in a.exist)
      <3>1. "audio" \in a.exist
        BY DEF Has, ExistAt, Queues
      <3>2. QED
        BY <1>1, <3>1 DEF Harmless, Op, When, Skip, Threads, Queues
    <2>2. 2 \in 1 .. Len(p) + 1 /\ 7 \in 2 .. Len(p) + 1
      BY <1>1
    <2> HIDE DEF a, b
    <2>3. QED
      BY <1>2, <1>4, <1>6, <1>7, <2>1, <2>2, Run
  <1>9. Good("undoing", 10, p, 1, At(10))
    <2>1. Within(Effect(p[1], At(10)), a) /\ Legal("undoing", p[1], At(10)) /\ ~MayFail(p[1])
      BY <1>1, <1>3 DEF Within, Effect, Has, Told, Op, Legal, Status, MayFail, OnThread, OnQueue,
                        OnSocket, OnRenderer, OnFlag, Media
    <2>2. Good("undoing", 10, p, 1 + 1, a) /\ 1 \in 1 .. Len(p)
      BY <1>1, <1>8
    <2> HIDE DEF a
    <2>3. QED
      BY <1>2, <1>4, <2>1, <2>2, Step
  <1>10. QED
    BY <1>9, UndoIs DEF GoodUndone, NONE, p

LEMMA UndoVideoStart ==
  ASSUME GoodUndone(8, At(8)) PROVE GoodUndone(9, At(9))
  <1> DEFINE p == StopVideo
             a == Has(ThreadsAt(9), ExistAt(9), UsedAt(9), OpenAt(9), "stopped", "none")
             b == Has(ThreadsAt(8), ExistAt(8), UsedAt(8), OpenAt(9), "stopped", "none")
             c == Has(ThreadsAt(8), ExistAt(8), UsedAt(8), OpenAt(8), "stopped", "none")
             J == Done(p, 2, 9, "join")
             S == Done(p, 2, 9, "shutdown")
  <1>1. /\ p[1] = Op("stop", "video") /\ p[2] = Op("shutdown", "decode")
        /\ p[3] = Op("interrupt", "videoPing") /\ p[4] = Op("interrupt", "videoRecv")
        /\ p[5] = When(VideoDecoder, Op("interrupt", "videoDec"))
        /\ p[6] = Op("join", "videoPing") /\ p[7] = Op("join", "videoRecv")
        /\ p[8] = When(VideoDecoder, Op("join", "videoDec")) /\ p[9] = Op("close", "video")
        /\ p[10] = Op("forget", "video") /\ p[11] = Op("cleanup", "video") /\ Len(p) = 11
    BY DEF StopVideo
  <1> HIDE DEF p
  <1>2. Fits("undoing", 9, p, 1)
    BY <1>1 DEF Fits, Modes, Stages, NONE
  <1>3. /\ At(9) = Has(ThreadsAt(9), ExistAt(9), UsedAt(9), OpenAt(9), "started", "none")
        /\ At(8) = Has(ThreadsAt(8), ExistAt(8), UsedAt(8), OpenAt(8), "none", "none")
    BY DEF At
  <1>4. OpenAt(9) \ {"video"} = OpenAt(8) /\ OpenAt(8) \ {"video"} = OpenAt(8)
    BY DEF OpenAt
  <1>5. Safe(9, At(9)) /\ Safe(9, At(8)) /\ Safe(9, a) /\ Safe(9, b) /\ Safe(9, c)
    <2>1. Safe(9, At(9)) /\ Safe(9, At(8))
      BY AtSafe, SafeLater DEF Stages
    <2>2. Safe(9, a) /\ Safe(9, c)
      BY <1>3, <2>1, SafeKept
    <2>3. OpenAt(8) \subseteq OpenAt(9)
      BY <1>4
    <2>4. Safe(9, b)
      BY <2>2, <2>3, SafeKept
    <2>5. QED
      BY <2>1, <2>2, <2>4
  <1>6. Good("undoing", 9, p, 12, At(8))
    <2>1. GoodUndone(9 - 1, At(8)) /\ 12 = Len(p) + 1
      BY <1>1
    <2>2. QED
      BY <1>2, <1>5, <2>1, WithinSelf, UndoneStage
  <1>7. Good("undoing", 9, p, 11, c)
    <2>1. Within(Effect(p[11], c), At(8)) /\ Legal("undoing", p[11], c) /\ p[11].fails = "no"
      BY <1>1, <1>3 DEF Within, Effect, Has, Told, Op, Legal, Status, OnThread, OnQueue,
                        OnSocket, OnRenderer, OnFlag, Media
    <2>2. Good("undoing", 9, p, 11 + 1, At(8)) /\ 11 \in 1 .. Len(p)
      BY <1>1, <1>6
    <2> HIDE DEF c
    <2>3. QED
      BY <1>2, <1>5, <2>1, <2>2, Goes
  <1>8. Good("undoing", 9, p, 10, c)
    <2>1. Within(Effect(p[10], c), c) /\ Legal("undoing", p[10], c) /\ p[10].fails = "no"
      BY <1>1, <1>4 DEF Within, Effect, Has, Told, Op, Legal, Status, OnThread, OnQueue,
                        OnSocket, OnRenderer, OnFlag, Sockets
    <2>2. Good("undoing", 9, p, 10 + 1, c) /\ 10 \in 1 .. Len(p)
      BY <1>1, <1>7
    <2> HIDE DEF c
    <2>3. QED
      BY <1>2, <1>5, <2>1, <2>2, Goes
  <1>9. Good("undoing", 9, p, 9, b)
    <2>1. Within(Effect(p[9], b), c) /\ Legal("undoing", p[9], b) /\ p[9].fails = "no"
      BY <1>1, <1>4 DEF Within, Effect, Has, Told, Op, Legal, Status, OnThread, OnQueue,
                        OnSocket, OnRenderer, OnFlag, Sockets
    <2>2. Good("undoing", 9, p, 9 + 1, c) /\ 9 \in 1 .. Len(p)
      BY <1>1, <1>8
    <2> HIDE DEF b, c
    <2>3. QED
      BY <1>2, <1>5, <2>1, <2>2, Goes
  <1>10. Within(Left(a, J, S), b)
    <2>1. {"videoPing", "videoRecv"} \subseteq J /\ (VideoDecoder => "videoDec" \in J) /\ "decode" \in S
      <3>1. 2 \in 2 .. 9 - 1 /\ 6 \in 2 .. 9 - 1 /\ 7 \in 2 .. 9 - 1 /\ 8 \in 2 .. 9 - 1
        OBVIOUS
      <3>2. /\ p[2].do = "shutdown" /\ p[2].what = "decode"
            /\ p[6].do = "join" /\ p[6].what = "videoPing"
            /\ p[7].do = "join" /\ p[7].what = "videoRecv"
            /\ VideoDecoder => p[8].do = "join" /\ p[8].what = "videoDec"
        BY <1>1 DEF Op, When
      <3>3. p[6].what \in J /\ p[7].what \in J
        BY <3>1, <3>2, DoneHas
      <3>4. VideoDecoder => p[8].what \in J
        BY <3>1, <3>2, DoneHas
      <3>5. p[2].what \in S
        BY <3>1, <3>2, DoneHas
      <3> HIDE DEF J, S
      <3>6. QED
        BY <3>2, <3>3, <3>4, <3>5
    <2> HIDE DEF J, S
    <2>2. ThreadsAt(9) \ J \subseteq ThreadsAt(8)
      BY <2>1 DEF ThreadsAt
    <2>3. UsedAt(9) \ S \subseteq UsedAt(8)
      BY <2>1 DEF UsedAt
    <2>4. ExistAt(9) = ExistAt(8)
      BY DEF ExistAt
    <2>5. QED
      BY <2>2, <2>3, <2>4 DEF Within, Left, Has
  <1>11. Good("undoing", 9, p, 2, a)
    <2>1. \A i \in 2 .. 9 - 1 : Harmless(p[i]) /\ (p[i].do = "shutdown" => p[i].what \in a.exist)
      <3>1. "decode" \in a.exist
        BY DEF Has, ExistAt, Queues
      <3>2. QED
        BY <1>1, <3>1 DEF Harmless, Op, When, Skip, Threads, Queues
    <2>2. 2 \in 1 .. Len(p) + 1 /\ 9 \in 2 .. Len(p) + 1
      BY <1>1
    <2> HIDE DEF a, b
    <2>3. QED
      BY <1>2, <1>5, <1>9, <1>10, <2>1, <2>2, Run
  <1>12. Good("undoing", 9, p, 1, At(9))
    <2>1. Within(Effect(p[1], At(9)), a) /\ Legal("undoing", p[1], At(9)) /\ p[1].fails = "no"
      BY <1>1, <1>3 DEF Within, Effect, Has, Told, Op, Legal, Status, OnThread, OnQueue,
                        OnSocket, OnRenderer, OnFlag, Media
    <2>2. Good("undoing", 9, p, 1 + 1, a) /\ 1 \in 1 .. Len(p)
      BY <1>1, <1>11
    <2> HIDE DEF a
    <2>3. QED
      BY <1>2, <1>5, <2>1, <2>2, Goes
  <1>13. QED
    BY <1>12, UndoIs DEF GoodUndone, NONE, p

LEMMA UndoControlStart ==
  ASSUME GoodUndone(7, At(7)) PROVE GoodUndone(8, At(8))
  <1> DEFINE p == StopControl
             b == Has(ThreadsAt(7), ExistAt(7), UsedAt(7), OpenAt(8), "none", "none")
             J == Done(p, 1, 13, "join")
             S == Done(p, 1, 13, "shutdown")
  <1>1. /\ p[1] = Op("stopping", TRUE) /\ p[2] = Op("shutdown", "tuples")
        /\ p[3] = Op("shutdown", "fec") /\ p[4] = Op("idrEvent", TRUE)
        /\ p[5] = Op("interrupt", "lossStats") /\ p[6] = Op("interrupt", "requestIdr")
        /\ p[7] = Op("interrupt", "controlRecv") /\ p[8] = Op("join", "lossStats")
        /\ p[9] = Op("join", "requestIdr") /\ p[10] = Op("join", "controlRecv")
        /\ p[11] = When(RfiEnabled, Op("interrupt", "invalidateRef"))
        /\ p[12] = When(RfiEnabled, Op("join", "invalidateRef"))
        /\ p[13] = Op("peer", FALSE) /\ Len(p) = 13
    BY DEF StopControl
  <1> HIDE DEF p
  <1>2. Fits("undoing", 8, p, 1)
    BY <1>1 DEF Fits, Modes, Stages, NONE
  <1>3. /\ At(8) = Has(ThreadsAt(8), ExistAt(8), UsedAt(8), OpenAt(8), "none", "none")
        /\ At(7) = Has(ThreadsAt(7), ExistAt(7), UsedAt(7), OpenAt(7), "none", "none")
    BY DEF At
  <1>4. OpenAt(8) \ {"peer"} = OpenAt(7)
    BY DEF OpenAt, Sockets
  <1>5. Safe(8, At(8)) /\ Safe(8, At(7)) /\ Safe(8, b)
    <2>1. Safe(8, At(8)) /\ Safe(8, At(7))
      BY AtSafe, SafeLater DEF Stages
    <2>2. OpenAt(7) \subseteq OpenAt(8)
      BY <1>4
    <2>3. Safe(8, b)
      BY <1>3, <2>1, <2>2, SafeKept
    <2>4. QED
      BY <2>1, <2>3
  <1>6. Good("undoing", 8, p, 14, At(7))
    <2>1. GoodUndone(8 - 1, At(7)) /\ 14 = Len(p) + 1
      BY <1>1
    <2>2. QED
      BY <1>2, <1>5, <2>1, WithinSelf, UndoneStage
  <1>7. Good("undoing", 8, p, 13, b)
    <2>1. Within(Effect(p[13], b), At(7)) /\ Legal("undoing", p[13], b) /\ p[13].fails = "no"
      BY <1>1, <1>3, <1>4 DEF Within, Effect, Has, Told, Op, Legal, Status, OnThread, OnQueue,
                        OnSocket, OnRenderer, OnFlag
    <2>2. Good("undoing", 8, p, 13 + 1, At(7)) /\ 13 \in 1 .. Len(p)
      BY <1>1, <1>6
    <2> HIDE DEF b
    <2>3. QED
      BY <1>2, <1>5, <2>1, <2>2, Goes
  <1>8. Within(Left(At(8), J, S), b)
    <2>1. /\ {"lossStats", "requestIdr", "controlRecv"} \subseteq J
          /\ RfiEnabled => "invalidateRef" \in J
          /\ {"tuples", "fec"} \subseteq S
      <3>1. /\ 2 \in 1 .. 13 - 1 /\ 3 \in 1 .. 13 - 1 /\ 8 \in 1 .. 13 - 1 /\ 9 \in 1 .. 13 - 1
            /\ 10 \in 1 .. 13 - 1 /\ 12 \in 1 .. 13 - 1
        OBVIOUS
      <3>2. /\ p[2].do = "shutdown" /\ p[2].what = "tuples"
            /\ p[3].do = "shutdown" /\ p[3].what = "fec"
            /\ p[8].do = "join" /\ p[8].what = "lossStats"
            /\ p[9].do = "join" /\ p[9].what = "requestIdr"
            /\ p[10].do = "join" /\ p[10].what = "controlRecv"
            /\ RfiEnabled => p[12].do = "join" /\ p[12].what = "invalidateRef"
        BY <1>1 DEF Op, When
      <3>3. p[8].what \in J /\ p[9].what \in J /\ p[10].what \in J
        BY <3>1, <3>2, DoneHas
      <3>4. RfiEnabled => p[12].what \in J
        BY <3>1, <3>2, DoneHas
      <3>5. p[2].what \in S /\ p[3].what \in S
        BY <3>1, <3>2, DoneHas
      <3> HIDE DEF J, S
      <3>6. QED
        BY <3>2, <3>3, <3>4, <3>5
    <2> HIDE DEF J, S
    <2>2. ThreadsAt(8) \ J \subseteq ThreadsAt(7)
      BY <2>1 DEF ThreadsAt
    <2>3. UsedAt(8) \ S \subseteq UsedAt(7)
      BY <2>1 DEF UsedAt
    <2>4. ExistAt(8) = ExistAt(7)
      BY DEF ExistAt
    <2>5. QED
      BY <1>3, <2>2, <2>3, <2>4 DEF Within, Left, Has
  <1>9. Good("undoing", 8, p, 1, At(8))
    <2>1. \A i \in 1 .. 13 - 1 : Harmless(p[i]) /\ (p[i].do = "shutdown" => p[i].what \in At(8).exist)
      <3>1. {"tuples", "fec"} \subseteq At(8).exist
        BY DEF At, Has, ExistAt, Queues
      <3>2. \A i \in 1 .. 4 : Harmless(p[i]) /\ (p[i].do = "shutdown" => p[i].what \in At(8).exist)
        <4>1. Harmless(p[1]) /\ p[1].do # "shutdown" /\ Harmless(p[4]) /\ p[4].do # "shutdown"
          BY <1>1, HarmlessFlag, Zenon
        <4>2. \A i \in 2 .. 3 : Harmless(p[i]) /\ p[i].what \in At(8).exist
          BY <1>1, <3>1 DEF Harmless, Op, Queues
        <4>3. QED
          BY <4>1, <4>2
      <3>3. \A i \in 5 .. 12 : Harmless(p[i]) /\ p[i].do # "shutdown"
        BY <1>1 DEF Harmless, Op, When, Skip, Threads
      <3>4. QED
        BY <3>2, <3>3
    <2>2. 1 \in 1 .. Len(p) + 1 /\ 13 \in 1 .. Len(p) + 1
      BY <1>1
    <2> HIDE DEF b
    <2>3. QED
      BY <1>2, <1>5, <1>7, <1>8, <2>1, <2>2, Run
  <1>10. QED
    BY <1>9, UndoIs DEF GoodUndone, NONE, p

LEMMA UndoInputInit ==
  ASSUME GoodUndone(6, At(6)) PROVE GoodUndone(7, At(7))
  <1> DEFINE p == DestroyInput
             a == Has(ThreadsAt(7), ExistAt(7) \ {"input"}, UsedAt(7), OpenAt(7), "none", "none")
  <1>1. p[1] = Op("destroy", "input") /\ p[2] = Op("destroy", "holders") /\ Len(p) = 2
    BY DEF DestroyInput
  <1> HIDE DEF p
  <1>2. Fits("undoing", 7, p, 1)
    BY <1>1 DEF Fits, Modes, Stages, NONE
  <1>3. /\ At(7) = Has(ThreadsAt(7), ExistAt(7), UsedAt(7), OpenAt(7), "none", "none")
        /\ At(6) = Has(ThreadsAt(6), ExistAt(6), UsedAt(6), OpenAt(6), "none", "none")
    BY DEF At
  <1>4. /\ ExistAt(7) \ {"input", "holders"} = ExistAt(6) /\ ThreadsAt(7) = ThreadsAt(6)
        /\ UsedAt(7) = {} /\ UsedAt(6) = {} /\ OpenAt(7) = OpenAt(6)
    BY DEF ThreadsAt, ExistAt, UsedAt, OpenAt
  <1>5. Safe(7, At(7)) /\ Safe(7, At(6)) /\ Safe(7, a)
    <2>1. Safe(7, At(7)) /\ Safe(7, At(6))
      BY AtSafe, SafeLater DEF Stages
    <2>2. ExistAt(6) \subseteq ExistAt(7) \ {"input"}
      BY DEF ExistAt
    <2>3. QED
      BY <1>3, <1>4, <2>1, <2>2, SafeKept
  <1>6. Good("undoing", 7, p, 3, At(6))
    <2>1. GoodUndone(7 - 1, At(6)) /\ 3 = Len(p) + 1
      BY <1>1
    <2>2. QED
      BY <1>2, <1>5, <2>1, WithinSelf, UndoneStage
  <1>7. Good("undoing", 7, p, 2, a)
    <2>1. Within(Effect(p[2], a), At(6)) /\ Legal("undoing", p[2], a) /\ p[2].fails = "no"
      BY <1>1, <1>3, <1>4 DEF Within, Effect, Has, Told, Op, Legal, Status, OnThread, OnQueue,
                        OnSocket, OnRenderer, OnFlag, Queues
    <2>2. Good("undoing", 7, p, 2 + 1, At(6)) /\ 2 \in 1 .. Len(p)
      BY <1>1, <1>6
    <2> HIDE DEF a
    <2>3. QED
      BY <1>2, <1>5, <2>1, <2>2, Goes
  <1>8. Good("undoing", 7, p, 1, At(7))
    <2>1. Within(Effect(p[1], At(7)), a) /\ Legal("undoing", p[1], At(7)) /\ p[1].fails = "no"
      BY <1>1, <1>3, <1>4 DEF Within, Effect, Has, Told, Op, Legal, Status, OnThread, OnQueue,
                        OnSocket, OnRenderer, OnFlag, Queues
    <2>2. Good("undoing", 7, p, 1 + 1, a) /\ 1 \in 1 .. Len(p)
      BY <1>1, <1>7
    <2> HIDE DEF a
    <2>3. QED
      BY <1>2, <1>5, <2>1, <2>2, Goes
  <1>9. QED
    BY <1>8, UndoIs DEF GoodUndone, NONE, p

LEMMA UndoVideoInit ==
  ASSUME GoodUndone(5, At(5)) PROVE GoodUndone(6, At(6))
  <1> DEFINE p == DestroyVideo
  <1>1. p[1] = Op("destroy", "decode") /\ Len(p) = 1
    BY DEF DestroyVideo
  <1> HIDE DEF p
  <1>2. Fits("undoing", 6, p, 1)
    BY <1>1 DEF Fits, Modes, Stages, NONE
  <1>3. /\ At(6) = Has(ThreadsAt(6), ExistAt(6), UsedAt(6), OpenAt(6), "none", "none")
        /\ At(5) = Has(ThreadsAt(5), ExistAt(5), UsedAt(5), OpenAt(5), "none", "none")
    BY DEF At
  <1>4. /\ ExistAt(6) \ {"decode"} = ExistAt(5) /\ ThreadsAt(6) = ThreadsAt(5)
        /\ UsedAt(6) = {} /\ UsedAt(5) = {} /\ OpenAt(6) = OpenAt(5)
    BY DEF ThreadsAt, ExistAt, UsedAt, OpenAt
  <1>5. Safe(6, At(6)) /\ Safe(6, At(5))
    BY AtSafe, SafeLater DEF Stages
  <1>6. Good("undoing", 6, p, 2, At(5))
    <2>1. GoodUndone(6 - 1, At(5)) /\ 2 = Len(p) + 1
      BY <1>1
    <2>2. QED
      BY <1>2, <1>5, <2>1, WithinSelf, UndoneStage
  <1>7. Good("undoing", 6, p, 1, At(6))
    <2>1. Within(Effect(p[1], At(6)), At(5)) /\ Legal("undoing", p[1], At(6)) /\ p[1].fails = "no"
      BY <1>1, <1>3, <1>4 DEF Within, Effect, Has, Told, Op, Legal, Status, OnThread, OnQueue,
                        OnSocket, OnRenderer, OnFlag, Queues
    <2>2. Good("undoing", 6, p, 1 + 1, At(5)) /\ 1 \in 1 .. Len(p)
      BY <1>1, <1>6
    <2>3. QED
      BY <1>2, <1>5, <2>1, <2>2, Goes
  <1>8. QED
    BY <1>7, UndoIs DEF GoodUndone, NONE, p

LEMMA UndoControlInit ==
  ASSUME GoodUndone(4, At(4)) PROVE GoodUndone(5, At(5))
  <1> DEFINE p == DestroyControl
             a == Has(ThreadsAt(5), ExistAt(5) \ {"tuples"}, UsedAt(5), OpenAt(5), "none", "none")
  <1>1. p[1] = Op("destroy", "tuples") /\ p[2] = Op("destroy", "fec") /\ Len(p) = 2
    BY DEF DestroyControl
  <1> HIDE DEF p
  <1>2. Fits("undoing", 5, p, 1)
    BY <1>1 DEF Fits, Modes, Stages, NONE
  <1>3. /\ At(5) = Has(ThreadsAt(5), ExistAt(5), UsedAt(5), OpenAt(5), "none", "none")
        /\ At(4) = Has(ThreadsAt(4), ExistAt(4), UsedAt(4), OpenAt(4), "none", "none")
    BY DEF At
  <1>4. /\ ExistAt(5) \ {"tuples", "fec"} = ExistAt(4) /\ ThreadsAt(5) = ThreadsAt(4)
        /\ UsedAt(5) = {} /\ UsedAt(4) = {} /\ OpenAt(5) = OpenAt(4)
    BY DEF ThreadsAt, ExistAt, UsedAt, OpenAt
  <1>5. Safe(5, At(5)) /\ Safe(5, At(4)) /\ Safe(5, a)
    <2>1. Safe(5, At(5)) /\ Safe(5, At(4))
      BY AtSafe, SafeLater DEF Stages
    <2>2. ExistAt(4) \subseteq ExistAt(5) \ {"tuples"}
      BY DEF ExistAt
    <2>3. QED
      BY <1>3, <1>4, <2>1, <2>2, SafeKept
  <1>6. Good("undoing", 5, p, 3, At(4))
    <2>1. GoodUndone(5 - 1, At(4)) /\ 3 = Len(p) + 1
      BY <1>1
    <2>2. QED
      BY <1>2, <1>5, <2>1, WithinSelf, UndoneStage
  <1>7. Good("undoing", 5, p, 2, a)
    <2>1. Within(Effect(p[2], a), At(4)) /\ Legal("undoing", p[2], a) /\ p[2].fails = "no"
      BY <1>1, <1>3, <1>4 DEF Within, Effect, Has, Told, Op, Legal, Status, OnThread, OnQueue,
                        OnSocket, OnRenderer, OnFlag, Queues
    <2>2. Good("undoing", 5, p, 2 + 1, At(4)) /\ 2 \in 1 .. Len(p)
      BY <1>1, <1>6
    <2> HIDE DEF a
    <2>3. QED
      BY <1>2, <1>5, <2>1, <2>2, Goes
  <1>8. Good("undoing", 5, p, 1, At(5))
    <2>1. Within(Effect(p[1], At(5)), a) /\ Legal("undoing", p[1], At(5)) /\ p[1].fails = "no"
      BY <1>1, <1>3, <1>4 DEF Within, Effect, Has, Told, Op, Legal, Status, OnThread, OnQueue,
                        OnSocket, OnRenderer, OnFlag, Queues
    <2>2. Good("undoing", 5, p, 1 + 1, a) /\ 1 \in 1 .. Len(p)
      BY <1>1, <1>7
    <2> HIDE DEF a
    <2>3. QED
      BY <1>2, <1>5, <2>1, <2>2, Goes
  <1>9. QED
    BY <1>8, UndoIs DEF GoodUndone, NONE, p

LEMMA UndoAudioInit ==
  ASSUME GoodUndone(2, At(2)) PROVE GoodUndone(3, At(3))
  <1> DEFINE p == DestroyAudio
             b == Has({}, ExistAt(3), {}, OpenAt(3), "none", "none")
             c == Has({}, ExistAt(3), {}, {}, "none", "none")
             J == Done(p, 1, 3, "join")
             S == Done(p, 1, 3, "shutdown")
  <1>1. /\ p[1] = Op("interrupt", "audioPing") /\ p[2] = Op("join", "audioPing")
        /\ p[3] = Op("close", "audio") /\ p[4] = Op("forget", "audio")
        /\ p[5] = Op("destroy", "audio") /\ Len(p) = 5
    BY DEF DestroyAudio
  <1> HIDE DEF p
  <1>2. Fits("undoing", 3, p, 1)
    BY <1>1 DEF Fits, Modes, Stages, NONE
  <1>3. /\ ThreadsAt(3) = {"audioPing"} /\ ExistAt(3) = {"audio"} /\ OpenAt(3) = {"audio"}
        /\ UsedAt(3) = {} /\ ThreadsAt(2) = {} /\ ExistAt(2) = {} /\ OpenAt(2) = {}
        /\ UsedAt(2) = {}
    BY DEF ThreadsAt, ExistAt, UsedAt, OpenAt, Threads, Queues, Sockets
  <1>4. /\ At(3) = Has({"audioPing"}, {"audio"}, {}, {"audio"}, "none", "none")
        /\ At(2) = Has({}, {}, {}, {}, "none", "none")
    BY <1>3 DEF At
  <1>5. Safe(3, At(3)) /\ Safe(3, At(2)) /\ Safe(3, b) /\ Safe(3, c)
    BY <1>4 DEF Safe, Has
  <1>6. Good("undoing", 3, p, 6, At(2))
    <2>1. GoodUndone(3 - 1, At(2)) /\ 6 = Len(p) + 1
      BY <1>1
    <2>2. QED
      BY <1>2, <1>5, <2>1, WithinSelf, UndoneStage
  <1>7. Good("undoing", 3, p, 5, c)
    <2>1. Within(Effect(p[5], c), At(2)) /\ Legal("undoing", p[5], c) /\ p[5].fails = "no"
      BY <1>1, <1>3, <1>4 DEF Within, Effect, Has, Told, Op, Legal, Status, OnThread, OnQueue,
                        OnSocket, OnRenderer, OnFlag, Queues
    <2>2. Good("undoing", 3, p, 5 + 1, At(2)) /\ 5 \in 1 .. Len(p)
      BY <1>1, <1>6
    <2> HIDE DEF c
    <2>3. QED
      BY <1>2, <1>5, <2>1, <2>2, Goes
  <1>8. Good("undoing", 3, p, 4, c)
    <2>1. Within(Effect(p[4], c), c) /\ Legal("undoing", p[4], c) /\ p[4].fails = "no"
      BY <1>1 DEF Within, Effect, Has, Told, Op, Legal, Status, OnThread, OnQueue,
                        OnSocket, OnRenderer, OnFlag, Sockets
    <2>2. Good("undoing", 3, p, 4 + 1, c) /\ 4 \in 1 .. Len(p)
      BY <1>1, <1>7
    <2> HIDE DEF c
    <2>3. QED
      BY <1>2, <1>5, <2>1, <2>2, Goes
  <1>9. Good("undoing", 3, p, 3, b)
    <2>1. Within(Effect(p[3], b), c) /\ Legal("undoing", p[3], b) /\ p[3].fails = "no"
      BY <1>1, <1>3 DEF Within, Effect, Has, Told, Op, Legal, Status, OnThread, OnQueue,
                        OnSocket, OnRenderer, OnFlag, Sockets
    <2>2. Good("undoing", 3, p, 3 + 1, c) /\ 3 \in 1 .. Len(p)
      BY <1>1, <1>8
    <2> HIDE DEF b, c
    <2>3. QED
      BY <1>2, <1>5, <2>1, <2>2, Goes
  <1>10. Within(Left(At(3), J, S), b)
    <2>1. "audioPing" \in J
      <3>1. 2 \in 1 .. 3 - 1 /\ p[2].do = "join" /\ p[2].what = "audioPing"
        BY <1>1 DEF Op
      <3>2. p[2].what \in J
        BY <3>1, DoneHas
      <3> HIDE DEF J
      <3>3. QED
        BY <3>1, <3>2
    <2> HIDE DEF J, S
    <2>2. QED
      BY <1>3, <1>4, <2>1 DEF Within, Left, Has
  <1>11. Good("undoing", 3, p, 1, At(3))
    <2>1. \A i \in 1 .. 3 - 1 : Harmless(p[i]) /\ (p[i].do = "shutdown" => p[i].what \in At(3).exist)
      BY <1>1 DEF Harmless, Op, Threads
    <2>2. 1 \in 1 .. Len(p) + 1 /\ 3 \in 1 .. Len(p) + 1
      BY <1>1
    <2> HIDE DEF b
    <2>3. QED
      BY <1>2, <1>5, <1>9, <1>10, <2>1, <2>2, Run
  <1>12. QED
    BY <1>11, UndoIs DEF GoodUndone, NONE, p

\* LiStopConnection() undoes a connection whatever stages it has completed.
LEMMA UndoAll == \A s \in Stages : GoodUndone(s, At(s))
  <1>0. GoodUndone(0, At(0))
    BY UndoPlatform
  <1>1. GoodUndone(1, At(1))
    <2>1. Within(At(1), At(0))
      BY DEF Within, At, Has, ThreadsAt, ExistAt, UsedAt, OpenAt
    <2>2. GoodUndone(1 - 1, At(1 - 1)) /\ Within(At(1), At(1 - 1))
      BY <1>0, <2>1
    <2>3. QED
      BY <2>2, UndoQuiet
  <1>2. GoodUndone(2, At(2))
    <2>1. Within(At(2), At(1))
      BY DEF Within, At, Has, ThreadsAt, ExistAt, UsedAt, OpenAt
    <2>2. GoodUndone(2 - 1, At(2 - 1)) /\ Within(At(2), At(2 - 1))
      BY <1>1, <2>1
    <2>3. QED
      BY <2>2, UndoQuiet
  <1>3. GoodUndone(3, At(3))
    BY <1>2, UndoAudioInit
  <1>4. GoodUndone(4, At(4))
    <2>1. Within(At(4), At(3))
      BY DEF Within, At, Has, ThreadsAt, ExistAt, UsedAt, OpenAt
    <2>2. GoodUndone(4 - 1, At(4 - 1)) /\ Within(At(4), At(4 - 1))
      BY <1>3, <2>1
    <2>3. QED
      BY <2>2, UndoQuiet
  <1>5. GoodUndone(5, At(5))
    BY <1>4, UndoControlInit
  <1>6. GoodUndone(6, At(6))
    BY <1>5, UndoVideoInit
  <1>7. GoodUndone(7, At(7))
    BY <1>6, UndoInputInit
  <1>8. GoodUndone(8, At(8))
    BY <1>7, UndoControlStart
  <1>9. GoodUndone(9, At(9))
    BY <1>8, UndoVideoStart
  <1>10. GoodUndone(10, At(10))
    BY <1>9, UndoAudioStart
  <1>11. GoodUndone(11, At(11))
    BY <1>10, UndoInputStart
  <1> HIDE DEF GoodUndone
  <1>12. QED
    BY <1>0, <1>1, <1>2, <1>3, <1>4, <1>5, <1>6, <1>7, <1>8, <1>9, <1>10, <1>11 DEF Stages

LEMMA Stop ==
  ASSUME NEW s \in Stages PROVE Good("stopping", s, StopConnection, 1, At(s))
  <1> DEFINE p == StopConnection
  <1>1. p[1] = Op("terminated", TRUE) /\ p[2] = Op("interrupted", TRUE) /\ Len(p) = 2
    BY DEF StopConnection
  <1> HIDE DEF p
  <1>2. Fits("stopping", s, p, 1) /\ Safe(s, At(s)) /\ GoodUndone(s, At(s))
    BY <1>1, UndoAll, AtSafe DEF Fits, Modes
  <1>3. Good("stopping", s, p, 3, At(s))
    <2>1. 3 = Len(p) + 1
      BY <1>1
    <2>2. QED
      BY <1>2, <2>1, BegunStop
  <1>4. \A i \in 1 .. 3 - 1 : Harmless(p[i]) /\ (p[i].do = "shutdown" => p[i].what \in At(s).exist)
    <2>1. Harmless(p[1]) /\ p[1].do # "shutdown" /\ Harmless(p[2]) /\ p[2].do # "shutdown"
      BY <1>1, HarmlessFlag, Zenon
    <2>2. QED
      BY <2>1
  <1>5. Within(Left(At(s), Done(p, 1, 3, "join"), Done(p, 1, 3, "shutdown")), At(s))
    BY DEF Within, Left, Has
  <1>6. 1 \in 1 .. Len(p) + 1 /\ 3 \in 1 .. Len(p) + 1
    BY <1>1
  <1>7. Good("stopping", s, p, 1, At(s))
    BY <1>2, <1>3, <1>4, <1>5, <1>6, Run
  <1>8. QED
    BY <1>7 DEF p

-----------------------------------------------------------------------------
(* The error paths of the start functions.                                 *)

LEMMA Aborted ==
  ASSUME NEW s \in Stages, NEW p, Fits("failing", s, p, 1), NEW k, k = Len(p) + 1
  PROVE  Good("failing", s, p, k, At(s))
  BY Stop, AtSafe, WithinSelf, AbortedStage

LEMMA AbortNothing ==
  ASSUME NEW s \in Stages PROVE Good("failing", s, <<>>, 1, At(s))
  <1>1. Fits("failing", s, <<>>, 1) /\ 1 = Len(<<>>) + 1
    BY DEF Fits, Modes
  <1>2. QED
    BY <1>1, Aborted

\* What the control stream has acquired when the threads in X exist.
Control(X) == Has(ThreadsAt(7) \cup X, ExistAt(7), UsedAt(7), OpenAt(8), "none", "none")

LEMMA ControlSafe ==
  ASSUME NEW X \in SUBSET {"controlRecv", "lossStats", "requestIdr", "invalidateRef"}
  PROVE  Safe(7, Control(X))
  <1>1. ThreadsAt(7) = {"audioPing"} /\ ExistAt(7) = Queues /\ OpenAt(8) = {"audio", "peer"}
    BY DEF ThreadsAt, ExistAt, OpenAt, Threads, Queues, Sockets
  <1>2. QED
    BY <1>1 DEF Safe, Has, Control, Queues, CONTROL_STREAM_INIT

\* The peer is destroyed last, when the threads have been joined.
LEMMA AbortPeer ==
  ASSUME NEW p, Fits("failing", 7, p, 1), NEW k \in 1 .. Len(p), k = Len(p),
         p[k] = Op("peer", FALSE)
  PROVE  Good("failing", 7, p, k, Control({}))
  <1>1. Good("failing", 7, p, k + 1, At(7))
    BY Aborted DEF Stages
  <1>2. Safe(7, Control({}))
    BY ControlSafe
  <1>3. Within(Effect(p[k], Control({})), At(7)) /\ Legal("failing", p[k], Control({}))
           /\ p[k].fails = "no"
    <2>1. OpenAt(8) \ {"peer"} = OpenAt(7)
      BY DEF OpenAt, Sockets
    <2>2. QED
      BY <2>1 DEF Within, Effect, Has, At, Control, Told, Op, Legal, Status, OnThread, OnQueue,
                  OnSocket, OnRenderer, OnFlag
  <1>4. QED
    BY <1>1, <1>2, <1>3, Goes

LEMMA AbortEnet == Good("failing", 7, <<Op("stopping", TRUE)>>, 1, At(7))
  <1> DEFINE p == <<Op("stopping", TRUE)>>
  <1>1. p[1] = Op("stopping", TRUE) /\ Len(p) = 1
    OBVIOUS
  <1> HIDE DEF p
  <1>2. Fits("failing", 7, p, 1) /\ Safe(7, At(7))
    BY <1>1, AtSafe DEF Fits, Modes, Stages
  <1>3. Good("failing", 7, p, 2, At(7))
    <2>1. 2 = Len(p) + 1 /\ 7 \in Stages
      BY <1>1 DEF Stages
    <2>2. QED
      BY <1>2, <2>1, Aborted
  <1>4. \A i \in 1 .. 2 - 1 : Harmless(p[i]) /\ (p[i].do = "shutdown" => p[i].what \in At(7).exist)
    <2>1. Harmless(p[1]) /\ p[1].do # "shutdown"
      BY <1>1, HarmlessFlag, Zenon
    <2>2. QED
      BY <2>1
  <1>5. Within(Left(At(7), Done(p, 1, 2, "join"), Done(p, 1, 2, "shutdown")), At(7))
    BY DEF Within, Left, Has
  <1>6. 1 \in 1 .. Len(p) + 1 /\ 2 \in 1 .. Len(p) + 1
    BY <1>1
  <1>7. Good("failing", 7, p, 1, At(7))
    BY <1>2, <1>3, <1>4, <1>5, <1>6, Run
  <1>8. QED
    BY <1>7 DEF p

\* Everything but the last operation is harmless, and joins the threads in X.
LEMMA AbortControlThreads ==
  ASSUME NEW p, Fits("failing", 7, p, 1), NEW k \in 1 .. Len(p), k = Len(p),
         p[k] = Op("peer", FALSE), \A i \in 1 .. k - 1 : Harmless(p[i]) /\ p[i].do # "shutdown",
         NEW X \in SUBSET {"controlRecv", "lossStats", "requestIdr", "invalidateRef"},
         X \subseteq Done(p, 1, k, "join")
  PROVE  Good("failing", 7, p, 1, Control(X))
  <1> DEFINE J == Done(p, 1, k, "join")
             S == Done(p, 1, k, "shutdown")
  <1>1. Good("failing", 7, p, k, Control({}))
    BY AbortPeer
  <1>2. Within(Left(Control(X), J, S), Control({}))
    BY DEF Within, Left, Has, Control
  <1>3. Safe(7, Control(X))
    BY ControlSafe
  <1>4. 1 \in 1 .. Len(p) + 1 /\ k \in 1 .. Len(p) + 1
    BY DEF Fits
  <1>5. \A i \in 1 .. k - 1 :
           Harmless(p[i]) /\ (p[i].do = "shutdown" => p[i].what \in Control(X).exist)
    OBVIOUS
  <1>6. QED
    BY <1>1, <1>2, <1>3, <1>4, <1>5, Run

LEMMA AbortControlReceive ==
  Good("failing", 7, <<Op("stopping", TRUE), Op("peer", FALSE)>>, 1, Control({}))
  <1> DEFINE p == <<Op("stopping", TRUE), Op("peer", FALSE)>>
  <1>1. p[1] = Op("stopping", TRUE) /\ p[2] = Op("peer", FALSE) /\ Len(p) = 2
    OBVIOUS
  <1> HIDE DEF p
  <1>2. Fits("failing", 7, p, 1) /\ 2 \in 1 .. Len(p) /\ 2 = Len(p)
    BY <1>1 DEF Fits, Modes, Stages
  <1>3. \A i \in 1 .. 2 - 1 : Harmless(p[i]) /\ p[i].do # "shutdown"
    <2>1. Harmless(p[1]) /\ p[1].do # "shutdown"
      BY <1>1, HarmlessFlag, Zenon
    <2>2. QED
      BY <2>1
  <1>4. Good("failing", 7, p, 1, Control({}))
    BY <1>1, <1>2, <1>3, AbortControlThreads
  <1>5. QED
    BY <1>4 DEF p

LEMMA AbortControlGood == Good("failing", 7, AbortControl, 1, Control({"controlRecv"}))
  <1> DEFINE p == AbortControl
  <1>1. /\ p[1] = Op("stopping", TRUE) /\ p[2] = Op("interrupted", TRUE)
        /\ p[3] = Op("interrupt", "controlRecv") /\ p[4] = Op("join", "controlRecv")
        /\ p[5] = Op("peer", FALSE) /\ Len(p) = 5
    BY DEF AbortControl
  <1> HIDE DEF p
  <1>2. Fits("failing", 7, p, 1) /\ 5 \in 1 .. Len(p) /\ 5 = Len(p)
    BY <1>1 DEF Fits, Modes, Stages
  <1>3. \A i \in 1 .. 5 - 1 : Harmless(p[i]) /\ p[i].do # "shutdown"
    <2>1. /\ Harmless(p[1]) /\ p[1].do # "shutdown"
          /\ Harmless(p[2]) /\ p[2].do # "shutdown"
      BY <1>1, HarmlessFlag, Zenon
    <2>2. \A i \in 3 .. 4 : Harmless(p[i]) /\ p[i].do # "shutdown"
      BY <1>1 DEF Harmless, Op, Threads
    <2>3. QED
      BY <2>1, <2>2
  <1>4. {"controlRecv"} \subseteq Done(p, 1, 5, "join")
    <2>1. 4 \in 1 .. 5 - 1 /\ p[4].do = "join" /\ p[4].what = "controlRecv"
      BY <1>1 DEF Op
    <2>2. p[4].what \in Done(p, 1, 5, "join")
      BY <2>1, DoneHas
    <2>3. QED
      BY <2>1, <2>2
  <1>5. Good("failing", 7, p, 1, Control({"controlRecv"}))
    BY <1>1, <1>2, <1>3, <1>4, AbortControlThreads
  <1>6. QED
    BY <1>5 DEF p

LEMMA AbortControlAndStatsGood ==
  Good("failing", 7, AbortControlAndStats, 1, Control({"controlRecv", "lossStats"}))
  <1> DEFINE p == AbortControlAndStats
  <1>1. /\ p[1] = Op("stopping", TRUE) /\ p[2] = Op("interrupted", TRUE)
        /\ p[3] = Op("interrupt", "lossStats") /\ p[4] = Op("join", "lossStats")
        /\ p[5] = Op("interrupt", "controlRecv") /\ p[6] = Op("join", "controlRecv")
        /\ p[7] = Op("peer", FALSE) /\ Len(p) = 7
    BY DEF AbortControlAndStats
  <1> HIDE DEF p
  <1>2. Fits("failing", 7, p, 1) /\ 7 \in 1 .. Len(p) /\ 7 = Len(p)
    BY <1>1 DEF Fits, Modes, Stages
  <1>3. \A i \in 1 .. 7 - 1 : Harmless(p[i]) /\ p[i].do # "shutdown"
    <2>1. /\ Harmless(p[1]) /\ p[1].do # "shutdown"
          /\ Harmless(p[2]) /\ p[2].do # "shutdown"
      BY <1>1, HarmlessFlag, Zenon
    <2>2. \A i \in 3 .. 6 : Harmless(p[i]) /\ p[i].do # "shutdown"
      BY <1>1 DEF Harmless, Op, Threads
    <2>3. QED
      BY <2>1, <2>2
  <1>4. {"controlRecv", "lossStats"} \subseteq Done(p, 1, 7, "join")
    <2>1. /\ 4 \in 1 .. 7 - 1 /\ p[4].do = "join" /\ p[4].what = "lossStats"
          /\ 6 \in 1 .. 7 - 1 /\ p[6].do = "join" /\ p[6].what = "controlRecv"
      BY <1>1 DEF Op
    <2>2. p[4].what \in Done(p, 1, 7, "join") /\ p[6].what \in Done(p, 1, 7, "join")
      BY <2>1, DoneHas
    <2>3. QED
      BY <2>1, <2>2
  <1>5. Good("failing", 7, p, 1, Control({"controlRecv", "lossStats"}))
    BY <1>1, <1>2, <1>3, <1>4, AbortControlThreads
  <1>6. QED
    BY <1>5 DEF p

LEMMA AbortControlAndRequestsGood ==
  Good("failing", 7, AbortControlAndRequests, 1, Control({"controlRecv", "lossStats", "requestIdr"}))
  <1> DEFINE p == AbortControlAndRequests
  <1>1. /\ p[1] = Op("stopping", TRUE) /\ p[2] = Op("idrEvent", TRUE)
        /\ p[3] = Op("interrupted", TRUE)
        /\ p[4] = Op("interrupt", "lossStats") /\ p[5] = Op("join", "lossStats")
        /\ p[6] = Op("interrupt", "controlRecv") /\ p[7] = Op("join", "controlRecv")
        /\ p[8] = Op("interrupt", "requestIdr") /\ p[9] = Op("join", "requestIdr")
        /\ p[10] = Op("peer", FALSE) /\ Len(p) = 10
    BY DEF AbortControlAndRequests
  <1> HIDE DEF p
  <1>2. Fits("failing", 7, p, 1) /\ 10 \in 1 .. Len(p) /\ 10 = Len(p)
    BY <1>1 DEF Fits, Modes, Stages
  <1>3. \A i \in 1 .. 10 - 1 : Harmless(p[i]) /\ p[i].do # "shutdown"
    <2>1. /\ Harmless(p[1]) /\ p[1].do # "shutdown"
          /\ Harmless(p[2]) /\ p[2].do # "shutdown"
          /\ Harmless(p[3]) /\ p[3].do # "shutdown"
      BY <1>1, HarmlessFlag, Zenon
    <2>2. \A i \in 4 .. 9 : Harmless(p[i]) /\ p[i].do # "shutdown"
      BY <1>1 DEF Harmless, Op, Threads
    <2>3. QED
      BY <2>1, <2>2
  <1>4. {"controlRecv", "lossStats", "requestIdr"} \subseteq Done(p, 1, 10, "join")
    <2>1. /\ 5 \in 1 .. 10 - 1 /\ p[5].do = "join" /\ p[5].what = "lossStats"
          /\ 7 \in 1 .. 10 - 1 /\ p[7].do = "join" /\ p[7].what = "controlRecv"
          /\ 9 \in 1 .. 10 - 1 /\ p[9].do = "join" /\ p[9].what = "requestIdr"
      BY <1>1 DEF Op
    <2>2. /\ p[5].what \in Done(p, 1, 10, "join") /\ p[7].what \in Done(p, 1, 10, "join")
          /\ p[9].what \in Done(p, 1, 10, "join")
      BY <2>1, DoneHas
    <2>3. QED
      BY <2>1, <2>2
  <1>5. Good("failing", 7, p, 1, Control({"controlRecv", "lossStats", "requestIdr"}))
    BY <1>1, <1>2, <1>3, <1>4, AbortControlThreads
  <1>6. QED
    BY <1>5 DEF p

\* What the video stream has acquired: the socket, the renderer and some of
\* the threads, when the queues in U are used.
Video(X, U, told) == Has(ThreadsAt(8) \cup X, ExistAt(8), U, OpenAt(9), told, "none")

LEMMA VideoSafe ==
  ASSUME NEW X \in SUBSET {"videoRecv", "videoDec", "videoPing"}, NEW U, NEW r, r # "none"
  PROVE  Safe(8, Video(X, U, r))
  <1>1. /\ ThreadsAt(8) \subseteq {"audioPing", "controlRecv", "lossStats", "requestIdr", "invalidateRef"}
        /\ ExistAt(8) = Queues /\ OpenAt(9) = {"audio", "video", "peer"}
    BY DEF ThreadsAt, ExistAt, OpenAt, Threads, Queues, Sockets
  <1>2. QED
    BY <1>1 DEF Safe, Has, Video, Queues, CONTROL_STREAM_INIT

LEMMA AbortVideoSocket ==
  ASSUME NEW p, Fits("failing", 8, p, 1), NEW k \in 1 .. Len(p), k + 1 = Len(p),
         p[k] = Op("close", "video"), p[k + 1] = Op("cleanup", "video")
  PROVE  Good("failing", 8, p, k, Video({}, UsedAt(8), "stopped"))
  <1> DEFINE a == Video({}, UsedAt(8), "stopped")
             b == Has(ThreadsAt(8), ExistAt(8), UsedAt(8), OpenAt(8), "stopped", "none")
             l == k + 1
  <1>1. At(8) = Has(ThreadsAt(8), ExistAt(8), UsedAt(8), OpenAt(8), "none", "none")
    BY DEF At
  <1>2. OpenAt(9) \ {"video"} = OpenAt(8)
    BY DEF OpenAt
  <1>3. Safe(8, At(8)) /\ Safe(8, a) /\ Safe(8, b)
    <2>1. Safe(8, At(8)) /\ Safe(8, a)
      BY AtSafe, VideoSafe DEF Stages
    <2>2. Safe(8, b)
      BY <1>1, <2>1, SafeKept
    <2>3. QED
      BY <2>1, <2>2
  <1>4. Good("failing", 8, p, l + 1, At(8)) /\ l \in 1 .. Len(p)
    BY Aborted DEF Stages
  <1>5. Good("failing", 8, p, k + 1, b)
    <2>1. p[l] = Op("cleanup", "video") /\ l = k + 1
      OBVIOUS
    <2> HIDE DEF l
    <2>2. Within(Effect(p[l], b), At(8)) /\ Legal("failing", p[l], b) /\ p[l].fails = "no"
      BY <1>1, <2>1 DEF Within, Effect, Has, Told, Op, Legal, Status, OnThread, OnQueue,
                        OnSocket, OnRenderer, OnFlag, Media
    <2> HIDE DEF b
    <2>3. Good("failing", 8, p, l, b)
      BY <1>3, <1>4, <2>2, Goes
    <2>4. QED
      BY <2>1, <2>3
  <1>6. Within(Effect(p[k], a), b) /\ Legal("failing", p[k], a) /\ p[k].fails = "no"
    BY <1>2 DEF Within, Effect, Has, Told, Op, Legal, Status, OnThread, OnQueue,
                OnSocket, OnRenderer, OnFlag, Sockets, Video
  <1> HIDE DEF a, b
  <1>7. Good("failing", 8, p, k, a)
    BY <1>3, <1>5, <1>6, Goes
  <1>8. QED
    BY <1>7 DEF a

LEMMA AbortVideoSetup ==
  Good("failing", 8, <<Op("cleanup", "video")>>, 1,
       Has(ThreadsAt(8), ExistAt(8), UsedAt(8), OpenAt(8), "ready", "none"))
  <1> DEFINE p == <<Op("cleanup", "video")>>
             a == Has(ThreadsAt(8), ExistAt(8), UsedAt(8), OpenAt(8), "ready", "none")
  <1>1. p[1] = Op("cleanup", "video") /\ Len(p) = 1
    OBVIOUS
  <1> HIDE DEF p
  <1>2. Fits("failing", 8, p, 1)
    BY <1>1 DEF Fits, Modes, Stages
  <1>3. At(8) = Has(ThreadsAt(8), ExistAt(8), UsedAt(8), OpenAt(8), "none", "none")
    BY DEF At
  <1>4. Safe(8, a)
    BY <1>3, AtSafe, SafeKept DEF Stages
  <1>5. Good("failing", 8, p, 1 + 1, At(8)) /\ 1 \in 1 .. Len(p)
    <2>1. 1 + 1 = Len(p) + 1 /\ 8 \in Stages /\ 1 \in 1 .. Len(p)
      BY <1>1 DEF Stages
    <2>2. QED
      BY <1>2, <2>1, Aborted
  <1>6. Within(Effect(p[1], a), At(8)) /\ Legal("failing", p[1], a) /\ p[1].fails = "no"
    BY <1>1, <1>3 DEF Within, Effect, Has, Told, Op, Legal, Status, OnThread, OnQueue,
                      OnSocket, OnRenderer, OnFlag, Media
  <1> HIDE DEF a
  <1>7. Good("failing", 8, p, 1, a)
    BY <1>2, <1>4, <1>5, <1>6, Goes
  <1>8. QED
    BY <1>7 DEF a, p

LEMMA AbortVideoGood == Good("failing", 8, AbortVideo, 1, Video({}, UsedAt(8), "started"))
  <1> DEFINE p == AbortVideo
             a == Video({}, UsedAt(8), "started")
             b == Video({}, UsedAt(8), "stopped")
  <1>1. /\ p[1] = Op("stop", "video") /\ p[2] = Op("close", "video")
        /\ p[3] = Op("cleanup", "video") /\ Len(p) = 3
    BY DEF AbortVideo
  <1> HIDE DEF p
  <1>2. Fits("failing", 8, p, 1)
    BY <1>1 DEF Fits, Modes, Stages
  <1>3. Safe(8, a)
    BY VideoSafe
  <1>4. Good("failing", 8, p, 1 + 1, b) /\ 1 \in 1 .. Len(p)
    <2>1. 2 \in 1 .. Len(p) /\ 2 + 1 = Len(p) /\ p[2 + 1] = Op("cleanup", "video")
      BY <1>1
    <2>2. Good("failing", 8, p, 2, b)
      BY <1>1, <1>2, <2>1, AbortVideoSocket
    <2>3. QED
      BY <1>1, <2>2
  <1>5. Within(Effect(p[1], a), b) /\ Legal("failing", p[1], a) /\ p[1].fails = "no"
    BY <1>1 DEF Within, Effect, Has, Told, Op, Legal, Status, OnThread, OnQueue,
                OnSocket, OnRenderer, OnFlag, Media, Video
  <1> HIDE DEF a, b
  <1>6. Good("failing", 8, p, 1, a)
    BY <1>2, <1>3, <1>4, <1>5, Goes
  <1>7. QED
    BY <1>6 DEF a, p

\* The threads of the video stream but the one that could not be created.
VideoThreads == {"videoRecv"} \cup (IF VideoDecoder THEN {"videoDec"} ELSE {})

LEMMA AbortVideoThreadsGood ==
  Good("failing", 8, AbortVideoThreads, 1, Video(VideoThreads, UsedAt(9), "started"))
  <1> DEFINE p == AbortVideoThreads
             a == Video(VideoThreads, UsedAt(9), "started")
             b == Video(VideoThreads, UsedAt(9), "stopped")
             c == Video({}, UsedAt(8), "stopped")
             J == Done(p, 2, 7, "join")
             S == Done(p, 2, 7, "shutdown")
  <1>1. /\ p[1] = Op("stop", "video") /\ p[2] = Op("shutdown", "decode")
        /\ p[3] = Op("interrupt", "videoRecv")
        /\ p[4] = When(VideoDecoder, Op("interrupt", "videoDec"))
        /\ p[5] = Op("join", "videoRecv") /\ p[6] = When(VideoDecoder, Op("join", "videoDec"))
        /\ p[7] = Op("close", "video") /\ p[8] = Op("cleanup", "video") /\ Len(p) = 8
    BY DEF AbortVideoThreads
  <1> HIDE DEF p
  <1>2. Fits("failing", 8, p, 1)
    BY <1>1 DEF Fits, Modes, Stages
  <1>3. Safe(8, a) /\ Safe(8, b)
    <2>1. VideoThreads \in SUBSET {"videoRecv", "videoDec", "videoPing"}
      BY DEF VideoThreads
    <2>2. QED
      BY <2>1, VideoSafe
  <1>4. Good("failing", 8, p, 7, c)
    <2>1. 7 \in 1 .. Len(p) /\ 7 + 1 = Len(p) /\ p[7 + 1] = Op("cleanup", "video")
      BY <1>1
    <2>2. QED
      BY <1>1, <1>2, <2>1, AbortVideoSocket
  <1>5. Within(Left(b, J, S), c)
    <2>1. "videoRecv" \in J /\ (VideoDecoder => "videoDec" \in J) /\ "decode" \in S
      <3>1. 2 \in 2 .. 7 - 1 /\ 5 \in 2 .. 7 - 1 /\ 6 \in 2 .. 7 - 1
        OBVIOUS
      <3>2. /\ p[2].do = "shutdown" /\ p[2].what = "decode"
            /\ p[5].do = "join" /\ p[5].what = "videoRecv"
            /\ VideoDecoder => p[6].do = "join" /\ p[6].what = "videoDec"
        BY <1>1 DEF Op, When
      <3>3. p[5].what \in J
        BY <3>1, <3>2, DoneHas
      <3>4. VideoDecoder => p[6].what \in J
        BY <3>1, <3>2, DoneHas
      <3>5. p[2].what \in S
        BY <3>1, <3>2, DoneHas
      <3> HIDE DEF J, S
      <3>6. QED
        BY <3>2, <3>3, <3>4, <3>5
    <2> HIDE DEF J, S
    <2>2. VideoThreads \subseteq J
      BY <2>1 DEF VideoThreads
    <2>3. UsedAt(9) \ S \subseteq UsedAt(8)
      BY <2>1 DEF UsedAt
    <2>4. QED
      BY <2>2, <2>3 DEF Within, Left, Has, Video
  <1>6. Good("failing", 8, p, 2, b)
    <2>1. \A i \in 2 .. 7 - 1 : Harmless(p[i]) /\ (p[i].do = "shutdown" => p[i].what \in b.exist)
      <3>1. "decode" \in b.exist
        BY DEF Has, ExistAt, Queues, Video
      <3>2. QED
        BY <1>1, <3>1 DEF Harmless, Op, When, Skip, Threads, Queues
    <2>2. 2 \in 1 .. Len(p) + 1 /\ 7 \in 2 .. Len(p) + 1
      BY <1>1
    <2> HIDE DEF b, c
    <2>3. QED
      BY <1>2, <1>3, <1>4, <1>5, <2>1, <2>2, Run
  <1>7. Good("failing", 8, p, 1 + 1, b) /\ 1 \in 1 .. Len(p)
    BY <1>1, <1>6
  <1>8. Within(Effect(p[1], a), b) /\ Legal("failing", p[1], a) /\ p[1].fails = "no"
    BY <1>1 DEF Within, Effect, Has, Told, Op, Legal, Status, OnThread, OnQueue,
                OnSocket, OnRenderer, OnFlag, Media, Video
  <1> HIDE DEF a, b
  <1>9. Good("failing", 8, p, 1, a)
    BY <1>2, <1>3, <1>7, <1>8, Goes
  <1>10. QED
    BY <1>9 DEF a, p

-----------------------------------------------------------------------------
(* LiStartConnection(), from the last stage to the first.                  *)

LEMMA StartFits ==
  ASSUME NEW s \in 0 .. 10, NEW p, p = Do(s + 1), Len(p) \in Nat
  PROVE  Fits("starting", s, p, 1)
  BY DEF Fits, Modes, Stages, INPUT_STREAM_START, NONE

\* An operation that may fail.
LEMMA Tries ==
  ASSUME NEW s, NEW p, Fits("starting", s, p, 1),
         NEW k \in 1 .. Len(p), NEW a, NEW b, Safe(s, a), Within(Effect(p[k], a), b),
         Good("starting", s, p, k + 1, b), Legal("starting", p[k], a),
         MayFail(p[k]) => Good("failing", s, p[k].undo, 1, a)
  PROVE  Good("starting", s, p, k, a)
  BY Step

LEMMA StartInputStart == Good("starting", 10, Do(11), 1, At(10))
  <1> DEFINE p == StartInput
  <1>1. p[1] = Try("spawn", "inputSend", <<>>) /\ Len(p) = 1
    BY DEF StartInput
  <1> HIDE DEF p
  <1>2. Fits("starting", 10, p, 1)
    <2>1. p = Do(10 + 1) /\ Len(p) \in Nat
      BY <1>1, DoIs DEF p
    <2>2. QED
      BY <2>1, StartFits
  <1>3. Safe(10, At(10)) /\ Safe(10, At(11)) /\ Safe(11, At(11))
    BY AtSafe, SafeLater DEF Stages, CONTROL_STREAM_INIT
  <1>4. Good("starting", 10, p, 2, At(11))
    <2>1. Good("idle", 11, <<>>, 1, At(11))
      BY <1>3, Stop, Established DEF Stages, INPUT_STREAM_START
    <2>2. 2 = Len(p) + 1 /\ 10 + 1 = INPUT_STREAM_START /\ Good("idle", 10 + 1, <<>>, 1, At(11))
      BY <1>1, <2>1 DEF INPUT_STREAM_START
    <2>3. QED
      BY <1>2, <1>3, <2>2, WithinSelf, StartedStage
  <1>5. Within(Effect(p[1], At(10)), At(11))
    <2>1. ThreadsAt(10) \cup {"inputSend"} \subseteq ThreadsAt(11)
      BY DEF ThreadsAt, Threads
    <2>2. /\ ExistAt(10) \cup {"input", "holders"} = ExistAt(11)
          /\ UsedAt(10) \cup {"input", "holders"} \subseteq UsedAt(11)
          /\ OpenAt(10) = OpenAt(11)
      BY DEF ExistAt, UsedAt, OpenAt, Queues
    <2>3. QED
      BY <1>1, <2>1, <2>2 DEF Within, Effect, Has, At, Told, Try, Feeds
  <1>6. Legal("starting", p[1], At(10)) /\ p[1].undo = <<>>
    BY <1>1 DEF Legal, Status, Try, OnThread, OnQueue, OnSocket, OnRenderer, OnFlag, Threads
  <1>7. Good("failing", 10, p[1].undo, 1, At(10)) /\ Good("starting", 10, p, 1 + 1, At(11))
           /\ 1 \in 1 .. Len(p)
    BY <1>1, <1>4, <1>6, AbortNothing DEF Stages
  <1>8. Good("starting", 10, p, 1, At(10))
    BY <1>2, <1>3, <1>5, <1>6, <1>7, Tries
  <1>9. QED
    BY <1>8, DoIs DEF p

\* The end of a stage but the last.
LEMMA NextStage ==
  ASSUME NEW s \in 0 .. 9, NEW p, Fits("starting", s, p, 1), NEW k, k = Len(p) + 1,
         Good("starting", s + 1, Do(s + 2), 1, At(s + 1)), Safe(s, At(s + 1))
  PROVE  Good("starting", s, p, k, At(s + 1))
  <1>1. s + 1 # INPUT_STREAM_START
    BY DEF INPUT_STREAM_START
  <1>2. QED
    BY <1>1, WithinSelf, StartedStage

LEMMA StartAudioStart ==
  ASSUME NoKnownFault PROVE Good("starting", 9, Do(10), 1, At(9))
  <1> DEFINE p == StartAudio
             a == Has(ThreadsAt(9), ExistAt(9), UsedAt(9), OpenAt(9), "started", "ready")
             b == Has(ThreadsAt(9), ExistAt(9), UsedAt(9), OpenAt(9), "started", "started")
  <1>1. /\ p[1] = Try("setup", "audio", <<>>) /\ p[2] = Op("start", "audio")
        /\ p[3] = Try("spawn", "audioRecv", AbortAudio)
        /\ p[4] = When(AudioDecoder, Try("spawn", "audioDec", AbortAudioReceive)) /\ Len(p) = 4
    BY DEF StartAudio
  <1> HIDE DEF p
  <1>2. Fits("starting", 9, p, 1)
    <2>1. p = Do(9 + 1) /\ Len(p) \in Nat
      BY <1>1, DoIs DEF p
    <2>2. QED
      BY <2>1, StartFits
  <1>3. /\ At(10) = Has(ThreadsAt(10), ExistAt(10), UsedAt(10), OpenAt(10), "started", "started")
        /\ At(9) = Has(ThreadsAt(9), ExistAt(9), UsedAt(9), OpenAt(9), "started", "none")
    BY DEF At
  <1>4. Safe(9, At(9)) /\ Safe(9, At(10)) /\ Safe(9, a) /\ Safe(9, b)
    <2>1. Safe(9, At(9)) /\ Safe(9, At(10))
      BY AtSafe, SafeLater DEF Stages, CONTROL_STREAM_INIT
    <2>2. QED
      BY <1>3, <2>1, SafeKept
  <1>5. ~MayFail(p[3]) /\ (AudioDecoder => ~MayFail(p[4]))
    BY <1>1 DEF MayFail, Try, When, NoKnownFault, KnownFaults
  <1>6. Good("starting", 9, p, 5, At(10))
    <2>1. 5 = Len(p) + 1 /\ Good("starting", 9 + 1, Do(9 + 2), 1, At(9 + 1))
      BY <1>1, StartInputStart
    <2>2. QED
      BY <1>2, <1>4, <2>1, NextStage
  <1>7. Good("starting", 9, p, 4, At(10))
    <2>1. /\ ThreadsAt(10) \cup (IF AudioDecoder THEN {"audioDec"} ELSE {}) = ThreadsAt(10)
      BY DEF ThreadsAt, Threads
    <2>2. Within(Effect(p[4], At(10)), At(10)) /\ Legal("starting", p[4], At(10))
      <3>1. CASE AudioDecoder
        BY <1>1, <2>1, <3>1 DEF Within, Effect, Has, At, Told, Try, When, Feeds, Legal, Status,
           OnThread, OnQueue, OnSocket, OnRenderer, OnFlag, Threads
      <3>2. CASE ~AudioDecoder
        BY <1>1, <3>2 DEF Within, Effect, Has, At, Told, Op, Skip, When, Legal, Status,
           OnThread, OnQueue, OnSocket, OnRenderer, OnFlag
      <3>3. QED
        BY <3>1, <3>2
    <2>3. ~MayFail(p[4])
      BY <1>1, <1>5 DEF MayFail, When, Skip, Op
    <2>4. Good("starting", 9, p, 4 + 1, At(10)) /\ 4 \in 1 .. Len(p)
      BY <1>1, <1>6
    <2>5. QED
      BY <1>2, <1>4, <2>2, <2>3, <2>4, Tries
  <1>8. Good("starting", 9, p, 3, b)
    <2>1. Within(Effect(p[3], b), At(10))
      <3>1. ThreadsAt(9) \cup {"audioRecv"} \subseteq ThreadsAt(10)
        BY DEF ThreadsAt, Threads
      <3>2. /\ ExistAt(9) \cup Feeds("audioRecv") = ExistAt(10)
            /\ UsedAt(9) \cup Feeds("audioRecv") \subseteq UsedAt(10)
            /\ OpenAt(9) = OpenAt(10)
        BY DEF ExistAt, UsedAt, OpenAt, Queues, Feeds
      <3>3. QED
        BY <1>1, <1>3, <3>1, <3>2 DEF Within, Effect, Has, Told, Try
    <2>2. Legal("starting", p[3], b)
      BY <1>1 DEF Legal, Status, Try, OnThread, OnQueue, OnSocket, OnRenderer, OnFlag, Threads
    <2>3. Good("starting", 9, p, 3 + 1, At(10)) /\ 3 \in 1 .. Len(p)
      BY <1>1, <1>7
    <2> HIDE DEF b
    <2>4. QED
      BY <1>2, <1>4, <1>5, <2>1, <2>2, <2>3, Tries
  <1>9. Good("starting", 9, p, 2, a)
    <2>1. Within(Effect(p[2], a), b) /\ Legal("starting", p[2], a) /\ p[2].fails = "no"
      BY <1>1 DEF Within, Effect, Has, Told, Op, Legal, Status, OnThread, OnQueue,
                  OnSocket, OnRenderer, OnFlag, Media
    <2>2. Good("starting", 9, p, 2 + 1, b) /\ 2 \in 1 .. Len(p)
      BY <1>1, <1>8
    <2> HIDE DEF a, b
    <2>3. QED
      BY <1>2, <1>4, <2>1, <2>2, Goes
  <1>10. Good("starting", 9, p, 1, At(9))
    <2>1. Within(Effect(p[1], At(9)), a) /\ Legal("starting", p[1], At(9)) /\ p[1].undo = <<>>
      BY <1>1, <1>3 DEF Within, Effect, Has, Told, Try, Legal, Status, OnThread, OnQueue,
                        OnSocket, OnRenderer, OnFlag, Media
    <2>2. Good("failing", 9, p[1].undo, 1, At(9)) /\ Good("starting", 9, p, 1 + 1, a)
             /\ 1 \in 1 .. Len(p)
      BY <1>1, <1>9, <2>1, AbortNothing DEF Stages
    <2> HIDE DEF a
    <2>3. QED
      BY <1>2, <1>4, <2>1, <2>2, Tries
  <1>11. QED
    BY <1>10, DoIs DEF p

LEMMA StartVideoStart ==
  ASSUME NoKnownFault PROVE Good("starting", 8, Do(9), 1, At(8))
  <1> DEFINE p == StartVideo
             a == Has(ThreadsAt(8), ExistAt(8), UsedAt(8), OpenAt(8), "ready", "none")
             b == Video({}, UsedAt(8), "ready")
             c == Video({}, UsedAt(8), "started")
             d == Video(VideoThreads, UsedAt(9), "started")
  <1>1. /\ p[1] = Try("setup", "video", <<>>)
        /\ p[2] = Try("bind", "video", <<Op("cleanup", "video")>>)
        /\ p[3] = Op("start", "video") /\ p[4] = Try("spawn", "videoRecv", AbortVideo)
        /\ p[5] = When(VideoDecoder, Try("spawn", "videoDec", AbortVideoReceive))
        /\ p[6] = Try("spawn", "videoPing", AbortVideoThreads) /\ Len(p) = 6
    BY DEF StartVideo
  <1> HIDE DEF p
  <1>2. Fits("starting", 8, p, 1)
    <2>1. p = Do(8 + 1) /\ Len(p) \in Nat
      BY <1>1, DoIs DEF p
    <2>2. QED
      BY <2>1, StartFits
  <1>3. /\ At(9) = Has(ThreadsAt(9), ExistAt(9), UsedAt(9), OpenAt(9), "started", "none")
        /\ At(8) = Has(ThreadsAt(8), ExistAt(8), UsedAt(8), OpenAt(8), "none", "none")
    BY DEF At
  <1>4. Safe(8, At(8)) /\ Safe(8, At(9)) /\ Safe(8, a) /\ Safe(8, b) /\ Safe(8, c) /\ Safe(8, d)
    <2>1. Safe(8, At(8)) /\ Safe(8, At(9))
      BY AtSafe, SafeLater DEF Stages, CONTROL_STREAM_INIT
    <2>2. Safe(8, a)
      BY <1>3, <2>1, SafeKept
    <2>3. VideoThreads \in SUBSET {"videoRecv", "videoDec", "videoPing"}
      BY DEF VideoThreads
    <2>4. Safe(8, b) /\ Safe(8, c) /\ Safe(8, d)
      BY <2>3, VideoSafe
    <2>5. QED
      BY <2>1, <2>2, <2>4
  <1>5. /\ ExistAt(8) = Queues /\ ExistAt(9) = Queues
        /\ OpenAt(8) \cup {"video"} = OpenAt(9)
        /\ UsedAt(8) \cup {"decode", "tuples", "fec"} \subseteq UsedAt(9)
        /\ ThreadsAt(8) \cup VideoThreads \cup {"videoPing"} = ThreadsAt(9)
    BY DEF ThreadsAt, ExistAt, UsedAt, OpenAt, Threads, Queues, Sockets, VideoThreads
  <1>6. Good("starting", 8, p, 7, At(9))
    <2>1. 7 = Len(p) + 1 /\ Good("starting", 8 + 1, Do(8 + 2), 1, At(8 + 1))
      BY <1>1, StartAudioStart
    <2>2. QED
      BY <1>2, <1>4, <2>1, NextStage
  <1>7. Good("starting", 8, p, 6, d)
    <2>1. Within(Effect(p[6], d), At(9))
      BY <1>1, <1>3, <1>5 DEF Within, Effect, Has, Told, Try, Feeds, Video
    <2>2. Legal("starting", p[6], d) /\ p[6].undo = AbortVideoThreads
      BY <1>1 DEF Legal, Status, Try, OnThread, OnQueue, OnSocket, OnRenderer, OnFlag, Threads
    <2>3. /\ Good("failing", 8, p[6].undo, 1, d)
          /\ Good("starting", 8, p, 6 + 1, At(9)) /\ 6 \in 1 .. Len(p)
      BY <1>1, <1>6, <2>2, AbortVideoThreadsGood
    <2> HIDE DEF d
    <2>4. QED
      BY <1>2, <1>4, <2>1, <2>2, <2>3, Tries
  <1>8. Good("starting", 8, p, 5, d)
    <2>1. Within(Effect(p[5], d), d) /\ Legal("starting", p[5], d)
      <3>1. CASE VideoDecoder
        <4>1. "videoDec" \in VideoThreads
          BY <3>1 DEF VideoThreads
        <4>2. QED
          BY <1>1, <3>1, <4>1 DEF Within, Effect, Has, Video, Told, Try, When, Feeds, Legal, Status,
             OnThread, OnQueue, OnSocket, OnRenderer, OnFlag, Threads
      <3>2. CASE ~VideoDecoder
        BY <1>1, <3>2 DEF Within, Effect, Has, Video, Told, Op, Skip, When, Legal, Status,
           OnThread, OnQueue, OnSocket, OnRenderer, OnFlag
      <3>3. QED
        BY <3>1, <3>2
    <2>2. ~MayFail(p[5])
      BY <1>1 DEF MayFail, When, Skip, Op, Try, NoKnownFault, KnownFaults
    <2>3. Good("starting", 8, p, 5 + 1, d) /\ 5 \in 1 .. Len(p)
      BY <1>1, <1>7
    <2> HIDE DEF d
    <2>4. QED
      BY <1>2, <1>4, <2>1, <2>2, <2>3, Tries
  <1>9. Good("starting", 8, p, 4, c)
    <2>1. Within(Effect(p[4], c), d)
      <3>1. "videoRecv" \in VideoThreads
        BY DEF VideoThreads
      <3>2. QED
        BY <1>1, <1>5, <3>1 DEF Within, Effect, Has, Told, Try, Feeds, Video, Queues
    <2>2. Legal("starting", p[4], c) /\ p[4].undo = AbortVideo
      BY <1>1 DEF Legal, Status, Try, OnThread, OnQueue, OnSocket, OnRenderer, OnFlag, Threads
    <2>3. /\ Good("failing", 8, p[4].undo, 1, c)
          /\ Good("starting", 8, p, 4 + 1, d) /\ 4 \in 1 .. Len(p)
      BY <1>1, <1>8, <2>2, AbortVideoGood
    <2> HIDE DEF c, d
    <2>4. QED
      BY <1>2, <1>4, <2>1, <2>2, <2>3, Tries
  <1>10. Good("starting", 8, p, 3, b)
    <2>1. Within(Effect(p[3], b), c) /\ Legal("starting", p[3], b) /\ p[3].fails = "no"
      BY <1>1 DEF Within, Effect, Has, Told, Op, Legal, Status, OnThread, OnQueue,
                  OnSocket, OnRenderer, OnFlag, Media, Video
    <2>2. Good("starting", 8, p, 3 + 1, c) /\ 3 \in 1 .. Len(p)
      BY <1>1, <1>9
    <2> HIDE DEF b, c
    <2>3. QED
      BY <1>2, <1>4, <2>1, <2>2, Goes
  <1>11. Good("starting", 8, p, 2, a)
    <2>1. Within(Effect(p[2], a), b)
      BY <1>1, <1>5 DEF Within, Effect, Has, Told, Try, Video
    <2>2. Legal("starting", p[2], a) /\ p[2].undo = <<Op("cleanup", "video")>>
      BY <1>1 DEF Legal, Status, Try, OnThread, OnQueue, OnSocket, OnRenderer, OnFlag, Sockets
    <2>3. /\ Good("failing", 8, p[2].undo, 1, a)
          /\ Good("starting", 8, p, 2 + 1, b) /\ 2 \in 1 .. Len(p)
      BY <1>1, <1>10, <2>2, AbortVideoSetup
    <2> HIDE DEF a, b
    <2>4. QED
      BY <1>2, <1>4, <2>1, <2>2, <2>3, Tries
  <1>12. Good("starting", 8, p, 1, At(8))
    <2>1. Within(Effect(p[1], At(8)), a) /\ Legal("starting", p[1], At(8)) /\ p[1].undo = <<>>
      BY <1>1, <1>3 DEF Within, Effect, Has, Told, Try, Legal, Status, OnThread, OnQueue,
                        OnSocket, OnRenderer, OnFlag, Media
    <2>2. Good("failing", 8, p[1].undo, 1, At(8)) /\ Good("starting", 8, p, 1 + 1, a)
             /\ 1 \in 1 .. Len(p)
      BY <1>1, <1>11, <2>1, AbortNothing DEF Stages
    <2> HIDE DEF a
    <2>3. QED
      BY <1>2, <1>4, <2>1, <2>2, Tries
  <1>13. QED
    BY <1>12, DoIs DEF p

LEMMA StartControlStart ==
  ASSUME NoKnownFault PROVE Good("starting", 7, Do(8), 1, At(7))
  <1> DEFINE p == StartControl
             a == Control({})
             b == Control({"controlRecv"})
             c == Control({"controlRecv", "lossStats"})
             d == Control({"controlRecv", "lossStats", "requestIdr"})
             u == <<Op("stopping", TRUE)>>
             v == <<Op("stopping", TRUE), Op("peer", FALSE)>>
  <1>1. /\ p[1] = Try("network", "enet", u) /\ p[2] = Op("peer", TRUE)
        /\ p[3] = Try("spawn", "controlRecv", v)
        /\ p[4] = Try("message", "startA", AbortControl)
        /\ p[5] = Try("message", "startB", AbortControl)
        /\ p[6] = Try("spawn", "lossStats", AbortControl)
        /\ p[7] = Try("spawn", "requestIdr", AbortControlAndStats)
        /\ p[8] = When(RfiEnabled, Try("spawn", "invalidateRef", AbortControlAndRequests))
        /\ Len(p) = 8
    BY DEF StartControl
  <1>u. Good("failing", 7, u, 1, At(7)) /\ Good("failing", 7, v, 1, a)
    BY AbortEnet, AbortControlReceive
  <1> HIDE DEF p, u, v
  <1>2. Fits("starting", 7, p, 1)
    <2>1. p = Do(7 + 1) /\ Len(p) \in Nat
      BY <1>1, DoIs DEF p
    <2>2. QED
      BY <2>1, StartFits
  <1>3. /\ At(8) = Has(ThreadsAt(8), ExistAt(8), UsedAt(8), OpenAt(8), "none", "none")
        /\ At(7) = Has(ThreadsAt(7), ExistAt(7), UsedAt(7), OpenAt(7), "none", "none")
    BY DEF At
  <1>4. Safe(7, At(7)) /\ Safe(7, At(8)) /\ Safe(7, a) /\ Safe(7, b) /\ Safe(7, c) /\ Safe(7, d)
    <2>1. Safe(7, At(7)) /\ Safe(7, At(8))
      BY AtSafe, SafeLater DEF Stages, CONTROL_STREAM_INIT
    <2>2. QED
      BY <2>1, ControlSafe
  <1>5. /\ ExistAt(7) = Queues /\ ExistAt(8) = Queues
        /\ OpenAt(7) \cup {"peer"} = OpenAt(8)
        /\ UsedAt(7) \subseteq UsedAt(8)
        /\ ThreadsAt(7) \cup {"controlRecv", "lossStats", "requestIdr"} \subseteq ThreadsAt(8)
        /\ RfiEnabled => "invalidateRef" \in ThreadsAt(8)
    BY DEF ThreadsAt, ExistAt, UsedAt, OpenAt, Threads, Queues, Sockets
  <1>6. Good("starting", 7, p, 9, At(8))
    <2>1. 9 = Len(p) + 1 /\ Good("starting", 7 + 1, Do(7 + 2), 1, At(7 + 1))
      BY <1>1, StartVideoStart
    <2>2. QED
      BY <1>2, <1>4, <2>1, NextStage
  <1>7. Good("starting", 7, p, 8, d)
    <2>1. CASE RfiEnabled
      <3>1. p[8] = Try("spawn", "invalidateRef", AbortControlAndRequests)
        BY <1>1, <2>1 DEF When
      <3>2. Within(Effect(p[8], d), At(8))
        BY <1>3, <1>5, <2>1, <3>1 DEF Within, Effect, Has, Told, Try, Feeds, Control
      <3>3. Legal("starting", p[8], d) /\ p[8].undo = AbortControlAndRequests
        BY <3>1 DEF Legal, Status, Try, Feeds, OnThread, OnQueue, OnSocket, OnRenderer, OnFlag, Threads
      <3>4. /\ Good("failing", 7, p[8].undo, 1, d)
            /\ Good("starting", 7, p, 8 + 1, At(8)) /\ 8 \in 1 .. Len(p)
        BY <1>1, <1>6, <3>3, AbortControlAndRequestsGood
      <3> HIDE DEF d
      <3>5. QED
        BY <1>2, <1>4, <3>2, <3>3, <3>4, Tries
    <2>2. CASE ~RfiEnabled
      <3>1. p[8] = Skip
        BY <1>1, <2>2 DEF When
      <3>2. Within(Effect(p[8], d), At(8))
        BY <1>3, <1>5, <3>1 DEF Within, Effect, Has, Told, Skip, Op, Control
      <3>3. Legal("starting", p[8], d) /\ p[8].fails = "no"
        BY <3>1 DEF Legal, Status, Skip, Op, OnThread, OnQueue, OnSocket, OnRenderer, OnFlag
      <3>4. Good("starting", 7, p, 8 + 1, At(8)) /\ 8 \in 1 .. Len(p)
        BY <1>1, <1>6
      <3> HIDE DEF d
      <3>5. QED
        BY <1>2, <1>4, <3>2, <3>3, <3>4, Goes
    <2>3. QED
      BY <2>1, <2>2
  <1>8. Good("starting", 7, p, 7, c)
    <2>1. Within(Effect(p[7], c), d)
      BY <1>1 DEF Within, Effect, Has, Told, Try, Feeds, Control
    <2>2. Legal("starting", p[7], c) /\ p[7].undo = AbortControlAndStats
      BY <1>1 DEF Legal, Status, Try, OnThread, OnQueue, OnSocket, OnRenderer, OnFlag, Threads
    <2>3. /\ Good("failing", 7, p[7].undo, 1, c)
          /\ Good("starting", 7, p, 7 + 1, d) /\ 7 \in 1 .. Len(p)
      BY <1>1, <1>7, <2>2, AbortControlAndStatsGood
    <2> HIDE DEF c, d
    <2>4. QED
      BY <1>2, <1>4, <2>1, <2>2, <2>3, Tries
  <1>9. Good("starting", 7, p, 6, b)
    <2>1. Within(Effect(p[6], b), c)
      BY <1>1 DEF Within, Effect, Has, Told, Try, Feeds, Control
    <2>2. Legal("starting", p[6], b) /\ p[6].undo = AbortControl
      BY <1>1 DEF Legal, Status, Try, OnThread, OnQueue, OnSocket, OnRenderer, OnFlag, Threads
    <2>3. /\ Good("failing", 7, p[6].undo, 1, b)
          /\ Good("starting", 7, p, 6 + 1, c) /\ 6 \in 1 .. Len(p)
      BY <1>1, <1>8, <2>2, AbortControlGood
    <2> HIDE DEF b, c
    <2>4. QED
      BY <1>2, <1>4, <2>1, <2>2, <2>3, Tries
  <1>10. Good("starting", 7, p, 5, b)
    <2>1. Within(Effect(p[5], b), b)
      BY <1>1 DEF Within, Effect, Has, Told, Try, Control
    <2>2. Legal("starting", p[5], b) /\ p[5].undo = AbortControl
      BY <1>1 DEF Legal, Status, Try, OnThread, OnQueue, OnSocket, OnRenderer, OnFlag
    <2>3. /\ Good("failing", 7, p[5].undo, 1, b)
          /\ Good("starting", 7, p, 5 + 1, b) /\ 5 \in 1 .. Len(p)
      BY <1>1, <1>9, <2>2, AbortControlGood
    <2> HIDE DEF b
    <2>4. QED
      BY <1>2, <1>4, <2>1, <2>2, <2>3, Tries
  <1>11. Good("starting", 7, p, 4, b)
    <2>1. Within(Effect(p[4], b), b)
      BY <1>1 DEF Within, Effect, Has, Told, Try, Control
    <2>2. Legal("starting", p[4], b) /\ p[4].undo = AbortControl
      BY <1>1 DEF Legal, Status, Try, OnThread, OnQueue, OnSocket, OnRenderer, OnFlag
    <2>3. /\ Good("failing", 7, p[4].undo, 1, b)
          /\ Good("starting", 7, p, 4 + 1, b) /\ 4 \in 1 .. Len(p)
      BY <1>1, <1>10, <2>2, AbortControlGood
    <2> HIDE DEF b
    <2>4. QED
      BY <1>2, <1>4, <2>1, <2>2, <2>3, Tries
  <1>12. Good("starting", 7, p, 3, a)
    <2>1. Within(Effect(p[3], a), b)
      BY <1>1 DEF Within, Effect, Has, Told, Try, Feeds, Control
    <2>2. Legal("starting", p[3], a) /\ p[3].undo = v
      BY <1>1 DEF Legal, Status, Try, OnThread, OnQueue, OnSocket, OnRenderer, OnFlag, Threads
    <2>3. /\ Good("failing", 7, p[3].undo, 1, a)
          /\ Good("starting", 7, p, 3 + 1, b) /\ 3 \in 1 .. Len(p)
      BY <1>1, <1>11, <1>u, <2>2
    <2> HIDE DEF a, b
    <2>4. QED
      BY <1>2, <1>4, <2>1, <2>2, <2>3, Tries
  <1>13. Good("starting", 7, p, 2, At(7))
    <2>1. Within(Effect(p[2], At(7)), a)
      BY <1>1, <1>3, <1>5 DEF Within, Effect, Has, Told, Op, Control
    <2>2. Legal("starting", p[2], At(7)) /\ p[2].fails = "no"
      BY <1>1 DEF Legal, Status, Op, OnThread, OnQueue, OnSocket, OnRenderer, OnFlag
    <2>3. Good("starting", 7, p, 2 + 1, a) /\ 2 \in 1 .. Len(p)
      BY <1>1, <1>12
    <2> HIDE DEF a
    <2>4. QED
      BY <1>2, <1>4, <2>1, <2>2, <2>3, Goes
  <1>14. Good("starting", 7, p, 1, At(7))
    <2>1. Within(Effect(p[1], At(7)), At(7))
      BY <1>1, <1>3 DEF Within, Effect, Has, Told, Try
    <2>2. Legal("starting", p[1], At(7)) /\ p[1].undo = u
      BY <1>1 DEF Legal, Status, Try, OnThread, OnQueue, OnSocket, OnRenderer, OnFlag
    <2>3. /\ Good("failing", 7, p[1].undo, 1, At(7))
          /\ Good("starting", 7, p, 1 + 1, At(7)) /\ 1 \in 1 .. Len(p)
      BY <1>1, <1>13, <1>u, <2>2
    <2>4. QED
      BY <1>2, <1>4, <2>1, <2>2, <2>3, Tries
  <1>15. QED
    BY <1>14, DoIs DEF p

LEMMA StartInputInit ==
  ASSUME NoKnownFault PROVE Good("starting", 6, Do(7), 1, At(6))
  <1> DEFINE p == InitInput
             a == Has(ThreadsAt(7), ExistAt(6) \cup {"input"}, UsedAt(7), OpenAt(7), "none", "none")
  <1>1. p[1] = Op("create", "input") /\ p[2] = Op("create", "holders") /\ Len(p) = 2
    BY DEF InitInput
  <1> HIDE DEF p
  <1>2. Fits("starting", 6, p, 1)
    <2>1. p = Do(6 + 1) /\ Len(p) \in Nat
      BY <1>1, DoIs DEF p
    <2>2. QED
      BY <2>1, StartFits
  <1>3. /\ At(7) = Has(ThreadsAt(7), ExistAt(7), UsedAt(7), OpenAt(7), "none", "none")
        /\ At(6) = Has(ThreadsAt(6), ExistAt(6), UsedAt(6), OpenAt(6), "none", "none")
    BY DEF At
  <1>4. /\ ExistAt(6) \cup {"input", "holders"} = ExistAt(7) /\ ThreadsAt(7) = ThreadsAt(6)
        /\ UsedAt(7) = {} /\ UsedAt(6) = {} /\ OpenAt(7) = OpenAt(6)
    BY DEF ThreadsAt, ExistAt, UsedAt, OpenAt, Queues
  <1>5. Safe(6, At(6)) /\ Safe(6, At(7)) /\ Safe(6, a)
    <2>1. Safe(6, At(6)) /\ Safe(6, At(7))
      BY AtSafe, SafeLater DEF Stages, CONTROL_STREAM_INIT
    <2>2. ExistAt(6) \subseteq ExistAt(6) \cup {"input"}
      OBVIOUS
    <2>3. QED
      BY <1>3, <1>4, <2>1, <2>2, SafeKept
  <1>6. Good("starting", 6, p, 3, At(7))
    <2>1. 3 = Len(p) + 1 /\ Good("starting", 6 + 1, Do(6 + 2), 1, At(6 + 1))
      BY <1>1, StartControlStart
    <2>2. QED
      BY <1>2, <1>5, <2>1, NextStage
  <1>7. Good("starting", 6, p, 2, a)
    <2>1. Within(Effect(p[2], a), At(7)) /\ Legal("starting", p[2], a) /\ p[2].fails = "no"
      BY <1>1, <1>3, <1>4 DEF Within, Effect, Has, Told, Op, Legal, Status, OnThread, OnQueue,
                        OnSocket, OnRenderer, OnFlag, Queues
    <2>2. Good("starting", 6, p, 2 + 1, At(7)) /\ 2 \in 1 .. Len(p)
      BY <1>1, <1>6
    <2> HIDE DEF a
    <2>3. QED
      BY <1>2, <1>5, <2>1, <2>2, Goes
  <1>8. Good("starting", 6, p, 1, At(6))
    <2>1. Within(Effect(p[1], At(6)), a) /\ Legal("starting", p[1], At(6)) /\ p[1].fails = "no"
      BY <1>1, <1>3, <1>4 DEF Within, Effect, Has, Told, Op, Legal, Status, OnThread, OnQueue,
                        OnSocket, OnRenderer, OnFlag, Queues
    <2>2. Good("starting", 6, p, 1 + 1, a) /\ 1 \in 1 .. Len(p)
      BY <1>1, <1>7
    <2> HIDE DEF a
    <2>3. QED
      BY <1>2, <1>5, <2>1, <2>2, Goes
  <1>9. QED
    BY <1>8, DoIs DEF p

LEMMA StartVideoInit ==
  ASSUME NoKnownFault PROVE Good("starting", 5, Do(6), 1, At(5))
  <1> DEFINE p == InitVideo
  <1>1. p[1] = Op("create", "decode") /\ Len(p) = 1
    BY DEF InitVideo
  <1> HIDE DEF p
  <1>2. Fits("starting", 5, p, 1)
    <2>1. p = Do(5 + 1) /\ Len(p) \in Nat
      BY <1>1, DoIs DEF p
    <2>2. QED
      BY <2>1, StartFits
  <1>3. /\ At(6) = Has(ThreadsAt(6), ExistAt(6), UsedAt(6), OpenAt(6), "none", "none")
        /\ At(5) = Has(ThreadsAt(5), ExistAt(5), UsedAt(5), OpenAt(5), "none", "none")
    BY DEF At
  <1>4. /\ ExistAt(5) \cup {"decode"} = ExistAt(6) /\ ThreadsAt(6) = ThreadsAt(5)
        /\ UsedAt(6) = {} /\ UsedAt(5) = {} /\ OpenAt(6) = OpenAt(5)
    BY DEF ThreadsAt, ExistAt, UsedAt, OpenAt, Queues
  <1>5. Safe(5, At(5)) /\ Safe(5, At(6))
    BY AtSafe, SafeLater DEF Stages, CONTROL_STREAM_INIT
  <1>6. Good("starting", 5, p, 2, At(6))
    <2>1. 2 = Len(p) + 1 /\ Good("starting", 5 + 1, Do(5 + 2), 1, At(5 + 1))
      BY <1>1, StartInputInit
    <2>2. QED
      BY <1>2, <1>5, <2>1, NextStage
  <1>7. Good("starting", 5, p, 1, At(5))
    <2>1. Within(Effect(p[1], At(5)), At(6)) /\ Legal("starting", p[1], At(5)) /\ p[1].fails = "no"
      BY <1>1, <1>3, <1>4 DEF Within, Effect, Has, Told, Op, Legal, Status, OnThread, OnQueue,
                        OnSocket, OnRenderer, OnFlag, Queues
    <2>2. Good("starting", 5, p, 1 + 1, At(6)) /\ 1 \in 1 .. Len(p)
      BY <1>1, <1>6
    <2>3. QED
      BY <1>2, <1>5, <2>1, <2>2, Goes
  <1>8. QED
    BY <1>7, DoIs DEF p

LEMMA StartControlInit ==
  ASSUME NoKnownFault PROVE Good("starting", 4, Do(5), 1, At(4))
  <1> DEFINE p == InitControl
             a == Has(ThreadsAt(5), ExistAt(4) \cup {"tuples"}, UsedAt(5), OpenAt(5), "none", "none")
  <1>1. /\ p[1] = Op("stopping", FALSE) /\ p[2] = Op("idrEvent", FALSE)
        /\ p[3] = Op("create", "tuples") /\ p[4] = Op("create", "fec") /\ Len(p) = 4
    BY DEF InitControl
  <1> HIDE DEF p
  <1>2. Fits("starting", 4, p, 1)
    <2>1. p = Do(4 + 1) /\ Len(p) \in Nat
      BY <1>1, DoIs DEF p
    <2>2. QED
      BY <2>1, StartFits
  <1>3. /\ At(5) = Has(ThreadsAt(5), ExistAt(5), UsedAt(5), OpenAt(5), "none", "none")
        /\ At(4) = Has(ThreadsAt(4), ExistAt(4), UsedAt(4), OpenAt(4), "none", "none")
    BY DEF At
  <1>4. /\ ExistAt(4) \cup {"tuples", "fec"} = ExistAt(5) /\ ThreadsAt(5) = ThreadsAt(4)
        /\ UsedAt(5) = {} /\ UsedAt(4) = {} /\ OpenAt(5) = OpenAt(4)
    BY DEF ThreadsAt, ExistAt, UsedAt, OpenAt, Queues
  <1>5. Safe(4, At(4)) /\ Safe(4, At(5)) /\ Safe(4, a)
    <2>1. Safe(4, At(4))
      BY AtSafe DEF Stages
    <2>2. Safe(4, At(5)) /\ Safe(4, a)
      BY <1>3, <1>4, <2>1, SafeKept
    <2>3. QED
      BY <2>1, <2>2
  <1>6. Good("starting", 4, p, 5, At(5))
    <2>1. 5 = Len(p) + 1 /\ Good("starting", 4 + 1, Do(4 + 2), 1, At(4 + 1))
      BY <1>1, StartVideoInit
    <2>2. QED
      BY <1>2, <1>5, <2>1, NextStage
  <1>7. Good("starting", 4, p, 4, a)
    <2>1. Within(Effect(p[4], a), At(5)) /\ Legal("starting", p[4], a) /\ p[4].fails = "no"
      BY <1>1, <1>3, <1>4 DEF Within, Effect, Has, Told, Op, Legal, Status, OnThread, OnQueue,
                        OnSocket, OnRenderer, OnFlag, Queues
    <2>2. Good("starting", 4, p, 4 + 1, At(5)) /\ 4 \in 1 .. Len(p)
      BY <1>1, <1>6
    <2> HIDE DEF a
    <2>3. QED
      BY <1>2, <1>5, <2>1, <2>2, Goes
  <1>8. Good("starting", 4, p, 3, At(4))
    <2>1. Within(Effect(p[3], At(4)), a) /\ Legal("starting", p[3], At(4)) /\ p[3].fails = "no"
      BY <1>1, <1>3, <1>4 DEF Within, Effect, Has, Told, Op, Legal, Status, OnThread, OnQueue,
                        OnSocket, OnRenderer, OnFlag, Queues
    <2>2. Good("starting", 4, p, 3 + 1, a) /\ 3 \in 1 .. Len(p)
      BY <1>1, <1>7
    <2> HIDE DEF a
    <2>3. QED
      BY <1>2, <1>5, <2>1, <2>2, Goes
  <1>9. Good("starting", 4, p, 2, At(4))
    <2>1. Within(Effect(p[2], At(4)), At(4)) /\ Legal("starting", p[2], At(4)) /\ p[2].fails = "no"
      BY <1>1, <1>3 DEF Within, Effect, Has, Told, Op, Legal, Status, OnThread, OnQueue,
                        OnSocket, OnRenderer, OnFlag
    <2>2. Good("starting", 4, p, 2 + 1, At(4)) /\ 2 \in 1 .. Len(p)
      BY <1>1, <1>8
    <2>3. QED
      BY <1>2, <1>5, <2>1, <2>2, Goes
  <1>10. Good("starting", 4, p, 1, At(4))
    <2>1. Within(Effect(p[1], At(4)), At(4)) /\ Legal("starting", p[1], At(4)) /\ p[1].fails = "no"
      BY <1>1, <1>3 DEF Within, Effect, Has, Told, Op, Legal, Status, OnThread, OnQueue,
                        OnSocket, OnRenderer, OnFlag
    <2>2. Good("starting", 4, p, 1 + 1, At(4)) /\ 1 \in 1 .. Len(p)
      BY <1>1, <1>9
    <2>3. QED
      BY <1>2, <1>5, <2>1, <2>2, Goes
  <1>11. QED
    BY <1>10, DoIs DEF p

LEMMA StartHandshake ==
  ASSUME NoKnownFault PROVE Good("starting", 3, Do(4), 1, At(3))
  <1> DEFINE p == Handshake
  <1>1. /\ p[1] = Try("network", "rtsp", <<>>) /\ p[2] = Soft("spawn", "audioPing")
        /\ p[3] = Try("network", "rtsp", <<>>) /\ Len(p) = 3
    BY DEF Handshake
  <1> HIDE DEF p
  <1>2. Fits("starting", 3, p, 1)
    <2>1. p = Do(3 + 1) /\ Len(p) \in Nat
      BY <1>1, DoIs DEF p
    <2>2. QED
      BY <2>1, StartFits
  <1>3. At(3) = At(4) /\ "audioPing" \in ThreadsAt(3)
    BY DEF At, ThreadsAt, ExistAt, UsedAt, OpenAt, Threads
  <1>4. Safe(3, At(3)) /\ Safe(3, At(4))
    BY <1>3, AtSafe DEF Stages
  <1>5. Good("starting", 3, p, 4, At(4))
    <2>1. 4 = Len(p) + 1 /\ Good("starting", 3 + 1, Do(3 + 2), 1, At(3 + 1))
      BY <1>1, StartControlInit
    <2>2. QED
      BY <1>2, <1>4, <2>1, NextStage
  <1>6. Good("starting", 3, p, 3, At(3))
    <2>1. Within(Effect(p[3], At(3)), At(4)) /\ Legal("starting", p[3], At(3)) /\ p[3].undo = <<>>
      BY <1>1, <1>3 DEF Within, Effect, Has, At, Told, Try, Legal, Status, OnThread, OnQueue,
                        OnSocket, OnRenderer, OnFlag
    <2>2. Good("failing", 3, p[3].undo, 1, At(3)) /\ Good("starting", 3, p, 3 + 1, At(4))
             /\ 3 \in 1 .. Len(p)
      BY <1>1, <1>5, <2>1, AbortNothing DEF Stages
    <2>3. QED
      BY <1>2, <1>4, <2>1, <2>2, Tries
  <1>7. Good("starting", 3, p, 2, At(3))
    <2>1. Within(Effect(p[2], At(3)), At(3)) /\ Legal("starting", p[2], At(3))
      BY <1>1, <1>3 DEF Within, Effect, Has, At, Told, Soft, Feeds, Legal, Status, OnThread, OnQueue,
                        OnSocket, OnRenderer, OnFlag, Threads
    <2>2. ~MayFail(p[2]) /\ Good("starting", 3, p, 2 + 1, At(3)) /\ 2 \in 1 .. Len(p)
      BY <1>1, <1>6 DEF MayFail, Soft
    <2>3. QED
      BY <1>2, <1>4, <2>1, <2>2, Tries
  <1>8. Good("starting", 3, p, 1, At(3))
    <2>1. Within(Effect(p[1], At(3)), At(3)) /\ Legal("starting", p[1], At(3)) /\ p[1].undo = <<>>
      BY <1>1 DEF Within, Effect, Has, At, Told, Try, Legal, Status, OnThread, OnQueue,
                  OnSocket, OnRenderer, OnFlag
    <2>2. Good("failing", 3, p[1].undo, 1, At(3)) /\ Good("starting", 3, p, 1 + 1, At(3))
             /\ 1 \in 1 .. Len(p)
      BY <1>1, <1>7, <2>1, AbortNothing DEF Stages
    <2>3. QED
      BY <1>2, <1>4, <2>1, <2>2, Tries
  <1>9. QED
    BY <1>8, DoIs DEF p

LEMMA StartAudioInit ==
  ASSUME NoKnownFault PROVE Good("starting", 2, Do(3), 1, At(2))
  <1> DEFINE p == InitAudio
             a == Has({}, {"audio"}, {}, {}, "none", "none")
  <1>1. p[1] = Op("create", "audio") /\ p[2] = Try("bind", "audio", <<>>) /\ Len(p) = 2
    BY DEF InitAudio
  <1> HIDE DEF p
  <1>2. Fits("starting", 2, p, 1)
    <2>1. p = Do(2 + 1) /\ Len(p) \in Nat
      BY <1>1, DoIs DEF p
    <2>2. QED
      BY <2>1, StartFits
  <1>3. /\ ThreadsAt(3) = {"audioPing"} /\ ExistAt(3) = {"audio"} /\ OpenAt(3) = {"audio"}
        /\ UsedAt(3) = {} /\ ThreadsAt(2) = {} /\ ExistAt(2) = {} /\ OpenAt(2) = {}
        /\ UsedAt(2) = {}
    BY DEF ThreadsAt, ExistAt, UsedAt, OpenAt, Threads, Queues, Sockets
  <1>4. /\ At(3) = Has({"audioPing"}, {"audio"}, {}, {"audio"}, "none", "none")
        /\ At(2) = Has({}, {}, {}, {}, "none", "none")
    BY <1>3 DEF At
  <1>5. Safe(2, At(2)) /\ Safe(2, At(3)) /\ Safe(2, a)
    BY <1>4 DEF Safe, Has
  <1>6. Good("starting", 2, p, 3, At(3))
    <2>1. 3 = Len(p) + 1 /\ Good("starting", 2 + 1, Do(2 + 2), 1, At(2 + 1))
      BY <1>1, StartHandshake
    <2>2. QED
      BY <1>2, <1>5, <2>1, NextStage
  <1>7. Good("starting", 2, p, 2, a)
    <2>1. Within(Effect(p[2], a), At(3)) /\ Legal("starting", p[2], a)
      BY <1>1, <1>4 DEF Within, Effect, Has, Told, Try, Legal, Status, OnThread, OnQueue,
                        OnSocket, OnRenderer, OnFlag, Sockets
    <2>2. ~MayFail(p[2]) /\ Good("starting", 2, p, 2 + 1, At(3)) /\ 2 \in 1 .. Len(p)
      BY <1>1, <1>6 DEF MayFail, Try, NoKnownFault, KnownFaults
    <2> HIDE DEF a
    <2>3. QED
      BY <1>2, <1>5, <2>1, <2>2, Tries
  <1>8. Good("starting", 2, p, 1, At(2))
    <2>1. Within(Effect(p[1], At(2)), a) /\ Legal("starting", p[1], At(2)) /\ p[1].fails = "no"
      BY <1>1, <1>4 DEF Within, Effect, Has, Told, Op, Legal, Status, OnThread, OnQueue,
                        OnSocket, OnRenderer, OnFlag, Queues
    <2>2. Good("starting", 2, p, 1 + 1, a) /\ 1 \in 1 .. Len(p)
      BY <1>1, <1>7
    <2> HIDE DEF a
    <2>3. QED
      BY <1>2, <1>5, <2>1, <2>2, Goes
  <1>9. QED
    BY <1>8, DoIs DEF p

\* The stages that only try something on the network.
LEMMA StartQuiet ==
  ASSUME NEW s \in {0, 1}, NEW what, Do(s + 1) = <<Try("network", what, <<>>)>>,
         Good("starting", s + 1, Do(s + 2), 1, At(s + 1))
  PROVE  Good("starting", s, Do(s + 1), 1, At(s))
  <1> DEFINE p == Do(s + 1)
  <1>1. p[1] = Try("network", what, <<>>) /\ Len(p) = 1
    OBVIOUS
  <1>2. Fits("starting", s, p, 1)
    BY <1>1, StartFits
  <1>3. /\ At(s) = Has({}, {}, {}, {}, "none", "none")
        /\ At(s + 1) = Has({}, {}, {}, {}, "none", "none")
    <2>1. ASSUME NEW r \in 0 .. 2 PROVE At(r) = Has({}, {}, {}, {}, "none", "none")
      <3>1. ThreadsAt(r) = {} /\ ExistAt(r) = {} /\ UsedAt(r) = {} /\ OpenAt(r) = {}
        BY DEF ThreadsAt, ExistAt, UsedAt, OpenAt
      <3>2. QED
        BY <3>1 DEF At
    <2>2. QED
      BY <2>1
  <1>4. Safe(s, At(s)) /\ Safe(s, At(s + 1))
    BY <1>3 DEF Safe, Has
  <1> HIDE DEF p
  <1>5. Good("starting", s, p, 2, At(s + 1))
    <2>1. 2 = Len(p) + 1
      BY <1>1
    <2>2. QED
      BY <1>2, <1>4, <2>1, NextStage
  <1>6. Within(Effect(p[1], At(s)), At(s + 1)) /\ Legal("starting", p[1], At(s)) /\ p[1].undo = <<>>
    BY <1>1, <1>3 DEF Within, Effect, Has, Told, Try, Legal, Status, OnThread, OnQueue,
                OnSocket, OnRenderer, OnFlag
  <1>7. Good("failing", s, p[1].undo, 1, At(s)) /\ Good("starting", s, p, 1 + 1, At(s + 1))
           /\ 1 \in 1 .. Len(p)
    BY <1>1, <1>5, <1>6, AbortNothing DEF Stages
  <1>8. Good("starting", s, p, 1, At(s))
    BY <1>2, <1>4, <1>6, <1>7, Tries
  <1>9. QED
    BY <1>8 DEF p

LEMMA Start == ASSUME NoKnownFault PROVE Good("starting", 0, Do(1), 1, At(0))
  <1>1. Good("starting", 1, Do(2), 1, At(1))
    <2>1. Good("starting", 1 + 1, Do(1 + 2), 1, At(1 + 1))
      BY StartAudioInit
    <2>2. Do(1 + 1) = <<Try("network", "resolve", <<>>)>>
      BY DoIs
    <2>3. Good("starting", 1, Do(1 + 1), 1, At(1))
      BY <2>1, <2>2, StartQuiet
    <2>4. QED
      BY <2>3
  <1>2. Good("starting", 0 + 1, Do(0 + 2), 1, At(0 + 1))
    BY <1>1
  <1>3. Do(0 + 1) = <<Try("network", "platform", <<>>)>>
    BY DoIs
  <1>4. Good("starting", 0, Do(0 + 1), 1, At(0))
    BY <1>2, <1>3, StartQuiet
  <1>5. QED
    BY <1>4

-----------------------------------------------------------------------------
(* The invariant.                                                          *)

Inv == TypeOK /\ Good(api, stage, program, pc, Acquired)

LEMMA AcquiredIs ==
  /\ Acquired.threads = {t \in Threads : thread[t] # "none"}
  /\ Acquired.exist = {q \in Queues : queue[q] # "none"}
  /\ Acquired.used = {q \in Queues : queue[q] = "used"}
  /\ Acquired.open = {s \in Sockets \cup {"peer"} : IF s = "peer" THEN peer ELSE socket[s] = "open"}
  /\ Acquired.video = renderer["video"] /\ Acquired.audio = renderer["audio"]
  BY DEF Acquired, Has

LEMMA AcquiredThen ==
  /\ Acquired'.threads = {t \in Threads : thread'[t] # "none"}
  /\ Acquired'.exist = {q \in Queues : queue'[q] # "none"}
  /\ Acquired'.used = {q \in Queues : queue'[q] = "used"}
  /\ Acquired'.open = {s \in Sockets \cup {"peer"} : IF s = "peer" THEN peer' ELSE socket'[s] = "open"}
  /\ Acquired'.video = renderer'["video"] /\ Acquired'.audio = renderer'["audio"]
  BY DEF Acquired, Has

\* An operation that succeeds.
LEMMA OpDone ==
  ASSUME Inv, api # "idle", ~AtEnd, Pop, Within(Acquired', Effect(op, Acquired))
  PROVE  Good(api, stage, program, pc, Acquired)'
  <1>1. Good(api, stage, program, pc + 1, Effect(op, Acquired))
    BY GoodSafe, GoodProceeds DEF Inv, AtEnd, op, Fits
  <1>2. QED
    BY <1>1, GoodWithin DEF Pop

LEMMA OpLegal ==
  ASSUME Inv, api # "idle", ~AtEnd PROVE Legal(api, op, Acquired)
  BY GoodSafe, GoodProceeds DEF Inv, AtEnd, op, Fits

LEMMA InitInv == ASSUME Init PROVE Inv
  <1>1. TypeOK
    <2>1. /\ stage \in Stages /\ session \in 0..MaxSessions /\ pc \in 1..Len(program) + 1
          /\ api \in {"idle", "starting", "failing", "stopping", "undoing"}
      BY ConnectionAssumption DEF Init, NONE, Stages
    <2>2. /\ alreadyTerminated \in BOOLEAN /\ ConnectionInterrupted \in BOOLEAN
          /\ stopping \in BOOLEAN /\ idrEvent \in BOOLEAN /\ peer \in BOOLEAN
      BY DEF Init
    <2>3. /\ thread \in [Threads -> {"none", "running", "waiting", "woken", "cleared",
                                     "sending", "transit", "terminating", "exited"}]
          /\ cancelled \subseteq Threads
          /\ queue \in [Queues -> {"none", "fresh", "used", "stopped"}]
          /\ socket \in [Sockets -> {"invalid", "open", "closed"}]
          /\ renderer \in [Media -> {"none", "ready", "started", "stopped"}]
          /\ asyncTerm \in [1..MaxSessions -> Nat]
      BY DEF Init
    <2>4. QED
      BY <2>1, <2>2, <2>3 DEF TypeOK
  <1>2. Good("idle", NONE, <<>>, 1, Acquired)
    <2>1. Nothing(Acquired)
      BY AcquiredIs DEF Init, Nothing, Media, Sockets
    <2>2. Safe(NONE, Acquired)
      BY <2>1 DEF Nothing, Safe
    <2>3. QED
      BY <2>1, <2>2, Stopped
  <1>3. QED
    BY <1>1, <1>2 DEF Init, Inv

-----------------------------------------------------------------------------
(* Each step keeps the invariant.  First the operations of a call.          *)

LEMMA SpawnKeeps == ASSUME Inv, api # "idle", ~AtEnd, NEW t \in Threads, Spawn(t) PROVE Inv'
  <1>1. op.do = "spawn" /\ op.what = t /\ Pop
    BY DEF Spawn
  <1>2. TypeOK'
    BY DEF Spawn, Pop, Inv, TypeOK, AtEnd, flags, clients
  <1>3. Within(Acquired', Effect(op, Acquired))
    <2> DEFINE e == Effect(op, Acquired)
    <2>1. /\ e.threads = Acquired.threads \cup {t} /\ e.exist = Acquired.exist \cup Feeds(t)
          /\ e.used = Acquired.used \cup Feeds(t) /\ e.open = Acquired.open
          /\ e.video = Acquired.video /\ e.audio = Acquired.audio
      BY <1>1 DEF Effect, Has, Told
    <2> HIDE DEF e
    <2>2. Acquired'.threads \subseteq e.threads
      BY <2>1, AcquiredIs, AcquiredThen DEF Spawn, Inv, TypeOK
    <2>3. Acquired'.exist = e.exist /\ Acquired'.used \subseteq e.used
      BY <2>1, AcquiredIs, AcquiredThen DEF Spawn, Inv, TypeOK, Feeds, Queues
    <2>4. Acquired'.open = e.open /\ Acquired'.video = e.video /\ Acquired'.audio = e.audio
      BY <2>1, AcquiredIs, AcquiredThen DEF Spawn
    <2>5. QED
      BY <2>2, <2>3, <2>4 DEF Within, e
  <1>4. QED
    BY <1>1, <1>2, <1>3, OpDone DEF Inv

LEMMA InterruptKeeps ==
  ASSUME Inv, api # "idle", ~AtEnd, NEW t \in Threads, Interrupt(t) PROVE Inv'
  <1>1. op.do = "interrupt" /\ op.what = t /\ Pop
    BY DEF Interrupt
  <1>2. TypeOK'
    BY DEF Interrupt, Pop, Inv, TypeOK, AtEnd, flags, objects, clients
  <1>3. Within(Acquired', Effect(op, Acquired))
    <2>1. Acquired' = Acquired
      BY DEF Interrupt, objects, Acquired, Has
    <2>2. QED
      BY <1>1, <2>1, AcquiredIs DEF Within, Effect, Has, Told
  <1>4. QED
    BY <1>1, <1>2, <1>3, OpDone DEF Inv

LEMMA JoinKeeps == ASSUME Inv, api # "idle", ~AtEnd, NEW t \in Threads, Join(t) PROVE Inv'
  <1>1. op.do = "join" /\ op.what = t /\ Pop
    BY DEF Join
  <1>2. TypeOK'
    BY DEF Join, Pop, Inv, TypeOK, AtEnd, flags, objects, clients
  <1>3. Within(Acquired', Effect(op, Acquired))
    <2> DEFINE e == Effect(op, Acquired)
    <2>1. /\ e.threads = Acquired.threads \ {t} /\ e.exist = Acquired.exist
          /\ e.used = Acquired.used /\ e.open = Acquired.open
          /\ e.video = Acquired.video /\ e.audio = Acquired.audio
      BY <1>1 DEF Effect, Has, Told
    <2> HIDE DEF e
    <2>2. Acquired'.threads \subseteq e.threads
      BY <2>1, AcquiredIs, AcquiredThen DEF Join, Inv, TypeOK
    <2>3. /\ Acquired'.exist = e.exist /\ Acquired'.used = e.used
          /\ Acquired'.open = e.open /\ Acquired'.video = e.video /\ Acquired'.audio = e.audio
      BY <2>1, AcquiredIs, AcquiredThen DEF Join, objects
    <2>4. QED
      BY <2>2, <2>3 DEF Within, e
  <1>4. QED
    BY <1>1, <1>2, <1>3, OpDone DEF Inv

LEMMA QueueOpKeeps == ASSUME Inv, api # "idle", ~AtEnd, QueueOp PROVE Inv'
  <1>1. op.do \in {"create", "shutdown", "destroy"} /\ op.what \in Queues /\ Pop
    BY OpLegal DEF QueueOp, Legal, OnQueue
  <1>2. TypeOK'
    BY <1>1 DEF QueueOp, Pop, Inv, TypeOK, AtEnd, flags, clients
  <1>3. Within(Acquired', Effect(op, Acquired))
    <2> DEFINE e == Effect(op, Acquired)
    <2>1. /\ e.threads = Acquired.threads /\ e.used = Acquired.used \ {op.what}
          /\ e.exist = IF op.do = "destroy" THEN Acquired.exist \ {op.what}
                       ELSE Acquired.exist \cup {op.what}
          /\ e.open = Acquired.open /\ e.video = Acquired.video /\ e.audio = Acquired.audio
      BY <1>1 DEF Effect, Has, Told
    <2> HIDE DEF e
    <2>2. Acquired'.exist = e.exist
      BY <1>1, <2>1, AcquiredIs, AcquiredThen DEF QueueOp, Inv, TypeOK
    <2>3. Acquired'.used \subseteq e.used
      BY <1>1, <2>1, AcquiredIs, AcquiredThen DEF QueueOp, Inv, TypeOK
    <2>4. /\ Acquired'.threads = e.threads /\ Acquired'.open = e.open
          /\ Acquired'.video = e.video /\ Acquired'.audio = e.audio
      BY <2>1, AcquiredIs, AcquiredThen DEF QueueOp
    <2>5. QED
      BY <2>2, <2>3, <2>4 DEF Within, e
  <1>4. QED
    BY <1>1, <1>2, <1>3, OpDone DEF Inv

LEMMA SocketOpKeeps == ASSUME Inv, api # "idle", ~AtEnd, SocketOp PROVE Inv'
  <1>1. op.do \in {"bind", "close", "forget"} /\ op.what \in Sockets /\ Pop
    BY OpLegal DEF SocketOp, Legal, OnSocket
  <1>2. TypeOK'
    BY <1>1 DEF SocketOp, Pop, Inv, TypeOK, AtEnd, flags, clients
  <1>3. Within(Acquired', Effect(op, Acquired))
    <2> DEFINE e == Effect(op, Acquired)
    <2>1. /\ e.threads = Acquired.threads /\ e.used = Acquired.used /\ e.exist = Acquired.exist
          /\ e.open = IF op.do = "bind" THEN Acquired.open \cup {op.what}
                      ELSE Acquired.open \ {op.what}
          /\ e.video = Acquired.video /\ e.audio = Acquired.audio
      BY <1>1 DEF Effect, Has, Told
    <2> HIDE DEF e
    <2>2. Acquired'.open = e.open
      <3>1. ASSUME NEW s \in Sockets PROVE s \in Acquired'.open <=> s \in e.open
        BY <1>1, <2>1, <3>1, AcquiredIs, AcquiredThen DEF SocketOp, Inv, TypeOK, Sockets
      <3>2. "peer" \in Acquired'.open <=> "peer" \in e.open
        BY <1>1, <2>1, AcquiredIs, AcquiredThen DEF SocketOp, Sockets
      <3>3. Acquired'.open \subseteq Sockets \cup {"peer"} /\ e.open \subseteq Sockets \cup {"peer"}
        BY <1>1, <2>1, AcquiredIs, AcquiredThen
      <3>4. QED
        BY <3>1, <3>2, <3>3
    <2>3. /\ Acquired'.threads = e.threads /\ Acquired'.used = e.used /\ Acquired'.exist = e.exist
          /\ Acquired'.video = e.video /\ Acquired'.audio = e.audio
      BY <2>1, AcquiredIs, AcquiredThen DEF SocketOp
    <2>4. QED
      BY <2>2, <2>3 DEF Within, e
  <1>4. QED
    BY <1>1, <1>2, <1>3, OpDone DEF Inv

LEMMA RendererOpKeeps == ASSUME Inv, api # "idle", ~AtEnd, RendererOp PROVE Inv'
  <1>1. op.do \in {"setup", "start", "stop", "cleanup"} /\ op.what \in Media /\ Pop
    BY OpLegal DEF RendererOp, Legal, OnRenderer
  <1>2. TypeOK'
    BY <1>1 DEF RendererOp, Pop, Inv, TypeOK, AtEnd, flags, clients
  <1>3. Within(Acquired', Effect(op, Acquired))
    <2> DEFINE e == Effect(op, Acquired)
    <2>1. /\ e.threads = Acquired.threads /\ e.used = Acquired.used /\ e.exist = Acquired.exist
          /\ e.open = Acquired.open
          /\ e.video = IF op.what = "video" THEN Told(op.do, Acquired.video) ELSE Acquired.video
          /\ e.audio = IF op.what = "audio" THEN Told(op.do, Acquired.audio) ELSE Acquired.audio
      BY <1>1 DEF Effect, Has
    <2> HIDE DEF e
    <2>2. Acquired'.video = e.video /\ Acquired'.audio = e.audio
      BY <1>1, <2>1, AcquiredIs, AcquiredThen DEF RendererOp, Inv, TypeOK, Told, Media
    <2>3. /\ Acquired'.threads = e.threads /\ Acquired'.used = e.used
          /\ Acquired'.exist = e.exist /\ Acquired'.open = e.open
      BY <2>1, AcquiredIs, AcquiredThen DEF RendererOp
    <2>4. QED
      BY <2>2, <2>3 DEF Within, e
  <1>4. QED
    BY <1>1, <1>2, <1>3, OpDone DEF Inv

LEMMA FlagOpKeeps == ASSUME Inv, api # "idle", ~AtEnd, FlagOp PROVE Inv'
  <1>1. op.do \in OnFlag /\ op.what \in BOOLEAN /\ Pop
    BY OpLegal DEF FlagOp, Legal, OnFlag
  <1>2. TypeOK'
    <2>1. /\ alreadyTerminated' \in BOOLEAN /\ ConnectionInterrupted' \in BOOLEAN
          /\ stopping' \in BOOLEAN /\ idrEvent' \in BOOLEAN /\ peer' \in BOOLEAN
      BY <1>1, Zenon DEF FlagOp, Inv, TypeOK
    <2>2. QED
      BY <2>1 DEF FlagOp, Pop, Inv, TypeOK, AtEnd, clients
  <1>3. Within(Acquired', Effect(op, Acquired))
    <2> DEFINE e == Effect(op, Acquired)
    <2>1. /\ e.threads = Acquired.threads /\ e.used = Acquired.used /\ e.exist = Acquired.exist
          /\ e.open = IF op.do = "peer" THEN IF op.what THEN Acquired.open \cup {"peer"}
                                             ELSE Acquired.open \ {"peer"}
                      ELSE Acquired.open
          /\ e.video = Acquired.video /\ e.audio = Acquired.audio
      BY <1>1 DEF Effect, Has, Told, OnFlag
    <2> HIDE DEF e
    <2>2. Acquired'.open = e.open
      <3>1. ASSUME NEW s \in Sockets PROVE s \in Acquired'.open <=> s \in e.open
        BY <1>1, <2>1, <3>1, AcquiredIs, AcquiredThen DEF FlagOp, Sockets
      <3>2. "peer" \in Acquired'.open <=> "peer" \in e.open
        <4>1. "peer" \in Acquired'.open <=> peer'
          BY AcquiredThen
        <4>2. "peer" \in Acquired.open <=> peer
          BY AcquiredIs
        <4>3. CASE op.do = "peer"
          <5>1. peer' = op.what
            BY <4>3 DEF FlagOp
          <5>2. CASE op.what = TRUE
            BY <2>1, <4>1, <4>3, <5>1, <5>2
          <5>3. CASE op.what = FALSE
            BY <2>1, <4>1, <4>3, <5>1, <5>3
          <5>4. QED
            BY <1>1, <5>2, <5>3
        <4>4. CASE op.do # "peer"
          <5>1. peer' = peer
            BY <4>4 DEF FlagOp
          <5>2. QED
            BY <2>1, <4>1, <4>2, <4>4, <5>1
        <4>5. QED
          BY <4>3, <4>4
      <3>3. Acquired'.open \subseteq Sockets \cup {"peer"} /\ e.open \subseteq Sockets \cup {"peer"}
        BY <1>1, <2>1, AcquiredIs, AcquiredThen
      <3>4. QED
        BY <3>1, <3>2, <3>3
    <2>3. /\ Acquired'.threads = e.threads /\ Acquired'.used = e.used
          /\ Acquired'.exist = e.exist /\ Acquired'.video = e.video /\ Acquired'.audio = e.audio
      BY <2>1, AcquiredIs, AcquiredThen DEF FlagOp
    <2>4. QED
      BY <2>2, <2>3 DEF Within, e
  <1>4. QED
    BY <1>1, <1>2, <1>3, OpDone DEF Inv

\* Operations that acquire nothing, and a thread creation whose failure is
\* ignored.
LEMMA QuietOpKeeps ==
  ASSUME Inv, api # "idle", ~AtEnd, SkipOp \/ Exchange \/ FailsUnnoticed PROVE Inv'
  <1>1. Pop /\ UNCHANGED <<flags, objects, clients, thread, cancelled>>
    BY DEF SkipOp, Exchange, FailsUnnoticed
  <1>2. TypeOK'
    BY <1>1 DEF Pop, Inv, TypeOK, AtEnd, flags, objects, clients
  <1>3. op.do \in {"skip", "network", "message"} \/ (op.do = "spawn" /\ Feeds(op.what) = {})
    BY OpLegal DEF SkipOp, Exchange, FailsUnnoticed, Legal
  <1>4. Acquired' = Acquired
    BY <1>1 DEF objects, Acquired
  <1>5. Within(Acquired, Effect(op, Acquired))
    BY <1>3, AcquiredIs DEF Within, Effect, Has, Told
  <1>6. QED
    BY <1>1, <1>2, <1>4, <1>5, OpDone DEF Inv

LEMMA FailsKeeps == ASSUME Inv, api # "idle", ~AtEnd, Fails PROVE Inv'
  <1>1. /\ Enter("failing", op.undo) /\ UNCHANGED stage
        /\ UNCHANGED <<flags, objects, clients, thread, cancelled>>
    BY DEF Fails
  <1>2. MayFail(op)
    BY DEF Fails, GivesUp, MayFail
  <1>3. Good("failing", stage, op.undo, 1, Acquired)
    BY <1>2, GoodSafe, GoodProceeds DEF Inv, AtEnd, op, Fits
  <1>4. Acquired' = Acquired
    BY <1>1 DEF objects, Acquired
  <1>5. Good(api, stage, program, pc, Acquired)'
    BY <1>1, <1>3, <1>4 DEF Enter
  <1>6. TypeOK'
    <2>1. Fits("failing", stage, op.undo, 1)
      BY <1>3, GoodSafe
    <2>2. QED
      BY <1>1, <2>1 DEF Enter, Inv, TypeOK, Fits, flags, objects, clients
  <1>7. QED
    BY <1>5, <1>6 DEF Inv

\* The next program, when nothing is acquired or given up in between.
LEMMA EnterKeeps ==
  ASSUME Inv, NEW mode, NEW what, Enter(mode, what), Good(mode, stage', what, 1, Acquired),
         UNCHANGED <<flags, objects, clients, thread, cancelled>>
  PROVE  Inv'
  <1>1. Acquired' = Acquired
    BY DEF objects, Acquired
  <1>2. Good(api, stage, program, pc, Acquired)'
    BY <1>1 DEF Enter
  <1>3. TypeOK'
    <2>1. Fits(mode, stage', what, 1)
      BY GoodSafe
    <2>2. QED
      BY <2>1 DEF Enter, Inv, TypeOK, Fits, Modes, flags, objects, clients
  <1>4. QED
    BY <1>2, <1>3 DEF Inv

LEMMA ProgramEnd == ASSUME Inv, api # "idle", AtEnd PROVE pc > Len(program) /\ stage \in Int
  BY DEF Inv, AtEnd, TypeOK, Stages

LEMMA CompletedKeeps ==
  ASSUME Inv, api # "idle", AtEnd, Completed,
         UNCHANGED <<flags, objects, clients, thread, cancelled>>
  PROVE  Inv'
  <1>1. IF stage + 1 = INPUT_STREAM_START THEN Good("idle", stage + 1, <<>>, 1, Acquired)
        ELSE Good("starting", stage + 1, Do(stage + 2), 1, Acquired)
    BY ProgramEnd, GoodContinues DEF Inv, Completed
  <1>2. stage' = stage + 1 /\ stage' + 1 = stage + 2
    BY ProgramEnd DEF Completed
  <1>3. CASE stage' = INPUT_STREAM_START
    <2>1. Enter("idle", <<>>) /\ Good("idle", stage', <<>>, 1, Acquired)
      BY <1>1, <1>2, <1>3 DEF Completed
    <2>2. QED
      BY <2>1, EnterKeeps
  <1>4. CASE stage' # INPUT_STREAM_START
    <2>1. Enter("starting", Do(stage' + 1)) /\ Good("starting", stage', Do(stage' + 1), 1, Acquired)
      BY <1>1, <1>2, <1>4 DEF Completed
    <2>2. QED
      BY <2>1, EnterKeeps
  <1>5. QED
    BY <1>3, <1>4

LEMMA UndoOrReturnKeeps ==
  ASSUME Inv, UndoOrReturn(stage'), GoodUndone(stage', Acquired),
         UNCHANGED <<flags, objects, clients, thread, cancelled>>
  PROVE  Inv'
  <1>1. CASE stage' = NONE
    <2>1. Enter("idle", <<>>) /\ Good("idle", stage', <<>>, 1, Acquired)
      BY <1>1 DEF UndoOrReturn, GoodUndone
    <2>2. QED
      BY <2>1, EnterKeeps
  <1>2. CASE stage' # NONE
    <2>1. Enter("undoing", Undo(stage')) /\ Good("undoing", stage', Undo(stage'), 1, Acquired)
      BY <1>2 DEF UndoOrReturn, GoodUndone
    <2>2. QED
      BY <2>1, EnterKeeps
  <1>3. QED
    BY <1>1, <1>2

LEMMA CleanedUpKeeps ==
  ASSUME Inv, api # "idle", AtEnd, CleanedUp,
         UNCHANGED <<flags, objects, clients, thread, cancelled>>
  PROVE  Inv'
  <1>0. /\ api = "failing" => Good("stopping", stage, StopConnection, 1, Acquired)
        /\ api = "stopping" => GoodUndone(stage, Acquired)
        /\ api = "undoing" => GoodUndone(stage - 1, Acquired)
    BY ProgramEnd, GoodContinues DEF Inv
  <1>1. CASE api = "failing" /\ Enter("stopping", StopConnection) /\ UNCHANGED stage
    BY <1>0, <1>1, EnterKeeps
  <1>2. CASE api = "stopping" /\ UndoOrReturn(stage) /\ UNCHANGED stage
    BY <1>0, <1>2, UndoOrReturnKeeps
  <1>3. CASE api = "undoing" /\ stage' = stage - 1 /\ UndoOrReturn(stage')
    BY <1>0, <1>3, UndoOrReturnKeeps
  <1>4. QED
    BY <1>1, <1>2, <1>3 DEF CleanedUp

LEMMA ApiStepKeeps == ASSUME Inv, ApiStep PROVE Inv'
  <1>0. api # "idle"
    BY DEF ApiStep
  <1>1. CASE ~AtEnd /\ \E t \in Threads : Spawn(t) \/ Interrupt(t) \/ Join(t)
    BY <1>0, <1>1, SpawnKeeps, InterruptKeeps, JoinKeeps
  <1>2. CASE ~AtEnd /\ (QueueOp \/ SocketOp \/ RendererOp \/ FlagOp)
    BY <1>0, <1>2, QueueOpKeeps, SocketOpKeeps, RendererOpKeeps, FlagOpKeeps
  <1>3. CASE ~AtEnd /\ (SkipOp \/ Exchange \/ Fails \/ FailsUnnoticed)
    BY <1>0, <1>3, QuietOpKeeps, FailsKeeps
  <1>4. CASE AtEnd /\ (Completed \/ CleanedUp) /\ UNCHANGED <<flags, objects, clients, thread, cancelled>>
    BY <1>0, <1>4, CompletedKeeps, CleanedUpKeeps
  <1>5. QED
    BY <1>1, <1>2, <1>3, <1>4 DEF ApiStep

(* The calls of the client.                                                *)

LEMMA LiStartConnectionKeeps == ASSUME NoKnownFault, Inv, LiStartConnection PROVE Inv'
  <1>1. Nothing(Acquired)
    BY GoodSafe DEF Inv, LiStartConnection
  <1>2. Within(Acquired, At(0))
    <2>1. At(0) = Has({}, {}, {}, {}, "none", "none")
      <3>1. ThreadsAt(0) = {} /\ ExistAt(0) = {} /\ UsedAt(0) = {} /\ OpenAt(0) = {}
        BY DEF ThreadsAt, ExistAt, UsedAt, OpenAt
      <3>2. QED
        BY <3>1 DEF At
    <2>2. Acquired.used \subseteq Acquired.exist
      BY AcquiredIs
    <2>3. QED
      BY <1>1, <2>1, <2>2 DEF Nothing, Within, Has
  <1>3. Acquired' = Acquired
    BY DEF LiStartConnection, objects, Acquired
  <1>4. Good("starting", 0, Do(1), 1, Acquired)
    BY <1>2, Start, GoodWithin
  <1>5. Good(api, stage, program, pc, Acquired)'
    BY <1>3, <1>4 DEF LiStartConnection, NONE
  <1>6. TypeOK'
    <2>1. Fits("starting", 0, Do(1), 1)
      BY <1>4, GoodSafe
    <2>2. /\ session' \in 0 .. MaxSessions /\ pc' \in 1 .. Len(program') + 1
          /\ api' \in {"idle", "starting", "failing", "stopping", "undoing"}
      BY <2>1, ConnectionAssumption DEF LiStartConnection, Inv, TypeOK, Fits
    <2>3. alreadyTerminated' \in BOOLEAN /\ ConnectionInterrupted' \in BOOLEAN
      BY DEF LiStartConnection
    <2>4. QED
      BY <2>2, <2>3 DEF LiStartConnection, Inv, TypeOK, objects, clients
  <1>7. QED
    BY <1>5, <1>6 DEF Inv

LEMMA LiStopConnectionKeeps == ASSUME Inv, LiStopConnection PROVE Inv'
  <1>1. Good("stopping", stage, StopConnection, 1, Acquired)
    BY GoodIdle DEF Inv, LiStopConnection, INPUT_STREAM_START, NONE
  <1>2. Acquired' = Acquired
    BY DEF LiStopConnection, objects, Acquired
  <1>3. Good(api, stage, program, pc, Acquired)'
    BY <1>1, <1>2 DEF LiStopConnection
  <1>4. TypeOK'
    BY DEF LiStopConnection, StopConnection, Inv, TypeOK, flags, objects, clients
  <1>5. QED
    BY <1>3, <1>4 DEF Inv

\* Everything else leaves the call under way alone, and what it has acquired.
LEMMA OthersKeep ==
  ASSUME Inv, TypeOK', UNCHANGED <<apiVars, objects>>,
         \A t \in Threads : thread'[t] = "none" <=> thread[t] = "none"
  PROVE  Inv'
  <1>1. Acquired' = Acquired
    BY DEF objects, Acquired
  <1>2. Good(api, stage, program, pc, Acquired)'
    BY <1>1 DEF Inv, apiVars
  <1>3. QED
    BY <1>2 DEF Inv

LEMMA LiInterruptConnectionKeeps == ASSUME Inv, LiInterruptConnection PROVE Inv'
  <1>1. TypeOK'
    BY DEF LiInterruptConnection, Inv, TypeOK, apiVars, objects, clients
  <1>2. QED
    BY <1>1, OthersKeep DEF LiInterruptConnection, objects

LEMMA ThreadAtKeeps ==
  ASSUME Inv, NEW t \in Threads, NEW there \in {"running", "waiting", "woken", "cleared",
                                               "sending", "transit", "terminating", "exited"},
         ThreadAt(t, there), thread[t] # "none",
         /\ alreadyTerminated' \in BOOLEAN /\ ConnectionInterrupted' \in BOOLEAN
         /\ stopping' \in BOOLEAN /\ idrEvent' \in BOOLEAN
         /\ asyncTerm' \in [1..MaxSessions -> Nat]
  PROVE  Inv'
  <1>1. TypeOK'
    BY DEF ThreadAt, Inv, TypeOK, apiVars, objects
  <1>2. \A u \in Threads : thread'[u] = "none" <=> thread[u] = "none"
    BY DEF ThreadAt, Inv, TypeOK
  <1>3. QED
    BY <1>1, <1>2, OthersKeep DEF ThreadAt

LEMMA ThreadStepKeeps ==
  ASSUME Inv, NEW t \in Threads, ThreadStep(t) \/ BusyConsumerExits(t) \/ FatalError(t) PROVE Inv'
  <1>0. /\ alreadyTerminated \in BOOLEAN /\ ConnectionInterrupted \in BOOLEAN
        /\ stopping \in BOOLEAN /\ idrEvent \in BOOLEAN
        /\ asyncTerm \in [1..MaxSessions -> Nat]
    BY DEF Inv, TypeOK
  <1>1. CASE PollingThreadExits(t) \/ ConsumerExits(t) \/ BusyConsumerExits(t)
    <2>1. /\ ThreadAt(t, "exited") /\ UNCHANGED <<flags, clients>> /\ thread[t] # "none"
      BY <1>1 DEF PollingThreadExits, ConsumerExits, BusyConsumerExits
    <2>2. QED
      BY <1>0, <2>1, ThreadAtKeeps DEF flags, clients
  <1>2. CASE FatalError(t)
    <2>1. PICK there \in {"running", "terminating", "exited"} : ThreadAt(t, there)
      BY <1>2 DEF FatalError, AfterError
    <2>2. UNCHANGED <<flags, clients>> /\ thread[t] # "none"
      BY <1>2 DEF FatalError
    <2>3. QED
      BY <1>0, <2>1, <2>2, ThreadAtKeeps DEF flags, clients
  <1>3. CASE Terminates(t)
    <2>1. PICK there \in {"running", "exited"} : ThreadAt(t, there)
      BY <1>3 DEF Terminates, AfterError
    <2>2. /\ alreadyTerminated' \in BOOLEAN /\ UNCHANGED <<ConnectionInterrupted, stopping, idrEvent>>
          /\ thread[t] # "none"
      BY <1>3 DEF Terminates
    <2>3. asyncTerm' \in [1..MaxSessions -> Nat]
      <3>1. asyncTerm' = [asyncTerm EXCEPT ![session] = asyncTerm[session] + 1]
        BY <1>3 DEF Terminates
      <3>2. CASE session \in 1 .. MaxSessions
        <4>1. asyncTerm[session] + 1 \in Nat
          BY <1>0, <3>2
        <4>2. QED
          BY <1>0, <3>1, <4>1
      <3>3. CASE session \notin 1 .. MaxSessions
        BY <1>0, <3>1, <3>3
      <3>4. QED
        BY <3>2, <3>3
    <2>4. QED
      BY <1>0, <2>1, <2>2, <2>3, ThreadAtKeeps
  <1>4. QED
    BY <1>1, <1>2, <1>3 DEF ThreadStep

LEMMA IdrStepKeeps == ASSUME Inv, IdrStep PROVE Inv'
  <1>0. /\ alreadyTerminated \in BOOLEAN /\ ConnectionInterrupted \in BOOLEAN
        /\ stopping \in BOOLEAN /\ idrEvent \in BOOLEAN
        /\ asyncTerm \in [1..MaxSessions -> Nat] /\ "requestIdr" \in Threads
    BY DEF Inv, TypeOK, Threads
  <1>1. CASE IdrLoopTop \/ IdrWakes \/ IdrTests \/ IdrSent
    <2>1. PICK there \in {"running", "waiting", "woken", "sending", "exited"} :
             ThreadAt("requestIdr", there)
      BY <1>1 DEF IdrLoopTop, IdrWakes, IdrTests, IdrSent
    <2>2. UNCHANGED <<flags, clients>> /\ thread["requestIdr"] # "none"
      BY <1>1 DEF IdrLoopTop, IdrWakes, IdrTests, IdrSent
    <2>3. QED
      BY <1>0, <2>1, <2>2, ThreadAtKeeps DEF flags, clients
  <1>2. CASE IdrClears
    <2>1. /\ ThreadAt("requestIdr", "cleared") /\ thread["requestIdr"] # "none"
          /\ idrEvent' \in BOOLEAN
          /\ UNCHANGED <<alreadyTerminated, ConnectionInterrupted, stopping, clients>>
      BY <1>2 DEF IdrClears
    <2>2. QED
      BY <1>0, <2>1, ThreadAtKeeps DEF clients
  <1>3. QED
    BY <1>1, <1>2 DEF IdrStep

LEMMA TextKeeps == ASSUME Inv, TextWaits \/ TextGoesOn PROVE Inv'
  <1>1. /\ alreadyTerminated \in BOOLEAN /\ ConnectionInterrupted \in BOOLEAN
        /\ stopping \in BOOLEAN /\ idrEvent \in BOOLEAN
        /\ asyncTerm \in [1..MaxSessions -> Nat] /\ "inputSend" \in Threads
    BY DEF Inv, TypeOK, Threads
  <1>2. PICK there \in {"running", "transit"} : ThreadAt("inputSend", there)
    BY DEF TextWaits, TextGoesOn
  <1>3. UNCHANGED <<flags, clients>> /\ thread["inputSend"] # "none"
    BY DEF TextWaits, TextGoesOn
  <1>4. QED
    BY <1>1, <1>2, <1>3, ThreadAtKeeps DEF flags, clients

LEMMA IdrRequestedKeeps == ASSUME Inv, IdrRequested PROVE Inv'
  <1>1. TypeOK'
    BY DEF IdrRequested, Inv, TypeOK, apiVars, objects, clients
  <1>2. QED
    BY <1>1, OthersKeep DEF IdrRequested, objects

LEMMA AsyncTermRunsKeeps ==
  ASSUME Inv, NEW n \in 1 .. MaxSessions, AsyncTermRuns(n) PROVE Inv'
  <1>1. TypeOK'
    <2>1. asyncTerm' \in [1..MaxSessions -> Nat]
      BY DEF AsyncTermRuns, Inv, TypeOK
    <2>2. QED
      BY <2>1 DEF AsyncTermRuns, Inv, TypeOK, apiVars, flags, objects
  <1>2. QED
    BY <1>1, OthersKeep DEF AsyncTermRuns, objects

LEMMA NextKeeps == ASSUME NoKnownFault, Inv, [Next]_vars PROVE Inv'
  <1>1. CASE UNCHANGED vars
    <2>1. TypeOK'
      BY <1>1 DEF vars, apiVars, flags, objects, clients, Inv, TypeOK
    <2>2. UNCHANGED <<apiVars, objects>> /\ UNCHANGED thread
      BY <1>1 DEF vars
    <2>3. QED
      BY <2>1, <2>2, OthersKeep
  <1>2. CASE Next
    BY <1>2, LiStartConnectionKeeps, LiStopConnectionKeeps, LiInterruptConnectionKeeps,
       ApiStepKeeps, ThreadStepKeeps, IdrStepKeeps, IdrRequestedKeeps, TextKeeps,
       AsyncTermRunsKeeps DEF Next
  <1>3. QED
    BY <1>1, <1>2

-----------------------------------------------------------------------------
(* The theorems.                                                           *)

\* Whatever LiStartConnection() and LiStopConnection() have got to, and
\* whatever fails but for the four known faults, what is left to do is right
\* for what has been acquired.
THEOREM Invariance == ASSUME NoKnownFault PROVE Spec => []Inv
  <1>1. Init => Inv
    BY InitInv
  <1>2. Inv /\ [Next]_vars => Inv'
    BY NextKeeps
  <1>3. QED
    BY <1>1, <1>2, PTL DEF Spec

LEMMA InvSafe == ASSUME Inv PROVE Safe(stage, Acquired)
  BY GoodSafe DEF Inv

LEMMA InvDependencies == ASSUME Inv PROVE DependenciesAlive
  <1>1. Safe(stage, Acquired) /\ TypeOK
    BY InvSafe DEF Inv
  <1>2. \A t \in Threads : Alive(t) => t \in Acquired.threads
    BY AcquiredIs DEF Alive
  <1>3. /\ \A s \in Sockets : s \in Acquired.open => socket[s] = "open"
        /\ "peer" \in Acquired.open => peer
        /\ \A q \in Queues : q \in Acquired.exist => queue[q] # "none"
        /\ Acquired.video = renderer["video"] /\ Acquired.audio = renderer["audio"]
    BY AcquiredIs DEF Sockets
  <1>4. /\ Alive("audioPing") \/ Alive("audioRecv") => socket["audio"] = "open"
        /\ Alive("videoPing") \/ Alive("videoRecv") => socket["video"] = "open"
    BY <1>1, <1>2, <1>3 DEF Safe, Threads, Sockets
  <1>5. /\ Alive("audioRecv") \/ Alive("audioDec") =>
             Exists({"audio"}) /\ renderer["audio"] # "none"
        /\ Alive("videoRecv") \/ Alive("videoDec") =>
             Exists({"decode", "tuples", "fec"}) /\ renderer["video"] # "none"
    BY <1>1, <1>2, <1>3 DEF Safe, Threads, Queues, Exists
  <1>6. /\ (\E t \in {"controlRecv", "lossStats", "requestIdr", "invalidateRef"} : Alive(t)) =>
             Exists({"tuples", "fec"}) /\ peer
        /\ Alive("inputSend") => Exists({"input", "holders"}) /\ peer
    BY <1>1, <1>2, <1>3 DEF Safe, Threads, Queues, Exists
  <1>7. QED
    BY <1>1, <1>4, <1>5, <1>6 DEF DependenciesAlive

\* No thread outlives the queues, the sockets, the renderer and the ENet peer
\* it uses: in no error path of the start functions, and at no point of
\* LiStopConnection().
THEOREM Dependencies == ASSUME NoKnownFault PROVE Spec => []DependenciesAlive
  BY Invariance, InvDependencies, PTL

LEMMA InvNothing == ASSUME Inv PROVE NothingLeftBehind
  <1> SUFFICES ASSUME api = "idle", stage = NONE
               PROVE  /\ \A t \in Threads : thread[t] = "none"
                      /\ \A q \in Queues : queue[q] = "none"
                      /\ \A s \in Sockets : socket[s] # "open"
                      /\ \A m \in Media : renderer[m] = "none"
                      /\ ~peer
    BY DEF NothingLeftBehind
  <1>1. Nothing(Acquired)
    BY GoodSafe DEF Inv
  <1>2. /\ \A t \in Threads : thread[t] # "none" => t \in Acquired.threads
        /\ \A q \in Queues : queue[q] # "none" => q \in Acquired.exist
        /\ \A s \in Sockets : socket[s] = "open" => s \in Acquired.open
        /\ peer => "peer" \in Acquired.open
        /\ Acquired.video = renderer["video"] /\ Acquired.audio = renderer["audio"]
    BY AcquiredIs DEF Sockets
  <1>3. QED
    BY <1>1, <1>2 DEF Nothing, Media

\* A start that failed, at whatever point, and a stop leave no thread, queue,
\* socket, renderer or peer behind.
THEOREM LeftBehind == ASSUME NoKnownFault PROVE Spec => []NothingLeftBehind
  BY Invariance, InvNothing, PTL

\* What a step does to a queue or a renderer is what the operation says.
LEMMA QueueChanges ==
  ASSUME Inv, Next, NEW q \in Queues, queue'[q] = "none", queue[q] # "none"
  PROVE  api # "idle" /\ ~AtEnd /\ op.do = "destroy" /\ op.what = q
  <1>1. CASE ApiStep
    <2>1. CASE AtEnd
      BY <1>1, <2>1 DEF ApiStep, objects
    <2>2. CASE \E t \in Threads : Spawn(t)
      BY <2>2 DEF Spawn
    <2>3. CASE QueueOp
      <3>1. op.what \in Queues
        BY <1>1, <2>1, <2>3, OpLegal DEF ApiStep, QueueOp, Legal, OnQueue
      <3>2. QED
        BY <1>1, <2>1, <2>3, <3>1 DEF ApiStep, QueueOp, Inv, TypeOK
    <2>4. CASE UNCHANGED queue
      BY <2>4
    <2>5. QED
      BY <1>1, <2>1, <2>2, <2>3, <2>4 DEF ApiStep, Interrupt, Join, SocketOp, RendererOp, FlagOp,
         SkipOp, Exchange, Fails, FailsUnnoticed, objects
  <1>2. CASE UNCHANGED queue
    BY <1>2
  <1>3. QED
    BY <1>1, <1>2 DEF Next, LiStartConnection, LiStopConnection, LiInterruptConnection, ThreadStep,
       PollingThreadExits, ConsumerExits, BusyConsumerExits, FatalError, Terminates, ThreadAt,
       IdrStep, IdrLoopTop, IdrWakes, IdrClears, IdrTests, IdrSent, IdrRequested, TextWaits,
       TextGoesOn, AsyncTermRuns, objects

\* No queue something may have been put in is destroyed before it was shut
\* down.
THEOREM Quiet == ASSUME NoKnownFault PROVE Spec => DestroyedQuiet
  <1>1. ASSUME Inv, [Next]_vars, NEW q \in Queues, queue'[q] = "none", queue[q] = "used"
        PROVE  FALSE
    <2>1. Next
      BY <1>1 DEF vars, objects
    <2>2. api # "idle" /\ ~AtEnd /\ op.do = "destroy" /\ op.what = q
      BY <1>1, <2>1, QueueChanges
    <2>3. Legal(api, op, Acquired) /\ q \in Acquired.used
      BY <1>1, <2>2, OpLegal, AcquiredIs
    <2>4. QED
      BY <2>2, <2>3 DEF Legal
  <1>2. Inv /\ [Next]_vars => [\A q \in Queues : queue'[q] = "none" => queue[q] # "used"]_vars
    BY <1>1
  <1>3. QED
    BY <1>2, Invariance, PTL DEF Spec, DestroyedQuiet

LEMMA RendererChanges ==
  ASSUME Inv, Next, NEW m \in Media, renderer'[m] # renderer[m]
  PROVE  api # "idle" /\ ~AtEnd /\ RendererOp /\ op.what = m
  <1>1. CASE ApiStep
    <2>1. CASE AtEnd
      BY <1>1, <2>1 DEF ApiStep, objects
    <2>2. CASE RendererOp
      BY <1>1, <2>1, <2>2 DEF ApiStep, RendererOp, Inv, TypeOK
    <2>3. CASE UNCHANGED renderer
      BY <2>3
    <2>4. QED
      BY <1>1, <2>1, <2>2, <2>3 DEF ApiStep, Spawn, Interrupt, Join, QueueOp, SocketOp, FlagOp,
         SkipOp, Exchange, Fails, FailsUnnoticed, objects
  <1>2. CASE UNCHANGED renderer
    BY <1>2
  <1>3. QED
    BY <1>1, <1>2 DEF Next, LiStartConnection, LiStopConnection, LiInterruptConnection, ThreadStep,
       PollingThreadExits, ConsumerExits, BusyConsumerExits, FatalError, Terminates, ThreadAt,
       IdrStep, IdrLoopTop, IdrWakes, IdrClears, IdrTests, IdrSent, IdrRequested, TextWaits,
       TextGoesOn, AsyncTermRuns, objects

\* The renderers are set up, started, stopped and cleaned up in this order,
\* whatever fails in between.
THEOREM Renderers == ASSUME NoKnownFault PROVE Spec => RendererProtocol
  <1>1. ASSUME Inv, [Next]_vars, NEW m \in Media, renderer'[m] # renderer[m]
        PROVE  <<renderer[m], renderer'[m]>> \in
                 {<<"none", "ready">>, <<"ready", "started">>, <<"ready", "none">>,
                  <<"started", "stopped">>, <<"stopped", "none">>}
    <2>1. Next
      BY <1>1 DEF vars, objects
    <2>2. api # "idle" /\ ~AtEnd /\ RendererOp /\ op.what = m
      BY <1>1, <2>1, RendererChanges
    <2>3. renderer[m] = Status(op, Acquired)
      BY <2>2, AcquiredIs DEF Status, Media
    <2>4. /\ op.do = "setup" => renderer[m] = "none" /\ renderer'[m] = "ready"
          /\ op.do = "start" => renderer[m] = "ready" /\ renderer'[m] = "started"
          /\ op.do = "stop" => renderer[m] = "started" /\ renderer'[m] = "stopped"
          /\ op.do = "cleanup" => renderer[m] \in {"ready", "stopped"} /\ renderer'[m] = "none"
      BY <1>1, <2>2, <2>3, OpLegal DEF Legal, RendererOp, Inv, TypeOK
    <2>5. QED
      BY <2>2, <2>4 DEF RendererOp
  <1>2. Inv /\ [Next]_vars =>
           [\A m \in Media : renderer'[m] # renderer[m] =>
               <<renderer[m], renderer'[m]>> \in
                  {<<"none", "ready">>, <<"ready", "started">>, <<"ready", "none">>,
                   <<"started", "stopped">>, <<"stopped", "none">>}]_vars
    BY <1>1
  <1>3. QED
    BY <1>2, Invariance, PTL DEF Spec, RendererProtocol

\* Queues and renderers go through their lives in order.
THEOREM Orderly == ASSUME NoKnownFault PROVE Spec => LivesInOrder
  BY Quiet, Renderers DEF LivesInOrder

-----------------------------------------------------------------------------
(* No thread of a connection ends without a reason the client knows: until *)
(* the client stops it nothing but an error or an interrupt makes it.      *)

\* The connection is being started, and nothing has failed, or established.
Up == api = "starting" \/ (api = "idle" /\ stage = INPUT_STREAM_START)
Reported == asyncTerm[session] > 0 \/ \E c \in callbacks : c.from = session

UpInv ==
  Up => /\ session \in 1 .. MaxSessions
        /\ \A t \in Threads : thread[t] # "none" => t \notin cancelled
        /\ \A q \in Queues : queue[q] # "stopped"
        /\ stage >= CONTROL_STREAM_INIT \/ (stage = 4 /\ pc > 1) => ~stopping
        /\ alreadyTerminated => Reported
        /\ \A t \in Threads : thread[t] = "exited" => ConnectionInterrupted \/ Reported

LEMMA DownKeeps == ASSUME ~Up' PROVE UpInv'
  BY DEF UpInv

\* InitControl begins with clearing the flag.
LEMMA ClearsStopping ==
  ASSUME Inv, api = "starting", stage = 4, pc = 1
  PROVE  ~AtEnd /\ op.do = "stopping"
  <1>1. program = InitControl
    <2>1. program = Do(4 + 1)
      BY GoodSafe DEF Inv, Fits
    <2>2. program = Do(5)
      BY <2>1
    <2>3. QED
      BY <2>2, DoIs
  <1>2. InitControl[1].do = "stopping" /\ Len(InitControl) = 4
    BY DEF InitControl, Op
  <1>3. QED
    BY <1>1, <1>2 DEF AtEnd, op

LEMMA OpUp ==
  ASSUME Inv, UpInv, api = "starting", ~AtEnd, Pop, UNCHANGED clients,
         alreadyTerminated' = alreadyTerminated, ConnectionInterrupted' = ConnectionInterrupted,
         stopping' => stopping /\ op.do # "stopping",
         \A t \in Threads : thread'[t] # "none" => t \notin cancelled',
         \A q \in Queues : queue'[q] # "stopped",
         \A t \in Threads : thread'[t] = "exited" => thread[t] = "exited"
  PROVE  UpInv'
  <1>1. Up /\ session' = session /\ stage' = stage /\ pc' = pc + 1 /\ pc \in Nat /\ pc >= 1
    BY DEF Up, Pop, Inv, TypeOK
  <1>2. Reported' <=> Reported
    BY <1>1 DEF Reported, clients
  <1>3. stage' >= CONTROL_STREAM_INIT \/ (stage' = 4 /\ pc' > 1) => ~stopping'
    <2>1. CASE stage = 4 /\ pc = 1
      BY <1>1, <2>1, ClearsStopping
    <2>2. CASE ~(stage = 4 /\ pc = 1)
      BY <1>1, <2>2 DEF UpInv
    <2>3. QED
      BY <2>1, <2>2
  <1>4. QED
    BY <1>1, <1>2, <1>3 DEF UpInv

LEMMA ApiStepUp == ASSUME Inv, UpInv, ApiStep PROVE UpInv'
  <1>0. api # "idle" /\ stage \in Stages
    BY DEF ApiStep, Inv, TypeOK
  <1>1. CASE api # "starting"
    <2>1. CASE ~AtEnd
      <3>1. api' = api \/ api' = "failing"
        BY <2>1 DEF ApiStep, Spawn, Interrupt, Join, QueueOp, SocketOp, RendererOp, FlagOp, SkipOp,
           Exchange, Fails, FailsUnnoticed, Pop, Enter
      <3>2. QED
        BY <1>0, <1>1, <3>1, DownKeeps DEF Up
    <2>2. CASE AtEnd
      <3>1. CleanedUp
        BY <1>1, <2>2 DEF ApiStep, Completed
      <3>2. api' \in {"stopping", "undoing"} \/ (api' = "idle" /\ stage' = NONE)
        BY <3>1 DEF CleanedUp, UndoOrReturn, Enter
      <3>3. QED
        BY <3>2, DownKeeps DEF Up, NONE, INPUT_STREAM_START
    <2>3. QED
      BY <2>1, <2>2
  <1>2. CASE api = "starting" /\ AtEnd
    <2>1. Completed /\ UNCHANGED <<flags, objects, clients, thread, cancelled>>
      BY <1>2 DEF ApiStep, CleanedUp
    <2>2. stage' = stage + 1 /\ pc' = 1 /\ session' = session
      BY <2>1 DEF Completed, Enter
    <2>3. Reported' <=> Reported
      BY <2>1, <2>2 DEF Reported, clients
    <2>4. stage' >= CONTROL_STREAM_INIT => ~stopping
      <3>1. CASE stage = 4 /\ pc = 1
        BY <1>2, <3>1, ClearsStopping
      <3>2. CASE ~(stage = 4 /\ pc = 1)
        BY <1>0, <1>2, <2>2, <3>2 DEF UpInv, Up, Inv, TypeOK, Stages, CONTROL_STREAM_INIT
      <3>3. QED
        BY <3>1, <3>2
    <2>5. QED
      BY <1>2, <2>1, <2>2, <2>3, <2>4 DEF UpInv, Up, flags, objects
  <1>3. CASE api = "starting" /\ ~AtEnd
    <2> USE DEF UpInv, Up
    <2>0. Legal("starting", op, Acquired)
      BY <1>0, <1>3, OpLegal
    <2>1. CASE \E t \in Threads : Spawn(t) \/ Join(t)
      BY <1>3, <2>1, OpUp DEF Spawn, Join, Inv, TypeOK, flags, objects
    <2>2. CASE QueueOp
      <3>1. op.do \in {"create", "destroy"} /\ op.what \in Queues
        BY <2>0, <2>2 DEF QueueOp, Legal, OnQueue
      <3>2. \A q \in Queues : queue'[q] # "stopped"
        BY <1>3, <2>2, <3>1 DEF QueueOp, Inv, TypeOK
      <3>3. QED
        BY <1>3, <2>2, <3>2, OpUp DEF QueueOp, flags
    <2>3. CASE SocketOp \/ RendererOp \/ SkipOp \/ Exchange \/ FailsUnnoticed
      <3>1. /\ Pop /\ UNCHANGED <<flags, queue, clients, thread, cancelled>>
            /\ op.do # "stopping"
        BY <2>0, <2>3 DEF SocketOp, RendererOp, SkipOp, Exchange, FailsUnnoticed, objects, Legal
      <3>2. QED
        BY <1>3, <3>1, OpUp DEF flags
    <2>4. CASE FlagOp
      <3>1. op.do \in {"stopping", "idrEvent", "peer"} /\ (op.do = "stopping" => op.what = FALSE)
        BY <2>0, <2>4 DEF FlagOp, Legal
      <3>2. /\ alreadyTerminated' = alreadyTerminated
            /\ ConnectionInterrupted' = ConnectionInterrupted
            /\ stopping' => stopping /\ op.do # "stopping"
        BY <2>4, <3>1 DEF FlagOp
      <3>3. QED
        BY <1>3, <2>4, <3>2, OpUp DEF FlagOp
    <2>5. CASE Fails
      BY <2>5, DownKeeps DEF Fails, Enter
    <2>6. CASE \E t \in Threads : Interrupt(t)
      BY <2>0, <2>6 DEF Interrupt, Legal
    <2>7. QED
      BY <1>3, <2>1, <2>2, <2>3, <2>4, <2>5, <2>6 DEF ApiStep
  <1>4. QED
    BY <1>1, <1>2, <1>3

LEMMA ClientUp ==
  ASSUME Inv, UpInv, LiStartConnection \/ LiStopConnection \/ LiInterruptConnection PROVE UpInv'
  <1>1. CASE LiStartConnection
    <2>1. Nothing(Acquired)
      BY <1>1, GoodSafe DEF Inv, LiStartConnection
    <2>2. (\A t \in Threads : thread[t] = "none") /\ \A q \in Queues : queue[q] = "none"
      BY <2>1, AcquiredIs DEF Nothing
    <2>3. stage' = 0 /\ pc' = 1 /\ session' \in 1 .. MaxSessions /\ alreadyTerminated' = FALSE
      BY <1>1, ConnectionAssumption DEF LiStartConnection, Inv, TypeOK, NONE
    <2>4. QED
      BY <1>1, <2>2, <2>3 DEF UpInv, LiStartConnection, objects, CONTROL_STREAM_INIT
  <1>2. CASE LiStopConnection
    BY <1>2, DownKeeps DEF LiStopConnection, Up
  <1>3. CASE LiInterruptConnection
    <2>1. Up' => Up
      BY <1>3 DEF LiInterruptConnection, Up, apiVars
    <2>2. Reported' <=> Reported
      BY <1>3 DEF LiInterruptConnection, Reported, apiVars, clients
    <2>3. QED
      BY <1>3, <2>1, <2>2 DEF UpInv, LiInterruptConnection, apiVars, objects
  <1>4. QED
    BY <1>1, <1>2, <1>3

\* A step of a thread, of an AsyncTerm thread, or of none.
LEMMA OthersUp ==
  ASSUME UpInv, UNCHANGED <<apiVars, objects, cancelled, stopping>>,
         \A t \in Threads : thread'[t] = "none" <=> thread[t] = "none",
         Up => (alreadyTerminated' => alreadyTerminated \/ Reported'), Reported => Reported',
         ConnectionInterrupted => ConnectionInterrupted',
         Up => \A t \in Threads : thread'[t] = "exited" =>
                  thread[t] = "exited" \/ ConnectionInterrupted \/ Reported'
  PROVE  UpInv'
  <1>1. Up' <=> Up
    BY DEF Up, apiVars
  <1>2. QED
    BY <1>1 DEF UpInv, apiVars, objects

LEMMA ThreadAtUp ==
  ASSUME Inv, UpInv, NEW t \in Threads, NEW there, there # "none", thread[t] # "none",
         ThreadAt(t, there), UNCHANGED <<alreadyTerminated, ConnectionInterrupted, stopping, clients>>,
         Up /\ there = "exited" => ConnectionInterrupted \/ Reported
  PROVE  UpInv'
  <1>1. Reported' <=> Reported
    BY DEF ThreadAt, Reported, apiVars, clients
  <1>2. \A u \in Threads : /\ thread'[u] = "none" <=> thread[u] = "none"
                           /\ thread'[u] = "exited" => thread[u] = "exited" \/ (u = t /\ there = "exited")
    BY DEF ThreadAt, Inv, TypeOK
  <1>3. QED
    BY <1>1, <1>2, OthersUp DEF ThreadAt

LEMMA ThreadStepUp ==
  ASSUME Inv, UpInv, NEW t \in Threads, ThreadStep(t) \/ BusyConsumerExits(t) \/ FatalError(t)
  PROVE  UpInv'
  <1>1. CASE PollingThreadExits(t) \/ ConsumerExits(t) \/ BusyConsumerExits(t)
    <2>1. ThreadAt(t, "exited") /\ UNCHANGED <<flags, clients>> /\ thread[t] # "none"
      BY <1>1 DEF PollingThreadExits, ConsumerExits, BusyConsumerExits
    <2>2. Up => ConnectionInterrupted
      <3>1. Up => t \notin cancelled /\ \A q \in Queues : queue[q] # "stopped"
        BY <2>1 DEF UpInv
      <3>2. t \in Consumers => WaitsOn(t) \in Queues
        BY DEF Consumers, WaitsOn, Queues
      <3>3. QED
        BY <1>1, <3>1, <3>2 DEF PollingThreadExits, ConsumerExits, BusyConsumerExits
    <2>3. QED
      BY <2>1, <2>2, ThreadAtUp DEF flags
  <1>2. CASE FatalError(t)
    <2>1. PICK there \in {"running", "terminating", "exited"} :
             ThreadAt(t, there) /\ (there = "exited" => alreadyTerminated \/ ConnectionInterrupted)
      BY <1>2 DEF FatalError, AfterError
    <2>2. UNCHANGED <<flags, clients>> /\ thread[t] # "none"
      BY <1>2 DEF FatalError
    <2>3. Up /\ there = "exited" => ConnectionInterrupted \/ Reported
      BY <2>1 DEF UpInv
    <2>4. QED
      BY <2>1, <2>2, <2>3, ThreadAtUp DEF flags
  <1>3. CASE Terminates(t)
    <2>1. PICK there \in {"running", "exited"} : ThreadAt(t, there)
      BY <1>3 DEF Terminates, AfterError
    <2>2. UNCHANGED <<apiVars, objects, cancelled, stopping, ConnectionInterrupted, callbacks>>
      BY <1>3, <2>1 DEF Terminates, ThreadAt
    <2>3. asyncTerm' = [asyncTerm EXCEPT ![session] = asyncTerm[session] + 1] /\ session' = session
      BY <1>3, <2>2 DEF Terminates, apiVars
    <2>4. Up => Reported'
      <3>1. Up => session \in 1 .. MaxSessions
        BY DEF UpInv
      <3>2. Up => asyncTerm'[session] > 0
        BY <2>3, <3>1 DEF Inv, TypeOK
      <3>3. QED
        BY <2>3, <3>2 DEF Reported
    <2>5. \A u \in Threads : thread'[u] = "none" <=> thread[u] = "none"
      BY <1>3, <2>1 DEF Terminates, ThreadAt, Inv, TypeOK
    <2>6. CASE Up
      BY <2>2, <2>4, <2>5, <2>6, OthersUp
    <2>7. CASE ~Up
      BY <2>2, <2>7, DownKeeps DEF Up, apiVars
    <2>8. QED
      BY <2>6, <2>7
  <1>4. QED
    BY <1>1, <1>2, <1>3 DEF ThreadStep

LEMMA IdrStepUp == ASSUME Inv, UpInv, IdrStep PROVE UpInv'
  <1>0. "requestIdr" \in Threads
    BY DEF Threads
  <1>1. PICK there \in {"running", "waiting", "woken", "cleared", "sending", "exited"} :
           /\ ThreadAt("requestIdr", there)
           /\ there = "exited" => "requestIdr" \in cancelled \/ stopping
    BY DEF IdrStep, IdrLoopTop, IdrWakes, IdrClears, IdrTests, IdrSent
  <1>2. /\ UNCHANGED <<alreadyTerminated, ConnectionInterrupted, stopping, clients>>
        /\ thread["requestIdr"] # "none"
    BY DEF IdrStep, IdrLoopTop, IdrWakes, IdrClears, IdrTests, IdrSent, flags
  <1>3. Up => "requestIdr" \notin cancelled /\ ~stopping
    <2>1. "requestIdr" \in Acquired.threads
      BY <1>0, <1>2, AcquiredIs
    <2>2. stage >= CONTROL_STREAM_INIT
      BY <2>1, InvSafe DEF Safe
    <2>3. QED
      BY <1>0, <1>2, <2>2 DEF UpInv
  <1>4. QED
    BY <1>0, <1>1, <1>2, <1>3, ThreadAtUp

LEMMA TextUp == ASSUME Inv, UpInv, TextWaits \/ TextGoesOn PROVE UpInv'
  <1>1. PICK there \in {"running", "transit"} : ThreadAt("inputSend", there)
    BY DEF TextWaits, TextGoesOn
  <1>2. UNCHANGED <<flags, clients>> /\ thread["inputSend"] # "none"
    BY DEF TextWaits, TextGoesOn
  <1>3. QED
    BY <1>1, <1>2, ThreadAtUp DEF flags, Threads

LEMMA AsyncTermRunsUp ==
  ASSUME Inv, UpInv, NEW n \in 1 .. MaxSessions, AsyncTermRuns(n) PROVE UpInv'
  <1>1. Reported => Reported'
    <2>1. /\ asyncTerm' = [asyncTerm EXCEPT ![n] = asyncTerm[n] - 1] /\ session' = session
          /\ callbacks' = callbacks \cup {[from |-> n, at |-> session, phase |-> Phase]}
      BY DEF AsyncTermRuns, apiVars
    <2>2. CASE n = session
      <3>1. [from |-> n, at |-> session, phase |-> Phase] \in callbacks'
               /\ [from |-> n, at |-> session, phase |-> Phase].from = session'
        BY <2>1, <2>2
      <3>2. QED
        BY <3>1 DEF Reported
    <2>3. CASE n # session
      BY <2>1, <2>3 DEF Reported, Inv, TypeOK
    <2>4. QED
      BY <2>2, <2>3
  <1>2. UNCHANGED <<apiVars, objects, cancelled, stopping, thread, alreadyTerminated,
                    ConnectionInterrupted>>
    BY DEF AsyncTermRuns, flags
  <1>3. QED
    BY <1>1, <1>2, OthersUp

LEMMA NextUp == ASSUME Inv, UpInv, [Next]_vars PROVE UpInv'
  <1>1. CASE UNCHANGED vars
    <2>1. UNCHANGED <<apiVars, objects, cancelled, stopping, thread, alreadyTerminated,
                      ConnectionInterrupted, clients>>
      BY <1>1 DEF vars, flags
    <2>2. Reported' <=> Reported
      BY <2>1 DEF Reported, apiVars, clients
    <2>3. QED
      BY <2>1, <2>2, OthersUp
  <1>2. CASE IdrRequested
    <2>1. UNCHANGED <<apiVars, objects, cancelled, stopping, thread, alreadyTerminated,
                      ConnectionInterrupted, clients>>
      BY <1>2 DEF IdrRequested
    <2>2. Reported' <=> Reported
      BY <2>1 DEF Reported, apiVars, clients
    <2>3. QED
      BY <2>1, <2>2, OthersUp
  <1>3. CASE Next /\ ~IdrRequested
    BY <1>3, ClientUp, ApiStepUp, ThreadStepUp, IdrStepUp, TextUp, AsyncTermRunsUp
       DEF Next
  <1>4. QED
    BY <1>1, <1>2, <1>3

\* A thread of an established connection that ended because of an error was
\* reported to the client, unless the client has interrupted the connection.
THEOREM NoSilence == ASSUME NoKnownFault PROVE Spec => []NoSilentDeath
  <1>1. Init => Inv /\ UpInv
    <2>1. Init => UpInv
      BY DEF Init, UpInv, Up, NONE, INPUT_STREAM_START
    <2>2. QED
      BY <2>1, InitInv
  <1>2. Inv /\ UpInv /\ [Next]_vars => Inv' /\ UpInv'
    BY NextKeeps, NextUp
  <1>3. Inv /\ UpInv => NoSilentDeath
    BY ConnectionAssumption DEF UpInv, Up, Reported, NoSilentDeath
  <1>4. QED
    BY <1>1, <1>2, <1>3, PTL DEF Spec

=============================================================================
