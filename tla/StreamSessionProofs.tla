------------------------ MODULE StreamSessionProofs ------------------------
(***************************************************************************)
(* Proofs about StreamSession, for any number of activities: the permit,   *)
(* the monitor and the listener implement ConnectionSlot.                  *)
(***************************************************************************)
EXTENDS StreamSession, SequenceTheorems, TLAPS

Starters == {"none", "app", "acquire", "enter", "core", "reported", "done", "failed"}
Stoppers == {"none", "interrupt", "enter", "core", "release", "done"}
Lives == {"absent", "open", "attempted", "hidden", "stopped", "destroyed"}
Runnables == [to : Activities, what : {"started", "terminated"}]

StateOK ==
  /\ life \in [Activities -> Lives]
  /\ starter \in [Activities -> Starters] /\ stopper \in [Activities -> Stoppers]
  /\ connected \subseteq Activities /\ asyncTerm \subseteq Activities
  /\ posted \in Seq(Runnables)
  /\ connectionListener \in Activities \cup {None} /\ up \in Activities \cup {None}

(* An activity attempts to connect once.                                   *)
AttemptOnce == \A a \in Activities : life[a] \in {"absent", "open"} => starter[a] = "none"

(* connectionStarted() is posted once for a connection, when it is         *)
(* established; the connection is stopped once, after that ran.            *)
Announced(a) == starter[a] \in {"reported", "done"}
StopOnce ==
  /\ \A i \in DOMAIN posted : posted[i].what = "started" =>
       Announced(posted[i].to) /\ posted[i].to \notin connected
       /\ stopper[posted[i].to] = "none"
  /\ \A i, j \in DOMAIN posted :
       posted[i].what = "started" /\ posted[j].what = "started" /\ posted[i].to = posted[j].to
         => i = j
  /\ \A a \in connected : Announced(a) /\ stopper[a] = "none"
  /\ \A a \in Activities :
       /\ stopper[a] # "none" => Announced(a)
       /\ stopper[a] \in {"core", "release", "done"} => starter[a] = "done"

(* One activity has the permit, or it is free.                             *)
OnePermit ==
  /\ connectionAllowed = IF Holders = {} THEN 1 ELSE 0
  /\ \A a, b \in Holders : a = b

(* It is the one that listens, and whose connection is up.                 *)
HasConnection(a) ==
  starter[a] = "reported"
    \/ (starter[a] = "done" /\ stopper[a] \in {"none", "interrupt", "enter", "core"})
HolderListens ==
  /\ \A a \in Activities : starter[a] = "core" \/ HasConnection(a) => connectionListener = a
  /\ \A a \in Activities : stopper[a] = "release" => connectionListener = None
  /\ \A a \in Activities : up = a <=> HasConnection(a)

IInv == StateOK /\ AttemptOnce /\ StopOnce /\ OnePermit /\ HolderListens

-----------------------------------------------------------------------------
(* The runnables of the UI thread.                                         *)

LEMMA PostedAppend ==
  ASSUME StateOK, NEW r \in Runnables, posted' = Append(posted, r)
  PROVE  /\ posted' \in Seq(Runnables)
         /\ \A i \in DOMAIN posted' :
              \/ i \in DOMAIN posted /\ posted'[i] = posted[i]
              \/ i = Len(posted) + 1 /\ posted'[i] = r
BY AppendProperties DEF StateOK

LEMMA PostedTail ==
  ASSUME StateOK, posted # <<>>, posted' = Tail(posted)
  PROVE  /\ posted' \in Seq(Runnables)
         /\ 1 \in DOMAIN posted /\ Head(posted) = posted[1] /\ Head(posted) \in Runnables
         /\ \A i \in DOMAIN posted' :
              i \in Nat /\ i >= 1 /\ i + 1 \in DOMAIN posted /\ posted'[i] = posted[i + 1]
BY HeadTailProperties DEF StateOK

(* The permit is taken by an activity that has it.                         *)
LEMMA HolderAlone ==
  ASSUME IInv, NEW a \in Holders
  PROVE  Holders = {a} /\ connectionAllowed = 0
BY DEF IInv, OnePermit

-----------------------------------------------------------------------------
(* IInv is inductive.                                                      *)

LEMMA InitIInv == Init => IInv
<1> SUFFICES ASSUME Init PROVE IInv
  OBVIOUS
<1>1. StateOK /\ AttemptOnce
  BY DEF Init, StateOK, AttemptOnce, Lives, Starters, Stoppers
<1>2. StopOnce
  BY DEF Init, StopOnce
<1>3. Holders = {}
  BY DEF Init, Holders
<1>4. OnePermit
  BY <1>3 DEF Init, OnePermit
<1>5. HolderListens
  BY DEF Init, HolderListens, HasConnection, Activities, None
<1> QED
  BY <1>1, <1>2, <1>4, <1>5 DEF IInv

LEMMA OpenIInv ==
  ASSUME IInv, NEW a \in Activities, Open(a)
  PROVE  IInv'
<1>1. StateOK'
  BY DEF Open, IInv, StateOK, Starters, Stoppers, Lives, uiVars, coreVars, threadVars
<1>2. AttemptOnce'
  BY DEF Open, IInv, AttemptOnce, StateOK, uiVars, coreVars, threadVars
<1>3. StopOnce'
  BY DEF Open, IInv, StopOnce, Announced, threadVars
<1>4. OnePermit'
  BY DEF Open, IInv, OnePermit, Holders, threadVars
<1>5. HolderListens'
  BY DEF Open, IInv, HolderListens, HasConnection, coreVars, threadVars
<1> QED
  BY <1>1, <1>2, <1>3, <1>4, <1>5 DEF IInv

LEMMA SurfaceChangedIInv ==
  ASSUME IInv, NEW a \in Activities, SurfaceChanged(a)
  PROVE  IInv'
<1>1. StateOK'
  BY DEF SurfaceChanged, IInv, StateOK, Starters, Lives, coreVars
<1>2. AttemptOnce'
  BY DEF SurfaceChanged, IInv, AttemptOnce, StateOK, uiVars, coreVars, threadVars
<1>3. StopOnce'
  BY DEF SurfaceChanged, IInv, StopOnce, Announced, AttemptOnce
<1>4. OnePermit'
  BY DEF SurfaceChanged, IInv, OnePermit, Holders, AttemptOnce
<1>5. HolderListens'
  BY DEF SurfaceChanged, IInv, HolderListens, HasConnection, AttemptOnce, coreVars
<1> QED
  BY <1>1, <1>2, <1>3, <1>4, <1>5 DEF IInv

LEMMA SurfaceDestroyedIInv ==
  ASSUME IInv, NEW a \in Activities, SurfaceDestroyed(a)
  PROVE  IInv'
<1>1. StateOK'
  BY DEF SurfaceDestroyed, StopConnection, IInv, StateOK, Stoppers, Lives, coreVars
<1>2. AttemptOnce'
  BY DEF SurfaceDestroyed, IInv, AttemptOnce
<1>3. StopOnce'
  BY DEF SurfaceDestroyed, StopConnection, IInv, StopOnce, Announced
<1>4. OnePermit'
  BY DEF SurfaceDestroyed, StopConnection, IInv, OnePermit, StopOnce, Holders
<1>5. HolderListens'
  BY DEF SurfaceDestroyed, StopConnection, IInv, HolderListens, HasConnection, StopOnce,
    coreVars
<1> QED
  BY <1>1, <1>2, <1>3, <1>4, <1>5 DEF IInv

LEMMA OnStopIInv ==
  ASSUME IInv, NEW a \in Activities, OnStop(a)
  PROVE  IInv'
<1>1. StateOK'
  BY DEF OnStop, StopConnection, IInv, StateOK, Stoppers, Lives, coreVars
<1>2. AttemptOnce'
  BY DEF OnStop, StopConnection, IInv, AttemptOnce, StateOK, uiVars, coreVars, threadVars
<1>3. StopOnce'
  BY DEF OnStop, StopConnection, IInv, StopOnce, Announced
<1>4. OnePermit'
  BY DEF OnStop, StopConnection, IInv, OnePermit, StopOnce, Holders
<1>5. HolderListens'
  BY DEF OnStop, StopConnection, IInv, HolderListens, HasConnection, StopOnce, coreVars
<1> QED
  BY <1>1, <1>2, <1>3, <1>4, <1>5 DEF IInv

LEMMA OnDestroyIInv ==
  ASSUME IInv, NEW a \in Activities, OnDestroy(a)
  PROVE  IInv'
<1>1. StateOK'
  BY DEF OnDestroy, StopConnection, IInv, StateOK, Stoppers, Lives, coreVars
<1>2. AttemptOnce'
  BY DEF OnDestroy, StopConnection, IInv, AttemptOnce, StateOK, uiVars, coreVars,
    threadVars
<1>3. StopOnce'
  BY DEF OnDestroy, StopConnection, IInv, StopOnce, Announced
<1>4. OnePermit'
  BY DEF OnDestroy, StopConnection, IInv, OnePermit, StopOnce, Holders
<1>5. HolderListens'
  BY DEF OnDestroy, StopConnection, IInv, HolderListens, HasConnection, StopOnce, coreVars
<1> QED
  BY <1>1, <1>2, <1>3, <1>4, <1>5 DEF IInv

LEMMA StartAppIInv ==
  ASSUME IInv, NEW a \in Activities, StartApp(a)
  PROVE  IInv'
<1>1. StateOK'
  BY DEF StartApp, IInv, StateOK, Starters, Stoppers, Lives, uiVars, coreVars, threadVars
<1>2. AttemptOnce'
  BY DEF StartApp, IInv, AttemptOnce, StateOK, uiVars, coreVars, threadVars
<1>3. StopOnce'
  BY DEF StartApp, IInv, StopOnce, Announced, uiVars
<1>4. OnePermit'
  BY DEF StartApp, IInv, OnePermit, Holders
<1>5. HolderListens'
  BY DEF StartApp, IInv, HolderListens, HasConnection, coreVars
<1> QED
  BY <1>1, <1>2, <1>3, <1>4, <1>5 DEF IInv

LEMMA AcquireIInv ==
  ASSUME IInv, NEW a \in Activities, Acquire(a)
  PROVE  IInv'
<1>1. StateOK'
  BY DEF Acquire, IInv, StateOK, Starters, Stoppers, Lives, uiVars, coreVars, threadVars
<1>2. AttemptOnce'
  BY DEF Acquire, IInv, AttemptOnce, StateOK, uiVars, coreVars, threadVars
<1>3. StopOnce'
  BY DEF Acquire, IInv, StopOnce, Announced, uiVars
<1>4. OnePermit'
  BY DEF Acquire, IInv, OnePermit, StateOK, Holders
<1>5. HolderListens'
  BY DEF Acquire, IInv, HolderListens, HasConnection, coreVars
<1> QED
  BY <1>1, <1>2, <1>3, <1>4, <1>5 DEF IInv

LEMMA StartConnectionIInv ==
  ASSUME IInv, NEW a \in Activities, StartConnection(a)
  PROVE  IInv'
<1>1. StateOK'
  BY DEF StartConnection, IInv, StateOK, Starters, uiVars
<1>2. AttemptOnce'
  BY DEF StartConnection, IInv, AttemptOnce, StateOK, uiVars, coreVars, threadVars
<1>3. StopOnce'
  BY DEF StartConnection, IInv, StopOnce, Announced, uiVars
<1>4. OnePermit'
  BY DEF StartConnection, IInv, OnePermit, Holders
<1>5. HolderListens'
  BY DEF StartConnection, IInv, HolderListens, HasConnection, StopOnce, OnePermit, Holders
<1> QED
  BY <1>1, <1>2, <1>3, <1>4, <1>5 DEF IInv

LEMMA EstablishedIInv ==
  ASSUME IInv, NEW a \in Activities, Established(a)
  PROVE  IInv'
<1>0. posted' = Append(posted, [to |-> a, what |-> "started"])
  BY DEF Established, Post, IInv, HolderListens, None, Activities
<1>a. /\ posted' \in Seq(Runnables)
      /\ \A i \in DOMAIN posted' :
           \/ i \in DOMAIN posted /\ posted'[i] = posted[i]
           \/ i = Len(posted) + 1 /\ posted'[i] = [to |-> a, what |-> "started"]
  BY <1>0, PostedAppend DEF IInv, Runnables
<1>1. StateOK'
  BY <1>a DEF Established, IInv, StateOK, Starters, uiVars, coreVars, threadVars
<1>2. AttemptOnce'
  BY DEF Established, Post, IInv, AttemptOnce, StateOK, uiVars, coreVars, threadVars
<1>3. StopOnce'
  <2>1. \A i \in DOMAIN posted : posted[i].what = "started" => posted[i].to # a
    BY DEF Established, IInv, StopOnce, Announced
  <2>2. \A i \in DOMAIN posted : posted[i].to \in Activities
    <3>1. \A i \in DOMAIN posted : posted[i] \in Runnables
      BY DEF IInv, StateOK
    <3> QED
      BY <3>1 DEF Runnables
  <2>3. a \notin connected /\ stopper[a] = "none"
    BY DEF Established, IInv, StopOnce, Announced
  <2>4. \A b \in Activities : Announced(b)' <=> Announced(b) \/ b = a
    BY DEF Established, IInv, StateOK, Announced
  <2> QED
    BY <1>a, <2>1, <2>2, <2>3, <2>4, SMTT(30)
    DEF Established, IInv, StateOK, StopOnce, uiVars
<1>4. OnePermit'
  BY DEF Established, IInv, OnePermit, Holders
<1>5. HolderListens'
  BY DEF Established, IInv, HolderListens, StateOK, HasConnection
<1> QED
  BY <1>1, <1>2, <1>3, <1>4, <1>5 DEF IInv

LEMMA StartedIInv ==
  ASSUME IInv, NEW a \in Activities, Started(a)
  PROVE  IInv'
<1>1. StateOK'
  BY DEF Started, IInv, StateOK, Starters, Stoppers, Lives, uiVars, coreVars, threadVars
<1>2. AttemptOnce'
  BY DEF Started, IInv, AttemptOnce, StateOK, uiVars, coreVars, threadVars
<1>3. StopOnce'
  BY DEF Started, IInv, StopOnce, Announced, uiVars
<1>4. OnePermit'
  BY DEF Started, IInv, OnePermit, StopOnce, Holders
<1>5. HolderListens'
  BY DEF Started, IInv, HolderListens, StateOK, HasConnection, StopOnce, Stoppers,
    coreVars
<1> QED
  BY <1>1, <1>2, <1>3, <1>4, <1>5 DEF IInv

LEMMA StartFailsIInv ==
  ASSUME IInv, NEW a \in Activities, StartFails(a)
  PROVE  IInv'
<1>1. StateOK'
  BY DEF StartFails, IInv, StateOK, Starters, Stoppers, Lives, uiVars, coreVars,
    threadVars
<1>2. AttemptOnce'
  BY DEF StartFails, IInv, AttemptOnce, StateOK, uiVars, coreVars, threadVars
<1>3. StopOnce'
  BY DEF StartFails, IInv, StopOnce, Announced, uiVars
<1>4. OnePermit'
  BY DEF StartFails, IInv, OnePermit, StateOK, Holders
<1>5. HolderListens'
  BY DEF StartFails, IInv, HolderListens, HasConnection
<1> QED
  BY <1>1, <1>2, <1>3, <1>4, <1>5 DEF IInv

LEMMA InterruptIInv ==
  ASSUME IInv, NEW a \in Activities, Interrupt(a)
  PROVE  IInv'
<1>1. StateOK'
  BY DEF Interrupt, IInv, StateOK, Starters, Stoppers, Lives, uiVars, coreVars, threadVars
<1>2. AttemptOnce'
  BY DEF Interrupt, IInv, AttemptOnce, StateOK, uiVars, coreVars, threadVars
<1>3. StopOnce'
  BY DEF Interrupt, IInv, StopOnce, Announced, uiVars
<1>4. OnePermit'
  BY DEF Interrupt, IInv, OnePermit, Holders
<1>5. HolderListens'
  BY DEF Interrupt, IInv, HolderListens, HasConnection
<1> QED
  BY <1>1, <1>2, <1>3, <1>4, <1>5 DEF IInv

LEMMA LiStopConnectionIInv ==
  ASSUME IInv, NEW a \in Activities, LiStopConnection(a)
  PROVE  IInv'
<1>1. StateOK'
  BY DEF LiStopConnection, IInv, StateOK, Stoppers, uiVars
<1>2. AttemptOnce'
  BY DEF LiStopConnection, IInv, AttemptOnce, StateOK, uiVars, coreVars, threadVars
<1>3. StopOnce'
  BY DEF LiStopConnection, IInv, StopOnce, Announced, MonitorFree, uiVars
<1>4. OnePermit'
  BY DEF LiStopConnection, IInv, OnePermit, Holders
<1>5. HolderListens'
  BY DEF LiStopConnection, IInv, HolderListens, HasConnection
<1> QED
  BY <1>1, <1>2, <1>3, <1>4, <1>5 DEF IInv

LEMMA CleanupBridgeIInv ==
  ASSUME IInv, NEW a \in Activities, CleanupBridge(a)
  PROVE  IInv'
<1>1. StateOK'
  BY DEF CleanupBridge, IInv, StateOK, Stoppers, uiVars
<1>2. AttemptOnce'
  BY DEF CleanupBridge, IInv, AttemptOnce, StateOK, uiVars, coreVars, threadVars
<1>3. StopOnce'
  BY DEF CleanupBridge, IInv, StopOnce, Announced, uiVars
<1>4. OnePermit'
  BY DEF CleanupBridge, IInv, OnePermit, Holders
<1>5. HolderListens'
  BY SMTT(30) DEF CleanupBridge, IInv, HolderListens, StateOK, HasConnection, StopOnce, Stoppers,
    None
<1> QED
  BY <1>1, <1>2, <1>3, <1>4, <1>5 DEF IInv

LEMMA ReleaseIInv ==
  ASSUME IInv, NEW a \in Activities, Release(a)
  PROVE  IInv'
<1>1. StateOK'
  BY DEF Release, IInv, StateOK, Starters, Stoppers, Lives, uiVars, coreVars, threadVars
<1>2. AttemptOnce'
  BY DEF Release, IInv, AttemptOnce, StateOK, uiVars, coreVars, threadVars
<1>3. StopOnce'
  BY DEF Release, IInv, StopOnce, Announced, uiVars
<1>4. OnePermit'
  BY DEF Release, IInv, OnePermit, StateOK, StopOnce, Holders
<1>5. HolderListens'
  BY DEF Release, IInv, HolderListens, HasConnection, coreVars
<1> QED
  BY <1>1, <1>2, <1>3, <1>4, <1>5 DEF IInv

LEMMA TerminatedIInv ==
  ASSUME IInv, NEW a \in Activities, Terminated(a)
  PROVE  IInv'
<1>1. StateOK'
  BY DEF Terminated, IInv, StateOK, Starters, Stoppers, Lives, uiVars, coreVars,
    threadVars
<1>2. AttemptOnce'
  BY DEF Terminated, IInv, AttemptOnce, StateOK, uiVars, coreVars, threadVars
<1>3. StopOnce'
  BY DEF Terminated, IInv, StopOnce, Announced, uiVars, threadVars
<1>4. OnePermit'
  BY DEF Terminated, IInv, OnePermit, Holders, threadVars
<1>5. HolderListens'
  BY DEF Terminated, IInv, HolderListens, HasConnection, threadVars
<1> QED
  BY <1>1, <1>2, <1>3, <1>4, <1>5 DEF IInv

LEMMA CallTerminatedIInv ==
  ASSUME IInv, NEW a \in Activities, CallTerminated(a)
  PROVE  IInv'
<1>0. CASE connectionListener = None
  BY <1>0
  DEF CallTerminated, Post, IInv, StateOK, AttemptOnce, StopOnce, Announced, OnePermit,
      Holders, HolderListens, HasConnection, uiVars, threadVars
<1>1. CASE connectionListener # None
  <2> DEFINE r == [to |-> connectionListener, what |-> "terminated"]
  <2>1. /\ posted' \in Seq(Runnables)
        /\ \A i \in DOMAIN posted' :
             \/ i \in DOMAIN posted /\ posted'[i] = posted[i]
             \/ i = Len(posted) + 1 /\ posted'[i] = r
    BY <1>1, PostedAppend DEF CallTerminated, Post, IInv, StateOK, Runnables
  <2>2. StateOK'
    BY <2>1 DEF CallTerminated, IInv, StateOK, uiVars, threadVars
  <2>3. StopOnce'
    BY <2>1 DEF CallTerminated, IInv, StopOnce, Announced, uiVars, threadVars
  <2> QED
    BY <2>2, <2>3
    DEF CallTerminated, IInv, AttemptOnce, OnePermit, Holders, HolderListens,
        HasConnection, uiVars, threadVars
<1> QED
  BY <1>0, <1>1

LEMMA PostedIInv ==
  ASSUME IInv, Posted
  PROVE  IInv'
<1> DEFINE r == Head(posted)
<1>1. /\ posted' \in Seq(Runnables)
      /\ 1 \in DOMAIN posted /\ r = posted[1] /\ r \in Runnables
      /\ \A i \in DOMAIN posted' :
           i \in Nat /\ i >= 1 /\ i + 1 \in DOMAIN posted /\ posted'[i] = posted[i + 1]
  BY PostedTail DEF Posted, RunStarted, RunTerminated, IInv
<1>2. \A i, j \in DOMAIN posted' : i + 1 = j + 1 => i = j
  BY <1>1
<1>3. \A i \in DOMAIN posted' : i + 1 # 1
  BY <1>1
<1> HIDE DEF r
<1>4. CASE RunStarted
  <2>1. r.what = "started" /\ connected' = connected \cup {r.to} /\ r.to \in Activities
    BY <1>1, <1>4 DEF RunStarted, Runnables, r
  <2>2. StateOK'
    BY <1>1, <1>4, <2>1 DEF RunStarted, IInv, StateOK, coreVars, threadVars
  <2>3. Announced(r.to) /\ stopper[r.to] = "none"
    BY <1>1, <2>1 DEF IInv, StopOnce
  <2>4. \A i \in DOMAIN posted' : posted'[i].what = "started" => posted'[i].to # r.to
    BY <1>1, <1>3, <2>1 DEF IInv, StopOnce
  <2>5. StopOnce'
    BY <1>1, <1>2, <1>4, <2>1, <2>3, <2>4
    DEF RunStarted, IInv, StopOnce, Announced, threadVars
  <2> QED
    BY <1>4, <2>2, <2>5
    DEF RunStarted, IInv, AttemptOnce, OnePermit, Holders, HolderListens, HasConnection,
        coreVars, threadVars
<1>5. CASE RunTerminated
  <2>1. StateOK'
    BY <1>1, <1>5 DEF RunTerminated, IInv, StateOK, coreVars, threadVars
  <2>2. StopOnce'
    BY <1>1, <1>2, <1>5 DEF RunTerminated, IInv, StopOnce, Announced, threadVars
  <2> QED
    BY <1>5, <2>1, <2>2
    DEF RunTerminated, IInv, AttemptOnce, OnePermit, Holders, HolderListens,
        HasConnection, coreVars, threadVars
<1> QED
  BY <1>4, <1>5 DEF Posted

LEMMA NextIInv == IInv /\ [Next]_vars => IInv'
<1> SUFFICES ASSUME IInv, [Next]_vars PROVE IInv'
  OBVIOUS
<1>1. CASE UNCHANGED vars
  BY <1>1
  DEF IInv, StateOK, AttemptOnce, StopOnce, Announced, OnePermit, Holders, HolderListens,
      HasConnection, vars, uiVars, coreVars, threadVars
<1>2. CASE Posted
  BY <1>2, PostedIInv
<1>3. ASSUME NEW a \in Activities,
             User(a) \/ OnDestroy(a) \/ StartStep(a) \/ Acquire(a) \/ StopStep(a)
               \/ Terminated(a) \/ CallTerminated(a)
      PROVE  IInv'
  <2>1. CASE User(a) \/ OnDestroy(a)
    BY <2>1, OpenIInv, SurfaceChangedIInv, SurfaceDestroyedIInv, OnStopIInv, OnDestroyIInv
    DEF User
  <2>2. CASE StartStep(a) \/ Acquire(a)
    BY <2>2, StartAppIInv, AcquireIInv, StartConnectionIInv, EstablishedIInv,
       StartFailsIInv, StartedIInv
    DEF StartStep
  <2>3. CASE StopStep(a)
    BY <2>3, InterruptIInv, LiStopConnectionIInv, CleanupBridgeIInv, ReleaseIInv
    DEF StopStep
  <2>4. CASE Terminated(a) \/ CallTerminated(a)
    BY <2>4, TerminatedIInv, CallTerminatedIInv
  <2> QED
    BY <1>3, <2>1, <2>2, <2>3, <2>4
<1> QED
  BY <1>1, <1>2, <1>3 DEF Next

LEMMA Invariant == Spec => []IInv
BY InitIInv, NextIInv, PTL DEF Spec

-----------------------------------------------------------------------------
(* The slot as its holder has it.                                          *)

FreeSlot == Holders = {} => Owner = None /\ Phase = "free"

HeldSlot ==
  \A a \in Holders :
    /\ a \in Activities /\ Owner = a
    /\ stopper[a] \in {"core", "release"} => Phase = "stopping"
    /\ stopper[a] \notin {"core", "release"} =>
         Phase = IF starter[a] \in {"reported", "done"} THEN "up" ELSE "starting"

LEMMA SlotIs == IInv => FreeSlot /\ HeldSlot
<1> SUFFICES ASSUME IInv PROVE FreeSlot /\ HeldSlot
  OBVIOUS
<1>1. FreeSlot
  BY DEF IInv, OnePermit, Owner, Phase, FreeSlot
<1>2. ASSUME NEW a \in Holders
      PROVE  /\ a \in Activities /\ Owner = a
             /\ stopper[a] \in {"core", "release"} => Phase = "stopping"
             /\ stopper[a] \notin {"core", "release"} =>
                  Phase = IF starter[a] \in {"reported", "done"} THEN "up" ELSE "starting"
  <2>1. Holders = {a} /\ connectionAllowed = 0 /\ a \in Activities
    BY <1>2, HolderAlone DEF Holders
  <2>2. Owner = a
    BY <2>1 DEF Owner
  <2>3. CASE stopper[a] \in {"core", "release"}
    <3>1. \E b \in Holders : stopper[b] \in {"core", "release"}
      BY <2>1, <2>3
    <3>2. Phase = "stopping"
      BY <2>1, <3>1 DEF Phase
    <3> QED
      BY <2>1, <2>2, <2>3, <3>2
  <2>4. CASE stopper[a] \notin {"core", "release"}
    <3>1. ~\E b \in Holders : stopper[b] \in {"core", "release"}
      BY <2>1, <2>4
    <3>2. Phase = IF up # None THEN "up" ELSE "starting"
      BY <2>1, <3>1 DEF Phase
    <3>3. up # None <=> HasConnection(a)
      BY <2>1 DEF IInv, HolderListens, HasConnection, Holders, StateOK, None, Activities
    <3>4. HasConnection(a) <=> starter[a] \in {"reported", "done"}
      BY <2>1, <2>4 DEF HasConnection, Holders, IInv, StateOK, Stoppers
    <3> QED
      BY <2>1, <2>2, <2>4, <3>2, <3>3, <3>4
  <2> QED
    BY <2>3, <2>4
<1>3. HeldSlot
  BY <1>2 DEF HeldSlot
<1> QED
  BY <1>1, <1>3

(* Nothing changes in the slot.                                            *)
LEMMA SameSlot ==
  ASSUME IInv, FreeSlot, FreeSlot', HeldSlot, HeldSlot',
         Holders' = Holders, UNCHANGED connectionListener,
         \A a \in Holders :
           /\ starter'[a] \in {"reported", "done"} <=> starter[a] \in {"reported", "done"}
           /\ stopper'[a] \in {"core", "release"} <=> stopper[a] \in {"core", "release"}
  PROVE  UNCHANGED Slot!slot
<1>1. CASE Holders = {}
  BY <1>1 DEF FreeSlot, Slot!slot
<1>2. CASE Holders # {}
  <2>1. PICK a \in Holders : TRUE
    BY <1>2
  <2> QED
    BY <2>1 DEF HeldSlot, Slot!slot
<1> QED
  BY <1>1, <1>2

(* Every step is a step of the slot.                                       *)
LEMMA SlotStep == IInv /\ IInv' /\ [Next]_vars => [Slot!Next]_(Slot!slot)
<1> SUFFICES ASSUME IInv, IInv', [Next]_vars
             PROVE  Slot!Next \/ UNCHANGED Slot!slot
  BY DEF Slot!slot
<1>1. FreeSlot /\ HeldSlot
  BY SlotIs
<1>2. FreeSlot' /\ HeldSlot'
  <2>1. IInv' => FreeSlot' /\ HeldSlot'
    BY SlotIs, PTL
  <2> QED
    BY <2>1
<1>3. ASSUME UNCHANGED <<starter, stopper, connectionListener>>
      PROVE  UNCHANGED Slot!slot
  BY <1>1, <1>2, <1>3, SameSlot DEF Holders
<1>4. ASSUME NEW a \in Activities, SurfaceChanged(a) \/ StartApp(a)
      PROVE  UNCHANGED Slot!slot
  <2>1. starter[a] \notin {"enter", "core", "reported", "done"}
    BY <1>4 DEF SurfaceChanged, StartApp, IInv, AttemptOnce
  <2>2. /\ starter'[a] \notin {"enter", "core", "reported", "done"}
        /\ \A b \in Activities \ {a} : starter'[b] = starter[b]
        /\ UNCHANGED <<stopper, connectionListener>>
    BY <1>4 DEF SurfaceChanged, StartApp, IInv, StateOK
  <2>3. Holders' = Holders /\ a \notin Holders /\ Holders \subseteq Activities
    BY <2>1, <2>2 DEF Holders
  <2> QED
    BY <1>1, <1>2, <2>2, <2>3, SameSlot
<1>5. ASSUME NEW a \in Activities, StopConnection(a), UNCHANGED <<starter, connectionListener>>
      PROVE  UNCHANGED Slot!slot
  <2>1. CASE a \in connected
    <3>1. stopper[a] = "none" /\ stopper'[a] = "interrupt"
      BY <1>5, <2>1 DEF StopConnection, IInv, StateOK, StopOnce
    <3>2. \A b \in Activities \ {a} : stopper'[b] = stopper[b]
      BY <1>5, <2>1 DEF StopConnection, IInv, StateOK
    <3>3. Holders' = Holders /\ Holders \subseteq Activities
      BY <1>5, <3>1, <3>2 DEF Holders
    <3> QED
      BY <1>1, <1>2, <1>5, <3>1, <3>2, <3>3, SameSlot
  <2>2. CASE a \notin connected
    BY <1>3, <1>5, <2>2 DEF StopConnection
  <2> QED
    BY <2>1, <2>2
<1>6. ASSUME NEW a \in Activities, Acquire(a)
      PROVE  Slot!Next
  <2>1. Holders = {} /\ a \in Holders'
    BY <1>6 DEF Acquire, IInv, OnePermit, Holders, StateOK
  <2>2. /\ starter'[a] = "enter" /\ stopper'[a] = "none"
        /\ UNCHANGED connectionListener
    BY <1>6 DEF Acquire, IInv, StateOK, StopOnce, Announced
  <2>3. Slot!Take(a)
    BY <1>1, <1>2, <2>1, <2>2 DEF FreeSlot, HeldSlot, Slot!Take
  <2> QED
    BY <2>3 DEF Slot!Next
<1>7. ASSUME NEW a \in Activities, StartConnection(a)
      PROVE  Slot!Next
  <2>1. a \in Holders /\ a \in Holders'
    BY <1>7 DEF StartConnection, Holders, IInv, StateOK
  <2>2. /\ starter[a] = "enter" /\ stopper[a] = "none"
        /\ starter'[a] = "core" /\ stopper'[a] = "none" /\ connectionListener' = a
    BY <1>7 DEF StartConnection, IInv, StateOK, StopOnce, Announced
  <2>3. Slot!Listen
    BY <1>1, <1>2, <2>1, <2>2 DEF HeldSlot, Slot!Listen
  <2> QED
    BY <2>3 DEF Slot!Next
<1>8. ASSUME NEW a \in Activities, Established(a)
      PROVE  Slot!Next
  <2>1. a \in Holders /\ a \in Holders'
    BY <1>8 DEF Established, Holders, IInv, StateOK
  <2>2. /\ starter[a] = "core" /\ stopper[a] = "none"
        /\ starter'[a] = "reported" /\ stopper'[a] = "none"
        /\ connectionListener = a /\ UNCHANGED connectionListener
    BY <1>8 DEF Established, IInv, StateOK, StopOnce, Announced, HolderListens
  <2>3. Slot!Establish
    BY <1>1, <1>2, <2>1, <2>2 DEF HeldSlot, Slot!Establish
  <2> QED
    BY <2>3 DEF Slot!Next
<1>9. ASSUME NEW a \in Activities, Started(a)
      PROVE  UNCHANGED Slot!slot
  <2>1. /\ starter[a] = "reported" /\ starter'[a] = "done" /\ stopper[a] # "done"
        /\ \A b \in Activities \ {a} : starter'[b] = starter[b]
        /\ UNCHANGED <<stopper, connectionListener>>
    BY <1>9 DEF Started, IInv, StateOK, StopOnce
  <2>2. Holders' = Holders /\ Holders \subseteq Activities
    BY <2>1 DEF Holders
  <2> QED
    BY <1>1, <1>2, <2>1, <2>2, SameSlot
<1>10. ASSUME NEW a \in Activities, StartFails(a)
       PROVE  Slot!Next
  <2>1. Holders = {a} /\ starter[a] = "core" /\ stopper[a] = "none"
    BY <1>10, HolderAlone DEF StartFails, Holders, IInv, StopOnce, Announced
  <2>2. Holders' = {} /\ UNCHANGED connectionListener
    BY <1>10, <2>1 DEF StartFails, Holders, IInv, StateOK
  <2>3. Slot!Fail
    BY <1>1, <1>2, <2>1, <2>2 DEF FreeSlot, HeldSlot, Slot!Fail
  <2> QED
    BY <2>3 DEF Slot!Next
<1>11. ASSUME NEW a \in Activities, Interrupt(a)
       PROVE  UNCHANGED Slot!slot
  <2>1. /\ stopper[a] = "interrupt" /\ stopper'[a] = "enter"
        /\ \A b \in Activities \ {a} : stopper'[b] = stopper[b]
        /\ UNCHANGED <<starter, connectionListener>>
    BY <1>11 DEF Interrupt, IInv, StateOK
  <2>2. Holders' = Holders /\ Holders \subseteq Activities
    BY <2>1 DEF Holders
  <2> QED
    BY <1>1, <1>2, <2>1, <2>2, SameSlot
<1>12. ASSUME NEW a \in Activities, LiStopConnection(a)
       PROVE  Slot!Next
  <2>1. /\ stopper[a] = "enter" /\ stopper'[a] = "core" /\ starter[a] = "done"
        /\ UNCHANGED <<starter, connectionListener>>
    BY <1>12 DEF LiStopConnection, MonitorFree, IInv, StateOK, StopOnce, Announced
  <2>2. a \in Holders /\ a \in Holders'
    BY <2>1 DEF Holders
  <2>3. Slot!Stop
    BY <1>1, <1>2, <2>1, <2>2 DEF HeldSlot, Slot!Stop
  <2> QED
    BY <2>3 DEF Slot!Next
<1>13. ASSUME NEW a \in Activities, CleanupBridge(a)
       PROVE  Slot!Next
  <2>1. /\ stopper[a] = "core" /\ stopper'[a] = "release" /\ starter[a] = "done"
        /\ UNCHANGED starter /\ connectionListener' = None
    BY <1>13 DEF CleanupBridge, IInv, StateOK, StopOnce
  <2>2. a \in Holders /\ a \in Holders'
    BY <2>1 DEF Holders
  <2>3. Slot!Silence
    BY <1>1, <1>2, <2>1, <2>2 DEF HeldSlot, Slot!Silence
  <2> QED
    BY <2>3 DEF Slot!Next
<1>14. ASSUME NEW a \in Activities, Release(a)
       PROVE  Slot!Next
  <2>1. Holders = {a} /\ stopper[a] = "release" /\ connectionListener = None
    BY <1>14, HolderAlone DEF Release, Holders, IInv, StopOnce, HolderListens
  <2>2. Holders' = {} /\ UNCHANGED connectionListener
    BY <1>14, <2>1 DEF Release, Holders, IInv, StateOK, StopOnce
  <2>3. Slot!Leave
    BY <1>1, <1>2, <2>1, <2>2 DEF FreeSlot, HeldSlot, Slot!Leave
  <2> QED
    BY <2>3 DEF Slot!Next
<1>15. CASE UNCHANGED vars
  BY <1>3, <1>15 DEF vars, threadVars
<1>16. CASE Posted
  BY <1>3, <1>16 DEF Posted, RunStarted, RunTerminated, threadVars
<1>17. ASSUME NEW a \in Activities,
              User(a) \/ OnDestroy(a) \/ Terminated(a) \/ CallTerminated(a)
       PROVE  Slot!Next \/ UNCHANGED Slot!slot
  <2>1. CASE Open(a) \/ Terminated(a) \/ CallTerminated(a)
    BY <1>3, <2>1 DEF Open, Terminated, CallTerminated, threadVars
  <2>2. CASE SurfaceChanged(a)
    BY <1>4, <2>2
  <2>3. CASE SurfaceDestroyed(a) \/ OnStop(a) \/ OnDestroy(a)
    BY <1>5, <2>3 DEF SurfaceDestroyed, OnStop, OnDestroy
  <2> QED
    BY <1>17, <2>1, <2>2, <2>3 DEF User
<1>18. ASSUME NEW a \in Activities, StartStep(a) \/ Acquire(a) \/ StopStep(a)
       PROVE  Slot!Next \/ UNCHANGED Slot!slot
  BY <1>4, <1>6, <1>7, <1>8, <1>9, <1>10, <1>11, <1>12, <1>13, <1>14, <1>18
  DEF StartStep, StopStep
<1> QED
  BY <1>15, <1>16, <1>17, <1>18 DEF Next

-----------------------------------------------------------------------------
(* moonlight-core serves one connection at a time: the permit, the monitor *)
(* and the listener implement ConnectionSlot, whatever the activities do   *)
(* meanwhile.                                                              *)
THEOREM Implements == Spec => SlotSpec
<1>1. Init => Slot!Init
  <2> SUFFICES ASSUME Init PROVE Slot!Init
    OBVIOUS
  <2>1. Holders = {}
    BY DEF Init, Holders
  <2> QED
    BY <2>1, InitIInv, SlotIs DEF FreeSlot, Init, Slot!Init
<1> QED
  BY <1>1, SlotStep, Invariant, PTL DEF Spec, SlotSpec, Slot!Spec

(* However often stopConnection() is called, the permit is released once   *)
(* for a connection; and what moonlight-core says of a connection that     *)
(* starts is said to the activity that started it.                         *)
PermitSound ==
  /\ connectionAllowed \in {0, 1}
  /\ \A a \in Activities : starter[a] = "core" =>
       connectionAllowed = 0 /\ connectionListener = a /\ stopper[a] = "none"
  /\ \A a \in Activities : stopper[a] \in {"core", "release"} =>
       /\ connectionAllowed = 0
       /\ \A b \in Activities : starter[b] \notin {"enter", "core", "reported"}

THEOREM PermitReleasedOnce == Spec => []PermitSound
<1>1. IInv => PermitSound
  <2> SUFFICES ASSUME IInv PROVE PermitSound
    OBVIOUS
  <2>1. connectionAllowed \in {0, 1}
    BY DEF IInv, OnePermit
  <2>2. ASSUME NEW a \in Activities, starter[a] = "core"
        PROVE  connectionAllowed = 0 /\ connectionListener = a /\ stopper[a] = "none"
    <3>1. a \in Holders
      BY <2>2 DEF Holders
    <3> QED
      BY <2>2, <3>1, HolderAlone DEF IInv, HolderListens, StopOnce, Announced
  <2>3. ASSUME NEW a \in Activities, stopper[a] \in {"core", "release"}
        PROVE  connectionAllowed = 0
                 /\ \A b \in Activities : starter[b] \notin {"enter", "core", "reported"}
    <3>1. a \in Holders /\ starter[a] = "done"
      BY <2>3 DEF Holders, IInv, StopOnce
    <3>2. Holders = {a} /\ connectionAllowed = 0
      BY <3>1, HolderAlone
    <3> QED
      BY <3>1, <3>2 DEF Holders
  <2> QED
    BY <2>1, <2>2, <2>3 DEF PermitSound
<1> QED
  BY <1>1, Invariant, PTL

=============================================================================
