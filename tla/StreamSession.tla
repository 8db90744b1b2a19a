--------------------------- MODULE StreamSession ---------------------------
(***************************************************************************)
(* Game.java, NvConnection.java and MoonBridge.java: the activities that   *)
(* stream, one after the other, and the threads they start to open and to  *)
(* close a connection of moonlight-core, which serves one at a time.  The  *)
(* callbacks of moonlight-core go through the listener MoonBridge keeps    *)
(* and are posted to the UI thread.                                        *)
(*                                                                         *)
(* The dialogs of failures are left out; what happens inside the start and *)
(* stop functions of moonlight-core is the module Connection.              *)
(***************************************************************************)
EXTENDS Naturals, Sequences, FiniteSets

CONSTANT MaxActivities      \* bound: activities, in the order they are opened
ASSUME SessionAssumption == MaxActivities \in Nat

Activities == 1..MaxActivities
None == 0

VARIABLES
  life,               \* of each activity
  finishing,          \* finish() was called
  connected,
  posted,             \* runnables of the UI thread
  starter, stopper,   \* where the threads of start() and stop() are
  connectionAllowed,  \* permits
  connectionListener, \* MoonBridge
  up,                 \* whose connection moonlight-core has established
  ConnectionInterrupted, alreadyTerminated,
  asyncTerm           \* connections whose AsyncTerm thread is yet to run

uiVars == <<life, finishing, connected>>
coreVars == <<up, ConnectionInterrupted, alreadyTerminated, asyncTerm>>
threadVars == <<starter, stopper, connectionAllowed, connectionListener>>
vars == <<uiVars, coreVars, threadVars, posted>>

Init ==
  /\ life = [a \in Activities |-> "absent"]
  /\ finishing = {} /\ connected = {} /\ posted = <<>>
  /\ starter = [a \in Activities |-> "none"] /\ stopper = [a \in Activities |-> "none"]
  /\ connectionAllowed = 1 /\ connectionListener = None
  /\ up = None /\ ConnectionInterrupted = FALSE /\ alreadyTerminated = FALSE
  /\ asyncTerm = {}

-----------------------------------------------------------------------------
(* The UI thread.                                                          *)

(* "singleTask": there is no second activity unless the first is finishing. *)
Open(a) ==
  /\ life[a] = "absent"
  /\ 1..(a - 1) \subseteq finishing
  /\ life' = [life EXCEPT ![a] = "open"]
  /\ UNCHANGED <<finishing, connected, coreVars, threadVars, posted>>

SurfaceChanged(a) ==
  /\ life[a] = "open"
  /\ life' = [life EXCEPT ![a] = "attempted"]
  /\ starter' = [starter EXCEPT ![a] = "app"]
  /\ UNCHANGED <<finishing, connected, coreVars, posted, stopper,
                 connectionAllowed, connectionListener>>

(* Mutant: "connected" stays set.                                          *)
StopConnectionAgain(a) ==
  /\ stopper' = IF a \in connected THEN [stopper EXCEPT ![a] = "interrupt"] ELSE stopper
  /\ UNCHANGED connected

(* stopConnection(): "connecting" is never set.                            *)
StopConnection(a) ==
  /\ stopper' = IF a \in connected THEN [stopper EXCEPT ![a] = "interrupt"] ELSE stopper
  /\ connected' = connected \ {a}

SurfaceDestroyed(a) ==
  /\ life[a] = "attempted"
  /\ life' = [life EXCEPT ![a] = "hidden"]
  /\ StopConnection(a)
  /\ UNCHANGED <<finishing, coreVars, posted, starter,
                 connectionAllowed, connectionListener>>

OnStop(a) ==
  /\ life[a] \in {"open", "attempted", "hidden"}
  /\ life' = [life EXCEPT ![a] = "stopped"]
  /\ finishing' = finishing \cup {a}
  /\ StopConnection(a)
  /\ UNCHANGED <<coreVars, posted, starter, connectionAllowed, connectionListener>>

OnDestroy(a) ==
  /\ life[a] = "stopped"
  /\ life' = [life EXCEPT ![a] = "destroyed"]
  /\ StopConnection(a)
  /\ UNCHANGED <<finishing, coreVars, posted, starter,
                 connectionAllowed, connectionListener>>

Post(a, what) == posted' = IF a = None THEN posted ELSE Append(posted, [to |-> a, what |-> what])

(* connectionStarted(), also for an activity that has gone.                *)
RunStarted ==
  /\ posted # <<>> /\ Head(posted).what = "started"
  /\ connected' = connected \cup {Head(posted).to}
  /\ posted' = Tail(posted)
  /\ UNCHANGED <<life, finishing, coreVars, threadVars>>

(* connectionTerminated(): a dialog, or after a graceful termination, and   *)
(* if none was shown before, finish().                                     *)
RunTerminated ==
  /\ posted # <<>> /\ Head(posted).what = "terminated"
  /\ finishing' \in {finishing, finishing \cup {Head(posted).to}}
  /\ posted' = Tail(posted)
  /\ UNCHANGED <<life, connected, coreVars, threadVars>>

-----------------------------------------------------------------------------
(* The thread of start().                                                  *)

MonitorFree == \A a \in Activities : starter[a] \notin {"core", "reported"} /\ stopper[a] # "core"

StartApp(a) ==
  /\ starter[a] = "app"
  /\ \E to \in {"acquire", "failed"} : starter' = [starter EXCEPT ![a] = to]
  /\ UNCHANGED <<uiVars, coreVars, posted, stopper, connectionAllowed, connectionListener>>

Acquire(a) ==
  /\ starter[a] = "acquire" /\ connectionAllowed > 0
  /\ connectionAllowed' = connectionAllowed - 1
  /\ starter' = [starter EXCEPT ![a] = "enter"]
  /\ UNCHANGED <<uiVars, coreVars, posted, stopper, connectionListener>>

(* setupBridge(), and LiStartConnection() begins.                          *)
StartConnection(a) ==
  /\ starter[a] = "enter" /\ MonitorFree
  /\ connectionListener' = a
  /\ ConnectionInterrupted' = FALSE /\ alreadyTerminated' = FALSE
  /\ starter' = [starter EXCEPT ![a] = "core"]
  /\ UNCHANGED <<uiVars, up, asyncTerm, posted, stopper, connectionAllowed>>

Established(a) ==
  /\ starter[a] = "core"
  /\ up' = a /\ Post(connectionListener, "started")
  /\ starter' = [starter EXCEPT ![a] = "reported"]
  /\ UNCHANGED <<uiVars, ConnectionInterrupted, alreadyTerminated, asyncTerm, stopper,
                 connectionAllowed, connectionListener>>

Started(a) ==
  /\ starter[a] = "reported"
  /\ starter' = [starter EXCEPT ![a] = "done"]
  /\ UNCHANGED <<uiVars, coreVars, posted, stopper, connectionAllowed, connectionListener>>

(* Mutant: the permit is not given back.                                   *)
StartFailsKeepingPermit(a) ==
  /\ starter[a] = "core"
  /\ ConnectionInterrupted' = TRUE /\ alreadyTerminated' = TRUE
  /\ starter' = [starter EXCEPT ![a] = "failed"]
  /\ UNCHANGED <<uiVars, up, asyncTerm, posted, stopper, connectionAllowed, connectionListener>>

(* A stage fails, LiStartConnection() undoes the others.                   *)
StartFails(a) ==
  /\ starter[a] = "core"
  /\ ConnectionInterrupted' = TRUE /\ alreadyTerminated' = TRUE
  /\ connectionAllowed' = connectionAllowed + 1
  /\ starter' = [starter EXCEPT ![a] = "failed"]
  /\ UNCHANGED <<uiVars, up, asyncTerm, posted, stopper, connectionListener>>

-----------------------------------------------------------------------------
(* The thread of stop().                                                   *)

Interrupt(a) ==
  /\ stopper[a] = "interrupt"
  /\ ConnectionInterrupted' = TRUE
  /\ stopper' = [stopper EXCEPT ![a] = "enter"]
  /\ UNCHANGED <<uiVars, up, alreadyTerminated, asyncTerm, posted, starter, connectionAllowed,
                 connectionListener>>

LiStopConnection(a) ==
  /\ stopper[a] = "enter" /\ MonitorFree
  /\ ConnectionInterrupted' = TRUE /\ alreadyTerminated' = TRUE
  /\ stopper' = [stopper EXCEPT ![a] = "core"]
  /\ UNCHANGED <<uiVars, up, asyncTerm, posted, starter,
                 connectionAllowed, connectionListener>>

CleanupBridge(a) ==
  /\ stopper[a] = "core"
  /\ up' = None /\ connectionListener' = None
  /\ stopper' = [stopper EXCEPT ![a] = "release"]
  /\ UNCHANGED <<uiVars, ConnectionInterrupted, alreadyTerminated, asyncTerm, posted, starter,
                 connectionAllowed>>

Release(a) ==
  /\ stopper[a] = "release"
  /\ connectionAllowed' = connectionAllowed + 1
  /\ stopper' = [stopper EXCEPT ![a] = "done"]
  /\ UNCHANGED <<uiVars, coreVars, posted, starter, connectionListener>>

-----------------------------------------------------------------------------
(* The connection dies, or what there is of it yet:                        *)
(* ClInternalConnectionTerminated().                                       *)
Terminated(a) ==
  /\ up = a \/ starter[a] = "core"
  /\ ~alreadyTerminated /\ ~ConnectionInterrupted
  /\ alreadyTerminated' = TRUE /\ asyncTerm' = asyncTerm \cup {a}
  /\ UNCHANGED <<uiVars, up, ConnectionInterrupted, threadVars, posted>>

(* The AsyncTerm thread calls whoever listens by then.                     *)
CallTerminated(a) ==
  /\ a \in asyncTerm /\ asyncTerm' = asyncTerm \ {a}
  /\ Post(connectionListener, "terminated")
  /\ UNCHANGED <<uiVars, up, ConnectionInterrupted, alreadyTerminated, threadVars>>

-----------------------------------------------------------------------------
User(a) == Open(a) \/ SurfaceChanged(a) \/ SurfaceDestroyed(a) \/ OnStop(a)
Posted == RunStarted \/ RunTerminated
StartStep(a) == StartApp(a) \/ StartConnection(a) \/ Established(a) \/ StartFails(a) \/ Started(a)
StopStep(a) == Interrupt(a) \/ LiStopConnection(a) \/ CleanupBridge(a) \/ Release(a)

Next ==
  \/ \E a \in Activities :
       User(a) \/ OnDestroy(a) \/ StartStep(a) \/ Acquire(a) \/ StopStep(a)
       \/ Terminated(a) \/ CallTerminated(a)
  \/ Posted

(* Threads run on, a start of moonlight-core returns, posted runnables run  *)
(* and a stopped activity is destroyed.  That a stop of moonlight-core      *)
(* returns is not assumed: see CallReturns of Connection.  The semaphore is *)
(* not fair: a thread that waits gets the permit if it is free for ever or  *)
(* again and again, which suffices as every activity takes it once.         *)
Fairness ==
  /\ WF_vars(Posted)
  /\ \A a \in Activities :
       /\ WF_vars(StartStep(a)) /\ WF_vars(Acquire(a)) /\ WF_vars(OnDestroy(a))
       /\ WF_vars(Interrupt(a) \/ LiStopConnection(a) \/ Release(a))

Spec == Init /\ [][Next]_vars /\ Fairness

-----------------------------------------------------------------------------
(* Who holds the permit: from acquire() to the release() of a failed start *)
(* or of the stop.                                                         *)
Holders ==
  {a \in Activities : \/ starter[a] \in {"enter", "core", "reported"}
                      \/ starter[a] = "done" /\ stopper[a] # "done"}

(* "ensure we only have one connection going at once" (NvConnection.java   *)
(* 411): the permits, the monitor and the listener implement the one slot  *)
(* of ConnectionSlot, whatever the activities do meanwhile.                *)
Owner == IF Holders = {} THEN None ELSE CHOOSE a \in Holders : TRUE
Phase == IF connectionAllowed = 1 THEN "free"
         ELSE IF \E a \in Holders : stopper[a] \in {"core", "release"} THEN "stopping"
         ELSE IF up # None THEN "up" ELSE "starting"
Slot == INSTANCE ConnectionSlot WITH
  owner <- Owner, phase <- Phase, listener <- connectionListener
SlotSpec == Slot!Spec

(* "Now a pending connection can be processed" (NvConnection.java 99): a   *)
(* connection that waits for the permit gets it, unless an activity keeps  *)
(* the connection it has, or its stop hangs in moonlight-core, for ever.   *)
NextServed ==
  \A a \in Activities :
    \/ []<>(starter[a] # "acquire")
    \/ \E b \in Activities : <>[](\/ starter[b] = "done" /\ stopper[b] = "none"
                                  \/ stopper[b] = "core")

(* "if (connecting || connected)" (Game.java 1985): an activity that is    *)
(* destroyed does not leave a connection behind, connecting or connected.  *)
NothingKept ==
  \A a \in Activities : life[a] = "destroyed" /\ up = a ~> up # a
=============================================================================
