-------------------------- MODULE ConnectionSlot --------------------------
(***************************************************************************)
(* What the streaming activities are promised: moonlight-core serves one   *)
(* connection at a time.  An activity takes the free slot, its connection  *)
(* starts or fails, and only that activity gives the slot up again.        *)
(***************************************************************************)
CONSTANTS Activities, None

VARIABLES owner,     \* whose connection it is, or None
          phase,     \* "free", "starting", "up", "stopping"
          listener   \* who is told of the connection, or None

slot == <<owner, phase, listener>>

Init == owner = None /\ phase = "free" /\ listener = None

Take(a) == /\ phase = "free" /\ owner' = a /\ phase' = "starting"
           /\ UNCHANGED listener
Listen == phase = "starting" /\ listener' = owner /\ UNCHANGED <<owner, phase>>
Establish == phase = "starting" /\ listener = owner /\ phase' = "up" /\ UNCHANGED <<owner, listener>>
Fail == phase = "starting" /\ owner' = None /\ phase' = "free" /\ UNCHANGED listener
Stop == phase = "up" /\ phase' = "stopping" /\ UNCHANGED <<owner, listener>>
Silence == phase = "stopping" /\ listener' = None /\ UNCHANGED <<owner, phase>>
Leave == /\ phase = "stopping" /\ listener = None
         /\ owner' = None /\ phase' = "free" /\ UNCHANGED listener

Next == \/ \E a \in Activities : Take(a)
        \/ Listen \/ Establish \/ Fail \/ Stop \/ Silence \/ Leave

Spec == Init /\ [][Next]_slot
=============================================================================
