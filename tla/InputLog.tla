------------------------------ MODULE InputLog ------------------------------
(***************************************************************************)
(* What the input stream promises its callers, with no holders, free list  *)
(* or merging loop in it: the events it accepts form one log, and each     *)
(* packet sent to the host stands for the next run of events of the log    *)
(* that means the same to the host.  Stopping closes the log and returns   *)
(* once everything in it was delivered, unless a delivery failed.          *)
(***************************************************************************)
EXTENDS Integers, Sequences, SequencesExt

CONSTANTS Events,              \* what can be accepted
          DeltaMin, DeltaMax   \* range of a relative motion (int16)

VARIABLES pending,    \* events accepted and not delivered, oldest first
          delivered,  \* the packet delivered last
          phase,      \* "open", "closed" or "returned"
          working     \* no delivery has failed

vars == <<pending, delivered, phase, working>>

Init == Len(pending) <= 1 /\ delivered.kind = "none" /\ phase = "open" /\ working = TRUE

Total(run) == FoldLeft(LAMBDA sum, e : sum + e.val[1], 0, run)

SameKind(run, kind) == \A i \in DOMAIN run : run[i].kind = kind

(* One packet can stand for these events.                                  *)
Mergeable(run) ==
  \/ Len(run) = 1 /\ run[1].kind # "text"
  \/ SameKind(run, "controller") /\ \A i \in DOMAIN run : run[i].tag = run[1].tag
  \/ SameKind(run, "move") /\ Total(run) \in DeltaMin..DeltaMax
  \/ SameKind(run, "position")

(* The packet: motions add up, of all other runs the last event counts.    *)
Merged(run) ==
  IF SameKind(run, "move") THEN [Head(run) EXCEPT !.val = <<Total(run)>>] ELSE Last(run)

Accept ==
  /\ phase = "open"
  /\ \E e \in Events : pending' = Append(pending, e)
  /\ UNCHANGED <<delivered, phase, working>>

Deliver ==
  /\ working /\ phase # "returned"
  /\ \E n \in 1..Len(pending) :
       /\ Mergeable(SubSeq(pending, 1, n))
       /\ delivered' = Merged(SubSeq(pending, 1, n))
       /\ pending' = SubSeq(pending, n + 1, Len(pending))
  /\ UNCHANGED <<phase, working>>

Text == pending # <<>> /\ Head(pending).kind = "text"

(* A text is delivered one code point at a time.                           *)
DeliverCodePoint ==
  /\ working /\ phase # "returned" /\ Text /\ Head(pending).val # <<>>
  /\ delivered' = [Head(pending) EXCEPT !.val = <<Head(@)>>]
  /\ pending' = <<[Head(pending) EXCEPT !.val = Tail(@)]>> \o Tail(pending)
  /\ UNCHANGED <<phase, working>>

(* It ends with its last code point or before an invalid one, which is 0.  *)
EndText ==
  /\ Text
  /\ Head(pending).val # <<>> => Head(Head(pending).val) = 0
  /\ pending' = Tail(pending)
  /\ UNCHANGED <<delivered, phase, working>>

FailDelivery == working /\ pending # <<>> /\ working' = FALSE
                /\ UNCHANGED <<pending, delivered, phase>>

Close == phase = "open" /\ phase' = "closed" /\ UNCHANGED <<pending, delivered, working>>

Return ==
  /\ phase = "closed" /\ (working => pending = <<>>)
  /\ phase' = "returned"
  /\ UNCHANGED <<pending, delivered, working>>

(* What a failed delivery left behind.                                     *)
Discard == phase = "returned" /\ pending' = <<>> /\ UNCHANGED <<delivered, phase, working>>

Next == Accept \/ Deliver \/ DeliverCodePoint \/ EndText \/ FailDelivery \/ Close \/ Return \/ Discard

Spec == Init /\ [][Next]_vars
=============================================================================
