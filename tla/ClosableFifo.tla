---------------------------- MODULE ClosableFifo ----------------------------
(***************************************************************************)
(* What LinkedBlockingQueue promises its callers, with no threads, mutex   *)
(* or condition variable in it: a bounded first-in first-out buffer that   *)
(* can be closed.  A drained buffer accepts nothing new but hands out what *)
(* it holds; a buffer that was shut down hands out nothing any more, and   *)
(* what is left in it can only be discarded.                               *)
(***************************************************************************)
EXTENDS Naturals, Sequences

CONSTANT Bound          \* the size bound given to the initializer

VARIABLES buf,          \* the items held, oldest first
          gone,         \* the items that left, in the order they left
          closed        \* "open", "draining", "shut" or "destroyed"

vars == <<buf, gone, closed>>

Init == buf = <<>> /\ gone = <<>> /\ closed = "open"

(* Items are numbered in the order they are accepted. *)
NextItem == Len(gone) + Len(buf) + 1

Put ==
  /\ closed = "open"
  /\ Len(buf) < Bound
  /\ buf' = Append(buf, NextItem)
  /\ UNCHANGED <<gone, closed>>

Take ==
  /\ closed \in {"open", "draining"}
  /\ buf # <<>>
  /\ gone' = Append(gone, Head(buf))
  /\ buf' = Tail(buf)
  /\ UNCHANGED closed

Discard ==
  /\ closed # "destroyed"
  /\ gone' = gone \o buf
  /\ buf' = <<>>
  /\ UNCHANGED closed

Close ==
  /\ \/ closed = "open" /\ closed' \in {"draining", "shut"}
     \/ closed = "draining" /\ closed' = "shut"
  /\ UNCHANGED <<buf, gone>>

Destroy ==
  /\ closed # "destroyed"
  /\ closed = "open" => NextItem = 1
  /\ closed' = "destroyed"
  /\ gone' = gone \o buf
  /\ buf' = <<>>

Reopen ==
  /\ closed = "destroyed"
  /\ closed' = "open"
  /\ buf' = <<>>
  /\ gone' = <<>>

Next == Put \/ Take \/ Discard \/ Close \/ Destroy \/ Reopen

Spec == Init /\ [][Next]_vars
=============================================================================
