---------------------------- MODULE AudioPlayout ----------------------------
(***************************************************************************)
(* What the audio receive path promises the decoder, whatever the network  *)
(* does: a time line on which every position is either played or           *)
(* concealed, once and in order.  Whole blocks may be left out, but the    *)
(* line never jumps from the middle of a block nor into one.  The promise  *)
(* ends for good when the host turns out not to keep to FEC blocks.        *)
(***************************************************************************)
EXTENDS Integers

CONSTANT BlockSize

VARIABLES next, item, ordered

Init == next = 0 /\ item = [kind |-> "none", id |-> 0] /\ ordered = TRUE

Put(kind) ==
  /\ ordered
  /\ item' = [kind |-> kind, id |-> next] /\ next' = next + 1
  /\ UNCHANGED ordered

Play == Put("data")
Conceal == Put("lost")

SkipBlocks ==
  /\ ordered /\ next % BlockSize = 0
  /\ next' > next /\ next' % BlockSize = 0
  /\ UNCHANGED <<item, ordered>>

Abandon == ordered' = FALSE /\ UNCHANGED <<next, item>>

PlayAnything == ~ordered /\ item'.kind = "data" /\ UNCHANGED <<next, ordered>>

Next == Play \/ Conceal \/ SkipBlocks \/ Abandon \/ PlayAnything

Spec == Init /\ [][Next]_<<next, item, ordered>>

=============================================================================
