----------------------- MODULE MCLinkedBlockingQueue -----------------------
(***************************************************************************)
(* LinkedBlockingQueue with two producers, the one consumer every queue of *)
(* the core has, and one thread that flushes and closes it.                *)
(***************************************************************************)
EXTENDS LinkedBlockingQueue, TLC

CONSTANTS p1, p2, c1, k1

MCProducers == {p1, p2}
MCConsumers == {c1}
MCControllers == {k1}
Symmetry == Permutations(MCProducers)
=============================================================================
