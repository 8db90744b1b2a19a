--------------------------- MODULE MCInputStream ---------------------------
(* InputStream on a small instance: one client scrolls and types, one has  *)
(* a controller and a mouse.                                               *)
EXTENDS InputStream

CONSTANTS c1, c2

MCEvents ==
  [c \in Clients |->
     IF c = c1
     THEN {Event("text", "", <<1>>), Event("text", "", <<2, 0>>)}
     ELSE {Event("controller", "a", <<1>>), Event("controller", "a", <<2>>),
           Event("controller", "b", <<1>>),
           Event("move", "", <<2>>),
           Event("position", "", <<1>>), Event("position", "", <<2>>)}]
MCEarly == {Event("move", "", <<-1>>)}
MCAmounts == {3, -2}
MCDeltaMin == -3
MCHolders == 1..6
=============================================================================
