-------------------------- MODULE MCRtpVideoQueue --------------------------
(***************************************************************************)
(* RtpVideoQueue for a few small frames.                                   *)
(***************************************************************************)
EXTENDS RtpVideoQueue

MCTwoInTheMiddle == <<1, 2, 1>>
MCOne == <<1>>
MCFour == <<1, 2, 1, 1>>
=============================================================================
