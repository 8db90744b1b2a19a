------------------------ MODULE MCVideoDepacketizer ------------------------
(***************************************************************************)
(* VideoDepacketizer on a few frames.  Everything is a number or a flag,   *)
(* so the configurations give the constants directly.                      *)
(***************************************************************************)
EXTENDS VideoDepacketizer
=============================================================================
