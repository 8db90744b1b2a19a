--------------------------- MODULE MCAudioStream ---------------------------
(***************************************************************************)
(* AudioStream for a few small blocks.                                     *)
(***************************************************************************)
EXTENDS AudioStream

MCNone == {}
MCOdd == {16}
MCCrooked == {17}
=============================================================================
