--------------------------- MODULE MCMediaDecoder ---------------------------
(***************************************************************************)
(* MediaDecoder with empty packets, packets the codec takes at once, and   *)
(* packets that it may take in parts.                                      *)
(***************************************************************************)
EXTENDS MediaDecoder

MCSizes == 0 .. 2
=============================================================================
