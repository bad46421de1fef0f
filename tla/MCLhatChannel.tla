--------------------------- MODULE MCLhatChannel ---------------------------
(* Two machines and one channel.                                           *)
EXTENDS LhatChannelProps, TLC
=============================================================================
