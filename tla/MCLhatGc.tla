------------------------------ MODULE MCLhatGc ------------------------------
(* Small instances of LhatGc for TLC.                                      *)
EXTENDS LhatGcProps, TLC

CONSTANTS s1, k1
NoBody == [s \in Scripts |-> {}]
OneBody == [s \in Scripts |-> {k1}]
=============================================================================
