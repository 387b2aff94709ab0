---------------------------- MODULE MCLogStream ----------------------------
(* Instances of LogStream for TLC. *)
EXTENDS LogStream

CONSTANTS w1, w2

MCWriter == {w1, w2}
MCMaxEntries == [w \in MCWriter |-> IF w = w1 THEN 2 ELSE 1]
=============================================================================
