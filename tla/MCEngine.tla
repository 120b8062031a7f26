------------------------------ MODULE MCEngine ------------------------------
(* Instances of the engine for TLC.                                        *)
EXTENDS Engine

(* Timestamps out of order and with a tie, as clients may send them.       *)
MCTimeOf == [w \in Writes |-> <<2, 1, 3, 2, 1>>[w]]
=============================================================================
