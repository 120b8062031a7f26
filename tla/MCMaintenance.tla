--------------------------- MODULE MCMaintenance ---------------------------
(* Values of the constants of Maintenance for TLC.                         *)
EXTENDS Maintenance

(* Points older and newer than a cutoff alternate, and two share a series. *)
MCTimeOf == [p \in 1 .. MaxPoints |-> IF p = 2 THEN 1 ELSE 2 * p]
MCSeriesOf == [p \in 1 .. MaxPoints |-> p % 2]
=============================================================================
