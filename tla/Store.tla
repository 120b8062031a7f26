------------------------------- MODULE Store -------------------------------
(***************************************************************************)
(* What the storage engine promises its clients: a set of writes that a    *)
(* query can see, part of which survives every stop of the process.        *)
(*                                                                         *)
(* A write that was answered with an error is in limbo: it may still turn  *)
(* up after a restart.  Once `degraded' is TRUE nothing is promised; the   *)
(* refinement says when an implementation claims that excuse.              *)
(***************************************************************************)
CONSTANT Writes

VARIABLES points, durable, limbo, up, degraded

storeVars == <<points, durable, limbo, up, degraded>>

StoreInit ==
    /\ points = {} /\ durable = {} /\ limbo = {}
    /\ up = TRUE /\ degraded = FALSE

(* Some of the visible writes, or of those in limbo, become durable.       *)
Hardens == /\ durable \subseteq durable'
           /\ durable' \subseteq points' \cup limbo'

(* A write is applied; no other write appears or disappears.               *)
Put(w) ==
    /\ up /\ w \notin points
    /\ points' = points \cup {w}
    /\ Hardens
    /\ UNCHANGED <<limbo, up, degraded>>

(* A write is answered with an error.                                      *)
Refuse(w) ==
    /\ up
    /\ limbo' = limbo \cup {w}
    /\ Hardens
    /\ UNCHANGED <<points, up, degraded>>

Harden ==
    /\ Hardens
    /\ UNCHANGED <<points, limbo, up, degraded>>

(* The process stops: all that is durable is kept, nothing is made up.     *)
Stop ==
    /\ up /\ up' = FALSE
    /\ durable \subseteq points' /\ points' \subseteq points \cup limbo
    /\ Hardens
    /\ UNCHANGED <<limbo, degraded>>

(* The next process serves exactly what the stop left.                     *)
Start ==
    /\ ~up /\ up' = TRUE
    /\ Hardens
    /\ UNCHANGED <<points, limbo, degraded>>

Degrade == degraded'

StoreNext ==
    \/ \E w \in Writes : Put(w) \/ Refuse(w)
    \/ Harden \/ Stop \/ Start \/ Degrade

StoreSpec == StoreInit /\ [][StoreNext]_storeVars
=============================================================================
