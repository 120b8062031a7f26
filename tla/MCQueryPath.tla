---------------------------- MODULE MCQueryPath ----------------------------
(* Values of the constants of QueryPath for TLC.                           *)
EXTENDS QueryPath

(* Timestamps on both sides of 0, in one bucket and in different ones.     *)
MCTimes == {-3, 1, 2, 7}

(* The first two names hash the same bytes and have different tags. The    *)
(* tag of the first joins to the same string as that of the third.         *)
MCNames == {[metric |-> "cpu", tags |-> ("core" :> "1,host=a")],
            [metric |-> "cpu", tags |-> ("core" :> "1") @@ ("host" :> "a")],
            [metric |-> "mem", tags |-> ("core=1,host" :> "a")]}

MCSeriesKey == [n \in MCNames |-> IF n.metric = "cpu" THEN 1 ELSE 2]

MCJoined(k, v) == k \o "=" \o v
=============================================================================
