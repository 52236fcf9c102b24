----------------------------- MODULE MCOrbshred -----------------------------
(***************************************************************************)
(* Instances of Orbshred: the configurations of sources that TLC runs.     *)
(***************************************************************************)
EXTENDS Orbshred

CONSTANTS udp, cap, grpc, s1, s2, s3

(* Two UDP listeners, each with a source of its own. *)
TwoUdp == [l \in {udp, cap} |-> IF l = udp THEN {s1} ELSE {s2}]

(* One UDP listener. *)
OneUdp == [l \in {udp} |-> {s1}]

(* A capture socket shared by two sources. *)
Capture == [l \in {cap} |-> {s1, s2}]

AllKernel == [l \in Listeners |-> TRUE]
Userland  == [l \in Listeners |-> FALSE]
(* CLOCK_REALTIME as at the start, or set back by more than the run. *)
StepBack  == {0, -3}

BatchUdp  == [l \in Listeners |-> IF l = udp THEN 2 ELSE 1]

NoStreams  == [t \in Streams |-> {}]
StreamOf_s3 == [t \in Streams |-> {s3}]
=============================================================================
