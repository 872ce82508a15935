----------------------------- MODULE MCNatsSink -----------------------------
(***************************************************************************)
(* An instance of NatsSink for TLC: two endpoints of one drone, which share*)
(* the drone's entry in the bucket, and a third of another drone; two types*)
(* of message with fields of the same name, both in the entry, and one that*)
(* is only published; configurations with everything, without bucket,      *)
(* without stream, and with a duration that does not parse.                *)
(***************************************************************************)
EXTENDS NatsSink, TLC

DroneOfEndpoint == "udp0" :> "alpha" @@ "tcp0" :> "alpha" @@ "udp1" :> "beta"

Complete == [stream |-> TRUE, kv |-> TRUE, durationsParse |-> TRUE]

SampleConfigs ==
    {Complete, [Complete EXCEPT !.kv = FALSE], [Complete EXCEPT !.stream = FALSE],
     [Complete EXCEPT !.durationsParse = FALSE]}
=============================================================================
