------------------------------- MODULE MCRelay -------------------------------
(***************************************************************************)
(* Instances of Relay for TLC.  Two endpoints and up to three sinks, one of*)
(* each kind, are enough for a message of one consumer to overtake, wait   *)
(* for or outlive a message of the other.                                  *)
(***************************************************************************)
EXTENDS Relay, TLC

OneToOne(name, drone, protocol) ==
    [name |-> name, drone |-> drone, mode |-> "1:1", protocol |-> protocol]

Good(eps, types) ==
    [readable |-> TRUE, parses |-> TRUE, endpoints |-> eps, dialect |-> "", sinks |-> types]

TwoDrones == <<OneToOne("udp0", "d1", "udp"), OneToOne("tcp0", "d2", "tcp")>>

\* A valid endpoint behind one without a drone_id and one in a mode that is not
\* supported.
SomeInvalid == <<OneToOne("udp0", "", "udp"),
                 [OneToOne("tcp0", "d2", "tcp") EXCEPT !.mode = "multi"],
                 OneToOne("ser0", "d3", "serial")>>

\* The configuration loader does not refuse a name that is used twice.
SharedName == <<OneToOne("udp0", "d1", "udp"), OneToOne("udp0", "d2", "udp")>>

AllKinds == ("s3" :> "drop") @@ ("gcs" :> "block") @@ ("influxdb" :> "drop")
BlockAndDrop == ("nats" :> "block") @@ ("file" :> "drop")
OneBlock == "file" :> "block"
OneDrop == "nats" :> "drop"
OnlyKafka == "kafka" :> "drop"

\* Everything Load and New refuse, and what they put up with.
ShutdownFiles ==
    {Good(TwoDrones, AllKinds), Good(SomeInvalid, OneDrop @@ OnlyKafka),
     Good(TwoDrones, OnlyKafka), Good(<<>>, OneDrop), Good(<<SomeInvalid[1]>>, OneDrop),
     [Good(TwoDrones, OneDrop) EXCEPT !.dialect = "auterion"],
     [Good(TwoDrones, OneDrop) EXCEPT !.readable = FALSE],
     [Good(TwoDrones, OneDrop) EXCEPT !.parses = FALSE]}

LiveFiles == {Good(SharedName, BlockAndDrop)}

PanicFiles == {Good(<<TwoDrones[1]>>, OneBlock)}
=============================================================================
