-------------------------------- MODULE Config --------------------------------
(***************************************************************************)
(* internal/config/config.go and internal/sinks/factory.go as functions:   *)
(* what Load makes of a configuration file and which sinks the factory     *)
(* makes of a configuration.                                               *)
(*                                                                         *)
(* A file is its text after os.ExpandEnv, in which a variable that is not  *)
(* set has become "": whether it can be read and parsed, the endpoints in  *)
(* order, the dialect in lower case, and for each configured sink type its *)
(* resolved backpressure policy (module AsyncSink).  Ports, credentials and*)
(* the logging section are left out.                                       *)
(***************************************************************************)
EXTENDS Integers, Sequences

MAVLinkEndpoint == [name : STRING, drone : STRING, mode : STRING, protocol : STRING]

NoError == ""

\* "multi" is a mode, and not supported; "1:1" needs a drone_id.
validateEndpointMode(endpoint) == endpoint.mode = "1:1" /\ endpoint.drone # ""

validateEndPointProtocol(endpoint) == endpoint.protocol \in {"udp", "tcp", "serial"}

validateEndpoint(endpoint) ==
    validateEndpointMode(endpoint) /\ validateEndPointProtocol(endpoint)

Dialects == {"common", "minimal", "ardupilot", "ardupilotmega", "apm", "paparazzi", "standard",
             "all", "px4", "development"}

\* An absent name has become "common" by now.
validateMavLinkDialect(name) == name \in Dialects \cup {""}

\* One element after the other: a wanted one is appended to what was kept before.
Selected(seq, wanted) ==
    LET kept[n \in 0..Len(seq)] ==
            IF n = 0 THEN <<>>
            ELSE IF seq[n] \in wanted THEN Append(kept[n - 1], seq[n])
            ELSE kept[n - 1]
    IN  kept[Len(seq)]

\* Invalid endpoints are left out with a warning; the others keep their order.
ValidEndpoints(file) ==
    Selected(file.endpoints, {endpoint \in MAVLinkEndpoint : validateEndpoint(endpoint)})

\* The first thing that Load finds wrong.
LoadError(file) ==
    IF ~file.readable THEN "failed to read"
    ELSE IF ~file.parses THEN "failed to parse"
    ELSE IF file.endpoints = <<>> THEN "no endpoints"
    ELSE IF ValidEndpoints(file) = <<>> THEN "no valid endpoints"
    ELSE IF ~validateMavLinkDialect(file.dialect) THEN "invalid dialect"
    ELSE NoError

-----------------------------------------------------------------------------
(* The factory                                                             *)

\* One after the other in this order.  There is no Kafka sink: a section for it
\* is an error that only counts if nothing else can be created.
FactoryOrder == <<"nats", "s3", "gcs", "bigquery", "timestream", "influxdb", "prometheus",
                  "elasticsearch", "file">>

\* The types built on BaseAsyncSink; WriteMessage of the others runs in the caller.
QueueTypes == {"nats", "s3", "gcs", "file"}

\* broken: the types whose constructor returns an error, which is dropped.
CreateConfiguredSinks(configured, broken) == Selected(FactoryOrder, configured \ broken)
=============================================================================
