------------------------------ MODULE Telemetry ------------------------------
(***************************************************************************)
(* What the parts of the relay know about a message of each type:          *)
(* pkg/telemetry/envelope.go builds the fields of its envelope,            *)
(* UpdateFromMessage in internal/sinks/nats.go reads some of them back by  *)
(* name and Go type, mergeDeviceState copies them between device states,   *)
(* and the struct DeviceState says which message each of its fields is     *)
(* from.  Nothing but the agreement of these four lists ties them together.*)
(*                                                                         *)
(* A field of DeviceState has the name of the envelope's field here: "type"*)
(* stands for VehicleType.  The fields of SystemStatus that nothing reads  *)
(* are left out, and the types are those of the MAVLink messages.          *)
(***************************************************************************)

MsgTypes == {"Heartbeat", "GlobalPositionInt", "Attitude", "VFR_HUD", "SystemStatus"}

\* Build*Envelope: the fields of an envelope, and the Go type of each.
BuildEnvelope == [
    Heartbeat |-> [type |-> "string"],
    GlobalPositionInt |->
        [latitude |-> "int32", longitude |-> "int32", altitude |-> "int32",
         relative_alt |-> "int32", vx |-> "int16", vy |-> "int16", vz |-> "int16",
         heading |-> "uint16"],
    Attitude |->
        [pitch |-> "float32", roll |-> "float32", yaw |-> "float32",
         pitch_speed |-> "float32", roll_speed |-> "float32", yaw_speed |-> "float32"],
    VFR_HUD |->
        [ground_speed |-> "float32", altitude |-> "float32", heading |-> "int16",
         throttle |-> "uint16", climb_rate |-> "float32"],
    SystemStatus |->
        [battery_remaining |-> "int8", voltage_battery |-> "uint16", load |-> "uint16"]]

\* UpdateFromMessage: the fields it looks for, and the type it asserts.
UpdateFromMessage == [
    GlobalPositionInt |->
        [latitude |-> "int32", longitude |-> "int32", altitude |-> "int32",
         relative_alt |-> "int32", heading |-> "uint16", vx |-> "int16", vy |-> "int16",
         vz |-> "int16"],
    Attitude |->
        [pitch |-> "float32", roll |-> "float32", yaw |-> "float32",
         pitch_speed |-> "float32", roll_speed |-> "float32", yaw_speed |-> "float32"],
    SystemStatus |->
        [battery_remaining |-> "int8", voltage_battery |-> "uint16", load |-> "uint16"],
    VFR_HUD |->
        [ground_speed |-> "float32", throttle |-> "uint16", climb_rate |-> "float32"],
    Heartbeat |-> [type |-> "string"]]

\* DeviceState: the fields, under the type of message they are said to be from.
DeviceFields == [
    GlobalPositionInt |->
        {"latitude", "longitude", "altitude", "relative_alt", "heading", "vx", "vy", "vz"},
    Attitude |-> {"pitch", "roll", "yaw", "pitch_speed", "roll_speed", "yaw_speed"},
    SystemStatus |-> {"battery_remaining", "voltage_battery", "load"},
    VFR_HUD |-> {"ground_speed", "throttle", "climb_rate"},
    Heartbeat |-> {"type"}]

StateFields == UNION {DeviceFields[t] : t \in MsgTypes}

\* mergeDeviceState: the fields a message of the type replaces.
MergedFields == [
    GlobalPositionInt |->
        {"latitude", "longitude", "altitude", "relative_alt", "heading", "vx", "vy", "vz"},
    Attitude |-> {"pitch", "roll", "yaw", "pitch_speed", "roll_speed", "yaw_speed"},
    SystemStatus |-> {"battery_remaining", "voltage_battery", "load"},
    VFR_HUD |-> {"ground_speed", "throttle", "climb_rate"},
    Heartbeat |-> {"type"}]

\* A type assertion on a field that is there succeeds if the types agree.
Reads(t, f) ==
    /\ f \in DOMAIN UpdateFromMessage[t] \cap DOMAIN BuildEnvelope[t]
    /\ UpdateFromMessage[t][f] = BuildEnvelope[t][f]
=============================================================================
