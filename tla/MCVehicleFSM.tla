---------------------------- MODULE MCVehicleFSM ----------------------------
(* Small instances of VehicleFSM for TLC. *)
EXTENDS VehicleFSM

\* The fleet publishes one field per MQTT message; Other is a message with no
\* field the machine reads.
Other == NoSignals
One(field, value) == [NoSignals EXCEPT ![field] = value]
GearMessages == {One("gear", "D"), One("gear", "P")}
ChargeMessages == {One("charge", "on"), One("charge", "off")}

\* The messages of a car that streams its gear.
CarMessages == GearMessages \cup ChargeMessages \cup {Other}

\* These and the rest of the fields, a neutral gear among them, and a batch of
\* several fields as a replay or the HTTP ingest makes them.
AllMessages ==
    CarMessages \cup {One("gear", "N"), One("speed", "moving"), One("speed", "zero"),
                      One("amps", "high"), One("amps", "low"),
                      [NoSignals EXCEPT !.gear = "P", !.charge = "on"]}

\* Gear, speed and charging, one field per message.
DriveMessages == {One("gear", "D"), One("gear", "P"), One("charge", "on"), One("speed", "moving")}

Empty == {NoSignals}
=============================================================================
