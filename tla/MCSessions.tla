----------------------------- MODULE MCSessions -----------------------------
EXTENDS SessionTracker, TLC

Field(g, s, c) == [gear |-> g, speed |-> s, charge |-> c]

\* One field per payload, as fleet telemetry delivers them.
Fields == {Field("D", "none", "none"), Field("P", "none", "none"),
           Field("none", "zero", "none"), Field("none", "moving", "none"),
           Field("none", "none", "charging"), Field("none", "none", "complete")}
=============================================================================
