-------------------------- MODULE MCSensorSession --------------------------
(* Model values for SensorSession: "fast" stands for an interval within     *)
(* 250..60000 ms, "tiny" for one below it, "second" for the default.        *)
EXTENDS SensorSession

MCIntervals == {"fast", "tiny"}
MCValidIntervals == {"fast"}
MCDefaultInterval == "second"
=============================================================================
