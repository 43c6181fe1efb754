----------------------------- MODULE MCSentinel -----------------------------
(* Instances of the sentinel bus for TLC. *)
EXTENDS SentinelProofs

OnlyWait   == {TRUE}
AnyWait    == BOOLEAN
OnlyCalls  == {"call"}
ClientMsgs == {"call", "toolong"}
DeviceMsgs == {"call", "unprepared"}
=============================================================================
