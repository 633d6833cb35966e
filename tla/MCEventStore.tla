--------------------------- MODULE MCEventStore ---------------------------
(* An event store of three slots, and events that differ in all that the    *)
(* totals look at.                                                          *)
EXTENDS EventStore

MCEvents == [policy : {"ALLOW", "DENY", "UNKNOWN"}, ml : BOOLEAN]
=============================================================================
