---------------------------- MODULE MCPlatform ----------------------------
(* Platform for TLC.  The operator's settings include negative days; the   *)
(* mail that is there from the start may have a date, and gain or lose it. *)
EXTENDS Platform

MCDays == -1..1
MCDates == [m \in Mails |-> IF m \in Present THEN {0, 1} ELSE {0}]
===========================================================================
