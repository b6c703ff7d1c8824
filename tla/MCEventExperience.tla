-------------------------- MODULE MCEventExperience --------------------------
(* TLC instances of the event-experience gate.                                *)
EXTENDS EventExperience
============================================================================
