------------------------------ MODULE MCTrim ------------------------------
(* The trim line as it starts: AUTO, torque setpoint 450, no bypass. *)
EXTENDS TrimLogic
=============================================================================
