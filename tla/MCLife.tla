------------------------------- MODULE MCLife -------------------------------
(* The process with every component, and with the few that are always on.  *)
EXTENDS Lifecycle

Everything == Component
Minimal == {"modbus", "mc", "scheduler", "web", "tui"}
=============================================================================
