---------------------------- MODULE MCAssembly ----------------------------
(* A coarse instance of AssemblyLogic, which clients disturb in every cycle. *)
EXTENDS AssemblyLogic

\* 250 mm a cycle, and the overspeed that jumps the whole conveyor.
CoarseSpeeds == {12500, 60000}
=============================================================================
