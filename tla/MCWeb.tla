------------------------------- MODULE MCWeb -------------------------------
(* Two handler threads and two names: enough for two saves, or a save and a *)
(* write, to overlap; a long and a short table to be left behind each other, *)
(* and one that is saved and not loaded.                                     *)
EXTENDS WebFiles

CONSTANTS h1, h2, a, b, coil, nowhere, far, longTable, shortTable, badTable

Handlers == {h1, h2}
Names == {a, b}
Places == {coil, nowhere, far}
TooFar == {far}
Cells == {coil}
Bits == {0, 1}
Posts == {longTable, shortTable, badTable}
Throwing == {badTable}
Lengths == [t \in Posts |-> IF t = longTable THEN 2 ELSE 1]
=============================================================================
