-------------------------------- MODULE MCS7 --------------------------------
(* A small instance of the S7 server: a register of two-valued bytes and   *)
(* two bits that share a buffer byte.                                      *)
EXTENDS S7History

TwoValues == {0, 1}
\* Words whose bytes both differ: what mixes them is torn.
TwoWords == {[h |-> 0, l |-> 1], [h |-> 1, l |-> 0]}
=============================================================================
