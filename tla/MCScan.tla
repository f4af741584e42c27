------------------------------- MODULE MCScan -------------------------------
(* Small instances of the scan cycle: a coil with a linked MC output, the  *)
(* mode switch, a sensor and a holding register the logic counts in.       *)
EXTENDS ScanHistory

coil == Ref("COIL", 0)
sensor == Ref("DI", 1)
hr   == Ref("HR", 0)
y    == Ref("Y", 0)
q    == Ref("Q", 0)
d    == Ref("D", 0)

Rule(s, t) == [src |-> s, dst |-> t]

Bits  == {"COIL", "DI", "Y", "Q"}
Words == {"HR"}
Sizes == [a \in Area |-> IF a = "DI" THEN 2 ELSE 1]

\* resolveBindings lists discrete inputs, coils and registers in this order.
Coils == <<ModeSwitch, coil, hr>>
Sensors == <<ModeSwitch, sensor, coil>>

CoilTable == <<Rule(coil, y)>>
TwoSpokes == <<Rule(coil, y), Rule(coil, q)>>

\* logic/mock_logic.cpp: the valve's coil is its own in AUTO and left alone in
\* MANUAL; sensors follow the simulated plant; a counter counts activations.
Zero == [c \in BoundCell |-> 0]

NextCount(n) == IF n < WordMax THEN n + 1 ELSE 0

MockLogic(img) ==
    {new \in [BoundCell -> Word] :
        /\ \A c \in BoundCell :
              /\ ExternalControl(c) => new[c] = img[c]
              /\ c.area = "COIL" /\ img[ModeSwitch] = 0 => new[c] = img[c]
              /\ c.area = "HR" => new[c] \in {img[c], NextCount(img[c])}
              /\ c \in BitCell => new[c] \in Bit}

\* main starts in AUTO or, with --manual, in MANUAL.
AutoOrManual == {0, 1}

\* Who may write what: operators command the coil and its linked cells, the
\* web posts to an unrelated register, or everybody writes everything.
Operators == {coil, y, q, hr}
All == {coil, y, ModeSwitch, sensor}
Nowhere == {}
NoTables == {}
OneTable == {TwoSpokes}

\* What the theorems about the cycle suppose, and both instances meet; the
\* third premise, SwitchUntouched, is met where the operators alone write.
ASSUME Premises == StarTables /\ SwitchFirst /\ ManualIsRespected
ASSUME Operated == ModeSwitch \notin Writable \cup WebWritable => SwitchUntouched
=============================================================================
