----------------------------- MODULE TrimLogic -----------------------------
(***************************************************************************)
(* libtrim_logic: an overhead conveyor carries a body through four trim    *)
(* stations.  As in AssemblyLogic, config_run__ simulates the plant under  *)
(* the outputs of the cycle before and then takes one step of the          *)
(* sequence; here with the code's own distances, which are what matters.   *)
(*                                                                         *)
(* Positions of the conveyor are in mm, those of the cylinders in          *)
(* thousandths, torque in tenths of its unit.  What is copied in afresh, or*)
(* taken from the tick, is an input.  PlcLoader copies in %IX0.0 and       *)
(* %IX0.7 only, so the emergency stop %IX0.5 keeps its initial 0 and its   *)
(* branch is left out; so are the production counters, the yellow lamp and *)
(* the heater, which nothing reads.                                        *)
(***************************************************************************)
EXTENDS Integers

CONSTANTS
    Setpoints,   \* values clients give %MW3: natural numbers
    Bypass,      \* whether they set %MW4 = 1: a subset of BOOLEAN
    Modes,       \* what they do to %IX0.0: a subset of BOOLEAN
    Undefined    \* words that the conversion of a too large double may give

VARIABLES trim

Stations == 1 .. 4
Spot == <<200, 450, 700, 900>>

\* config_init__: run, dock, bolt, glue, seat, pass and fail are %QX0.0 -
\* %QX0.6, at the sensors %IX0.1 - %IX0.4, aligned %IX0.6.
Init ==
    trim = [run |-> FALSE, dock |-> FALSE, bolt |-> FALSE, glue |-> FALSE, seat |-> FALSE,
            pass |-> FALSE, fail |-> FALSE, at |-> [n \in Stations |-> FALSE],
            aligned |-> FALSE, pos |-> 0, docked |-> 0, torque |-> 0, press |-> 0,
            seated |-> 0, sfc |-> 0]

Inputs ==
    [auto : Modes, setpoint : Setpoints, skip : Bypass, low : BOOLEAN, hold : BOOLEAN,
     tick : 0 .. 14, undefined : Undefined]

Coils == [run : BOOLEAN, dock : BOOLEAN, bolt : BOOLEAN, glue : BOOLEAN, seat : BOOLEAN]
-----------------------------------------------------------------------------
\* A body within 10 mm past a spot is put back on it.
Reached(p, n, skip) == p >= Spot[n] /\ p < Spot[n] + 10 /\ ~(n = 2 /\ skip)

Convey(s, skip) ==
    LET p == IF s.pos + 3 >= 1000 THEN 0 ELSE s.pos + 3
        there == {n \in Stations : Reached(p, n, skip)}
    IN  IF ~s.run THEN s
        ELSE [s EXCEPT !.pos = IF there = {} THEN p ELSE Spot[CHOOSE n \in there : TRUE],
                       !.at = [n \in Stations |-> n \in there]]

Travel(at, out, step) ==
    IF out THEN IF at + step > 1000 THEN 1000 ELSE at + step
    ELSE IF at < step THEN 0 ELSE at - step

Dock(s) == [s EXCEPT !.docked = Travel(@, s.dock, 50)]

\* The "minor jitter" of lines 206 and 227 is a difference of unsigned numbers:
\* below zero it wraps to almost 2^64, for which Huge stands.
Huge == 1000000
Jitter(base, phase, mean, unit) ==
    IF phase < mean THEN Huge ELSE base + unit * (phase - mean)

Tighten(s, tick) ==
    [s EXCEPT !.torque = IF ~(s.bolt /\ s.docked >= 950) THEN 0
                         ELSE IF @ + 225 > 4520 THEN Jitter(4500, tick % 5, 2, 10) ELSE @ + 225]

Press(s, tick) ==
    LET load == IF s.press + 10 > 152 THEN Jitter(150, tick % 3, 1, 1) ELSE s.press + 10
    IN  [s EXCEPT !.press = IF s.glue THEN load ELSE 0,
                  !.aligned = s.glue /\ (@ \/ load >= 145)]

Seat(s) == [s EXCEPT !.seated = Travel(@, s.seat, 33)]

\* The siren stops unless the inspection is on.
Siren(s) == [s EXCEPT !.fail = @ /\ s.sfc = 7]

Plant(s, in) ==
    Seat(Press(Tighten(Dock(Convey(Siren(s), in.skip)), in.tick), in.tick))

\* %IW1 and %IW2.
Torque(s, in) == IF s.torque = Huge THEN in.undefined ELSE (s.torque + 5) \div 10
Load(s, in) == IF s.press = Huge THEN in.undefined ELSE s.press
-----------------------------------------------------------------------------
\* The sequence, one action per state; s is the line after the plant's step.
ToCockpit(s) ==
    /\ s.sfc = 0
    /\ trim' = [s EXCEPT !.run = ~s.at[1], !.dock = FALSE, !.bolt = FALSE, !.glue = FALSE,
                         !.seat = FALSE, !.pass = FALSE, !.sfc = IF s.at[1] THEN 1 ELSE 0]

DockCockpit(s) ==
    /\ s.sfc = 1
    /\ trim' = [s EXCEPT !.dock = TRUE, !.sfc = IF s.docked >= 950 THEN 2 ELSE 1]

TightenBolts(s, in) ==
    /\ s.sfc = 2
    /\ trim' = IF Torque(s, in) >= in.setpoint THEN [s EXCEPT !.bolt = FALSE, !.dock = FALSE, !.sfc = 3]
               ELSE [s EXCEPT !.bolt = TRUE]

ToGlass(s, skip) ==
    /\ s.sfc = 3
    /\ trim' = [s EXCEPT !.run = ~s.at[2],
                         !.sfc = IF s.at[2] THEN 4 ELSE IF skip THEN 5 ELSE 3]

GlueGlass(s, in) ==
    /\ s.sfc = 4
    /\ trim' = IF s.aligned /\ Load(s, in) >= 148 THEN [s EXCEPT !.glue = FALSE, !.sfc = 5]
               ELSE [s EXCEPT !.glue = TRUE]

ToSeat(s) ==
    /\ s.sfc = 5
    /\ trim' = [s EXCEPT !.run = ~s.at[3], !.sfc = IF s.at[3] THEN 6 ELSE 5]

InsertSeat(s) ==
    /\ s.sfc = 6
    /\ trim' = [s EXCEPT !.seat = s.seated < 950, !.sfc = IF s.seated >= 950 THEN 7 ELSE 6]

Inspect(s, in) ==
    LET good == /\ Torque(s, in) \in 430 .. 470
                /\ in.skip \/ (Load(s, in) \in 145 .. 155 /\ ~in.low)
    IN  /\ s.sfc = 7
        /\ trim' = IF ~s.at[4] THEN [s EXCEPT !.run = TRUE]
                   ELSE [s EXCEPT !.run = FALSE, !.pass = good, !.fail = ~good, !.sfc = 8]

\* The verdict is shown until the tick divides by 50.
Show(s, hold) ==
    /\ s.sfc = 8
    /\ trim' = IF hold THEN s
               ELSE [s EXCEPT !.pass = FALSE, !.fail = FALSE, !.pos = 925, !.at[4] = FALSE, !.sfc = 0]

Run(s, in) ==
    IF ~in.auto THEN trim' = [s EXCEPT !.sfc = 0]
    ELSE \/ ToCockpit(s) \/ DockCockpit(s) \/ TightenBolts(s, in) \/ ToGlass(s, in.skip)
         \/ GlueGlass(s, in) \/ ToSeat(s) \/ InsertSeat(s) \/ Inspect(s, in) \/ Show(s, in.hold)

\* Coils are copied in if the switch is in MANUAL for some or all of the copy.
CopyCoils(coils) ==
    [trim EXCEPT !.run = coils.run, !.dock = coils.dock, !.bolt = coils.bolt,
                 !.glue = coils.glue, !.seat = coils.seat]

CycleAuto(in) == in.auto /\ Run(Plant(trim, in), in)

CycleManual(in, coils) == FALSE \in Modes /\ Run(Plant(CopyCoils(coils), in), in)

Cycle ==
    \E in \in Inputs :
        \/ CycleAuto(in)
        \/ \E coils \in Coils : CycleManual(in, coils)

Spec == Init /\ [][Cycle]_trim

\* The scheduler calls config_run__ for ever.
FairSpec == Spec /\ WF_trim(Cycle)
-----------------------------------------------------------------------------
\* "State 3: Transport vehicle to Glass Glue Station" (trim_logic.cpp:291): a
\* body that leaves the cockpit station comes to the glass station.  This is
\* not what the code does.
GlassReached == trim.sfc = 3 ~> trim.sfc = 4
=============================================================================
