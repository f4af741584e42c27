--------------------------- MODULE AssemblyLogic ---------------------------
(***************************************************************************)
(* libassembly_logic: a conveyor brings a chassis to a station, where a    *)
(* robot arm fetches a part and places it.  config_run__ is one action: it *)
(* first simulates the plant under the outputs of the cycle before, then   *)
(* takes one step of the sequence.  Between two cycles PlcLoader copies in *)
(* the mode switch, the light curtain, the holding registers and, in       *)
(* MANUAL, the coils, all of them set by clients (module ScanCycle).       *)
(*                                                                         *)
(* Positions of the arm are in thousandths of their travel, those of the   *)
(* conveyor in 1/50 mm, which is what one unit of speed moves per cycle.   *)
(***************************************************************************)
EXTENDS Naturals

CONSTANTS
    LiftStep, RotateStep, ClampStep,  \* travel per cycle: 40, 33, 100 in the code
    Speeds,                           \* speeds clients write to %MW1
    Modes                             \* what they do to %IX0.0 in one cycle

Steps == 1 .. 1000

ASSUME AssemblyAssumption ==
    /\ LiftStep \in Steps /\ RotateStep \in Steps /\ ClampStep \in Steps
    /\ Speeds \subseteq Nat
    /\ Modes \subseteq {"auto", "manual", "flips"}

VARIABLES
    line,      \* the library's variables
    touched,   \* history: MANUAL in a cycle since the arm was last home and waiting
    cut,       \* history: the curtain was broken in a state that does not recover
    calm       \* the environment: nobody disturbs the line any more

lineVars == <<line, touched, cut, calm>>

Station == 25000
Past == 26250       \* 525 mm
End == 50000
AtStation(p) == p >= Station /\ p < 26000

\* Limit switches (%IX0.3 - %IX0.6), which the plant computes before they are read.
Down(s) == s.lift >= 950
Up(s) == s.lift <= 50
Right(s) == s.rotate >= 950
Left(s) == s.rotate <= 50
Clamped(s) == s.clamp >= 950
Open(s) == s.clamp <= 50
Home(s) == Up(s) /\ Left(s)

\* config_init__: run, lower, grip, turn and done are %QX0.0 - %QX0.4, chassis
\* and part %IX0.1 and %IX0.2.  What is copied in afresh for every cycle is an
\* input of it; %MW0, which only counts, and the lamps are left out.
Start ==
    [run |-> FALSE, lower |-> FALSE, grip |-> FALSE, turn |-> FALSE, done |-> FALSE,
     chassis |-> FALSE, part |-> TRUE, pos |-> 0, lift |-> 0, rotate |-> 0, clamp |-> 0,
     sfc |-> 0]

Init == line = Start /\ touched = FALSE /\ cut = FALSE /\ calm = FALSE

-----------------------------------------------------------------------------
\* What syncInputsToDll brings for one cycle, whatever clients have made of it
\* since the last: mode, curtain, %MW1, %MW2 = 1 and %MW3 = 1.  It reads the mode
\* again before each coil and brings the coil if it then finds MANUAL, which may
\* be so although the logic gets AUTO: the switch "flips".
Inputs == [mode : Modes, curtain : BOOLEAN, speed : Speeds, trigger : BOOLEAN, forced : BOOLEAN]

Coils == [run : BOOLEAN, lower : BOOLEAN, grip : BOOLEAN, turn : BOOLEAN]

CopyCoils(coils) ==
    [line EXCEPT !.run = coils.run, !.lower = coils.lower, !.grip = coils.grip, !.turn = coils.turn]

\* The curtain cuts the drives; the clamp keeps its command.
\* Mutant: the clamp is cut with them.
CutClampToo(s, in) ==
    IF ~in.curtain THEN s
    ELSE [s EXCEPT !.run = FALSE, !.lower = FALSE, !.turn = FALSE, !.done = FALSE, !.grip = FALSE]

CutDrives(s, in) ==
    IF ~in.curtain THEN s
    ELSE [s EXCEPT !.run = FALSE, !.lower = FALSE, !.turn = FALSE, !.done = FALSE]

Convey(s, in) ==
    LET p == s.pos + in.speed
    IN  IF ~s.run THEN s
        ELSE [s EXCEPT !.chassis = AtStation(p),
                       !.pos = IF AtStation(p) THEN Station ELSE IF p >= End THEN 0 ELSE p]

\* One of the arm's three axes.  Mutant: it does not stop at its end.
TravelOn(at, out, step) ==
    IF out THEN at + step ELSE IF at < step THEN 0 ELSE at - step

Travel(at, out, step) ==
    IF out THEN IF at + step > 1000 THEN 1000 ELSE at + step
    ELSE IF at < step THEN 0 ELSE at - step

MoveArm(s) ==
    [s EXCEPT !.lift = Travel(@, s.lower, LiftStep),
              !.rotate = Travel(@, s.turn, RotateStep),
              !.clamp = Travel(@, s.grip, ClampStep)]

\* Parts come when the arm is home, or when %MW3 forces one.
\* Mutant: only then.
SupplyForced(s, in) == [s EXCEPT !.part = @ \/ in.forced]

Supply(s, in) == [s EXCEPT !.part = @ \/ (Home(s) /\ ~s.grip) \/ in.forced]

Plant(s, in) == Supply(MoveArm(Convey(CutDrives(s, in), in)), in)
-----------------------------------------------------------------------------
\* The sequence, one action per state of sfc_state; s is the line after the
\* plant's step.  State 0 waits for the trigger.
Wait(s, in) ==
    /\ s.sfc = 0
    /\ line' = [s EXCEPT !.run = in.trigger, !.lower = FALSE, !.grip = FALSE, !.turn = FALSE,
                         !.done = FALSE, !.chassis = FALSE,
                         !.pos = IF in.trigger THEN 0 ELSE @,
                         !.sfc = IF in.trigger THEN 8 ELSE 0]

Bring(s) ==
    /\ s.sfc = 8
    /\ line' = IF s.pos < Station THEN [s EXCEPT !.run = TRUE]
               ELSE [s EXCEPT !.run = FALSE, !.pos = Station, !.chassis = TRUE,
                              !.sfc = IF s.part THEN 1 ELSE 8]

Fetch(s) ==
    /\ s.sfc = 1
    /\ line' = [s EXCEPT !.lower = TRUE, !.sfc = IF Down(s) THEN 2 ELSE 1]

\* Mutant: the clamp is not waited for.
GripAtOnce(s) ==
    /\ s.sfc = 2
    /\ line' = [s EXCEPT !.grip = TRUE, !.part = FALSE, !.sfc = 3]

Grip(s) ==
    /\ s.sfc = 2
    /\ line' = [s EXCEPT !.grip = TRUE, !.part = @ /\ ~Clamped(s),
                         !.sfc = IF Clamped(s) THEN 3 ELSE 2]

\* Mutant: the arm swings before it is up.
RaiseAndTurn(s) ==
    /\ s.sfc = 3
    /\ line' = [s EXCEPT !.lower = FALSE, !.sfc = 4]

Raise(s) ==
    /\ s.sfc = 3
    /\ line' = [s EXCEPT !.lower = FALSE, !.sfc = IF Up(s) THEN 4 ELSE 3]

\* Mutant: the right limit switch is not waited for.
TurnShort(s) ==
    /\ s.sfc = 4
    /\ line' = [s EXCEPT !.turn = TRUE, !.sfc = 5]

Turn(s) ==
    /\ s.sfc = 4
    /\ line' = [s EXCEPT !.turn = TRUE, !.sfc = IF Right(s) THEN 5 ELSE 4]

Place(s) ==
    /\ s.sfc = 5
    /\ line' = [s EXCEPT !.lower = TRUE, !.sfc = IF Down(s) THEN 6 ELSE 5]

Release(s) ==
    /\ s.sfc = 6
    /\ line' = [s EXCEPT !.grip = FALSE, !.done = @ \/ Open(s), !.sfc = IF Open(s) THEN 7 ELSE 6]

\* Mutant: the next chassis is called for while the arm is still on its way.
ReturnEarly(s) ==
    /\ s.sfc = 7
    /\ line' = [s EXCEPT !.lower = FALSE, !.turn = FALSE, !.pos = Past, !.chassis = FALSE, !.sfc = 0]

Return(s) ==
    /\ s.sfc = 7
    /\ line' = IF Home(s)
               THEN [s EXCEPT !.lower = FALSE, !.turn = FALSE, !.done = FALSE, !.pos = Past,
                              !.chassis = FALSE, !.sfc = 0]
               ELSE [s EXCEPT !.lower = FALSE, !.turn = FALSE]

\* A broken curtain holds the sequence where it is; MANUAL resets it.
Hold(s) == line' = s
Reset(s) == line' = [s EXCEPT !.sfc = 0]

Sequence(s, in) ==
    \/ Wait(s, in) \/ Bring(s) \/ Fetch(s) \/ Grip(s) \/ Raise(s) \/ Turn(s) \/ Place(s)
    \/ Release(s) \/ Return(s)

Run(s, in) ==
    IF in.mode = "manual" THEN Reset(s) ELSE IF in.curtain THEN Hold(s) ELSE Sequence(s, in)

\* The history: a fresh car starts with the arm home in state 0; states 2, 5
\* and 6 do not switch on again what the curtain has cut.
Observe(s, in) ==
    LET auto == in.mode = "auto"
        fresh == auto /\ s.sfc = 0 /\ Home(s)
    IN  /\ touched' = (~auto \/ (touched /\ ~fresh))
        /\ cut' = ((in.curtain /\ s.sfc \in {2, 5, 6}) \/ (cut /\ ~fresh))

\* One call of config_run__ with what was copied in for it.
CycleAuto(in) ==
    LET s == Plant(line, in)
    IN  in.mode = "auto" /\ Run(s, in) /\ Observe(s, in) /\ UNCHANGED calm

CycleManual(in, coils) ==
    LET s == Plant(CopyCoils(coils), in)
    IN  in.mode # "auto" /\ Run(s, in) /\ Observe(s, in) /\ UNCHANGED calm

\* Undisturbed: AUTO, the curtain free, no part forced, and a speed that does
\* not jump the whole conveyor (%MW1 up to 25000 with %MW1 * 0.02 mm a cycle).
Undisturbed(in) == in.mode = "auto" /\ ~in.curtain /\ ~in.forced /\ in.speed \in 1 .. Station

CycleCalm == calm /\ \E in \in Inputs : Undisturbed(in) /\ CycleAuto(in)

Cycle ==
    /\ ~calm
    /\ \E in \in Inputs :
          \/ CycleAuto(in)
          \/ \E coils \in Coils : CycleManual(in, coils)

LeftAlone == ~calm /\ calm' = TRUE /\ UNCHANGED <<line, touched, cut>>

Next == Cycle \/ CycleCalm \/ LeftAlone

Spec == Init /\ [][Next]_lineVars

\* The scheduler calls config_run__ for ever.
FairSpec == Spec /\ WF_lineVars(CycleCalm)
-----------------------------------------------------------------------------
\* Types: the conveyor wraps before its end, and the arm stays in its travel.
Belt == 0 .. End - 1
Stroke == 0 .. 1000
States == 0 .. 8

Lines ==
    [run : BOOLEAN, lower : BOOLEAN, grip : BOOLEAN, turn : BOOLEAN, done : BOOLEAN,
     chassis : BOOLEAN, part : BOOLEAN, pos : Belt, lift : Stroke,
     rotate : Stroke, clamp : Stroke, sfc : States]

TypeOK ==
    /\ line \in Lines
    /\ touched \in BOOLEAN /\ cut \in BOOLEAN /\ calm \in BOOLEAN

\* "State 5: Lift down to place part on chassis" (assembly_logic.cpp:221): the
\* arm lets go of a part only when it is down over the chassis, unless the
\* curtain was broken in one of the three states that do not recover.
PlacedOnChassis ==
    line.sfc = 6 /\ ~touched /\ ~cut => Right(line) /\ Down(line) /\ line.pos = Station

\* "Clamp remains activated to prevent dropping the part!" (line 87): in AUTO
\* the part stays in the gripper from the pick to the release, through any
\* number of broken curtains.
PartHeld ==
    line.sfc \in {3, 4, 5} /\ ~touched => Clamped(line)

\* A loaded arm swings only when it is up (states 3 to 5, assembly_logic.cpp:
\* 205-226): state 3 lifts until the arm is within 5% of its top, 4 turns it until
\* its switch, which leaves 5% to go, and 5 lowers it while it still turns.
SwingsHigh ==
    [][line'.rotate # line.rotate /\ Clamped(line') /\ ~touched' /\ ~cut' => Up(line')]_lineVars

\* The conveyor moves no chassis while the arm is away from home: the sequence
\* starts it with the arm home, through any number of broken curtains.
ChassisMovesAlone ==
    line.run /\ ~touched => Home(line)

\* Whatever operators and the curtain have done in the middle of a car, once
\* they leave the line in AUTO with the curtain free and a speed below the one
\* that jumps the whole conveyor, it comes back to wait for the next chassis.
ComesBack == calm ~> line.sfc = 0
=============================================================================
