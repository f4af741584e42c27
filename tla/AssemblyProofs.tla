-------------------------- MODULE AssemblyProofs --------------------------
(***************************************************************************)
(* Proofs about AssemblyLogic, for every travel, every set of speeds and   *)
(* modes, and whatever clients do: types, and the three safety invariants  *)
(* of the arm; and for travels as the code has them, that a loaded arm     *)
(* swings only when it is up.  What makes them inductive is what each      *)
(* state of the sequence knows of the plant.                               *)
(***************************************************************************)
EXTENDS AssemblyLogic, TLAPS

\* What holds of the line while the switch has stayed in AUTO.
Safe(l) ==
    /\ l.sfc \in {0, 8} => Home(l) /\ ~l.lower /\ ~l.turn
    /\ l.run => l.sfc = 8
    /\ l.sfc \in 1 .. 6 => l.pos = Station
    /\ l.sfc \in {3, 4, 5} => l.grip /\ Clamped(l)

\* What holds besides while the curtain was not broken in states 2, 5 and 6.
Sure(l) ==
    /\ l.sfc = 4 => Up(l) /\ ~l.lower
    /\ l.sfc \in {5, 6} => l.turn /\ Right(l)
    /\ l.sfc = 6 => l.lower /\ Down(l)

IInv ==
    /\ TypeOK
    /\ ~touched => Safe(line)
    /\ ~touched /\ ~cut => Sure(line)
-----------------------------------------------------------------------------
\* An axis stays in its travel, and moves towards its command.
LEMMA TravelIn ==
    ASSUME NEW a \in Stroke, NEW step \in Steps, NEW out
    PROVE  Travel(a, out, step) \in Stroke
BY DEF Travel, Stroke, Steps

Far(x) == x >= 950
Near(x) == x <= 50

LEMMA TravelFar ==
    ASSUME NEW a \in Stroke, NEW step \in Steps, Far(a)
    PROVE  Far(Travel(a, TRUE, step))
BY DEF Travel, Stroke, Steps, Far

LEMMA TravelNear ==
    ASSUME NEW a \in Stroke, NEW step \in Steps, Near(a)
    PROVE  Near(Travel(a, FALSE, step))
BY DEF Travel, Stroke, Steps, Near

\* The conveyor moves forward.
LEMMA BeltPlaces == \A p : p \in Belt <=> p \in Nat /\ p < End
<1>1. End \in Nat
  BY DEF End
<1> QED
  BY <1>1 DEF Belt

LEMMA BeltForward == \A p \in Belt, v \in Nat : p + v \in Nat
BY BeltPlaces

LEMMA BeltWraps ==
    ASSUME NEW p \in Nat
    PROVE  (IF AtStation(p) THEN Station ELSE IF p >= End THEN 0 ELSE p) \in Belt
<1>1. Station \in Nat /\ Station < End /\ 0 < End /\ End \in Nat
  BY DEF Station, End
<1>2. Station \in Belt /\ 0 \in Belt
  BY <1>1, BeltPlaces
<1>3. ~(p >= End) => p \in Belt
  BY <1>1, BeltPlaces
<1> QED
  BY <1>2, <1>3

LEMMA LineFields ==
    ASSUME NEW l \in Lines
    PROVE  /\ l.run \in BOOLEAN /\ l.lower \in BOOLEAN /\ l.grip \in BOOLEAN /\ l.turn \in BOOLEAN
           /\ l.pos \in Belt /\ l.sfc \in States
           /\ l.lift \in Stroke /\ l.rotate \in Stroke /\ l.clamp \in Stroke
BY DEF Lines

\* The stages of the plant's step: what each keeps and what it computes.
LEMMA CutStep ==
    ASSUME NEW l \in Lines, NEW in \in Inputs
    PROVE  LET s == CutDrives(l, in)
           IN  /\ s \in Lines
               /\ s.sfc = l.sfc /\ s.grip = l.grip /\ s.pos = l.pos
               /\ s.lift = l.lift /\ s.rotate = l.rotate /\ s.clamp = l.clamp
               /\ (s.run <=> l.run /\ ~in.curtain)
               /\ (s.lower <=> l.lower /\ ~in.curtain)
               /\ (s.turn <=> l.turn /\ ~in.curtain)
<1> DEFINE s == CutDrives(l, in)
<1>1. CASE in.curtain
  <2>1. s = [l EXCEPT !.run = FALSE, !.lower = FALSE, !.turn = FALSE, !.done = FALSE]
    BY <1>1 DEF CutDrives
  <2> HIDE DEF s
  <2>2. s \in Lines
    BY <2>1, Zenon DEF Lines
  <2>3. /\ s.sfc = l.sfc /\ s.grip = l.grip /\ s.pos = l.pos
        /\ s.lift = l.lift /\ s.rotate = l.rotate /\ s.clamp = l.clamp
        /\ ~s.run /\ ~s.lower /\ ~s.turn
    BY <2>1 DEF Lines
  <2> QED
    BY <1>1, <2>2, <2>3 DEF s
<1>2. CASE ~in.curtain
  BY <1>2 DEF CutDrives
<1> QED
  BY <1>1, <1>2

LEMMA ConveyStep ==
    ASSUME AssemblyAssumption, NEW l \in Lines, NEW in \in Inputs
    PROVE  LET s == Convey(l, in)
           IN  /\ s \in Lines
               /\ s.sfc = l.sfc /\ s.grip = l.grip /\ (s.run <=> l.run)
               /\ (s.lower <=> l.lower) /\ (s.turn <=> l.turn)
               /\ s.lift = l.lift /\ s.rotate = l.rotate /\ s.clamp = l.clamp
               /\ ~l.run => s.pos = l.pos
<1> DEFINE p == l.pos + in.speed
           q == IF AtStation(p) THEN Station ELSE IF p >= End THEN 0 ELSE p
           there == AtStation(p)
<1>1. p \in Nat
  <2>1. l.pos \in Belt
    BY LineFields
  <2>2. in.speed \in Nat
    BY DEF Inputs, AssemblyAssumption
  <2> QED
    BY <2>1, <2>2, BeltForward, Zenon
<1>2. q \in Belt
  <2> HIDE DEF p
  <2> QED
    BY <1>1, BeltWraps
<1>3. there \in BOOLEAN
  BY DEF AtStation
<1>4. Convey(l, in) = IF ~l.run THEN l ELSE [l EXCEPT !.chassis = there, !.pos = q]
  BY DEF Convey
<1> HIDE DEF p, q, there
<1>5. CASE ~l.run
  BY <1>4, <1>5
<1>6. CASE l.run
  <2>1. Convey(l, in) = [l EXCEPT !.chassis = there, !.pos = q]
    BY <1>4, <1>6
  <2>2. Convey(l, in) \in Lines
    BY <1>2, <1>3, <2>1, Zenon DEF Lines
  <2> QED
    BY <1>6, <2>1, <2>2 DEF Lines
<1> QED
  BY <1>5, <1>6

LEMMA ArmStep ==
    ASSUME AssemblyAssumption, NEW l \in Lines
    PROVE  LET s == MoveArm(l)
           IN  /\ s \in Lines
               /\ s.sfc = l.sfc /\ s.grip = l.grip /\ (s.run <=> l.run)
               /\ (s.lower <=> l.lower) /\ (s.turn <=> l.turn) /\ s.pos = l.pos
               /\ s.lift = Travel(l.lift, l.lower, LiftStep)
               /\ s.rotate = Travel(l.rotate, l.turn, RotateStep)
               /\ s.clamp = Travel(l.clamp, l.grip, ClampStep)
<1> DEFINE x == Travel(l.lift, l.lower, LiftStep)
           y == Travel(l.rotate, l.turn, RotateStep)
           z == Travel(l.clamp, l.grip, ClampStep)
<1>1. /\ l.lift \in Stroke /\ l.rotate \in Stroke /\ l.clamp \in Stroke
      /\ l.lower \in BOOLEAN /\ l.turn \in BOOLEAN /\ l.grip \in BOOLEAN
  BY LineFields
<1>2. LiftStep \in Steps /\ RotateStep \in Steps /\ ClampStep \in Steps
  BY DEF AssemblyAssumption
<1>3. x \in Stroke
  BY <1>1, <1>2, TravelIn, Zenon
<1>4. y \in Stroke
  BY <1>1, <1>2, TravelIn, Zenon
<1>5. z \in Stroke
  BY <1>1, <1>2, TravelIn, Zenon
<1>6. MoveArm(l) = [l EXCEPT !.lift = x, !.rotate = y, !.clamp = z]
  BY DEF MoveArm
<1> HIDE DEF x, y, z
<1>7. MoveArm(l) \in Lines
  <2>1. [l EXCEPT !.lift = x, !.rotate = y, !.clamp = z] \in Lines
    BY <1>3, <1>4, <1>5, Zenon DEF Lines
  <2> QED
    BY <1>6, <2>1
<1>8. /\ MoveArm(l).lift = x /\ MoveArm(l).rotate = y /\ MoveArm(l).clamp = z
      /\ MoveArm(l).sfc = l.sfc /\ MoveArm(l).grip = l.grip /\ (MoveArm(l).run <=> l.run)
      /\ (MoveArm(l).lower <=> l.lower) /\ (MoveArm(l).turn <=> l.turn) /\ MoveArm(l).pos = l.pos
  BY <1>6 DEF Lines
<1> QED
  BY <1>7, <1>8 DEF x, y, z

LEMMA SupplyStep ==
    ASSUME NEW l \in Lines, NEW in \in Inputs
    PROVE  LET s == Supply(l, in)
           IN  /\ s \in Lines
               /\ s.sfc = l.sfc /\ s.grip = l.grip /\ (s.run <=> l.run)
               /\ (s.lower <=> l.lower) /\ (s.turn <=> l.turn) /\ s.pos = l.pos
               /\ s.lift = l.lift /\ s.rotate = l.rotate /\ s.clamp = l.clamp
<1> DEFINE b == l.part \/ (Home(l) /\ ~l.grip) \/ in.forced
<1>1. b \in BOOLEAN
  OBVIOUS
<1>2. Supply(l, in) = [l EXCEPT !.part = b]
  BY DEF Supply
<1> HIDE DEF b
<1> QED
  BY <1>1, <1>2 DEF Lines

\* What the plant's step does to the line.
LEMMA PlantStep ==
    ASSUME AssemblyAssumption, NEW l \in Lines, NEW in \in Inputs
    PROVE  LET s == Plant(l, in)
           IN  /\ s \in Lines
               /\ s.sfc = l.sfc /\ s.grip = l.grip
               /\ (s.run <=> l.run /\ ~in.curtain)
               /\ (s.lower <=> l.lower /\ ~in.curtain)
               /\ (s.turn <=> l.turn /\ ~in.curtain)
               /\ ~s.run => s.pos = l.pos
               /\ s.lift = Travel(l.lift, s.lower, LiftStep)
               /\ s.rotate = Travel(l.rotate, s.turn, RotateStep)
               /\ s.clamp = Travel(l.clamp, s.grip, ClampStep)
<1> DEFINE c == CutDrives(l, in)
           v == Convey(c, in)
           a == MoveArm(v)
           s == Supply(a, in)
<1>1. /\ c \in Lines
      /\ c.sfc = l.sfc /\ c.grip = l.grip /\ c.pos = l.pos
      /\ c.lift = l.lift /\ c.rotate = l.rotate /\ c.clamp = l.clamp
      /\ (c.run <=> l.run /\ ~in.curtain)
      /\ (c.lower <=> l.lower /\ ~in.curtain)
      /\ (c.turn <=> l.turn /\ ~in.curtain)
  BY CutStep
<1> HIDE DEF c
<1>2. /\ v \in Lines
      /\ v.sfc = c.sfc /\ v.grip = c.grip /\ (v.run <=> c.run)
      /\ (v.lower <=> c.lower) /\ (v.turn <=> c.turn)
      /\ v.lift = c.lift /\ v.rotate = c.rotate /\ v.clamp = c.clamp
      /\ ~c.run => v.pos = c.pos
  BY <1>1, ConveyStep
<1> HIDE DEF v
<1>3. /\ a \in Lines
      /\ a.sfc = v.sfc /\ a.grip = v.grip /\ (a.run <=> v.run)
      /\ (a.lower <=> v.lower) /\ (a.turn <=> v.turn) /\ a.pos = v.pos
      /\ a.lift = Travel(v.lift, v.lower, LiftStep)
      /\ a.rotate = Travel(v.rotate, v.turn, RotateStep)
      /\ a.clamp = Travel(v.clamp, v.grip, ClampStep)
  BY <1>2, ArmStep
<1> HIDE DEF a
<1>4. /\ s \in Lines
      /\ s.sfc = a.sfc /\ s.grip = a.grip /\ (s.run <=> a.run)
      /\ (s.lower <=> a.lower) /\ (s.turn <=> a.turn) /\ s.pos = a.pos
      /\ s.lift = a.lift /\ s.rotate = a.rotate /\ s.clamp = a.clamp
  BY <1>3, SupplyStep
<1>5. Plant(l, in) = s
  BY DEF Plant, c, v, a
<1> HIDE DEF s
<1>6. s.lower = v.lower /\ s.turn = v.turn /\ s.grip = v.grip
  BY <1>2, <1>3, <1>4 DEF Lines
<1> QED
  BY <1>1, <1>2, <1>3, <1>4, <1>5, <1>6

-----------------------------------------------------------------------------
\* The limit switches that hold before the plant's step and their commands
\* give those that hold after it.
LEMMA PlantSwitches ==
    ASSUME AssemblyAssumption, NEW l \in Lines, NEW in \in Inputs
    PROVE  LET s == Plant(l, in)
           IN  /\ s.lower /\ Down(l) => Down(s)
               /\ ~s.lower /\ Up(l) => Up(s)
               /\ s.turn /\ Right(l) => Right(s)
               /\ ~s.turn /\ Left(l) => Left(s)
               /\ s.grip /\ Clamped(l) => Clamped(s)
<1> DEFINE s == Plant(l, in)
<1>1. /\ l.lift \in Stroke /\ l.rotate \in Stroke /\ l.clamp \in Stroke
      /\ LiftStep \in Steps /\ RotateStep \in Steps /\ ClampStep \in Steps
      /\ s.lower \in BOOLEAN /\ s.turn \in BOOLEAN /\ s.grip \in BOOLEAN
  BY LineFields, PlantStep DEF AssemblyAssumption
<1>2. /\ s.lift = Travel(l.lift, s.lower, LiftStep)
      /\ s.rotate = Travel(l.rotate, s.turn, RotateStep)
      /\ s.clamp = Travel(l.clamp, s.grip, ClampStep)
  BY PlantStep
<1> HIDE DEF s
<1>3. ASSUME s.lower, Down(l)
      PROVE  Down(s)
  <2>1. Far(l.lift)
    BY <1>3 DEF Down, Far
  <2>2. Far(Travel(l.lift, TRUE, LiftStep))
    BY <1>1, <2>1, TravelFar, Zenon
  <2>3. s.lower = TRUE
    BY <1>1, <1>3
  <2>4. Far(s.lift)
    BY <1>2, <2>2, <2>3
  <2> QED
    BY <2>4 DEF Down, Far
<1>4. ASSUME ~s.lower, Up(l)
      PROVE  Up(s)
  <2>1. Near(l.lift)
    BY <1>4 DEF Up, Near
  <2>2. Near(Travel(l.lift, FALSE, LiftStep))
    BY <1>1, <2>1, TravelNear, Zenon
  <2>3. s.lower = FALSE
    BY <1>1, <1>4
  <2>4. Near(s.lift)
    BY <1>2, <2>2, <2>3
  <2> QED
    BY <2>4 DEF Up, Near
<1>5. ASSUME s.turn, Right(l)
      PROVE  Right(s)
  <2>1. Far(l.rotate)
    BY <1>5 DEF Right, Far
  <2>2. Far(Travel(l.rotate, TRUE, RotateStep))
    BY <1>1, <2>1, TravelFar, Zenon
  <2>3. s.turn = TRUE
    BY <1>1, <1>5
  <2>4. Far(s.rotate)
    BY <1>2, <2>2, <2>3
  <2> QED
    BY <2>4 DEF Right, Far
<1>6. ASSUME ~s.turn, Left(l)
      PROVE  Left(s)
  <2>1. Near(l.rotate)
    BY <1>6 DEF Left, Near
  <2>2. Near(Travel(l.rotate, FALSE, RotateStep))
    BY <1>1, <2>1, TravelNear, Zenon
  <2>3. s.turn = FALSE
    BY <1>1, <1>6
  <2>4. Near(s.rotate)
    BY <1>2, <2>2, <2>3
  <2> QED
    BY <2>4 DEF Left, Near
<1>7. ASSUME s.grip, Clamped(l)
      PROVE  Clamped(s)
  <2>1. Far(l.clamp)
    BY <1>7 DEF Clamped, Far
  <2>2. Far(Travel(l.clamp, TRUE, ClampStep))
    BY <1>1, <2>1, TravelFar, Zenon
  <2>3. s.grip = TRUE
    BY <1>1, <1>7
  <2>4. Far(s.clamp)
    BY <1>2, <2>2, <2>3
  <2> QED
    BY <2>4 DEF Clamped, Far
<1> QED
  BY <1>3, <1>4, <1>5, <1>6, <1>7 DEF s

\* The plant's step keeps what the sequence knows of it, with a broken
\* curtain too; what a state is sure of, unless the curtain is broken in it.
LEMMA PlantKeeps ==
    ASSUME AssemblyAssumption, NEW l \in Lines, NEW in \in Inputs, Safe(l)
    PROVE  LET s == Plant(l, in)
           IN  /\ Safe(s)
               /\ Sure(l) /\ ~(in.curtain /\ s.sfc \in {2, 5, 6}) => Sure(s)
<1> DEFINE s == Plant(l, in)
<1>1. /\ s \in Lines
      /\ s.sfc = l.sfc /\ s.grip = l.grip
      /\ (s.run <=> l.run /\ ~in.curtain)
      /\ (s.lower <=> l.lower /\ ~in.curtain)
      /\ (s.turn <=> l.turn /\ ~in.curtain)
      /\ ~s.run => s.pos = l.pos
  BY PlantStep
<1>2. /\ s.lower /\ Down(l) => Down(s)
      /\ ~s.lower /\ Up(l) => Up(s)
      /\ s.turn /\ Right(l) => Right(s)
      /\ ~s.turn /\ Left(l) => Left(s)
      /\ s.grip /\ Clamped(l) => Clamped(s)
  BY PlantSwitches
<1> HIDE DEF s
<1>3. Safe(s)
  BY <1>1, <1>2 DEF Safe, Home
<1>4. ASSUME Sure(l), ~(in.curtain /\ s.sfc \in {2, 5, 6})
      PROVE  Sure(s)
  BY <1>1, <1>2, <1>4 DEF Sure
<1> QED
  BY <1>3, <1>4 DEF s
-----------------------------------------------------------------------------
\* The sequence stays within the types ...
LEMMA SequenceTypes ==
    ASSUME NEW s \in Lines, NEW in \in Inputs, Sequence(s, in)
    PROVE  line' \in Lines
<1>1. {0, 1, 2, 3, 4, 5, 6, 7, 8} \subseteq States /\ 0 \in Belt /\ Station \in Belt /\ Past \in Belt
  BY DEF States, Belt, End, Station, Past
<1>2. CASE Wait(s, in)
  <2>1. in.trigger \in BOOLEAN
    BY DEF Inputs
  <2>2. /\ (IF in.trigger THEN 0 ELSE s.pos) \in Belt
        /\ (IF in.trigger THEN 8 ELSE 0) \in States
    BY <1>1, LineFields
  <2> QED
    BY <1>2, <2>1, <2>2, Zenon DEF Wait, Lines
<1>3. CASE Bring(s)
  BY <1>1, <1>3, Zenon DEF Bring, Lines
<1>4. CASE Fetch(s)
  BY <1>1, <1>4, Zenon DEF Fetch, Lines
<1>5. CASE Grip(s)
  BY <1>1, <1>5, Zenon DEF Grip, Lines
<1>6. CASE Raise(s)
  BY <1>1, <1>6, Zenon DEF Raise, Lines
<1>7. CASE Turn(s)
  BY <1>1, <1>7, Zenon DEF Turn, Lines
<1>8. CASE Place(s)
  BY <1>1, <1>8, Zenon DEF Place, Lines
<1>9. CASE Release(s)
  BY <1>1, <1>9, Zenon DEF Release, Lines
<1>10. CASE Return(s)
  BY <1>1, <1>10, Zenon DEF Return, Lines
<1> QED
  BY <1>2, <1>3, <1>4, <1>5, <1>6, <1>7, <1>8, <1>9, <1>10 DEF Sequence

\* ... and hands what it knows from state to state.
LEMMA SequenceKeeps ==
    ASSUME NEW s \in Lines, NEW in \in Inputs, Sequence(s, in), Safe(s)
    PROVE  Safe(line') /\ (Sure(s) => Sure(line'))
<1>1. CASE Wait(s, in)
  BY <1>1 DEF Wait, Lines, Safe, Sure, Home, Up, Left, Right, Down, Clamped
<1>2. CASE Bring(s)
  BY <1>2 DEF Bring, Lines, Safe, Sure, Home, Up, Left, Right, Down, Clamped
<1>3. CASE Fetch(s)
  BY <1>3 DEF Fetch, Lines, Safe, Sure, Home, Up, Left, Right, Down, Clamped
<1>4. CASE Grip(s)
  BY <1>4 DEF Grip, Lines, Safe, Sure, Home, Up, Left, Right, Down, Clamped
<1>5. CASE Raise(s)
  BY <1>5 DEF Raise, Lines, Safe, Sure, Home, Up, Left, Right, Down, Clamped
<1>6. CASE Turn(s)
  BY <1>6 DEF Turn, Lines, Safe, Sure, Home, Up, Left, Right, Down, Clamped
<1>7. CASE Place(s)
  BY <1>7 DEF Place, Lines, Safe, Sure, Home, Up, Left, Right, Down, Clamped
<1>8. CASE Release(s)
  BY <1>8 DEF Release, Lines, Safe, Sure, Home, Up, Left, Right, Down, Clamped
<1>9. CASE Return(s)
  BY <1>9 DEF Return, Lines, Safe, Sure, Home, Up, Left, Right, Down, Clamped
<1> QED
  BY <1>1, <1>2, <1>3, <1>4, <1>5, <1>6, <1>7, <1>8, <1>9 DEF Sequence

-----------------------------------------------------------------------------
\* A cycle keeps the types, in AUTO and in MANUAL.
LEMMA RunTypes ==
    ASSUME NEW s \in Lines, NEW in \in Inputs, Run(s, in)
    PROVE  line' \in Lines
<1>1. CASE in.mode = "manual"
  <2>1. line' = [s EXCEPT !.sfc = 0] /\ 0 \in States
    BY <1>1 DEF Run, Reset, States
  <2> QED
    BY <2>1, Zenon DEF Lines
<1>2. CASE in.mode # "manual" /\ in.curtain
  BY <1>2 DEF Run, Hold
<1>3. CASE in.mode # "manual" /\ ~in.curtain
  BY <1>3, SequenceTypes DEF Run
<1> QED
  BY <1>1, <1>2, <1>3

LEMMA CoilsTypes ==
    ASSUME line \in Lines, NEW coils \in Coils
    PROVE  CopyCoils(coils) \in Lines
<1>1. /\ coils.run \in BOOLEAN /\ coils.lower \in BOOLEAN
      /\ coils.grip \in BOOLEAN /\ coils.turn \in BOOLEAN
  BY DEF Coils
<1> QED
  BY <1>1, Zenon DEF CopyCoils, Lines

\* A cycle in AUTO: the plant, then the sequence, and what the history makes of
\* it.
LEMMA AutoKeeps ==
    ASSUME AssemblyAssumption, IInv, NEW in \in Inputs, CycleAuto(in)
    PROVE  IInv'
<1> DEFINE s == Plant(line, in)
           fresh == s.sfc = 0 /\ Home(s)
<1>1. /\ in.mode = "auto" /\ Run(s, in) /\ calm' = calm
      /\ touched' = (touched /\ ~fresh)
      /\ cut' = ((in.curtain /\ s.sfc \in {2, 5, 6}) \/ (cut /\ ~fresh))
  BY Zenon DEF CycleAuto, Observe
<1>2. /\ line \in Lines /\ touched \in BOOLEAN /\ cut \in BOOLEAN /\ calm \in BOOLEAN
  BY DEF IInv, TypeOK
<1>3. s \in Lines
  BY <1>2, PlantStep
<1>4. in.curtain => ~s.run /\ ~s.lower /\ ~s.turn
  BY <1>2, PlantStep
<1>5. ~touched => Safe(s)
  BY <1>2, PlantKeeps DEF IInv
<1>6. ~touched /\ ~cut /\ ~(in.curtain /\ s.sfc \in {2, 5, 6}) => Sure(s)
  BY <1>2, PlantKeeps DEF IInv
<1> HIDE DEF s
<1>7. line' \in Lines
  BY <1>1, <1>3, RunTypes
<1>8. TypeOK'
  BY <1>1, <1>2, <1>7 DEF TypeOK
<1>9. CASE in.curtain
  <2>1. line' = s
    BY <1>1, <1>9 DEF Run, Hold
  <2>2. fresh => Safe(s) /\ Sure(s)
    BY <1>4, <1>9 DEF Safe, Sure
  <2>3. ~touched' => Safe(line')
    BY <1>1, <1>5, <2>1, <2>2
  <2>4. ~touched' /\ ~cut' => Sure(line')
    BY <1>1, <1>5, <1>6, <1>9, <2>1, <2>2 DEF Sure
  <2> QED
    BY <1>8, <2>3, <2>4 DEF IInv
<1>10. CASE ~in.curtain
  <2>1. Sequence(s, in)
    BY <1>1, <1>10 DEF Run
  <2>2. fresh => Safe(line') /\ Sure(line')
    <3>1. fresh => Wait(s, in)
      BY <2>1 DEF Sequence, Wait, Bring, Fetch, Grip, Raise, Turn, Place, Release, Return
    <3>2. Wait(s, in) => /\ line'.lift = s.lift /\ line'.rotate = s.rotate
                         /\ ~line'.lower /\ ~line'.turn
                         /\ line'.sfc \in {0, 8} /\ (line'.run => line'.sfc = 8)
      BY <1>3 DEF Wait, Lines
    <3> QED
      BY <3>1, <3>2 DEF Safe, Sure, Home, Up, Left
  <2>3. ~touched => Safe(line') /\ (Sure(s) => Sure(line'))
    BY <1>3, <1>5, <2>1, SequenceKeeps
  <2>4. ~touched' => Safe(line')
    BY <1>1, <2>2, <2>3
  <2>5. ~touched' /\ ~cut' => Sure(line')
    <3>1. CASE fresh
      BY <2>2, <3>1
    <3>2. CASE ~fresh
      BY <1>1, <1>2, <1>6, <1>10, <2>3, <3>2
    <3> QED
      BY <3>1, <3>2
  <2> QED
    BY <1>8, <2>4, <2>5 DEF IInv
<1> QED
  BY <1>9, <1>10

\* A cycle with the switch in MANUAL: types, and the history says so.
LEMMA ManualKeeps ==
    ASSUME AssemblyAssumption, IInv, NEW in \in Inputs, NEW coils \in Coils,
           CycleManual(in, coils)
    PROVE  IInv'
<1> DEFINE s == Plant(CopyCoils(coils), in)
<1>1. /\ line \in Lines /\ cut \in BOOLEAN /\ calm \in BOOLEAN
  BY DEF IInv, TypeOK
<1>2. s \in Lines
  BY <1>1, CoilsTypes, PlantStep
<1>3. Run(s, in) /\ calm' = calm /\ touched' = TRUE /\ cut' \in BOOLEAN
  BY Zenon DEF CycleManual, Observe
<1> HIDE DEF s
<1>4. line' \in Lines
  BY <1>2, <1>3, RunTypes
<1> QED
  BY <1>1, <1>3, <1>4 DEF IInv, TypeOK

LEMMA InvInit == ASSUME AssemblyAssumption, Init PROVE IInv
<1>1. 0 \in Stroke /\ 0 \in Belt /\ 0 \in States
  BY DEF Stroke, Belt, States, End
<1>2. Start \in Lines
  BY <1>1, Zenon DEF Start, Lines
<1>3. Safe(Start) /\ Sure(Start)
  BY DEF Start, Safe, Sure, Home, Up, Left
<1> QED
  BY <1>2, <1>3 DEF Init, IInv, TypeOK

LEMMA InvNext == ASSUME AssemblyAssumption, IInv, [Next]_lineVars PROVE IInv'
<1>1. CASE Cycle
  <2>1. ASSUME NEW in \in Inputs, CycleAuto(in)
        PROVE  IInv'
    BY <2>1, AutoKeeps
  <2>2. ASSUME NEW in \in Inputs, NEW coils \in Coils, CycleManual(in, coils)
        PROVE  IInv'
    BY <2>2, ManualKeeps
  <2> QED
    BY <1>1, <2>1, <2>2 DEF Cycle
<1>2. CASE CycleCalm
  BY <1>2, AutoKeeps DEF CycleCalm
<1>3. CASE LeftAlone
  BY <1>3 DEF LeftAlone, IInv, TypeOK
<1>4. CASE UNCHANGED lineVars
  BY <1>4 DEF lineVars, IInv, TypeOK
<1> QED
  BY <1>1, <1>2, <1>3, <1>4 DEF Next

THEOREM AssemblyInv == Spec => []IInv
<1>1. Init => IInv
  BY AssemblyAssumption, InvInit
<1>2. IInv /\ [Next]_lineVars => IInv'
  BY AssemblyAssumption, InvNext
<1> QED
  BY <1>1, <1>2, PTL DEF Spec

\* The conveyor's position and the arm's axes never leave their travel, for any
\* speed register and any step.
THEOREM AssemblyTyping == Spec => []TypeOK
BY AssemblyInv, PTL DEF IInv

\* The arm lets go of a part only over the chassis, for every travel time,
\* speed and moment at which the curtain is broken outside states 2, 5 and 6.
THEOREM AssemblyPlaced == Spec => []PlacedOnChassis
<1>1. IInv => PlacedOnChassis
  BY DEF IInv, Safe, Sure, PlacedOnChassis
<1> QED
  BY <1>1, AssemblyInv, PTL

\* The clamp never loses its part between pick and release, for any number of
\* broken curtains.
THEOREM AssemblyHeld == Spec => []PartHeld
<1>1. IInv => PartHeld
  BY DEF IInv, Safe, PartHeld
<1> QED
  BY <1>1, AssemblyInv, PTL

\* The conveyor never moves a chassis under an arm that is away from home.
THEOREM AssemblyAlone == Spec => []ChassisMovesAlone
<1>1. IInv => ChassisMovesAlone
  BY DEF IInv, Safe, ChassisMovesAlone
<1> QED
  BY <1>1, AssemblyInv, PTL
-----------------------------------------------------------------------------
\* Whether a loaded arm swings low is a matter of the steps: it is still on its
\* last 50 thousandths when Right lets the sequence go on, and Place lowers it
\* one cycle later.  The code's 33 and 40 are in the second case.
Timing == RotateStep >= 50 \/ (RotateStep >= 25 /\ LiftStep <= 50)

\* In range for the next step: the arm comes home with it; the lift is still up
\* after it, or the arm needs only one; the arm arrives with it, or has arrived.
Close(r) == r <= RotateStep
Early(x) == RotateStep >= 50 \/ x + LiftStep <= 50
Ended(r) == r = 1000
Turned(r, x) == Ended(r) \/ (r >= 975 /\ x + LiftStep <= 50)

\* What holds besides Sure when a cycle begins, and after the plant's step.
Poised(l) ==
    /\ l.sfc \in {1, 2, 3} => ~l.turn
    /\ l.sfc = 1 => l.rotate = 0 \/ (Close(l.rotate) /\ Up(l) /\ ~l.lower)
    /\ l.sfc \in {2, 3} => l.rotate = 0
    /\ l.sfc = 5 => IF l.lower THEN Turned(l.rotate, l.lift) ELSE Up(l) /\ Early(l.lift)
    /\ l.sfc = 6 => Ended(l.rotate)
    /\ l.sfc = 7 => ~l.grip /\ Open(l)

Settled(s) ==
    /\ s.sfc \in {0, 8} => Close(s.rotate)
    /\ s.sfc \in {1, 2, 3} => ~s.turn /\ s.rotate = 0
    /\ s.sfc = 4 => Early(s.lift)
    /\ s.sfc = 5 => Turned(s.rotate, s.lift) /\ (Down(s) => Ended(s.rotate))
    /\ s.sfc = 6 => Ended(s.rotate)
    /\ s.sfc = 7 => ~s.grip /\ Open(s)

\* The arm on its way home, and at it.
LEMMA ArmHome ==
    ASSUME AssemblyAssumption, Timing, NEW r \in Stroke
    PROVE  /\ Near(r) => Close(Travel(r, FALSE, RotateStep))
           /\ r = 0 \/ Close(r) => Travel(r, FALSE, RotateStep) = 0
BY DEF AssemblyAssumption, Timing, Near, Close, Travel, Stroke, Steps

\* The lift on its way up is early after one step, and not down.
LEMMA LiftEarly ==
    ASSUME AssemblyAssumption, Timing, NEW x \in Stroke, Near(x)
    PROVE  Early(Travel(x, FALSE, LiftStep)) /\ ~Far(Travel(x, FALSE, LiftStep))
BY DEF AssemblyAssumption, Timing, Near, Far, Early, Travel, Stroke, Steps

\* The arm past its switch: the last step but one, the last, and at its end.
LEMMA ArmTurns ==
    ASSUME AssemblyAssumption, Timing, NEW r \in Stroke, NEW x \in Stroke
    PROVE  /\ Far(r) /\ Near(x) /\ Early(x) =>
                Turned(Travel(r, TRUE, RotateStep), Travel(x, FALSE, LiftStep))
           /\ Turned(r, x) =>
                /\ Ended(Travel(r, TRUE, RotateStep))
                /\ Ended(r) \/ Near(Travel(x, TRUE, LiftStep))
BY DEF AssemblyAssumption, Timing, Near, Far, Early, Ended, Turned, Travel, Stroke, Steps

LEMMA EndIsTurned == \A r, x : Ended(r) => Turned(r, x)
BY DEF Turned

LEMMA OneEnd == \A r, q : Ended(r) /\ Ended(q) => r = q
BY DEF Ended

\* The switches, of the axes' numbers.
LEMMA Switches ==
    \A l : /\ Up(l) <=> Near(l.lift)
           /\ Down(l) <=> Far(l.lift)
           /\ Left(l) <=> Near(l.rotate)
           /\ Right(l) <=> Far(l.rotate)
           /\ Open(l) <=> Near(l.clamp)
           /\ Clamped(l) <=> Far(l.clamp)
BY DEF Up, Down, Left, Right, Open, Clamped, Near, Far

LEMMA NearNotFar == \A x \in Stroke : Near(x) => ~Far(x)
BY DEF Near, Far, Stroke

\* A gripper that is open and commanded to be so stays open.
LEMMA OpenStays ==
    ASSUME AssemblyAssumption, NEW l \in Lines, NEW in \in Inputs, ~l.grip, Open(l)
    PROVE  Open(Plant(l, in))
<1> DEFINE s == Plant(l, in)
<1>1. /\ s.grip = l.grip /\ s.clamp = Travel(l.clamp, s.grip, ClampStep)
      /\ l.grip \in BOOLEAN /\ l.clamp \in Stroke /\ ClampStep \in Steps
    BY PlantStep, LineFields DEF AssemblyAssumption
<1> HIDE DEF s
<1>2. s.grip = FALSE
    BY <1>1
<1>3. Near(l.clamp)
    BY Switches
<1>4. Near(Travel(l.clamp, FALSE, ClampStep))
    BY <1>1, <1>3, TravelNear, Zenon
<1>5. Near(s.clamp)
    BY <1>1, <1>2, <1>4
<1> QED
    BY <1>5, Switches DEF s

\* The plant's step: a loaded arm that swings is up, and the sequence finds the
\* arm settled.
LEMMA PlantSettles ==
    ASSUME AssemblyAssumption, Timing, NEW l \in Lines, NEW in \in Inputs,
           Safe(l), Sure(l), Poised(l), ~(in.curtain /\ l.sfc \in {2, 5, 6})
    PROVE  LET s == Plant(l, in)
           IN  /\ Settled(s)
               /\ s.rotate # l.rotate /\ Clamped(s) => Up(s)
<1> DEFINE s == Plant(l, in)
           Good == Settled(s) /\ (s.rotate # l.rotate /\ Clamped(s) => Up(s))
<1>1. /\ l.lift \in Stroke /\ l.rotate \in Stroke /\ s.clamp \in Stroke /\ l.sfc \in States
      /\ s.lower \in BOOLEAN /\ s.turn \in BOOLEAN
    BY LineFields, PlantStep
<1>2. /\ s.sfc = l.sfc /\ s.grip = l.grip
      /\ (s.lower <=> l.lower /\ ~in.curtain) /\ (s.turn <=> l.turn /\ ~in.curtain)
    BY PlantStep
<1>3. /\ s.lift = Travel(l.lift, s.lower, LiftStep)
      /\ s.rotate = Travel(l.rotate, s.turn, RotateStep)
    BY PlantStep
<1>4. ~s.lower /\ Up(l) => Up(s)
    BY PlantSwitches
<1>5. l.sfc = 7 => Open(s)
    BY OpenStays DEF Poised
<1> HIDE DEF s
<1>6. /\ s.lower => s.lift = Travel(l.lift, TRUE, LiftStep)
      /\ ~s.lower => s.lift = Travel(l.lift, FALSE, LiftStep)
      /\ s.turn => s.rotate = Travel(l.rotate, TRUE, RotateStep)
      /\ ~s.turn => s.rotate = Travel(l.rotate, FALSE, RotateStep)
    <2>1. /\ s.lower => s.lower = TRUE
          /\ ~s.lower => s.lower = FALSE
          /\ s.turn => s.turn = TRUE
          /\ ~s.turn => s.turn = FALSE
        BY <1>1
    <2> QED
        BY <1>3, <2>1
<1>7. ASSUME l.sfc \in {0, 8}
      PROVE  Good
    <2>1. ~s.turn /\ ~s.lower /\ Near(l.rotate) /\ Up(l)
        BY <1>2, <1>7, Switches DEF Safe, Home
    <2>2. Close(s.rotate) /\ Up(s)
        BY <1>1, <1>4, <1>6, <2>1, ArmHome
    <2> QED
        BY <1>2, <1>7, <2>2 DEF Settled
<1>8. ASSUME l.sfc \in {1, 2, 3}
      PROVE  Good
    <2>1. ~s.turn /\ (l.rotate = 0 \/ (Close(l.rotate) /\ Up(l) /\ ~s.lower))
        BY <1>2, <1>8 DEF Poised
    <2>2. s.rotate = 0
        BY <1>1, <1>6, <2>1, ArmHome
    <2> QED
        BY <1>2, <1>4, <1>8, <2>1, <2>2 DEF Settled
<1>9. ASSUME l.sfc = 4
      PROVE  Good
    <2>1. ~s.lower /\ Up(l) /\ Near(l.lift)
        BY <1>2, <1>9, Switches DEF Sure
    <2>2. Early(s.lift)
        BY <1>1, <1>6, <2>1, LiftEarly
    <2> QED
        BY <1>2, <1>4, <1>9, <2>1, <2>2 DEF Settled
<1>10. ASSUME l.sfc = 5 /\ ~l.lower
      PROVE  Good
    <2>1. s.turn /\ ~s.lower /\ Far(l.rotate) /\ Near(l.lift) /\ Up(l) /\ Early(l.lift)
        BY <1>2, <1>10, Switches DEF Sure, Poised
    <2>2. Turned(Travel(l.rotate, TRUE, RotateStep), Travel(l.lift, FALSE, LiftStep))
        BY <1>1, <2>1, ArmTurns, Zenon
    <2>3. ~Far(Travel(l.lift, FALSE, LiftStep))
        BY <1>1, <2>1, LiftEarly, Zenon
    <2>4. Turned(s.rotate, s.lift) /\ ~Far(s.lift)
        BY <1>6, <2>1, <2>2, <2>3
    <2>5. ~Down(s) /\ Up(s)
        BY <1>4, <2>1, <2>4, Switches
    <2> QED
        BY <1>2, <1>10, <2>4, <2>5 DEF Settled
<1>11. ASSUME l.sfc = 5 /\ l.lower
      PROVE  Good
    <2>1. s.turn /\ s.lower /\ Turned(l.rotate, l.lift)
        BY <1>2, <1>11 DEF Sure, Poised
    <2>2. /\ Ended(Travel(l.rotate, TRUE, RotateStep))
          /\ Ended(l.rotate) \/ Near(Travel(l.lift, TRUE, LiftStep))
        BY <1>1, <2>1, ArmTurns, Zenon
    <2>3. Ended(s.rotate) /\ (Ended(l.rotate) \/ Near(s.lift))
        BY <1>6, <2>1, <2>2
    <2>4. Turned(s.rotate, s.lift) /\ (l.rotate = s.rotate \/ Up(s))
        BY <2>3, EndIsTurned, OneEnd, Switches, Zenon
    <2> QED
        BY <1>2, <1>11, <2>3, <2>4 DEF Settled
<1>12. ASSUME l.sfc = 6
      PROVE  Good
    <2>1. s.turn /\ Ended(l.rotate)
        BY <1>2, <1>12 DEF Sure, Poised
    <2>2. Turned(l.rotate, l.lift)
        BY <2>1, EndIsTurned
    <2>3. Ended(Travel(l.rotate, TRUE, RotateStep))
        BY <1>1, <2>2, ArmTurns, Zenon
    <2>4. Ended(s.rotate) /\ s.rotate = l.rotate
        BY <1>6, <2>1, <2>3, OneEnd
    <2> QED
        BY <1>2, <1>12, <2>4 DEF Settled
<1>13. ASSUME l.sfc = 7
      PROVE  Good
    <2>1. ~s.grip /\ Open(s)
        BY <1>2, <1>5, <1>13 DEF Poised
    <2>2. ~Clamped(s)
        BY <1>1, <2>1, Switches, NearNotFar
    <2> QED
        BY <1>2, <1>13, <2>1, <2>2 DEF Settled
<1> QED
    <2>1. l.sfc \in {0, 1, 2, 3, 4, 5, 6, 7, 8}
        BY <1>1 DEF States
    <2>2. Good
        BY <2>1, <1>7, <1>8, <1>9, <1>10, <1>11, <1>12, <1>13
    <2> QED
        BY <2>2 DEF s

\* The sequence moves no axis.
LEMMA AxesKept ==
    ASSUME NEW s \in Lines, NEW in \in Inputs, in.mode = "auto", Run(s, in)
    PROVE  line'.lift = s.lift /\ line'.rotate = s.rotate /\ line'.clamp = s.clamp
<1>1. CASE in.curtain
    BY <1>1 DEF Run, Hold
<1>2. CASE ~in.curtain
    BY <1>2 DEF Run, Sequence, Wait, Bring, Fetch, Grip, Raise, Turn, Place, Release, Return, Lines
<1> QED
    BY <1>1, <1>2

\* It hands the next cycle a poised arm; so does a held sequence.
LEMMA SequencePoises ==
    ASSUME NEW s \in Lines, NEW in \in Inputs, Sequence(s, in), Safe(s), Sure(s), Settled(s)
    PROVE  Poised(line')
<1>1. CASE Wait(s, in)
    <2>1. line'.sfc \in {0, 8}
        BY <1>1 DEF Wait, Lines
    <2> QED
        BY <2>1 DEF Poised
<1>2. CASE Bring(s)
    <2>1. /\ line'.sfc \in {1, 8} /\ line'.rotate = s.rotate /\ line'.lift = s.lift
          /\ line'.turn = s.turn /\ line'.lower = s.lower /\ s.sfc = 8
        BY <1>2 DEF Bring, Lines
    <2> QED
        BY <2>1, Switches DEF Poised, Settled, Safe, Home
<1>3. CASE Fetch(s)
    <2>1. /\ line'.sfc \in {1, 2} /\ line'.rotate = s.rotate /\ line'.turn = s.turn /\ s.sfc = 1
        BY <1>3 DEF Fetch, Lines
    <2> QED
        BY <2>1 DEF Poised, Settled
<1>4. CASE Grip(s)
    <2>1. /\ line'.sfc \in {2, 3} /\ line'.rotate = s.rotate /\ line'.turn = s.turn /\ s.sfc = 2
        BY <1>4 DEF Grip, Lines
    <2> QED
        BY <2>1 DEF Poised, Settled
<1>5. CASE Raise(s)
    <2>1. /\ line'.sfc \in {3, 4} /\ line'.rotate = s.rotate /\ line'.turn = s.turn /\ s.sfc = 3
        BY <1>5 DEF Raise, Lines
    <2> QED
        BY <2>1 DEF Poised, Settled
<1>6. CASE Turn(s)
    <2>1. /\ line'.sfc \in {4, 5} /\ line'.lift = s.lift /\ line'.lower = s.lower /\ s.sfc = 4
        BY <1>6 DEF Turn, Lines
    <2> QED
        BY <2>1, Switches DEF Poised, Settled, Sure
<1>7. CASE Place(s)
    <2>1. /\ line'.lower /\ line'.rotate = s.rotate /\ line'.lift = s.lift /\ s.sfc = 5
          /\ line'.sfc = IF Down(s) THEN 6 ELSE 5
        BY <1>7 DEF Place, Lines
    <2> QED
        BY <2>1 DEF Poised, Settled
<1>8. CASE Release(s)
    <2>1. /\ line'.rotate = s.rotate /\ line'.clamp = s.clamp /\ ~line'.grip /\ s.sfc = 6
          /\ line'.sfc = IF Open(s) THEN 7 ELSE 6
        BY <1>8 DEF Release, Lines
    <2> QED
        BY <2>1, Switches DEF Poised, Settled
<1>9. CASE Return(s)
    <2>1. /\ line'.grip = s.grip /\ line'.clamp = s.clamp /\ s.sfc = 7 /\ line'.sfc \in {0, 7}
        BY <1>9 DEF Return, Lines
    <2> QED
        BY <2>1, Switches DEF Poised, Settled
<1> QED
    BY <1>1, <1>2, <1>3, <1>4, <1>5, <1>6, <1>7, <1>8, <1>9 DEF Sequence

\* A cycle of AUTO on a line nobody disturbed keeps it poised, and swings high.
LEMMA AutoPoised ==
    ASSUME AssemblyAssumption, Timing, IInv, ~touched /\ ~cut => Poised(line),
           NEW in \in Inputs, CycleAuto(in)
    PROVE  /\ ~touched' /\ ~cut' => Poised(line')
           /\ line'.rotate # line.rotate /\ Clamped(line') /\ ~touched' /\ ~cut' => Up(line')
<1> DEFINE s == Plant(line, in)
           fresh == s.sfc = 0 /\ Home(s)
<1>1. /\ in.mode = "auto" /\ Run(s, in)
      /\ touched' = (touched /\ ~fresh)
      /\ cut' = ((in.curtain /\ s.sfc \in {2, 5, 6}) \/ (cut /\ ~fresh))
    BY Zenon DEF CycleAuto, Observe
<1>2. line \in Lines
    BY DEF IInv, TypeOK
<1>3. s \in Lines /\ s.sfc = line.sfc
    BY <1>2, PlantStep
<1>4. ~touched /\ ~cut => Safe(line) /\ Sure(line) /\ Poised(line)
    BY DEF IInv
<1>5. ~touched /\ ~cut /\ ~(in.curtain /\ s.sfc \in {2, 5, 6}) =>
        /\ Safe(s) /\ Sure(s) /\ Settled(s)
        /\ s.rotate # line.rotate /\ Clamped(s) => Up(s)
    BY <1>2, <1>3, <1>4, PlantSettles, PlantKeeps
<1> HIDE DEF s
<1>6. line'.lift = s.lift /\ line'.rotate = s.rotate /\ line'.clamp = s.clamp
    BY <1>1, <1>3, AxesKept
<1>7. CASE fresh
    <2>1. Up(line')
        BY <1>6, <1>7 DEF Home, Up
    <2>2. line'.sfc \in {0, 8}
        <3>1. in.curtain => line'.sfc = 0
            BY <1>1, <1>7 DEF Run, Hold
        <3>2. ~in.curtain => Wait(s, in)
            BY <1>1, <1>7
            DEF Run, Sequence, Wait, Bring, Fetch, Grip, Raise, Turn, Place, Release, Return
        <3> QED
            BY <1>3, <3>1, <3>2 DEF Wait, Lines
    <2> QED
        BY <2>1, <2>2 DEF Poised
<1>8. CASE ~fresh
    <2> SUFFICES ASSUME ~touched', ~cut'
                 PROVE  /\ Poised(line')
                        /\ line'.rotate # line.rotate /\ Clamped(line') => Up(line')
        OBVIOUS
    <2>1. ~touched /\ ~cut /\ ~(in.curtain /\ s.sfc \in {2, 5, 6})
        BY <1>1, <1>8
    <2>2. CASE in.curtain
        BY <1>1, <1>5, <2>1, <2>2 DEF Run, Hold, Settled, Poised
    <2>3. CASE ~in.curtain
        <3>1. Sequence(s, in)
            BY <1>1, <2>3 DEF Run
        <3> QED
            BY <1>3, <1>5, <1>6, <2>1, <3>1, SequencePoises DEF Clamped, Up
    <2> QED
        BY <2>2, <2>3
<1> QED
    BY <1>7, <1>8

\* For every travel that meets Timing, as the code's does, and whatever clients
\* do: a loaded arm swings only when it is up (assembly_logic.cpp:205-227).
THEOREM AssemblySwings == Timing => (Spec => SwingsHigh)
<1> SUFFICES ASSUME Timing PROVE Spec => SwingsHigh
    OBVIOUS
<1> DEFINE Calm == ~touched /\ ~cut => Poised(line)
           High == line'.rotate # line.rotate /\ Clamped(line') /\ ~touched' /\ ~cut' => Up(line')
<1>1. Init => Calm
    BY DEF Init, Start, Poised
<1>2. IInv /\ Calm /\ [Next]_lineVars => Calm' /\ [High]_lineVars
    <2> SUFFICES ASSUME IInv, Calm, [Next]_lineVars PROVE Calm' /\ [High]_lineVars
        OBVIOUS
    <2>1. ASSUME NEW in \in Inputs, CycleAuto(in)
          PROVE  Calm' /\ High
        BY <2>1, AssemblyAssumption, AutoPoised
    <2>2. ASSUME NEW in \in Inputs, NEW coils \in Coils, CycleManual(in, coils)
          PROVE  Calm' /\ High
        <3>1. touched' = TRUE
            BY <2>2, Zenon DEF CycleManual, Observe
        <3> QED
            BY <3>1
    <2>3. CASE LeftAlone \/ UNCHANGED lineVars
        BY <2>3 DEF LeftAlone, lineVars
    <2> QED
        BY <2>1, <2>2, <2>3 DEF Next, Cycle, CycleCalm
<1> QED
    BY <1>1, <1>2, AssemblyInv, PTL DEF Spec, SwingsHigh
=============================================================================
