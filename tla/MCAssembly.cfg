CONSTANTS
    LiftStep = 334
    RotateStep = 200
    ClampStep = 500
    Speeds <- CoarseSpeeds
    Modes = {"auto", "manual"}
SPECIFICATION FairSpec
INVARIANTS TypeOK PlacedOnChassis PartHeld ChassisMovesAlone
PROPERTIES SwingsHigh ComesBack
