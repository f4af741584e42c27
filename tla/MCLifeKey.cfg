CONSTANTS
    Enabled <- Minimal
SPECIFICATION Spec
INVARIANTS QuitKeyRestoresTerminal
