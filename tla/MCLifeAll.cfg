CONSTANTS
    Enabled <- Everything
SPECIFICATION Spec
INVARIANTS EndsInOrder LibraryOutlivesScan
PROPERTIES QuitEnds
