CONSTANTS
    Setpoints = {450}
    Bypass = {FALSE}
    Modes = {TRUE}
    Undefined = {0, 65535}
SPECIFICATION FairSpec
PROPERTY GlassReached
