CONSTANTS
    h1 = h1
    h2 = h2
    a = a
    b = b
    coil = coil
    nowhere = nowhere
    far = far
    longTable = longTable
    shortTable = shortTable
    badTable = badTable
    Handler <- Handlers
    Name <- Names
    Place <- Places
    Beyond <- TooFar
    Mapped <- Cells
    Value <- Bits
    Table <- Posts
    Mistyped <- Throwing
    Length <- Lengths
    NoTag = noTag
    Unreadable = unreadable
    NoRules = noRules
    Broken = broken
SPECIFICATION WebSpec
INVARIANTS WebTypeOK TextIsCurrent FileFollowsTags EngineFollowsFile
PROPERTIES WritesLandOnTags IsDirectory
