SPECIFICATION FairSpec
CONSTANTS
    Caller = {c1, c2}
    MaxRotations = 2
PROPERTIES
    SourceSpared
    RotationHeals
