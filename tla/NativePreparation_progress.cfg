SPECIFICATION FairSpec
CONSTANTS
    c1 = c1  c2 = c2  iface = iface  rt = rt
    Commands = {c1, c2}
    Files = {iface, rt}
    Interfaces = {iface}
    Versions = {1}
    InitialInput <- OldInput
    Options <- WithForce
    Faults = {"crash", "storage", "tool"}
    MaxStamp <- NoEdit
    ChildrenDie = FALSE
    NoOne = NoOne  NoFile = NoFile  NoManifest = NoManifest  Torn = Torn  Partial = Partial
PROPERTY EveryCommandEnds
