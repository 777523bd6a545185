SPECIFICATION Spec
CONSTANTS
    c1 = c1  c2 = c2  iface = iface  rt = rt
    Commands = {c1, c2}
    Files = {rt}
    Interfaces = {}
    Versions = {1, 2}
    InitialInput <- OldInput
    Options <- Modest
    Faults = {"crash", "lock", "storage"}
    MaxStamp <- RuntimeOnce
    ChildrenDie = TRUE
    NoOne = NoOne  NoFile = NoFile  NoManifest = NoManifest  Torn = Torn  Partial = Partial
SYMMETRY Symmetry
PROPERTY ImplementsService
