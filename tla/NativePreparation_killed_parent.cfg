SPECIFICATION Spec
CONSTANTS
    c1 = c1  c2 = c2  iface = iface  rt = rt
    Commands = {c1, c2}
    Files = {iface, rt}
    Interfaces = {iface}
    Versions = {1}
    InitialInput <- OldInput
    Options <- BuildOnly
    Faults = {"crash"}
    MaxStamp <- NoEdit
    ChildrenDie = FALSE
    NoOne = NoOne  NoFile = NoFile  NoManifest = NoManifest  Torn = Torn  Partial = Partial
INVARIANT UnusableMeansCorrupted
