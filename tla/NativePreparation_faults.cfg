SPECIFICATION Spec
CONSTANTS
    c1 = c1  c2 = c2  iface = iface  rt = rt
    Commands = {c1, c2}
    Files = {iface, rt}
    Interfaces = {iface}
    Versions = {1}
    InitialInput <- OldInput
    Options <- WithForce
    Faults = {"crash", "corruption", "storage", "lock", "tool", "inputs"}
    MaxStamp <- NoEdit
    ChildrenDie = TRUE
    NoOne = NoOne  NoFile = NoFile  NoManifest = NoManifest  Torn = Torn  Partial = Partial
SYMMETRY Symmetry
INVARIANTS OneBuilderPerProfile CompletionRecordIsExact CompletedProfileIsIntact UnusableMeansCorrupted UsersReadTheirInputs
PROPERTY OnlyForceInvalidates
