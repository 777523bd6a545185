SPECIFICATION Spec
CONSTANTS
    c1 = c1  d1 = d1   s1 = s1 
    Commands = {c1}
    Stems = {s1}
    Names = {d1}
    KeepC = {TRUE, FALSE}
    Versions = {1, 2}
    InitialSets <- AnySets
    Faults = {"storage", "cleanup", "compiler", "crash"}
    Absent = Absent  Odd = Odd  Partial = Partial  NoDir = NoDir  NoName = NoName
INVARIANTS DestinationsAreWhole SuccessIsComplete FailureRestores NothingIsLost MixedPairsAreReported
PROPERTIES ImplementsCompileService AbandonedIsUntouched
