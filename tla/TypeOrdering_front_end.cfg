SPECIFICATION Spec
CONSTANTS
    Modules <- MCModules
    Names <- MCNames
    Entry = "main"
    Programs <- MCPrograms
INVARIANTS
    UnitIsExact
    RefusalIsDeserved
    VisibleIsUnambiguous
    AliasMeansItsModule
    SignatureErrorsAreReal
    DefinedBeforeUse
    EndlessIsRefused
