SPECIFICATION Spec
CONSTANTS
    Modules <- MCModules
    Names <- MCNames
    Entry = "main"
    Programs <- MCScopes
INVARIANT AliasMeansItsModule
