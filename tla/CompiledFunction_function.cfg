SPECIFICATION Spec
CONSTANTS
    VarType <- MCVarType
    Programs <- MCPrograms
    Owns <- MCOwns
    Fuel <- MCFuel
    MaxOutcomes = 4
    MaxWitness = 8
INVARIANTS
    TypeOK
    NeverTouchesTheDead
    CountsBalance
    MeansTheSource
    AlwaysReturns
    RejectionIsDeserved
    NeverSpins
