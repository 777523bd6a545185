SPECIFICATION Spec
CONSTANTS
    VarType <- MCVarType
    Programs <- MCEarlyExits
    Owns <- MCOwns
    Fuel <- MCFuel
    MaxOutcomes = 4
    MaxWitness = 8
INVARIANT NeverTouchesTheDead
