SPECIFICATION Spec
CONSTANTS
    a = a  b = b  c = c  v = v
    Keys = {a, b, c}
    Values = {v, Null}
    Hash <- MCHash
    Capacities = {1, 4}
    MaxCapacity = 8
    NoKey = NoKey  Null = Null  Absent = Absent
SYMMETRY Twins
INVARIANTS TableIsSound KeysAreHeldOnce
PROPERTY ImplementsStringMap
