CONSTANTS
    Optionals = {o1, o2, o3}
    Boxes = {b1, b2}
    Values = {x, y}
    Unspecified = Unspecified
    Dead = Dead
    none = none
    absent = absent
SPECIFICATION Spec
INVARIANTS TypeOK FlagTellsLifetime
PROPERTY HoldsValues
