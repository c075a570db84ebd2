CONSTANTS
    a = a
    b = b
    N = 3
    Gatt = {2, 3}
    Values = {a, b}
    Default <- AllDefault
    Missing = Missing
SPECIFICATION Spec
PROPERTY FailureHonest
