CONSTANTS
    Keys = {a, b}
    Absent = Absent
    Capacity = 2
    MaxQueue = 4
SYMMETRY Interchangeable
SPECIFICATION Spec
PROPERTIES
    SecondChance
