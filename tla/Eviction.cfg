CONSTANTS
    Keys = {a, b, c}
    Absent = Absent
    Capacity = 2
    MaxQueue = 3
SYMMETRY Interchangeable
SPECIFICATION Spec
INVARIANTS
    QueuesConsistent
PROPERTIES
    ImplementsPolicy
