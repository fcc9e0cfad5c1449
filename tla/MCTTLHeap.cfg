SPECIFICATION Spec
CONSTANTS
    Key = {k1, k2, k3, k4, k5, k6}
    Time = {1, 2, 3}
    MaxWork = {1, 2}
SYMMETRY Symmetry
INVARIANTS
    HeapOrdered
PROPERTIES
    QueueSpec
    PopInOrder
    PopDrains
