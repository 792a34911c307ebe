SPECIFICATION Spec
CONSTANTS
    Event = {e1, e2}
    MaxCount = 3
    Node = {n1, n2, n3, n4}
    Null = Null
INVARIANTS WellFormed DestroyTouchesLiveNodes
PROPERTY ImplementsFifo
CHECK_DEADLOCK FALSE
