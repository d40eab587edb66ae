SPECIFICATION Spec
CONSTANTS
    Sizes = {2, 3}
    ServedSize = 3
INVARIANTS
    TraversesTheGraph
CHECK_DEADLOCK FALSE
