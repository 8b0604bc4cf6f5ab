\* Every scenario of MCScenario; a run ends.
SPECIFICATION Spec
CONSTANTS
    x = x
    u = u
    None = None
    Sensors = {x, u}
    Mapped = {x}
    Analog = {x}
    Levels = {0, 1, 2}
    Documents <- AllDocuments
INVARIANTS ReadingsAreReal
CHECK_DEADLOCK FALSE
