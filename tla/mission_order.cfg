CONSTANTS
    MaxObjectives = 4
    Sessions = {}
    Callers = {c1}
    None = None
    CreateStates = {"draft"}
    PatchStates = {"draft"}
    AutoAdvance = {FALSE}
    Calls = {"add", "state", "delete", "reorder"}
SPECIFICATION Spec
SYMMETRY Symmetry
INVARIANTS SplicesFit
PROPERTIES ImplementsOrder
CHECK_DEADLOCK FALSE
