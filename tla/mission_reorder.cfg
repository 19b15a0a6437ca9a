CONSTANTS
    MaxObjectives = 4
    Sessions = {}
    Callers = {c1}
    None = None
    CreateStates = {"draft"}
    PatchStates = {"draft", "complete"}
    AutoAdvance = {FALSE}
    Calls = {"add", "state", "reorder"}
SPECIFICATION Spec
SYMMETRY Symmetry
INVARIANTS ReorderFits
CHECK_DEADLOCK FALSE
