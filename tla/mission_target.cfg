CONSTANTS
    MaxObjectives = 3
    Sessions = {s1}
    Callers = {c1}
    None = None
    CreateStates = {"draft"}
    PatchStates = {}
    AutoAdvance = {FALSE, TRUE}
    Calls = {"add", "attach", "deliver"}
SPECIFICATION Spec
SYMMETRY Symmetry
PROPERTIES AdvanceTakesNextDraft
CHECK_DEADLOCK FALSE
