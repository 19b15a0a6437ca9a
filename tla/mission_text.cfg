CONSTANTS
    MaxObjectives = 3
    Sessions = {s1}
    Callers = {c1, c2}
    None = None
    CreateStates = {"draft"}
    PatchStates = {}
    AutoAdvance = {FALSE}
    Calls = {"add", "text", "attach", "deliver"}
SPECIFICATION Spec
SYMMETRY Symmetry
PROPERTIES TextIsKept
CHECK_DEADLOCK FALSE
