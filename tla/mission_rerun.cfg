CONSTANTS
    MaxObjectives = 2
    Sessions = {s1, s2}
    Callers = {c1}
    None = None
    CreateStates = {"draft"}
    PatchStates = {"draft"}
    AutoAdvance = {TRUE}
    Calls = {"add", "attach", "deliver", "resume", "state"}
SPECIFICATION Spec
SYMMETRY Symmetry
PROPERTIES RerunIsQueued
CHECK_DEADLOCK FALSE
