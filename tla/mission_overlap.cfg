CONSTANTS
    MaxObjectives = 4
    Sessions = {s1, s2}
    Callers = {c1, c2}
    None = None
    CreateStates = {"draft"}
    PatchStates = {}
    AutoAdvance = {FALSE}
    Calls = {"add","attach","deliver","launch","resume"}
SPECIFICATION Spec
SYMMETRY Symmetry
PROPERTIES ImplementsOrder DraftsDoubledByDeliverOnly AttachRefills
CHECK_DEADLOCK FALSE
