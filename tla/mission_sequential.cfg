CONSTANTS
    MaxObjectives = 3
    Sessions = {s1}
    Callers = {c1}
    None = None
    CreateStates = {"draft"}
    PatchStates = {"draft","executing"}
    AutoAdvance = {TRUE}
    Calls = {"add","text","autoAdvance","attach","deliver","state","discuss","followUp"}
SPECIFICATION Spec
SYMMETRY Symmetry
INVARIANTS TypeOK AtMostOneDraft
PROPERTIES TextIsKept
CHECK_DEADLOCK FALSE
