SPECIFICATION Spec
CONSTANTS
    f1 = f1
    f2 = f2
    c1 = c1
    c2 = c2
    Files = {f1, f2}
    Contents = {c1, c2}
    Absent = Absent
    NoFile = NoFile
    Unknown = Unknown
    Keep = 2
    Textual = TRUE
    MaxTurns = 3
    MaxFaults = 1
SYMMETRY Symmetry
INVARIANTS
    Undoable
PROPERTIES
    RewindStepsBack
    RewindRestores
