SPECIFICATION Spec
CONSTANTS
    Cores = {c1, c2}
    Restores = {q1, q2}
    Files = {f1, f2, f3}
    Writes = {w1}
    Vouched = Vouched
    Other = Other
    Torn = Torn
    None = None
SYMMETRY Symmetry
PROPERTIES
    RestoresAtomically
    ServingKeepsFile
    NothingUnsavedGoes
