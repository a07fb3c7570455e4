SPECIFICATION Spec
CONSTANTS
    Cores = {c1}
    Restores = {q1}
    Files = {f1, f2, f3}
    Writes = {w1}
    Vouched = Vouched
    Other = Other
    Torn = Torn
    None = None
INVARIANTS
    CoresOnDatabase
