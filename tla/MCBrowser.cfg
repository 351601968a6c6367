CONSTANTS
    Tabs = {t1, t2}
    NoTab = NoTab
    CallIds = {c1, c2}
    MaxUpsets = 1
SPECIFICATION SessionSpec
SYMMETRY Symmetry
INVARIANTS
    SessionTypeOK
    AppliedOnce
    SuccessorComes
