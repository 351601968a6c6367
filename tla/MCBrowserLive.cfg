CONSTANTS
    Tabs = {t1}
    NoTab = NoTab
    CallIds = {c1, c2}
    MaxUpsets = 1
SPECIFICATION SessionSpec
PROPERTIES
    SpinnerEnds
    DeadSessionNoticed
CHECK_DEADLOCK FALSE
