CONSTANTS
    OpenPages = {"profile"}
    OpenLists = {"rules"}
    Rows = {1, 2}
    PageSize = 1
    WriteIds = {1, 2}
    MaxActs = 3
    Texts = {"plain", "plus"}
    PlusTexts = {"plus"}
    RunIds = {1, 2}
    MaxPlays = 2
    CallIds = {1, 2, 3}
    MaxCalls = 5
    MaxLost = 1
    KeyCount = 2
    SaveIds = {1, 2}
    Values = {"a", "b"}
    MaxEdits = 4
SPECIFICATION ConsoleSpec
INVARIANT EnabledAfterConfirmation
CHECK_DEADLOCK FALSE
