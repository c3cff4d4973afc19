SPECIFICATION SplittingSpec
CONSTANTS
    MaxOrders = 4
    MaxDate = 5
    Amounts = {8, 19, 20}
    Histories <- MCHistories
    Threshold = 20
    WindowDays = 2
    MinOrders = 2
CHECK_DEADLOCK FALSE
INVARIANTS
    SplittingTypeOK
    GroupsAreWindows
    SplitsAreGrouped
