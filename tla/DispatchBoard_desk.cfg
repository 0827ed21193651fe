SPECIFICATION FairSpec
CONSTANTS
    Order = {o1}
    Courier = {k1}
    Nobody = Nobody
    Reach = {"delivered"}
    MaxEvents = 2
    MaxBatches = 1
INVARIANTS HiddenWhileCancelling OwnMovesShow
PROPERTIES CancelHonoured
CHECK_DEADLOCK FALSE
