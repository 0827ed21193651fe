SPECIFICATION FairSpec
CONSTANTS
    Order = {o1}
    Nobody = Nobody
    MaxFetch = 2
    MaxCalls = 2
    MaxMoves = 1
    MaxTrouble = 1
PROPERTIES ScreenSettles ScreenComesToRest
CHECK_DEADLOCK FALSE
