CONSTANTS
    Board <- MCBoard
    Move <- MCMove
    Turn <- MCTurn
    Legal <- MCLegal
    Zeroing <- MCZeroing
    InCheck <- MCInCheck
    Insufficient <- MCInsufficient
    After <- MCAfter
    FiftyMoves = 5
    SeventyFiveMoves = 6
    Threefold = 2
    Fivefold = 3
    Setups <- MCSetups
    Initial = 2
    Increment = 1
    Starts <- MCStarts
    Start <- MCStart
    Loads <- MCLoads
    Promotions <- MCPromotions
    MaxMoves = 4
    MaxNow = 4
    MaxClock = 4
SPECIFICATION SessionSpec
INVARIANTS
    ClockIsExact
    FlagIsEarned
    PromotionIsLegal
PROPERTIES
    TurnsMoveTogether
CHECK_DEADLOCK FALSE
