CONSTANTS
    Graph <- MCGraph
    TableSize = 12
    Horizon = 5
    Roots <- MCRoots
    MaxDepth <- MCMaxDepth
    Bots <- MCBots
    Book <- MCBook
    Limits <- MCLimits
    Games <- MCGames
SPECIFICATION Spec
INVARIANTS
    TableSound
    RootIsMinimax
    LimitsTakeOnlyDepth
CHECK_DEADLOCK FALSE
