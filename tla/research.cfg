SPECIFICATION Spec
CONSTANTS
    Scale = 1000
    Policy <- DefaultPolicy
    Fast = 2
    Slow = 3
    Candles <- MCCandles
    WarmUps <- MCWarmUps
    Days <- OneWeek
    Profile = 20000
    Cost = 1
    Grid <- MCGrid
    MinDistance = 15
    Split = 1
    Times <- MCTimes
    Gross <- MCGross
    Costs <- MCCosts
    MaxTrades = 4
CHECK_DEADLOCK FALSE
INVARIANTS
    TypeOK
    PessimisticFills
    OnlyGapsExceedEstimate
    EntriesWithinCaps
    SamplesAreConsecutive
    DrawdownIsLargest
