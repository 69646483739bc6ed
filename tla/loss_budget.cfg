SPECIFICATION Spec
CONSTANTS
    a1 = a1
    p1 = p1
    p2 = p2
    Everyone = Everyone
    Nobody = Nobody
    Accounts = {a1}
    Providers = {p1, p2}
    Days <- MCDays
    Amounts <- MCAmounts
    TradeCap <- MCTradeCap
    DayCap <- MCDayCap
    WeekCap <- MCWeekCap
INVARIANTS
    TypeOK
    WithinBudget
    ReservationsCovered
