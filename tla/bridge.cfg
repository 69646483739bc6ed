SPECIFICATION AlertsSpec
CONSTANTS
    a1 = a1
    a2 = a2
    p1 = p1
    p2 = p2
    s1 = s1
    s2 = s2
    s3 = s3
    u1 = u1
    u2 = u2
    Everyone = Everyone
    Nobody = Nobody
    NoDay = NoDay
    Profiles <- MCProfiles
    Scale = 1000
    Policy <- BridgePolicy
    Accounts = {a1}
    Providers = {p1, tv}
    SeedProviders = {p1}
    Signals = {s1, s2}
    LongIds = {s1}
    UUIDs = {u1}
    Offers <- AlertOffers
    SizedOffers = {}
    Days = {0, 1}
    tv = tv
    h1 = h1
    h2 = h2
    TradingView = tv
    DefaultProfile = a1
    TextIds = {s1}
    NumberIds = {s2}
    Stem <- MCStem
    Headers = {h1}
    NoHeader = NoHeader
    Equities = {150000}
    Deployments <- AllDeployments
INVARIANTS
    AlertEvaluatedOnce
    OpensWhatWasChecked
    RealEquityStaysOut
PROPERTIES
    FirstAnswerIsFinal
    ImplementsLossBudget
