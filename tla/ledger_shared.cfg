SPECIFICATION Spec
CONSTANTS
    a1 = a1
    a2 = a2
    p1 = p1
    p2 = p2
    s1 = s1
    s2 = s2
    s3 = s3
    u1 = u1
    u2 = u2
    Everyone = Everyone
    Nobody = Nobody
    NoDay = NoDay
    Profiles <- MCProfiles
    Scale = 1000
    Policy <- ProviderPolicy
    Accounts = {a1, a2}
    Providers = {p1, p2}
    SeedProviders = {p1}
    Signals = {s1, s2}
    LongIds = {}
    UUIDs = {}
    Offers <- SharedOffers
    SizedOffers = {}
    Days = {0, 1}
SYMMETRY SymmetricAccounts
INVARIANTS
    OneOpenPosition
    OutcomesSettlePositions
    SignalOpensOnce
    BreakerHolds
    OpenRiskBounded
PROPERTIES
    OpensBelowCaps
