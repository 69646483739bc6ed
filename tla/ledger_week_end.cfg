SPECIFICATION Spec
CONSTANTS
    a1 = a1
    a2 = a2
    p1 = p1
    p2 = p2
    s1 = s1
    s2 = s2
    s3 = s3
    u1 = u1
    u2 = u2
    Everyone = Everyone
    Nobody = Nobody
    NoDay = NoDay
    Profiles <- MCProfiles
    Scale = 1000
    Policy <- AccountPolicy
    Accounts = {a1}
    Providers = {p1}
    SeedProviders = {p1}
    Signals = {s1, s2, s3}
    LongIds = {}
    UUIDs = {}
    Offers <- StopOffers
    SizedOffers = {}
    Days = {0, 6, 7}
SYMMETRY SymmetricSignals
PROPERTIES
    WeeklyCapSuspends
