SPECIFICATION Spec
CONSTANTS
    Processes = {p1, p2}
    Latest = 3
    Statements <- MCStatements
    Profiles = {ACCOUNT_A, ACCOUNT_LIVE}
    OldProfiles = {ACCOUNT_A}
    Nobody = Nobody
INVARIANTS
    TypeOK
    WholeOrAbsent
    ServesWhole
PROPERTIES
    RestartServes
