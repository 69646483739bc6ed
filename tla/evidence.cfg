SPECIFICATION EvidenceSpec
CONSTANTS
    UNKNOWN = UNKNOWN
    Shipped <- ShippedPolicy
    Policies <- AnyPolicies
    Ladder <- MCLadder
    Stamps <- MCStamps
    MaxLosses = 2
    Horizon = 4
CHECK_DEADLOCK FALSE
INVARIANTS
    FailClosed
PROPERTIES
    NeverImproves
