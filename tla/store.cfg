SPECIFICATION Spec
CONSTANTS
    Requests = {alert, evaluation, closing}
    Bridge = {alert}
    Nobody = Nobody
    MaxCrashes = 1
CHECK_DEADLOCK FALSE
INVARIANTS
    TypeOK
    AuditVerifies
    AnswersTrue
PROPERTIES
    ImplementsAtomicStore
    LocalRequestsAnswered
