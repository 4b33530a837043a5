CONSTANTS
    Node = {n1, n2, n3}
    Bootstrap = {n1, n2, n3}
    Configured = {n1}
    Unusable = {n3}
    Targets = {0, 1, 2}
    Validators = 2
    Request = {q1, q2}
    MaxReports = 2
    KeepReports = 1
    MaxSerial = 2
SPECIFICATION FairSpec
INVARIANTS TypeOK BlacklistKept AnswersCounted RejectionShows
PROPERTIES BootstrapSettles RightBlame
CHECK_DEADLOCK FALSE
CONSTRAINT Explored
