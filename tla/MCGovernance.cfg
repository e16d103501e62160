SPECIFICATION Spec
CONSTANTS
    a0 = a0
    adm = adm
    b0 = b0
    c0 = c0
    executor = executor
    f0 = f0
    grd = grd
    u0 = u0
    u1 = u1
    u2 = u2
    v1 = v1
    N = 1
    Admin = adm
    Guardian = grd
    Quorum = 50
    Approval = 60
    Participation = 50
    VotingDelay = 0
    VotingPeriod = 1
    ExecutionDelay = 1
    ExecutionWindow = 1
    QueueDelay = 1
    StuckGrace = 1
    Extension = 1
    Deposit = 1
    Spend = 1
    Funds = 10
    MaxProposals = 2
    MaxTime = 2
    MaxInits = 0
CHECK_DEADLOCK FALSE
INVARIANTS
    FundsAccounted
    WeighedOnce
    DelaysRespected
    ProposalsAccounted
PROPERTIES
    ChangesByRule
    ExecutedOnlyIfGranted
