SPECIFICATION MCSpec
CONSTANTS
    N = 2
    MaxSlashes = 1
    MaxTime = 2
    Amounts = {3}
    InitialWallet = 6
    LargeThreshold = 100
    RateWindow = 3
    RateMax = 2
    MinStakes = {0}
    MinDurations = {1}
    WithdrawalCooldowns = {1}
    SlashCooldowns = {1}
    Lockups = {0}
    AppealWindows = {1}
    MultisigChoices = {FALSE}
    SlashTiers <- DefaultTable
    s1 = s1
    s2 = s2
INVARIANTS
    TypeOK
    Solvency
    DelegationLedger
    SlashDisposition
    ParticipationTotal
    CustodyExact
    PartsHold
PROPERTIES
    LockupsHold
    DecisionsStand
