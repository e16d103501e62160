SPECIFICATION FairQueueSpec
CONSTANTS
    N = 2
    MaxSlashes = 1
    MaxTime = 3
    Amounts = {7}
    InitialWallet = 7
    LargeThreshold = 5
    RateWindow = 2
    RateMax = 1
    MinStakes = {0}
    MinDurations = {0}
    WithdrawalCooldowns = {1}
    SlashCooldowns = {1}
    Lockups = {1}
    AppealWindows = {0}
    MultisigChoices = {FALSE}
    SlashTiers <- FlatTable
    MaxTickets = 2
    QueueSizes = {0, 2}
INVARIANTS
    QueueMatchesTickets
PROPERTIES
    RequestsLeavePaid
    QueueMoves
