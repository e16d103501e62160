SPECIFICATION FairQueueSpec
CONSTANTS
    N = 2
    MaxSlashes = 1
    MaxTime = 2
    Amounts = {7}
    InitialWallet = 7
    LargeThreshold = 10
    RateWindow = 2
    RateMax = 1
    MinStakes = {0}
    MinDurations = {0}
    WithdrawalCooldowns = {1}
    SlashCooldowns = {1}
    Lockups = {1}
    AppealWindows = {1}
    MultisigChoices = {FALSE}
    SlashTiers <- DefaultTable
    MaxTickets = 2
    QueueSizes = {1, 2}
PROPERTIES
    WaitersServed
