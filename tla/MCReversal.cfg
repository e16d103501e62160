SPECIFICATION CustodySpec
CONSTANTS
    N = 1
    MaxSlashes = 2
    MaxTime = 3
    Amounts = {7}
    InitialWallet = 7
    LargeThreshold = 10
    RateWindow = 2
    RateMax = 2
    MinStakes = {0}
    MinDurations = {0}
    WithdrawalCooldowns = {1}
    SlashCooldowns = {1}
    Lockups = {1}
    AppealWindows = {0, 2}
    MultisigChoices = {FALSE}
    SlashTiers <- DefaultTable
    s1 = s1
    s2 = s2
INVARIANTS
    BurnedNeverRestored
