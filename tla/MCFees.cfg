SPECIFICATION Spec
CONSTANTS
    NumCampaigns = 2
    NumRecipients = 2
    Budget = 2
    Deposits = {2}
    Weights = {1, 2}
    ClaimWindow = 1
    CliffSecs = 1
    VestSecs = 2
    NumStakers = 2
    Precision = 3
    ShareAmounts = {1, 2}
    MaxShares = 4
    FeeAmounts = {1, 2}
    MaxFees = 3
    Scaled = {2, 4}
    MaxDust = 9
    NumProviders = 3
    BucketAmounts = {1, 2}
    MaxBuckets = 3
    V1Stake = 2
    BatchSizes = {0, 1, 2}
    MaxRuns = 3
    MaxTime = 3
    MaxDistributions = 2
CHECK_DEADLOCK FALSE
INVARIANTS
    FeesAccounted
    RewardsBacked
PROPERTIES
    EarnedIsKept
