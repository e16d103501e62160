SPECIFICATION Spec
CONSTANTS
    N = 2
    Scale = 5
    Stakes = {0, 2, 3}
    Amounts = {1, 3}
    MaxFunded = 4
    MaxClaims = 1
    ClaimTtl = 1
    MaxTime = 1
INVARIANTS
    TypeOK
    EveryoneCanClaim
    Conservation
PROPERTIES
    OnlyFundingEarns
