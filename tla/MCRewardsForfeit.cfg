SPECIFICATION Spec
CONSTANTS
    wolf = wolf
    bear = bear
    eagle = eagle
    Cosmetics = {wolf, bear, eagle}
    Available = {wolf, bear}
    Price <- MCPrice
    Levels = {0, 1, 2}
    RewardsOf <- MCRewardsOf
    PremiumPrice = 3
    XpGrants = {600}
    MaxXp = 1200
    InitialBalance = 6
    NoCosmetic = NoCosmetic
    Calls = {c1}
INVARIANT
    NothingForfeited
