SPECIFICATION LoadoutFairSpec
CONSTANTS
    wolf = wolf
    bear = bear
    camo = camo
    Cosmetics = {wolf, bear, camo}
    KindOf <- MCKindOf
    Calls = {t1, t2, t3}
    Unlocked = Unlocked
INVARIANTS
    OnePerSlotUnlessGrown
PROPERTIES
    SlotStaysFilled
    EveryEquipAnswered
CHECK_DEADLOCK FALSE
