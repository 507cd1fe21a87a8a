SPECIFICATION FairSpec
CONSTANTS
    ana = ana
    rui = rui
    eva = eva
    helmet = helmet
    radio = radio
    Users = {ana, rui, eva}
    Products = {helmet, radio}
    Seller <- MCSeller
    ListPrice <- MCListPrice
    InitialBalance <- MCInitialBalance
    Free = Free
    Keep = Keep
    Orders = {o1, o2}
    Edits = {e1}
    Patches <- MCPatches
    Qtys = {2}
INVARIANTS
    OneSaleUnlessContested
    StatementsAddUp
PROPERTY
    EveryOrderAnswered
