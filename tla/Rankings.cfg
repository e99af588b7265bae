CONSTANTS
    c1 = c1
    c2 = c2
    c3 = c3
    Null = Null
    Currency = {"EUR", "X"}
    FirstDay = 3
    MaxDay = 5
    Quoted <- MCQuoted
    Lookback = 2
    Batch = 2
    Company <- MCCompany
    Store <- MCStore
    Listings <- MCListings
    Sector <- MCSector
    Recent = 2
    Limits = {1, 2}
    Scan = 2
    MinDenominator = 2
    MaxRatio = 150
SPECIFICATION Spec
INVARIANTS RanksTheLargest MatchesStatement RanksNewestYear PassThroughAgrees
PROPERTIES OnlyInterruptLoses
