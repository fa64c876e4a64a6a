\* A user and a merchant, one hold each way, captured, freed and refunded,
\* and a sweeper that may crash but keeps being scheduled.
CONSTANTS
    s1 = s1
    s2 = s2
    u1 = u1
    u2 = u2
    m1 = m1
    h1 = h1
    h2 = h2
    f1 = f1
    f2 = f2
    c1 = c1
    c2 = c2
    SETTLEMENT = SETTLEMENT
    CLEARING_TOPUP = CLEARING_TOPUP
    NoWallet = NoWallet
    NoRef = NoRef
    Users = {u1}
    Merchants = {m1}
    HoldRefs = {h1}
    MoveRefs = {c1}
    RefundRefOf <- MCOneRefundRef
    Amounts = {1}
    MaxTime = 2
    MaxLifetime = 2
    DayOf <- MCDayOf
    MonthOf <- MCMonthOf
    Tiers = {0}
    PerTxn <- MCPerTxn
    PerDay <- MCPerDay
    PerMonth <- MCPerMonth
    Sweepers = {s1}
SPECIFICATION FairSpec
INVARIANTS
    Solvent
    CaptureSettles
PROPERTIES
    ExpiredHoldsAreFreed
    HoldsKeepContract
