\* One user, two holds across midnight, two sweepers with stale scans; or two
\* users, two tiers and no holds: transfers, adjustments and limits.
CONSTANTS
    s1 = s1
    s2 = s2
    u1 = u1
    u2 = u2
    m1 = m1
    h1 = h1
    h2 = h2
    f1 = f1
    f2 = f2
    c1 = c1
    c2 = c2
    SETTLEMENT = SETTLEMENT
    CLEARING_TOPUP = CLEARING_TOPUP
    NoWallet = NoWallet
    NoRef = NoRef
    Users = {u1, u2}
    Merchants = {}
    HoldRefs = {h1, h2}
    MoveRefs = {c1, c2}
    RefundRefOf <- MCOneRefundRef
    Amounts = {1, 2}
    MaxTime = 3
    MaxLifetime = 2
    DayOf <- MCDayOf
    MonthOf <- MCMonthOf
    Tiers = {0, 1}
    PerTxn <- MCPerTxn
    PerDay <- MCPerDay
    PerMonth <- MCPerMonth
    Sweepers = {s1, s2}
SYMMETRY Exchanges
SPECIFICATION UsersSpec
INVARIANTS
    HoldsAreAccounted
    LimitsAreKept
    BalanceIsLedger
    DoubleEntry
PROPERTIES
    NeverExpiredEarly
