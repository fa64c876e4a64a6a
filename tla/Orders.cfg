\* Three workers of a refund; three threads of an order; one publisher, two tier
\* changes, one copy at a time, one retry; two connections of a consumer.
CONSTANTS
    w1 = w1
    w2 = w2
    w3 = w3
    h1 = h1
    h2 = h2
    h3 = h3
    p1 = p1
    c1 = c1
    l1 = l1
    l2 = l2
    Workers = {w1, w2, w3}
    NoToken = NoToken
    Hands = {h1, h2, h3}
    MaxRefundAttempts = 2
    Publishers = {p1}
    Nobody = Nobody
    Last = 2
    Copies = {c1}
    MaxRetries = 1
    Links = {l1, l2}
SPECIFICATION OrdersSpec
INVARIANTS
    OrdersTypeOK
    RefundedMeansReturned
    RefundingIsOwed
    OrderTellsTruth
    StopSettles
PROPERTIES
    RefundIsDecided
    PaidOrderProceeds
    ReachesWallet
    StopReturns
CHECK_DEADLOCK FALSE
