\* Two requests under one key.
CONSTANTS
    h1 = h1
    h2 = h2
    Hands = {h1, h2}
    MaxRefundAttempts = 1
SPECIFICATION OrderSpec
INVARIANTS
    RejectedMeansNoPayment
CHECK_DEADLOCK FALSE
