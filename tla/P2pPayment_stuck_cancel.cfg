\* One worker that may crash while it cancels.
CONSTANTS
    w1 = w1
    w2 = w2
    Workers = {w1}
SPECIFICATION P2pFairSpec
PROPERTIES
    EveryPaymentEnds
CHECK_DEADLOCK FALSE
