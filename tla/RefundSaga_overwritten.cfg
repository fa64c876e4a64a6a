\* Two workers, one of them with a lapsed lease.
CONSTANTS
    w1 = w1
    w2 = w2
    w3 = w3
    Workers = {w1, w2}
    NoToken = NoToken
SPECIFICATION RefundSpec
PROPERTIES
    RefundedIsFinal
CHECK_DEADLOCK FALSE
