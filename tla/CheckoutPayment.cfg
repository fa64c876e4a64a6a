\* Two handlers at a time and a retried checkout.
CONSTANTS
    w1 = w1
    w2 = w2
    Handlers = {w1, w2}
    MaxCheckouts = 2
SPECIFICATION CheckoutSpec
INVARIANTS
    SuccessWasCaptured
    EndedWasFreed
    OneVerdict
PROPERTIES
    PendingEnds
CHECK_DEADLOCK FALSE
