\* One worker at a time and a retried checkout.
CONSTANTS
    w1 = w1
    w2 = w2
    Handlers = {w1}
    MaxCheckouts = 2
SPECIFICATION CheckoutSpec
INVARIANTS
    RetriedIsPayable
CHECK_DEADLOCK FALSE
