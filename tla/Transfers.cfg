\* Two workers of a payment; two drivers of a cash-out; two callbacks and a
\* recovery pass of a top-up; any of them may die.  Two drains of an outbox row,
\* one attempt at a time to reach the broker.
CONSTANTS
    w1 = w1
    w2 = w2
    d1 = d1
    d2 = d2
    i1 = i1
    i2 = i2
    p1 = p1
    o1 = o1
    o2 = o2
    Workers = {w1, w2}
    Drivers = {d1, d2}
    NoDriver = NoDriver
    Ipns = {i1, i2}
    Passes = {p1}
    Drains = {o1, o2}
    NoDrain = NoDrain
    MaxLegacyRetries = 2
    MaxAttempts = 1
SPECIFICATION TransfersSpec
INVARIANTS
    SuccessHeardOnce
    VerdictMatchesBank
    CreditedMeansPaid
    SentIsTold
PROPERTIES
    KeepsContract
    ConfirmedEnds
    CashOutSettles
    TopupIsApproved
    RowIsDone
CHECK_DEADLOCK FALSE
