\* Two drains of one row.
CONSTANTS
    o1 = o1
    o2 = o2
    Drains = {o1, o2}
    NoDrain = NoDrain
    MaxLegacyRetries = 2
    MaxAttempts = 1
SPECIFICATION PayOutSpec
INVARIANTS
    SentMeansTold
CHECK_DEADLOCK FALSE
