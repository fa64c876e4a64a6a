\* Two publishers, two tier changes, two copies, one retry; two submissions and
\* two clean-ups; two deliveries to two parties; two administrators; two runs.
\* Two drains of the wallet's outbox, two copies, one retry; two workers of
\* auth-service, two copies, one retry.
CONSTANTS
    a1 = a1
    a2 = a2
    t1 = t1
    t2 = t2
    Publishers <- Actors
    Copies <- Things
    Last = 2
    Nobody = Nobody
    MaxRetries = 1
    Cleaners <- Actors
    Submissions <- Things
    NoKey = NoKey
    Handlings <- Actors
    Parties <- Things
    Admins <- Actors
    Runs <- Things
    WalletDrains <- Actors
    Wires <- Things
    MaxNoticeRetries = 1
    MaxAttempts = 1
    AuthWorkers <- Actors
    NoWorker = NoWorker
    Parcels <- Things
    MaxParcelRetries = 1
SYMMETRY Exchanges
SPECIFICATION EventsSpec
INVARIANTS
    EventsTypeOK
    PublishedInOrder
    NothingLost
    DocumentsAreKept
    PartiesToldTogether
    RowsTellTheTruth
    ToldOnceAndForAll
    NobodyForgotten
PROPERTIES
    DuplicateIsHarmless
CHECK_DEADLOCK FALSE
