---------------------------- MODULE EventConsumer ----------------------------
(***************************************************************************)
(* The life of one consumer of package finvault-events: start, the loop    *)
(* that reconnects, and stop, which may be called at any point of either.  *)
(* What a message goes through is in TierPropagation.                      *)
(***************************************************************************)
EXTENDS Naturals, FiniteSets

CONSTANT Links   \* connections that may be open at once (a bound)

VARIABLES
    running,      \* the flag both the loop and the callback look at
    active,       \* activeConnection and activeChannel, as a set of one link or none
    tagged,       \* consumerTag is set
    open,         \* links that are open
    consuming,    \* open links with a consumer registered at the broker
    signalled,    \* what disconnected is: "none", "pending" or "resolved"
    inFlight,     \* links with a message being processed
    supervisor,   \* what start, and then reconnectLoop, is about to do
    stopping      \* what stop is about to do, and the link it captured

consumerVars == <<running, active, tagged, open, consuming, signalled, inFlight, supervisor, stopping>>

ConsumerTypeOK ==
    /\ running \in BOOLEAN /\ tagged \in BOOLEAN
    /\ active \in SUBSET Links /\ Cardinality(active) <= 1
    /\ consuming \subseteq open /\ open \in SUBSET Links /\ inFlight \in SUBSET Links
    /\ signalled \in {"none", "pending", "resolved"}
    /\ supervisor \in [at : {"off", "dial", "consume", "await", "settle", "pause", "over"}, looping : BOOLEAN]
    /\ stopping \in [at : {"no", "settle", "join", "close", "done"}, captured : SUBSET Links]

ConsumerInit ==
    /\ running = FALSE /\ tagged = FALSE
    /\ active = {} /\ open = {} /\ consuming = {} /\ inFlight = {}
    /\ signalled = "none"
    /\ supervisor = [at |-> "off", looping |-> FALSE]
    /\ stopping = [at |-> "no", captured |-> {}]

Supervisor(from, to) == supervisor.at = from /\ supervisor' = [at |-> to, looping |-> supervisor.looping]
Stopping(from, to) == stopping.at = from /\ stopping' = [at |-> to, captured |-> stopping.captured]

-----------------------------------------------------------------------------
Start ==
    /\ ~running /\ stopping.at = "no"
    /\ running' = TRUE
    /\ Supervisor("off", "dial")
    /\ UNCHANGED <<active, tagged, open, consuming, signalled, inFlight, stopping>>

\* connectOnce, up to where it registers its consumer.
Attach(l) ==
    /\ l \notin open
    /\ Supervisor("dial", "consume")
    /\ open' = open \cup {l} /\ active' = {l}
    /\ signalled' = "pending"
    /\ UNCHANGED <<running, tagged, consuming, inFlight, stopping>>

\* reconnectLoop is entered, or goes on.
Loop(went) ==
    IF ~running THEN "over" ELSE IF went /\ signalled # "none" THEN "await" ELSE "settle"

ConsumeStarts ==
    /\ supervisor = [at |-> "consume", looping |-> supervisor.looping]
    /\ active \subseteq open
    /\ supervisor' = [at |-> Loop(TRUE), looping |-> TRUE]
    /\ tagged' = TRUE
    /\ consuming' = consuming \cup active
    /\ UNCHANGED <<running, active, open, signalled, inFlight, stopping>>

\* start gives up and says so; the loop goes on to closeCurrent.
ConnectionRefused ==
    /\ supervisor.at \in {"dial", "consume"}
    /\ IF supervisor.at = "consume"
       THEN active' = {} /\ tagged' = FALSE /\ signalled' = "none" /\ open' = open \ active
       ELSE UNCHANGED <<active, tagged, signalled, open>>
    /\ IF supervisor.looping
       THEN supervisor' = [at |-> IF running THEN "settle" ELSE "over", looping |-> TRUE] /\ UNCHANGED running
       ELSE supervisor' = [at |-> "off", looping |-> FALSE] /\ running' = FALSE
    /\ UNCHANGED <<consuming, inFlight, stopping>>

LinkCloses(l) ==
    /\ l \in open
    /\ open' = open \ {l} /\ consuming' = consuming \ {l}
    /\ signalled' = IF l \in active /\ signalled = "pending" THEN "resolved" ELSE signalled
    /\ UNCHANGED <<running, active, tagged, inFlight, supervisor, stopping>>

\* Mutant: the callback does not look at the flag.
TakeMessage_Always(l) ==
    /\ l \in consuming
    /\ inFlight' = inFlight \cup {l}
    /\ UNCHANGED <<running, active, tagged, open, consuming, signalled, supervisor, stopping>>

\* A message that comes while running is false stays where it is, unacknowledged.
TakeMessage(l) ==
    /\ l \in consuming /\ running
    /\ inFlight' = inFlight \cup {l}
    /\ UNCHANGED <<running, active, tagged, open, consuming, signalled, supervisor, stopping>>

MessageSettles(l) ==
    /\ l \in inFlight
    /\ inFlight' = inFlight \ {l}
    /\ UNCHANGED <<running, active, tagged, open, consuming, signalled, supervisor, stopping>>

\* closeCurrent begins: the channel's consumer is cancelled.
Disconnected ==
    /\ signalled = "resolved"
    /\ Supervisor("await", "settle")
    /\ consuming' = IF tagged THEN consuming \ active ELSE consuming
    /\ UNCHANGED <<running, active, tagged, open, signalled, inFlight, stopping>>

\* closeCurrent ends, and the loop with it if stop was called.
CloseCurrent ==
    /\ inFlight = {}
    /\ Supervisor("settle", IF running THEN "pause" ELSE "over")
    /\ open' = open \ active /\ consuming' = consuming \ active
    /\ active' = {} /\ tagged' = FALSE /\ signalled' = "none"
    /\ UNCHANGED <<running, inFlight, stopping>>

\* The delay runs out, or stop aborts it.
PauseEnds ==
    /\ Supervisor("pause", IF running THEN "dial" ELSE "over")
    /\ UNCHANGED <<running, active, tagged, open, consuming, signalled, inFlight, stopping>>

\* stop, up to the wait for the work in flight.
Stop ==
    /\ running /\ stopping.at = "no"
    /\ running' = FALSE
    /\ stopping' = [at |-> "settle", captured |-> active]
    /\ consuming' = IF tagged THEN consuming \ active ELSE consuming
    /\ UNCHANGED <<active, tagged, open, signalled, inFlight, supervisor>>

\* Mutant: the loop is not woken.
StopSignals_Unsignalled ==
    /\ inFlight = {}
    /\ Stopping("settle", "join")
    /\ UNCHANGED <<running, active, tagged, open, consuming, signalled, inFlight, supervisor>>

StopSignals ==
    /\ inFlight = {}
    /\ Stopping("settle", "join")
    /\ signalled' = IF signalled = "pending" THEN "resolved" ELSE signalled
    /\ UNCHANGED <<running, active, tagged, open, consuming, inFlight, supervisor>>

\* start may still be at its connection: there is no loop to wait for then.
StopJoins ==
    /\ supervisor.looping => supervisor.at = "over"
    /\ Stopping("join", "close")
    /\ UNCHANGED <<running, active, tagged, open, consuming, signalled, inFlight, supervisor>>

StopCloses ==
    /\ Stopping("close", "done")
    /\ open' = open \ stopping.captured /\ consuming' = consuming \ stopping.captured
    /\ active' = {}
    /\ UNCHANGED <<running, tagged, signalled, inFlight, supervisor>>

ConsumerNext ==
    \/ Start \/ ConsumeStarts \/ ConnectionRefused \/ Disconnected \/ CloseCurrent \/ PauseEnds
    \/ Stop \/ StopSignals \/ StopJoins \/ StopCloses
    \/ \E l \in Links : Attach(l) \/ LinkCloses(l) \/ TakeMessage(l) \/ MessageSettles(l)

ConsumerSpec == ConsumerInit /\ [][ConsumerNext]_consumerVars

\* An attempt to connect, a handler and each wait of stop come to an end.
ConsumerFairness ==
    /\ WF_consumerVars((\E l \in Links : Attach(l)) \/ ConnectionRefused)
    /\ WF_consumerVars(ConsumeStarts \/ ConnectionRefused)
    /\ \A l \in Links : WF_consumerVars(MessageSettles(l))
    /\ WF_consumerVars(Disconnected) /\ WF_consumerVars(CloseCurrent) /\ WF_consumerVars(PauseEnds)
    /\ WF_consumerVars(StopSignals) /\ WF_consumerVars(StopJoins) /\ WF_consumerVars(StopCloses)

-----------------------------------------------------------------------------
\* When stop returns no message is being processed and none will be, wherever
\* it found the loop; a connection that came up meanwhile may be left open, but
\* what it delivers is not looked at.
StopSettles == stopping.at \in {"join", "close", "done"} => inFlight = {}

\* And it returns: the loop is woken wherever it waits.
StopReturns == ConsumerFairness => (stopping.at = "settle" ~> stopping.at = "done")
=============================================================================
