---------------------------- MODULE Notifications ----------------------------
(***************************************************************************)
(* The ways an event that is not in the shared envelope becomes a          *)
(* notification: the consumer of wallet.events, payment.events and         *)
(* kyc.events with its retries and dead letters (rabbitmqConsumer.ts), and *)
(* the internal POST /api/notifications; both go through the inbox.        *)
(*                                                                         *)
(* The module follows one well-formed event that has an eventId; its       *)
(* copies carry the same data, as the producers build it from their row.   *)
(***************************************************************************)
EXTENDS Naturals, FiniteSets

CONSTANTS
    Wires,             \* places for copies of the message at the broker (a bound)
    MaxNoticeRetries   \* maxRetries of the consumer

ASSUME NoticeRetriesAreNatural == MaxNoticeRetries \in Nat

VARIABLES
    wire,        \* the copies at the broker or in the consumer
    dlq,         \* a copy is in notification-service.dlq
    inInbox,     \* NotificationInbox has the eventId
    notices,     \* rows of Notification with the eventId
    listening    \* the consumer's connection is up

noticeVars == <<wire, dlq, inInbox, notices, listening>>

NoticeTypeOK ==
    /\ wire \in [Wires -> [at : {"none", "queue", "held", "stored", "failed"}, n : 0..MaxNoticeRetries]]
    /\ dlq \in BOOLEAN /\ inInbox \in BOOLEAN /\ listening \in BOOLEAN
    /\ notices \in Nat

NoWire == [at |-> "none", n |-> 0]

NoticeInit ==
    /\ wire = [c \in Wires |-> NoWire]
    /\ dlq = FALSE /\ inInbox = FALSE /\ notices = 0
    /\ listening = TRUE

\* A copy reaches the durable queue.
ReachesQueue == \E c \in Wires : wire[c].at = "none" /\ wire' = [wire EXCEPT ![c] = [at |-> "queue", n |-> 0]]

\* ingestNotification: the inbox row and the notification are one transaction,
\* and the row's key decides which of two that race is the duplicate.
IngestNotification ==
    /\ inInbox' = TRUE
    /\ notices' = IF inInbox THEN notices ELSE notices + 1

\* createNotification, the internal POST: stored or a duplicate, a database
\* error, or a refusal.
AcceptNotice(answer) ==
    \/ answer = "stored" /\ IngestNotification
    \/ answer \in {"error", "refused"} /\ UNCHANGED <<inInbox, notices>>

MoveTo(c, at) == wire' = [wire EXCEPT ![c] = [at |-> at, n |-> wire[c].n]]

Consume(c) ==
    /\ listening /\ wire[c].at = "queue"
    /\ MoveTo(c, "held")
    /\ UNCHANGED <<dlq, inInbox, notices, listening>>

HandleMessage(c) ==
    /\ wire[c].at = "held"
    /\ \/ IngestNotification /\ MoveTo(c, "stored")
       \/ UNCHANGED <<inInbox, notices>> /\ MoveTo(c, "failed")
    /\ UNCHANGED <<dlq, listening>>

AckNotice(c) ==
    /\ wire[c].at = "stored"
    /\ wire' = [wire EXCEPT ![c] = NoWire]
    /\ UNCHANGED <<dlq, inInbox, notices, listening>>

\* decideRetry.  The copy with the higher count goes to the end of the queue
\* and the original is acknowledged once the broker confirms it; the last try,
\* and a copy that is not confirmed, go to the dead letters.
RetryOrDeadLetter(c) ==
    /\ wire[c].at = "failed"
    /\ \/ /\ wire[c].n < MaxNoticeRetries
          /\ wire' = [wire EXCEPT ![c] = [at |-> "queue", n |-> wire[c].n + 1]]
          /\ UNCHANGED dlq
       \/ dlq' = TRUE /\ wire' = [wire EXCEPT ![c] = NoWire]
    /\ UNCHANGED <<inInbox, notices, listening>>

\* The copy is at the broker when the acknowledgement of the original is lost.
RetriedTwice(c) ==
    /\ wire[c].at = "failed" /\ wire[c].n < MaxNoticeRetries
    /\ \E d \in Wires :
          /\ wire[d].at = "none"
          /\ wire' = [wire EXCEPT ![c] = [at |-> "queue", n |-> wire[c].n],
                                  ![d] = [at |-> "queue", n |-> wire[c].n + 1]]
    /\ listening' = FALSE
    /\ UNCHANGED <<dlq, inInbox, notices>>

\* The connection or the process is lost: what was not acknowledged comes back.
ConsumerLost ==
    /\ listening
    /\ wire' = [c \in Wires |-> IF wire[c].at = "none" THEN NoWire ELSE [at |-> "queue", n |-> wire[c].n]]
    /\ listening' = FALSE
    /\ UNCHANGED <<dlq, inInbox, notices>>

\* startRabbitMqConsumer runs once, as the service starts: only a restart of
\* the process brings a lost connection back.
ServiceRestarts ==
    /\ ~listening
    /\ listening' = TRUE
    /\ UNCHANGED <<wire, dlq, inInbox, notices>>

NoticeNext ==
    \/ ConsumerLost \/ ServiceRestarts
    \/ \E c \in Wires : Consume(c) \/ HandleMessage(c) \/ AckNotice(c) \/ RetryOrDeadLetter(c) \/ RetriedTwice(c)

OnItsWay == \E c \in Wires : wire[c].at # "none"
=============================================================================
