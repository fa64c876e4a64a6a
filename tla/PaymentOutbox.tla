---------------------------- MODULE PaymentOutbox ----------------------------
(***************************************************************************)
(* One row of payment-service's outbox (any but payment.refund_requested,  *)
(* see RefundSaga) and the drains that deliver it, one on each instance.   *)
(*                                                                         *)
(* A row in the shared envelope goes to finvault.events; one of the older  *)
(* kind to the exchange payment.events, or, when the broker cannot be      *)
(* reached, to notification-service over HTTP.  A claim is a lease of two  *)
(* minutes with a token, so that a drain that stalls is superseded.        *)
(***************************************************************************)
EXTENDS BrokerLink

CONSTANTS
    Drains,       \* instances of the job; a new claim of one follows the end of its last
    NoDrain,
    MaxLegacyRetries

ASSUME NoDrainIsNoDrain == NoDrain \notin Drains
ASSUME SomeLegacyRetry == MaxLegacyRetries \in Nat \ {0}

VARIABLES
    kind,      \* what buildPaymentFinvaultEvent and legacyMessage make of the row
    outrow,    \* the row: status, lockToken, lease, nextRetryAt, retryCount
    draining,  \* what each drain is about to do
    arrived,   \* the ways the event has reached RabbitMQ or notification-service
    answer     \* "4xx" once notification-service has refused the event

payOutVars == <<link, kind, outrow, draining, arrived, answer>>

\* An envelope; an event of the older kind, which rows of earlier versions are;
\* payment.refunded or payment.refund_failed, which neither of the two knows;
\* one that cannot be read.
Kinds == {"envelope", "legacy", "refundOutcome", "broken"}

PayOutTypeOK ==
    /\ kind \in Kinds
    /\ outrow \in [status : {"PENDING", "PROCESSING", "SENT", "FAILED"}, token : Drains \cup {NoDrain},
                   lease : BOOLEAN, waiting : BOOLEAN, retries : 0..MaxLegacyRetries]
    /\ draining \in [Drains -> {"idle", "read", "publish", "legacy", "http", "sent", "failed", "again", "rejected", "retryHttp"}]
    /\ arrived \in SUBSET {"envelope", "legacy", "http"}
    /\ answer \in {"none", "4xx"}

PayOutInit ==
    /\ LinkInit
    /\ kind \in Kinds
    /\ outrow = [status |-> "PENDING", token |-> NoDrain, lease |-> FALSE, waiting |-> FALSE, retries |-> 0]
    /\ draining = [d \in Drains |-> "idle"]
    /\ arrived = {}
    /\ answer = "none"

DrainStep(d, from, to) == draining[d] = from /\ draining' = [draining EXCEPT ![d] = to]

-----------------------------------------------------------------------------
\* Mutant: only PENDING rows are claimed.
ClaimPaymentOutboxEvents_PendingOnly(d) ==
    /\ DrainStep(d, "idle", "read")
    /\ outrow.status = "PENDING" /\ ~outrow.waiting
    /\ outrow' = [outrow EXCEPT !.status = "PROCESSING", !.token = d, !.lease = TRUE]
    /\ UNCHANGED <<link, kind, arrived, answer>>

ClaimPaymentOutboxEvents(d) ==
    /\ DrainStep(d, "idle", "read")
    /\ \/ outrow.status = "PENDING" /\ ~outrow.waiting
       \/ outrow.status = "PROCESSING" /\ ~outrow.lease
    /\ outrow' = [outrow EXCEPT !.status = "PROCESSING", !.token = d, !.lease = TRUE]
    /\ UNCHANGED <<link, kind, arrived, answer>>

\* The row is read again under the token.
ProcessClaimedEvent(d) ==
    /\ DrainStep(d, "read",
          CASE ~(outrow.status = "PROCESSING" /\ outrow.token = d) -> "idle"
            [] outrow.status = "PROCESSING" /\ outrow.token = d ->
                  CASE kind = "envelope" -> "publish"
                    [] kind = "legacy" -> "legacy"
                    [] kind = "refundOutcome" -> "sent"
                    [] kind = "broken" -> "failed")
    /\ UNCHANGED <<link, kind, outrow, arrived, answer>>

\* A publication that throws may still have reached the broker.
PublishEnvelope(d) ==
    /\ \/ DrainStep(d, "publish", "sent") /\ arrived' = arrived \cup {"envelope"}
       \/ DrainStep(d, "publish", "again") /\ arrived' \in {arrived, arrived \cup {"envelope"}}
    /\ UNCHANGED <<link, kind, outrow, answer>>

PublishLegacy(d) ==
    /\ \/ Publishing("confirmed") /\ DrainStep(d, "legacy", "sent") /\ arrived' = arrived \cup {"legacy"}
       \/ Publishing("unconfirmed") /\ DrainStep(d, "legacy", "http") /\ arrived' \in {arrived, arrived \cup {"legacy"}}
       \/ Publishing("down") /\ DrainStep(d, "legacy", "http") /\ UNCHANGED arrived
    /\ UNCHANGED <<kind, outrow, answer>>

\* Mutant: a row is SENT though the service gave no answer.
SendHttp_ErrorIsRejection(d) ==
    /\ \/ DrainStep(d, "http", "sent") /\ arrived' = arrived \cup {"http"}
       \/ DrainStep(d, "http", "sent") /\ arrived' \in {arrived, arrived \cup {"http"}}
    /\ UNCHANGED <<link, kind, outrow, answer>>

\* NotificationClient.send: an answer, a rejection (4xx), or neither.
SendHttp(d) ==
    /\ \/ DrainStep(d, "http", "sent") /\ arrived' = arrived \cup {"http"} /\ UNCHANGED answer
       \/ DrainStep(d, "http", "rejected") /\ UNCHANGED arrived /\ answer' = "4xx"
       \/ DrainStep(d, "http", "retryHttp") /\ arrived' \in {arrived, arrived \cup {"http"}} /\ UNCHANGED answer
    /\ UNCHANGED <<link, kind, outrow>>

\* updateClaimed: under the token, or not at all.
UpdateClaimed(d, status, wait, retries) ==
    outrow' = IF outrow.status = "PROCESSING" /\ outrow.token = d
              THEN [status |-> status, token |-> NoDrain, lease |-> FALSE, waiting |-> wait, retries |-> retries]
              ELSE outrow

\* Only an event of the older kind has a limit to its retries, up to which they
\* are counted here.
Counted == IF kind = "legacy" /\ outrow.retries < MaxLegacyRetries THEN outrow.retries + 1 ELSE outrow.retries

\* A mark that fails after an event of the older kind was sent counts as a retry.
MarkRow(d) ==
    LET last == Counted = MaxLegacyRetries
    IN  /\ \/ DrainStep(d, "sent", "retryHttp") /\ kind = "legacy" /\ UNCHANGED outrow
           \/ DrainStep(d, "sent", "idle") /\ UpdateClaimed(d, "SENT", FALSE, outrow.retries)
           \/ DrainStep(d, "failed", "idle") /\ UpdateClaimed(d, "FAILED", FALSE, outrow.retries)
           \/ DrainStep(d, "again", "idle") /\ UpdateClaimed(d, "PENDING", TRUE, Counted)
           \/ DrainStep(d, "rejected", "idle") /\ UpdateClaimed(d, "FAILED", FALSE, Counted)
           \/ DrainStep(d, "retryHttp", "idle")
                 /\ UpdateClaimed(d, IF last THEN "FAILED" ELSE "PENDING", ~last, Counted)
        /\ UNCHANGED <<link, kind, arrived, answer>>

\* A database error on the way gives the claim back, which counts as a retry, or
\* not even that.
DrainFails(d) ==
    /\ draining[d] # "idle"
    /\ draining' = [draining EXCEPT ![d] = "idle"]
    /\ UpdateClaimed(d, "PENDING", TRUE, Counted) \/ UNCHANGED outrow
    /\ UNCHANGED <<link, kind, arrived, answer>>

OutboxLeaseLapses ==
    /\ outrow.lease
    /\ outrow' = [outrow EXCEPT !.lease = FALSE]
    /\ UNCHANGED <<link, kind, draining, arrived, answer>>

RetryFallsDue ==
    /\ outrow.waiting
    /\ outrow' = [outrow EXCEPT !.waiting = FALSE]
    /\ UNCHANGED <<link, kind, draining, arrived, answer>>

PayOutNext ==
    \/ LinkNext /\ UNCHANGED <<kind, outrow, draining, arrived, answer>>
    \/ OutboxLeaseLapses \/ RetryFallsDue
    \/ \E d \in Drains :
          \/ ClaimPaymentOutboxEvents(d) \/ ProcessClaimedEvent(d)
          \/ PublishEnvelope(d) \/ PublishLegacy(d) \/ SendHttp(d)
          \/ MarkRow(d) \/ DrainFails(d)

PayOutSpec == PayOutInit /\ [][PayOutNext]_payOutVars

\* The job runs every second, and what a drain is at comes to an end; neither a
\* crash nor a lapse takes its claim away every time.
PayOutFairness ==
    LET Mine(d) == outrow.status = "PROCESSING" /\ outrow.token = d
    IN  /\ WF_payOutVars(OutboxLeaseLapses) /\ WF_payOutVars(RetryFallsDue)
        /\ \A d \in Drains :
              WF_payOutVars(ProcessClaimedEvent(d) \/ PublishEnvelope(d) \/ PublishLegacy(d) \/ SendHttp(d) \/ MarkRow(d))
        /\ SF_payOutVars(\E d \in Drains : ClaimPaymentOutboxEvents(d))
        /\ SF_payOutVars(\E d \in Drains : Mine(d) /\ ProcessClaimedEvent(d))
        /\ SF_payOutVars(\E d \in Drains : Mine(d) /\ PublishEnvelope(d) /\ draining'[d] = "sent")
        /\ SF_payOutVars(\E d \in Drains : Mine(d) /\ PublishLegacy(d))
        /\ SF_payOutVars(\E d \in Drains : Mine(d) /\ SendHttp(d))
        /\ SF_payOutVars(\E d \in Drains : Mine(d) /\ draining[d] # "again" /\ MarkRow(d) /\ draining'[d] = "idle")

-----------------------------------------------------------------------------
\* Whatever drains stall, die or repeat, a row is SENT only if its event has
\* reached the broker or the service, and given up only if it cannot be read, if
\* the service has refused it or if its retries are used up.  The outcome of a
\* refund is left to SentMeansTold.
SentIsTold ==
    /\ outrow.status = "SENT" /\ kind # "refundOutcome" => arrived # {}
    /\ outrow.status = "FAILED" =>
          \/ kind = "broken"
          \/ kind = "legacy" /\ (answer = "4xx" \/ outrow.retries = MaxLegacyRetries)

\* docs/k13-refund-saga.md: payment.refunded is published, to tell the customer.
SentMeansTold == outrow.status = "SENT" => arrived # {}

\* Every row is done with in the end, however often its drain dies.
RowIsDone == PayOutFairness => <>(outrow.status \in {"SENT", "FAILED"})
=============================================================================
