---------------------------- MODULE UtilityOrder ----------------------------
(***************************************************************************)
(* One order of utilities-service (a phone top-up or a bill), the payment  *)
(* it opens at payment-service, and the provider that delivers it.         *)
(*                                                                         *)
(* A hand is one thread of the service: a request of the user, the         *)
(* consumer of payment events, or the recovery sweep.  Several instances   *)
(* run at once and hold no lease on the order: each change is a            *)
(* conditional update, except where the code reads first and writes after. *)
(* Payment-service is modelled as far as this service can tell: its        *)
(* checkout, the payer's decision, its refund saga.                        *)
(***************************************************************************)
EXTENDS Naturals

CONSTANTS
    Hands,              \* threads of utilities-service
    MaxRefundAttempts   \* MAX_REFUND_ATTEMPTS

ASSUME RefundIsTried == MaxRefundAttempts \in Nat \ {0}

VARIABLES
    uorder,    \* the row of UtilityOrder; "old" is older than CHECKOUT_STALE_MS
    upayment,  \* the payment of the order, at payment-service
    provider,  \* the provider's record of the order
    hand,      \* what each thread is about to do
    mail,      \* the payment's event: not sent, queued, or in utility_inbox
    overdue    \* requests whose callers no longer wait for them

orderVars == <<uorder, upayment, provider, hand, mail, overdue>>

Paid == {"SUCCESS", "REFUNDING", "REFUNDED", "REFUND_FAILED"}
Delivered == {"TIMEOUT", "SUCCESS"}

OrderTypeOK ==
    /\ uorder \in [status : {"NONE", "PENDING_PAYMENT", "PAID", "PROVIDER_PENDING", "SUCCESS", "FAILED",
                             "REFUND_REQUESTED", "REFUNDED", "REFUND_FAILED"},
                   paymentId : BOOLEAN, attempts : Nat, old : BOOLEAN,
                   why : {"", "PAYMENT_REJECTED", "CHECKOUT_NOT_CREATED", "NOT_PAID", "PROVIDER_FAILED"}]
    /\ upayment \in {"NONE", "HOLDING", "RETRYING", "PENDING", "HOLD_FAILED", "DEAD", "UNPAID", "CANCELLED"} \cup Paid
    /\ provider \in {"NONE", "FAILED"} \cup Delivered
    /\ hand \in [Hands -> {"idle", "checkout", "wait", "save", "rejected", "abandon", "fulfil", "provider", "query",
                           "delivered", "declined", "refunding", "retrying", "refund", "refunded", "refused"}]
    /\ mail \in {"none", "queued", "consumed"}
    /\ overdue \in SUBSET {"checkout", "provider", "refund"}

OrderInit ==
    /\ uorder = [status |-> "NONE", paymentId |-> FALSE, attempts |-> 0, old |-> FALSE, why |-> ""]
    /\ upayment = "NONE"
    /\ provider = "NONE"
    /\ hand = [h \in Hands |-> "idle"]
    /\ mail = "none"
    /\ overdue = {}

Does(h, from, to) == hand[h] = from /\ hand' = [hand EXCEPT ![h] = to]

\* transitionOrder: a conditional update.
Transition(from, to, why) ==
    uorder' = IF uorder.status \in from THEN [uorder EXCEPT !.status = to, !.why = why] ELSE uorder

-----------------------------------------------------------------------------
(* createUtilityOrder                                                      *)

PlaceOrder(h) ==
    /\ uorder.status = "NONE"
    /\ Does(h, "idle", "checkout")
    /\ uorder' = [uorder EXCEPT !.status = "PENDING_PAYMENT"]
    /\ UNCHANGED <<upayment, provider, mail, overdue>>

\* The same key again: an order without a payment goes on to the checkout.
ReplayOrder(h) ==
    /\ uorder.status = "PENDING_PAYMENT" /\ ~uorder.paymentId
    /\ Does(h, "idle", "checkout")
    /\ UNCHANGED <<uorder, upayment, provider, mail, overdue>>

\* PaymentService.checkout under the key util-<order>, up to the wallet's
\* answer: a first request opens the payment, one that meets another at work
\* is refused with 409, one after a failed hold tries again, others replay.
CheckoutArrives ==
    upayment' = CASE upayment = "NONE" -> "HOLDING" [] upayment = "HOLD_FAILED" -> "RETRYING" [] OTHER -> upayment

Checkout(h) ==
    /\ CheckoutArrives
    /\ Does(h, "checkout", CASE upayment \in {"NONE", "HOLD_FAILED"} -> "wait"
                             [] upayment \in {"HOLDING", "RETRYING"} -> "rejected"
                             [] OTHER -> "save")
    /\ UNCHANGED <<uorder, provider, mail, overdue>>

OverdueCheckout ==
    /\ "checkout" \in overdue
    /\ overdue' = overdue \ {"checkout"}
    /\ CheckoutArrives
    /\ UNCHANGED <<uorder, provider, hand, mail>>

\* The wallet answers the checkout's hold.  A payment whose first hold failed
\* keeps the status FAILED when a retry succeeds.
CheckoutAnswered ==
    /\ upayment \in {"HOLDING", "RETRYING"}
    /\ \/ /\ upayment' = IF upayment = "HOLDING" THEN "PENDING" ELSE "DEAD"
          /\ hand' = [h \in Hands |-> IF hand[h] = "wait" THEN "save" ELSE hand[h]]
       \/ /\ upayment' = "HOLD_FAILED"
          /\ \E then \in {"rejected", "idle"} :
                hand' = [h \in Hands |-> IF hand[h] = "wait" THEN then ELSE hand[h]]
    /\ UNCHANGED <<uorder, provider, mail, overdue>>

\* No answer within ten seconds: the order stays PENDING_PAYMENT.
CheckoutUnknown(h) ==
    /\ \/ Does(h, "checkout", "idle") /\ overdue' \in {overdue, overdue \cup {"checkout"}}
       \/ Does(h, "wait", "idle") /\ UNCHANGED overdue
    /\ UNCHANGED <<uorder, upayment, provider, mail>>

\* The payment's id is written whatever the order's status is by now.
SavePaymentId(h) ==
    /\ Does(h, "save", "idle")
    /\ uorder' = [uorder EXCEPT !.paymentId = TRUE]
    /\ UNCHANGED <<upayment, provider, mail, overdue>>

PaymentRejected(h) ==
    /\ Does(h, "rejected", "idle")
    /\ Transition({"PENDING_PAYMENT"}, "FAILED", "PAYMENT_REJECTED")
    /\ UNCHANGED <<upayment, provider, mail, overdue>>

\* The sweep reads paymentId, and updates on the status alone.
SweepAbandoned(h) ==
    \/ /\ uorder.status = "PENDING_PAYMENT" /\ uorder.old /\ ~uorder.paymentId
       /\ Does(h, "idle", "abandon")
       /\ UNCHANGED <<uorder, upayment, provider, mail, overdue>>
    \/ /\ Does(h, "abandon", "idle")
       /\ Transition({"PENDING_PAYMENT"}, "FAILED", "CHECKOUT_NOT_CREATED")
       /\ UNCHANGED <<upayment, provider, mail, overdue>>

OrderGrowsOld ==
    /\ uorder.status = "PENDING_PAYMENT" /\ ~uorder.old
    /\ uorder' = [uorder EXCEPT !.old = TRUE]
    /\ UNCHANGED <<upayment, provider, hand, mail, overdue>>

-----------------------------------------------------------------------------
(* The payer, and the payment's event                                      *)

\* A cancelled payment has no event that this service is bound to.
PayerDecides ==
    /\ upayment = "PENDING"
    /\ \E s \in {"SUCCESS", "UNPAID", "CANCELLED"} :
          upayment' = s /\ mail' = IF s = "CANCELLED" THEN mail ELSE "queued"
    /\ UNCHANGED <<uorder, provider, hand, overdue>>

\* createUtilityInbox: one transaction with the inbox row, so that a
\* redelivery changes nothing.
ConsumedOnce == mail = "queued" /\ mail' = "consumed"

\* Mutant: the order is given the payment's status for a reason.
HandleUtilityEvent_Expired(h) ==
    /\ ConsumedOnce
    /\ hand[h] = "idle" /\ UNCHANGED hand
    /\ IF uorder.paymentId /\ upayment = "UNPAID"
       THEN Transition({"PENDING_PAYMENT"}, "EXPIRED", "NOT_PAID") ELSE UNCHANGED uorder
    /\ UNCHANGED <<upayment, provider, overdue>>

\* An event whose payment no order knows yet is consumed and forgotten.
HandleUtilityEvent(h) ==
    /\ ConsumedOnce
    /\ IF uorder.paymentId /\ uorder.status = "PENDING_PAYMENT" /\ upayment # "UNPAID"
       THEN Does(h, "idle", "fulfil") /\ Transition({"PENDING_PAYMENT"}, "PAID", "")
       ELSE /\ hand[h] = "idle" /\ UNCHANGED hand
            /\ IF uorder.paymentId /\ upayment = "UNPAID"
               THEN Transition({"PENDING_PAYMENT"}, "FAILED", "NOT_PAID") ELSE UNCHANGED uorder
    /\ UNCHANGED <<upayment, provider, overdue>>

-----------------------------------------------------------------------------
(* fulfillPaidOrder, settleProviderOutcome                                 *)

SweepPaid(h) ==
    /\ uorder.status = "PAID"
    /\ Does(h, "idle", "fulfil")
    /\ UNCHANGED <<uorder, upayment, provider, mail, overdue>>

FulfillPaidOrder(h) ==
    /\ Does(h, "fulfil", IF uorder.status = "PAID" THEN "provider" ELSE "idle")
    /\ Transition({"PAID"}, "PROVIDER_PENDING", uorder.why)
    /\ UNCHANGED <<upayment, provider, mail, overdue>>

\* The provider decides once per order; TIMEOUT is a delivery whose answer is lost.
Execute == provider' \in IF provider = "NONE" THEN {"SUCCESS", "FAILED", "TIMEOUT"} ELSE {provider}

\* Mutant: no answer counts as a refusal.
Heard_TimeoutIsFailure(outcome) ==
    CASE outcome = "SUCCESS" -> "delivered" [] outcome \in {"FAILED", "TIMEOUT"} -> "declined" [] OTHER -> "idle"

Heard(outcome) ==
    CASE outcome = "SUCCESS" -> "delivered" [] outcome = "FAILED" -> "declined" [] OTHER -> "idle"

CallProvider(h) ==
    /\ \/ Execute /\ Does(h, "provider", Heard(provider')) /\ UNCHANGED overdue
       \/ /\ Does(h, "provider", Heard("TIMEOUT")) /\ UNCHANGED provider
          /\ overdue' \in {overdue, overdue \cup {"provider"}}
    /\ UNCHANGED <<uorder, upayment, mail>>

OverdueProvider ==
    /\ "provider" \in overdue
    /\ overdue' = overdue \ {"provider"}
    /\ Execute
    /\ UNCHANGED <<uorder, upayment, hand, mail>>

\* The sweep reads the order; asking reveals what a lost answer was.
SweepProvider(h) ==
    \/ /\ uorder.status = "PROVIDER_PENDING"
       /\ Does(h, "idle", "query")
       /\ UNCHANGED <<uorder, upayment, provider, mail, overdue>>
    \/ /\ Does(h, "query", "idle")
       /\ UNCHANGED <<uorder, upayment, provider, mail, overdue>>

Reveal == provider' = IF provider = "TIMEOUT" THEN "SUCCESS" ELSE provider

QueryProvider(h) ==
    /\ Reveal
    /\ Does(h, "query", Heard(provider'))
    /\ UNCHANGED <<uorder, upayment, mail, overdue>>

\* Mutant: the order is expected in the status it had before the claim.
ProviderSucceeded_FromPaid(h) ==
    /\ Does(h, "delivered", "idle")
    /\ Transition({"PAID"}, "SUCCESS", uorder.why)
    /\ UNCHANGED <<upayment, provider, mail, overdue>>

ProviderSucceeded(h) ==
    /\ Does(h, "delivered", "idle")
    /\ Transition({"PROVIDER_PENDING"}, "SUCCESS", uorder.why)
    /\ UNCHANGED <<upayment, provider, mail, overdue>>

-----------------------------------------------------------------------------
(* Refunds: each reads the row, and writes it without looking again        *)

StartRefund(h) ==
    \/ /\ Does(h, "declined", IF uorder.status \in {"PAID", "PROVIDER_PENDING"} THEN "refunding" ELSE "idle")
       /\ UNCHANGED <<uorder, upayment, provider, mail, overdue>>
    \/ /\ Does(h, "refunding", "refund")
       /\ uorder' = [uorder EXCEPT !.status = "REFUND_REQUESTED", !.why = "PROVIDER_FAILED", !.attempts = @ + 1]
       /\ UNCHANGED <<upayment, provider, mail, overdue>>

RetryRefund(h) ==
    \/ /\ uorder.status = "REFUND_REQUESTED" /\ uorder.attempts < MaxRefundAttempts
       /\ Does(h, "idle", "retrying")
       /\ UNCHANGED <<uorder, upayment, provider, mail, overdue>>
    \/ /\ Does(h, "retrying", "refund")
       /\ uorder' = [uorder EXCEPT !.attempts = @ + 1]
       /\ UNCHANGED <<upayment, provider, mail, overdue>>

\* POST /payments/:id/refund: a payment under refund or refunded replays.
RequestRefund == upayment' = IF upayment = "SUCCESS" THEN "REFUNDING" ELSE upayment

RefundReply(state) ==
    CASE state = "REFUNDED" -> "refunded" [] state = "REFUND_FAILED" -> "refused" [] OTHER -> "idle"

ExecuteRefund(h) ==
    /\ \/ RequestRefund /\ Does(h, "refund", RefundReply(upayment')) /\ UNCHANGED overdue
       \/ /\ Does(h, "refund", "idle") /\ UNCHANGED upayment
          /\ overdue' \in {overdue, overdue \cup {"refund"}}
    /\ UNCHANGED <<uorder, provider, mail>>

OverdueRefund ==
    /\ "refund" \in overdue
    /\ overdue' = overdue \ {"refund"}
    /\ RequestRefund
    /\ UNCHANGED <<uorder, provider, hand, mail>>

RefundConfirmed(h) ==
    /\ \/ Does(h, "refunded", "idle") /\ Transition({"REFUND_REQUESTED"}, "REFUNDED", uorder.why)
       \/ Does(h, "refused", "idle") /\ Transition({"REFUND_REQUESTED"}, "REFUND_FAILED", uorder.why)
    /\ UNCHANGED <<upayment, provider, mail, overdue>>

\* The refund saga of payment-service decides.
RefundSagaEnds ==
    /\ upayment = "REFUNDING"
    /\ upayment' \in {"REFUNDED", "REFUND_FAILED"}
    /\ UNCHANGED <<uorder, provider, hand, mail, overdue>>

HandDies(h) ==
    /\ hand[h] # "idle"
    /\ hand' = [hand EXCEPT ![h] = "idle"]
    /\ overdue' \in {overdue, overdue \cup ({hand[h]} \cap {"checkout", "provider", "refund"})}
    /\ UNCHANGED <<uorder, upayment, provider, mail>>

-----------------------------------------------------------------------------
OrderNext ==
    \/ OverdueCheckout \/ CheckoutAnswered \/ OrderGrowsOld \/ PayerDecides
    \/ OverdueProvider \/ OverdueRefund \/ RefundSagaEnds
    \/ \E h \in Hands :
          \/ PlaceOrder(h) \/ ReplayOrder(h) \/ Checkout(h) \/ CheckoutUnknown(h)
          \/ SavePaymentId(h) \/ PaymentRejected(h) \/ SweepAbandoned(h)
          \/ HandleUtilityEvent(h) \/ SweepPaid(h) \/ FulfillPaidOrder(h)
          \/ CallProvider(h) \/ SweepProvider(h) \/ QueryProvider(h) \/ ProviderSucceeded(h)
          \/ StartRefund(h) \/ RetryRefund(h) \/ ExecuteRefund(h) \/ RefundConfirmed(h)
          \/ HandDies(h)

OrderSpec == OrderInit /\ [][OrderNext]_orderVars

\* The sweep runs for ever, the provider answers some of its questions, and a
\* thread is not always killed before it writes what it heard.
OrderFairness ==
    /\ SF_orderVars(\E h \in Hands : SweepPaid(h) \/ (hand[h] = "idle" /\ SweepProvider(h)))
    /\ SF_orderVars(\E h \in Hands : FulfillPaidOrder(h) \/ QueryProvider(h))
    /\ SF_orderVars(\E h \in Hands : ProviderSucceeded(h) \/ (hand[h] = "declined" /\ StartRefund(h)))
    /\ SF_orderVars(\E h \in Hands : hand[h] = "refunding" /\ StartRefund(h))

-----------------------------------------------------------------------------
\* Never both delivered and given back: a provider that may have delivered is
\* never followed by a refund, and nothing is delivered that was not paid for.
DeliveredOrRefunded ==
    /\ provider \in Delivered => upayment = "SUCCESS"
    /\ provider # "NONE" \/ "provider" \in overdue => upayment \in Paid

\* And what the order says of the money and of the delivery is so, though
\* sweeps, events and requests write it in any order.
OrderTellsTruth ==
    /\ DeliveredOrRefunded
    /\ uorder.status = "SUCCESS" => provider = "SUCCESS" /\ upayment = "SUCCESS"
    /\ uorder.status = "REFUNDED" => upayment = "REFUNDED"
    /\ uorder.status = "REFUND_FAILED" => upayment = "REFUND_FAILED"
    /\ uorder.status \in {"REFUND_REQUESTED", "REFUNDED", "REFUND_FAILED"} => provider = "FAILED"

\* A paid order is taken to the provider, and once the provider has heard of
\* it the order ends or its refund is asked for, whichever threads die on the
\* way and whatever answers are lost.
PaidOrderProceeds ==
    OrderFairness =>
        /\ uorder.status = "PAID" ~> uorder.status # "PAID"
        /\ (uorder.status = "PROVIDER_PENDING" /\ provider # "NONE")
              ~> uorder.status \in {"SUCCESS", "REFUND_REQUESTED", "REFUNDED", "REFUND_FAILED"}

\* paymentClient.ts: "A definite 4xx answer means payment-service rejected the
\* request and no payment will be created."
RejectedMeansNoPayment ==
    uorder.why = "PAYMENT_REJECTED" => upayment \notin {"PENDING", "SUCCESS"}
=============================================================================
