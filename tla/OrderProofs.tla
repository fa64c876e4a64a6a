---------------------------- MODULE OrderProofs ----------------------------
(***************************************************************************)
(* For any number of workers and threads: the refund saga of               *)
(* payment-service, and the order of utilities-service.  Both write rows   *)
(* they have read before; what carries the arguments is what is never      *)
(* undone: a reversal at the wallet, a refusal of the provider.  Then the  *)
(* components of MCOrders side by side.                                    *)
(***************************************************************************)
EXTENDS MCOrders, EventProofs

-----------------------------------------------------------------------------
(* RefundSaga                                                              *)

\* A refund that is reported was made, and a payment that is REFUNDING still has
\* its request: the worker that is about to write REFUNDED has heard so from the
\* wallet, and a reversal is never undone.
AskRow == [status : {"NONE", "PENDING", "PROCESSING", "SENT", "FAILED"},
           lock : Workers \cup {NoToken}, leased : BOOLEAN]

Evidence == \A w \in Workers : pc[w] = "done" => returned

\* A claimed row is PROCESSING, and an outcome is announced with the status.
ClaimFits ==
    /\ ask.lock # NoToken => ask.status = "PROCESSING"
    /\ told # {} => status \in {"REFUNDED", "REFUND_FAILED"}

RefundInv == RefundTypeOK /\ Evidence /\ ClaimFits /\ RefundedMeansReturned /\ RefundingIsOwed

USE TokenIsNoWorker
USE DEF RefundInv, RefundTypeOK, AskRow, Evidence, ClaimFits, RefundedMeansReturned, RefundingIsOwed

LEMMA InitRefund == RefundInit => RefundInv
<1> SUFFICES ASSUME RefundInit PROVE RefundInv
  OBVIOUS
<1>1. RefundTypeOK
  BY DEF RefundInit
<1>2. Evidence /\ ClaimFits /\ RefundedMeansReturned /\ RefundingIsOwed
  BY DEF RefundInit
<1> QED BY <1>1, <1>2

LEMMA StepRequest == RefundInv /\ Request => RefundInv'
  BY DEF Request

LEMMA StepAskClaim == ASSUME NEW w \in Workers, RefundInv, ClaimAsk(w) PROVE RefundInv'
  BY DEF ClaimAsk, Goto

LEMMA StepAskLapses == ASSUME RefundInv, AskLeaseLapses PROVE RefundInv'
<1>1. ask'.status = ask.status /\ ask'.lock = ask.lock /\ ask' \in AskRow
  BY DEF AskLeaseLapses
<1>2. UNCHANGED <<status, tried, returned, late, pc, told>>
  BY DEF AskLeaseLapses
<1> QED BY <1>1, <1>2

\* What giving up a row leaves behind.
LEMMA CloseAskRow ==
    ASSUME NEW w \in Workers, NEW as \in {"SENT", "FAILED", "PENDING"}, RefundInv, CloseAsk(w, as)
    PROVE  /\ ask' \in AskRow
           /\ ask' = ask \/ (ask'.status = as /\ ask'.lock = NoToken)
           /\ ask'.lock # NoToken => ask'.status = "PROCESSING"
<1>1. CASE ask.lock = w
  <2>1. ask' = [status |-> as, lock |-> NoToken, leased |-> FALSE]
    BY <1>1 DEF CloseAsk
  <2>2. ask'.status = as /\ ask'.lock = NoToken /\ ask'.leased = FALSE
    BY <2>1
  <2>3. ask' \in AskRow
    BY <2>1
  <2> QED BY <2>2, <2>3
<1>2. CASE ask.lock # w
  <2>1. ask' = ask
    BY <1>2 DEF CloseAsk
  <2> QED BY <2>1
<1> QED BY <1>1, <1>2

LEMMA StepRead == ASSUME NEW w \in Workers, RefundInv, Read(w) PROVE RefundInv'
<1>1. UNCHANGED <<status, tried, returned, late, told>>
  BY Zenon DEF Read
<1>2. CASE ask' = ask
  <2>1. \E to \in {"idle", "lookup", "call"} : pc' = [pc EXCEPT ![w] = to]
    BY DEF Read, ReadEvent, Goto
  <2> QED BY <1>1, <1>2, <2>1
<1>3. CASE ask' # ask
  <2>1. /\ pc' = [pc EXCEPT ![w] = "idle"]
        /\ \/ status = "REFUNDED" /\ CloseAsk(w, "SENT")
           \/ status = "REFUND_FAILED" /\ CloseAsk(w, "FAILED")
    BY <1>3 DEF Read, ReadEvent, Goto
  <2>2. CASE status = "REFUNDED" /\ CloseAsk(w, "SENT")
    BY <1>1, <2>1, <2>2, CloseAskRow
  <2>3. CASE status = "REFUND_FAILED" /\ CloseAsk(w, "FAILED")
    BY <1>1, <2>1, <2>3, CloseAskRow
  <2> QED BY <2>1, <2>2, <2>3
<1> QED BY <1>2, <1>3

LEMMA StepLookup == ASSUME NEW w \in Workers, RefundInv, Lookup(w) PROVE RefundInv'
  BY DEF Lookup, LookupReply, Goto

LEMMA StepAnswer == ASSUME NEW w \in Workers, RefundInv, Answer(w) PROVE RefundInv'
  BY DEF Answer, Reverse, Goto, After

LEMMA StepNoAnswer == ASSUME NEW w \in Workers, RefundInv, NoAnswer(w) PROVE RefundInv'
  BY DEF NoAnswer, Goto, After

LEMMA StepLateRequest == ASSUME RefundInv, LateRequest PROVE RefundInv'
  BY DEF LateRequest, Reverse

LEMMA StepRefunded == ASSUME NEW w \in Workers, RefundInv, Refunded(w) PROVE RefundInv'
<1>1. /\ pc[w] = "done" /\ pc' = [pc EXCEPT ![w] = "idle"]
      /\ status' = "REFUNDED" /\ told' = told \cup {"payment.refunded"}
      /\ CloseAsk(w, "SENT") /\ UNCHANGED <<tried, returned, late>>
  BY Zenon DEF Refunded, Goto
<1> QED BY <1>1, CloseAskRow

LEMMA StepRefundFailed == ASSUME NEW w \in Workers, RefundInv, RefundFailed(w) PROVE RefundInv'
<1>1. /\ pc[w] = "refused" /\ pc' = [pc EXCEPT ![w] = "idle"]
      /\ status' = "REFUND_FAILED" /\ told' = told \cup {"payment.refund_failed"}
      /\ CloseAsk(w, "FAILED") /\ UNCHANGED <<tried, returned, late>>
  BY Zenon DEF RefundFailed, Goto
<1> QED BY <1>1, CloseAskRow

LEMMA StepRetry == ASSUME NEW w \in Workers, RefundInv, Retry(w) PROVE RefundInv'
<1>1. /\ pc[w] = "unsure" /\ pc' = [pc EXCEPT ![w] = "idle"] /\ tried' = TRUE
      /\ CloseAsk(w, "PENDING") /\ UNCHANGED <<status, returned, late, told>>
  BY Zenon DEF Retry, Goto
<1> QED BY <1>1, CloseAskRow

LEMMA StepCrash == ASSUME NEW w \in Workers, RefundInv, Crash(w) PROVE RefundInv'
  BY DEF Crash

LEMMA StepRefund == RefundInv /\ [RefundNext]_refundVars => RefundInv'
<1> SUFFICES ASSUME RefundInv, [RefundNext]_refundVars PROVE RefundInv'
  OBVIOUS
<1>1. CASE UNCHANGED refundVars
  BY <1>1 DEF refundVars
<1>2. CASE RefundNext
  BY <1>2, StepRequest, StepAskClaim, StepAskLapses, StepRead, StepLookup, StepAnswer,
     StepNoAnswer, StepLateRequest, StepRefunded, StepRefundFailed, StepRetry, StepCrash, Zenon
     DEF RefundNext
<1> QED BY <1>1, <1>2

\* However many workers hold the request, a REFUNDED payment, its event and a
\* SENT request all mean that the wallet has reversed the capture.
THEOREM RefundIsReal == RefundSpec => []RefundedMeansReturned
<1>1. RefundInv => RefundedMeansReturned
  OBVIOUS
<1> QED BY <1>1, InitRefund, StepRefund, PTL DEF RefundSpec

\* No lapse, crash or lost answer makes a payment REFUNDING without a request.
THEOREM RefundIsOwed == RefundSpec => []RefundingIsOwed
<1>1. RefundInv => RefundingIsOwed
  OBVIOUS
<1> QED BY <1>1, InitRefund, StepRefund, PTL DEF RefundSpec

\* The payment, the request and its workers keep their types.
THEOREM RefundTypeCorrect == RefundSpec => []RefundTypeOK
<1>1. RefundInv => RefundTypeOK
  OBVIOUS
<1> QED BY <1>1, InitRefund, StepRefund, PTL DEF RefundSpec

-----------------------------------------------------------------------------
(* UtilityOrder                                                            *)

HIDE TokenIsNoWorker
HIDE DEF RefundInv, RefundTypeOK, AskRow, Evidence, ClaimFits, RefundedMeansReturned, RefundingIsOwed

OrderStatuses == {"NONE", "PENDING_PAYMENT", "PAID", "PROVIDER_PENDING", "SUCCESS", "FAILED",
             "REFUND_REQUESTED", "REFUNDED", "REFUND_FAILED"}
Whys == {"", "PAYMENT_REJECTED", "CHECKOUT_NOT_CREATED", "NOT_PAID", "PROVIDER_FAILED"}
Orders == [status : OrderStatuses, paymentId : BOOLEAN, attempts : Nat, old : BOOLEAN, why : Whys]
Steps == {"idle", "checkout", "wait", "save", "rejected", "abandon", "fulfil", "provider", "query",
          "delivered", "declined", "refunding", "retrying", "refund", "refunded", "refused"}

\* What a row in a status says of the payment and of the delivery.
StatusFits(s) ==
    /\ s \notin {"NONE", "PENDING_PAYMENT", "FAILED"} => upayment \in Paid
    /\ s \in {"REFUND_REQUESTED", "REFUNDED", "REFUND_FAILED"} => provider = "FAILED"
    /\ s = "SUCCESS" => provider = "SUCCESS"
    /\ s = "REFUNDED" => upayment = "REFUNDED"
    /\ s = "REFUND_FAILED" => upayment = "REFUND_FAILED"

\* What a thread knows that is about to take a step.
StepFits(s) ==
    /\ s = "provider" => upayment \in Paid
    /\ s \in {"declined", "refunding", "retrying", "refund", "refunded", "refused"} => provider = "FAILED"
    /\ s = "delivered" => provider = "SUCCESS"
    /\ s = "refunded" => upayment = "REFUNDED"
    /\ s = "refused" => upayment = "REFUND_FAILED"

\* The provider is asked after the payment, and only its refusal leads to a
\* refund.
PaymentFits ==
    /\ provider \in {"NONE", "FAILED", "TIMEOUT", "SUCCESS"}
    /\ mail = "queued" => upayment \in Paid \cup {"UNPAID"}
    /\ provider # "NONE" \/ "provider" \in overdue => upayment \in Paid
    /\ "refund" \in overdue \/ upayment \in Paid \ {"SUCCESS"} => provider = "FAILED"

RowFits == uorder \in Orders /\ StatusFits(uorder.status) /\ PaymentFits

OrderInv == RowFits /\ hand \in [Hands -> Steps] /\ \A h \in Hands : StepFits(hand[h])

\* What is never undone, whatever the other threads have read before.
Lasts ==
    /\ upayment \in Paid => upayment' \in Paid
    /\ upayment \in {"UNPAID", "REFUNDED", "REFUND_FAILED"} => upayment' = upayment
    /\ provider \in {"FAILED", "SUCCESS"} => provider' = provider

LEMMA InitOrder == OrderInit => OrderInv
  <1> SUFFICES ASSUME OrderInit PROVE OrderInv
    OBVIOUS
  <1>1. uorder \in Orders
    BY DEF OrderInit, Orders, OrderStatuses, Whys
  <1>2. StatusFits(uorder.status) /\ PaymentFits
    BY DEF OrderInit, StatusFits, PaymentFits, Paid
  <1>3. hand \in [Hands -> Steps] /\ \A h \in Hands : StepFits(hand[h])
    BY DEF OrderInit, Steps, StepFits
  <1> QED BY <1>1, <1>2, <1>3 DEF OrderInv, RowFits

LEMMA StillFits ==
    ASSUME Lasts, NEW s
    PROVE  (StatusFits(s) => StatusFits(s)') /\ (StepFits(s) => StepFits(s)')
  BY DEF Lasts, StatusFits, StepFits

\* One thread goes on to a step, the others stay where they are.
LEMMA Turn ==
    ASSUME OrderInv, Lasts, RowFits',
           NEW h \in Hands, NEW s \in Steps, hand' = [hand EXCEPT ![h] = s], StepFits(s)'
    PROVE  OrderInv'
  <1>1. hand' \in [Hands -> Steps]
    BY DEF OrderInv
  <1>2. ASSUME NEW g \in Hands PROVE StepFits(hand[g])'
    <2>1. CASE g = h
      BY <2>1 DEF OrderInv
    <2>2. CASE g # h
      <3>1. hand'[g] = hand[g] /\ StepFits(hand[g])
        BY <2>2 DEF OrderInv
      <3>2. StepFits(hand[g]) => StepFits(hand[g])'
        BY <3>1, StillFits DEF StepFits
      <3> QED BY <3>1, <3>2
    <2> QED BY <2>1, <2>2
  <1> QED BY <1>1, <1>2 DEF OrderInv
\* A thread that only moves on, knowing what it knew.
LEMMA OnlyMoves ==
    ASSUME OrderInv, UNCHANGED <<uorder, upayment, provider, mail, overdue>>,
           NEW h \in Hands, NEW s \in Steps, Does(h, hand[h], s), StepFits(s)
    PROVE  OrderInv'
  <1>1. Lasts /\ RowFits' /\ StepFits(s)'
    BY DEF Lasts, OrderInv, RowFits, StatusFits, PaymentFits, StepFits
  <1> QED BY <1>1, Turn DEF Does

LEMMA TransitionFits ==
    ASSUME uorder \in Orders, NEW from, NEW to \in OrderStatuses, NEW why \in Whys, Transition(from, to, why)
    PROVE  uorder' \in Orders /\ (uorder' = uorder \/ (uorder.status \in from /\ uorder'.status = to))
  <1>1. CASE uorder' = [uorder EXCEPT !.status = to, !.why = why] /\ uorder.status \in from
    BY <1>1 DEF Orders
  <1>2. CASE uorder' = uorder
    BY <1>2
  <1> QED BY <1>1, <1>2 DEF Transition

\* transitionOrder writes a status the payment and the provider bear out.
LEMMA Writes ==
    ASSUME OrderInv, UNCHANGED <<upayment, provider, mail, overdue>>,
           NEW from, NEW to \in OrderStatuses, NEW why \in Whys, Transition(from, to, why),
           uorder.status \in from => StatusFits(to)
    PROVE  RowFits' /\ Lasts
  <1>1. Lasts /\ PaymentFits'
    BY DEF Lasts, OrderInv, RowFits, PaymentFits
  <1>2. uorder' \in Orders /\ (uorder' = uorder \/ (uorder.status \in from /\ uorder'.status = to))
    BY TransitionFits DEF OrderInv, RowFits
  <1>3. StatusFits(uorder.status)'
    <2>1. CASE uorder' = uorder
      BY <2>1 DEF OrderInv, RowFits, StatusFits
    <2>2. CASE uorder.status \in from /\ uorder'.status = to
      BY <2>2 DEF StatusFits
    <2> QED BY <1>2, <2>1, <2>2
  <1> QED BY <1>1, <1>2, <1>3 DEF RowFits

\* The payment or the provider moves on, the row stays.
LEMMA RowStays ==
    ASSUME OrderInv, Lasts, UNCHANGED uorder, PaymentFits'
    PROVE  RowFits'
  <1>1. StatusFits(uorder.status)'
    BY DEF OrderInv, RowFits, Lasts, StatusFits
  <1> QED BY <1>1 DEF OrderInv, RowFits

\* Nobody's turn.
LEMMA NoTurn ==
    ASSUME OrderInv, Lasts, RowFits', UNCHANGED hand
    PROVE  OrderInv'
  BY DEF OrderInv, Lasts, StepFits

-----------------------------------------------------------------------------
(* The order and its checkout                                              *)

LEMMA CheckoutLasts ==
    ASSUME OrderInv, CheckoutArrives, UNCHANGED <<provider, mail>>, overdue' \in SUBSET overdue
    PROVE  Lasts /\ PaymentFits'
  BY DEF OrderInv, RowFits, CheckoutArrives, Lasts, PaymentFits, Paid

LEMMA StepCheckout ==
    ASSUME OrderInv, NEW h \in Hands,
           \/ PlaceOrder(h) \/ ReplayOrder(h) \/ Checkout(h) \/ CheckoutUnknown(h)
           \/ SavePaymentId(h) \/ PaymentRejected(h) \/ SweepAbandoned(h)
    PROVE  OrderInv'
  <1>0. \A s \in {"idle", "checkout", "wait", "save", "rejected", "abandon"} : s \in Steps /\ StepFits(s) /\ StepFits(s)'
    BY DEF Steps, StepFits
  <1>1. CASE PlaceOrder(h)
    <2>1. UNCHANGED <<upayment, provider, mail, overdue>> /\ uorder' = [uorder EXCEPT !.status = "PENDING_PAYMENT"]
      BY <1>1 DEF PlaceOrder
    <2>2. Lasts /\ RowFits'
      BY <2>1 DEF OrderInv, RowFits, Orders, OrderStatuses, StatusFits, PaymentFits, Lasts
    <2> QED BY <1>0, <1>1, <2>2, Turn DEF PlaceOrder, Does
  <1>2. CASE ReplayOrder(h)
    BY <1>0, <1>2, OnlyMoves DEF ReplayOrder, Does
  <1>3. CASE Checkout(h)
    <2>1. Lasts /\ RowFits'
      BY <1>3, CheckoutLasts, RowStays DEF Checkout
    <2> QED BY <1>0, <1>3, <2>1, Turn DEF Checkout, Does
  <1>4. CASE CheckoutUnknown(h)
    <2>1. UNCHANGED <<uorder, upayment, provider, mail>> /\ overdue' \in {overdue, overdue \cup {"checkout"}}
      BY <1>4 DEF CheckoutUnknown
    <2>2. Lasts /\ RowFits'
      BY <2>1 DEF OrderInv, RowFits, StatusFits, PaymentFits, Lasts
    <2> QED BY <1>0, <1>4, <2>2, Turn DEF CheckoutUnknown, Does
  <1>5. CASE SavePaymentId(h)
    <2>1. UNCHANGED <<upayment, provider, mail, overdue>> /\ uorder' = [uorder EXCEPT !.paymentId = TRUE]
      BY <1>5 DEF SavePaymentId
    <2>2. Lasts /\ RowFits'
      BY <2>1 DEF OrderInv, RowFits, Orders, StatusFits, PaymentFits, Lasts
    <2> QED BY <1>0, <1>5, <2>2, Turn DEF SavePaymentId, Does
  <1>6. CASE PaymentRejected(h)
    <2>1. Lasts /\ RowFits'
      <3>1. StatusFits("FAILED") /\ "FAILED" \in OrderStatuses /\ "PAYMENT_REJECTED" \in Whys
        BY DEF StatusFits, OrderStatuses, Whys
      <3> QED BY <1>6, <3>1, Writes DEF PaymentRejected
    <2> QED BY <1>0, <1>6, <2>1, Turn DEF PaymentRejected, Does
  <1>7. CASE SweepAbandoned(h)
    <2>1. CASE Does(h, "abandon", "idle") /\ Transition({"PENDING_PAYMENT"}, "FAILED", "CHECKOUT_NOT_CREATED")
               /\ UNCHANGED <<upayment, provider, mail, overdue>>
      <3>1. StatusFits("FAILED") /\ "FAILED" \in OrderStatuses /\ "CHECKOUT_NOT_CREATED" \in Whys
        BY DEF StatusFits, OrderStatuses, Whys
      <3>2. Lasts /\ RowFits'
        BY <2>1, <3>1, Writes
      <3> QED BY <1>0, <2>1, <3>2, Turn DEF Does
    <2>2. CASE Does(h, "idle", "abandon") /\ UNCHANGED <<uorder, upayment, provider, mail, overdue>>
      BY <1>0, <2>2, OnlyMoves DEF Does
    <2> QED BY <1>7, <2>1, <2>2 DEF SweepAbandoned
  <1> QED BY <1>1, <1>2, <1>3, <1>4, <1>5, <1>6, <1>7

LEMMA StepPayment ==
    ASSUME OrderInv, OverdueCheckout \/ CheckoutAnswered \/ OrderGrowsOld \/ PayerDecides \/ RefundSagaEnds
    PROVE  OrderInv'
  <1>1. CASE OverdueCheckout
    BY <1>1, CheckoutLasts, RowStays, NoTurn DEF OverdueCheckout
  <1>2. CASE CheckoutAnswered
    <2>1. Lasts /\ PaymentFits'
      BY <1>2 DEF CheckoutAnswered, OrderInv, RowFits, Lasts, PaymentFits, Paid
    <2>2. RowFits'
      BY <1>2, <2>1, RowStays DEF CheckoutAnswered
    <2>3. hand' \in [Hands -> Steps] /\ \A h \in Hands : hand'[h] \in {hand[h], "save", "rejected", "idle"}
      BY <1>2 DEF CheckoutAnswered, OrderInv, Steps
    <2>4. ASSUME NEW h \in Hands PROVE StepFits(hand[h])'
      BY <2>1, <2>3 DEF OrderInv, Lasts, StepFits
    <2> QED BY <2>2, <2>3, <2>4 DEF OrderInv
  <1>3. CASE OrderGrowsOld
    <2>1. UNCHANGED <<upayment, provider, mail, overdue, hand>> /\ uorder' = [uorder EXCEPT !.old = TRUE]
      BY <1>3 DEF OrderGrowsOld
    <2>2. Lasts /\ RowFits'
      BY <2>1 DEF OrderInv, RowFits, Orders, StatusFits, PaymentFits, Lasts
    <2> QED BY <2>1, <2>2, NoTurn
  <1>4. CASE PayerDecides
    <2>1. Lasts /\ PaymentFits'
      BY <1>4 DEF PayerDecides, OrderInv, RowFits, Lasts, PaymentFits, Paid
    <2> QED BY <1>4, <2>1, RowStays, NoTurn DEF PayerDecides
  <1>5. CASE RefundSagaEnds
    <2>1. Lasts /\ PaymentFits'
      BY <1>5 DEF RefundSagaEnds, OrderInv, RowFits, Lasts, PaymentFits, Paid
    <2> QED BY <1>5, <2>1, RowStays, NoTurn DEF RefundSagaEnds
  <1> QED BY <1>1, <1>2, <1>3, <1>4, <1>5

-----------------------------------------------------------------------------
(* The delivery                                                            *)

\* The provider decides once.
LEMMA ExecuteLasts ==
    ASSUME OrderInv, Execute, UNCHANGED <<upayment, mail>>, upayment \in Paid, overdue' \in SUBSET overdue
    PROVE  Lasts /\ PaymentFits'
  BY DEF OrderInv, RowFits, Execute, Lasts, PaymentFits, Paid

\* A thread believes the provider only when it has heard it.
LEMMA HeardFits ==
    ASSUME NEW outcome, outcome \in {"SUCCESS", "FAILED"} => provider' = outcome
    PROVE  Heard(outcome) \in Steps /\ StepFits(Heard(outcome))'
  BY DEF Heard, Steps, StepFits

LEMMA StepFulfil ==
    ASSUME OrderInv, NEW h \in Hands,
           \/ HandleUtilityEvent(h) \/ SweepPaid(h) \/ FulfillPaidOrder(h)
           \/ CallProvider(h) \/ SweepProvider(h) \/ QueryProvider(h) \/ ProviderSucceeded(h)
    PROVE  OrderInv'
  <1>0. \A s \in {"idle", "fulfil", "query"} : s \in Steps /\ StepFits(s) /\ StepFits(s)'
    BY DEF Steps, StepFits
  <1>1. CASE HandleUtilityEvent(h)
    <2>1. UNCHANGED <<upayment, provider, overdue>> /\ mail = "queued" /\ mail' = "consumed"
      BY <1>1 DEF HandleUtilityEvent, ConsumedOnce
    <2>2. Lasts /\ PaymentFits'
      BY <2>1 DEF OrderInv, RowFits, Lasts, PaymentFits
    <2>3. /\ uorder' \in Orders
          /\ \/ uorder' = uorder
             \/ uorder'.status = "FAILED"
             \/ uorder'.status = "PAID" /\ upayment # "UNPAID"
      <3>1. \/ UNCHANGED uorder
            \/ /\ Transition({"PENDING_PAYMENT"}, "PAID", "")
               /\ upayment # "UNPAID"
            \/ Transition({"PENDING_PAYMENT"}, "FAILED", "NOT_PAID")
        BY <1>1 DEF HandleUtilityEvent
      <3>2. uorder \in Orders /\ {"PAID", "FAILED"} \subseteq OrderStatuses /\ {"", "NOT_PAID"} \subseteq Whys
        BY DEF OrderInv, RowFits, OrderStatuses, Whys
      <3>3. CASE UNCHANGED uorder
        BY <3>2, <3>3
      <3>4. CASE Transition({"PENDING_PAYMENT"}, "PAID", "") /\ upayment # "UNPAID"
        BY <3>2, <3>4, TransitionFits
      <3>5. CASE Transition({"PENDING_PAYMENT"}, "FAILED", "NOT_PAID")
        BY <3>2, <3>5, TransitionFits
      <3> QED BY <3>1, <3>3, <3>4, <3>5
    <2>4. StatusFits(uorder.status)'
      BY <2>1, <2>2, <2>3 DEF OrderInv, RowFits, StatusFits, PaymentFits
    <2>5. RowFits'
      BY <2>2, <2>3, <2>4 DEF RowFits
    <2>6. CASE Does(h, "idle", "fulfil")
      BY <1>0, <2>2, <2>5, <2>6, Turn DEF Does
    <2>7. CASE UNCHANGED hand
      BY <2>2, <2>5, <2>7, NoTurn
    <2> QED BY <1>1, <2>6, <2>7 DEF HandleUtilityEvent
  <1>2. CASE SweepPaid(h)
    BY <1>0, <1>2, OnlyMoves DEF SweepPaid, Does
  <1>3. CASE FulfillPaidOrder(h)
    <2>1. UNCHANGED <<upayment, provider, mail, overdue>> /\ Transition({"PAID"}, "PROVIDER_PENDING", uorder.why)
      BY <1>3 DEF FulfillPaidOrder
    <2>2. uorder.status = "PAID" => StatusFits("PROVIDER_PENDING") /\ upayment \in Paid
      BY DEF OrderInv, RowFits, StatusFits
    <2>3. Lasts /\ RowFits'
      <3>1. "PROVIDER_PENDING" \in OrderStatuses /\ uorder.why \in Whys
        BY DEF OrderStatuses, OrderInv, RowFits, Orders
      <3> QED BY <2>1, <2>2, <3>1, Writes
    <2>4. PICK s \in {"provider", "idle"} : Does(h, "fulfil", s) /\ (s = "provider" => uorder.status = "PAID")
      BY <1>3 DEF FulfillPaidOrder
    <2>5. s \in Steps /\ StepFits(s)'
      BY <2>1, <2>2, <2>4 DEF Steps, StepFits
    <2> QED BY <2>3, <2>4, <2>5, Turn DEF Does
  <1>4. CASE CallProvider(h)
    <2>1. hand[h] = "provider" /\ upayment \in Paid /\ UNCHANGED <<uorder, upayment, mail>>
      BY <1>4 DEF CallProvider, Does, OrderInv, StepFits
    <2>2. CASE Execute /\ Does(h, "provider", Heard(provider')) /\ UNCHANGED overdue
      <3>1. Lasts /\ RowFits'
        BY <2>1, <2>2, ExecuteLasts, RowStays
      <3> QED BY <2>2, <3>1, HeardFits, Turn DEF Does
    <2>3. CASE /\ Does(h, "provider", Heard("TIMEOUT")) /\ UNCHANGED provider
               /\ overdue' \in {overdue, overdue \cup {"provider"}}
      <3>1. Lasts /\ PaymentFits'
        BY <2>1, <2>3 DEF OrderInv, RowFits, Lasts, PaymentFits
      <3>2. RowFits'
        BY <2>1, <3>1, RowStays
      <3> QED BY <2>3, <3>1, <3>2, HeardFits, Turn DEF Does
    <2> QED BY <1>4, <2>2, <2>3 DEF CallProvider
  <1>5. CASE SweepProvider(h)
    BY <1>0, <1>5, OnlyMoves DEF SweepProvider, Does
  <1>6. CASE QueryProvider(h)
    <2>1. Lasts /\ PaymentFits'
      BY <1>6 DEF QueryProvider, Reveal, OrderInv, RowFits, Lasts, PaymentFits, Paid
    <2>2. RowFits'
      BY <1>6, <2>1, RowStays DEF QueryProvider
    <2> QED BY <1>6, <2>1, <2>2, HeardFits, Turn DEF QueryProvider, Does
  <1>7. CASE ProviderSucceeded(h)
    <2>1. hand[h] = "delivered" /\ provider = "SUCCESS"
      BY <1>7 DEF ProviderSucceeded, Does, OrderInv, StepFits
    <2>2. uorder.status = "PROVIDER_PENDING" => StatusFits("SUCCESS")
      BY <2>1 DEF OrderInv, RowFits, StatusFits
    <2>3. "SUCCESS" \in OrderStatuses /\ uorder.why \in Whys
      BY DEF OrderStatuses, OrderInv, RowFits, Orders
    <2>4. Lasts /\ RowFits'
      BY <1>7, <2>2, <2>3, Writes DEF ProviderSucceeded
    <2> QED BY <1>0, <1>7, <2>4, Turn DEF ProviderSucceeded, Does
  <1> QED BY <1>1, <1>2, <1>3, <1>4, <1>5, <1>6, <1>7

LEMMA StepOverdue ==
    ASSUME OrderInv, OverdueProvider \/ OverdueRefund
    PROVE  OrderInv'
  <1>1. CASE OverdueProvider
    <2>1. upayment \in Paid
      BY <1>1 DEF OverdueProvider, OrderInv, RowFits, PaymentFits
    <2> QED BY <1>1, <2>1, ExecuteLasts, RowStays, NoTurn DEF OverdueProvider
  <1>2. CASE OverdueRefund
    <2>1. Lasts /\ PaymentFits'
      BY <1>2 DEF OverdueRefund, RequestRefund, OrderInv, RowFits, Lasts, PaymentFits, Paid
    <2> QED BY <1>2, <2>1, RowStays, NoTurn DEF OverdueRefund
  <1> QED BY <1>1, <1>2

-----------------------------------------------------------------------------
(* The refund                                                              *)

\* The two writes that look at nothing: the status is that of a refund, or
\* stays.
LEMMA RefundWrites ==
    ASSUME OrderInv, UNCHANGED <<upayment, provider, mail, overdue>>, provider = "FAILED",
           \/ uorder' = [uorder EXCEPT !.status = "REFUND_REQUESTED", !.why = "PROVIDER_FAILED", !.attempts = @ + 1]
           \/ uorder' = [uorder EXCEPT !.attempts = @ + 1]
    PROVE  Lasts /\ RowFits'
  <1>1. Lasts /\ PaymentFits' /\ upayment \in Paid
    BY DEF OrderInv, RowFits, Lasts, PaymentFits
  <1>2. uorder.attempts + 1 \in Nat
    BY DEF OrderInv, RowFits, Orders
  <1>3. uorder' \in Orders /\ uorder'.status \in {uorder.status, "REFUND_REQUESTED"}
    BY <1>2 DEF OrderInv, RowFits, Orders, OrderStatuses, Whys
  <1>4. StatusFits(uorder.status)'
    BY <1>1, <1>3 DEF OrderInv, RowFits, StatusFits
  <1> QED BY <1>1, <1>3, <1>4 DEF RowFits

LEMMA StepRefunds ==
    ASSUME OrderInv, NEW h \in Hands,
           \/ StartRefund(h) \/ RetryRefund(h) \/ ExecuteRefund(h) \/ RefundConfirmed(h)
           \/ HandDies(h)
    PROVE  OrderInv'
  <1>0. /\ \A s \in {"idle", "refunding", "retrying", "refund", "refunded", "refused"} : s \in Steps
        /\ StepFits("idle") /\ StepFits("idle")'
        /\ hand[h] \in {"declined", "refunding", "retrying", "refund", "refunded", "refused"} => provider = "FAILED"
        /\ provider = "FAILED" => StepFits("refunding") /\ StepFits("retrying")
        /\ provider' = "FAILED" => StepFits("refund")'
    BY DEF Steps, StepFits, OrderInv
  <1>1. CASE StartRefund(h)
    <2>1. CASE Does(h, "refunding", "refund")
      <3>1. Lasts /\ RowFits' /\ provider' = "FAILED"
        BY <1>0, <1>1, <2>1, RefundWrites DEF StartRefund, Does
      <3> QED BY <1>0, <2>1, <3>1, Turn DEF Does
    <2>2. CASE /\ Does(h, "declined", "refunding") \/ Does(h, "declined", "idle")
               /\ UNCHANGED <<uorder, upayment, provider, mail, overdue>>
      BY <1>0, <2>2, OnlyMoves DEF Does
    <2> QED BY <1>1, <2>1, <2>2 DEF StartRefund
  <1>2. CASE RetryRefund(h)
    <2>1. CASE Does(h, "retrying", "refund")
      <3>1. Lasts /\ RowFits' /\ provider' = "FAILED"
        BY <1>0, <1>2, <2>1, RefundWrites DEF RetryRefund, Does
      <3> QED BY <1>0, <2>1, <3>1, Turn DEF Does
    <2>2. CASE /\ uorder.status = "REFUND_REQUESTED" /\ Does(h, "idle", "retrying")
               /\ UNCHANGED <<uorder, upayment, provider, mail, overdue>>
      <3>1. provider = "FAILED"
        BY <2>2 DEF OrderInv, RowFits, StatusFits
      <3> QED BY <1>0, <2>2, <3>1, OnlyMoves DEF Does
    <2> QED BY <1>2, <2>1, <2>2 DEF RetryRefund
  <1>3. CASE ExecuteRefund(h)
    <2>1. hand[h] = "refund" /\ provider = "FAILED" /\ UNCHANGED <<uorder, provider, mail>>
      BY <1>0, <1>3 DEF ExecuteRefund, Does
    <2>2. Lasts /\ PaymentFits'
      BY <1>3, <2>1 DEF ExecuteRefund, RequestRefund, OrderInv, RowFits, Lasts, PaymentFits, Paid
    <2>3. PICK s \in {"refunded", "refused", "idle"} : /\ Does(h, "refund", s)
                                                       /\ s = "refunded" => upayment' = "REFUNDED"
                                                       /\ s = "refused" => upayment' = "REFUND_FAILED"
      BY <1>3 DEF ExecuteRefund, RefundReply
    <2>4. s \in Steps /\ StepFits(s)'
      BY <1>0, <2>1, <2>3 DEF StepFits
    <2> QED BY <2>1, <2>2, <2>3, <2>4, RowStays, Turn DEF Does
  <1>4. CASE RefundConfirmed(h)
    <2>1. "REFUNDED" \in OrderStatuses /\ "REFUND_FAILED" \in OrderStatuses /\ uorder.why \in Whys
      BY DEF OrderStatuses, OrderInv, RowFits, Orders
    <2>2. /\ hand[h] = "refunded" /\ uorder.status = "REFUND_REQUESTED" => StatusFits("REFUNDED")
          /\ hand[h] = "refused" /\ uorder.status = "REFUND_REQUESTED" => StatusFits("REFUND_FAILED")
      BY DEF OrderInv, RowFits, StatusFits, StepFits
    <2>3. Lasts /\ RowFits'
      BY <1>4, <2>1, <2>2, Writes DEF RefundConfirmed, Does
    <2> QED BY <1>0, <1>4, <2>3, Turn DEF RefundConfirmed, Does
  <1>5. CASE HandDies(h)
    <2>1. Lasts /\ PaymentFits'
      BY <1>5 DEF HandDies, OrderInv, RowFits, Lasts, PaymentFits, StepFits
    <2> QED BY <1>0, <1>5, <2>1, RowStays, Turn DEF HandDies
  <1> QED BY <1>1, <1>2, <1>3, <1>4, <1>5

LEMMA StepOrder == OrderInv /\ [OrderNext]_orderVars => OrderInv'
  <1>1. ASSUME OrderInv, UNCHANGED orderVars PROVE OrderInv'
    <2>1. UNCHANGED <<uorder, upayment, provider, hand, mail, overdue>>
      BY <1>1 DEF orderVars
    <2>2. Lasts /\ RowFits'
      BY <1>1, <2>1 DEF OrderInv, RowFits, StatusFits, PaymentFits, Lasts
    <2> QED BY <1>1, <2>1, <2>2, NoTurn
  <1>2. OrderInv /\ OrderNext => OrderInv'
    BY StepCheckout, StepPayment, StepFulfil, StepOverdue, StepRefunds, Zenon DEF OrderNext
  <1> QED BY <1>1, <1>2

\* Sweeps, events and requests of any number of threads, in any order: a status
\* of the order that speaks of the money or of the delivery is true of the
\* payment and of the provider, and no order is both delivered and given back.
THEOREM OrderIsTrue == OrderSpec => []OrderTellsTruth
  <1>1. OrderInv => OrderTellsTruth
    BY DEF OrderInv, RowFits, StatusFits, PaymentFits, OrderTellsTruth, DeliveredOrRefunded, Delivered, Paid
  <1> QED BY <1>1, InitOrder, StepOrder, PTL DEF OrderSpec

\* What OrderInv leaves open of the types.
OrderRest ==
    /\ upayment \in {"NONE", "HOLDING", "RETRYING", "PENDING", "HOLD_FAILED", "DEAD", "UNPAID", "CANCELLED"} \cup Paid
    /\ mail \in {"none", "queued", "consumed"}
    /\ overdue \in SUBSET {"checkout", "provider", "refund"}

LEMMA RestOfOrder == OrderRest /\ [OrderNext]_orderVars => OrderRest'
  <1> SUFFICES ASSUME OrderRest, [OrderNext]_orderVars PROVE OrderRest'
    OBVIOUS
  <1> USE DEF OrderRest, Paid
  <1>1. CASE UNCHANGED <<upayment, mail, overdue>>
    BY <1>1
  <1>2. CASE OverdueCheckout \/ CheckoutAnswered \/ PayerDecides
    BY <1>2 DEF OverdueCheckout, CheckoutAnswered, PayerDecides, CheckoutArrives
  <1>3. CASE OverdueProvider \/ OverdueRefund \/ RefundSagaEnds
    BY <1>3 DEF OverdueProvider, OverdueRefund, RefundSagaEnds, RequestRefund
  <1>4. ASSUME NEW h \in Hands, Checkout(h) \/ CheckoutUnknown(h) \/ HandleUtilityEvent(h) PROVE OrderRest'
    BY <1>4 DEF Checkout, CheckoutArrives, CheckoutUnknown, HandleUtilityEvent, ConsumedOnce
  <1>5. ASSUME NEW h \in Hands, CallProvider(h) \/ ExecuteRefund(h) \/ HandDies(h) PROVE OrderRest'
    BY <1>5 DEF CallProvider, ExecuteRefund, RequestRefund, HandDies
  <1>6. ASSUME NEW h \in Hands,
               \/ PlaceOrder(h) \/ ReplayOrder(h) \/ SavePaymentId(h) \/ PaymentRejected(h) \/ SweepAbandoned(h)
               \/ SweepPaid(h) \/ FulfillPaidOrder(h) \/ SweepProvider(h) \/ QueryProvider(h)
               \/ ProviderSucceeded(h) \/ StartRefund(h) \/ RetryRefund(h) \/ RefundConfirmed(h)
        PROVE  UNCHANGED <<upayment, mail, overdue>>
    BY <1>6 DEF PlaceOrder, ReplayOrder, SavePaymentId, PaymentRejected, SweepAbandoned, SweepPaid,
       FulfillPaidOrder, SweepProvider, QueryProvider, ProviderSucceeded, StartRefund, RetryRefund, RefundConfirmed
  <1>7. OrderGrowsOld \/ UNCHANGED orderVars => UNCHANGED <<upayment, mail, overdue>>
    BY DEF OrderGrowsOld, orderVars
  <1> HIDE DEF OrderRest, Paid
  <1> QED BY <1>1, <1>2, <1>3, <1>4, <1>5, <1>6, <1>7, Zenon DEF OrderNext

\* The order, its payment, the provider's record and the threads keep their
\* types.
THEOREM OrderTypeCorrect == OrderSpec => []OrderTypeOK
  <1>1. OrderInit => OrderRest
    BY DEF OrderInit, OrderRest
  <1>2. OrderInv /\ OrderRest => OrderTypeOK
    BY DEF OrderInv, RowFits, PaymentFits, OrderRest, OrderTypeOK, Orders, OrderStatuses, Whys, Steps, Delivered, Paid
  <1> QED BY <1>1, <1>2, RestOfOrder, InitOrder, StepOrder, PTL DEF OrderSpec

-----------------------------------------------------------------------------
(* The components side by side                                             *)

\* What the run checks together is each component on its own: a behaviour of
\* OrdersSpec is one of each of them, so that what is proved of each holds of it.
LEMMA EachComponent == OrdersSpec => RefundSpec /\ OrderSpec /\ TierSpec /\ ConsumerSpec
  <1>1. OrdersInit => RefundInit /\ OrderInit /\ TierInit /\ ConsumerInit
    BY DEF OrdersInit
  <1>2. [OrdersNext]_OrdersVars =>
           /\ [RefundNext]_refundVars /\ [OrderNext]_orderVars
           /\ [TierNext]_tierVars /\ [ConsumerNext]_consumerVars
    BY DEF OrdersNext, OrdersVars
  <1> QED BY <1>1, <1>2, PTL DEF OrdersSpec, RefundSpec, OrderSpec, TierSpec, ConsumerSpec

\* Refunds, orders, tier events and consumers keep their types, for any number
\* of workers, threads, publishers, copies and links.
THEOREM OrdersTypeCorrect == OrdersSpec => []OrdersTypeOK
  <1>1. RefundTypeOK /\ OrderTypeOK /\ TierTypeOK /\ ConsumerTypeOK => OrdersTypeOK
    BY DEF OrdersTypeOK
  <1> QED BY <1>1, EachComponent, RefundTypeCorrect, OrderTypeCorrect, TierTypeCorrect, ConsumerTypeCorrect, PTL

\* And what the refund saga, the orders and the consumers promise holds of them
\* side by side.
THEOREM OrdersPromises ==
  OrdersSpec => [](RefundedMeansReturned /\ RefundingIsOwed /\ OrderTellsTruth /\ StopSettles)
  BY EachComponent, RefundIsReal, RefundIsOwed, OrderIsTrue, StopIsSettled, PTL
=============================================================================
