---------------------------- MODULE FundingProofs ----------------------------
(***************************************************************************)
(* The two flows between the wallet and a bank, for any number of workers, *)
(* callbacks and recovery passes: CreditedMeansPaid of the top-up and      *)
(* VerdictMatchesBank of the cash-out.  Neither is inductive: what a       *)
(* worker is about to do must follow from what it has heard, also when it  *)
(* works on an order that has moved on since.  Then the outbox drain of    *)
(* payment-service: SentIsTold, for any number of instances; and that all  *)
(* of payment-service's flows keep their promises side by side.            *)
(***************************************************************************)
EXTENDS MCTransfers, P2pPaymentProofs

-----------------------------------------------------------------------------
(* The top-up                                                              *)

Handlers == Ipns \cup Passes

\* What a handler is at follows from what VNPay said and the wallet did.
Entitled(h) ==
    /\ handling[h] = "fail" => vnpay = "unpaid"
    /\ handling[h] \in {"claim", "reread"} => vnpay = "paid"
    /\ handling[h] = "credit" => vnpay = "paid" /\ topup.status \in {"PROCESSING", "APPROVED"}
    /\ handling[h] \in {"applied", "replayed"} => credited

TopupInv ==
    /\ TopupTypeOK
    /\ topup.status = "NONE" => vnpay = "open"
    /\ topup.status = "FAILED" => vnpay = "unpaid"
    /\ topup.status = "PROCESSING" => vnpay = "paid"
    /\ acks \cap {"00", "02"} # {} => vnpay # "open"
    /\ \A h \in Handlers : Entitled(h)
    /\ CreditedMeansPaid

LEMMA TopupInvInit == TopupInit => TopupInv
  <1> SUFFICES ASSUME TopupInit PROVE TopupInv
    OBVIOUS
  <1>1. TopupTypeOK BY DEF TopupInit, TopupTypeOK
  <1>2. acks \cap {"00", "02"} = {} BY DEF TopupInit
  <1>3. \A h \in Handlers : Entitled(h) BY DEF TopupInit, Handlers, Entitled
  <1>4. CreditedMeansPaid BY <1>2 DEF TopupInit, CreditedMeansPaid
  <1> QED BY <1>1, <1>2, <1>3, <1>4 DEF TopupInit, TopupInv

LEMMA TopupInvStep == TopupInv /\ [TopupNext]_topupVars => TopupInv'
  <1> SUFFICES ASSUME TopupInv, [TopupNext]_topupVars PROVE TopupInv'
    OBVIOUS
  <1> USE DEF TopupInv, TopupTypeOK, Handlers, Closed
  <1>1. CASE UNCHANGED topupVars
    BY <1>1 DEF topupVars, Entitled, CreditedMeansPaid
  <1>2. CASE CreateTopup
    BY <1>2 DEF CreateTopup, Entitled, CreditedMeansPaid
  <1>3. CASE VnpayDecides
    BY <1>3 DEF VnpayDecides, Entitled, CreditedMeansPaid
  <1>4. CASE CreditExecuted
    BY <1>4 DEF CreditExecuted, Entitled, CreditedMeansPaid
  <1>5. CASE ProcessingGoesStale
    BY <1>5 DEF ProcessingGoesStale, Entitled, CreditedMeansPaid
  <1>6. CASE ThirtyMinutesPass
    BY <1>6 DEF ThirtyMinutesPass, Entitled, CreditedMeansPaid
  <1>7. CASE ExpireTopups
    BY <1>7 DEF ExpireTopups, Entitled, CreditedMeansPaid
  <1>8. ASSUME NEW h \in Handlers, Ipn(h) PROVE TopupInv'
    BY <1>8 DEF Ipn, EndWith, Serve, Entitled, CreditedMeansPaid
  <1>9. ASSUME NEW h \in Handlers, IpnRefused(h) PROVE TopupInv'
    BY <1>9 DEF IpnRefused, EndWith, Serve, Entitled, CreditedMeansPaid
  <1>10. ASSUME NEW h \in Handlers, NotPaid(h) PROVE TopupInv'
    BY <1>10 DEF NotPaid, EndWith, Serve, Entitled, CreditedMeansPaid
  <1>11. ASSUME NEW h \in Handlers, ClaimForProcessing(h) PROVE TopupInv'
    <2>1. CASE topup.status = "PENDING" \/ (topup.status = "PROCESSING" /\ ~topup.fresh)
      <3>1. topup' = [topup EXCEPT !.status = "PROCESSING", !.fresh = TRUE] /\ Serve(h, "claim", "credit")
        BY <1>11, <2>1 DEF ClaimForProcessing
      <3>2. UNCHANGED <<vnpay, credited, unclaimed, acks>> BY <1>11 DEF ClaimForProcessing
      <3>3. vnpay = "paid" BY <3>1 DEF Serve, Entitled
      <3>4. TopupTypeOK' BY <3>1, <3>2 DEF Serve
      <3>5. topup'.status = "PROCESSING" BY <3>1
      <3>6. \A g \in Handlers : Entitled(g)' BY <3>1, <3>2, <3>3, <3>5 DEF Serve, Entitled
      <3>7. CreditedMeansPaid' BY <2>1, <3>2, <3>3, <3>5 DEF CreditedMeansPaid
      <3> QED BY <3>2, <3>3, <3>4, <3>5, <3>6, <3>7
    <2>2. CASE ~(topup.status = "PENDING" \/ (topup.status = "PROCESSING" /\ ~topup.fresh))
      BY <1>11, <2>2 DEF ClaimForProcessing, Serve, Entitled, CreditedMeansPaid
    <2> QED BY <2>1, <2>2
  <1>12. ASSUME NEW h \in Handlers, NotClaimed(h) PROVE TopupInv'
    BY <1>12 DEF NotClaimed, EndWith, Serve, Entitled, CreditedMeansPaid
  <1>13. ASSUME NEW h \in Handlers, TopupCredit(h) PROVE TopupInv'
    BY <1>13 DEF TopupCredit, Serve, Entitled, CreditedMeansPaid
  <1>14. ASSUME NEW h \in Handlers, CreditUnknown(h) PROVE TopupInv'
    BY <1>14 DEF CreditUnknown, EndWith, Serve, Entitled, CreditedMeansPaid
  <1>15. ASSUME NEW h \in Handlers, Approve(h) PROVE TopupInv'
    BY <1>15 DEF Approve, EndWith, Serve, Entitled, CreditedMeansPaid
  <1>16. ASSUME NEW h \in Handlers, RecoverStuckTopups(h) PROVE TopupInv'
    BY <1>16 DEF RecoverStuckTopups, Serve, Entitled, CreditedMeansPaid
  <1>17. ASSUME NEW h \in Handlers, HandlerDies(h) PROVE TopupInv'
    BY <1>17 DEF HandlerDies, Entitled, CreditedMeansPaid
  <1> HIDE DEF TopupInv, TopupTypeOK, Closed
  <1> QED
    BY <1>1, <1>2, <1>3, <1>4, <1>5, <1>6, <1>7, <1>8, <1>9, <1>10, <1>11, <1>12, <1>13, <1>14, <1>15,
       <1>16, <1>17 DEF TopupNext

LEMMA TopupInvAlways == TopupSpec => []TopupInv
  BY TopupInvInit, TopupInvStep, PTL DEF TopupSpec

\* The row, the callbacks' and passes' steps and the answers to VNPay stay
\* within their types.
THEOREM TopupTypeCorrect == TopupSpec => []TopupTypeOK
  <1>1. TopupInv => TopupTypeOK BY DEF TopupInv
  <1> QED BY <1>1, TopupInvAlways, PTL

\* topup.service: the wallet is credited for a reported payment only, and
\* VNPay is told to stop only when the money is there or the expiry job has
\* closed the request.
THEOREM OnlyPaidIsCredited == TopupSpec => []CreditedMeansPaid
  <1>1. TopupInv => CreditedMeansPaid BY DEF TopupInv
  <1> QED BY <1>1, TopupInvAlways, PTL
-----------------------------------------------------------------------------
(* The cash-out                                                            *)

PaidSteps == {"success", "capture", "captured", "gone"}
DeclinedSteps == {"declined", "release", "released"}
AskedSteps == PaidSteps \cup DeclinedSteps \cup {"payout", "extend", "query", "pending"}

\* The bank has not been asked yet, or never will be.
Before == order.status \in {"NONE", "REQUESTED"} \/ order.workflow = "HOLDING" \/ order.why = "HOLD_REFUSED"

\* What the row stands for in the wallet and at the bank.
OrderFits ==
    /\ order.status \in {"NONE", "REQUESTED"} => order.workflow = "IDLE" /\ order.lease = NoDriver
    /\ order.status \notin Ended => order.why = ""
    /\ order.status = "FAILED" => order.why # ""
    /\ Before => bank = "NONE"
    /\ order.workflow \in {"PAYOUT", "CAPTURING", "RELEASING", "AWAIT_RECONCILE"} => cashHold.status # "NONE"
    /\ order.workflow = "CAPTURING" => bank = "SUCCESS"
    /\ order.workflow = "RELEASING" => bank = "FAILED"
    /\ order.why = "BANK_DECLINED" => bank = "FAILED"
    /\ order.why = "RECONCILE_HOLD_EXPIRED" => bank = "SUCCESS" /\ cashHold.status = "EXPIRED"
    /\ order.status = "SUCCEEDED" => cashHold.status = "CAPTURED"

\* What a worker is at follows from what it has heard, with the lease or without;
\* only what it may conclude from a refused hold depends on the lease.
WorkerFits(w) ==
    /\ driver[w] \in PaidSteps => bank = "SUCCESS"
    /\ driver[w] \in DeclinedSteps => bank = "FAILED"
    /\ driver[w] \in AskedSteps => ~Before
    /\ driver[w] \in AskedSteps \cup {"held"} => cashHold.status # "NONE"
    /\ driver[w] = "captured" => cashHold.status = "CAPTURED"
    /\ driver[w] = "gone" => cashHold.status = "EXPIRED"
    /\ driver[w] \in {"hold", "refused"} /\ Holds(w) => order.workflow = "HOLDING"

AdriftFits ==
    /\ "capture" \in adrift => bank = "SUCCESS"
    /\ "release" \in adrift => bank = "FAILED"

Announced == verdicts = IF order.status \in Ended THEN 1 ELSE 0

CashInv ==
    /\ CashOutTypeOK
    /\ HoldFollowsBank
    /\ OrderFits
    /\ \A w \in Drivers : WorkerFits(w)
    /\ AdriftFits
    /\ Announced

LEMMA CashInvImplies == CashInv => VerdictMatchesBank
  BY DEF CashInv, VerdictMatchesBank, CashOutTypeOK, OrderFits, HoldFollowsBank, Before, Announced, Ended

LEMMA CashInvInit == CashOutInit => CashInv
  <1> SUFFICES ASSUME CashOutInit PROVE CashInv
    OBVIOUS
  <1>1. CashOutTypeOK BY DEF CashOutInit, CashOutTypeOK
  <1>2. OrderFits /\ AdriftFits /\ Announced /\ HoldFollowsBank
    BY DEF CashOutInit, OrderFits, AdriftFits, Announced, HoldFollowsBank, Before, Ended
  <1>3. \A w \in Drivers : WorkerFits(w)
    BY DEF CashOutInit, WorkerFits, PaidSteps, DeclinedSteps, AskedSteps
  <1> QED BY <1>1, <1>2, <1>3 DEF CashInv

HoldStates == [status : {"NONE", "PENDING", "CAPTURED", "RELEASED", "EXPIRED"}, due : BOOLEAN]

\* What an execution in the wallet may change, whether anybody waits for it or not.
LEMMA WalletKeeps ==
  ASSUME CashInv, NEW request \in Requests, NEW reply \in {"ok", "refused"},
         WalletExecutes(request, reply), UNCHANGED bank,
         request = "capture" => bank = "SUCCESS",
         request = "release" => bank = "FAILED"
  PROVE  /\ cashHold' \in HoldStates
         /\ HoldFollowsBank'
         /\ cashHold.status # "NONE" => cashHold'.status # "NONE"
         /\ cashHold.status \in {"CAPTURED", "EXPIRED"} => cashHold'.status = cashHold.status
         /\ request = "hold" /\ reply = "ok" => cashHold'.status # "NONE"
         /\ request = "capture" /\ reply = "ok" => cashHold'.status = "CAPTURED"
         /\ request = "capture" /\ reply = "refused" => cashHold'.status = "EXPIRED"
  <1> USE DEF CashInv, CashOutTypeOK, HoldFollowsBank, HoldStates
  <1>1. CASE request = "hold"
    <2>1. CASE reply = "ok" /\ cashHold.status = "NONE"
      <3>1. cashHold' = [status |-> "PENDING", due |-> FALSE] BY <1>1, <2>1 DEF WalletExecutes
      <3> QED BY <1>1, <2>1, <3>1
    <2>2. CASE ~(reply = "ok" /\ cashHold.status = "NONE")
      <3>1. cashHold' = cashHold /\ (reply = "ok" => cashHold.status # "NONE") BY <1>1, <2>2 DEF WalletExecutes
      <3> QED BY <1>1, <3>1
    <2> QED BY <2>1, <2>2
  <1>2. CASE request = "extend"
    BY <1>2 DEF WalletExecutes
  <1>3. CASE request = "capture"
    <2>1. cashHold.status # "RELEASED" BY <1>3
    <2>2. CASE reply = "ok"
      <3>1. /\ cashHold.status \in {"CAPTURED", "PENDING"}
            /\ cashHold' = [cashHold EXCEPT !.status = "CAPTURED"]
        BY <1>3, <2>2 DEF WalletExecutes
      <3> QED BY <1>3, <2>2, <3>1
    <2>3. CASE reply = "refused"
      <3>1. /\ cashHold.status \in {"RELEASED", "EXPIRED", "PENDING"}
            /\ cashHold' = [cashHold EXCEPT !.status = IF @ = "RELEASED" THEN @ ELSE "EXPIRED"]
        BY <1>3, <2>3 DEF WalletExecutes
      <3>2. cashHold' = [cashHold EXCEPT !.status = "EXPIRED"] BY <2>1, <3>1
      <3> QED BY <1>3, <2>3, <3>1, <3>2, <2>1
    <2> QED BY <2>2, <2>3
  <1>4. CASE request = "release"
    <2>1. CASE cashHold.status = "CAPTURED" BY <1>4, <2>1 DEF WalletExecutes
    <2>2. CASE cashHold.status # "CAPTURED"
      <3>1. cashHold' = [cashHold EXCEPT !.status = IF @ = "PENDING" THEN IF cashHold.due THEN "EXPIRED" ELSE "RELEASED" ELSE @]
        BY <1>4, <2>2 DEF WalletExecutes
      <3> QED BY <1>4, <2>2, <3>1
    <2> QED BY <2>1, <2>2
  <1> QED BY <1>1, <1>2, <1>3, <1>4 DEF Requests

Steps == Requests \cup Answered \cup {"idle", "read", "payout", "query", "leave"}

LEMMA Turned ==
  ASSUME CashOutTypeOK, NEW w \in Drivers, NEW from, NEW to \in Steps, Turn(w, from, to)
  PROVE  /\ driver' \in [Drivers -> Steps]
         /\ driver[w] = from /\ driver'[w] = to
         /\ \A u \in Drivers \ {w} : driver'[u] = driver[u]
  BY ZenonT(60) DEF CashOutTypeOK, Turn, Steps

LEMMA TypedAfterTurn ==
  ASSUME CashOutTypeOK, driver' \in [Drivers -> Steps], bank' \in {"NONE", "PENDING", "SUCCESS", "FAILED"},
         order' = order, cashHold' = cashHold, adrift' \in SUBSET Requests, verdicts' = verdicts
  PROVE  CashOutTypeOK'
  <1>1. driver' \in [Drivers -> Requests \cup Answered \cup {"idle", "read", "payout", "query", "leave"}]
    BY DEF Steps
  <1>2. CashOutTypeOK OBVIOUS
  <1>3. order' = order /\ cashHold' = cashHold /\ verdicts' = verdicts OBVIOUS
  <1>4. bank' \in {"NONE", "PENDING", "SUCCESS", "FAILED"} /\ adrift' \in SUBSET Requests OBVIOUS
  <1> QED BY <1>1, <1>2, <1>3, <1>4 DEF CashOutTypeOK

\* A worker that puts its work down, whatever it was about to do.
LEMMA QuietKeeps ==
  ASSUME CashInv, NEW w \in Drivers, NEW to \in {"idle", "read", "leave"},
         driver' = [driver EXCEPT ![w] = to],
         UNCHANGED <<order, cashHold, bank, verdicts>>, adrift' \in SUBSET Requests, AdriftFits'
  PROVE  CashInv'
  <1>1. driver' \in [Drivers -> Steps] /\ driver'[w] = to /\ \A u \in Drivers \ {w} : driver'[u] = driver[u]
    BY DEF CashInv, CashOutTypeOK, Steps
  <1>2. CashOutTypeOK'
    <2>1. CashOutTypeOK BY DEF CashInv
    <2>2. driver' \in [Drivers -> Requests \cup Answered \cup {"idle", "read", "payout", "query", "leave"}]
      BY <1>1 DEF Steps
    <2>3. order' = order /\ cashHold' = cashHold /\ bank' = bank /\ verdicts' = verdicts
      OBVIOUS
    <2> QED BY <2>1, <2>2, <2>3 DEF CashOutTypeOK
  <1>3. OrderFits' /\ Announced' /\ HoldFollowsBank'
    BY DEF CashInv, OrderFits, Announced, HoldFollowsBank, Before
  <1>4. \A u \in Drivers : WorkerFits(u)'
    BY <1>1 DEF CashInv, WorkerFits, Before, Holds, PaidSteps, DeclinedSteps, AskedSteps
  <1> QED BY <1>2, <1>3, <1>4 DEF CashInv

\* What a worker makes of the wallet's answers.
LEMMA AfterCalls ==
    /\ AfterCall("hold", "ok") = "held" /\ AfterCall("hold", "refused") = "refused"
    /\ AfterCall("capture", "ok") = "captured" /\ AfterCall("capture", "refused") = "gone"
    /\ AfterCall("release", "ok") = "released" /\ AfterCall("release", "refused") = "leave"
    /\ \A reply \in {"ok", "refused", "none"} : AfterCall("extend", reply) = "query"
    /\ \A request \in Requests \ {"extend"} : AfterCall(request, "none") = "leave"
  BY DEF AfterCall, Requests

\* Steps that leave the row, the bank and the announcements alone, whoever waits.
LEMMA CallKeeps ==
  ASSUME CashInv, NEW w \in Drivers, CallWallet(w)
  PROVE  CashInv'
  <1>1. PICK request \in Requests, reply \in {"ok", "refused"} :
            WalletExecutes(request, reply) /\ Turn(w, request, AfterCall(request, reply))
    BY DEF CallWallet
  <1>2. UNCHANGED <<order, bank, adrift, verdicts>> BY DEF CallWallet
  <1>3. WorkerFits(w) BY DEF CashInv
  <1>4. (request = "capture" => bank = "SUCCESS") /\ (request = "release" => bank = "FAILED")
    BY <1>1, <1>3 DEF WorkerFits, Turn, PaidSteps, DeclinedSteps
  <1>5. /\ cashHold' \in HoldStates
        /\ HoldFollowsBank'
        /\ cashHold.status # "NONE" => cashHold'.status # "NONE"
        /\ cashHold.status \in {"CAPTURED", "EXPIRED"} => cashHold'.status = cashHold.status
        /\ request = "hold" /\ reply = "ok" => cashHold'.status # "NONE"
        /\ request = "capture" /\ reply = "ok" => cashHold'.status = "CAPTURED"
        /\ request = "capture" /\ reply = "refused" => cashHold'.status = "EXPIRED"
    BY <1>1, <1>2, <1>4, WalletKeeps
  <1>6. OrderFits' /\ AdriftFits' /\ Announced'
    BY <1>2, <1>5 DEF CashInv, OrderFits, AdriftFits, Announced, Before
  <1>7. \A u \in Drivers \ {w} : driver'[u] = driver[u] /\ WorkerFits(u)'
    BY <1>1, <1>2, <1>5 DEF CashInv, CashOutTypeOK, Turn, WorkerFits, Before, Holds
  <1>8. driver'[w] = AfterCall(request, reply) /\ driver[w] = request
    BY <1>1 DEF Turn, CashInv, CashOutTypeOK
  <1>9. WorkerFits(w)'
    <2> USE <1>2, <1>3, <1>5, <1>8, AfterCalls
        DEF WorkerFits, Before, Holds, PaidSteps, DeclinedSteps, AskedSteps
    <2>1. CASE request = "hold" BY <2>1
    <2>2. CASE request = "extend" BY <2>2
    <2>3. CASE request = "capture" BY <2>3
    <2>4. CASE request = "release" BY <2>4
    <2> QED BY <2>1, <2>2, <2>3, <2>4 DEF Requests
  <1>10. AfterCall(request, reply) \in Answered \cup {"query", "leave"}
    BY AfterCalls DEF Requests, Answered
  <1>11. driver' \in [Drivers -> Steps]
    BY <1>1, <1>10, Turned DEF CashInv, Steps
  <1>12. CashOutTypeOK'
    BY ZenonT(60), <1>2, <1>5, <1>11 DEF CashInv, CashOutTypeOK, HoldStates, Steps
  <1> QED BY <1>5, <1>6, <1>7, <1>9, <1>12 DEF CashInv

LEMMA AdriftKeeps ==
  ASSUME CashInv, AdriftExecuted
  PROVE  CashInv'
  <1>1. PICK request \in adrift, reply \in {"ok", "refused"} :
            WalletExecutes(request, reply) /\ adrift' = adrift \ {request}
    BY DEF AdriftExecuted
  <1>2. UNCHANGED <<order, bank, driver, verdicts>> BY DEF AdriftExecuted
  <1>3. request \in Requests BY DEF CashInv, CashOutTypeOK
  <1>4. (request = "capture" => bank = "SUCCESS") /\ (request = "release" => bank = "FAILED")
    BY DEF CashInv, AdriftFits
  <1>5. /\ cashHold' \in HoldStates
        /\ HoldFollowsBank'
        /\ cashHold.status # "NONE" => cashHold'.status # "NONE"
        /\ cashHold.status \in {"CAPTURED", "EXPIRED"} => cashHold'.status = cashHold.status
    BY <1>1, <1>2, <1>3, <1>4, WalletKeeps
  <1>6. OrderFits' /\ AdriftFits' /\ Announced'
    BY <1>1, <1>2, <1>5 DEF CashInv, OrderFits, AdriftFits, Announced, Before
  <1>7. \A u \in Drivers : WorkerFits(u)'
    BY <1>2, <1>5 DEF CashInv, WorkerFits, Before, Holds
  <1>8. CashOutTypeOK' BY ZenonT(60), <1>1, <1>2, <1>5 DEF CashInv, CashOutTypeOK, HoldStates
  <1> QED BY <1>5, <1>6, <1>7, <1>8 DEF CashInv

\* What a worker may write of the row without changing what it stands for.
LEMMA AdvanceKeeps ==
  ASSUME CashInv, NEW w \in Drivers, NEW from \in {"held", "success", "declined"},
         NEW workflow \in {"PAYOUT", "CAPTURING", "RELEASING"},
         Advance(w, from, workflow),
         workflow = "CAPTURING" => bank = "SUCCESS",
         workflow = "RELEASING" => bank = "FAILED"
  PROVE  CashInv'
  <1>1. Turn(w, from, "read") /\ UNCHANGED <<cashHold, bank, adrift, verdicts>> BY DEF Advance
  <1>2. WorkerFits(w) /\ cashHold.status # "NONE"
    BY <1>1 DEF CashInv, WorkerFits, Turn, AskedSteps, PaidSteps, DeclinedSteps
  <1>3. CASE ~(Holds(w) /\ order.status \notin Ended)
    <2>1. order' = order /\ driver' = [driver EXCEPT ![w] = "read"] BY <1>1, <1>3 DEF Advance, Turn
    <2> QED BY <1>1, <2>1, QuietKeeps DEF CashInv, CashOutTypeOK, AdriftFits
  <1>4. CASE Holds(w) /\ order.status \notin Ended
    <2>1. order' = [order EXCEPT !.workflow = workflow] BY <1>4 DEF Advance
    <2>2. CashOutTypeOK' BY <1>1, <2>1 DEF CashInv, CashOutTypeOK, Turn
    <2>3. order.status \notin {"NONE", "REQUESTED"}
      BY <1>4, NoDriverIsNoDriver DEF CashInv, OrderFits, Holds
    <2>4. Before' => Before BY <2>1, <2>2 DEF Before, CashInv, CashOutTypeOK
    <2>5. OrderFits' BY <1>1, <1>2, <1>4, <2>1, <2>3, <2>4 DEF CashInv, CashOutTypeOK, OrderFits
    <2>6. \A u \in Drivers : WorkerFits(u)'
      BY <1>1, <1>2, <1>4, <2>1, <2>4
         DEF CashInv, CashOutTypeOK, WorkerFits, Holds, Turn, PaidSteps, DeclinedSteps, AskedSteps
    <2> QED BY <1>1, <2>1, <2>2, <2>5, <2>6 DEF CashInv, CashOutTypeOK, HoldFollowsBank, AdriftFits, Announced
  <1> QED BY <1>3, <1>4

LEMMA PendingKeeps ==
  ASSUME CashInv, NEW w \in Drivers, PayoutPending(w)
  PROVE  CashInv'
  <1>1. Turn(w, "pending", "leave") /\ UNCHANGED <<cashHold, bank, adrift, verdicts>> BY DEF PayoutPending
  <1>2. WorkerFits(w) /\ cashHold.status # "NONE"
    BY <1>1 DEF CashInv, WorkerFits, Turn, AskedSteps, PaidSteps, DeclinedSteps
  <1>3. CASE ~(Holds(w) /\ order.status \notin Ended)
    <2>1. order' = order /\ driver' = [driver EXCEPT ![w] = "leave"] BY <1>1, <1>3 DEF PayoutPending, Turn
    <2> QED BY <1>1, <2>1, QuietKeeps DEF CashInv, CashOutTypeOK, AdriftFits
  <1>4. CASE Holds(w) /\ order.status \notin Ended
    <2>1. order' = [order EXCEPT !.status = "PAYOUT_PENDING", !.workflow = "AWAIT_RECONCILE"]
      BY <1>4 DEF PayoutPending
    <2>2. CashOutTypeOK' BY <1>1, <2>1 DEF CashInv, CashOutTypeOK, Turn
    <2>3. Before' => Before BY <2>1, <2>2 DEF Before, CashInv, CashOutTypeOK
    <2>4. OrderFits' BY <1>1, <1>2, <1>4, <2>1, <2>3 DEF CashInv, CashOutTypeOK, OrderFits, Ended
    <2>5. \A u \in Drivers : WorkerFits(u)'
      BY <1>1, <1>2, <1>4, <2>1, <2>3
         DEF CashInv, CashOutTypeOK, WorkerFits, Holds, Turn, PaidSteps, DeclinedSteps, AskedSteps
    <2> QED BY <1>1, <1>4, <2>1, <2>2, <2>4, <2>5
            DEF CashInv, CashOutTypeOK, HoldFollowsBank, AdriftFits, Announced, Ended
  <1> QED BY <1>3, <1>4

\* A verdict is written once, by whoever holds the lease.
LEMMA FinishKeeps ==
  ASSUME CashInv, NEW w \in Drivers, FinishCashOut(w)
  PROVE  CashInv'
  <1>1. PICK o \in DOMAIN CashOutOutcome :
          /\ Turn(w, o, "leave")
          /\ IF Holds(w) /\ order.status \notin Ended
             THEN Close(CashOutOutcome[o].status, CashOutOutcome[o].why) /\ verdicts' = verdicts + 1
             ELSE UNCHANGED <<order, verdicts>>
    BY DEF FinishCashOut
  <1>2. UNCHANGED <<cashHold, bank, adrift>> BY DEF FinishCashOut
  <1>3. WorkerFits(w) /\ driver[w] = o BY <1>1 DEF CashInv, Turn
  <1>6. driver \in [Drivers -> Steps] /\ "leave" \in Steps BY DEF CashInv, CashOutTypeOK, Steps
  <1>4. CASE ~(Holds(w) /\ order.status \notin Ended)
    <2>1. order' = order /\ verdicts' = verdicts BY <1>1, <1>4
    <2>2. driver' = [driver EXCEPT ![w] = "leave"] BY <1>1 DEF Turn
    <2> QED BY <1>2, <2>1, <2>2, QuietKeeps DEF CashInv, CashOutTypeOK, AdriftFits
  <1>5. CASE Holds(w) /\ order.status \notin Ended
    <2> DEFINE status == CashOutOutcome[o].status
               why == CashOutOutcome[o].why
    <2>1. order' = [status |-> status, workflow |-> "IDLE", lease |-> NoDriver, leased |-> FALSE, why |-> why]
      BY <1>1, <1>5 DEF Close
    <2>2. verdicts' = verdicts + 1 BY <1>1, <1>5
    <2>3. driver' = [driver EXCEPT ![w] = "leave"] BY <1>1 DEF Turn
    <2>4. /\ o \in {"refused", "captured", "gone", "released"}
          /\ o = "refused" => status = "FAILED" /\ why = "HOLD_REFUSED"
          /\ o = "captured" => status = "SUCCEEDED" /\ why = ""
          /\ o = "gone" => status = "FAILED" /\ why = "RECONCILE_HOLD_EXPIRED"
          /\ o = "released" => status = "FAILED" /\ why = "BANK_DECLINED"
      <3>1. o \in {"refused", "captured", "gone", "released"} BY DEF CashOutOutcome
      <3>2. CASE o = "refused" BY <3>2 DEF CashOutOutcome
      <3>3. CASE o = "captured" BY <3>3 DEF CashOutOutcome
      <3>4. CASE o = "gone" BY <3>4 DEF CashOutOutcome
      <3>5. CASE o = "released" BY <3>5 DEF CashOutOutcome
      <3> QED BY <3>1, <3>2, <3>3, <3>4, <3>5
    <2> HIDE DEF status, why
    <2>5. status \in Ended /\ why \in {"", "HOLD_REFUSED", "BANK_DECLINED", "RECONCILE_HOLD_EXPIRED"}
      BY <2>4 DEF Ended
    <2>6. CashOutTypeOK'
      <3>1. driver' \in [Drivers -> Steps] BY <2>3, <1>6
      <3>2. verdicts' \in Nat
        <4>1. verdicts = 0 BY <1>5 DEF CashInv, Announced
        <4> QED BY <2>2, <4>1
      <3>3. order' \in [status : {"NONE", "REQUESTED", "HOLDING", "PAYOUT_PENDING"} \cup Ended,
                  workflow : {"IDLE", "HOLDING", "PAYOUT", "CAPTURING", "RELEASING", "AWAIT_RECONCILE"},
                  lease : Drivers \cup {NoDriver}, leased : BOOLEAN,
                  why : {"", "HOLD_REFUSED", "BANK_DECLINED", "RECONCILE_HOLD_EXPIRED"}]
        BY <2>1, <2>5
      <3> QED BY <1>2, <3>1, <3>2, <3>3 DEF CashInv, CashOutTypeOK, Steps
    <2>7. Before' => Before
      <3>1. ~Before => o # "refused" BY <1>3, <1>5 DEF WorkerFits, Before
      <3> QED BY <2>1, <2>4, <2>5, <3>1 DEF Before, Ended
    <2>8. OrderFits'
      BY <1>2, <1>3, <2>1, <2>4, <2>5, <2>7
         DEF CashInv, OrderFits, WorkerFits, Ended, PaidSteps, DeclinedSteps
    <2>9. \A u \in Drivers : WorkerFits(u)'
      BY <1>2, <2>1, <2>3, <2>7, NoDriverIsNoDriver
         DEF CashInv, CashOutTypeOK, WorkerFits, Holds, PaidSteps, DeclinedSteps, AskedSteps
    <2>10. Announced'
      <3>1. verdicts = 0 BY <1>5 DEF CashInv, Announced
      <3>2. order'.status \in Ended BY <2>1, <2>5
      <3>3. verdicts' = 1 BY <2>2, <3>1
      <3> QED BY <3>2, <3>3 DEF Announced
    <2> QED BY <1>2, <2>6, <2>8, <2>9, <2>10 DEF CashInv, HoldFollowsBank, AdriftFits
  <1> QED BY <1>4, <1>5

\* Claiming the order, and reading it afresh.
LEMMA DriveKeeps ==
  ASSUME CashInv, NEW w \in Drivers, Drive(w)
  PROVE  CashInv'
  <1>1. order' = [order EXCEPT !.lease = w, !.leased = TRUE] /\ UNCHANGED <<cashHold, bank, adrift, verdicts>>
    BY DEF Drive
  <1>2. order.workflow # "IDLE" BY DEF Drive
  <1>3. CashOutTypeOK BY DEF CashInv
  <1>4. /\ driver' \in [Drivers -> Steps] /\ driver'[w] = "read"
        /\ \A u \in Drivers \ {w} : driver'[u] = driver[u]
    <2>1. Turn(w, "idle", "read") BY DEF Drive
    <2>2. "read" \in Steps BY DEF Steps
    <2> QED BY <1>3, <2>1, <2>2, Turned
  <1>5. /\ order'.lease = w
        /\ order'.status = order.status /\ order'.workflow = order.workflow /\ order'.why = order.why
    BY <1>1, <1>3 DEF CashOutTypeOK
  <1>6. CashOutTypeOK' BY <1>1, <1>3, <1>4 DEF CashOutTypeOK, Steps
  <1>7. OrderFits' BY <1>1, <1>2, <1>5 DEF CashInv, OrderFits, Before
  <1>8. \A u \in Drivers : WorkerFits(u)'
    BY <1>1, <1>4, <1>5 DEF CashInv, WorkerFits, Before, Holds, PaidSteps, DeclinedSteps, AskedSteps
  <1> QED BY <1>1, <1>5, <1>6, <1>7, <1>8 DEF CashInv, HoldFollowsBank, AdriftFits, Announced

LEMMA RunStepKeeps ==
  ASSUME CashInv, NEW w \in Drivers, RunStep(w)
  PROVE  CashInv'
  <1>1. UNCHANGED <<order, cashHold, bank, adrift, verdicts>> BY DEF RunStep
  <1>2. CashOutTypeOK BY DEF CashInv
  <1>3. PICK to \in {"hold", "payout", "capture", "release", "extend", "leave"} :
          /\ Turn(w, "read", to)
          /\ to # "leave" => order.status \notin Ended
          /\ to = "hold" => order.workflow = "HOLDING"
          /\ to = "payout" => order.workflow = "PAYOUT"
          /\ to = "capture" => order.workflow = "CAPTURING"
          /\ to = "release" => order.workflow = "RELEASING"
          /\ to = "extend" => order.workflow = "AWAIT_RECONCILE"
    <2>1. CASE order.status \in Ended BY <2>1 DEF RunStep
    <2>2. CASE order.status \notin Ended /\ order.workflow = "HOLDING" BY <2>2 DEF RunStep
    <2>3. CASE order.status \notin Ended /\ order.workflow = "PAYOUT" BY <2>3 DEF RunStep
    <2>4. CASE order.status \notin Ended /\ order.workflow = "CAPTURING" BY <2>4 DEF RunStep
    <2>5. CASE order.status \notin Ended /\ order.workflow = "RELEASING" BY <2>5 DEF RunStep
    <2>6. CASE order.status \notin Ended /\ order.workflow = "AWAIT_RECONCILE" BY <2>6 DEF RunStep
    <2>7. CASE order.status \notin Ended /\ order.workflow = "IDLE" BY <2>7 DEF RunStep
    <2> QED BY <1>2, <2>1, <2>2, <2>3, <2>4, <2>5, <2>6, <2>7 DEF CashOutTypeOK
  <1>4. to \in Steps BY DEF Steps, Requests
  <1>5. /\ driver' \in [Drivers -> Steps] /\ driver'[w] = to
        /\ \A u \in Drivers \ {w} : driver'[u] = driver[u]
    BY <1>2, <1>3, <1>4, Turned
  <1>6. CashOutTypeOK'
    <2>1. bank' \in {"NONE", "PENDING", "SUCCESS", "FAILED"} /\ adrift' \in SUBSET Requests
      BY <1>1, <1>2 DEF CashOutTypeOK
    <2> QED BY <1>1, <1>2, <1>5, <2>1, TypedAfterTurn
  <1>7. \A u \in Drivers \ {w} : WorkerFits(u)' BY <1>1, <1>5 DEF CashInv, WorkerFits, Before, Holds
  <1>8. WorkerFits(w)'
    BY <1>1, <1>3, <1>5 DEF CashInv, OrderFits, WorkerFits, Before, Holds, PaidSteps, DeclinedSteps, AskedSteps
  <1> QED BY <1>1, <1>6, <1>7, <1>8 DEF CashInv, HoldFollowsBank, OrderFits, Before, AdriftFits, Announced

\* The bank's row only ever becomes definitive.
LEMMA PayoutKeeps ==
  ASSUME CashInv, NEW w \in Drivers, IssuePayout(w)
  PROVE  CashInv'
  <1>1. UNCHANGED <<order, cashHold, adrift, verdicts>> BY DEF IssuePayout
  <1>2. CashOutTypeOK BY DEF CashInv
  <1>3. /\ bank' \in {"NONE", "PENDING", "SUCCESS", "FAILED"}
        /\ bank # "NONE" => bank' = bank
    BY <1>2 DEF IssuePayout, BankAnswers, CashOutTypeOK
  <1>4. PICK to \in {"leave", "pending", "success", "declined"} :
          /\ Turn(w, "payout", to)
          /\ to = "success" => bank' = "SUCCESS"
          /\ to = "declined" => bank' = "FAILED"
    <2>1. CASE Turn(w, "payout", "pending") BY <2>1
    <2>2. CASE Turn(w, "payout", Verdict(bank'))
      <3>1. CASE bank' = "NONE" BY <2>2, <3>1 DEF Verdict
      <3>2. CASE bank' = "PENDING" BY <2>2, <3>2 DEF Verdict
      <3>3. CASE bank' = "SUCCESS" BY <2>2, <3>3 DEF Verdict
      <3>4. CASE bank' = "FAILED" BY <2>2, <3>4 DEF Verdict
      <3> QED BY <1>3, <3>1, <3>2, <3>3, <3>4
    <2> QED BY <2>1, <2>2 DEF IssuePayout
  <1>5. to \in Steps BY DEF Steps, Answered
  <1>6. /\ driver' \in [Drivers -> Steps] /\ driver[w] = "payout" /\ driver'[w] = to
        /\ \A u \in Drivers \ {w} : driver'[u] = driver[u]
    BY <1>2, <1>4, <1>5, Turned
  <1>7. ~Before /\ cashHold.status # "NONE" BY <1>6 DEF CashInv, WorkerFits, AskedSteps
  <1>8. CashOutTypeOK'
    <2>1. adrift' \in SUBSET Requests BY <1>1, <1>2 DEF CashOutTypeOK
    <2> QED BY <1>1, <1>2, <1>3, <1>6, <2>1, TypedAfterTurn
  <1>9. OrderFits' BY <1>1, <1>3, <1>7 DEF CashInv, OrderFits, Before
  <1>10. HoldFollowsBank' /\ AdriftFits' /\ Announced'
    BY <1>1, <1>3, <1>7 DEF CashInv, HoldFollowsBank, AdriftFits, Announced
  <1>11. \A u \in Drivers \ {w} : WorkerFits(u)' BY <1>1, <1>3, <1>6 DEF CashInv, WorkerFits, Before, Holds
  <1>12. WorkerFits(w)'
    BY <1>1, <1>4, <1>6, <1>7 DEF WorkerFits, Before, Holds, PaidSteps, DeclinedSteps, AskedSteps
  <1> QED BY <1>8, <1>9, <1>10, <1>11, <1>12 DEF CashInv

LEMMA QueryKeeps ==
  ASSUME CashInv, NEW w \in Drivers, QueryPayout(w)
  PROVE  CashInv'
  <1>1. UNCHANGED <<order, cashHold, bank, adrift, verdicts>> BY DEF QueryPayout
  <1>2. CashOutTypeOK BY DEF CashInv
  <1>3. PICK to \in {"leave", "success", "declined"} :
          /\ Turn(w, "query", to)
          /\ to = "success" => bank = "SUCCESS"
          /\ to = "declined" => bank = "FAILED"
    <2>1. CASE Turn(w, "query", "leave") BY <2>1
    <2>2. CASE Turn(w, "query", IF bank = "PENDING" THEN "leave" ELSE Verdict(bank))
      <3>1. CASE bank = "NONE" BY <2>2, <3>1 DEF Verdict
      <3>2. CASE bank = "PENDING" BY <2>2, <3>2
      <3>3. CASE bank = "SUCCESS" BY <2>2, <3>3 DEF Verdict
      <3>4. CASE bank = "FAILED" BY <2>2, <3>4 DEF Verdict
      <3> QED BY <1>2, <3>1, <3>2, <3>3, <3>4 DEF CashOutTypeOK
    <2> QED BY <2>1, <2>2 DEF QueryPayout
  <1>4. to \in Steps BY DEF Steps, Answered
  <1>5. /\ driver' \in [Drivers -> Steps] /\ driver[w] = "query" /\ driver'[w] = to
        /\ \A u \in Drivers \ {w} : driver'[u] = driver[u]
    BY <1>2, <1>3, <1>4, Turned
  <1>6. ~Before /\ cashHold.status # "NONE" BY <1>5 DEF CashInv, WorkerFits, AskedSteps
  <1>7. CashOutTypeOK'
    <2>1. bank' \in {"NONE", "PENDING", "SUCCESS", "FAILED"} /\ adrift' \in SUBSET Requests
      BY <1>1, <1>2 DEF CashOutTypeOK
    <2> QED BY <1>1, <1>2, <1>5, <2>1, TypedAfterTurn
  <1>8. \A u \in Drivers \ {w} : WorkerFits(u)' BY <1>1, <1>5 DEF CashInv, WorkerFits, Before, Holds
  <1>9. WorkerFits(w)'
    BY <1>1, <1>3, <1>5, <1>6 DEF WorkerFits, Before, Holds, PaidSteps, DeclinedSteps, AskedSteps
  <1> QED BY <1>1, <1>7, <1>8, <1>9 DEF CashInv, HoldFollowsBank, OrderFits, Before, AdriftFits, Announced

LEMMA LeaveKeeps ==
  ASSUME CashInv, NEW w \in Drivers, Leave(w)
  PROVE  CashInv'
  <1>1. UNCHANGED <<cashHold, bank, adrift, verdicts>> BY DEF Leave
  <1>2. CashOutTypeOK BY DEF CashInv
  <1>3. driver' = [driver EXCEPT ![w] = "idle"] /\ Turn(w, "leave", "idle") BY DEF Leave, Turn
  <1>4. CASE ~Holds(w)
    <2>1. order' = order BY <1>4 DEF Leave
    <2> QED BY <1>1, <1>2, <1>3, <2>1, QuietKeeps DEF CashInv, CashOutTypeOK, AdriftFits
  <1>5. CASE Holds(w)
    <2>1. order' = [order EXCEPT !.lease = NoDriver, !.leased = FALSE] BY <1>5 DEF Leave
    <2>2. "idle" \in Steps BY DEF Steps
    <2>3. /\ driver' \in [Drivers -> Steps] /\ driver'[w] = "idle"
          /\ \A u \in Drivers \ {w} : driver'[u] = driver[u]
      BY <1>2, <1>3, <2>2, Turned
    <2>4. /\ order'.lease = NoDriver
          /\ order'.status = order.status /\ order'.workflow = order.workflow /\ order'.why = order.why
      BY <1>2, <2>1 DEF CashOutTypeOK
    <2>5. CashOutTypeOK' BY <1>1, <1>2, <2>1, <2>3 DEF CashOutTypeOK, Steps
    <2>6. OrderFits' BY <1>1, <2>4 DEF CashInv, OrderFits, Before
    <2>7. \A u \in Drivers : WorkerFits(u)'
      BY <1>1, <2>3, <2>4, NoDriverIsNoDriver
         DEF CashInv, WorkerFits, Before, Holds, PaidSteps, DeclinedSteps, AskedSteps
    <2> QED BY <1>1, <2>4, <2>5, <2>6, <2>7 DEF CashInv, HoldFollowsBank, AdriftFits, Announced
  <1> QED BY <1>4, <1>5

\* A request that nobody waits for any more was justified when it was sent.
LEMMA StrayFits ==
  ASSUME CashInv, NEW w \in Drivers, NEW sent \in SUBSET ({driver[w]} \cap Requests),
         adrift' \in {adrift, adrift \cup sent}, bank' = bank
  PROVE  adrift' \in SUBSET Requests /\ AdriftFits'
  <1>1. adrift' \in SUBSET Requests BY DEF CashInv, CashOutTypeOK
  <1>2. \A r \in adrift' : r \in adrift \/ r = driver[w] OBVIOUS
  <1>3. "capture" \in adrift' => bank = "SUCCESS"
    BY <1>2 DEF CashInv, AdriftFits, WorkerFits, PaidSteps
  <1>4. "release" \in adrift' => bank = "FAILED"
    BY <1>2 DEF CashInv, AdriftFits, WorkerFits, DeclinedSteps
  <1> QED BY <1>1, <1>3, <1>4 DEF AdriftFits

LEMMA UnansweredKeeps ==
  ASSUME CashInv, NEW w \in Drivers, CallUnanswered(w)
  PROVE  CashInv'
  <1>1. PICK request \in Requests :
          Turn(w, request, AfterCall(request, "none")) /\ adrift' \in {adrift, adrift \cup {request}}
    BY DEF CallUnanswered
  <1>2. UNCHANGED <<order, cashHold, bank, verdicts>> BY DEF CallUnanswered
  <1>3. CashOutTypeOK BY DEF CashInv
  <1>4. driver[w] = request BY <1>1 DEF Turn
  <1>5. adrift' \in SUBSET Requests /\ AdriftFits'
    <2>1. {request} \in SUBSET ({driver[w]} \cap Requests) BY <1>4
    <2>2. bank' = bank BY <1>2
    <2> QED BY <1>1, <2>1, <2>2, StrayFits
  <1>6. CASE request # "extend"
    <2>1. AfterCall(request, "none") = "leave" BY <1>6, AfterCalls
    <2>2. driver' = [driver EXCEPT ![w] = "leave"] BY <1>1, <2>1 DEF Turn
    <2> QED BY <1>2, <1>5, <2>2, QuietKeeps
  <1>7. CASE request = "extend"
    <2>1. AfterCall(request, "none") = "query" BY <1>7, AfterCalls
    <2>2. Turn(w, request, "query") BY <1>1, <2>1
    <2>3. "query" \in Steps BY DEF Steps
    <2>4. /\ driver' \in [Drivers -> Steps] /\ driver'[w] = "query"
          /\ \A u \in Drivers \ {w} : driver'[u] = driver[u]
      BY <1>3, <2>2, <2>3, Turned
    <2>5. \A u \in Drivers : WorkerFits(u)'
      BY <1>2, <1>4, <1>7, <2>4
         DEF CashInv, WorkerFits, Before, Holds, PaidSteps, DeclinedSteps, AskedSteps
    <2>6. CashOutTypeOK'
      <3>1. bank' \in {"NONE", "PENDING", "SUCCESS", "FAILED"} BY <1>2, <1>3 DEF CashOutTypeOK
      <3> QED BY <1>2, <1>3, <1>5, <2>4, <3>1, TypedAfterTurn
    <2> QED BY <1>2, <1>5, <2>5, <2>6 DEF CashInv, HoldFollowsBank, OrderFits, Before, Announced
  <1> QED BY <1>6, <1>7

LEMMA CrashKeeps ==
  ASSUME CashInv, NEW w \in Drivers, DriverCrash(w)
  PROVE  CashInv'
  <1>1. driver' = [driver EXCEPT ![w] = "idle"] BY DEF DriverCrash
  <1>2. UNCHANGED <<order, cashHold, bank, verdicts>> BY DEF DriverCrash
  <1>3. adrift' \in SUBSET Requests /\ AdriftFits'
    <2>1. adrift' \in {adrift, adrift \cup ({driver[w]} \cap Requests)} BY DEF DriverCrash
    <2>2. bank' = bank BY <1>2
    <2> QED BY <2>1, <2>2, StrayFits
  <1> QED BY <1>1, <1>2, <1>3, QuietKeeps

\* The user, the passage of time, and the bank's last word.
LEMMA OthersKeep ==
  ASSUME CashInv,
         CreateCashOut \/ ConfirmCashOut \/ LeaseRunsOut \/ CashHoldDue \/ CashHoldSwept \/ BankConcludes
  PROVE  CashInv'
  <1>1. CashOutTypeOK BY DEF CashInv
  <1>2. CASE CreateCashOut
    <2>1. order' = [order EXCEPT !.status = "REQUESTED"] /\ order.status = "NONE" BY <1>2 DEF CreateCashOut
    <2> QED BY <1>1, <1>2, <2>1
            DEF CreateCashOut, CashInv, CashOutTypeOK, HoldFollowsBank, OrderFits, WorkerFits, AdriftFits,
                Announced, Before, Holds, Ended
  <1>3. CASE ConfirmCashOut
    <2>1. order' = [order EXCEPT !.status = "HOLDING", !.workflow = "HOLDING"] /\ order.status = "REQUESTED"
      BY <1>3 DEF ConfirmCashOut
    <2> QED BY <1>1, <1>3, <2>1
            DEF ConfirmCashOut, CashInv, CashOutTypeOK, HoldFollowsBank, OrderFits, WorkerFits, AdriftFits,
                Announced, Before, Holds, Ended
  <1>4. CASE LeaseRunsOut
    BY ZenonT(60), <1>1, <1>4 DEF LeaseRunsOut, CashInv, CashOutTypeOK, HoldFollowsBank, OrderFits, WorkerFits, AdriftFits,
                Announced, Before, Holds
  <1>5. CASE CashHoldDue
    BY ZenonT(60), <1>1, <1>5 DEF CashHoldDue, CashInv, CashOutTypeOK, HoldFollowsBank, OrderFits, WorkerFits, AdriftFits,
                Announced, Before, Holds
  <1>6. CASE CashHoldSwept
    BY ZenonT(60), <1>1, <1>6 DEF CashHoldSwept, CashInv, CashOutTypeOK, HoldFollowsBank, OrderFits, WorkerFits, AdriftFits,
                Announced, Before, Holds
  <1>7. CASE BankConcludes
    BY ZenonT(60), <1>1, <1>7 DEF BankConcludes, CashInv, CashOutTypeOK, HoldFollowsBank, OrderFits, WorkerFits, AdriftFits,
                Announced, Before, Holds
  <1> QED BY <1>2, <1>3, <1>4, <1>5, <1>6, <1>7

LEMMA CashInvStep == CashInv /\ [CashOutNext]_cashVars => CashInv'
  <1> SUFFICES ASSUME CashInv, [CashOutNext]_cashVars PROVE CashInv'
    OBVIOUS
  <1>1. CASE UNCHANGED cashVars
    <2>1. /\ order' = order /\ cashHold' = cashHold /\ bank' = bank
          /\ driver' = driver /\ adrift' = adrift /\ verdicts' = verdicts
      BY <1>1 DEF cashVars
    <2>2. CashOutTypeOK'
      <3>1. CashOutTypeOK BY DEF CashInv
      <3>2. /\ driver' \in [Drivers -> Steps] /\ adrift' \in SUBSET Requests
            /\ bank' \in {"NONE", "PENDING", "SUCCESS", "FAILED"}
        BY <2>1, <3>1 DEF CashOutTypeOK, Steps
      <3> QED BY <2>1, <3>1, <3>2, TypedAfterTurn
    <2>3. HoldFollowsBank' /\ OrderFits' /\ AdriftFits' /\ Announced'
      BY <2>1 DEF CashInv, HoldFollowsBank, OrderFits, AdriftFits, Announced, Before
    <2>4. \A w \in Drivers : WorkerFits(w)' BY <2>1 DEF CashInv, WorkerFits, Before, Holds
    <2> QED BY <2>2, <2>3, <2>4 DEF CashInv
  <1>2. CASE CreateCashOut \/ ConfirmCashOut \/ LeaseRunsOut \/ CashHoldDue \/ CashHoldSwept \/ BankConcludes
    BY <1>2, OthersKeep
  <1>3. CASE AdriftExecuted BY <1>3, AdriftKeeps
  <1>4. ASSUME NEW w \in Drivers, DriverNext(w) PROVE CashInv'
    <2>1. CASE Drive(w) BY <2>1, DriveKeeps
    <2>2. CASE RunStep(w) BY <2>2, RunStepKeeps
    <2>3. CASE CallWallet(w) BY <2>3, CallKeeps
    <2>4. CASE CallUnanswered(w) BY <2>4, UnansweredKeeps
    <2>5. CASE IssuePayout(w) BY <2>5, PayoutKeeps
    <2>6. CASE QueryPayout(w) BY <2>6, QueryKeeps
    <2>7. CASE HoldPlaced(w)
      BY <2>7, AdvanceKeeps DEF HoldPlaced
    <2>8. CASE PayoutSucceeded(w)
      <3>1. bank = "SUCCESS" BY <2>8 DEF PayoutSucceeded, Advance, Turn, CashInv, WorkerFits, PaidSteps
      <3> QED BY <2>8, <3>1, AdvanceKeeps DEF PayoutSucceeded
    <2>9. CASE PayoutDeclined(w)
      <3>1. bank = "FAILED" BY <2>9 DEF PayoutDeclined, Advance, Turn, CashInv, WorkerFits, DeclinedSteps
      <3> QED BY <2>9, <3>1, AdvanceKeeps DEF PayoutDeclined
    <2>10. CASE PayoutPending(w) BY <2>10, PendingKeeps
    <2>11. CASE FinishCashOut(w) BY <2>11, FinishKeeps
    <2>12. CASE Leave(w) BY <2>12, LeaveKeeps
    <2>13. CASE DriverCrash(w) BY <2>13, CrashKeeps
    <2> QED
      BY <1>4, <2>1, <2>2, <2>3, <2>4, <2>5, <2>6, <2>7, <2>8, <2>9, <2>10, <2>11, <2>12, <2>13
         DEF DriverNext, Writes
  <1> QED BY <1>1, <1>2, <1>3, <1>4 DEF CashOutNext

LEMMA CashInvAlways == CashOutSpec => []CashInv
  BY CashInvInit, CashInvStep, PTL DEF CashOutSpec

\* The row of the order, the hold, the bank's row and the workers stay within
\* their types.
THEOREM CashOutTypeCorrect == CashOutSpec => []CashOutTypeOK
  <1>1. CashInv => CashOutTypeOK BY DEF CashInv
  <1> QED BY <1>1, CashInvAlways, PTL

\* cashout.service: whatever the workers, lapsed leases and lost answers, the
\* wallet follows the bank and the order both, and the verdict is announced once.
THEOREM OrderFollowsBank == CashOutSpec => []VerdictMatchesBank
  BY CashInvImplies, CashInvAlways, PTL

-----------------------------------------------------------------------------
(* The hold of the cash-out, between payment-service and the wallet        *)

CashWalletHolds == INSTANCE HoldContract WITH
    Keys <- {"cashHold"}, Amounts <- {1},
    phase <- [k \in {"cashHold"} |-> PhaseOf(cashHold.status)],
    amount <- [k \in {"cashHold"} |-> IF cashHold.status = "NONE" THEN 0 ELSE 1],
    out <- [k \in {"cashHold"} |-> IF cashHold.status = "CAPTURED" THEN 1 ELSE 0]

\* What a step may make of the status of the hold.
CashHoldMoves ==
    \/ cashHold'.status = cashHold.status
    \/ cashHold.status = "NONE" /\ cashHold'.status = "PENDING"
    \/ cashHold.status = "PENDING" /\ cashHold'.status \in {"CAPTURED", "RELEASED", "EXPIRED"}

LEMMA ExecutionMovesHold ==
  ASSUME cashHold \in HoldStates, NEW request, NEW reply, WalletExecutes(request, reply)
  PROVE  CashHoldMoves
  <1> USE DEF CashHoldMoves, HoldStates
  <1>1. CASE cashHold' = cashHold BY <1>1
  <1>2. CASE cashHold.status = "NONE" /\ cashHold' = [status |-> "PENDING", due |-> FALSE] BY <1>2
  <1>3. CASE cashHold' = [cashHold EXCEPT !.due = FALSE] BY <1>3
  <1>4. CASE /\ cashHold.status \in {"CAPTURED", "PENDING"}
             /\ cashHold' = [cashHold EXCEPT !.status = "CAPTURED"]
    BY <1>4
  <1>5. CASE /\ cashHold.status \in {"RELEASED", "EXPIRED", "PENDING"}
             /\ cashHold' = [cashHold EXCEPT !.status = IF @ = "RELEASED" THEN @ ELSE "EXPIRED"]
    BY <1>5
  <1>6. CASE cashHold' = [cashHold EXCEPT !.status =
               IF @ = "PENDING" THEN IF cashHold.due THEN "EXPIRED" ELSE "RELEASED" ELSE @]
    BY <1>6
  <1> QED BY <1>1, <1>2, <1>3, <1>4, <1>5, <1>6 DEF WalletExecutes

LEMMA CashStepMovesHold ==
  ASSUME CashInv, [CashOutNext]_cashVars
  PROVE  CashHoldMoves
  <1>1. cashHold \in HoldStates BY DEF CashInv, CashOutTypeOK, HoldStates
  <1>2. CASE AdriftExecuted BY <1>1, <1>2, ExecutionMovesHold DEF AdriftExecuted
  <1>3. CASE CashHoldDue \/ CashHoldSwept
    BY <1>1, <1>3 DEF CashHoldDue, CashHoldSwept, CashHoldMoves, HoldStates
  <1>4. CASE CreateCashOut \/ ConfirmCashOut \/ LeaseRunsOut \/ BankConcludes \/ UNCHANGED cashVars
    BY <1>4 DEF CreateCashOut, ConfirmCashOut, LeaseRunsOut, BankConcludes, cashVars, CashHoldMoves
  <1>5. ASSUME NEW w \in Drivers, DriverNext(w) PROVE CashHoldMoves
    <2>1. CASE CallWallet(w) BY <1>1, <2>1, ExecutionMovesHold DEF CallWallet
    <2>2. CASE ~CallWallet(w)
      <3>1. cashHold' = cashHold
        BY <1>5, <2>2, ZenonT(60) DEF DriverNext, Writes, Drive, RunStep, CallUnanswered, IssuePayout, QueryPayout,
           HoldPlaced, PayoutSucceeded, PayoutDeclined, Advance, PayoutPending, FinishCashOut, Leave, DriverCrash
      <3> QED BY <3>1 DEF CashHoldMoves
    <2> QED BY <2>1, <2>2
  <1> QED BY <1>2, <1>3, <1>4, <1>5 DEF CashOutNext

\* Whatever workers, late executions and extensions do, the hold of the cash-out
\* goes the way HoldContract promises, which WalletLedger implements.
THEOREM CashHoldIsAsPromised == CashOutSpec => CashWalletHolds!Spec
  <1>1. CashOutInit => CashWalletHolds!Init
    <2>1. CashOutInit => cashHold.status = "NONE"
      <3> SUFFICES ASSUME CashOutInit PROVE cashHold.status = "NONE" OBVIOUS
      <3>1. cashHold = [status |-> "NONE", due |-> FALSE] BY Zenon DEF CashOutInit
      <3> QED BY <3>1
    <2> QED BY <2>1 DEF CashWalletHolds!Init, PhaseOf
  <1>2. CashInv /\ [CashOutNext]_cashVars => [CashWalletHolds!Next]_CashWalletHolds!vars
    <2> SUFFICES ASSUME CashInv, [CashOutNext]_cashVars
                 PROVE  [CashWalletHolds!Next]_CashWalletHolds!vars
      OBVIOUS
    <2>1. CASE cashHold'.status = cashHold.status
      BY <2>1 DEF CashWalletHolds!vars, PhaseOf
    <2>2. CASE cashHold.status = "NONE" /\ cashHold'.status = "PENDING"
      <3>1. CashWalletHolds!Reserve("cashHold") BY <2>2 DEF CashWalletHolds!Reserve, PhaseOf
      <3> QED BY <3>1 DEF CashWalletHolds!Next
    <2>3. CASE cashHold.status = "PENDING" /\ cashHold'.status \in {"RELEASED", "EXPIRED"}
      <3>1. CashWalletHolds!Free("cashHold") BY <2>3 DEF CashWalletHolds!Free, PhaseOf
      <3> QED BY <3>1 DEF CashWalletHolds!Next
    <2>4. CASE cashHold.status = "PENDING" /\ cashHold'.status = "CAPTURED"
      <3>1. CashWalletHolds!Settle("cashHold") BY <2>4 DEF CashWalletHolds!Settle, PhaseOf
      <3> QED BY <3>1 DEF CashWalletHolds!Next
    <2> QED BY <2>1, <2>2, <2>3, <2>4, CashStepMovesHold DEF CashHoldMoves
  <1> QED BY <1>1, <1>2, CashInvInit, CashInvStep, PTL DEF CashOutSpec, CashWalletHolds!Spec

-----------------------------------------------------------------------------
(* The outbox drain: SentIsTold is not inductive, what a drain is about to *)
(* mark must follow from what it has done, which holds of a drain that has *)
(* lost its claim too.                                                     *)

Told == kind # "refundOutcome" => arrived # {}

\* What a drain is at fits the row and, if it is to mark it, what it has done.
Justified(d) ==
    /\ draining[d] = "sent" => Told
    /\ draining[d] = "failed" => kind = "broken"
    /\ draining[d] \in {"legacy", "http", "rejected", "retryHttp"} => kind = "legacy"
    /\ draining[d] = "rejected" => answer = "4xx"

OutboxInv ==
    /\ PayOutTypeOK
    /\ \A d \in Drains : Justified(d)
    /\ SentIsTold

Rows == [status : {"PENDING", "PROCESSING", "SENT", "FAILED"}, token : Drains \cup {NoDrain},
         lease : BOOLEAN, waiting : BOOLEAN, retries : 0..MaxLegacyRetries]

\* A row with so many retries may be given up.
Hopeless(retries) ==
    \/ kind = "broken"
    \/ kind = "legacy" /\ (answer = "4xx" \/ retries = MaxLegacyRetries)

\* What updateClaimed may leave behind, given that the verdict is justified.
LEMMA UpdateKeeps ==
  ASSUME OutboxInv, NEW d \in Drains,
         NEW status \in {"PENDING", "SENT", "FAILED"}, NEW wait \in BOOLEAN, NEW retries \in 0..MaxLegacyRetries,
         UpdateClaimed(d, status, wait, retries),
         UNCHANGED <<kind, arrived, answer>>,
         status = "SENT" => Told,
         status = "FAILED" => Hopeless(retries)
  PROVE  outrow' \in Rows /\ SentIsTold'
  <1> USE NoDrainIsNoDrain, SomeLegacyRetry DEF OutboxInv, PayOutTypeOK, Rows
  <1>1. CASE outrow.status = "PROCESSING" /\ outrow.token = d
    BY <1>1 DEF UpdateClaimed, SentIsTold, Told, Hopeless
  <1>2. CASE ~(outrow.status = "PROCESSING" /\ outrow.token = d)
    BY <1>2 DEF UpdateClaimed, SentIsTold
  <1> QED BY <1>1, <1>2

LEMMA CountedIsBounded == OutboxInv => Counted \in 0..MaxLegacyRetries
  BY SomeLegacyRetry DEF OutboxInv, PayOutTypeOK, Counted

LEMMA OutboxInvInit == PayOutInit => OutboxInv
  BY NoDrainIsNoDrain, SomeLegacyRetry
  DEF PayOutInit, OutboxInv, PayOutTypeOK, Justified, SentIsTold, Told, Kinds

LEMMA OutboxInvStep == OutboxInv /\ [PayOutNext]_payOutVars => OutboxInv'
  <1> SUFFICES ASSUME OutboxInv, [PayOutNext]_payOutVars PROVE OutboxInv'
    OBVIOUS
  <1> USE NoDrainIsNoDrain, SomeLegacyRetry DEF OutboxInv, PayOutTypeOK
  <1>1. CASE UNCHANGED payOutVars
    BY <1>1 DEF payOutVars, Justified, SentIsTold, Told
  <1>2. CASE LinkNext /\ UNCHANGED <<kind, outrow, draining, arrived, answer>>
    BY <1>2 DEF Justified, SentIsTold, Told
  <1>3. CASE OutboxLeaseLapses
    BY <1>3 DEF OutboxLeaseLapses, Justified, SentIsTold, Told
  <1>4. CASE RetryFallsDue
    BY <1>4 DEF RetryFallsDue, Justified, SentIsTold, Told
  <1>5. ASSUME NEW d \in Drains, ClaimPaymentOutboxEvents(d) PROVE OutboxInv'
    BY <1>5 DEF ClaimPaymentOutboxEvents, DrainStep, Justified, SentIsTold, Told
  <1>6. ASSUME NEW d \in Drains, ProcessClaimedEvent(d) PROVE OutboxInv'
    BY <1>6 DEF ProcessClaimedEvent, DrainStep, Justified, SentIsTold, Told, Kinds
  <1>7. ASSUME NEW d \in Drains, PublishEnvelope(d) PROVE OutboxInv'
    <2>1. UNCHANGED <<kind, outrow, answer>> /\ arrived \subseteq arrived' BY <1>7 DEF PublishEnvelope
    <2>2. arrived' \in SUBSET {"envelope", "legacy", "http"} BY <1>7 DEF PublishEnvelope
    <2>3. \E to \in {"sent", "again"} : DrainStep(d, "publish", to) BY <1>7 DEF PublishEnvelope
    <2>4. draining'[d] = "sent" => "envelope" \in arrived' BY <1>7, <2>3 DEF PublishEnvelope, DrainStep
    <2>5. Told => Told' BY <2>1 DEF Told
    <2>6. draining'[d] = "sent" => Told' BY <2>4 DEF Told
    <2>7. \A e \in Drains : Justified(e)' BY <2>1, <2>3, <2>5, <2>6 DEF DrainStep, Justified
    <2>8. SentIsTold' BY <2>1 DEF SentIsTold
    <2> QED BY <2>1, <2>2, <2>3, <2>7, <2>8 DEF DrainStep
  <1>8. ASSUME NEW d \in Drains, PublishLegacy(d) PROVE OutboxInv'
    <2>1. UNCHANGED <<kind, outrow, answer>> /\ arrived \subseteq arrived' BY <1>8 DEF PublishLegacy
    <2>2. arrived' \in SUBSET {"envelope", "legacy", "http"} BY <1>8 DEF PublishLegacy
    <2>3. \E to \in {"sent", "http"} : DrainStep(d, "legacy", to) BY <1>8 DEF PublishLegacy
    <2>4. draining'[d] = "sent" => "legacy" \in arrived' BY <1>8, <2>3 DEF PublishLegacy, DrainStep
    <2>5. Told => Told' BY <2>1 DEF Told
    <2>6. draining'[d] = "sent" => Told' BY <2>4 DEF Told
    <2>7. \A e \in Drains : Justified(e)' BY <2>1, <2>3, <2>5, <2>6 DEF DrainStep, Justified
    <2>8. SentIsTold' BY <2>1 DEF SentIsTold
    <2> QED BY <2>1, <2>2, <2>3, <2>7, <2>8 DEF DrainStep
  <1>9. ASSUME NEW d \in Drains, SendHttp(d) PROVE OutboxInv'
    <2>1. UNCHANGED <<kind, outrow>> /\ arrived \subseteq arrived' BY <1>9 DEF SendHttp
    <2>2. answer' \in {"none", "4xx"} /\ (answer = "4xx" => answer' = "4xx") BY <1>9 DEF SendHttp
    <2>3. draining'[d] = "rejected" => answer' = "4xx" BY <1>9 DEF SendHttp, DrainStep
    <2>4. arrived' \in SUBSET {"envelope", "legacy", "http"} BY <1>9 DEF SendHttp
    <2>5. \E to \in {"sent", "rejected", "retryHttp"} : DrainStep(d, "http", to) BY <1>9 DEF SendHttp
    <2>6. draining'[d] = "sent" => "http" \in arrived' BY <1>9, <2>5 DEF SendHttp, DrainStep
    <2>7. Told => Told' BY <2>1 DEF Told
    <2>8. draining'[d] = "sent" => Told' BY <2>6 DEF Told
    <2>9. \A e \in Drains : Justified(e)' BY <2>1, <2>2, <2>3, <2>5, <2>7, <2>8 DEF DrainStep, Justified
    <2>10. SentIsTold' BY <2>1, <2>2 DEF SentIsTold
    <2> QED BY <2>1, <2>2, <2>4, <2>5, <2>9, <2>10 DEF DrainStep
  <1>10. ASSUME NEW d \in Drains, MarkRow(d) PROVE OutboxInv'
    <2> DEFINE last == Counted = MaxLegacyRetries
    <2>0. UNCHANGED <<kind, arrived, answer>> BY <1>10 DEF MarkRow
    <2>1. /\ draining' \in [Drains -> {"idle", "read", "publish", "legacy", "http", "sent", "failed", "again", "rejected", "retryHttp"}]
          /\ \A e \in Drains : Justified(e)'
      BY ZenonT(60), <1>10, <2>0 DEF MarkRow, DrainStep, Justified, Told
    <2>2. outrow' \in Rows /\ SentIsTold'
      <3>0. Counted \in 0..MaxLegacyRetries BY CountedIsBounded
      <3>1. CASE UNCHANGED outrow
        BY <2>0, <3>1 DEF Rows, SentIsTold
      <3>2. CASE draining[d] = "sent" /\ UpdateClaimed(d, "SENT", FALSE, outrow.retries)
        BY <2>0, <3>2, UpdateKeeps DEF Justified
      <3>3. CASE draining[d] = "failed" /\ UpdateClaimed(d, "FAILED", FALSE, outrow.retries)
        BY <2>0, <3>3, UpdateKeeps DEF Justified, Hopeless
      <3>4. CASE draining[d] = "again" /\ UpdateClaimed(d, "PENDING", TRUE, Counted)
        BY <2>0, <3>0, <3>4, UpdateKeeps
      <3>5. CASE draining[d] = "rejected" /\ UpdateClaimed(d, "FAILED", FALSE, Counted)
        BY <2>0, <3>0, <3>5, UpdateKeeps DEF Justified, Hopeless
      <3>6. CASE draining[d] = "retryHttp" /\ UpdateClaimed(d, IF last THEN "FAILED" ELSE "PENDING", ~last, Counted)
        <4>1. kind = "legacy" BY <3>6 DEF Justified
        <4>2. last => Hopeless(Counted) BY <4>1 DEF Hopeless
        <4> QED BY <2>0, <3>0, <3>6, <4>2, UpdateKeeps
      <3> QED BY <1>10, <3>1, <3>2, <3>3, <3>4, <3>5, <3>6 DEF MarkRow, DrainStep
    <2> QED BY <2>0, <2>1, <2>2 DEF Rows
  <1>11. ASSUME NEW d \in Drains, DrainFails(d) PROVE OutboxInv'
    <2>1. /\ UNCHANGED <<kind, arrived, answer>>
          /\ draining' = [draining EXCEPT ![d] = "idle"]
          /\ UpdateClaimed(d, "PENDING", TRUE, Counted) \/ UNCHANGED outrow
      BY <1>11 DEF DrainFails
    <2>2. outrow' \in Rows /\ SentIsTold'
      BY <2>1, CountedIsBounded, UpdateKeeps DEF Rows, SentIsTold
    <2> QED BY <2>1, <2>2 DEF Rows, Justified, Told
  <1> QED
    BY <1>1, <1>2, <1>3, <1>4, <1>5, <1>6, <1>7, <1>8, <1>9, <1>10, <1>11 DEF PayOutNext

LEMMA OutboxInvariant == PayOutSpec => []OutboxInv
  BY OutboxInvInit, OutboxInvStep, PTL DEF PayOutSpec

\* Every reachable state has the declared types: the count of retries never
\* passes its limit.
THEOREM OutboxTypeCorrect == PayOutSpec => []PayOutTypeOK
  <1>1. OutboxInv => PayOutTypeOK BY DEF OutboxInv
  <1> QED BY <1>1, OutboxInvariant, PTL

\* A row that announces anything but the outcome of a refund is SENT only after
\* that has reached the broker or the service, and any row is FAILED only if it
\* could not be read, was refused by the service or had used up its retries.
THEOREM SentIsReallyTold == PayOutSpec => []SentIsTold
  <1>1. OutboxInv => SentIsTold BY DEF OutboxInv
  <1> QED BY <1>1, OutboxInvariant, PTL

-----------------------------------------------------------------------------
(* The four flows of payment-service side by side, as they are run         *)

\* The payment, the cash-out, the top-up and the outbox share no variables, so a
\* behaviour of all of them is a behaviour of each.
LEMMA EachTransfer == TransfersSpec => P2pSpec /\ CashOutSpec /\ TopupSpec /\ PayOutSpec
  <1>1. TransfersInit => P2pInit /\ CashOutInit /\ TopupInit /\ PayOutInit
    BY DEF TransfersInit
  <1>2. [TransfersNext]_TransfersVars =>
           /\ [P2pNext]_p2pVars /\ [CashOutNext]_cashVars
           /\ [TopupNext]_topupVars /\ [PayOutNext]_payOutVars
    BY DEF TransfersNext, TransfersVars
  <1> QED BY <1>1, <1>2, PTL DEF TransfersSpec, P2pSpec, CashOutSpec, TopupSpec, PayOutSpec

\* What the payment, the cash-out, the top-up and the outbox of payment-service
\* promise holds of them side by side.
THEOREM TransfersPromises ==
  TransfersSpec => /\ [](SuccessHeardOnce /\ VerdictMatchesBank /\ CreditedMeansPaid /\ SentIsTold)
                   /\ KeepsContract
  BY EachTransfer, SuccessIsHeardOnce, KeepsPaymentContract, OrderFollowsBank,
     OnlyPaidIsCredited, SentIsReallyTold, PTL
=============================================================================
