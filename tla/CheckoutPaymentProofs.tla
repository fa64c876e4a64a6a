------------------------ MODULE CheckoutPaymentProofs ------------------------
(***************************************************************************)
(* For any number of workers and retries: a payment of CheckoutPayment is  *)
(* SUCCESS only after a hold of its was captured, and CANCELLED or EXPIRED *)
(* only after one was let go.                                              *)
(*                                                                         *)
(* The rows are read without locks and written without conditions, so      *)
(* nothing about them is stable.  What carries the argument is at the      *)
(* wallet: a hold that is captured or let go stays so, and a worker        *)
(* remembers only what the wallet has answered.                            *)
(***************************************************************************)
EXTENDS CheckoutPayment, TLAPS

Freed == {"RELEASED", "EXPIRED"}

\* Where there is a payment there is a hold, and a busy worker knows its own.
KnowsHold ==
    /\ payment.status # "NONE" \/ payment.idem = "FAILED" => payment.hold \in Attempts
    /\ \A w \in Handlers : doing[w].at # "idle" => doing[w].hold \in Attempts /\ payment.hold \in Attempts

\* What a worker is about to write is what became of its hold.
Remembers ==
    \A w \in Handlers :
        /\ doing[w].at = "paid" => holds[doing[w].hold] = "CAPTURED"
        /\ doing[w].at \in {"expired", "failed", "cancelled", "swept"} => holds[doing[w].hold] \in Freed

CheckoutInv == CheckoutTypeOK /\ KnowsHold /\ Remembers /\ SuccessWasCaptured /\ EndedWasFreed

USE SomeCheckout DEF CheckoutInv, CheckoutTypeOK, KnowsHold, Remembers, SuccessWasCaptured, EndedWasFreed,
    Freed, CheckoutStatus, HoldRowStatus, CallsWallet, Idle, Attempts

LEMMA InitCheckout == CheckoutInit => CheckoutInv
<1> SUFFICES ASSUME CheckoutInit PROVE CheckoutInv
  OBVIOUS
<1>1. CheckoutTypeOK
  BY DEF CheckoutInit
<1>2. KnowsHold /\ Remembers /\ SuccessWasCaptured /\ EndedWasFreed
  BY DEF CheckoutInit
<1> QED BY <1>1, <1>2

\* The wallet keeps what it has decided about a hold, and answers accordingly.
LEMMA WalletKeeps ==
    ASSUME NEW op \in {"hold", "capture", "release"}, NEW s \in HoldRowStatus, NEW h,
           NEW o \in Outcomes(op, s, h \in dueHolds)
    PROVE  /\ o.status \in HoldRowStatus
           /\ o.reply \in {"ok", "refused", "gone"}
           /\ s = "CAPTURED" => o.status = "CAPTURED"
           /\ s \in Freed => o.status \in Freed
           /\ op = "capture" /\ o.reply = "ok" => o.status = "CAPTURED"
           /\ op = "release" /\ o.reply = "ok" => o.status \in Freed
<1>1. CASE op = "hold"
  BY <1>1 DEF Outcomes, OutcomeOf
<1>2. CASE op = "capture"
  BY <1>2 DEF Outcomes, OutcomeOf
<1>3. CASE op = "release"
  BY <1>3 DEF Outcomes, OutcomeOf
<1> QED BY <1>1, <1>2, <1>3

\* Where one hold moves as the wallet moves it, what was captured or let go
\* stays so.
LEMMA HoldsKeep ==
    ASSUME CheckoutInv, NEW h \in Attempts, NEW s \in HoldRowStatus,
           holds[h] = "CAPTURED" => s = "CAPTURED", holds[h] \in Freed => s \in Freed,
           holds' = [holds EXCEPT ![h] = s]
    PROVE  /\ holds' \in [Attempts -> HoldRowStatus]
           /\ \A g \in Attempts : holds[g] = "CAPTURED" => holds'[g] = "CAPTURED"
           /\ \A g \in Attempts : holds[g] \in Freed => holds'[g] \in Freed
  OBVIOUS

LEMMA StepDue == ASSUME NEW h \in Attempts, CheckoutInv, HoldGrowsDue(h) PROVE CheckoutInv'
  BY DEF HoldGrowsDue

LEMMA StepWalletExpires == ASSUME NEW h \in Attempts, CheckoutInv, HoldRunsOut(h) PROVE CheckoutInv'
<1>1. /\ holds[h] = "PENDING" /\ holds' = [holds EXCEPT ![h] = "EXPIRED"]
      /\ UNCHANGED <<payment, dueHolds, doing, strays, told>>
  BY DEF HoldRunsOut
<1>2. /\ holds' \in [Attempts -> HoldRowStatus]
      /\ \A g \in Attempts : holds[g] = "CAPTURED" => holds'[g] = "CAPTURED"
      /\ \A g \in Attempts : holds[g] \in Freed => holds'[g] \in Freed
  BY <1>1, HoldsKeep
<1> QED BY <1>1, <1>2

LEMMA StepLateRequest == ASSUME CheckoutInv, StrayRequest PROVE CheckoutInv'
<1>1. PICK r \in strays : \E o \in Outcomes(r[1], holds[r[2]], r[2] \in dueHolds) :
          strays' = strays \ {r} /\ holds' = [holds EXCEPT ![r[2]] = o.status]
  BY DEF StrayRequest
<1>2. PICK o \in Outcomes(r[1], holds[r[2]], r[2] \in dueHolds) :
          strays' = strays \ {r} /\ holds' = [holds EXCEPT ![r[2]] = o.status]
  BY <1>1
<1>3. r[1] \in {"hold", "capture", "release"} /\ r[2] \in Attempts /\ holds[r[2]] \in HoldRowStatus
  OBVIOUS
<1>4. /\ o.status \in HoldRowStatus
      /\ holds[r[2]] = "CAPTURED" => o.status = "CAPTURED"
      /\ holds[r[2]] \in Freed => o.status \in Freed
  <2> HIDE DEF CheckoutInv, CheckoutTypeOK, KnowsHold, Remembers, SuccessWasCaptured, EndedWasFreed, Freed,
           HoldRowStatus, CallsWallet, Idle, Attempts
  <2> QED BY <1>2, <1>3, WalletKeeps
<1>5. /\ holds' \in [Attempts -> HoldRowStatus]
      /\ \A g \in Attempts : holds[g] = "CAPTURED" => holds'[g] = "CAPTURED"
      /\ \A g \in Attempts : holds[g] \in Freed => holds'[g] \in Freed
  BY <1>2, <1>3, <1>4, HoldsKeep
<1>6. UNCHANGED <<payment, dueHolds, doing, told>> /\ strays' \subseteq strays
  BY <1>2 DEF StrayRequest
<1> QED BY <1>5, <1>6

LEMMA StepAnswer == ASSUME NEW w \in Handlers, CheckoutInv, WalletAnswers(w) PROVE CheckoutInv'
<1> DEFINE h == doing[w].hold
           op == OpOf(doing[w].at)
<1>1. doing[w].at \in CallsWallet /\ h \in Attempts /\ op \in {"hold", "capture", "release"}
  BY DEF WalletAnswers, OpOf
<1>2. PICK o \in Outcomes(op, holds[h], h \in dueHolds) :
          holds' = [holds EXCEPT ![h] = o.status] /\ Proceed(w, o.reply)
  BY DEF WalletAnswers
<1>3. /\ o.status \in HoldRowStatus
      /\ o.reply \in {"ok", "refused", "gone"}
      /\ holds[h] = "CAPTURED" => o.status = "CAPTURED"
      /\ holds[h] \in Freed => o.status \in Freed
      /\ op = "capture" /\ o.reply = "ok" => o.status = "CAPTURED"
      /\ op = "release" /\ o.reply = "ok" => o.status \in Freed
  <2>1. holds[h] \in HoldRowStatus
    BY <1>1
  <2> HIDE DEF CheckoutInv, CheckoutTypeOK, KnowsHold, Remembers, SuccessWasCaptured, EndedWasFreed, Freed,
           HoldRowStatus, CallsWallet, Idle, Attempts, h, op
  <2> QED BY <1>1, <1>2, <2>1, WalletKeeps
<1>4. /\ holds' \in [Attempts -> HoldRowStatus]
      /\ \A g \in Attempts : holds[g] = "CAPTURED" => holds'[g] = "CAPTURED"
      /\ \A g \in Attempts : holds[g] \in Freed => holds'[g] \in Freed
  BY <1>1, <1>2, <1>3, HoldsKeep
<1>5. holds'[h] = o.status
  BY <1>1, <1>2
<1> DEFINE to == AfterAnswer(doing[w].at, o.reply)
<1>6. /\ to \in {"idle", "held", "notHeld", "paid", "freeExpired", "freeFailed", "expired",
                 "failed", "cancelled", "swept"}
      /\ to = "paid" => op = "capture" /\ o.reply = "ok"
      /\ to \in {"expired", "failed", "cancelled", "swept"} => op = "release" /\ o.reply = "ok"
  BY <1>1, <1>3 DEF AfterAnswer, Released, OpOf
<1>7. doing' = [doing EXCEPT ![w] = IF to = "idle" THEN Idle ELSE [at |-> to, hold |-> h]]
  BY <1>2 DEF Proceed
<1>8. UNCHANGED <<payment, dueHolds, strays, told>>
  BY DEF WalletAnswers
<1> HIDE DEF to, op
<1>9. CheckoutTypeOK' /\ KnowsHold'
  BY <1>1, <1>4, <1>6, <1>7, <1>8
<1>10. Remembers'
  BY <1>1, <1>3, <1>4, <1>5, <1>6, <1>7
<1>11. SuccessWasCaptured' /\ EndedWasFreed'
  BY <1>4, <1>8
<1> QED BY <1>9, <1>10, <1>11

\* An abandoned call leaves a request behind, or not.
LEMMA AbandonedIsLate ==
    ASSUME NEW w \in Handlers, CheckoutInv, doing[w].at \in CallsWallet, AbandonsAsk(w)
    PROVE  strays' \in SUBSET ({"hold", "capture", "release"} \X Attempts)
  BY DEF AbandonsAsk, OpOf

LEMMA StepNoAnswer == ASSUME NEW w \in Handlers, CheckoutInv, WalletSilent(w) PROVE CheckoutInv'
<1> DEFINE to == AfterAnswer(doing[w].at, "none")
<1>1. doing[w].at \in CallsWallet /\ doing[w].hold \in Attempts /\ UNCHANGED <<payment, holds, dueHolds, told>>
  BY DEF WalletSilent
<1>2. to \in {"idle", "notHeld"}
  BY <1>1 DEF AfterAnswer
<1>3. doing' = [doing EXCEPT ![w] = IF to = "idle" THEN Idle ELSE [at |-> to, hold |-> doing[w].hold]]
  BY DEF WalletSilent, Proceed
<1>4. strays' \in SUBSET ({"hold", "capture", "release"} \X Attempts)
  BY <1>1, AbandonedIsLate DEF WalletSilent
<1> HIDE DEF to
<1> QED BY <1>1, <1>2, <1>3, <1>4

LEMMA StepCrash == ASSUME NEW w \in Handlers, CheckoutInv, HandlerCrash(w) PROVE CheckoutInv'
<1>1. doing' = [doing EXCEPT ![w] = Idle] /\ UNCHANGED <<payment, holds, dueHolds, told>>
  BY DEF HandlerCrash
<1>2. strays' \in SUBSET ({"hold", "capture", "release"} \X Attempts)
  BY AbandonedIsLate DEF HandlerCrash
<1> QED BY <1>1, <1>2

LEMMA StepCheckout == ASSUME NEW w \in Handlers, CheckoutInv, OpenCheckout(w) \/ CheckoutAgain(w) PROVE CheckoutInv'
<1>1. CASE OpenCheckout(w)
  BY <1>1 DEF OpenCheckout, Start
<1>2. CASE CheckoutAgain(w)
  <2>1. /\ payment.hold \in Attempts /\ payment.hold + 1 \in Attempts
        /\ doing' = [doing EXCEPT ![w] = [at |-> "hold", hold |-> payment.hold + 1]]
        /\ UNCHANGED <<holds, dueHolds, strays, told>>
    BY <1>2 DEF CheckoutAgain, Start
  <2>2. payment' = [status |-> payment.status, idem |-> "PROCESSING", hold |-> payment.hold + 1]
    BY <1>2 DEF CheckoutAgain
  <2>3. payment'.status = payment.status /\ payment'.hold = payment.hold + 1 /\ payment'.idem = "PROCESSING"
    BY <2>2
  <2> QED BY <2>1, <2>2, <2>3
<1> QED BY <1>1, <1>2

LEMMA StepHold == ASSUME NEW w \in Handlers, CheckoutInv, CheckoutHeld(w) \/ HoldFailed(w) PROVE CheckoutInv'
<1>1. /\ doing[w].at \in {"held", "notHeld"}
      /\ doing' = [doing EXCEPT ![w] = Idle]
      /\ UNCHANGED <<holds, dueHolds, strays, told>>
  BY DEF CheckoutHeld, HoldFailed, Stop
<1>2. CASE payment' = [payment EXCEPT !.idem = "COMPLETED"]
  <2>1. payment'.status = payment.status /\ payment'.hold = payment.hold /\ payment'.idem = "COMPLETED"
    BY <1>2
  <2>2. CheckoutTypeOK'
    BY <1>1, <1>2
  <2> QED BY <1>1, <2>1, <2>2
<1>3. CASE payment' = [status |-> "FAILED", idem |-> "FAILED", hold |-> payment.hold]
  BY <1>1, <1>3
<1> QED BY <1>2, <1>3 DEF CheckoutHeld, HoldFailed

LEMMA StepRead == ASSUME NEW w \in Handlers, CheckoutInv, ConfirmPayment(w) \/ Cancel(w) \/ Sweep(w) PROVE CheckoutInv'
<1>1. /\ payment.hold \in Attempts
      /\ \E at \in {"releaseDue", "begin", "capture", "releaseCancel", "releaseSweep"} :
            doing' = [doing EXCEPT ![w] = [at |-> at, hold |-> payment.hold]]
      /\ UNCHANGED <<payment, holds, dueHolds, strays, told>>
  BY DEF ConfirmPayment, Cancel, Sweep, Start
<1> QED BY <1>1

LEMMA StepBegin == ASSUME NEW w \in Handlers, CheckoutInv, Begin(w) PROVE CheckoutInv'
<1>1. /\ doing[w].at = "begin" /\ UNCHANGED <<holds, dueHolds, strays, told>>
      /\ doing' = [doing EXCEPT ![w] = [at |-> "capture", hold |-> doing[w].hold]]
  BY DEF Begin
<1>2. payment' = [payment EXCEPT !.status = "PROCESSING"]
  BY DEF Begin
<1>3. payment' = [status |-> "PROCESSING", idem |-> payment.idem, hold |-> payment.hold]
  BY <1>2
<1> QED BY <1>1, <1>3

LEMMA StepEnd ==
    ASSUME NEW w \in Handlers, CheckoutInv, Succeed(w) \/ Expire(w) \/ Fail(w) PROVE CheckoutInv'
<1>1. /\ doing' = [doing EXCEPT ![w] = Idle] /\ UNCHANGED <<holds, dueHolds, strays>>
      /\ \/ /\ doing[w].at = "paid" /\ told' = told \cup {"PAYMENT_SUCCESS"}
            /\ payment' = [payment EXCEPT !.status = "SUCCESS"]
         \/ /\ doing[w].at = "expired" /\ told' = told \cup {"PAYMENT_EXPIRED"}
            /\ payment' = [payment EXCEPT !.status = "EXPIRED"]
         \/ /\ doing[w].at = "failed" /\ told' = told \cup {"PAYMENT_FAILED"}
            /\ payment' = [payment EXCEPT !.status = "FAILED"]
  BY DEF Succeed, Expire, Fail, End, Stop
<1>2. doing[w].hold \in Attempts /\ payment.hold \in Attempts \cup {0}
  BY <1>1
<1> QED BY <1>1, <1>2

LEMMA StepCancelled == ASSUME NEW w \in Handlers, CheckoutInv, Cancelled(w) PROVE CheckoutInv'
<1>1. /\ doing[w].at = "cancelled" /\ doing' = [doing EXCEPT ![w] = Idle]
      /\ UNCHANGED <<holds, dueHolds, strays, told>>
  BY DEF Cancelled, Stop
<1>2. payment' = [status |-> "CANCELLED", idem |-> payment.idem, hold |-> payment.hold]
  BY DEF Cancelled
<1> QED BY <1>1, <1>2

LEMMA StepSwept == ASSUME NEW w \in Handlers, CheckoutInv, Swept(w) PROVE CheckoutInv'
<1>1. doing[w].at = "swept" /\ doing' = [doing EXCEPT ![w] = Idle] /\ UNCHANGED <<holds, dueHolds, strays>>
  BY DEF Swept, Stop
<1>2. CASE UNCHANGED <<payment, told>>
  BY <1>1, <1>2
<1>3. CASE /\ payment.status = "PENDING" /\ payment' = [payment EXCEPT !.status = "EXPIRED"]
           /\ told' = told \cup {"payment.expired"}
  BY <1>1, <1>3
<1> QED BY <1>2, <1>3 DEF Swept

LEMMA StepCheckoutPayment == CheckoutInv /\ [CheckoutNext]_checkoutVars => CheckoutInv'
<1> SUFFICES ASSUME CheckoutInv, [CheckoutNext]_checkoutVars PROVE CheckoutInv'
  OBVIOUS
<1>1. CASE UNCHANGED checkoutVars
  BY <1>1 DEF checkoutVars
<1>2. ASSUME NEW w \in Handlers, Step(w) PROVE CheckoutInv'
  BY <1>2, StepAnswer, StepNoAnswer, StepCrash, StepHold, StepBegin, StepEnd, StepCancelled,
     StepSwept, Zenon DEF Step
<1>3. CASE CheckoutNext
  BY <1>2, <1>3, StepDue, StepWalletExpires, StepLateRequest, StepCheckout, StepRead, Zenon DEF CheckoutNext
<1> QED BY <1>1, <1>3

\* The rows stay well formed, for any number of workers and retries.
THEOREM CheckoutTypes == CheckoutSpec => []CheckoutTypeOK
<1>1. CheckoutInv => CheckoutTypeOK
  BY Zenon
<1> QED BY <1>1, InitCheckout, StepCheckoutPayment, PTL DEF CheckoutSpec

\* SUCCESS and PAYMENT_SUCCESS mean that the wallet has paid a hold out.
THEOREM SuccessIsPaid == CheckoutSpec => []SuccessWasCaptured
<1>1. CheckoutInv => SuccessWasCaptured
  BY Zenon
<1> QED BY <1>1, InitCheckout, StepCheckoutPayment, PTL DEF CheckoutSpec

\* CANCELLED, EXPIRED and their events mean that the wallet has let a hold go.
THEOREM EndIsFreed == CheckoutSpec => []EndedWasFreed
<1>1. CheckoutInv => EndedWasFreed
  BY Zenon
<1> QED BY <1>1, InitCheckout, StepCheckoutPayment, PTL DEF CheckoutSpec

-----------------------------------------------------------------------------
(* One verdict                                                             *)

\* No hold, worker or stray request is ahead of the payment's own attempt: of a
\* payment whose checkout was not retried there is one hold only, which cannot
\* have been both captured and let go.
NoneAhead ==
    /\ payment.status = "NONE" => payment.hold = 0 /\ payment.idem # "FAILED"
    /\ \A h \in Attempts : h > payment.hold => holds[h] = "NONE"
    /\ \A w \in Handlers : doing[w].hold <= payment.hold
    /\ \A r \in strays : r[2] <= payment.hold

HIDE DEF CheckoutInv, KnowsHold, Remembers, SuccessWasCaptured, EndedWasFreed, Freed, CheckoutStatus,
    HoldRowStatus, CallsWallet, Idle

LEMMA StaysBehind ==
    ASSUME CheckoutTypeOK, CheckoutTypeOK', NoneAhead, payment.hold <= payment'.hold,
           payment'.status = "NONE" => UNCHANGED payment,
           \A h \in Attempts : h > payment'.hold => holds'[h] = holds[h],
           \A w \in Handlers : doing'[w].hold \in {doing[w].hold, payment'.hold, 0},
           \A r \in strays' : r \in strays \/ \E w \in Handlers : r[2] = doing[w].hold
    PROVE  NoneAhead'
<1>1. payment.hold \in Nat /\ payment'.hold \in Nat
  OBVIOUS
<1>2. \A w \in Handlers : doing[w].hold \in Nat
  OBVIOUS
<1>3. \A r \in strays' : r[2] \in Nat
  OBVIOUS
<1>4. \A h \in Attempts : (h > payment.hold => holds[h] = "NONE")'
  BY <1>1 DEF NoneAhead
<1>5. \A w \in Handlers : (doing[w].hold <= payment.hold)'
  BY <1>1, <1>2 DEF NoneAhead
<1>6. \A r \in strays' : r[2] <= payment'.hold
  BY <1>1, <1>2, <1>3 DEF NoneAhead
<1> QED BY <1>1, <1>4, <1>5, <1>6 DEF NoneAhead

LEMMA WalletStaysBehind ==
    ASSUME CheckoutTypeOK, CheckoutTypeOK', NoneAhead,
           \/ StrayRequest
           \/ \E h \in Attempts : HoldGrowsDue(h) \/ HoldRunsOut(h)
    PROVE  NoneAhead'
<1>1. UNCHANGED <<payment, doing>> /\ strays' \subseteq strays
  BY DEF StrayRequest, HoldGrowsDue, HoldRunsOut
<1>2. \A h \in Attempts : h > payment.hold => holds'[h] = holds[h]
  BY DEF StrayRequest, HoldGrowsDue, HoldRunsOut, NoneAhead
<1> QED BY <1>1, <1>2, StaysBehind

LEMMA HandlerStaysBehind ==
    ASSUME CheckoutTypeOK, CheckoutTypeOK', KnowsHold, NoneAhead, NEW w \in Handlers,
           OpenCheckout(w) \/ CheckoutAgain(w) \/ ConfirmPayment(w) \/ Cancel(w) \/ Sweep(w) \/ Step(w)
    PROVE  NoneAhead'
<1>1. payment.hold <= payment'.hold
  <2>1. CASE OpenCheckout(w)
    BY <2>1 DEF OpenCheckout, NoneAhead
  <2>2. CASE CheckoutAgain(w)
    BY <2>2 DEF CheckoutAgain
  <2>3. ASSUME payment'.hold = payment.hold PROVE payment.hold <= payment'.hold
    BY <2>3
  <2>4. CASE ConfirmPayment(w) \/ Cancel(w) \/ Sweep(w)
    BY <2>3, <2>4 DEF ConfirmPayment, Cancel, Sweep
  <2>5. CASE Step(w)
    BY <2>3, <2>5 DEF Step, WalletAnswers, WalletSilent, HandlerCrash, CheckoutHeld, HoldFailed, Begin,
       Succeed, Expire, Fail, End, Cancelled, Swept
  <2> QED BY <2>1, <2>2, <2>4, <2>5
<1>2. \A h \in Attempts : h > payment'.hold => holds'[h] = holds[h]
  <2>1. CASE WalletAnswers(w)
    BY <2>1 DEF WalletAnswers, NoneAhead
  <2>2. CASE UNCHANGED holds
    BY <2>2
  <2> QED BY <2>1, <2>2 DEF OpenCheckout, CheckoutAgain, ConfirmPayment, Cancel, Sweep, Step, WalletSilent,
       HandlerCrash, CheckoutHeld, HoldFailed, Begin, Succeed, Expire, Fail, End, Cancelled, Swept
<1>3. \A v \in Handlers : doing'[v].hold \in {doing[v].hold, payment'.hold, 0}
  <2>1. ASSUME NEW x, doing' = [doing EXCEPT ![w] = x], x.hold \in {doing[w].hold, payment'.hold, 0}
        PROVE  \A v \in Handlers : doing'[v].hold \in {doing[v].hold, payment'.hold, 0}
    BY <2>1
  <2>2. Idle.hold = 0
    BY DEF Idle
  <2>3. CASE OpenCheckout(w)
    BY <2>1, <2>3 DEF OpenCheckout, Start
  <2>4. CASE CheckoutAgain(w)
    BY <2>1, <2>4 DEF CheckoutAgain, Start
  <2>5. CASE ConfirmPayment(w) \/ Cancel(w) \/ Sweep(w)
    BY <2>1, <2>5 DEF ConfirmPayment, Cancel, Sweep, Start
  <2>6. CASE WalletAnswers(w) \/ WalletSilent(w)
    BY <2>1, <2>2, <2>6 DEF WalletAnswers, WalletSilent, Proceed
  <2>7. CASE Begin(w)
    BY <2>1, <2>7 DEF Begin
  <2>8. CASE HandlerCrash(w) \/ CheckoutHeld(w) \/ HoldFailed(w) \/ Succeed(w) \/ Expire(w) \/ Fail(w) \/ Cancelled(w) \/ Swept(w)
    BY <2>1, <2>2, <2>8 DEF HandlerCrash, CheckoutHeld, HoldFailed, Succeed, Expire, Fail, End, Cancelled, Swept, Stop
  <2> QED BY <2>3, <2>4, <2>5, <2>6, <2>7, <2>8 DEF Step
<1>4. \A r \in strays' : r \in strays \/ \E v \in Handlers : r[2] = doing[v].hold
  BY DEF OpenCheckout, CheckoutAgain, ConfirmPayment, Cancel, Sweep, Step, WalletAnswers, WalletSilent, AbandonsAsk,
     HandlerCrash, CheckoutHeld, HoldFailed, Begin, Succeed, Expire, Fail, End, Cancelled, Swept
<1>5. payment'.status = "NONE" => UNCHANGED payment
  <2>1. CASE OpenCheckout(w)
    BY <2>1 DEF OpenCheckout
  <2>2. CASE CheckoutAgain(w)
    <3>1. payment.status # "NONE"
      BY <2>2 DEF CheckoutAgain, NoneAhead
    <3> QED BY <2>2, <3>1 DEF CheckoutAgain
  <2>3. CASE ConfirmPayment(w) \/ Cancel(w) \/ Sweep(w) \/ WalletAnswers(w) \/ WalletSilent(w) \/ HandlerCrash(w)
    BY <2>3 DEF ConfirmPayment, Cancel, Sweep, WalletAnswers, WalletSilent, HandlerCrash
  <2>4. CASE CheckoutHeld(w) \/ HoldFailed(w) \/ Begin(w)
    <3>1. payment.status # "NONE"
      BY <2>4 DEF KnowsHold, NoneAhead, CheckoutHeld, HoldFailed, Begin, Stop
    <3> QED BY <2>4, <3>1 DEF CheckoutHeld, HoldFailed, Begin
  <2>5. CASE Succeed(w) \/ Expire(w) \/ Fail(w) \/ Cancelled(w) \/ Swept(w)
    BY <2>5 DEF Succeed, Expire, Fail, End, Cancelled, Swept
  <2> QED BY <2>1, <2>2, <2>3, <2>4, <2>5 DEF Step
<1> QED BY <1>1, <1>2, <1>3, <1>4, <1>5, StaysBehind

\* confirm, cancel and the expiry job, without a lock between them: a payment
\* whose checkout was not retried never has two contradictory ends.
THEOREM VerdictIsOne == CheckoutSpec => []OneVerdict
<1>1. CheckoutInit => NoneAhead
  BY DEF CheckoutInit, NoneAhead, Idle
<1>2. CheckoutInv /\ CheckoutInv' /\ NoneAhead /\ [CheckoutNext]_checkoutVars => NoneAhead'
  <2> SUFFICES ASSUME CheckoutTypeOK, CheckoutTypeOK', KnowsHold, NoneAhead, [CheckoutNext]_checkoutVars
        PROVE NoneAhead'
    BY DEF CheckoutInv
  <2>1. CASE UNCHANGED checkoutVars
    BY <2>1 DEF checkoutVars, NoneAhead
  <2> HIDE DEF CheckoutTypeOK
  <2>2. CASE CheckoutNext
    BY <2>2, WalletStaysBehind, HandlerStaysBehind DEF CheckoutNext
  <2> QED BY <2>1, <2>2
<1>3. CheckoutInv /\ NoneAhead => OneVerdict
  <2> SUFFICES ASSUME CheckoutInv, NoneAhead, payment.hold = 1, "PAYMENT_SUCCESS" \in told
               PROVE  told = {"PAYMENT_SUCCESS"} /\ payment.status \notin {"CANCELLED", "EXPIRED"}
    BY DEF OneVerdict
  <2>1. \A h \in Attempts : holds[h] # "NONE" => h = 1
    BY DEF NoneAhead
  <2>2. holds[1] = "CAPTURED"
    BY <2>1 DEF CheckoutInv, SuccessWasCaptured
  <2>3. ~ \E h \in Attempts : holds[h] \in {"RELEASED", "EXPIRED"}
    BY <2>1, <2>2
  <2>4. payment.status \notin {"CANCELLED", "EXPIRED"} /\ told \cap {"PAYMENT_EXPIRED", "PAYMENT_FAILED", "payment.expired"} = {}
    BY <2>3 DEF CheckoutInv, EndedWasFreed
  <2>5. told \subseteq {"PAYMENT_SUCCESS", "PAYMENT_FAILED", "PAYMENT_EXPIRED", "payment.expired"}
    BY DEF CheckoutInv, CheckoutTypeOK
  <2> QED BY <2>4, <2>5
<1> QED BY <1>1, <1>2, <1>3, InitCheckout, StepCheckoutPayment, PTL DEF CheckoutSpec
-----------------------------------------------------------------------------
(* The holds, between the payment and the wallet                           *)

\* Where a hold stands for HoldContract.
PhaseOf(s) == CASE s = "NONE" -> "none" [] s = "PENDING" -> "reserved"
                [] s = "CAPTURED" -> "settled" [] OTHER -> "freed"

WalletHolds == INSTANCE HoldContract WITH
    Keys <- Attempts, Amounts <- {1},
    phase <- [h \in Attempts |-> PhaseOf(holds[h])],
    amount <- [h \in Attempts |-> IF holds[h] = "NONE" THEN 0 ELSE 1],
    out <- [h \in Attempts |-> IF holds[h] = "CAPTURED" THEN 1 ELSE 0]

\* What the status of one hold may become.
MayBecome(s, t) == \/ t = s
                   \/ s = "NONE" /\ t = "PENDING"
                   \/ s = "PENDING" /\ t \in {"CAPTURED", "RELEASED", "EXPIRED"}

\* What a step may do to the holds.
OneHoldMoves == \E h \in Attempts : \E t \in HoldRowStatus :
    MayBecome(holds[h], t) /\ holds' = [holds EXCEPT ![h] = t]

LEMMA WalletMoves ==
    ASSUME NEW op \in {"hold", "capture", "release"}, NEW s \in HoldRowStatus, NEW h,
           NEW o \in Outcomes(op, s, h \in dueHolds)
    PROVE  MayBecome(s, o.status)
<1>1. CASE op = "hold"
  BY <1>1 DEF Outcomes, OutcomeOf, MayBecome, HoldRowStatus
<1>2. CASE op = "capture"
  BY <1>2 DEF Outcomes, OutcomeOf, MayBecome, HoldRowStatus
<1>3. CASE op = "release"
  BY <1>3 DEF Outcomes, OutcomeOf, MayBecome, HoldRowStatus
<1> QED BY <1>1, <1>2, <1>3

LEMMA StepMovesOneHold ==
    ASSUME CheckoutInv, [CheckoutNext]_checkoutVars
    PROVE  OneHoldMoves \/ UNCHANGED holds
<1> USE DEF CheckoutInv, CheckoutTypeOK
<1>1. CASE StrayRequest
  <2>1. PICK r \in strays : \E o \in Outcomes(r[1], holds[r[2]], r[2] \in dueHolds) :
            holds' = [holds EXCEPT ![r[2]] = o.status]
    BY <1>1 DEF StrayRequest
  <2>2. PICK o \in Outcomes(r[1], holds[r[2]], r[2] \in dueHolds) : holds' = [holds EXCEPT ![r[2]] = o.status]
    BY <2>1
  <2>3. r[1] \in {"hold", "capture", "release"} /\ r[2] \in Attempts /\ holds[r[2]] \in HoldRowStatus
    OBVIOUS
  <2>4. MayBecome(holds[r[2]], o.status) /\ o.status \in HoldRowStatus
    <3> HIDE DEF CheckoutInv, CheckoutTypeOK, Attempts
    <3> QED BY <2>2, <2>3, WalletMoves, WalletKeeps
  <2> QED BY <2>2, <2>3, <2>4 DEF OneHoldMoves
<1>2. ASSUME NEW h \in Attempts, HoldRunsOut(h) PROVE OneHoldMoves
  BY <1>2 DEF HoldRunsOut, OneHoldMoves, MayBecome, HoldRowStatus
<1>3. ASSUME NEW w \in Handlers, WalletAnswers(w) PROVE OneHoldMoves
  <2> DEFINE h == doing[w].hold
             op == OpOf(doing[w].at)
  <2>1. doing[w].at \in CallsWallet /\ h \in Attempts /\ op \in {"hold", "capture", "release"}
    BY <1>3 DEF WalletAnswers, OpOf, KnowsHold, CallsWallet
  <2>2. PICK o \in Outcomes(op, holds[h], h \in dueHolds) : holds' = [holds EXCEPT ![h] = o.status]
    BY <1>3 DEF WalletAnswers
  <2>3. holds[h] \in HoldRowStatus
    BY <2>1
  <2>4. MayBecome(holds[h], o.status) /\ o.status \in HoldRowStatus
    <3> HIDE DEF CheckoutInv, CheckoutTypeOK, Attempts, h, op
    <3> QED BY <2>1, <2>2, <2>3, WalletMoves, WalletKeeps
  <2> QED BY <2>1, <2>2, <2>4 DEF OneHoldMoves
<1>4. ASSUME NEW w \in Handlers, Step(w), ~WalletAnswers(w) PROVE UNCHANGED holds
  BY <1>4, Zenon DEF Step, WalletSilent, HandlerCrash, CheckoutHeld, HoldFailed, Begin, Succeed, Expire, Fail,
     End, Cancelled, Swept
<1>5. ASSUME NEW w \in Handlers, OpenCheckout(w) \/ CheckoutAgain(w) \/ ConfirmPayment(w) \/ Cancel(w) \/ Sweep(w)
      PROVE  UNCHANGED holds
  BY <1>5, Zenon DEF OpenCheckout, CheckoutAgain, ConfirmPayment, Cancel, Sweep
<1>6. ASSUME NEW h \in Attempts, HoldGrowsDue(h) PROVE UNCHANGED holds
  BY <1>6 DEF HoldGrowsDue
<1>7. CASE UNCHANGED checkoutVars
  BY <1>7 DEF checkoutVars
<1> QED BY <1>1, <1>2, <1>3, <1>4, <1>5, <1>6, <1>7, Zenon DEF CheckoutNext

\* Rows read without a lock, retried checkouts and late executions notwithstanding,
\* each hold of the payment goes the way HoldContract promises, which WalletLedger
\* implements: what this module lets the wallet answer is what the wallet promises.
THEOREM HoldsAreAsPromised == CheckoutSpec => WalletHolds!Spec
<1>1. CheckoutInit => WalletHolds!Init
  BY DEF CheckoutInit, WalletHolds!Init, PhaseOf
<1>2. CheckoutInv /\ [CheckoutNext]_checkoutVars => [WalletHolds!Next]_WalletHolds!vars
  <2> SUFFICES ASSUME CheckoutInv, [CheckoutNext]_checkoutVars PROVE [WalletHolds!Next]_WalletHolds!vars
    OBVIOUS
  <2>1. CASE UNCHANGED holds
    BY <2>1 DEF WalletHolds!vars
  <2>2. CASE OneHoldMoves
    <3>1. PICK h \in Attempts, t \in HoldRowStatus :
              MayBecome(holds[h], t) /\ holds' = [holds EXCEPT ![h] = t]
      BY <2>2 DEF OneHoldMoves
    <3>2. holds \in [Attempts -> HoldRowStatus]
      BY DEF CheckoutInv, CheckoutTypeOK
    <3>3. CASE t = holds[h]
      <4>1. UNCHANGED holds BY <3>1, <3>2, <3>3
      <4> QED BY <2>1, <4>1
    <3>4. CASE holds[h] = "NONE" /\ t = "PENDING"
      <4>1. WalletHolds!Reserve(h) BY <3>1, <3>2, <3>4 DEF WalletHolds!Reserve, PhaseOf
      <4> QED BY <4>1 DEF WalletHolds!Next
    <3>5. CASE holds[h] = "PENDING" /\ t \in {"RELEASED", "EXPIRED"}
      <4>1. WalletHolds!Free(h) BY <3>1, <3>2, <3>5 DEF WalletHolds!Free, PhaseOf
      <4> QED BY <4>1 DEF WalletHolds!Next
    <3>6. CASE holds[h] = "PENDING" /\ t = "CAPTURED"
      <4>1. WalletHolds!Settle(h) BY <3>1, <3>2, <3>6 DEF WalletHolds!Settle, PhaseOf
      <4> QED BY <4>1 DEF WalletHolds!Next
    <3> QED BY <3>1, <3>3, <3>4, <3>5, <3>6 DEF MayBecome
  <2> QED BY <2>1, <2>2, StepMovesOneHold
<1> QED BY <1>1, <1>2, InitCheckout, StepCheckoutPayment, PTL DEF CheckoutSpec, WalletHolds!Spec
=============================================================================
