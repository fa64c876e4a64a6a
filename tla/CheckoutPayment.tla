--------------------------- MODULE CheckoutPayment ---------------------------
(***************************************************************************)
(* One payment to a merchant, a biller or a service (PaymentService), from *)
(* checkout to its end, and the holds it makes at wallet-service.          *)
(*                                                                         *)
(* Unlike a wallet-to-wallet payment it has no workflow column and no      *)
(* lease: every operation reads the row without a lock, calls the wallet,  *)
(* and then writes the row whatever it has become; only the expiry job     *)
(* looks again.  A checkout that failed may be retried under its key, with *)
(* a new hold.  The refund of a SUCCESS payment is RefundSaga.             *)
(***************************************************************************)
EXTENDS Naturals

CONSTANTS
    Handlers,        \* request handlers and runs of the expiry job
    MaxCheckouts    \* bound: times the checkout is tried under its key

ASSUME SomeCheckout == MaxCheckouts \in Nat \ {0}

Attempts == 1..MaxCheckouts

VARIABLES
    payment,  \* the Payment row; hold is the number of its holdId
    holds,    \* the WalletHold rows, by attempt
    dueHolds, \* the attempts whose holdExpiresAt has passed
    doing,    \* what each worker is about to do, with the holdId it has read
    strays,   \* wallet requests whose caller no longer waits for them
    told      \* the outbox events written

checkoutVars == <<payment, holds, dueHolds, doing, strays, told>>

CheckoutStatus == {"NONE", "PENDING", "PROCESSING", "SUCCESS", "FAILED", "EXPIRED", "CANCELLED"}
HoldRowStatus == {"NONE", "PENDING", "CAPTURED", "RELEASED", "EXPIRED"}
CallsWallet == {"hold", "capture", "releaseDue", "freeExpired", "freeFailed", "releaseCancel",
            "releaseSweep"}
OpOf(at) == IF at \in {"hold", "capture"} THEN at ELSE "release"

CheckoutTypeOK ==
    /\ payment \in [status : CheckoutStatus, idem : {"PROCESSING", "COMPLETED", "FAILED"},
                hold : Attempts \cup {0}]
    /\ holds \in [Attempts -> HoldRowStatus]
    /\ dueHolds \in SUBSET Attempts
    /\ doing \in [Handlers -> [at : {"idle", "held", "notHeld", "begin", "paid", "expired", "failed",
                                 "cancelled", "swept"} \cup CallsWallet,
                           hold : Attempts \cup {0}]]
    /\ strays \in SUBSET ({"hold", "capture", "release"} \X Attempts)
    /\ told \in SUBSET {"PAYMENT_SUCCESS", "PAYMENT_FAILED", "PAYMENT_EXPIRED", "payment.expired"}

Idle == [at |-> "idle", hold |-> 0]

CheckoutInit ==
    /\ payment = [status |-> "NONE", idem |-> "PROCESSING", hold |-> 0]
    /\ holds = [h \in Attempts |-> "NONE"]
    /\ dueHolds = {}
    /\ doing = [w \in Handlers |-> Idle]
    /\ strays = {}
    /\ told = {}

Start(w, at, h) == doing[w] = Idle /\ doing' = [doing EXCEPT ![w] = [at |-> at, hold |-> h]]
Stop(w, from) == doing[w].at = from /\ doing' = [doing EXCEPT ![w] = Idle]

-----------------------------------------------------------------------------
(* wallet-service, as WalletLedger models it: the answers it may give and  *)
(* what becomes of the hold                                                *)

OutcomeOf(reply, s) == [reply |-> reply, status |-> s]

Outcomes_ReleaseOnce(op, s, isDue) ==
    CASE op = "hold" -> {OutcomeOf("refused", s), OutcomeOf("ok", "PENDING")}
      [] op = "capture" -> {OutcomeOf("refused", s)}
      [] op = "release" ->
            IF s = "PENDING" THEN {OutcomeOf("ok", IF isDue THEN "EXPIRED" ELSE "RELEASED")}
            ELSE {OutcomeOf("refused", s)}

\* A release that is refused over a stale heldBalance is WalletSilent, which leads
\* its caller to the same place.
Outcomes(op, s, isDue) ==
    CASE op = "hold" -> {OutcomeOf("refused", s), OutcomeOf("ok", IF s = "NONE" THEN "PENDING" ELSE s)}
      [] op = "capture" ->
            (CASE s = "CAPTURED" -> {OutcomeOf("ok", s)}
               [] s \in {"RELEASED", "EXPIRED"} -> {OutcomeOf("gone", s)}
               [] s = "PENDING" /\ isDue -> {OutcomeOf("gone", "EXPIRED")}
               [] s = "PENDING" /\ ~isDue -> {OutcomeOf("ok", "CAPTURED"), OutcomeOf("refused", s)}
               [] s = "NONE" -> {OutcomeOf("refused", s)})
      [] op = "release" ->
            (CASE s = "PENDING" -> {OutcomeOf("ok", IF isDue THEN "EXPIRED" ELSE "RELEASED")}
               [] s \in {"RELEASED", "EXPIRED"} -> {OutcomeOf("ok", s)}
               [] s \in {"NONE", "CAPTURED"} -> {OutcomeOf("refused", s)})

HoldGrowsDue(h) ==
    /\ h <= payment.hold /\ h \notin dueHolds
    /\ dueHolds' = dueHolds \cup {h}
    /\ UNCHANGED <<payment, holds, doing, strays, told>>

\* The wallet's own sweeper.
HoldRunsOut(h) ==
    /\ holds[h] = "PENDING" /\ h \in dueHolds
    /\ holds' = [holds EXCEPT ![h] = "EXPIRED"]
    /\ UNCHANGED <<payment, dueHolds, doing, strays, told>>

StrayRequest ==
    /\ \E r \in strays : \E o \in Outcomes(r[1], holds[r[2]], r[2] \in dueHolds) :
          strays' = strays \ {r} /\ holds' = [holds EXCEPT ![r[2]] = o.status]
    /\ UNCHANGED <<payment, dueHolds, doing, told>>

-----------------------------------------------------------------------------
(* The calls, and what a worker makes of the answer; "none" is a timeout,  *)
(* a transport failure or a 5xx                                            *)

AfterAnswer_TimeoutIsSuccess(at, reply) ==
    CASE at = "capture" -> IF reply = "refused" THEN "freeFailed" ELSE "paid"
      [] at = "hold" -> "held"
      [] OTHER -> "idle"

AfterAnswer_NoRelease(at, reply) ==
    CASE at = "hold" -> IF reply = "ok" THEN "held" ELSE "notHeld"
      [] at = "capture" -> (CASE reply = "ok" -> "paid" [] reply = "none" -> "idle" [] OTHER -> "failed")
      [] OTHER -> "idle"

AfterAnswer_CancelAnyway(at, reply) ==
    CASE at = "hold" -> IF reply = "ok" THEN "held" ELSE "notHeld"
      [] at = "releaseCancel" -> "cancelled"
      [] OTHER -> "idle"

\* What a released hold is the end of.
Released(at) ==
    CASE at \in {"releaseDue", "freeExpired"} -> "expired"
      [] at = "freeFailed" -> "failed"
      [] at = "releaseCancel" -> "cancelled"
      [] at = "releaseSweep" -> "swept"

AfterAnswer(at, reply) ==
    CASE at = "hold" -> IF reply = "ok" THEN "held" ELSE "notHeld"
      [] at = "capture" ->
            (CASE reply = "ok" -> "paid" [] reply = "gone" -> "freeExpired"
               [] reply = "refused" -> "freeFailed" [] reply = "none" -> "idle")
      [] OTHER -> IF reply = "ok" THEN Released(at) ELSE "idle"

Proceed(w, reply) ==
    LET to == AfterAnswer(doing[w].at, reply) IN
    doing' = [doing EXCEPT ![w] = IF to = "idle" THEN Idle ELSE [at |-> to, hold |-> @.hold]]

WalletAnswers(w) ==
    LET h == doing[w].hold IN
    /\ doing[w].at \in CallsWallet
    /\ \E o \in Outcomes(OpOf(doing[w].at), holds[h], h \in dueHolds) :
          /\ holds' = [holds EXCEPT ![h] = o.status]
          /\ Proceed(w, o.reply)
    /\ UNCHANGED <<payment, dueHolds, strays, told>>

\* The request may still reach the wallet, or never.
AbandonsAsk(w) == strays' = strays \/ strays' = strays \cup {<<OpOf(doing[w].at), doing[w].hold>>}

WalletSilent(w) ==
    /\ doing[w].at \in CallsWallet
    /\ AbandonsAsk(w)
    /\ Proceed(w, "none")
    /\ UNCHANGED <<payment, holds, dueHolds, told>>

HandlerCrash(w) ==
    /\ doing[w] # Idle
    /\ doing' = [doing EXCEPT ![w] = Idle]
    /\ IF doing[w].at \in CallsWallet THEN AbandonsAsk(w) ELSE UNCHANGED strays
    /\ UNCHANGED <<payment, holds, dueHolds, told>>

-----------------------------------------------------------------------------
(* checkout                                                                *)

OpenCheckout(w) ==
    /\ payment.status = "NONE"
    /\ payment' = [status |-> "PENDING", idem |-> "PROCESSING", hold |-> 1]
    /\ Start(w, "hold", 1)
    /\ UNCHANGED <<holds, dueHolds, strays, told>>

\* The same key again: only a FAILED attempt is made anew.  The row gets a new
\* hold, its status stays.
CheckoutAgain(w) ==
    /\ payment.idem = "FAILED" /\ payment.hold < MaxCheckouts
    /\ payment' = [payment EXCEPT !.idem = "PROCESSING", !.hold = @ + 1]
    /\ Start(w, "hold", payment.hold + 1)
    /\ UNCHANGED <<holds, dueHolds, strays, told>>

CheckoutHeld(w) ==
    /\ Stop(w, "held")
    /\ payment' = [payment EXCEPT !.idem = "COMPLETED"]
    /\ UNCHANGED <<holds, dueHolds, strays, told>>

HoldFailed(w) ==
    /\ Stop(w, "notHeld")
    /\ payment' = [payment EXCEPT !.idem = "FAILED", !.status = "FAILED"]
    /\ UNCHANGED <<holds, dueHolds, strays, told>>

-----------------------------------------------------------------------------
(* confirm, by the payer or by a service (internalConfirm)                 *)

\* The row is read.  The payer's transaction token, checked here and recorded
\* as used with PROCESSING, only refuses more.
ConfirmPayment(w) ==
    /\ \/ /\ payment.status = "PENDING"
          /\ Start(w, IF payment.hold \in dueHolds THEN "releaseDue" ELSE "begin", payment.hold)
       \/ payment.status = "PROCESSING" /\ Start(w, "capture", payment.hold)
    /\ UNCHANGED <<payment, holds, dueHolds, strays, told>>

Begin(w) ==
    /\ doing[w].at = "begin" /\ doing' = [doing EXCEPT ![w] = [at |-> "capture", hold |-> @.hold]]
    /\ payment' = [payment EXCEPT !.status = "PROCESSING"]
    /\ UNCHANGED <<holds, dueHolds, strays, told>>

\* The end and its event, in one transaction.
End(w, at, status, event) ==
    /\ Stop(w, at)
    /\ payment' = [payment EXCEPT !.status = status]
    /\ told' = told \cup {event}
    /\ UNCHANGED <<holds, dueHolds, strays>>

Succeed(w) == End(w, "paid", "SUCCESS", "PAYMENT_SUCCESS")
Expire(w) == End(w, "expired", "EXPIRED", "PAYMENT_EXPIRED")
Fail(w) == End(w, "failed", "FAILED", "PAYMENT_FAILED")

-----------------------------------------------------------------------------
(* Cancel, and the expiry job                                              *)

Cancel(w) ==
    /\ payment.status = "PENDING"
    /\ Start(w, "releaseCancel", payment.hold)
    /\ UNCHANGED <<payment, holds, dueHolds, strays, told>>

Cancelled(w) ==
    /\ Stop(w, "cancelled")
    /\ payment' = [payment EXCEPT !.status = "CANCELLED"]
    /\ UNCHANGED <<holds, dueHolds, strays, told>>

Sweep(w) ==
    /\ payment.status = "PENDING" /\ payment.hold \in dueHolds
    /\ Start(w, "releaseSweep", payment.hold)
    /\ UNCHANGED <<payment, holds, dueHolds, strays, told>>

Swept(w) ==
    /\ Stop(w, "swept")
    /\ IF payment.status = "PENDING"
       THEN payment' = [payment EXCEPT !.status = "EXPIRED"] /\ told' = told \cup {"payment.expired"}
       ELSE UNCHANGED <<payment, told>>
    /\ UNCHANGED <<holds, dueHolds, strays>>

-----------------------------------------------------------------------------
Step(w) ==
    \/ WalletAnswers(w) \/ WalletSilent(w) \/ HandlerCrash(w)
    \/ CheckoutHeld(w) \/ HoldFailed(w)
    \/ Begin(w) \/ Succeed(w) \/ Expire(w) \/ Fail(w) \/ Cancelled(w) \/ Swept(w)

CheckoutNext ==
    \/ StrayRequest
    \/ \E h \in Attempts : HoldGrowsDue(h) \/ HoldRunsOut(h)
    \/ \E w \in Handlers :
          \/ OpenCheckout(w) \/ CheckoutAgain(w) \/ ConfirmPayment(w) \/ Cancel(w) \/ Sweep(w)
          \/ Step(w)

CheckoutSpec == CheckoutInit /\ [][CheckoutNext]_checkoutVars

\* Time passes, a handler goes on or dies, the expiry job is scheduled for
\* ever, and a step it can take again and again is not lost every time to a
\* crash or a timeout.
CheckoutFairness ==
    /\ WF_checkoutVars(\E h \in Attempts : HoldGrowsDue(h))
    /\ \A w \in Handlers : WF_checkoutVars(Step(w))
    /\ SF_checkoutVars(\E w \in Handlers : Sweep(w))
    /\ SF_checkoutVars(\E w \in Handlers : doing[w].at = "releaseSweep" /\ WalletAnswers(w))
    /\ SF_checkoutVars(\E w \in Handlers : Swept(w))

-----------------------------------------------------------------------------
\* SUCCESS, and PAYMENT_SUCCESS on the outbox, only after the wallet has paid a
\* hold of this payment out, whatever was retried, lost or executed late.
SuccessWasCaptured ==
    payment.status = "SUCCESS" \/ "PAYMENT_SUCCESS" \in told
        => \E h \in Attempts : holds[h] = "CAPTURED"

\* CANCELLED, EXPIRED and their events only after the wallet has let a hold of
\* this payment go.
EndedWasFreed ==
    payment.status \in {"CANCELLED", "EXPIRED"} \/ told \cap {"PAYMENT_EXPIRED", "PAYMENT_FAILED", "payment.expired"} # {}
        => \E h \in Attempts : holds[h] \in {"RELEASED", "EXPIRED"}

\* Racing confirmations, cancellations and expiries of a payment whose checkout
\* was not retried agree: a success excludes every other verdict.  (A checkout
\* that times out may still write FAILED, without an event.)
OneVerdict ==
    payment.hold = 1 /\ "PAYMENT_SUCCESS" \in told =>
        told = {"PAYMENT_SUCCESS"} /\ payment.status \notin {"CANCELLED", "EXPIRED"}

\* An unconfirmed payment that has its hold does not stay PENDING.
PendingEnds ==
    CheckoutFairness => (payment.status = "PENDING" /\ payment.idem = "COMPLETED" ~> payment.status # "PENDING")

\* payment.service.ts: after a failed hold the key is freed "for a retry"; a
\* completed checkout then is one that can be confirmed, unless a confirmation
\* has failed.
RetriedIsPayable ==
    payment.idem = "COMPLETED" /\ payment.status = "FAILED" => "PAYMENT_FAILED" \in told
=============================================================================
