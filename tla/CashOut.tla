------------------------------ MODULE CashOut ------------------------------
(***************************************************************************)
(* One cash-out of payment-service: the amount is held in the wallet, the  *)
(* bank is asked to pay under a reference of the order's own, and the      *)
(* bank's verdict captures the hold or lets it go.                         *)
(*                                                                         *)
(* A worker is one run of drive(), started by the user's confirmation or   *)
(* by the recovery job.  It works under a lease that may lapse at any      *)
(* point, so several may be at work on one order.  A call to the wallet    *)
(* may go unanswered and be executed later or never; the bank is a table   *)
(* of the same database, so a call to it has its effect now or never.      *)
(***************************************************************************)
EXTENDS Naturals

CONSTANTS
    Drivers,   \* runs of drive
    NoDriver   \* the lease token of an order nobody works on

ASSUME NoDriverIsNoDriver == NoDriver \notin Drivers

VARIABLES
    order,     \* the row of CashOut; "why" stands for failureReason
    cashHold,  \* the hold under holdRef in the wallet, and whether it is past its expiry
    bank,      \* the bank's row under providerRef
    driver,    \* what each worker is about to do
    adrift,    \* wallet requests whose callers no longer wait for them
    verdicts   \* how many funding.cashout_* events were written

cashVars == <<order, cashHold, bank, driver, adrift, verdicts>>

Requests == {"hold", "extend", "capture", "release"}
Answered == {"held", "refused", "success", "declined", "pending", "captured", "gone", "released"}
Ended == {"SUCCEEDED", "FAILED"}

CashOutTypeOK ==
    /\ order \in [status : {"NONE", "REQUESTED", "HOLDING", "PAYOUT_PENDING"} \cup Ended,
                  workflow : {"IDLE", "HOLDING", "PAYOUT", "CAPTURING", "RELEASING", "AWAIT_RECONCILE"},
                  lease : Drivers \cup {NoDriver}, leased : BOOLEAN,
                  why : {"", "HOLD_REFUSED", "BANK_DECLINED", "RECONCILE_HOLD_EXPIRED"}]
    /\ cashHold \in [status : {"NONE", "PENDING", "CAPTURED", "RELEASED", "EXPIRED"}, due : BOOLEAN]
    /\ bank \in {"NONE", "PENDING", "SUCCESS", "FAILED"}
    /\ driver \in [Drivers -> Requests \cup Answered \cup {"idle", "read", "payout", "query", "leave"}]
    /\ adrift \in SUBSET Requests
    /\ verdicts \in Nat

CashOutInit ==
    /\ order = [status |-> "NONE", workflow |-> "IDLE", lease |-> NoDriver, leased |-> FALSE, why |-> ""]
    /\ cashHold = [status |-> "NONE", due |-> FALSE]
    /\ bank = "NONE"
    /\ driver = [w \in Drivers |-> "idle"]
    /\ adrift = {}
    /\ verdicts = 0

Turn(w, from, to) == driver[w] = from /\ driver' = [driver EXCEPT ![w] = to]

Holds(w) == order.lease = w

-----------------------------------------------------------------------------
(* The user                                                                *)

CreateCashOut ==
    /\ order.status = "NONE"
    /\ order' = [order EXCEPT !.status = "REQUESTED"]
    /\ UNCHANGED <<cashHold, bank, driver, adrift, verdicts>>

\* The transaction that accepts the token; drive is called after it, or never.
ConfirmCashOut ==
    /\ order.status = "REQUESTED" /\ order.workflow = "IDLE"
    /\ order' = [order EXCEPT !.status = "HOLDING", !.workflow = "HOLDING"]
    /\ UNCHANGED <<cashHold, bank, driver, adrift, verdicts>>

-----------------------------------------------------------------------------
(* The worker: claim, read, and the calls                                  *)

\* Mutant: a lapsed lease is not taken over.
Drive_FreeOnly(w) ==
    /\ order.status \notin Ended /\ order.workflow # "IDLE"
    /\ order.lease = NoDriver
    /\ Turn(w, "idle", "read")
    /\ order' = [order EXCEPT !.lease = w, !.leased = TRUE]
    /\ UNCHANGED <<cashHold, bank, adrift, verdicts>>

Drive(w) ==
    /\ order.status \notin Ended /\ order.workflow # "IDLE"
    /\ ~order.leased
    /\ Turn(w, "idle", "read")
    /\ order' = [order EXCEPT !.lease = w, !.leased = TRUE]
    /\ UNCHANGED <<cashHold, bank, adrift, verdicts>>

LeaseRunsOut ==
    /\ order.leased
    /\ order' = [order EXCEPT !.leased = FALSE]
    /\ UNCHANGED <<cashHold, bank, driver, adrift, verdicts>>

\* run() reads the row afresh at each step and does not look at the lease.
RunStep(w) ==
    /\ Turn(w, "read",
            IF order.status \in Ended THEN "leave"
            ELSE [HOLDING |-> "hold", PAYOUT |-> "payout", CAPTURING |-> "capture",
                  RELEASING |-> "release", AWAIT_RECONCILE |-> "extend", IDLE |-> "leave"][order.workflow])
    /\ UNCHANGED <<order, cashHold, bank, adrift, verdicts>>

\* wallet-service's answer to each request.  A reference that is held already
\* is answered as the first time, whatever has become of the hold since.
WalletExecutes(request, reply) ==
    \/ /\ request = "hold" /\ reply = "ok"
       /\ cashHold' = IF cashHold.status = "NONE" THEN [status |-> "PENDING", due |-> FALSE] ELSE cashHold
    \/ (request = "hold" /\ reply = "refused" /\ cashHold.status = "NONE" /\ UNCHANGED cashHold)
    \/ /\ request = "extend" /\ reply = "ok" /\ cashHold.status = "PENDING"
       /\ cashHold' = [cashHold EXCEPT !.due = FALSE]
    \/ request = "extend" /\ reply = "refused" /\ UNCHANGED cashHold
    \/ /\ request = "capture" /\ reply = "ok"
       /\ cashHold.status = "CAPTURED" \/ (cashHold.status = "PENDING" /\ ~cashHold.due)
       /\ cashHold' = [cashHold EXCEPT !.status = "CAPTURED"]
    \/ /\ request = "capture" /\ reply = "refused"
       /\ cashHold.status \in {"RELEASED", "EXPIRED"} \/ (cashHold.status = "PENDING" /\ cashHold.due)
       /\ cashHold' = [cashHold EXCEPT !.status = IF @ = "RELEASED" THEN @ ELSE "EXPIRED"]
    \/ /\ request = "release" /\ reply = "ok" /\ cashHold.status # "CAPTURED"
       /\ cashHold' = [cashHold EXCEPT !.status =
             IF @ = "PENDING" THEN IF cashHold.due THEN "EXPIRED" ELSE "RELEASED" ELSE @]
    \/ request = "release" /\ reply = "refused" /\ cashHold.status = "CAPTURED" /\ UNCHANGED cashHold

\* What placeHold, protectHold, capture and release make of the answer; the
\* outcome of an extension is ignored.  scheduleRetry only postpones the next turn.
AfterCall(request, reply) ==
    IF request = "extend" THEN "query"
    ELSE IF reply = "none" THEN "leave"
    ELSE [hold |-> [ok |-> "held", refused |-> "refused"],
          capture |-> [ok |-> "captured", refused |-> "gone"],
          release |-> [ok |-> "released", refused |-> "leave"]][request][reply]

CallWallet(w) ==
    /\ \E request \in Requests, reply \in {"ok", "refused"} :
          WalletExecutes(request, reply) /\ Turn(w, request, AfterCall(request, reply))
    /\ UNCHANGED <<order, bank, adrift, verdicts>>

\* A timeout, a 5xx or a refusal that settles nothing.
CallUnanswered(w) ==
    /\ \E request \in Requests :
          /\ Turn(w, request, AfterCall(request, "none"))
          /\ adrift' \in {adrift, adrift \cup {request}}
    /\ UNCHANGED <<order, cashHold, bank, verdicts>>

AdriftExecuted ==
    /\ \E request \in adrift, reply \in {"ok", "refused"} :
          WalletExecutes(request, reply) /\ adrift' = adrift \ {request}
    /\ UNCHANGED <<order, bank, driver, verdicts>>

Verdict(row) == [NONE |-> "leave", PENDING |-> "pending", SUCCESS |-> "success", FAILED |-> "declined"][row]

\* MockPayoutService.payout: the first call under the reference inserts the
\* row, a later or a concurrent one reads it.
BankAnswers == bank' \in IF bank = "NONE" THEN {"PENDING", "SUCCESS", "FAILED"} ELSE {bank}

\* Mutant: an error of the payout is taken for the bank's refusal.
IssuePayout_ErrorIsRefusal(w) ==
    /\ BankAnswers
    /\ Turn(w, "payout", Verdict(bank')) \/ Turn(w, "payout", "declined")
    /\ UNCHANGED <<order, cashHold, adrift, verdicts>>

\* A call that throws may have inserted the row or not.
IssuePayout(w) ==
    /\ \/ /\ BankAnswers
          /\ Turn(w, "payout", Verdict(bank')) \/ Turn(w, "payout", "pending")
       \/ UNCHANGED bank /\ Turn(w, "payout", "pending")
    /\ UNCHANGED <<order, cashHold, adrift, verdicts>>

\* A missing row is ambiguous, not a failure; so is a query that fails.
QueryPayout(w) ==
    /\ Turn(w, "query", IF bank = "PENDING" THEN "leave" ELSE Verdict(bank)) \/ Turn(w, "query", "leave")
    /\ UNCHANGED <<order, cashHold, bank, adrift, verdicts>>

-----------------------------------------------------------------------------
(* The worker: what it writes, under its lease                             *)

\* toWorkflow and the update after placeHold: without the lease nothing is written.
Advance(w, from, workflow) ==
    /\ Turn(w, from, "read")
    /\ order' = IF Holds(w) /\ order.status \notin Ended
                THEN [order EXCEPT !.workflow = workflow] ELSE order
    /\ UNCHANGED <<cashHold, bank, adrift, verdicts>>

HoldPlaced(w) == Advance(w, "held", "PAYOUT")
PayoutSucceeded(w) == Advance(w, "success", "CAPTURING")
PayoutDeclined(w) == Advance(w, "declined", "RELEASING")

\* toStatus(PAYOUT_PENDING, AWAIT_RECONCILE)
PayoutPending(w) ==
    /\ Turn(w, "pending", "leave")
    /\ order' = IF Holds(w) /\ order.status \notin Ended
                THEN [order EXCEPT !.status = "PAYOUT_PENDING", !.workflow = "AWAIT_RECONCILE"] ELSE order
    /\ UNCHANGED <<cashHold, bank, adrift, verdicts>>

Close(status, why) ==
    order' = [status |-> status, workflow |-> "IDLE", lease |-> NoDriver, leased |-> FALSE, why |-> why]

CashOutOutcome == [refused |-> [status |-> "FAILED", why |-> "HOLD_REFUSED"],
            captured |-> [status |-> "SUCCEEDED", why |-> ""],
            gone |-> [status |-> "FAILED", why |-> "RECONCILE_HOLD_EXPIRED"],
            released |-> [status |-> "FAILED", why |-> "BANK_DECLINED"]]

\* finish() looks at the lease and at the status again under the row lock, and
\* writes the verdict and its event together.
FinishCashOut(w) ==
    /\ \E o \in DOMAIN CashOutOutcome :
          /\ Turn(w, o, "leave")
          /\ IF Holds(w) /\ order.status \notin Ended
             THEN Close(CashOutOutcome[o].status, CashOutOutcome[o].why) /\ verdicts' = verdicts + 1
             ELSE UNCHANGED <<order, verdicts>>
    /\ UNCHANGED <<cashHold, bank, adrift>>

\* drive's finally: the lease is given up if it is still this worker's.
Leave(w) ==
    /\ Turn(w, "leave", "idle")
    /\ order' = IF Holds(w) THEN [order EXCEPT !.lease = NoDriver, !.leased = FALSE] ELSE order
    /\ UNCHANGED <<cashHold, bank, adrift, verdicts>>

\* The process dies, and with it the answer to a request it has sent.
DriverCrash(w) ==
    /\ driver[w] # "idle"
    /\ driver' = [driver EXCEPT ![w] = "idle"]
    /\ adrift' \in {adrift, adrift \cup ({driver[w]} \cap Requests)}
    /\ UNCHANGED <<order, cashHold, bank, verdicts>>

-----------------------------------------------------------------------------
(* The wallet and the bank                                                 *)

CashHoldDue ==
    /\ cashHold.status = "PENDING" /\ ~cashHold.due
    /\ cashHold' = [cashHold EXCEPT !.due = TRUE]
    /\ UNCHANGED <<order, bank, driver, adrift, verdicts>>

CashHoldSwept ==
    /\ cashHold.status = "PENDING" /\ cashHold.due
    /\ cashHold' = [cashHold EXCEPT !.status = "EXPIRED"]
    /\ UNCHANGED <<order, bank, driver, adrift, verdicts>>

\* MockPayoutService.resolve: an unknown outcome becomes definitive, once.
BankConcludes ==
    /\ bank = "PENDING"
    /\ bank' \in {"SUCCESS", "FAILED"}
    /\ UNCHANGED <<order, cashHold, driver, adrift, verdicts>>

-----------------------------------------------------------------------------
Writes(w) == HoldPlaced(w) \/ PayoutSucceeded(w) \/ PayoutDeclined(w) \/ PayoutPending(w) \/ FinishCashOut(w)

DriverNext(w) ==
    \/ Drive(w) \/ RunStep(w) \/ CallWallet(w) \/ CallUnanswered(w) \/ IssuePayout(w) \/ QueryPayout(w)
    \/ Writes(w) \/ Leave(w) \/ DriverCrash(w)

CashOutNext ==
    \/ CreateCashOut \/ ConfirmCashOut \/ LeaseRunsOut \/ AdriftExecuted
    \/ CashHoldDue \/ CashHoldSwept \/ BankConcludes
    \/ \E w \in Drivers : DriverNext(w)

CashOutSpec == CashOutInit /\ [][CashOutNext]_cashVars

\* The job runs every minute for ever, the bank concludes what it has begun,
\* and a step the lease holder can take again and again is not lost every time
\* to a crash, a timeout or a lapsed lease.
CashOutFairness ==
    /\ WF_cashVars(LeaseRunsOut)
    /\ WF_cashVars(BankConcludes)
    /\ WF_cashVars(\E w \in Drivers : Drive(w))
    /\ WF_cashVars(\E w \in Drivers : Leave(w))
    /\ SF_cashVars(\E w \in Drivers : Holds(w) /\ RunStep(w))
    /\ SF_cashVars(\E w \in Drivers : Holds(w) /\ (CallWallet(w) \/ IssuePayout(w)))
    /\ SF_cashVars(\E w \in Drivers : Holds(w) /\ QueryPayout(w) /\ driver'[w] # "leave")
    /\ SF_cashVars(\E w \in Drivers : Holds(w) /\ Writes(w))

-----------------------------------------------------------------------------
\* Never capture or release on a guess: the wallet gives the money up only
\* after the bank has paid, keeps it back only when the bank has not, and the
\* bank is not asked before there is a hold.
HoldFollowsBank ==
    /\ cashHold.status = "CAPTURED" => bank = "SUCCESS"
    /\ cashHold.status = "RELEASED" => bank = "FAILED"
    /\ cashHold.status = "NONE" => bank = "NONE"

\* Under lapsed leases, lost answers and late executions the wallet follows the
\* bank, and the order both.  One that succeeded was paid and taken; one that
\* failed was not taken, and the bank paid it only if the order says that
\* somebody must look (RECONCILE_HOLD_EXPIRED).  However many workers reach a
\* verdict, it is announced once.
VerdictMatchesBank ==
    /\ HoldFollowsBank
    /\ order.status = "SUCCEEDED" => cashHold.status = "CAPTURED"
    /\ order.status = "FAILED" =>
          /\ cashHold.status # "CAPTURED"
          /\ bank = "SUCCESS" <=> order.why = "RECONCILE_HOLD_EXPIRED"
    /\ verdicts = IF order.status \in Ended THEN 1 ELSE 0

\* A confirmed order ends, except one whose payout threw before the bank had a
\* row of it: that one waits for a verdict nobody will give.
CashOutSettles ==
    CashOutFairness =>
        (order.workflow # "IDLE" ~>
            order.status \in Ended \/ (order.workflow = "AWAIT_RECONCILE" /\ bank = "NONE"))
=============================================================================
