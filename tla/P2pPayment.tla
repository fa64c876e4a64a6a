----------------------------- MODULE P2pPayment -----------------------------
(***************************************************************************)
(* One wallet-to-wallet payment of payment-service (P2pService), the       *)
(* workers that drive it, and the hold it keeps at wallet-service.         *)
(*                                                                         *)
(* Every operation runs in three phases: a short transaction claims the    *)
(* row by writing a *_CALLING workflow and a lease; the wallet is called   *)
(* outside any transaction; a second transaction writes the result, under  *)
(* a condition.  Between phases other workers run, the lease may lapse,    *)
(* the answer may be lost, the request may be executed late, or the worker *)
(* may crash.                                                              *)
(***************************************************************************)
EXTENDS Naturals, FiniteSets

CONSTANT Workers    \* request handlers, the recovery loop, the expiry job

VARIABLES
    pay,       \* the Payment row
    leased,    \* workerLeaseUntil is in the future
    hold,      \* the WalletHold row at wallet-service
    due,       \* holdExpiresAt has passed
    pc,        \* what each worker is about to do
    late,      \* wallet requests whose caller no longer waits for them
    events     \* outbox events written, by type

p2pVars == <<pay, leased, hold, due, pc, late, events>>

Status == {"NONE", "PENDING", "SUCCESS", "FAILED", "EXPIRED", "CANCELLED"}
Workflow == {"IDLE", "HOLDING", "HOLD_CALLING", "CONFIRMING", "CAPTURE_CALLING",
             "CANCEL_CALLING"}
HoldStatus == {"NONE", "PENDING", "CAPTURED", "RELEASED", "EXPIRED"}

\* A worker that is calling the wallet, and the request it has sent.
Calling == {"hold", "capture", "freeExpired", "freeFailed", "cancel", "cancelExpired",
            "sweep"}
Op(p) == CASE p = "hold" -> "hold" [] p = "capture" -> "capture" [] OTHER -> "release"
Ops == {"hold", "capture", "release"}

\* A worker that has its result and is about to write it.
Deciding == {"held", "refused", "holdUnknown", "paid", "expired", "failed", "pause",
             "cancelled", "cancelledExpired", "swept"}

P2pTypeOK ==
    /\ pay \in [status : Status, workflow : Workflow,
                idem : {"PROCESSING", "COMPLETED", "FAILED"}]
    /\ leased \in BOOLEAN
    /\ hold \in HoldStatus
    /\ due \in BOOLEAN
    /\ pc \in [Workers -> {"idle", "lookup"} \cup Calling \cup Deciding]
    /\ late \in SUBSET Ops
    /\ events \in [succeeded : Nat, failed : Nat, expired : Nat]

P2pInit ==
    /\ pay = [status |-> "NONE", workflow |-> "IDLE", idem |-> "PROCESSING"]
    /\ leased = FALSE
    /\ hold = "NONE"
    /\ due = FALSE
    /\ pc = [w \in Workers |-> "idle"]
    /\ late = {}
    /\ events = [succeeded |-> 0, failed |-> 0, expired |-> 0]

Goto(w, from, to) == pc[w] = from /\ pc' = [pc EXCEPT ![w] = to]

-----------------------------------------------------------------------------
(* wallet-service, as WalletLedger models it, for this hold                *)

\* The deadline is checked when the request comes in, the rest in a later
\* transaction: a hold may be made that is already due.
WalletHold(reply) ==
    \/ reply = "refused" /\ (due \/ hold = "NONE") /\ UNCHANGED hold
    \/ reply = "ok" /\ hold' = IF hold = "NONE" THEN "PENDING" ELSE hold

WalletCapture(reply) ==
    \/ hold = "CAPTURED" /\ reply = "ok" /\ UNCHANGED hold
    \/ hold \in {"RELEASED", "EXPIRED"} /\ reply = "gone" /\ UNCHANGED hold
    \/ hold = "PENDING" /\ due /\ reply = "gone" /\ hold' = "EXPIRED"
    \/ hold = "PENDING" /\ ~due /\ reply = "ok" /\ hold' = "CAPTURED"
    \/ hold = "PENDING" /\ ~due /\ reply = "refused" /\ UNCHANGED hold
    \/ hold = "NONE" /\ reply = "refused" /\ UNCHANGED hold

\* A release refused because the wallet was read before it was locked changes
\* nothing, and its caller does what it does without an answer: NoAnswer.
WalletRelease(reply) ==
    \/ hold = "PENDING" /\ reply = "ok" /\ hold' = IF due THEN "EXPIRED" ELSE "RELEASED"
    \/ hold \in {"RELEASED", "EXPIRED"} /\ reply = "ok" /\ UNCHANGED hold
    \/ hold = "CAPTURED" /\ reply = "captured" /\ UNCHANGED hold
    \/ hold = "NONE" /\ reply = "refused" /\ UNCHANGED hold

Replies == {"ok", "refused", "gone", "captured"}

Wallet(op, reply) ==
    \/ op = "hold" /\ WalletHold(reply)
    \/ op = "capture" /\ WalletCapture(reply)
    \/ op = "release" /\ WalletRelease(reply)

\* The wallet's own sweeper.
WalletExpires ==
    /\ hold = "PENDING" /\ due
    /\ hold' = "EXPIRED"
    /\ UNCHANGED <<pay, leased, due, pc, late, events>>

-----------------------------------------------------------------------------
(* Phase 2: the call, and what a worker makes of the reply                 *)

After_TimeoutIsRefusal(p, reply) ==
    CASE p = "hold" -> (IF reply = "ok" THEN "held" ELSE "refused")
      [] p = "capture" -> (IF reply = "ok" THEN "paid" ELSE "failed")
      [] p = "cancel" -> "cancelled"
      [] OTHER -> "idle"

\* "none" is a timeout, a transport failure or a 5xx.
After(p, reply) ==
    CASE p = "hold" ->
            (CASE reply = "ok" -> "held" [] reply = "none" -> "holdUnknown" [] OTHER -> "refused")
      [] p = "capture" ->
            (CASE reply = "ok" -> "paid" [] reply = "gone" -> "freeExpired"
               [] reply = "none" -> "pause" [] OTHER -> "freeFailed")
      [] p \in {"freeExpired", "freeFailed"} ->
            (CASE reply = "ok" -> IF p = "freeExpired" THEN "expired" ELSE "failed"
               [] reply = "captured" -> "paid" [] OTHER -> "pause")
      [] p = "cancel" -> "cancelled"
      [] p = "cancelExpired" -> "cancelledExpired"
      [] p = "sweep" -> IF reply = "ok" THEN "swept" ELSE "idle"

Answer(w) ==
    /\ pc[w] \in Calling
    /\ \E reply \in Replies :
          /\ Wallet(Op(pc[w]), reply)
          /\ pc' = [pc EXCEPT ![w] = After(@, reply)]
    /\ UNCHANGED <<pay, leased, due, late, events>>

\* The request may still reach the wallet, now or later, or never.
Abandons(w) == late' = late \/ late' = late \cup {Op(pc[w])}

NoAnswer(w) ==
    /\ pc[w] \in Calling
    /\ Abandons(w)
    /\ pc' = [pc EXCEPT ![w] = After(@, "none")]
    /\ UNCHANGED <<pay, leased, hold, due, events>>

Crash(w) ==
    /\ pc[w] # "idle"
    /\ pc' = [pc EXCEPT ![w] = "idle"]
    /\ IF pc[w] \in Calling THEN Abandons(w) ELSE UNCHANGED late
    /\ UNCHANGED <<pay, leased, hold, due, events>>

LateRequest ==
    /\ \E op \in late : \E reply \in Replies : Wallet(op, reply) /\ late' = late \ {op}
    /\ UNCHANGED <<pay, leased, due, pc, events>>

-----------------------------------------------------------------------------
(* Checkout: the row is inserted, then completeHold                        *)

Checkout ==
    /\ pay.status = "NONE"
    /\ pay' = [pay EXCEPT !.status = "PENDING", !.workflow = "HOLDING"]
    /\ UNCHANGED <<leased, hold, due, pc, late, events>>

\* Also a checkout retried with the same key, and the recovery loop.
ClaimHold(w) ==
    /\ Goto(w, "idle", "hold")
    /\ pay.status = "PENDING" /\ pay.idem # "FAILED"
    /\ \/ pay.workflow = "HOLDING"
       \/ pay.workflow = "HOLD_CALLING" /\ ~leased
    /\ pay' = [pay EXCEPT !.workflow = "HOLD_CALLING"]
    /\ leased' = TRUE
    /\ UNCHANGED <<hold, due, late, events>>

\* Phase 3 writes only while the workflow is still HOLD_CALLING; it checks
\* neither the status nor whose claim that is.
HoldWrites(fields) ==
    IF pay.workflow = "HOLD_CALLING"
    THEN pay' = fields /\ leased' = FALSE
    ELSE UNCHANGED <<pay, leased>>

HoldDone(w) ==
    /\ Goto(w, "held", "idle")
    /\ HoldWrites([pay EXCEPT !.workflow = "IDLE", !.idem = "COMPLETED"])
    /\ UNCHANGED <<hold, due, late, events>>

HoldRefused(w) ==
    /\ Goto(w, "refused", "idle")
    /\ HoldWrites([status |-> "FAILED", workflow |-> "IDLE", idem |-> "FAILED"])
    /\ UNCHANGED <<hold, due, late, events>>

HoldUnknown(w) ==
    /\ Goto(w, "holdUnknown", "idle")
    /\ HoldWrites(pay)
    /\ UNCHANGED <<hold, due, late, events>>

-----------------------------------------------------------------------------
(* Confirm and resume                                                      *)

\* finish: the terminal status and its event, in one transaction.
Finish(status) ==
    /\ pay' = [pay EXCEPT !.status = status, !.workflow = "IDLE"]
    /\ events' = CASE status = "SUCCESS" -> [events EXCEPT !.succeeded = @ + 1]
                   [] status = "EXPIRED" -> [events EXCEPT !.expired = @ + 1]
                   [] OTHER -> [events EXCEPT !.failed = @ + 1]

Confirm ==
    /\ pay = [status |-> "PENDING", workflow |-> "IDLE", idem |-> "COMPLETED"]
    /\ pay' = [pay EXCEPT !.workflow = "CONFIRMING"]
    /\ UNCHANGED <<leased, hold, due, pc, late, events>>

ClaimCapture_ConfirmingOnly(w) ==
    /\ Goto(w, "idle", "lookup")
    /\ pay.status = "PENDING" /\ pay.workflow = "CONFIRMING"
    /\ pay' = [pay EXCEPT !.workflow = "CAPTURE_CALLING"]
    /\ leased' = TRUE
    /\ UNCHANGED <<hold, due, late, events>>

\* The attempt counter already counts completeHold's claim, so every capture
\* is preceded by a lookup.
ClaimCapture(w) ==
    /\ Goto(w, "idle", "lookup")
    /\ pay.status = "PENDING"
    /\ \/ pay.workflow = "CONFIRMING"
       \/ pay.workflow = "CAPTURE_CALLING" /\ ~leased
    /\ pay' = [pay EXCEPT !.workflow = "CAPTURE_CALLING"]
    /\ leased' = TRUE
    /\ UNCHANGED <<hold, due, late, events>>

\* A lookup that fails counts as one that finds nothing.
Lookup(w) ==
    /\ \/ hold = "CAPTURED" /\ Goto(w, "lookup", "paid")
       \/ Goto(w, "lookup", "capture")
    /\ UNCHANGED <<pay, leased, hold, due, late, events>>

StillCapturing_Unchecked(outcome) == outcome \in {"paid", "expired", "failed"}

StillCapturing(outcome) ==
    /\ pay.status = "PENDING"
    /\ \/ pay.workflow = "CAPTURE_CALLING"
       \/ pay.workflow = "CONFIRMING" /\ outcome = "paid"

FinishResume(w) ==
    /\ \E outcome \in {"paid", "expired", "failed"} :
          /\ Goto(w, outcome, "idle")
          /\ IF StillCapturing(outcome)
             THEN /\ Finish(CASE outcome = "paid" -> "SUCCESS"
                              [] outcome = "expired" -> "EXPIRED"
                              [] outcome = "failed" -> "FAILED")
                  /\ leased' = FALSE
             ELSE UNCHANGED <<pay, leased, events>>
    /\ UNCHANGED <<hold, due, late>>

Pause(w) ==
    /\ Goto(w, "pause", "idle")
    /\ leased' = (leased /\ pay.workflow # "CAPTURE_CALLING")
    /\ UNCHANGED <<pay, hold, due, late, events>>

-----------------------------------------------------------------------------
(* Cancel, by its user or by the recovery loop once the hold has expired   *)

\* recover cancels what it has read as IDLE, which never becomes HOLDING again.
ClaimCancel(w, expired) ==
    /\ Goto(w, "idle", IF expired THEN "cancelExpired" ELSE "cancel")
    /\ pay.status = "PENDING"
    /\ pay.workflow \in {"IDLE", "HOLDING", "CANCEL_CALLING"}
    /\ expired => due /\ pay.workflow # "HOLDING"
    /\ pay' = [pay EXCEPT !.workflow = "CANCEL_CALLING"]
    /\ leased' = TRUE
    /\ UNCHANGED <<hold, due, late, events>>

\* Whatever the release answered, and whatever the row has become.
FinishCancel(w) ==
    /\ \/ Goto(w, "cancelled", "idle") /\ Finish("CANCELLED")
       \/ Goto(w, "cancelledExpired", "idle") /\ Finish("EXPIRED")
    /\ UNCHANGED <<leased, hold, due, late>>

-----------------------------------------------------------------------------
(* The expiry job: sweepExpiredPayments                                    *)

SweepPick(w) ==
    /\ Goto(w, "idle", "sweep")
    /\ pay.status = "PENDING" /\ due
    /\ UNCHANGED <<pay, leased, hold, due, late, events>>

SweepFinish(w) ==
    /\ Goto(w, "swept", "idle")
    /\ IF pay.status = "PENDING" THEN Finish("EXPIRED") ELSE UNCHANGED <<pay, events>>
    /\ UNCHANGED <<leased, hold, due, late>>

-----------------------------------------------------------------------------
Due ==
    /\ pay.status # "NONE" /\ ~due
    /\ due' = TRUE
    /\ UNCHANGED <<pay, leased, hold, pc, late, events>>

LeaseLapses ==
    /\ leased
    /\ leased' = FALSE
    /\ UNCHANGED <<pay, hold, due, pc, late, events>>

WorkerStep(w) ==
    \/ Answer(w) \/ NoAnswer(w) \/ Crash(w)
    \/ ClaimHold(w) \/ HoldDone(w) \/ HoldRefused(w) \/ HoldUnknown(w)
    \/ ClaimCapture(w) \/ Lookup(w) \/ FinishResume(w) \/ Pause(w)
    \/ (\E expired \in BOOLEAN : ClaimCancel(w, expired)) \/ FinishCancel(w)
    \/ SweepPick(w) \/ SweepFinish(w)

P2pNext ==
    \/ Checkout \/ Confirm \/ Due \/ LeaseLapses \/ WalletExpires \/ LateRequest
    \/ \E w \in Workers : WorkerStep(w)

P2pSpec == P2pInit /\ [][P2pNext]_p2pVars

-----------------------------------------------------------------------------
Outcome == CASE pay.status \in {"NONE", "PENDING"} -> "open"
             [] pay.status = "SUCCESS" -> "paid"
             [] OTHER -> "unpaid"

Contract == INSTANCE PaymentContract WITH outcome <- Outcome, moved <- (hold = "CAPTURED")

\* Retries, recovery, cancellation, expiry and late requests notwithstanding,
\* the payment ends SUCCESS only after its hold was captured, and no hold is
\* captured once it has ended otherwise.
KeepsContract == Contract!Spec

\* Consumers of the outbox hear of a success exactly when there was one, once,
\* and then nothing else.
SuccessHeardOnce ==
    /\ events.succeeded = (IF pay.status = "SUCCESS" THEN 1 ELSE 0)
    /\ pay.status = "SUCCESS" => events.failed + events.expired = 0

\* The recovery loop is scheduled for ever; a step that some worker can take
\* again and again is not lost every time to a crash, a timeout or a stall.
P2pRecovery ==
    /\ WF_p2pVars(LeaseLapses)
    /\ SF_p2pVars(\E w \in Workers : ClaimCapture(w))
    /\ SF_p2pVars(\E w \in Workers : Lookup(w))
    /\ SF_p2pVars(\E w \in Workers : pc[w] = "capture" /\ Answer(w))
    /\ SF_p2pVars(\E w \in Workers : pc[w] \in {"freeExpired", "freeFailed"} /\ Answer(w))
    /\ SF_p2pVars(\E w \in Workers : FinishResume(w))
    /\ WF_p2pVars(\E w \in Workers : (pc[w] = "sweep" /\ Answer(w)) \/ SweepFinish(w) \/ HoldUnknown(w) \/ Pause(w))

\* What a worker does next with the operation it is in.
Proceeds(w) ==
    \/ Answer(w) \/ NoAnswer(w) \/ Lookup(w)
    \/ HoldDone(w) \/ HoldRefused(w) \/ HoldUnknown(w)
    \/ FinishResume(w) \/ Pause(w) \/ FinishCancel(w) \/ SweepFinish(w)

\* A worker goes on unless it crashes: every call of the wallet is aborted after
\* five seconds.  The expiry jobs are scheduled for ever, too, and what they and
\* the recovery loop can do again and again is not lost every time.  A cancelled
\* payment is not among it: recovery cancels only what is IDLE.
P2pFairness ==
    /\ P2pRecovery
    /\ \A w \in Workers : WF_p2pVars(Proceeds(w))
    /\ WF_p2pVars(Due) /\ WF_p2pVars(WalletExpires)
    /\ SF_p2pVars(\E w \in Workers : ClaimHold(w))
    /\ SF_p2pVars(\E w \in Workers : pc[w] = "hold" /\ Answer(w))
    /\ SF_p2pVars(\E w \in Workers : HoldDone(w) \/ HoldRefused(w))
    /\ SF_p2pVars(\E w \in Workers : ClaimCancel(w, TRUE) /\ pay.workflow = "IDLE")
    /\ SF_p2pVars(\E w \in Workers : pc[w] \in {"cancel", "cancelExpired"} /\ (Answer(w) \/ NoAnswer(w)))
    /\ SF_p2pVars(\E w \in Workers : FinishCancel(w))
    /\ SF_p2pVars(\E w \in Workers : SweepPick(w))
    /\ SF_p2pVars(\E w \in Workers : pc[w] = "sweep" /\ Answer(w))
    /\ SF_p2pVars(\E w \in Workers : SweepFinish(w))

P2pFairSpec == P2pSpec /\ P2pFairness

\* A confirmed payment does not stay in doubt, whatever was lost on the way.
ConfirmedEnds ==
    P2pRecovery => (pay.workflow \in {"CONFIRMING", "CAPTURE_CALLING"} ~> pay.status # "PENDING")

\* docs/k16-design.md: every workflow step is picked up again after a crash.
EveryPaymentEnds == pay.status = "PENDING" ~> pay.status # "PENDING"
=============================================================================
