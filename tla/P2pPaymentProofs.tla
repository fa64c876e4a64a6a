------------------------- MODULE P2pPaymentProofs -------------------------
(***************************************************************************)
(* For any number of workers, P2pPayment keeps PaymentContract and tells   *)
(* of a success exactly once.                                              *)
(*                                                                         *)
(* The argument: from the moment a capture can still happen (a worker is   *)
(* about to capture, or a capture request is still on its way, or one has  *)
(* been executed) the payment stays confirmed, so it can leave PENDING     *)
(* only on evidence, an answer, of what became of the hold.  Cancelling    *)
(* workers have taken the payment out of that path for good.               *)
(***************************************************************************)
EXTENDS P2pPayment, TLAPS

PayRow == [status : Status, workflow : Workflow, idem : {"PROCESSING", "COMPLETED", "FAILED"}]

Terminal == {"FAILED", "EXPIRED", "CANCELLED"}
Freed == {"RELEASED", "EXPIRED"}

\* A worker of resume that may capture, or has tried to.
Resuming == {"lookup", "capture", "freeExpired", "freeFailed", "paid", "expired", "failed",
             "pause"}
Cancelling == {"cancel", "cancelExpired", "cancelled", "cancelledExpired"}

MayCapture == "capture" \in late \/ hold = "CAPTURED" \/ \E w \in Workers : pc[w] \in Resuming

\* Confirmed: in doubt, paid, or ended by the release of the hold.
Committed ==
    /\ pay.idem = "COMPLETED"
    /\ \/ pay.status = "PENDING" /\ pay.workflow \in {"CONFIRMING", "CAPTURE_CALLING"}
       \/ pay.status = "SUCCESS" /\ hold = "CAPTURED"
       \/ pay.status \in Terminal /\ hold \in Freed

CaptureIsCommitted == MayCapture => Committed

\* What a worker that is about to write has learnt of the hold is still so.
EvidenceHolds ==
    \A w \in Workers :
        /\ pc[w] = "paid" => hold = "CAPTURED"
        /\ pc[w] \in {"expired", "failed", "swept"} => hold \in Freed

\* Nobody confirms a payment once somebody cancels it.
CancelExcludesCapture ==
    (\E w \in Workers : pc[w] \in Cancelling) =>
        /\ ~MayCapture
        /\ \/ pay.status = "PENDING" /\ pay.workflow = "CANCEL_CALLING"
           \/ pay.status \in Terminal

\* A final payment has no workflow left; a confirmed one has made its hold.
WorkflowFits ==
    /\ pay.status # "PENDING" => pay.workflow = "IDLE"
    /\ pay.status = "SUCCESS" => hold = "CAPTURED"
    /\ pay.workflow \in {"CONFIRMING", "CAPTURE_CALLING"} => pay.idem = "COMPLETED"
    /\ pay.idem = "FAILED" => pay.status \in Terminal

\* Nothing has been told of an open payment.
SilentWhileOpen ==
    pay.status \in {"NONE", "PENDING"} =>
        events.succeeded = 0 /\ events.failed = 0 /\ events.expired = 0

\* The inductive invariant.
P2pInv ==
    /\ P2pTypeOK
    /\ CaptureIsCommitted
    /\ EvidenceHolds
    /\ CancelExcludesCapture
    /\ WorkflowFits
    /\ SilentWhileOpen
    /\ SuccessHeardOnce

\* What any step may do to the hold and to the outcome: money that has moved
\* stays moved, an end stays an end, and not both at once.
StepShape ==
    /\ hold = "CAPTURED" => hold' = "CAPTURED"
    /\ pay.status = "SUCCESS" => pay'.status = "SUCCESS"
    /\ pay.status \in Terminal => pay'.status \in Terminal
    /\ pay' = pay \/ hold' = hold

-----------------------------------------------------------------------------
USE DEF P2pInv, P2pTypeOK, PayRow, Status, Workflow, HoldStatus, Calling, Deciding, Ops,
        CaptureIsCommitted, MayCapture, Committed, EvidenceHolds, CancelExcludesCapture,
        WorkflowFits, SilentWhileOpen, SuccessHeardOnce, Resuming, Cancelling, Terminal,
        Freed, StepShape

\* What finish writes.
LEMMA FinishWrites ==
    ASSUME P2pTypeOK, NEW status \in {"SUCCESS", "FAILED", "EXPIRED", "CANCELLED"}, Finish(status)
    PROVE  /\ pay' \in PayRow
           /\ pay'.status = status /\ pay'.workflow = "IDLE" /\ pay'.idem = pay.idem
           /\ events' \in [succeeded : Nat, failed : Nat, expired : Nat]
           /\ status = "SUCCESS" => /\ events'.succeeded = events.succeeded + 1
                                    /\ events'.failed = events.failed
                                    /\ events'.expired = events.expired
           /\ status # "SUCCESS" => events'.succeeded = events.succeeded
<1>1. pay' = [pay EXCEPT !.status = status, !.workflow = "IDLE"]
  BY Zenon DEF Finish
<1>2. pay' \in PayRow /\ pay'.status = status /\ pay'.workflow = "IDLE" /\ pay'.idem = pay.idem
  BY <1>1
<1>3. events' = CASE status = "SUCCESS" -> [events EXCEPT !.succeeded = @ + 1]
                  [] status = "EXPIRED" -> [events EXCEPT !.expired = @ + 1]
                  [] OTHER -> [events EXCEPT !.failed = @ + 1]
  BY Zenon DEF Finish
<1>4. CASE status = "SUCCESS"
  <2>1. events' = [events EXCEPT !.succeeded = @ + 1]
    BY <1>3, <1>4
  <2> QED BY <1>2, <1>4, <2>1
<1>5. CASE status = "EXPIRED"
  <2>1. events' = [events EXCEPT !.expired = @ + 1]
    BY <1>3, <1>5
  <2> QED BY <1>2, <1>5, <2>1
<1>6. CASE status \in {"FAILED", "CANCELLED"}
  <2>1. events' = [events EXCEPT !.failed = @ + 1]
    BY <1>3, <1>6
  <2> QED BY <1>2, <1>6, <2>1
<1> QED BY <1>4, <1>5, <1>6

-----------------------------------------------------------------------------
(* The calls: only these and the late requests change the hold             *)

LEMMA StepAnswer == ASSUME NEW w \in Workers, P2pInv, Answer(w) PROVE P2pInv' /\ StepShape
  BY SMTT(60) DEF Answer, After, Op, Replies, Wallet, WalletHold, WalletCapture, WalletRelease

LEMMA StepNoAnswer == ASSUME NEW w \in Workers, P2pInv, NoAnswer(w) PROVE P2pInv' /\ StepShape
  BY SMTT(60) DEF NoAnswer, Abandons, After, Op

LEMMA StepCrash == ASSUME NEW w \in Workers, P2pInv, Crash(w) PROVE P2pInv' /\ StepShape
  BY SMTT(60) DEF Crash, Abandons, Op

LEMMA StepLateRequest == ASSUME P2pInv, LateRequest PROVE P2pInv' /\ StepShape
  BY SMTT(60) DEF LateRequest, Replies, Wallet, WalletHold, WalletCapture, WalletRelease

LEMMA StepWalletExpires == ASSUME P2pInv, WalletExpires PROVE P2pInv' /\ StepShape
  BY SMTT(60) DEF WalletExpires

-----------------------------------------------------------------------------
(* Checkout and completeHold                                               *)

LEMMA StepCheckout == ASSUME P2pInv, Checkout PROVE P2pInv' /\ StepShape
<1>1. /\ pay.status = "NONE"
      /\ pay' = [pay EXCEPT !.status = "PENDING", !.workflow = "HOLDING"]
      /\ UNCHANGED <<leased, hold, due, pc, late, events>>
  BY Zenon DEF Checkout
<1>2. pay' \in PayRow /\ pay'.status = "PENDING" /\ pay'.workflow = "HOLDING" /\ pay'.idem = pay.idem
  BY <1>1
<1> QED BY <1>1, <1>2

LEMMA StepClaimHold == ASSUME NEW w \in Workers, P2pInv, ClaimHold(w) PROVE P2pInv' /\ StepShape
  BY SMTT(60) DEF ClaimHold, Goto

LEMMA StepHoldDone == ASSUME NEW w \in Workers, P2pInv, HoldDone(w) PROVE P2pInv' /\ StepShape
<1>1. /\ pc[w] = "held" /\ pc' = [pc EXCEPT ![w] = "idle"]
      /\ UNCHANGED <<hold, due, late, events>>
  BY Zenon DEF HoldDone, Goto
<1>2. CASE pay.workflow = "HOLD_CALLING"
  <2>1. pay' = [pay EXCEPT !.workflow = "IDLE", !.idem = "COMPLETED"] /\ leased' = FALSE
    BY <1>2, Zenon DEF HoldDone, HoldWrites
  <2>2. pay' \in PayRow /\ pay'.status = pay.status /\ pay'.workflow = "IDLE" /\ pay'.idem = "COMPLETED"
    BY <2>1
  <2> QED BY ZenonT(60), <1>1, <1>2, <2>1, <2>2
<1>3. CASE pay.workflow # "HOLD_CALLING"
  <2>1. UNCHANGED <<pay, leased>>
    BY <1>3, Zenon DEF HoldDone, HoldWrites
  <2> QED BY <1>1, <2>1
<1> QED BY <1>2, <1>3

LEMMA StepHoldRefused == ASSUME NEW w \in Workers, P2pInv, HoldRefused(w) PROVE P2pInv' /\ StepShape
<1>1. /\ pc[w] = "refused" /\ pc' = [pc EXCEPT ![w] = "idle"]
      /\ UNCHANGED <<hold, due, late, events>>
  BY Zenon DEF HoldRefused, Goto
<1>2. CASE pay.workflow = "HOLD_CALLING"
  <2>1. /\ pay' = [status |-> "FAILED", workflow |-> "IDLE", idem |-> "FAILED"]
        /\ leased' = FALSE
    BY <1>2, Zenon DEF HoldRefused, HoldWrites
  <2> QED BY <1>1, <1>2, <2>1
<1>3. CASE pay.workflow # "HOLD_CALLING"
  <2>1. UNCHANGED <<pay, leased>>
    BY <1>3, Zenon DEF HoldRefused, HoldWrites
  <2> QED BY <1>1, <2>1
<1> QED BY <1>2, <1>3

LEMMA StepHoldUnknown == ASSUME NEW w \in Workers, P2pInv, HoldUnknown(w) PROVE P2pInv' /\ StepShape
<1>1. /\ pc[w] = "holdUnknown" /\ pc' = [pc EXCEPT ![w] = "idle"]
      /\ UNCHANGED <<pay, hold, due, late, events>>
      /\ leased' = FALSE \/ leased' = leased
  BY Zenon DEF HoldUnknown, HoldWrites, Goto
<1>2. ~(pc[w] \in Resuming) /\ ~(pc'[w] \in Resuming) /\ ~(pc'[w] \in Cancelling)
  BY <1>1
<1>3. \A v \in Workers \ {w} : pc'[v] = pc[v]
  BY <1>1
<1>4. P2pTypeOK' /\ WorkflowFits' /\ SilentWhileOpen' /\ SuccessHeardOnce' /\ StepShape
  BY ZenonT(60), <1>1
<1>5. CaptureIsCommitted'
  BY <1>1, <1>2, <1>3
<1>6. EvidenceHolds' /\ CancelExcludesCapture'
  BY <1>1, <1>2, <1>3
<1> QED BY <1>4, <1>5, <1>6, Zenon

-----------------------------------------------------------------------------
(* Confirm and resume                                                      *)

LEMMA StepConfirm == ASSUME P2pInv, Confirm PROVE P2pInv' /\ StepShape
  BY SMTT(60) DEF Confirm

LEMMA StepClaimCapture == ASSUME NEW w \in Workers, P2pInv, ClaimCapture(w) PROVE P2pInv' /\ StepShape
  BY SMTT(60) DEF ClaimCapture, Goto

LEMMA StepLookup == ASSUME NEW w \in Workers, P2pInv, Lookup(w) PROVE P2pInv' /\ StepShape
  BY SMTT(60) DEF Lookup, Goto

LEMMA StepFinishResume == ASSUME NEW w \in Workers, P2pInv, FinishResume(w) PROVE P2pInv' /\ StepShape
<1>1. PICK outcome \in {"paid", "expired", "failed"} :
        /\ Goto(w, outcome, "idle")
        /\ IF StillCapturing(outcome)
           THEN /\ Finish(CASE outcome = "paid" -> "SUCCESS"
                            [] outcome = "expired" -> "EXPIRED"
                            [] outcome = "failed" -> "FAILED")
                /\ leased' = FALSE
           ELSE UNCHANGED <<pay, leased, events>>
  BY Zenon DEF FinishResume
<1>2. /\ pc[w] = outcome /\ pc' = [pc EXCEPT ![w] = "idle"]
      /\ UNCHANGED <<hold, due, late>>
  BY <1>1, Zenon DEF FinishResume, Goto
<1>3. CASE StillCapturing(outcome)
  <2>1. pay.status = "PENDING" /\ pay.workflow \in {"CONFIRMING", "CAPTURE_CALLING"}
    BY <1>3 DEF StillCapturing
  <2>2. CASE outcome = "paid"
    <3>1. Finish("SUCCESS") /\ leased' = FALSE
      BY <1>1, <1>3, <2>2
    <3>2. hold = "CAPTURED" /\ Committed /\ \A v \in Workers : pc[v] \notin Cancelling
      BY <1>2, <2>2, <2>1
    <3>3. /\ events.succeeded = 0 /\ events.failed = 0 /\ events.expired = 0
      BY <2>1
    <3>4. /\ pay' \in PayRow
          /\ pay'.status = "SUCCESS" /\ pay'.workflow = "IDLE" /\ pay'.idem = "COMPLETED"
          /\ events' \in [succeeded : Nat, failed : Nat, expired : Nat]
          /\ events'.succeeded = 1 /\ events'.failed = 0 /\ events'.expired = 0
      BY <3>1, <3>2, <3>3, FinishWrites
    <3>5. P2pTypeOK'
      BY <1>2, <2>2, <3>1, <3>4
    <3>6. SilentWhileOpen' /\ SuccessHeardOnce'
      BY <3>4
    <3>7. WorkflowFits'
      BY <1>2, <3>2, <3>4
    <3>8. CaptureIsCommitted' /\ EvidenceHolds' /\ CancelExcludesCapture'
      BY <1>2, <3>2, <3>4
    <3>9. StepShape
      BY <1>2, <2>1, <3>4
    <3> QED BY <3>5, <3>6, <3>7, <3>8, <3>9
  <2>3. CASE outcome = "expired"
    <3>1. Finish("EXPIRED") /\ leased' = FALSE
      BY <1>1, <1>3, <2>3
    <3> QED BY ZenonT(60), <1>2, <2>1, <2>3, <3>1, FinishWrites
  <2>4. CASE outcome = "failed"
    <3>1. Finish("FAILED") /\ leased' = FALSE
      BY <1>1, <1>3, <2>4
    <3> QED BY ZenonT(60), <1>2, <2>1, <2>4, <3>1, FinishWrites
  <2> QED BY <2>2, <2>3, <2>4
<1>4. CASE ~StillCapturing(outcome)
  <2>1. UNCHANGED <<pay, leased, events>>
    BY <1>1, <1>4, Zenon
  <2> QED BY <1>2, <2>1
<1> QED BY <1>3, <1>4

LEMMA StepPause == ASSUME NEW w \in Workers, P2pInv, Pause(w) PROVE P2pInv' /\ StepShape
  BY SMTT(60) DEF Pause, Goto

-----------------------------------------------------------------------------
(* Cancel, the expiry job and the clock                                    *)

LEMMA StepClaimCancel ==
    ASSUME NEW w \in Workers, NEW expired \in BOOLEAN, P2pInv, ClaimCancel(w, expired)
    PROVE  P2pInv' /\ StepShape
  BY SMTT(60) DEF ClaimCancel, Goto

LEMMA StepFinishCancel == ASSUME NEW w \in Workers, P2pInv, FinishCancel(w) PROVE P2pInv' /\ StepShape
<1>1. PICK status \in {"CANCELLED", "EXPIRED"} :
        /\ pc[w] \in {"cancelled", "cancelledExpired"} /\ pc' = [pc EXCEPT ![w] = "idle"]
        /\ Finish(status)
  BY Zenon DEF FinishCancel, Goto
<1>2. UNCHANGED <<leased, hold, due, late>>
  BY Zenon DEF FinishCancel
<1>3. ~MayCapture /\ pay.status # "SUCCESS" /\ pay.status # "NONE"
  BY <1>1
<1> QED BY <1>1, <1>2, <1>3, FinishWrites

LEMMA StepSweepPick == ASSUME NEW w \in Workers, P2pInv, SweepPick(w) PROVE P2pInv' /\ StepShape
  BY SMTT(60) DEF SweepPick, Goto

LEMMA StepSweepFinish == ASSUME NEW w \in Workers, P2pInv, SweepFinish(w) PROVE P2pInv' /\ StepShape
<1>1. /\ pc[w] = "swept" /\ pc' = [pc EXCEPT ![w] = "idle"]
      /\ UNCHANGED <<leased, hold, due, late>>
  BY Zenon DEF SweepFinish, Goto
<1>2. CASE pay.status = "PENDING"
  <2>1. Finish("EXPIRED")
    BY <1>2, Zenon DEF SweepFinish
  <2> QED BY <1>1, <1>2, <2>1, FinishWrites
<1>3. CASE pay.status # "PENDING"
  <2>1. UNCHANGED <<pay, events>>
    BY <1>3, Zenon DEF SweepFinish
  <2> QED BY <1>1, <2>1
<1> QED BY <1>2, <1>3

LEMMA StepDue == ASSUME P2pInv, Due PROVE P2pInv' /\ StepShape
<1>1. due' = TRUE /\ UNCHANGED <<pay, leased, hold, pc, late, events>>
  BY Zenon DEF Due
<1> QED BY <1>1

LEMMA StepLeaseLapses == ASSUME P2pInv, LeaseLapses PROVE P2pInv' /\ StepShape
<1>1. leased' = FALSE /\ UNCHANGED <<pay, hold, due, pc, late, events>>
  BY Zenon DEF LeaseLapses
<1> QED BY ZenonT(60), <1>1

-----------------------------------------------------------------------------
LEMMA InitEstablishes == P2pInit => P2pInv
<1> SUFFICES ASSUME P2pInit PROVE P2pInv
  OBVIOUS
<1>1. /\ pay = [status |-> "NONE", workflow |-> "IDLE", idem |-> "PROCESSING"]
      /\ leased = FALSE /\ due = FALSE /\ hold = "NONE" /\ late = {}
      /\ pc = [w \in Workers |-> "idle"]
      /\ events = [succeeded |-> 0, failed |-> 0, expired |-> 0]
  BY Zenon DEF P2pInit
<1>2. \A w \in Workers : pc[w] = "idle"
  BY <1>1
<1>3. ~MayCapture /\ \A w \in Workers : pc[w] \notin Cancelling
  BY <1>1, <1>2
<1>4. P2pTypeOK
  BY <1>1
<1> QED BY <1>1, <1>2, <1>3, <1>4

LEMMA StutterPreserves == ASSUME P2pInv, UNCHANGED p2pVars PROVE P2pInv' /\ StepShape
<1>1. /\ pay' = pay /\ leased' = leased /\ hold' = hold /\ due' = due
      /\ pc' = pc /\ late' = late /\ events' = events
  BY Zenon DEF p2pVars
<1> QED BY <1>1

HIDE DEF P2pInv, P2pTypeOK, CaptureIsCommitted, MayCapture, Committed, EvidenceHolds,
         CancelExcludesCapture, WorkflowFits, SilentWhileOpen, SuccessHeardOnce, StepShape

LEMMA NextPreserves == P2pInv /\ [P2pNext]_p2pVars => P2pInv' /\ StepShape
<1> SUFFICES ASSUME P2pInv, [P2pNext]_p2pVars PROVE P2pInv' /\ StepShape
  OBVIOUS
<1>1. CASE Checkout \/ Confirm \/ Due \/ LeaseLapses \/ WalletExpires \/ LateRequest
  BY <1>1, StepCheckout, StepConfirm, StepDue, StepLeaseLapses, StepWalletExpires, StepLateRequest
<1>2. ASSUME NEW w \in Workers, WorkerStep(w) PROVE P2pInv' /\ StepShape
  BY <1>2, Zenon, StepAnswer, StepNoAnswer, StepCrash, StepClaimHold, StepHoldDone, StepHoldRefused,
     StepHoldUnknown, StepClaimCapture, StepLookup, StepFinishResume, StepPause,
     StepClaimCancel, StepFinishCancel, StepSweepPick, StepSweepFinish DEF WorkerStep
<1>3. CASE UNCHANGED p2pVars
  BY <1>3, StutterPreserves
<1> QED BY <1>1, <1>2, <1>3 DEF P2pNext

LEMMA Invariance == P2pSpec => []P2pInv
<1> QED BY InitEstablishes, NextPreserves, PTL DEF P2pSpec

\* Every variable keeps to the values the schema and the workers allow.
THEOREM P2pTypeCorrect == P2pSpec => []P2pTypeOK
<1>1. P2pInv => P2pTypeOK
  BY DEF P2pInv
<1> QED BY Invariance, <1>1, PTL

\* With any number of workers racing, crashing and repeating each other's
\* calls, payment.succeeded is written exactly when the payment succeeds, once,
\* and no other end is told of it.
THEOREM SuccessIsHeardOnce == P2pSpec => []SuccessHeardOnce
<1>1. P2pInv => SuccessHeardOnce
  BY DEF P2pInv
<1> QED BY Invariance, <1>1, PTL

\* The initial state is the contract's.
LEMMA InitRefines == P2pInit => Contract!Init
  BY DEF P2pInit, Contract!Init, Outcome

\* A step that has the shape above, between states of the invariant, moves the
\* money of an open payment, ends it rightly, or leaves the contract alone.
LEMMA StepRefines ==
    P2pInv /\ P2pInv' /\ StepShape => [Contract!Next]_Contract!vars
<1> SUFFICES ASSUME P2pInv, P2pInv', StepShape PROVE [Contract!Next]_Contract!vars
  OBVIOUS
<1>1. /\ pay.status = "SUCCESS" => hold = "CAPTURED"
      /\ pay'.status = "SUCCESS" => hold' = "CAPTURED"
      /\ pay.status \in Terminal => hold # "CAPTURED"
      /\ pay'.status \in Terminal => hold' # "CAPTURED"
      /\ pay.status \in Status /\ pay'.status \in Status
  BY DEF P2pInv, P2pTypeOK, PayRow, Status, WorkflowFits, CaptureIsCommitted, MayCapture,
         Committed, Terminal, Freed
<1>2. CASE hold' = "CAPTURED" /\ hold # "CAPTURED"
  <2>1. pay' = pay /\ pay.status \in {"NONE", "PENDING"}
    BY <1>1, <1>2 DEF StepShape, Status, Terminal
  <2> QED BY <1>2, <2>1 DEF Contract!Next, Contract!Move, Outcome
<1>3. CASE (hold' = "CAPTURED") = (hold = "CAPTURED")
  BY <1>1, <1>3 DEF StepShape, Status, Terminal, Contract!Next, Contract!Complete,
     Contract!Abandon, Contract!vars, Outcome
<1> QED BY <1>2, <1>3 DEF StepShape

\* The detailed protocol implements PaymentContract: it ends SUCCESS only with
\* the money moved, and unpaid only when the money never moves.
THEOREM KeepsPaymentContract == P2pSpec => KeepsContract
<1>1. P2pInv /\ [P2pNext]_p2pVars => [Contract!Next]_Contract!vars
  BY NextPreserves, StepRefines
<1> QED BY InitRefines, Invariance, <1>1, PTL DEF P2pSpec, KeepsContract, Contract!Spec
-----------------------------------------------------------------------------
(* The hold, between the payment and the wallet                            *)

\* Where a hold stands for HoldContract.
PhaseOf(s) == CASE s = "NONE" -> "none" [] s = "PENDING" -> "reserved"
                [] s = "CAPTURED" -> "settled" [] OTHER -> "freed"

WalletHolds == INSTANCE HoldContract WITH
    Keys <- {"hold"}, Amounts <- {1},
    phase <- [k \in {"hold"} |-> PhaseOf(hold)],
    amount <- [k \in {"hold"} |-> IF hold = "NONE" THEN 0 ELSE 1],
    out <- [k \in {"hold"} |-> IF hold = "CAPTURED" THEN 1 ELSE 0]

\* What a step may do to the hold.
HoldMoves == \/ hold' = hold
             \/ hold = "NONE" /\ hold' = "PENDING"
             \/ hold = "PENDING" /\ hold' \in {"CAPTURED", "RELEASED", "EXPIRED"}

LEMMA WalletMoves ==
  ASSUME NEW op, NEW reply, Wallet(op, reply) PROVE HoldMoves
BY DEF Wallet, WalletHold, WalletCapture, WalletRelease, HoldMoves

LEMMA StepMovesHold == ASSUME [P2pNext]_p2pVars PROVE HoldMoves
<1>1. CASE LateRequest BY <1>1, WalletMoves DEF LateRequest
<1>2. CASE WalletExpires BY <1>2 DEF WalletExpires, HoldMoves
<1>3. CASE Checkout \/ Confirm \/ Due \/ LeaseLapses \/ UNCHANGED p2pVars
  BY <1>3 DEF Checkout, Confirm, Due, LeaseLapses, p2pVars, HoldMoves
<1>4. ASSUME NEW w \in Workers, WorkerStep(w) PROVE HoldMoves
  <2>1. CASE Answer(w) BY <2>1, WalletMoves DEF Answer
  <2>2. CASE ~Answer(w)
    <3>1. hold' = hold
      BY <1>4, <2>2, Zenon DEF WorkerStep, NoAnswer, Crash, ClaimHold, HoldDone, HoldRefused,
         HoldUnknown, ClaimCapture, Lookup, FinishResume, Pause, ClaimCancel, FinishCancel,
         SweepPick, SweepFinish
    <3> QED BY <3>1 DEF HoldMoves
  <2> QED BY <2>1, <2>2
<1> QED BY <1>1, <1>2, <1>3, <1>4 DEF P2pNext

\* Whatever retries, late requests, sweeps and crashes do, the payment's hold goes
\* the way HoldContract promises, which WalletLedger implements: the payment's
\* account of the wallet and the wallet meet in one contract.
THEOREM HoldIsAsPromised == P2pSpec => WalletHolds!Spec
<1>1. P2pInit => WalletHolds!Init
  BY DEF P2pInit, WalletHolds!Init, PhaseOf
<1>2. [P2pNext]_p2pVars => [WalletHolds!Next]_WalletHolds!vars
  <2> SUFFICES ASSUME [P2pNext]_p2pVars PROVE [WalletHolds!Next]_WalletHolds!vars
    OBVIOUS
  <2>1. CASE hold' = hold
    BY <2>1 DEF WalletHolds!vars, PhaseOf
  <2>2. CASE hold = "NONE" /\ hold' = "PENDING"
    <3>1. WalletHolds!Reserve("hold") BY <2>2 DEF WalletHolds!Reserve, PhaseOf
    <3> QED BY <3>1 DEF WalletHolds!Next
  <2>3. CASE hold = "PENDING" /\ hold' \in {"RELEASED", "EXPIRED"}
    <3>1. WalletHolds!Free("hold") BY <2>3 DEF WalletHolds!Free, PhaseOf
    <3> QED BY <3>1 DEF WalletHolds!Next
  <2>4. CASE hold = "PENDING" /\ hold' = "CAPTURED"
    <3>1. WalletHolds!Settle("hold") BY <2>4 DEF WalletHolds!Settle, PhaseOf
    <3> QED BY <3>1 DEF WalletHolds!Next
  <2> QED BY <2>1, <2>2, <2>3, <2>4, StepMovesHold DEF HoldMoves
<1> QED BY <1>1, <1>2, PTL DEF P2pSpec, WalletHolds!Spec
=============================================================================
