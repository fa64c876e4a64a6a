----------------------------- MODULE RefundSaga -----------------------------
(***************************************************************************)
(* The refund of one successful payment: the request that moves it to      *)
(* REFUNDING and writes payment.refund_requested to the outbox, and the    *)
(* refund workers that claim that row under a lease, ask wallet-service to *)
(* reverse the capture, and write what came of it.                         *)
(*                                                                         *)
(* A worker claims up to ten rows at once and works them off one by one,   *)
(* so the lease may lapse while it works; a cron starts a new worker every *)
(* two seconds whether or not the last one has finished.                   *)
(***************************************************************************)
EXTENDS Naturals

CONSTANTS
    Workers,    \* runs of drainRefundOutbox
    NoToken      \* the lock token of an unclaimed row

ASSUME TokenIsNoWorker == NoToken \notin Workers

VARIABLES
    status,    \* the payment's status
    tried,     \* refundAttempts > 0
    ask,       \* the outbox row payment.refund_requested
    returned,  \* the capture has been reversed in the wallet's ledger
    late,      \* a refund request whose caller no longer waits for it
    pc,        \* what each worker is about to do
    told       \* the events written about the outcome

refundVars == <<status, tried, ask, returned, late, pc, told>>

RefundTypeOK ==
    /\ status \in {"SUCCESS", "REFUNDING", "REFUNDED", "REFUND_FAILED"}
    /\ tried \in BOOLEAN
    /\ ask \in [status : {"NONE", "PENDING", "PROCESSING", "SENT", "FAILED"},
                lock : Workers \cup {NoToken}, leased : BOOLEAN]
    /\ returned \in BOOLEAN /\ late \in BOOLEAN
    /\ pc \in [Workers -> {"idle", "read", "lookup", "call", "done", "refused", "unsure"}]
    /\ told \in SUBSET {"payment.refunded", "payment.refund_failed"}

RefundInit ==
    /\ status = "SUCCESS"
    /\ tried = FALSE
    /\ ask = [status |-> "NONE", lock |-> NoToken, leased |-> FALSE]
    /\ returned = FALSE
    /\ late = FALSE
    /\ pc = [w \in Workers |-> "idle"]
    /\ told = {}

Goto(w, from, to) == pc[w] = from /\ pc' = [pc EXCEPT ![w] = to]

\* PaymentService.refund: one transaction, under a row lock.
Request ==
    /\ status = "SUCCESS"
    /\ status' = "REFUNDING"
    /\ ask' = [status |-> "PENDING", lock |-> NoToken, leased |-> FALSE]
    /\ UNCHANGED <<tried, returned, late, pc, told>>

-----------------------------------------------------------------------------
(* The claim                                                               *)

ClaimAsk_PendingOnly(w) ==
    /\ Goto(w, "idle", "read")
    /\ ask.status = "PENDING"
    /\ ask' = [status |-> "PROCESSING", lock |-> w, leased |-> TRUE]
    /\ UNCHANGED <<status, tried, returned, late, told>>

ClaimAsk(w) ==
    /\ Goto(w, "idle", "read")
    /\ \/ ask.status = "PENDING"
       \/ ask.status = "PROCESSING" /\ ~ask.leased
    /\ ask' = [status |-> "PROCESSING", lock |-> w, leased |-> TRUE]
    /\ UNCHANGED <<status, tried, returned, late, told>>

AskLeaseLapses ==
    /\ ask.leased
    /\ ask' = [ask EXCEPT !.leased = FALSE]
    /\ UNCHANGED <<status, tried, returned, late, pc, told>>

Mine(w) == ask.status = "PROCESSING" /\ ask.lock = w

\* The row is given up only under the token it was claimed with; the payment
\* is written under no condition.
CloseAsk(w, as) ==
    IF ask.lock = w
    THEN ask' = [status |-> as, lock |-> NoToken, leased |-> FALSE]
    ELSE UNCHANGED ask

-----------------------------------------------------------------------------
(* processRefundEvent                                                      *)

ReadEvent(w) ==
    \/ ~Mine(w) /\ Goto(w, "read", "idle") /\ UNCHANGED ask
    \/ Mine(w) /\ status = "REFUNDED" /\ Goto(w, "read", "idle") /\ CloseAsk(w, "SENT")
    \/ Mine(w) /\ status = "REFUND_FAILED" /\ Goto(w, "read", "idle") /\ CloseAsk(w, "FAILED")
    \/ /\ Mine(w) /\ status \in {"SUCCESS", "REFUNDING"}
       /\ Goto(w, "read", IF tried THEN "lookup" ELSE "call")
       /\ UNCHANGED ask

Read(w) == ReadEvent(w) /\ UNCHANGED <<status, tried, returned, late, told>>

\* A lookup that fails counts as one that finds nothing.
LookupReply(w) ==
    \/ returned /\ Goto(w, "lookup", "done")
    \/ Goto(w, "lookup", "call")

Lookup(w) == LookupReply(w) /\ UNCHANGED <<status, tried, ask, returned, late, told>>

\* wallet-service's refundCapture under refund_<payment>: a replay answers as
\* the first call did; the receiver may have spent the money.
Reverse(reply) ==
    \/ reply = "ok" /\ returned' = TRUE
    \/ reply = "refused" /\ ~returned /\ UNCHANGED returned

After_TimeoutIsSuccess(reply) == IF reply = "refused" THEN "refused" ELSE "done"

After(reply) ==
    CASE reply = "ok" -> "done" [] reply = "refused" -> "refused" [] reply = "none" -> "unsure"

Answer(w) ==
    /\ \E reply \in {"ok", "refused"} : Reverse(reply) /\ Goto(w, "call", After(reply))
    /\ UNCHANGED <<status, tried, ask, late, told>>

\* A timeout, a transport failure or a 5xx: the request may still be executed.
NoAnswer(w) ==
    /\ Goto(w, "call", After("none"))
    /\ late' \in {late, TRUE}
    /\ UNCHANGED <<status, tried, ask, returned, told>>

LateRequest ==
    /\ late
    /\ late' = FALSE
    /\ \E reply \in {"ok", "refused"} : Reverse(reply)
    /\ UNCHANGED <<status, tried, ask, pc, told>>

Refunded(w) ==
    /\ Goto(w, "done", "idle")
    /\ status' = "REFUNDED"
    /\ told' = told \cup {"payment.refunded"}
    /\ CloseAsk(w, "SENT")
    /\ UNCHANGED <<tried, returned, late>>

RefundFailed(w) ==
    /\ Goto(w, "refused", "idle")
    /\ status' = "REFUND_FAILED"
    /\ told' = told \cup {"payment.refund_failed"}
    /\ CloseAsk(w, "FAILED")
    /\ UNCHANGED <<tried, returned, late>>

Retry_GivesUp(w) ==
    /\ Goto(w, "unsure", "idle")
    /\ tried' = TRUE
    /\ CloseAsk(w, "FAILED")
    /\ UNCHANGED <<status, returned, late, told>>

Retry(w) ==
    /\ Goto(w, "unsure", "idle")
    /\ tried' = TRUE
    /\ CloseAsk(w, "PENDING")
    /\ UNCHANGED <<status, returned, late, told>>

\* The worker's process dies; a request it has sent may still be executed.
Crash(w) ==
    /\ pc[w] # "idle"
    /\ pc' = [pc EXCEPT ![w] = "idle"]
    /\ late' \in (IF pc[w] = "call" THEN {late, TRUE} ELSE {late})
    /\ UNCHANGED <<status, tried, ask, returned, told>>

-----------------------------------------------------------------------------
RefundNext ==
    \/ Request \/ AskLeaseLapses \/ LateRequest
    \/ \E w \in Workers :
          \/ ClaimAsk(w) \/ Read(w) \/ Lookup(w) \/ Answer(w) \/ NoAnswer(w)
          \/ Refunded(w) \/ RefundFailed(w) \/ Retry(w) \/ Crash(w)

RefundSpec == RefundInit /\ [][RefundNext]_refundVars

\* The cron starts workers for ever; a step some worker can take again and
\* again is not lost every time to a crash or a timeout, nor does the lease
\* lapse every time before the row's turn comes.
RefundFairness ==
    /\ WF_refundVars(AskLeaseLapses)
    /\ SF_refundVars(\E w \in Workers : ClaimAsk(w))
    /\ SF_refundVars(\E w \in Workers : Mine(w) /\ Read(w))
    /\ SF_refundVars(\E w \in Workers : Lookup(w))
    /\ SF_refundVars(\E w \in Workers : Answer(w))
    /\ SF_refundVars(\E w \in Workers : Refunded(w) \/ RefundFailed(w))
    /\ WF_refundVars(\E w \in Workers : Retry(w))

-----------------------------------------------------------------------------
\* Whoever reads REFUNDED, payment.refunded or a SENT request can rely on the
\* wallet having reversed the capture, whatever the wallet's answers and
\* however many workers held the row.
RefundedMeansReturned ==
    status = "REFUNDED" \/ "payment.refunded" \in told \/ ask.status = "SENT" => returned

\* A refund is never forgotten: while the payment is REFUNDING its request is
\* there to be claimed and no outcome has been announced.
RefundingIsOwed ==
    status = "REFUNDING" => ask.status \in {"PENDING", "PROCESSING"} /\ told = {}

\* Under fair workers a refund that was asked for is decided, and its request
\* does not stay claimed.
RefundIsDecided ==
    RefundFairness => (status = "REFUNDING" ~> ask.status \in {"SENT", "FAILED"})

\* docs/k13-refund-saga.md: REFUNDED is a final state.
RefundedIsFinal == [][status = "REFUNDED" => status' = "REFUNDED"]_refundVars
=============================================================================
