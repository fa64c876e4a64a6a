------------------------------- MODULE Topup -------------------------------
(***************************************************************************)
(* One top-up paid at VNPay: the request, the IPN callbacks VNPay repeats  *)
(* until they are acknowledged, the credit of the wallet under the         *)
(* top-up's code, the recovery job and the job that expires requests older *)
(* than thirty minutes.                                                    *)
(*                                                                         *)
(* Callbacks and recovery passes run concurrently.  PROCESSING with a      *)
(* fresh updatedAt is the lease of whoever is crediting.                   *)
(***************************************************************************)
EXTENDS Naturals

CONSTANTS
    Ipns,       \* callbacks being handled
    Passes      \* passes of the recovery job

ASSUME IpnsAreNoPasses == Ipns \cap Passes = {}

VARIABLES
    topup,      \* the row of TopupRequest: its status, whether updatedAt is
                \* within the lease and whether it is older than thirty minutes
    vnpay,      \* what became of the payment at VNPay
    credited,   \* the wallet has the credit under the top-up's code
    unclaimed,  \* a credit request whose caller no longer waits for it
    handling,   \* what each callback and pass is about to do
    acks        \* the codes VNPay has been answered with

topupVars == <<topup, vnpay, credited, unclaimed, handling, acks>>

Closed == {"APPROVED", "FAILED", "EXPIRED"}

TopupTypeOK ==
    /\ topup \in [status : {"NONE", "PENDING", "PROCESSING"} \cup Closed, fresh : BOOLEAN, old : BOOLEAN]
    /\ vnpay \in {"open", "paid", "unpaid"}
    /\ credited \in BOOLEAN /\ unclaimed \in BOOLEAN
    /\ handling \in [Ipns \cup Passes ->
          {"idle", "fail", "claim", "reread", "credit", "applied", "replayed"}]
    /\ acks \in SUBSET {"00", "02", "97", "99"}

TopupInit ==
    /\ topup = [status |-> "NONE", fresh |-> FALSE, old |-> FALSE]
    /\ vnpay = "open"
    /\ credited = FALSE
    /\ unclaimed = FALSE
    /\ handling = [h \in Ipns \cup Passes |-> "idle"]
    /\ acks = {}

Serve(h, from, to) == handling[h] = from /\ handling' = [handling EXCEPT ![h] = to]

\* A callback ends with an answer to VNPay; a pass of the job answers nobody.
EndWith(h, from, code) ==
    /\ Serve(h, from, "idle")
    /\ acks' = IF h \in Ipns THEN acks \cup {code} ELSE acks

CreateTopup ==
    /\ topup.status = "NONE"
    /\ topup' = [topup EXCEPT !.status = "PENDING"]
    /\ UNCHANGED <<vnpay, credited, unclaimed, handling, acks>>

VnpayDecides ==
    /\ topup.status # "NONE" /\ vnpay = "open"
    /\ vnpay' \in {"paid", "unpaid"}
    /\ UNCHANGED <<topup, credited, unclaimed, handling, acks>>

-----------------------------------------------------------------------------
(* handleVnpayIpn                                                          *)

\* The signature, the amount and the row's status are checked.  A callback
\* tells of a payment ("00"/"00"), of none, or leaves out the status of the
\* transaction, which is then neither.
Ipn(h) ==
    /\ h \in Ipns /\ vnpay # "open"
    /\ \/ topup.status \in Closed /\ EndWith(h, "idle", "02")
       \/ topup.status \notin Closed /\ vnpay = "paid" /\ EndWith(h, "idle", "99")
       \/ /\ topup.status \notin Closed
          /\ Serve(h, "idle", IF vnpay = "paid" THEN "claim" ELSE "fail")
          /\ UNCHANGED acks
    /\ UNCHANGED <<topup, vnpay, credited, unclaimed>>

\* A callback whose signature or amount does not check is told so and has no
\* other effect.
IpnRefused(h) ==
    /\ h \in Ipns /\ topup.status # "NONE"
    /\ EndWith(h, "idle", "97")
    /\ UNCHANGED <<topup, vnpay, credited, unclaimed>>

\* Not paid is written over PENDING only.
NotPaid(h) ==
    /\ IF topup.status = "PENDING"
       THEN topup' = [topup EXCEPT !.status = "FAILED"] /\ EndWith(h, "fail", "00")
       ELSE UNCHANGED topup /\ EndWith(h, "fail", "02")
    /\ UNCHANGED <<vnpay, credited, unclaimed>>

ClaimForProcessing(h) ==
    /\ IF topup.status = "PENDING" \/ (topup.status = "PROCESSING" /\ ~topup.fresh)
       THEN /\ Serve(h, "claim", "credit")
            /\ topup' = [topup EXCEPT !.status = "PROCESSING", !.fresh = TRUE]
       ELSE Serve(h, "claim", "reread") /\ UNCHANGED topup
    /\ UNCHANGED <<vnpay, credited, unclaimed, acks>>

NotClaimed(h) ==
    /\ EndWith(h, "reread", IF topup.status \in Closed THEN "02" ELSE "99")
    /\ UNCHANGED <<topup, vnpay, credited, unclaimed>>

-----------------------------------------------------------------------------
(* creditAndApprove                                                        *)

\* The wallet credits once under the code; a repetition is answered as a replay.
TopupCredit(h) ==
    /\ Serve(h, "credit", IF credited THEN "replayed" ELSE "applied")
    /\ credited' = TRUE
    /\ UNCHANGED <<topup, vnpay, unclaimed, acks>>

\* Refused, unanswered or unreadable: the row stays PROCESSING, VNPay is told
\* to come again, and the request may still be executed.
CreditUnknown(h) ==
    /\ EndWith(h, "credit", "99")
    /\ unclaimed' \in {unclaimed, TRUE}
    /\ UNCHANGED <<topup, vnpay, credited>>

CreditExecuted ==
    /\ unclaimed
    /\ unclaimed' = FALSE
    /\ credited' = TRUE
    /\ UNCHANGED <<topup, vnpay, handling, acks>>

Approve(h) ==
    /\ \E reply \in {"applied", "replayed"} :
          EndWith(h, reply, IF topup.status = "PROCESSING" \/ reply = "replayed" THEN "00" ELSE "99")
    /\ topup' = IF topup.status = "PROCESSING" THEN [topup EXCEPT !.status = "APPROVED"] ELSE topup
    /\ UNCHANGED <<vnpay, credited, unclaimed>>

\* Mutant: the job takes over rows that were never claimed only.
RecoverStuckTopups_Pending(h) ==
    /\ h \in Passes
    /\ topup.status = "PENDING" /\ vnpay = "paid"
    /\ Serve(h, "idle", "credit")
    /\ topup' = [topup EXCEPT !.status = "PROCESSING", !.fresh = TRUE]
    /\ UNCHANGED <<vnpay, credited, unclaimed, acks>>

RecoverStuckTopups(h) ==
    /\ h \in Passes
    /\ topup.status = "PROCESSING" /\ ~topup.fresh
    /\ Serve(h, "idle", "credit")
    /\ topup' = [topup EXCEPT !.fresh = TRUE]
    /\ UNCHANGED <<vnpay, credited, unclaimed, acks>>

HandlerDies(h) ==
    /\ handling[h] # "idle"
    /\ handling' = [handling EXCEPT ![h] = "idle"]
    /\ unclaimed' \in IF handling[h] = "credit" THEN {unclaimed, TRUE} ELSE {unclaimed}
    /\ UNCHANGED <<topup, vnpay, credited, acks>>

-----------------------------------------------------------------------------
(* Time and the expiry job                                                 *)

ProcessingGoesStale ==
    /\ topup.fresh
    /\ topup' = [topup EXCEPT !.fresh = FALSE]
    /\ UNCHANGED <<vnpay, credited, unclaimed, handling, acks>>

ThirtyMinutesPass ==
    /\ topup.status = "PENDING" /\ ~topup.old
    /\ topup' = [topup EXCEPT !.old = TRUE]
    /\ UNCHANGED <<vnpay, credited, unclaimed, handling, acks>>

\* Mutant: the job expires whatever is old and not closed.
ExpireTopups_Open ==
    /\ topup.status \notin Closed /\ topup.old
    /\ topup' = [topup EXCEPT !.status = "EXPIRED"]
    /\ UNCHANGED <<vnpay, credited, unclaimed, handling, acks>>

ExpireTopups ==
    /\ topup.status = "PENDING" /\ topup.old
    /\ topup' = [topup EXCEPT !.status = "EXPIRED"]
    /\ UNCHANGED <<vnpay, credited, unclaimed, handling, acks>>

-----------------------------------------------------------------------------
TopupNext ==
    \/ CreateTopup \/ VnpayDecides \/ CreditExecuted
    \/ ProcessingGoesStale \/ ThirtyMinutesPass \/ ExpireTopups
    \/ \E h \in Ipns \cup Passes :
          \/ Ipn(h) \/ IpnRefused(h) \/ NotPaid(h) \/ ClaimForProcessing(h) \/ NotClaimed(h)
          \/ TopupCredit(h) \/ CreditUnknown(h) \/ Approve(h)
          \/ RecoverStuckTopups(h) \/ HandlerDies(h)

TopupSpec == TopupInit /\ [][TopupNext]_topupVars

\* The recovery job runs every minute for ever, and neither the wallet's
\* answer nor the pass itself is lost every time.
TopupFairness ==
    /\ WF_topupVars(ProcessingGoesStale)
    /\ SF_topupVars(\E h \in Passes : RecoverStuckTopups(h))
    /\ SF_topupVars(\E h \in Passes : TopupCredit(h))
    /\ SF_topupVars(\E h \in Passes : Approve(h))

-----------------------------------------------------------------------------
\* Whatever the order of callbacks, recovery passes and late executions: the
\* wallet is credited only for a payment VNPay reported, never for a top-up
\* that is closed otherwise, and an approved one has been credited.  VNPay
\* stops repeating a callback that it got "00" or "02" for: the wallet has the
\* money then, or the expiry job had closed the request first.
CreditedMeansPaid ==
    /\ credited \/ unclaimed => vnpay = "paid" /\ topup.status \in {"PROCESSING", "APPROVED"}
    /\ topup.status = "APPROVED" => credited
    /\ acks \cap {"00", "02"} # {} /\ vnpay = "paid" => credited \/ topup.status = "EXPIRED"

\* Once a callback has claimed a paid top-up it is approved in the end, though
\* VNPay never calls again.
TopupIsApproved == TopupFairness => (topup.status = "PROCESSING" ~> topup.status = "APPROVED")
=============================================================================
