-------------------------- MODULE ReconciliationDesk --------------------------
(***************************************************************************)
(* admin-service: adjusting one anomaly of the ledger, and running a       *)
(* reconciliation.  Both write what they intend before they ask the wallet *)
(* and what came of it afterwards, in an audit row and in a row of their   *)
(* own, none of it in one transaction with the wallet.                     *)
(*                                                                         *)
(* The wallet's side of an adjustment is not in the repository; as the     *)
(* client's comments have it, it moves money once per reference, and a 4xx *)
(* means that it has not.                                                  *)
(***************************************************************************)

CONSTANTS
    Admins,   \* administrators with a request for the anomaly
    Runs      \* requests for a reconciliation, all of one mode

VARIABLES
    adjustment,   \* AnomalyAdjustment.status; NONE without a row
    desk,         \* what each administrator's request is about to do
    ask,          \* its call of the wallet
    note,         \* the outcome in its audit row
    adjusted,     \* the wallet has moved the money
    runlog,       \* ReconciliationRunLog.status of each request
    young,        \* runs that began less than a minute ago
    runner,       \* what each run is about to do
    report,       \* runs for which the wallet has written a report
    runNote       \* the outcome in the run's audit row

adjustVars == <<adjustment, desk, ask, note, adjusted>>
runVars == <<runlog, young, runner, report, runNote>>
deskVars == <<adjustVars, runVars>>

Outcomes3 == {"SUCCEEDED", "REJECTED", "UNKNOWN"}

DeskTypeOK ==
    /\ adjustment \in {"NONE", "PENDING", "SUCCEEDED", "FAILED", "UNKNOWN"}
    /\ desk \in [Admins -> ({"idle", "created", "reclaimed", "call", "wait"} \X {"NONE"})
                           \cup ({"release"} \X {"created", "reclaimed"}) \cup ({"record", "finish"} \X Outcomes3)]
    /\ ask \in [Admins -> {"none", "sent", "done", "refused", "late"}]
    /\ note \in [Admins -> {"NONE", "PENDING"} \cup Outcomes3]
    /\ adjusted \in BOOLEAN
    /\ runlog \in [Runs -> {"NONE", "RUNNING", "SUCCEEDED", "FAILED", "UNKNOWN"}]
    /\ young \in SUBSET Runs /\ report \in SUBSET Runs
    /\ runner \in [Runs -> ({"new", "audit", "call", "end"} \X {"NONE"}) \cup ({"log", "relog", "finish"} \X Outcomes3)]
    /\ runNote \in [Runs -> {"NONE", "PENDING"} \cup Outcomes3]

DeskInit ==
    /\ adjustment = "NONE"
    /\ desk = [a \in Admins |-> <<"idle", "NONE">>] /\ ask = [a \in Admins |-> "none"]
    /\ note = [a \in Admins |-> "NONE"] /\ adjusted = FALSE
    /\ runlog = [r \in Runs |-> "NONE"] /\ runner = [r \in Runs |-> <<"new", "NONE">>]
    /\ young = {} /\ report = {}
    /\ runNote = [r \in Runs |-> "NONE"]

-----------------------------------------------------------------------------
(* adjustAnomaly                                                           *)

To(a, do, as) == desk' = [desk EXCEPT ![a] = <<do, as>>]

\* claimAdjustment: the row is made, or taken over when it is FAILED, by one
\* request only; any other is refused.
ClaimAdjustment(a) ==
    /\ desk[a][1] = "idle"
    /\ \/ adjustment = "NONE" /\ To(a, "created", "NONE")
       \/ adjustment = "FAILED" /\ To(a, "reclaimed", "NONE")
    /\ adjustment' = "PENDING"
    /\ note' = [note EXCEPT ![a] = "NONE"]
    /\ UNCHANGED <<ask, adjusted>>

CreatePendingAudit(a) ==
    /\ desk[a][1] \in {"created", "reclaimed"}
    /\ \/ To(a, "call", "NONE") /\ note' = [note EXCEPT ![a] = "PENDING"]
       \/ To(a, "release", desk[a][1]) /\ UNCHANGED note
    /\ UNCHANGED <<adjustment, ask, adjusted>>

\* An error of the database leaves the claim as it is.
ReleaseClaim(a) ==
    /\ desk[a][1] = "release"
    /\ adjustment' \in {adjustment, IF desk[a][2] = "created" THEN "NONE" ELSE "FAILED"}
    /\ To(a, "idle", "NONE")
    /\ UNCHANGED <<ask, note, adjusted>>

AskWallet(a) ==
    /\ desk[a][1] = "call"
    /\ To(a, "wait", "NONE")
    /\ ask' = [ask EXCEPT ![a] = "sent"]
    /\ UNCHANGED <<adjustment, note, adjusted>>

\* The wallet, also when nobody waits for the answer any more.
WalletAdjusts(a) ==
    /\ ask[a] \in {"sent", "late"}
    /\ adjusted' = TRUE
    /\ ask' = [ask EXCEPT ![a] = IF ask[a] = "sent" THEN "done" ELSE "none"]
    /\ UNCHANGED <<adjustment, desk, note>>

WalletRejects(a) ==
    /\ ask[a] \in {"sent", "late"} /\ ~adjusted
    /\ ask' = [ask EXCEPT ![a] = IF ask[a] = "sent" THEN "refused" ELSE "none"]
    /\ UNCHANGED <<adjustment, desk, note, adjusted>>

\* Nobody waits for it any more.
Forgotten(a) == ask' = [ask EXCEPT ![a] = IF @ \in {"sent", "late"} THEN "late" ELSE "none"]

\* Mutant: a call without an answer counts as rejected.
WalletSays_TimeoutIsRejection(a) ==
    /\ desk[a][1] = "wait"
    /\ \/ ask[a] = "done" /\ To(a, "record", "SUCCEEDED") /\ Forgotten(a)
       \/ To(a, "record", "REJECTED") /\ Forgotten(a)
    /\ UNCHANGED <<adjustment, note, adjusted>>

\* A 4xx is definite; a 5xx, a time-out, a lost connection or an answer that
\* cannot be read leave the outcome open.
WalletSays(a) ==
    /\ desk[a][1] = "wait"
    /\ \/ ask[a] = "done" /\ To(a, "record", "SUCCEEDED") /\ Forgotten(a)
       \/ ask[a] = "refused" /\ To(a, "record", "REJECTED") /\ Forgotten(a)
       \/ To(a, "record", "UNKNOWN") /\ Forgotten(a)
    /\ UNCHANGED <<adjustment, note, adjusted>>

StatusFor(outcome) == IF outcome = "REJECTED" THEN "FAILED" ELSE outcome

\* A success that cannot be written is tried as UNKNOWN; any other error of the
\* database ends the request with the row PENDING.
RecordOutcome(a) ==
    /\ \E as \in Outcomes3 :
          /\ desk[a] = <<"record", as>>
          /\ \/ adjustment' = StatusFor(as) /\ To(a, "finish", as)
             \/ as = "SUCCEEDED" /\ To(a, "record", "UNKNOWN") /\ UNCHANGED adjustment
             \/ as # "SUCCEEDED" /\ To(a, "idle", "NONE") /\ UNCHANGED adjustment
    /\ UNCHANGED <<ask, note, adjusted>>

\* finishAudit never fails: the row may stay PENDING.
FinishAudit(a) ==
    /\ \E as \in Outcomes3 :
          /\ desk[a] = <<"finish", as>>
          /\ note' \in {note, [note EXCEPT ![a] = as]}
    /\ To(a, "idle", "NONE")
    /\ UNCHANGED <<adjustment, ask, adjusted>>

DeskCrash(a) ==
    /\ desk[a][1] # "idle"
    /\ To(a, "idle", "NONE") /\ Forgotten(a)
    /\ UNCHANGED <<adjustment, note, adjusted>>

AdjustStep ==
    \E a \in Admins :
        \/ ClaimAdjustment(a) \/ CreatePendingAudit(a) \/ ReleaseClaim(a) \/ AskWallet(a)
        \/ WalletAdjusts(a) \/ WalletRejects(a) \/ WalletSays(a)
        \/ RecordOutcome(a) \/ FinishAudit(a) \/ DeskCrash(a)

-----------------------------------------------------------------------------
(* runReconciliation                                                       *)

RunnerTo(r, do, as) == runner' = [runner EXCEPT ![r] = <<do, as>>]

\* Rows that have been RUNNING for a minute are somebody's who crashed, or is
\* about to be answered.
AgedOut == {q \in Runs : runlog[q] = "RUNNING" /\ q \notin young}

\* claimRun, the partial unique index on RUNNING included.
ClaimRun(r) ==
    /\ runner[r][1] = "new"
    /\ \A q \in Runs : runlog[q] = "RUNNING" => q \notin young
    /\ runlog' = [q \in Runs |-> IF q = r THEN "RUNNING" ELSE IF q \in AgedOut THEN "UNKNOWN" ELSE runlog[q]]
    /\ young' = young \cup {r}
    /\ RunnerTo(r, "audit", "NONE")
    /\ UNCHANGED <<report, runNote>>

MinutePasses(r) ==
    /\ r \in young
    /\ young' = young \ {r}
    /\ UNCHANGED <<runlog, runner, report, runNote>>

AuditRun(r) ==
    /\ runner[r][1] = "audit"
    /\ \/ RunnerTo(r, "call", "NONE") /\ runNote' = [runNote EXCEPT ![r] = "PENDING"]
       \/ RunnerTo(r, "relog", "UNKNOWN") /\ UNCHANGED runNote
    /\ UNCHANGED <<runlog, young, report>>

\* The wallet's report, its refusal, or no answer, whatever was written.
WalletReports(r) ==
    /\ runner[r][1] = "call"
    /\ \/ report' = report \cup {r} /\ RunnerTo(r, "log", "SUCCEEDED")
       \/ report' \in {report, report \cup {r}} /\ RunnerTo(r, "finish", "UNKNOWN")
       \/ UNCHANGED report /\ RunnerTo(r, "finish", "REJECTED")
    /\ UNCHANGED <<runlog, young, runNote>>

LogReport(r) ==
    /\ runner[r] = <<"log", "SUCCEEDED">>
    /\ \/ runlog' = [runlog EXCEPT ![r] = "SUCCEEDED"] /\ RunnerTo(r, "finish", "SUCCEEDED")
       \/ UNCHANGED runlog /\ RunnerTo(r, "finish", "UNKNOWN")
    /\ UNCHANGED <<young, report, runNote>>

FinishRunAudit(r) ==
    /\ \E as \in Outcomes3 :
          /\ runner[r] = <<"finish", as>>
          /\ runNote' \in {runNote, [runNote EXCEPT ![r] = as]}
          /\ IF as = "SUCCEEDED" THEN RunnerTo(r, "end", "NONE") ELSE RunnerTo(r, "relog", as)
    /\ UNCHANGED <<runlog, young, report>>

\* Written whatever the row says by now; an error is swallowed.
LogFailure(r) ==
    /\ \E as \in Outcomes3 :
          /\ runner[r] = <<"relog", as>>
          /\ runlog' \in {runlog, [runlog EXCEPT ![r] = StatusFor(as)]}
    /\ RunnerTo(r, "end", "NONE")
    /\ UNCHANGED <<young, report, runNote>>

RunCrash(r) ==
    /\ runner[r][1] \notin {"new", "end"}
    /\ RunnerTo(r, "end", "NONE")
    /\ UNCHANGED <<runlog, young, report, runNote>>

RunStep ==
    \E r \in Runs :
        \/ ClaimRun(r) \/ MinutePasses(r) \/ AuditRun(r) \/ WalletReports(r)
        \/ LogReport(r) \/ FinishRunAudit(r) \/ LogFailure(r) \/ RunCrash(r)

DeskNext == (AdjustStep /\ UNCHANGED runVars) \/ (RunStep /\ UNCHANGED adjustVars)

DeskSpec == DeskInit /\ [][DeskNext]_deskVars

-----------------------------------------------------------------------------
\* Whenever the service lets an administrator try an anomaly again, no money
\* has moved for it and no call is under way that still could move some.
RetryIsSafe ==
    adjustment \in {"NONE", "FAILED"} =>
        ~adjusted /\ \A a \in Admins : ask[a] \notin {"sent", "late"}

\* What the rows say of an outcome is what happened, through crashes, lost
\* writes and a run that overtakes one taken for dead: a success is one at the
\* wallet and in both rows, a rejection left no trace there; and the wallet is
\* never asked without an audit row.
RowsTellTheTruth ==
    /\ RetryIsSafe
    /\ adjustment = "SUCCEEDED" => adjusted
    /\ \A a \in Admins :
          /\ note[a] = "SUCCEEDED" => adjustment = "SUCCEEDED"
          /\ ask[a] \in {"sent", "done", "refused"} => note[a] # "NONE"
    /\ \A r \in Runs :
          /\ runlog[r] = "SUCCEEDED" => r \in report
          /\ runNote[r] = "SUCCEEDED" => runlog[r] = "SUCCEEDED"
          /\ runlog[r] = "FAILED" \/ runNote[r] = "REJECTED" => r \notin report
          /\ r \in report => runNote[r] # "NONE"
=============================================================================
