-------------------------- MODULE BackOfficeProofs --------------------------
(***************************************************************************)
(* RowsTellTheTruth for any number of administrators and runs.  It is not  *)
(* inductive: a claim keeps every other request away from the wallet for   *)
(* as long as its outcome is open, and what is about to be written must    *)
(* follow from what the wallet has answered.  DocumentsAreKept for any     *)
(* number of submissions and clean-ups: whoever works on an object holds   *)
(* its lock.  And the components of MCEvents side by side.                 *)
(***************************************************************************)
EXTENDS MCEvents, EventProofs

-----------------------------------------------------------------------------
(* One anomaly                                                             *)

Claiming == {"created", "reclaimed", "call", "release"}
Asking == {"sent", "late"}

Working(a) == desk[a][1] \in Claiming \cup {"wait", "record"}

\* No money has moved, and no call that could move some is under way.
Clean == ~adjusted /\ \A a \in Admins : ask[a] \notin Asking

\* What an administrator's request is at fits the row and the wallet.
DeskFits(a) ==
    /\ Working(a) => adjustment = "PENDING"
    /\ desk[a][1] \in Claiming => Clean
    /\ ask[a] \in {"sent", "done", "refused"} <=> desk[a][1] = "wait"
    /\ desk[a][1] = "wait" =>
          /\ ask[a] # "done" => ~adjusted
          /\ ask[a] = "done" => adjusted
          /\ \A b \in Admins \ {a} : ask[b] \notin Asking
    /\ desk[a] = <<"record", "SUCCEEDED">> => adjusted
    /\ desk[a] = <<"record", "REJECTED">> => Clean
    /\ desk[a] = <<"finish", "SUCCEEDED">> => adjustment = "SUCCEEDED"
    /\ desk[a][1] \in {"call", "wait"} => note[a] # "NONE"
    /\ note[a] = "SUCCEEDED" => adjustment = "SUCCEEDED"

OneWorks == \A a, b \in Admins : Working(a) /\ Working(b) => a = b

AdjustInv ==
    /\ adjustment \in {"NONE", "FAILED"} => Clean
    /\ adjustment = "SUCCEEDED" => adjusted
    /\ OneWorks
    /\ \A a \in Admins : DeskFits(a)

-----------------------------------------------------------------------------
(* The runs                                                                *)

\* What a run is about to write fits the wallet and what was written before.
RunFits(r) ==
    /\ runlog[r] = "SUCCEEDED" => r \in report /\ runner[r] \in {<<"finish", "SUCCEEDED">>, <<"end", "NONE">>}
    /\ runlog[r] = "FAILED" => r \notin report /\ runner[r] = <<"end", "NONE">>
    /\ runNote[r] = "SUCCEEDED" => runlog[r] = "SUCCEEDED" /\ runner[r] = <<"end", "NONE">>
    /\ runNote[r] = "REJECTED" => r \notin report /\ runner[r][1] \in {"relog", "end"}
    /\ runner[r][1] \in {"new", "audit", "call"} => r \notin report
    /\ runner[r][1] = "call" => runNote[r] # "NONE"
    /\ r \in report => runNote[r] # "NONE"
    /\ runner[r] = <<"log", "SUCCEEDED">> => r \in report
    /\ runner[r] = <<"finish", "SUCCEEDED">> => runlog[r] = "SUCCEEDED"
    /\ runner[r] \in {<<"finish", "REJECTED">>, <<"relog", "REJECTED">>} => r \notin report
    /\ runner[r] # <<"relog", "SUCCEEDED">>

RunInv == \A r \in Runs : RunFits(r)

DeskInv == DeskTypeOK /\ AdjustInv /\ RunInv

LEMMA DeskInvImplies == DeskInv => RowsTellTheTruth
  <1> SUFFICES ASSUME DeskInv PROVE RowsTellTheTruth
    OBVIOUS
  <1>1. RetryIsSafe BY DEF DeskInv, AdjustInv, RetryIsSafe, Clean, Asking
  <1>2. ASSUME NEW a \in Admins, ask[a] \in {"sent", "done", "refused"} PROVE note[a] # "NONE"
    BY <1>2 DEF DeskInv, AdjustInv, DeskFits
  <1>3. \A a \in Admins : note[a] = "SUCCEEDED" => adjustment = "SUCCEEDED"
    BY DEF DeskInv, AdjustInv, DeskFits
  <1>4. ASSUME NEW r \in Runs
        PROVE  /\ runlog[r] = "SUCCEEDED" => r \in report
               /\ runNote[r] = "SUCCEEDED" => runlog[r] = "SUCCEEDED"
               /\ runlog[r] = "FAILED" \/ runNote[r] = "REJECTED" => r \notin report
               /\ r \in report => runNote[r] # "NONE"
    BY DEF DeskInv, RunInv, RunFits
  <1>5. adjustment = "SUCCEEDED" => adjusted BY DEF DeskInv, AdjustInv
  <1> QED BY <1>1, <1>2, <1>3, <1>4, <1>5 DEF RowsTellTheTruth

LEMMA DeskInvInit == DeskInit => DeskInv
  <1> SUFFICES ASSUME DeskInit PROVE DeskInv
    OBVIOUS
  <1>1. \A a \in Admins : desk[a] = <<"idle", "NONE">> /\ desk[a][1] = "idle" /\ ask[a] = "none" /\ note[a] = "NONE"
    BY DEF DeskInit
  <1>2. \A r \in Runs : runner[r] = <<"new", "NONE">> /\ runner[r][1] = "new" /\ runlog[r] = "NONE" /\ runNote[r] = "NONE"
    BY DEF DeskInit
  <1>3. DeskTypeOK BY DEF DeskInit, DeskTypeOK
  <1>4. AdjustInv
    BY <1>1 DEF DeskInit, AdjustInv, OneWorks, DeskFits, Working, Clean, Claiming, Asking
  <1>5. RunInv BY <1>2 DEF DeskInit, RunInv, RunFits
  <1> QED BY <1>3, <1>4, <1>5 DEF DeskInv

DeskSteps == ({"idle", "created", "reclaimed", "call", "wait"} \X {"NONE"})
             \cup ({"release"} \X {"created", "reclaimed"}) \cup ({"record", "finish"} \X Outcomes3)

LEMMA SameOutcome ==
  ASSUME NEW do, NEW as, NEW does, NEW told, <<do, as>> = <<does, told>>
  PROVE  do = does /\ as = told
  OBVIOUS

LEMMA AdminMoved ==
  ASSUME DeskTypeOK, NEW a \in Admins, NEW do, NEW as, <<do, as>> \in DeskSteps, To(a, do, as)
  PROVE  /\ desk' \in [Admins -> DeskSteps]
         /\ desk'[a] = <<do, as>> /\ desk'[a][1] = do
         /\ \A b \in Admins \ {a} : desk'[b] = desk[b]
  BY DEF DeskTypeOK, To, DeskSteps

RunSteps == ({"new", "audit", "call", "end"} \X {"NONE"}) \cup ({"log", "relog", "finish"} \X Outcomes3)

LEMMA RunnerMoved ==
  ASSUME DeskTypeOK, NEW r \in Runs, NEW do, NEW as, <<do, as>> \in RunSteps, RunnerTo(r, do, as)
  PROVE  /\ runner' \in [Runs -> RunSteps]
         /\ runner'[r] = <<do, as>> /\ runner'[r][1] = do
         /\ \A q \in Runs \ {r} : runner'[q] = runner[q]
  BY DEF DeskTypeOK, RunnerTo, RunSteps

AdjustTypes ==
    /\ adjustment \in {"NONE", "PENDING", "SUCCEEDED", "FAILED", "UNKNOWN"}
    /\ desk \in [Admins -> DeskSteps]
    /\ ask \in [Admins -> {"none", "sent", "done", "refused", "late"}]
    /\ note \in [Admins -> {"NONE", "PENDING"} \cup Outcomes3]
    /\ adjusted \in BOOLEAN

RunTypes ==
    /\ runlog \in [Runs -> {"NONE", "RUNNING", "SUCCEEDED", "FAILED", "UNKNOWN"}]
    /\ young \in SUBSET Runs /\ report \in SUBSET Runs
    /\ runner \in [Runs -> RunSteps]
    /\ runNote \in [Runs -> {"NONE", "PENDING"} \cup Outcomes3]

LEMMA TwoTypes == DeskTypeOK <=> AdjustTypes /\ RunTypes
  BY DEF DeskTypeOK, AdjustTypes, RunTypes, DeskSteps, RunSteps

\* Before the wallet has answered nothing can have been written of the outcome.
LEMMA Unwritten ==
  ASSUME RunInv, NEW r \in Runs, runner[r][1] \in {"new", "audit", "call"}
  PROVE  /\ runlog[r] \notin {"SUCCEEDED", "FAILED"} /\ runNote[r] \notin {"SUCCEEDED", "REJECTED"}
         /\ r \notin report
  BY DEF RunInv, RunFits

\* A run's own step changes what is known of that run only.
LEMMA RunKeeps == DeskInv /\ RunStep => RunTypes' /\ RunInv'
  <1> SUFFICES ASSUME DeskInv, NEW r \in Runs,
                      \/ ClaimRun(r) \/ MinutePasses(r) \/ AuditRun(r) \/ WalletReports(r)
                      \/ LogReport(r) \/ FinishRunAudit(r) \/ LogFailure(r) \/ RunCrash(r)
               PROVE  RunTypes' /\ RunInv'
    BY DEF RunStep
  <1>0. DeskTypeOK /\ RunTypes /\ RunInv BY TwoTypes DEF DeskInv
  <1>1. CASE ClaimRun(r)
    <2>1. RunnerTo(r, "audit", "NONE") /\ UNCHANGED <<report, runNote>> BY <1>1 DEF ClaimRun
    <2>2. <<"audit", "NONE">> \in RunSteps BY DEF RunSteps
    <2>3. /\ runner' \in [Runs -> RunSteps] /\ runner'[r] = <<"audit", "NONE">> /\ runner'[r][1] = "audit"
          /\ \A q \in Runs \ {r} : runner'[q] = runner[q]
      BY <1>0, <2>1, <2>2, RunnerMoved
    <2>4. /\ runlog' \in [Runs -> {"NONE", "RUNNING", "SUCCEEDED", "FAILED", "UNKNOWN"}]
          /\ runlog'[r] = "RUNNING"
          /\ \A q \in Runs \ {r} : runlog'[q] = runlog[q] \/ (runlog[q] = "RUNNING" /\ runlog'[q] = "UNKNOWN")
      BY <1>0, <1>1 DEF ClaimRun, AgedOut, RunTypes
    <2>5. RunTypes' BY <1>0, <1>1, <2>1, <2>3, <2>4 DEF ClaimRun, RunTypes
    <2>6. runner[r][1] = "new" BY <1>1 DEF ClaimRun
    <2>7. RunFits(r)' BY <1>0, <2>1, <2>3, <2>4, <2>6 DEF RunInv, RunFits
    <2>8. \A q \in Runs \ {r} : RunFits(q)' BY <1>0, <2>1, <2>3, <2>4 DEF RunInv, RunFits
    <2> QED BY <2>5, <2>7, <2>8 DEF RunInv
  <1>2. CASE MinutePasses(r)
    BY <1>0, <1>2 DEF MinutePasses, RunTypes, RunInv, RunFits
  <1>3. CASE AuditRun(r)
    <2>1. PICK do \in {"call", "relog"}, as \in {"NONE", "UNKNOWN"} :
            /\ RunnerTo(r, do, as) /\ <<do, as>> \in RunSteps
            /\ do = "relog" => as = "UNKNOWN"
            /\ IF do = "call" THEN runNote' = [runNote EXCEPT ![r] = "PENDING"] ELSE UNCHANGED runNote
      BY <1>3 DEF AuditRun, RunSteps, Outcomes3
    <2>2. UNCHANGED <<runlog, young, report>> /\ runner[r][1] = "audit" BY <1>3 DEF AuditRun
    <2>3. /\ runner' \in [Runs -> RunSteps] /\ runner'[r] = <<do, as>> /\ runner'[r][1] = do
          /\ \A q \in Runs \ {r} : runner'[q] = runner[q]
      BY <1>0, <2>1, RunnerMoved, ZenonT(30)
    <2>4. /\ runNote' \in [Runs -> {"NONE", "PENDING"} \cup Outcomes3]
          /\ runNote'[r] = IF do = "call" THEN "PENDING" ELSE runNote[r]
          /\ \A q \in Runs \ {r} : runNote'[q] = runNote[q]
      BY <1>0, <2>1 DEF RunTypes
    <2>5. RunTypes' BY <1>0, <2>2, <2>3, <2>4 DEF RunTypes
    <2>6. RunFits(r)'
      <3>1. /\ runlog[r] \notin {"SUCCEEDED", "FAILED"} /\ runNote[r] \notin {"SUCCEEDED", "REJECTED"}
            /\ r \notin report
        BY <1>0, <2>2, Unwritten
      <3>2. CASE do = "call" BY <2>1, <2>2, <2>3, <2>4, <3>1, <3>2 DEF RunFits
      <3>3. CASE do = "relog"
        <4>1. runner'[r] = <<"relog", "UNKNOWN">> /\ runner'[r][1] = "relog" BY <2>1, <2>3, <3>3
        <4> QED BY <2>2, <2>4, <3>1, <3>3, <4>1 DEF RunFits
      <3> QED BY <3>2, <3>3
    <2>7. \A q \in Runs \ {r} : RunFits(q)' BY <1>0, <2>2, <2>3, <2>4 DEF RunInv, RunFits
    <2> QED BY <2>5, <2>6, <2>7 DEF RunInv
  <1>4. CASE WalletReports(r)
    <2>1. PICK do \in {"log", "finish"}, as \in Outcomes3 :
            /\ RunnerTo(r, do, as)
            /\ report' \in {report, report \cup {r}}
            /\ do = "log" => as = "SUCCEEDED" /\ r \in report'
            /\ do = "finish" => as # "SUCCEEDED"
            /\ do = "finish" /\ as = "REJECTED" => report' = report
      BY <1>4 DEF WalletReports, Outcomes3
    <2>2. UNCHANGED <<runlog, young, runNote>> /\ runner[r][1] = "call" BY <1>4 DEF WalletReports
    <2>3. /\ runner' \in [Runs -> RunSteps] /\ runner'[r] = <<do, as>> /\ runner'[r][1] = do
          /\ \A q \in Runs \ {r} : runner'[q] = runner[q]
      <3>1. <<do, as>> \in RunSteps BY DEF RunSteps
      <3> QED BY <1>0, <2>1, <3>1, RunnerMoved, ZenonT(30)
    <2>4. RunTypes' BY <1>0, <2>1, <2>2, <2>3 DEF RunTypes
    <2>5. RunFits(r)'
      <3>1. /\ runlog[r] \notin {"SUCCEEDED", "FAILED"} /\ runNote[r] \notin {"SUCCEEDED", "REJECTED"}
            /\ r \notin report
        BY <1>0, <2>2, Unwritten
      <3>2. runNote[r] # "NONE" BY <1>0, <2>2 DEF RunInv, RunFits
      <3>3. CASE do = "log" BY <2>1, <2>2, <2>3, <3>1, <3>2, <3>3 DEF RunFits
      <3>4. CASE do = "finish"
        <4>1. as \in {"UNKNOWN", "REJECTED"} BY <2>1, <3>4 DEF Outcomes3
        <4>2. CASE as = "UNKNOWN"
          <5>1. runner'[r] = <<"finish", "UNKNOWN">> /\ runner'[r][1] = "finish" BY <2>3, <3>4, <4>2
          <5> QED BY <2>2, <3>1, <3>2, <5>1 DEF RunFits
        <4>3. CASE as = "REJECTED"
          <5>1. runner'[r] = <<"finish", "REJECTED">> /\ runner'[r][1] = "finish" BY <2>3, <3>4, <4>3
          <5>2. report' = report BY <2>1, <3>4, <4>3
          <5> QED BY <2>2, <3>1, <3>2, <5>1, <5>2 DEF RunFits
        <4> QED BY <4>1, <4>2, <4>3
      <3> QED BY <3>3, <3>4
    <2>6. \A q \in Runs \ {r} : RunFits(q)' BY <1>0, <2>1, <2>2, <2>3 DEF RunInv, RunFits
    <2> QED BY <2>4, <2>5, <2>6 DEF RunInv
  <1>5. CASE LogReport(r)
    <2>1. PICK as \in {"SUCCEEDED", "UNKNOWN"} :
            /\ RunnerTo(r, "finish", as) /\ <<"finish", as>> \in RunSteps
            /\ IF as = "SUCCEEDED" THEN runlog' = [runlog EXCEPT ![r] = "SUCCEEDED"] ELSE UNCHANGED runlog
      BY <1>5 DEF LogReport, RunSteps, Outcomes3
    <2>2. UNCHANGED <<young, report, runNote>> /\ runner[r] = <<"log", "SUCCEEDED">> BY <1>5 DEF LogReport
    <2>3. /\ runner' \in [Runs -> RunSteps] /\ runner'[r] = <<"finish", as>> /\ runner'[r][1] = "finish"
          /\ \A q \in Runs \ {r} : runner'[q] = runner[q]
      BY <1>0, <2>1, RunnerMoved, ZenonT(30)
    <2>4. /\ runlog' \in [Runs -> {"NONE", "RUNNING", "SUCCEEDED", "FAILED", "UNKNOWN"}]
          /\ runlog'[r] = IF as = "SUCCEEDED" THEN "SUCCEEDED" ELSE runlog[r]
          /\ \A q \in Runs \ {r} : runlog'[q] = runlog[q]
      BY <1>0, <2>1 DEF RunTypes
    <2>5. RunTypes' BY <1>0, <2>2, <2>3, <2>4 DEF RunTypes
    <2>6. RunFits(r)'
      <3>1. /\ runlog[r] \notin {"SUCCEEDED", "FAILED"} /\ runNote[r] \notin {"SUCCEEDED", "REJECTED", "NONE"}
            /\ r \in report
        BY <1>0, <2>2 DEF RunInv, RunFits
      <3>2. CASE as = "SUCCEEDED" BY <2>2, <2>3, <2>4, <3>1, <3>2 DEF RunFits
      <3>3. CASE as = "UNKNOWN" BY <2>2, <2>3, <2>4, <3>1, <3>3 DEF RunFits
      <3> QED BY <3>2, <3>3
    <2>7. \A q \in Runs \ {r} : RunFits(q)' BY <1>0, <2>2, <2>3, <2>4 DEF RunInv, RunFits
    <2> QED BY <2>5, <2>6, <2>7 DEF RunInv
  <1>6. CASE FinishRunAudit(r)
    <2>1. PICK as \in Outcomes3 :
            /\ runner[r] = <<"finish", as>>
            /\ runNote' \in {runNote, [runNote EXCEPT ![r] = as]}
            /\ IF as = "SUCCEEDED" THEN RunnerTo(r, "end", "NONE") ELSE RunnerTo(r, "relog", as)
      BY <1>6 DEF FinishRunAudit
    <2>2. UNCHANGED <<runlog, young, report>> BY <1>6 DEF FinishRunAudit
    <2>3. PICK to \in RunSteps :
            /\ runner' \in [Runs -> RunSteps] /\ runner'[r] = to
            /\ to = IF as = "SUCCEEDED" THEN <<"end", "NONE">> ELSE <<"relog", as>>
            /\ \A q \in Runs \ {r} : runner'[q] = runner[q]
      <3>1. <<"end", "NONE">> \in RunSteps /\ <<"relog", as>> \in RunSteps BY DEF RunSteps
      <3> QED BY <1>0, <2>1, <3>1, RunnerMoved, ZenonT(30)
    <2>4. /\ runNote' \in [Runs -> {"NONE", "PENDING"} \cup Outcomes3]
          /\ runNote'[r] \in {runNote[r], as}
          /\ \A q \in Runs \ {r} : runNote'[q] = runNote[q]
      BY <1>0, <2>1 DEF RunTypes
    <2>5. RunTypes' BY <1>0, <2>2, <2>3, <2>4 DEF RunTypes
    <2>6. RunFits(r)'
      <3>0. RunFits(r) BY <1>0 DEF RunInv
      <3>1. CASE as = "SUCCEEDED"
        <4>1. runner'[r] = <<"end", "NONE">> /\ runner'[r][1] = "end" BY <2>3, <3>1
        <4>2. runlog[r] = "SUCCEEDED" /\ r \in report /\ runNote[r] # "REJECTED"
          BY <2>1, <3>0, <3>1 DEF RunFits
        <4> QED BY <2>2, <2>4, <3>0, <3>1, <4>1, <4>2 DEF RunFits
      <3>2. CASE as = "UNKNOWN"
        <4>1. runner'[r] = <<"relog", "UNKNOWN">> /\ runner'[r][1] = "relog" BY <2>3, <3>2
        <4>2. runner[r] = <<"finish", "UNKNOWN">> /\ runner[r][1] = "finish" BY <2>1, <3>2
        <4>3. runlog[r] \notin {"SUCCEEDED", "FAILED"} /\ runNote[r] \notin {"SUCCEEDED", "REJECTED"}
          BY <3>0, <4>2 DEF RunFits
        <4> QED BY <2>2, <2>4, <3>0, <3>2, <4>1, <4>3 DEF RunFits
      <3>3. CASE as = "REJECTED"
        <4>1. runner'[r] = <<"relog", "REJECTED">> /\ runner'[r][1] = "relog" BY <2>3, <3>3
        <4>2. runner[r] = <<"finish", "REJECTED">> /\ runner[r][1] = "finish" BY <2>1, <3>3
        <4>3. /\ runlog[r] \notin {"SUCCEEDED", "FAILED"} /\ runNote[r] \notin {"SUCCEEDED", "REJECTED"}
              /\ r \notin report
          BY <3>0, <4>2 DEF RunFits
        <4> QED BY <2>2, <2>4, <3>0, <3>3, <4>1, <4>3 DEF RunFits
      <3> QED BY <3>1, <3>2, <3>3 DEF Outcomes3
    <2>7. \A q \in Runs \ {r} : RunFits(q)' BY <1>0, <2>2, <2>3, <2>4 DEF RunInv, RunFits
    <2> QED BY <2>5, <2>6, <2>7 DEF RunInv
  <1>7. CASE LogFailure(r)
    <2>1. PICK as \in Outcomes3 :
            runner[r] = <<"relog", as>> /\ runlog' \in {runlog, [runlog EXCEPT ![r] = StatusFor(as)]}
      BY <1>7 DEF LogFailure
    <2>2. UNCHANGED <<young, report, runNote>> /\ RunnerTo(r, "end", "NONE") BY <1>7 DEF LogFailure
    <2>3. /\ runner' \in [Runs -> RunSteps] /\ runner'[r] = <<"end", "NONE">> /\ runner'[r][1] = "end"
          /\ \A q \in Runs \ {r} : runner'[q] = runner[q]
      <3>1. <<"end", "NONE">> \in RunSteps BY DEF RunSteps
      <3> QED BY <1>0, <2>2, <3>1, RunnerMoved
    <2>4. as # "SUCCEEDED" BY <1>0, <2>1 DEF RunInv, RunFits
    <2>5. StatusFor(as) = IF as = "REJECTED" THEN "FAILED" ELSE "UNKNOWN" BY <2>4 DEF StatusFor, Outcomes3
    <2>6. /\ runlog' \in [Runs -> {"NONE", "RUNNING", "SUCCEEDED", "FAILED", "UNKNOWN"}]
          /\ runlog'[r] \in {runlog[r], StatusFor(as)}
          /\ \A q \in Runs \ {r} : runlog'[q] = runlog[q]
      BY <1>0, <2>1, <2>5 DEF RunTypes
    <2>7. RunTypes' BY <1>0, <2>2, <2>3, <2>6 DEF RunTypes
    <2>8. RunFits(r)'
      <3>0. RunFits(r) BY <1>0 DEF RunInv
      <3>1. runlog[r] \notin {"SUCCEEDED", "FAILED"} /\ runNote[r] # "SUCCEEDED"
        BY <2>1, <2>4, <3>0 DEF RunFits
      <3>2. as = "REJECTED" => r \notin report BY <2>1, <3>0 DEF RunFits
      <3>3. runlog'[r] # "SUCCEEDED" /\ (runlog'[r] = "FAILED" => r \notin report)
        BY <2>5, <2>6, <3>1, <3>2
      <3> QED BY <2>2, <2>3, <3>0, <3>1, <3>3 DEF RunFits
    <2>9. \A q \in Runs \ {r} : RunFits(q)' BY <1>0, <2>2, <2>3, <2>6 DEF RunInv, RunFits
    <2> QED BY <2>7, <2>8, <2>9 DEF RunInv
  <1>8. CASE RunCrash(r)
    <2>1. UNCHANGED <<runlog, young, report, runNote>> /\ RunnerTo(r, "end", "NONE") BY <1>8 DEF RunCrash
    <2>2. /\ runner' \in [Runs -> RunSteps] /\ runner'[r] = <<"end", "NONE">> /\ runner'[r][1] = "end"
          /\ \A q \in Runs \ {r} : runner'[q] = runner[q]
      <3>1. <<"end", "NONE">> \in RunSteps BY DEF RunSteps
      <3> QED BY <1>0, <2>1, <3>1, RunnerMoved
    <2>3. RunTypes' BY <1>0, <2>1, <2>2 DEF RunTypes
    <2>4. \A q \in Runs : RunFits(q)' BY <1>0, <2>1, <2>2 DEF RunInv, RunFits
    <2> QED BY <2>3, <2>4 DEF RunInv
  <1> QED BY <1>1, <1>2, <1>3, <1>4, <1>5, <1>6, <1>7, <1>8

LEMMA Alone ==
  ASSUME AdjustInv, NEW a \in Admins, Working(a)
  PROVE  adjustment = "PENDING" /\ \A b \in Admins \ {a} : ~Working(b)
  BY DEF AdjustInv, OneWorks, DeskFits

\* A request that says where it goes next, with the row, the wallet and the
\* calls of the others as they are.
LEMMA ClaimKeeps ==
  ASSUME DeskInv, NEW a \in Admins, ClaimAdjustment(a)
  PROVE  AdjustTypes' /\ AdjustInv'
  <1>0. DeskTypeOK /\ AdjustTypes /\ AdjustInv BY TwoTypes DEF DeskInv
  <1>1. PICK do \in {"created", "reclaimed"} : To(a, do, "NONE") BY DEF ClaimAdjustment
  <1>2. /\ adjustment \in {"NONE", "FAILED"} /\ adjustment' = "PENDING" /\ desk[a][1] = "idle"
        /\ note' = [note EXCEPT ![a] = "NONE"] /\ UNCHANGED <<ask, adjusted>>
    BY DEF ClaimAdjustment
  <1>3. /\ desk' \in [Admins -> DeskSteps] /\ desk'[a] = <<do, "NONE">> /\ desk'[a][1] = do
        /\ \A b \in Admins \ {a} : desk'[b] = desk[b]
    <2>1. <<do, "NONE">> \in DeskSteps BY DEF DeskSteps
    <2> QED BY <1>0, <1>1, <2>1, AdminMoved
  <1>4. /\ note' \in [Admins -> {"NONE", "PENDING"} \cup Outcomes3] /\ note'[a] = "NONE"
        /\ \A b \in Admins \ {a} : note'[b] = note[b]
    BY <1>0, <1>2 DEF AdjustTypes
  <1>5. AdjustTypes' BY <1>0, <1>2, <1>3, <1>4 DEF AdjustTypes
  <1>6. Clean /\ Clean' BY <1>0, <1>2 DEF AdjustInv, Clean
  <1>7. \A b \in Admins : ~Working(b) /\ note[b] # "SUCCEEDED" /\ desk[b] # <<"finish", "SUCCEEDED">>
    BY <1>0, <1>2 DEF AdjustInv, DeskFits
  <1>8. \A b \in Admins \ {a} : ~Working(b)' BY <1>3, <1>7 DEF Working
  <1>9. OneWorks' BY <1>8 DEF OneWorks
  <1>10. DeskFits(a)'
    <2>1. ask[a] \notin {"sent", "done", "refused"} BY <1>0, <1>2 DEF AdjustInv, DeskFits
    <2> QED BY <1>2, <1>3, <1>4, <1>6, <2>1 DEF DeskFits
  <1>11. \A b \in Admins \ {a} : DeskFits(b)'
    BY <1>0, <1>2, <1>3, <1>4, <1>6, <1>7, <1>8 DEF AdjustInv, DeskFits, Working, Claiming
  <1> QED BY <1>2, <1>5, <1>9, <1>10, <1>11 DEF AdjustInv

LEMMA AuditKeeps ==
  ASSUME DeskInv, NEW a \in Admins, CreatePendingAudit(a)
  PROVE  AdjustTypes' /\ AdjustInv'
  <1>0. DeskTypeOK /\ AdjustTypes /\ AdjustInv BY TwoTypes DEF DeskInv
  <1>1. desk[a][1] \in {"created", "reclaimed"} /\ UNCHANGED <<adjustment, ask, adjusted>>
    BY DEF CreatePendingAudit
  <1>2. PICK do \in {"call", "release"}, as \in {"NONE", "created", "reclaimed"} :
          /\ To(a, do, as) /\ <<do, as>> \in DeskSteps
          /\ IF do = "call" THEN note' = [note EXCEPT ![a] = "PENDING"] ELSE UNCHANGED note
    BY <1>1 DEF CreatePendingAudit, DeskSteps
  <1>3. /\ desk' \in [Admins -> DeskSteps] /\ desk'[a] = <<do, as>> /\ desk'[a][1] = do
        /\ \A b \in Admins \ {a} : desk'[b] = desk[b]
    BY <1>0, <1>2, AdminMoved, ZenonT(30)
  <1>4. /\ note' \in [Admins -> {"NONE", "PENDING"} \cup Outcomes3]
        /\ note'[a] = IF do = "call" THEN "PENDING" ELSE note[a]
        /\ \A b \in Admins \ {a} : note'[b] = note[b]
    BY <1>0, <1>2 DEF AdjustTypes
  <1>5. AdjustTypes' BY <1>0, <1>1, <1>3, <1>4 DEF AdjustTypes
  <1>6. Working(a) BY <1>1 DEF Working, Claiming
  <1>7. Clean /\ Clean' BY <1>0, <1>1 DEF AdjustInv, DeskFits, Clean, Claiming
  <1>8. adjustment = "PENDING" /\ \A b \in Admins \ {a} : ~Working(b) /\ ~Working(b)'
    BY <1>0, <1>3, <1>6, Alone DEF Working
  <1>9. OneWorks' BY <1>8 DEF OneWorks
  <1>10. DeskFits(a)'
    <2>1. ask[a] \notin {"sent", "done", "refused"} BY <1>0, <1>1 DEF AdjustInv, DeskFits
    <2>2. note[a] # "SUCCEEDED" BY <1>0, <1>8 DEF AdjustInv, DeskFits
    <2>3. desk'[a][1] \in {"call", "release"} BY <1>3
    <2>4. /\ desk'[a] # <<"record", "SUCCEEDED">> /\ desk'[a] # <<"record", "REJECTED">>
          /\ desk'[a] # <<"finish", "SUCCEEDED">>
      BY <2>3
    <2> QED BY <1>1, <1>3, <1>4, <1>7, <1>8, <2>1, <2>2, <2>3, <2>4 DEF DeskFits
  <1>11. \A b \in Admins \ {a} : DeskFits(b)'
    BY <1>0, <1>1, <1>3, <1>4, <1>7, <1>8 DEF AdjustInv, DeskFits, Working, Claiming
  <1> QED BY <1>1, <1>5, <1>8, <1>9, <1>10, <1>11 DEF AdjustInv

LEMMA ReleaseKeeps ==
  ASSUME DeskInv, NEW a \in Admins, ReleaseClaim(a)
  PROVE  AdjustTypes' /\ AdjustInv'
  <1>0. DeskTypeOK /\ AdjustTypes /\ AdjustInv BY TwoTypes DEF DeskInv
  <1>1. /\ desk[a][1] = "release" /\ To(a, "idle", "NONE") /\ UNCHANGED <<ask, note, adjusted>>
        /\ adjustment' \in {adjustment, "NONE", "FAILED"}
    BY DEF ReleaseClaim
  <1>2. /\ desk' \in [Admins -> DeskSteps] /\ desk'[a] = <<"idle", "NONE">> /\ desk'[a][1] = "idle"
        /\ \A b \in Admins \ {a} : desk'[b] = desk[b]
    <2>1. <<"idle", "NONE">> \in DeskSteps BY DEF DeskSteps
    <2> QED BY <1>0, <1>1, <2>1, AdminMoved
  <1>3. AdjustTypes' BY <1>0, <1>1, <1>2 DEF AdjustTypes
  <1>4. Clean /\ Clean' BY <1>0, <1>1 DEF AdjustInv, DeskFits, Clean, Claiming
  <1>5. Working(a) BY <1>1 DEF Working, Claiming
  <1>6. adjustment = "PENDING" /\ \A b \in Admins \ {a} : ~Working(b) /\ ~Working(b)'
    BY <1>0, <1>2, <1>5, Alone DEF Working
  <1>7. OneWorks' BY <1>6 DEF OneWorks
  <1>8. DeskFits(a)'
    <2>1. ask[a] \notin {"sent", "done", "refused"} /\ note[a] # "SUCCEEDED"
      BY <1>0, <1>1, <1>6 DEF AdjustInv, DeskFits
    <2> QED BY <1>1, <1>2, <2>1 DEF DeskFits, Working, Claiming
  <1>9. \A b \in Admins \ {a} : DeskFits(b)'
    BY <1>0, <1>1, <1>2, <1>6 DEF AdjustInv, DeskFits, Working, Claiming
  <1> QED BY <1>1, <1>3, <1>4, <1>6, <1>7, <1>8, <1>9 DEF AdjustInv

LEMMA AskKeeps ==
  ASSUME DeskInv, NEW a \in Admins, AskWallet(a)
  PROVE  AdjustTypes' /\ AdjustInv'
  <1>0. DeskTypeOK /\ AdjustTypes /\ AdjustInv BY TwoTypes DEF DeskInv
  <1>1. /\ desk[a][1] = "call" /\ To(a, "wait", "NONE") /\ UNCHANGED <<adjustment, note, adjusted>>
        /\ ask' = [ask EXCEPT ![a] = "sent"]
    BY DEF AskWallet
  <1>2. /\ desk' \in [Admins -> DeskSteps] /\ desk'[a] = <<"wait", "NONE">> /\ desk'[a][1] = "wait"
        /\ \A b \in Admins \ {a} : desk'[b] = desk[b]
    <2>1. <<"wait", "NONE">> \in DeskSteps BY DEF DeskSteps
    <2> QED BY <1>0, <1>1, <2>1, AdminMoved
  <1>3. /\ ask' \in [Admins -> {"none", "sent", "done", "refused", "late"}] /\ ask'[a] = "sent"
        /\ \A b \in Admins \ {a} : ask'[b] = ask[b]
    BY <1>0, <1>1 DEF AdjustTypes
  <1>4. AdjustTypes' BY <1>0, <1>1, <1>2, <1>3 DEF AdjustTypes
  <1>5. Clean BY <1>0, <1>1 DEF AdjustInv, DeskFits, Claiming
  <1>6. Working(a) /\ note[a] # "NONE" BY <1>0, <1>1 DEF Working, Claiming, AdjustInv, DeskFits
  <1>7. adjustment = "PENDING" /\ \A b \in Admins \ {a} : ~Working(b) /\ ~Working(b)'
    BY <1>0, <1>2, <1>6, Alone DEF Working
  <1>8. OneWorks' BY <1>7 DEF OneWorks
  <1>9. DeskFits(a)'
    <2>1. note[a] # "SUCCEEDED" BY <1>0, <1>7 DEF AdjustInv, DeskFits
    <2> QED BY <1>1, <1>2, <1>3, <1>5, <1>6, <1>7, <2>1 DEF DeskFits, Clean, Claiming
  <1>10. \A b \in Admins \ {a} : DeskFits(b)'
    BY <1>0, <1>1, <1>2, <1>3, <1>7 DEF AdjustInv, DeskFits, Working, Claiming
  <1> QED BY <1>1, <1>4, <1>7, <1>8, <1>9, <1>10 DEF AdjustInv

\* The wallet's side, whether anybody waits or not.
LEMMA WalletKeepsDesk ==
  ASSUME DeskInv, NEW a \in Admins, WalletAdjusts(a) \/ WalletRejects(a)
  PROVE  AdjustTypes' /\ AdjustInv'
  <1>0. DeskTypeOK /\ AdjustTypes /\ AdjustInv BY TwoTypes DEF DeskInv
  <1>1. UNCHANGED <<adjustment, desk, note>> /\ ask[a] \in Asking BY DEF WalletAdjusts, WalletRejects, Asking
  <1>2. adjustment \notin {"NONE", "FAILED"} /\ ~Clean BY <1>0, <1>1 DEF AdjustInv, Clean
  <1>3. OneWorks' BY <1>0, <1>1 DEF AdjustInv, OneWorks, Working
  <1>4. \A b \in Admins : /\ desk[b][1] \notin Claiming /\ desk[b] # <<"record", "REJECTED">>
                          /\ b # a => desk[b][1] # "wait"
    BY <1>0, <1>1, <1>2 DEF AdjustInv, DeskFits
  <1>5. CASE WalletAdjusts(a)
    <2>1. /\ adjusted' = TRUE /\ ask' \in [Admins -> {"none", "sent", "done", "refused", "late"}]
          /\ ask'[a] = IF ask[a] = "sent" THEN "done" ELSE "none"
          /\ \A b \in Admins \ {a} : ask'[b] = ask[b]
      BY <1>0, <1>5 DEF WalletAdjusts, AdjustTypes
    <2>2. AdjustTypes' BY <1>0, <1>1, <2>1 DEF AdjustTypes
    <2>3. DeskFits(a)'
      BY <1>0, <1>1, <1>4, <2>1 DEF AdjustInv, DeskFits, Working, Claiming, Asking
    <2>4. \A b \in Admins \ {a} : DeskFits(b)'
      BY <1>0, <1>1, <1>4, <2>1 DEF AdjustInv, DeskFits, Working, Claiming, Asking
    <2> QED BY <1>0, <1>1, <1>2, <1>3, <2>1, <2>2, <2>3, <2>4 DEF AdjustInv
  <1>6. CASE WalletRejects(a)
    <2>1. /\ adjusted' = adjusted /\ ~adjusted /\ ask' \in [Admins -> {"none", "sent", "done", "refused", "late"}]
          /\ ask'[a] = IF ask[a] = "sent" THEN "refused" ELSE "none"
          /\ \A b \in Admins \ {a} : ask'[b] = ask[b]
      BY <1>0, <1>6 DEF WalletRejects, AdjustTypes
    <2>2. AdjustTypes' BY <1>0, <1>1, <2>1 DEF AdjustTypes
    <2>3. DeskFits(a)'
      BY <1>0, <1>1, <1>4, <2>1 DEF AdjustInv, DeskFits, Working, Claiming, Asking
    <2>4. \A b \in Admins \ {a} : DeskFits(b)'
      BY <1>0, <1>1, <1>4, <2>1 DEF AdjustInv, DeskFits, Working, Claiming, Asking
    <2> QED BY <1>0, <1>1, <1>2, <1>3, <2>1, <2>2, <2>3, <2>4 DEF AdjustInv
  <1> QED BY <1>5, <1>6

\* Once the caller waits no more its request is forgotten or under way.
LEMMA Forgets ==
  ASSUME AdjustTypes, NEW a \in Admins, Forgotten(a)
  PROVE  /\ ask' \in [Admins -> {"none", "sent", "done", "refused", "late"}]
         /\ ask'[a] = IF ask[a] \in Asking THEN "late" ELSE "none"
         /\ \A b \in Admins \ {a} : ask'[b] = ask[b]
  BY DEF AdjustTypes, Forgotten, Asking

LEMMA AnswerKeeps ==
  ASSUME DeskInv, NEW a \in Admins, WalletSays(a)
  PROVE  AdjustTypes' /\ AdjustInv'
  <1>0. DeskTypeOK /\ AdjustTypes /\ AdjustInv BY TwoTypes DEF DeskInv
  <1>1. desk[a][1] = "wait" /\ UNCHANGED <<adjustment, note, adjusted>> /\ Forgotten(a) BY DEF WalletSays
  <1>2. PICK as \in Outcomes3 :
          /\ To(a, "record", as)
          /\ as = "SUCCEEDED" => ask[a] = "done"
          /\ as = "REJECTED" => ask[a] = "refused"
    BY DEF WalletSays, Outcomes3
  <1>3. /\ desk' \in [Admins -> DeskSteps] /\ desk'[a] = <<"record", as>> /\ desk'[a][1] = "record"
        /\ \A b \in Admins \ {a} : desk'[b] = desk[b]
    <2>1. <<"record", as>> \in DeskSteps BY DEF DeskSteps
    <2> QED BY <1>0, <1>2, <2>1, AdminMoved
  <1>4. /\ ask' \in [Admins -> {"none", "sent", "done", "refused", "late"}]
        /\ ask'[a] = IF ask[a] \in Asking THEN "late" ELSE "none"
        /\ \A b \in Admins \ {a} : ask'[b] = ask[b]
    BY <1>0, <1>1, Forgets
  <1>5. AdjustTypes' BY <1>0, <1>1, <1>3, <1>4 DEF AdjustTypes
  <1>6. DeskFits(a) /\ Working(a) BY <1>0, <1>1 DEF AdjustInv, Working
  <1>7. adjustment = "PENDING" /\ \A b \in Admins \ {a} : ~Working(b) /\ ~Working(b)'
    BY <1>0, <1>3, <1>6, Alone DEF Working
  <1>8. OneWorks' BY <1>7 DEF OneWorks
  <1>9. as = "SUCCEEDED" => adjusted BY <1>1, <1>2, <1>6 DEF DeskFits
  <1>10. as = "REJECTED" => Clean' BY <1>1, <1>2, <1>4, <1>6 DEF DeskFits, Clean, Asking
  <1>11. DeskFits(a)'
    <2>1. note[a] # "SUCCEEDED" BY <1>6, <1>7 DEF DeskFits
    <2>2. desk'[a] = <<"record", "SUCCEEDED">> => as = "SUCCEEDED"
      <3>1. <<"record", as>> = <<"record", "SUCCEEDED">> => as = "SUCCEEDED" BY SameOutcome
      <3> QED BY <1>3, <3>1
    <2>3. desk'[a] = <<"record", "REJECTED">> => as = "REJECTED"
      <3>1. <<"record", as>> = <<"record", "REJECTED">> => as = "REJECTED" BY SameOutcome
      <3> QED BY <1>3, <3>1
    <2>4. desk'[a] # <<"finish", "SUCCEEDED">> BY <1>3
    <2> QED BY <1>1, <1>3, <1>4, <1>7, <1>9, <1>10, <2>1, <2>2, <2>3, <2>4 DEF DeskFits, Claiming
  <1>12. \A b \in Admins \ {a} : DeskFits(b)'
    BY <1>0, <1>1, <1>3, <1>4, <1>7 DEF AdjustInv, DeskFits, Working, Claiming
  <1> QED BY <1>1, <1>5, <1>7, <1>8, <1>11, <1>12 DEF AdjustInv

LEMMA RecordKeeps ==
  ASSUME DeskInv, NEW a \in Admins, RecordOutcome(a)
  PROVE  AdjustTypes' /\ AdjustInv'
  <1>0. DeskTypeOK /\ AdjustTypes /\ AdjustInv BY TwoTypes DEF DeskInv
  <1>1. PICK as \in Outcomes3 :
          /\ desk[a] = <<"record", as>>
          /\ \/ adjustment' = StatusFor(as) /\ To(a, "finish", as)
             \/ as = "SUCCEEDED" /\ To(a, "record", "UNKNOWN") /\ UNCHANGED adjustment
             \/ as # "SUCCEEDED" /\ To(a, "idle", "NONE") /\ UNCHANGED adjustment
    BY DEF RecordOutcome
  <1>2. UNCHANGED <<ask, note, adjusted>> BY DEF RecordOutcome
  <1>3. DeskFits(a) /\ Working(a) /\ desk[a][1] = "record" BY <1>0, <1>1 DEF AdjustInv, Working
  <1>4. adjustment = "PENDING" /\ \A b \in Admins \ {a} : ~Working(b) BY <1>0, <1>3, Alone
  <1>5. ask[a] \notin {"sent", "done", "refused"} /\ note[a] # "SUCCEEDED" BY <1>3, <1>4 DEF DeskFits
  <1>6. (as = "SUCCEEDED" => adjusted) /\ (as = "REJECTED" => Clean) BY <1>1, <1>3 DEF DeskFits
  <1>7. Clean' <=> Clean BY <1>2 DEF Clean
  <1>8. CASE adjustment' = StatusFor(as) /\ To(a, "finish", as)
    <2>1. /\ desk' \in [Admins -> DeskSteps] /\ desk'[a] = <<"finish", as>> /\ desk'[a][1] = "finish"
          /\ \A b \in Admins \ {a} : desk'[b] = desk[b]
      <3>1. <<"finish", as>> \in DeskSteps BY DEF DeskSteps
      <3> QED BY <1>0, <1>8, <3>1, AdminMoved
    <2>2. /\ as = "SUCCEEDED" => adjustment' = "SUCCEEDED"
          /\ as = "REJECTED" => adjustment' = "FAILED"
          /\ as = "UNKNOWN" => adjustment' = "UNKNOWN"
      BY <1>8 DEF StatusFor
    <2>3. AdjustTypes' BY <1>0, <1>2, <2>1, <2>2 DEF AdjustTypes, Outcomes3
    <2>4. \A b \in Admins : ~Working(b)' BY <1>4, <2>1 DEF Working, Claiming
    <2>5. desk'[a] # <<"record", "SUCCEEDED">> /\ desk'[a] # <<"record", "REJECTED">>
      BY <2>1
    <2>9. desk'[a] = <<"finish", "SUCCEEDED">> => as = "SUCCEEDED"
      <3>1. <<"finish", as>> = <<"finish", "SUCCEEDED">> => as = "SUCCEEDED" BY SameOutcome
      <3> QED BY <2>1, <3>1
    <2>6. DeskFits(a)' BY <1>2, <1>5, <2>1, <2>2, <2>4, <2>5, <2>9 DEF DeskFits, Working, Claiming
    <2>7. \A b \in Admins \ {a} : DeskFits(b)'
      BY <1>0, <1>2, <1>4, <2>1, <2>4 DEF AdjustInv, DeskFits, Working, Claiming
    <2>8. /\ adjustment' \in {"NONE", "FAILED"} => Clean'
          /\ adjustment' = "SUCCEEDED" => adjusted'
      BY <1>2, <1>6, <1>7, <2>2 DEF Outcomes3
    <2> QED BY <2>3, <2>4, <2>6, <2>7, <2>8 DEF AdjustInv, OneWorks
  <1>9. CASE as = "SUCCEEDED" /\ To(a, "record", "UNKNOWN") /\ UNCHANGED adjustment
    <2>1. /\ desk' \in [Admins -> DeskSteps] /\ desk'[a] = <<"record", "UNKNOWN">> /\ desk'[a][1] = "record"
          /\ \A b \in Admins \ {a} : desk'[b] = desk[b]
      <3>1. <<"record", "UNKNOWN">> \in DeskSteps BY DEF DeskSteps, Outcomes3
      <3> QED BY <1>0, <1>9, <3>1, AdminMoved
    <2>2. AdjustTypes' BY <1>0, <1>2, <1>9, <2>1 DEF AdjustTypes
    <2>3. \A b \in Admins \ {a} : ~Working(b)' BY <1>4, <2>1 DEF Working
    <2>4. DeskFits(a)' BY <1>2, <1>4, <1>5, <1>9, <2>1 DEF DeskFits, Claiming
    <2>5. \A b \in Admins \ {a} : DeskFits(b)'
      BY <1>0, <1>2, <1>4, <1>9, <2>1, <2>3 DEF AdjustInv, DeskFits, Working, Claiming
    <2> QED BY <1>4, <1>9, <2>2, <2>3, <2>4, <2>5 DEF AdjustInv, OneWorks
  <1>10. CASE as # "SUCCEEDED" /\ To(a, "idle", "NONE") /\ UNCHANGED adjustment
    <2>1. /\ desk' \in [Admins -> DeskSteps] /\ desk'[a] = <<"idle", "NONE">> /\ desk'[a][1] = "idle"
          /\ \A b \in Admins \ {a} : desk'[b] = desk[b]
      <3>1. <<"idle", "NONE">> \in DeskSteps BY DEF DeskSteps
      <3> QED BY <1>0, <1>10, <3>1, AdminMoved
    <2>2. AdjustTypes' BY <1>0, <1>2, <1>10, <2>1 DEF AdjustTypes
    <2>3. \A b \in Admins : ~Working(b)' BY <1>4, <2>1 DEF Working, Claiming
    <2>4. DeskFits(a)' BY <1>2, <1>5, <2>1, <2>3 DEF DeskFits, Claiming
    <2>5. \A b \in Admins \ {a} : DeskFits(b)'
      BY <1>0, <1>2, <1>4, <1>10, <2>1, <2>3 DEF AdjustInv, DeskFits, Working, Claiming
    <2> QED BY <1>4, <1>10, <2>2, <2>3, <2>4, <2>5 DEF AdjustInv, OneWorks
  <1> QED BY <1>1, <1>8, <1>9, <1>10

LEMMA FinishKeepsDesk ==
  ASSUME DeskInv, NEW a \in Admins, FinishAudit(a)
  PROVE  AdjustTypes' /\ AdjustInv'
  <1>0. DeskTypeOK /\ AdjustTypes /\ AdjustInv BY TwoTypes DEF DeskInv
  <1>1. PICK as \in Outcomes3 : desk[a] = <<"finish", as>> /\ note' \in {note, [note EXCEPT ![a] = as]}
    BY DEF FinishAudit
  <1>2. UNCHANGED <<adjustment, ask, adjusted>> /\ To(a, "idle", "NONE") BY DEF FinishAudit
  <1>3. /\ desk' \in [Admins -> DeskSteps] /\ desk'[a] = <<"idle", "NONE">> /\ desk'[a][1] = "idle"
        /\ \A b \in Admins \ {a} : desk'[b] = desk[b]
    <2>1. <<"idle", "NONE">> \in DeskSteps BY DEF DeskSteps
    <2> QED BY <1>0, <1>2, <2>1, AdminMoved
  <1>4. /\ note' \in [Admins -> {"NONE", "PENDING"} \cup Outcomes3] /\ note'[a] \in {note[a], as}
        /\ \A b \in Admins \ {a} : note'[b] = note[b]
    BY <1>0, <1>1 DEF AdjustTypes
  <1>5. AdjustTypes' BY <1>0, <1>2, <1>3, <1>4 DEF AdjustTypes
  <1>6. DeskFits(a) /\ desk[a][1] = "finish" BY <1>0, <1>1 DEF AdjustInv
  <1>7. note'[a] = "SUCCEEDED" => adjustment = "SUCCEEDED" BY <1>1, <1>4, <1>6 DEF DeskFits
  <1>8. \A b \in Admins \ {a} : Working(b)' <=> Working(b) BY <1>3 DEF Working
  <1>9. ~Working(a)' BY <1>3 DEF Working, Claiming
  <1>10. OneWorks' BY <1>0, <1>8, <1>9 DEF AdjustInv, OneWorks
  <1>11. DeskFits(a)' BY <1>2, <1>3, <1>6, <1>7, <1>9 DEF DeskFits, Claiming
  <1>12. \A b \in Admins \ {a} : DeskFits(b)'
    BY <1>0, <1>2, <1>3, <1>4, <1>8 DEF AdjustInv, DeskFits, Clean
  <1> QED BY <1>0, <1>2, <1>5, <1>10, <1>11, <1>12 DEF AdjustInv, Clean

LEMMA DeskCrashKeeps ==
  ASSUME DeskInv, NEW a \in Admins, DeskCrash(a)
  PROVE  AdjustTypes' /\ AdjustInv'
  <1>0. DeskTypeOK /\ AdjustTypes /\ AdjustInv BY TwoTypes DEF DeskInv
  <1>1. UNCHANGED <<adjustment, note, adjusted>> /\ To(a, "idle", "NONE") /\ Forgotten(a) BY DEF DeskCrash
  <1>2. /\ desk' \in [Admins -> DeskSteps] /\ desk'[a] = <<"idle", "NONE">> /\ desk'[a][1] = "idle"
        /\ \A b \in Admins \ {a} : desk'[b] = desk[b]
    <2>1. <<"idle", "NONE">> \in DeskSteps BY DEF DeskSteps
    <2> QED BY <1>0, <1>1, <2>1, AdminMoved
  <1>3. /\ ask' \in [Admins -> {"none", "sent", "done", "refused", "late"}]
        /\ ask'[a] = IF ask[a] \in Asking THEN "late" ELSE "none"
        /\ \A b \in Admins \ {a} : ask'[b] = ask[b]
    BY <1>0, <1>1, Forgets
  <1>4. AdjustTypes' BY <1>0, <1>1, <1>2, <1>3 DEF AdjustTypes
  <1>5. \A b \in Admins : ask'[b] \in Asking <=> ask[b] \in Asking BY <1>3 DEF Asking
  <1>6. Clean' <=> Clean BY <1>1, <1>5 DEF Clean
  <1>7. \A b \in Admins \ {a} : Working(b)' <=> Working(b) BY <1>2 DEF Working
  <1>8. ~Working(a)' BY <1>2 DEF Working, Claiming
  <1>9. OneWorks' BY <1>0, <1>7, <1>8 DEF AdjustInv, OneWorks
  <1>10. DeskFits(a)'
    <2>1. note[a] = "SUCCEEDED" => adjustment = "SUCCEEDED" BY <1>0 DEF AdjustInv, DeskFits
    <2> QED BY <1>1, <1>2, <1>3, <1>8, <2>1 DEF DeskFits, Claiming
  <1>11. \A b \in Admins \ {a} : DeskFits(b)'
    BY <1>0, <1>1, <1>2, <1>3, <1>5, <1>6, <1>7 DEF AdjustInv, DeskFits
  <1> QED BY <1>0, <1>1, <1>4, <1>6, <1>9, <1>10, <1>11 DEF AdjustInv

LEMMA DeskInvStep == DeskInv /\ [DeskNext]_deskVars => DeskInv'
  <1> SUFFICES ASSUME DeskInv, [DeskNext]_deskVars PROVE DeskInv'
    OBVIOUS
  <1>0. DeskTypeOK /\ AdjustTypes /\ RunTypes /\ AdjustInv /\ RunInv BY TwoTypes DEF DeskInv
  <1>1. UNCHANGED adjustVars => AdjustTypes' /\ AdjustInv'
    BY <1>0 DEF adjustVars, AdjustTypes, AdjustInv, OneWorks, DeskFits, Working, Clean
  <1>2. UNCHANGED runVars => RunTypes' /\ RunInv'
    BY <1>0 DEF runVars, RunTypes, RunInv, RunFits
  <1>3. CASE UNCHANGED deskVars
    <2>1. UNCHANGED adjustVars /\ UNCHANGED runVars BY <1>3 DEF deskVars
    <2>2. AdjustTypes' /\ AdjustInv' /\ RunTypes' /\ RunInv' BY <1>1, <1>2, <2>1
    <2>3. DeskTypeOK' BY <2>2 DEF DeskTypeOK, AdjustTypes, RunTypes, DeskSteps, RunSteps
    <2> QED BY <2>2, <2>3 DEF DeskInv
  <1>4. CASE AdjustStep /\ UNCHANGED runVars
    <2>1. AdjustTypes' /\ AdjustInv'
      BY <1>4, ClaimKeeps, AuditKeeps, ReleaseKeeps, AskKeeps, WalletKeepsDesk, AnswerKeeps, RecordKeeps,
         FinishKeepsDesk, DeskCrashKeeps DEF AdjustStep
    <2>2. RunTypes' /\ RunInv' BY <1>2, <1>4
    <2>3. DeskTypeOK' BY <2>1, <2>2 DEF DeskTypeOK, AdjustTypes, RunTypes, DeskSteps, RunSteps
    <2> QED BY <2>1, <2>2, <2>3 DEF DeskInv
  <1>5. CASE RunStep /\ UNCHANGED adjustVars
    <2>1. RunTypes' /\ RunInv' BY <1>5, RunKeeps
    <2>2. AdjustTypes' /\ AdjustInv' BY <1>1, <1>5
    <2>3. DeskTypeOK' BY <2>1, <2>2 DEF DeskTypeOK, AdjustTypes, RunTypes, DeskSteps, RunSteps
    <2> QED BY <2>1, <2>2, <2>3 DEF DeskInv
  <1> QED BY <1>3, <1>4, <1>5 DEF DeskNext

LEMMA DeskInvAlways == DeskSpec => []DeskInv
  BY DeskInvInit, DeskInvStep, PTL DEF DeskSpec

\* The rows, the steps of the requests and the wallet's answers stay within
\* their types.
THEOREM DeskTypeCorrect == DeskSpec => []DeskTypeOK
  <1>1. DeskInv => DeskTypeOK BY DEF DeskInv
  <1> QED BY <1>1, DeskInvAlways, PTL

\* reconciliationService: what the rows say of an adjustment or a run is what
\* happened, and an anomaly is open to another try only when no money moved.
THEOREM RowsAreTrue == DeskSpec => []RowsTellTheTruth
  BY DeskInvImplies, DeskInvAlways, PTL

-----------------------------------------------------------------------------
(* KycDocuments                                                            *)

\* Whoever works on an object holds its lock; one that is about to be committed
\* is there, one about to be removed is nobody's document.
SubmissionFits(s) ==
    /\ submission[s] \in {"check", "commit"} => holder[s] = "upload"
    /\ submission[s] = "commit" => s \in stored \cup late

CleanerFits(c) ==
    /\ cleaner[c].at # "idle" => cleaner[c].key \in Submissions
    /\ cleaner[c].at \in {"look", "remove", "forget"} => holder[cleaner[c].key] = c
    /\ cleaner[c].at = "remove" => cleaner[c].key # document

KycInv ==
    /\ KycTypeOK
    /\ \A s \in Submissions : SubmissionFits(s)
    /\ \A c \in Cleaners : CleanerFits(c)
    /\ DocumentsAreKept

LEMMA KycInvInit == KycInit => KycInv
  BY NoKeyIsNoKey DEF KycInit, KycInv, KycTypeOK, NotCleaning, DocumentsAreKept, SubmissionFits, CleanerFits

LEMMA KycInvStep == KycInv /\ [KycNext]_kycVars => KycInv'
  <1> SUFFICES ASSUME KycInv, [KycNext]_kycVars PROVE KycInv'
    OBVIOUS
  <1> USE NoKeyIsNoKey, CleanersAreNoUploads DEF KycInv, KycTypeOK, DocumentsAreKept, SubmissionFits, CleanerFits
  <1>1. CASE UNCHANGED kycVars
    BY <1>1 DEF kycVars
  <1>2. CASE SetKycStatus
    BY <1>2 DEF SetKycStatus
  <1>3. CASE UpdateProfile
    BY <1>3 DEF UpdateProfile
  <1>4. ASSUME NEW s \in Submissions, SubmitDocuments(s) PROVE KycInv'
    BY <1>4 DEF SubmitDocuments, ReadProfile, Submitting
  <1>5. ASSUME NEW s \in Submissions, Put(s) PROVE KycInv'
    BY <1>5 DEF Put, Submitting
  <1>6. ASSUME NEW s \in Submissions, LockObject(s) PROVE KycInv'
    BY <1>6 DEF LockObject, Submitting
  <1>7. ASSUME NEW s \in Submissions, AssertExists(s) PROVE KycInv'
    BY <1>7 DEF AssertExists, Submitting, LetGo
  <1>8. ASSUME NEW s \in Submissions, CommitDocuments(s) PROVE KycInv'
    BY <1>8 DEF CommitDocuments, Submitting, LetGo
  <1>9. ASSUME NEW s \in Submissions, SubmissionRollsBack(s) PROVE KycInv'
    BY <1>9 DEF SubmissionRollsBack, Submitting, LetGo
  <1>10. ASSUME NEW s \in Submissions, IntentFallsDue(s) PROVE KycInv'
    BY <1>10 DEF IntentFallsDue
  <1>11. ASSUME NEW s \in Submissions, LateDeletion(s) PROVE KycInv'
    BY <1>11 DEF LateDeletion
  <1>12. ASSUME NEW c \in Cleaners, NEW k \in Submissions, PickIntent(c, k) \/ PickOrphan(c, k) PROVE KycInv'
    <2>1. \E job \in BOOLEAN : cleaner' = [cleaner EXCEPT ![c] = [at |-> "lock", key |-> k, job |-> job]]
      BY <1>12 DEF PickIntent, PickOrphan, Cleaning
    <2>2. UNCHANGED <<document, kycStatus, fresh, submission, stored, intent, holder, late>>
      BY <1>12 DEF PickIntent, PickOrphan
    <2> QED BY <2>1, <2>2
  <1>13. ASSUME NEW c \in Cleaners, LockForRemoval(c) PROVE KycInv'
    <2> DEFINE k == cleaner[c].key
    <2>1. k \in Submissions /\ holder[k] = "none" BY <1>13 DEF LockForRemoval
    <2>2. UNCHANGED <<document, stored, late, submission, fresh, kycStatus, intent>> BY <1>13 DEF LockForRemoval
    <2>3. CASE /\ holder' = [holder EXCEPT ![k] = c]
               /\ cleaner' = [cleaner EXCEPT ![c] = [at |-> "look", key |-> k, job |-> cleaner[c].job]]
      <3>1. KycTypeOK' BY <2>1, <2>2, <2>3
      <3>2. \A s \in Submissions : SubmissionFits(s)' BY <2>1, <2>2, <2>3
      <3>3. CleanerFits(c)' BY <2>1, <2>3
      <3>4. ASSUME NEW b \in Cleaners, b # c PROVE CleanerFits(b)'
        <4>1. cleaner'[b] = cleaner[b] /\ cleaner[b].at \in {"idle", "lock", "look", "remove", "forget"} BY <2>3, <3>4
        <4>2. cleaner[b].at \in {"look", "remove", "forget"} => cleaner[b].key # k BY <2>1
        <4>3. CleanerFits(b) OBVIOUS
        <4>4. \A s \in Submissions : s # k => holder'[s] = holder[s] BY <2>3
        <4> HIDE DEF k
        <4> QED BY <2>2, <4>1, <4>2, <4>3, <4>4
      <3> QED BY <2>2, <3>1, <3>2, <3>3, <3>4
    <2>4. CASE UNCHANGED holder /\ cleaner' = [cleaner EXCEPT ![c] = NotCleaning]
      BY <2>2, <2>4 DEF NotCleaning
    <2> QED BY <1>13, <2>3, <2>4 DEF LockForRemoval, Cleaning
  <1>14. ASSUME NEW c \in Cleaners, LookForReference(c) PROVE KycInv'
    <2> DEFINE k == cleaner[c].key
    <2>1. k \in Submissions /\ holder[k] = c BY <1>14 DEF LookForReference
    <2>2. UNCHANGED <<document, stored, late, submission, fresh, kycStatus, intent, holder>> BY <1>14 DEF LookForReference
    <2>3. \E at \in {"forget", "remove"} :
            /\ cleaner' = [cleaner EXCEPT ![c] = [at |-> at, key |-> k, job |-> cleaner[c].job]]
            /\ at = "remove" => k # document
      BY <1>14 DEF LookForReference, Cleaning
    <2> QED BY <2>1, <2>2, <2>3
  <1>15. ASSUME NEW c \in Cleaners, RemoveObject(c) PROVE KycInv'
    BY <1>15 DEF RemoveObject, Cleaning
  <1>16. ASSUME NEW c \in Cleaners, ForgetIntent(c) PROVE KycInv'
    BY <1>16 DEF ForgetIntent, LetGo, NotCleaning
  <1>17. ASSUME NEW c \in Cleaners, CleanerFails(c) PROVE KycInv'
    BY <1>17 DEF CleanerFails, LetGo, NotCleaning
  <1> HIDE DEF KycInv, KycTypeOK, DocumentsAreKept, SubmissionFits, CleanerFits
  <1> QED
    BY <1>1, <1>2, <1>3, <1>4, <1>5, <1>6, <1>7, <1>8, <1>9, <1>10, <1>11, <1>12, <1>13, <1>14, <1>15,
       <1>16, <1>17 DEF KycNext

LEMMA KycInvAlways == KycSpec => []KycInv
  BY KycInvInit, KycInvStep, PTL DEF KycSpec

\* kyc.service and the two clean-ups, for any number of submissions and
\* cleaners: the document of a profile is in the storage, though objects are put,
\* abandoned and removed by threads that share only the lock on the key, unless a
\* deletion outlives its lock.
THEOREM NoDocumentIsLost == KycSpec => []DocumentsAreKept
  <1>1. KycInv => DocumentsAreKept
    BY DEF KycInv
  <1> QED BY <1>1, KycInvAlways, PTL

\* The submissions, the files and their cleaners keep their types.
THEOREM KycTypeCorrect == KycSpec => []KycTypeOK
  <1>1. KycInv => KycTypeOK
    BY DEF KycInv
  <1> QED BY <1>1, KycInvAlways, PTL

-----------------------------------------------------------------------------
(* The components side by side                                             *)

\* A behaviour of EventsSpec is one of each component, so that what is proved of
\* each holds of it.
LEMMA EachOfThem ==
    EventsSpec => TierSpec /\ KycSpec /\ FinanceSpec /\ DeskSpec /\ WalletOutSpec /\ RegSpec
  <1>1. EventsInit => TierInit /\ KycInit /\ FinanceInit /\ DeskInit /\ WalletOutInit /\ RegInit
    BY DEF EventsInit
  <1>2. [EventsNext]_EventsVars =>
           /\ [TierNext]_tierVars /\ [KycNext]_kycVars /\ [FinanceNext]_financeVars
           /\ [DeskNext]_deskVars /\ [WalletOutNext]_walletOutVars /\ [RegNext]_regVars
    BY DEF EventsNext, EventsVars, DeskNext, deskVars
  <1> QED BY <1>1, <1>2, PTL DEF EventsSpec, TierSpec, KycSpec, FinanceSpec, DeskSpec, WalletOutSpec, RegSpec

\* Tier events, documents, notifications, the administrators' desk, the wallet's
\* outbox and registrations keep their types, for any number of actors and
\* things.
THEOREM EventsTypeCorrect == EventsSpec => []EventsTypeOK
  <1>1. TierTypeOK /\ KycTypeOK /\ FinanceTypeOK /\ DeskTypeOK /\ WalletOutTypeOK /\ RegTypeOK => EventsTypeOK
    BY DEF EventsTypeOK
  <1> QED BY <1>1, EachOfThem, TierTypeCorrect, KycTypeCorrect, FinanceTypeCorrect, DeskTypeCorrect,
       WalletOutTypeCorrect, RegTypeCorrect, PTL

\* And what each of them promises holds of them side by side.
THEOREM EventsPromises ==
    EventsSpec => /\ [](PublishedInOrder /\ NothingLost /\ DocumentsAreKept /\ PartiesToldTogether)
                  /\ [](RowsTellTheTruth /\ ToldOnceAndForAll /\ NobodyForgotten)
                  /\ DuplicateIsHarmless
  BY EachOfThem, OutboxIsInOrder, NothingIsLost, NoDocumentIsLost, PartiesAreTold, RowsAreTrue,
     RowIsToldOnce, NobodyIsForgotten, TierNeverMovesBack, PTL
=============================================================================
