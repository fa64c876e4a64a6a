---------------------------- MODULE KycDocuments ----------------------------
(***************************************************************************)
(* The KYC documents of one profile of user-service: the submission, which *)
(* writes to the storage and to the database, and the two clean-ups, which *)
(* delete objects that nobody refers to: the timer that works off the      *)
(* intents, and the scan of the storage.                                   *)
(*                                                                         *)
(* A submission has two objects; each goes the same way under a lock of    *)
(* its own, and the module follows one of them, called by its submission.  *)
(***************************************************************************)

CONSTANTS
    Submissions,   \* requests, and the object each one uploads
    NoKey,
    Cleaners       \* runs of the clean-ups

ASSUME NoKeyIsNoKey == NoKey \notin Submissions
ASSUME CleanersAreNoUploads == Cleaners \cap {"none", "upload"} = {}

VARIABLES
    document,     \* kycObjectKey of the profile
    kycStatus,
    fresh,        \* submissions that have read the profile as it is now: its version
    submission,   \* what each submission is about to do
    stored,       \* objects in the storage
    intent,       \* storage_cleanup: no row, one that waits, one that is due
    holder,       \* the advisory lock of each key
    cleaner,      \* what each clean-up is about to do, for which key, and whether an intent led to it
    late          \* deletions that outlive the transaction that asked for them

kycVars == <<document, kycStatus, fresh, submission, stored, intent, holder, cleaner, late>>

KycTypeOK ==
    /\ document \in Submissions \cup {NoKey}
    /\ kycStatus \in {"NONE", "PENDING", "APPROVED", "REJECTED"}
    /\ fresh \subseteq Submissions /\ stored \subseteq Submissions
    /\ late \subseteq Submissions
    /\ submission \in [Submissions -> {"none", "put", "lock", "check", "commit", "over"}]
    /\ intent \in [Submissions -> {"none", "waiting", "due"}]
    /\ holder \in [Submissions -> {"none", "upload"} \cup Cleaners]
    /\ cleaner \in [Cleaners -> [at : {"idle", "lock", "look", "remove", "forget"},
                                 key : Submissions \cup {NoKey}, job : BOOLEAN]]

NotCleaning == [at |-> "idle", key |-> NoKey, job |-> FALSE]

KycInit ==
    /\ document = NoKey /\ kycStatus = "NONE"
    /\ fresh = {} /\ stored = {} /\ late = {}
    /\ submission = [s \in Submissions |-> "none"]
    /\ intent = [s \in Submissions |-> "none"]
    /\ holder = [s \in Submissions |-> "none"]
    /\ cleaner = [c \in Cleaners |-> NotCleaning]

-----------------------------------------------------------------------------
(* The submission                                                          *)

Submitting(s, from, to) == submission[s] = from /\ submission' = [submission EXCEPT ![s] = to]
LetGo(k) == holder' = [holder EXCEPT ![k] = "none"]

\* authorizeKyc reads the profile before the files are received.
ReadProfile(s) == kycStatus # "APPROVED" /\ fresh' = fresh \cup {s}

\* The intent is written before the upload.
SubmitDocuments(s) ==
    /\ ReadProfile(s)
    /\ Submitting(s, "none", "put")
    /\ intent' = [intent EXCEPT ![s] = "waiting"]
    /\ UNCHANGED <<document, kycStatus, stored, holder, cleaner, late>>

\* The upload fails, whatever has reached the storage.
Put(s) ==
    /\ \/ Submitting(s, "put", "lock") /\ stored' = stored \cup {s}
       \/ Submitting(s, "put", "over") /\ stored' \in {stored, stored \cup {s}}
    /\ UNCHANGED <<document, kycStatus, fresh, intent, holder, cleaner, late>>

LockObject(s) ==
    /\ holder[s] = "none"
    /\ Submitting(s, "lock", "check")
    /\ holder' = [holder EXCEPT ![s] = "upload"]
    /\ UNCHANGED <<document, kycStatus, fresh, stored, intent, cleaner, late>>

\* Mutant: the upload is taken for granted.
AssertExists_Trusting(s) ==
    /\ Submitting(s, "check", "commit") /\ UNCHANGED holder
    /\ UNCHANGED <<document, kycStatus, fresh, stored, intent, cleaner, late>>

AssertExists(s) ==
    /\ \/ s \in stored /\ Submitting(s, "check", "commit") /\ UNCHANGED holder
       \/ s \notin stored /\ Submitting(s, "check", "over") /\ LetGo(s)
    /\ UNCHANGED <<document, kycStatus, fresh, stored, intent, cleaner, late>>

\* The row under its version, and both intents with it.
CommitDocuments(s) ==
    /\ s \in fresh
    /\ Submitting(s, "commit", "over") /\ LetGo(s)
    /\ document' = s /\ kycStatus' = "PENDING"
    /\ fresh' = {}
    /\ intent' = [k \in Submissions |-> IF k = s THEN "none" ELSE IF k = document THEN "due" ELSE intent[k]]
    /\ UNCHANGED <<stored, cleaner, late>>

\* The profile has changed, the transaction is to be tried again, or the
\* database or the process fails.
SubmissionRollsBack(s) ==
    /\ \/ submission[s] \in {"put", "lock", "check", "commit"} /\ submission' = [submission EXCEPT ![s] = "over"]
       \/ Submitting(s, "commit", "lock")
    /\ IF submission[s] \in {"check", "commit"} THEN LetGo(s) ELSE UNCHANGED holder
    /\ UNCHANGED <<document, kycStatus, fresh, stored, intent, cleaner, late>>

-----------------------------------------------------------------------------
(* Other changes of the profile, and the passing of time                   *)

SetKycStatus ==
    /\ \/ kycStatus = "PENDING" /\ kycStatus' \in {"APPROVED", "REJECTED"}
       \/ kycStatus = "APPROVED" /\ kycStatus' = "REJECTED"
    /\ fresh' = {}
    /\ UNCHANGED <<document, submission, stored, intent, holder, cleaner, late>>

UpdateProfile ==
    /\ fresh' = {}
    /\ UNCHANGED <<document, kycStatus, submission, stored, intent, holder, cleaner, late>>

IntentFallsDue(k) ==
    /\ intent[k] = "waiting"
    /\ intent' = [intent EXCEPT ![k] = "due"]
    /\ UNCHANGED <<document, kycStatus, fresh, submission, stored, holder, cleaner, late>>

-----------------------------------------------------------------------------
(* The clean-ups                                                           *)

Cleaning(c, at, k, job) == cleaner' = [cleaner EXCEPT ![c] = [at |-> at, key |-> k, job |-> job]]

\* cleanupStorage.
PickIntent(c, k) ==
    /\ cleaner[c].at = "idle" /\ intent[k] = "due"
    /\ Cleaning(c, "lock", k, TRUE)
    /\ UNCHANGED <<document, kycStatus, fresh, submission, stored, intent, holder, late>>

\* scanKycOrphans, of an object that is older than the grace period, which any
\* may be; its two reads of the database are one here.
PickOrphan(c, k) ==
    /\ cleaner[c].at = "idle" /\ k \in stored
    /\ k # document /\ intent[k] # "waiting"
    /\ Cleaning(c, "lock", k, FALSE)
    /\ UNCHANGED <<document, kycStatus, fresh, submission, stored, intent, holder, late>>

\* removeUnreferenced: under the lock, a job that is gone or was put off ends it.
LockForRemoval(c) ==
    LET k == cleaner[c].key IN
    /\ cleaner[c].at = "lock" /\ holder[k] = "none"
    /\ \/ /\ intent[k] = "due" \/ (intent[k] = "none" /\ ~cleaner[c].job)
          /\ Cleaning(c, "look", k, cleaner[c].job)
          /\ holder' = [holder EXCEPT ![k] = c]
       \/ /\ intent[k] = "waiting" \/ (intent[k] = "none" /\ cleaner[c].job)
          /\ cleaner' = [cleaner EXCEPT ![c] = NotCleaning] /\ UNCHANGED holder
    /\ UNCHANGED <<document, kycStatus, fresh, submission, stored, intent, late>>

LookForReference(c) ==
    LET k == cleaner[c].key IN
    /\ cleaner[c].at = "look"
    /\ Cleaning(c, IF k = document THEN "forget" ELSE "remove", k, cleaner[c].job)
    /\ UNCHANGED <<document, kycStatus, fresh, submission, stored, intent, holder, late>>

RemoveObject(c) ==
    LET k == cleaner[c].key IN
    /\ cleaner[c].at = "remove"
    /\ stored' = stored \ {k}
    /\ Cleaning(c, "forget", k, cleaner[c].job)
    /\ UNCHANGED <<document, kycStatus, fresh, submission, intent, holder, late>>

ForgetIntent(c) ==
    LET k == cleaner[c].key IN
    /\ cleaner[c].at = "forget"
    /\ intent' = [intent EXCEPT ![k] = "none"]
    /\ LetGo(k)
    /\ cleaner' = [cleaner EXCEPT ![c] = NotCleaning]
    /\ UNCHANGED <<document, kycStatus, fresh, submission, stored, late>>

\* The storage or the database fails, the transaction runs out of its 25
\* seconds, or the process dies: the lock is gone, a deletion may still be on
\* its way, and a job is put off for an hour unless that fails as well.
CleanerFails(c) ==
    LET k == cleaner[c].key IN
    /\ cleaner[c].at # "idle"
    /\ cleaner' = [cleaner EXCEPT ![c] = NotCleaning]
    /\ IF holder[k] = c THEN LetGo(k) ELSE UNCHANGED holder
    /\ late' \in {late, IF cleaner[c].at = "remove" THEN late \cup {k} ELSE late}
    /\ intent' \in {intent, IF cleaner[c].job /\ intent[k] # "none"
                            THEN [intent EXCEPT ![k] = "waiting"] ELSE intent}
    /\ UNCHANGED <<document, kycStatus, fresh, submission, stored>>

LateDeletion(k) ==
    /\ k \in late
    /\ stored' = stored \ {k}
    /\ UNCHANGED <<document, kycStatus, fresh, submission, intent, holder, cleaner, late>>

KycNext ==
    \/ SetKycStatus \/ UpdateProfile
    \/ \E s \in Submissions :
          \/ SubmitDocuments(s) \/ Put(s) \/ LockObject(s) \/ AssertExists(s)
          \/ CommitDocuments(s) \/ SubmissionRollsBack(s)
          \/ IntentFallsDue(s) \/ LateDeletion(s)
    \/ \E c \in Cleaners :
          \/ \E k \in Submissions : PickIntent(c, k) \/ PickOrphan(c, k)
          \/ LockForRemoval(c) \/ LookForReference(c) \/ RemoveObject(c)
          \/ ForgetIntent(c) \/ CleanerFails(c)

KycSpec == KycInit /\ [][KycNext]_kycVars

-----------------------------------------------------------------------------
\* The documents of a profile are in the storage, whatever clean-up ran at the
\* same time and wherever it failed; the one way to lose them is a deletion
\* that the storage carries out after its transaction, and with it the lock,
\* has gone.
DocumentsAreKept == document # NoKey /\ document \notin late => document \in stored
=============================================================================
