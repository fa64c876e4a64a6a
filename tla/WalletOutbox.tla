---------------------------- MODULE WalletOutbox ----------------------------
(***************************************************************************)
(* One row of wallet-service's outbox, written with the ledger entries of  *)
(* a movement, and the drains that tell notification-service: over         *)
(* RabbitMQ, or over HTTP when the broker does not confirm.                *)
(*                                                                         *)
(* The table has no lease: a drain locks the rows only while it selects    *)
(* them, so that two instances may be at the same row at once.  In one     *)
(* instance createSingleFlight keeps a second drain away.                  *)
(***************************************************************************)
EXTENDS Notifications

CONSTANTS
    WalletDrains,   \* instances of wallet-service
    MaxAttempts     \* see BrokerLink

ASSUME WalletAttempts == MaxAttempts \in Nat \ {0}

VARIABLES
    walletLink,   \* the publisher's connection
    notable,      \* what the row holds: "notice", "suppressed" or "invalid"
    outrowAt,     \* the row: "pending" or "published"
    errand,       \* what each drain is about to do with it
    refused       \* notification-service has answered 4xx

walletOutVars == <<noticeVars, walletLink, notable, outrowAt, errand, refused>>

\* A movement the customer is told of here, one that the payment events tell, and
\* a row that cannot be read.
Contents == {"notice", "suppressed", "invalid"}

Link == INSTANCE BrokerLink WITH link <- walletLink

WalletOutTypeOK ==
    /\ NoticeTypeOK /\ Link!LinkTypeOK
    /\ notable \in Contents
    /\ outrowAt \in {"pending", "published"}
    /\ errand \in [WalletDrains -> {"idle", "read", "publish", "http", "mark", "attempt"}]
    /\ refused \in BOOLEAN

WalletOutInit ==
    /\ NoticeInit /\ Link!LinkInit
    /\ notable \in Contents
    /\ outrowAt = "pending"
    /\ errand = [d \in WalletDrains |-> "idle"]
    /\ refused = FALSE

Errand(d, from, to) == errand[d] = from /\ errand' = [errand EXCEPT ![d] = to]

\* FOR UPDATE SKIP LOCKED, for the length of the SELECT.
ClaimPendingRows(d) ==
    /\ Errand(d, "idle", "read")
    /\ outrowAt = "pending"
    /\ UNCHANGED <<noticeVars, walletLink, notable, outrowAt, refused>>

\* The row is read again; what is not for the customer's eyes, the payment
\* events tell, or cannot be read is only marked.
ReadRow(d) ==
    /\ Errand(d, "read", CASE outrowAt = "published" -> "idle"
                           [] outrowAt = "pending" /\ notable = "notice" -> "publish"
                           [] outrowAt = "pending" /\ notable # "notice" -> "mark")
    /\ UNCHANGED <<noticeVars, walletLink, notable, outrowAt, refused>>

\* Mutant: what the broker does not confirm counts as sent.
PublishNotice_Unconfirmed(d) ==
    /\ \/ Link!Publishing("confirmed") /\ Errand(d, "publish", "mark") /\ ReachesQueue
       \/ Link!Publishing("unconfirmed") /\ Errand(d, "publish", "mark") /\ (ReachesQueue \/ UNCHANGED wire)
       \/ Link!Publishing("down") /\ Errand(d, "publish", "http") /\ UNCHANGED wire
    /\ UNCHANGED <<dlq, inInbox, notices, listening, notable, outrowAt, refused>>

PublishNotice(d) ==
    /\ \/ Link!Publishing("confirmed") /\ Errand(d, "publish", "mark") /\ ReachesQueue
       \/ Link!Publishing("unconfirmed") /\ Errand(d, "publish", "http") /\ (ReachesQueue \/ UNCHANGED wire)
       \/ Link!Publishing("down") /\ Errand(d, "publish", "http") /\ UNCHANGED wire
    /\ UNCHANGED <<dlq, inInbox, notices, listening, notable, outrowAt, refused>>

\* The answer may be lost, whatever was done; a refusal is final.
PostNotice(d) ==
    /\ \/ AcceptNotice("stored") /\ (Errand(d, "http", "mark") \/ Errand(d, "http", "attempt")) /\ UNCHANGED refused
       \/ AcceptNotice("error") /\ Errand(d, "http", "attempt") /\ UNCHANGED refused
       \/ AcceptNotice("refused") /\ Errand(d, "http", "mark") /\ refused' = TRUE
    /\ UNCHANGED <<wire, dlq, listening, walletLink, notable, outrowAt>>

MarkPublished(d) ==
    /\ Errand(d, "mark", "idle")
    /\ outrowAt' = "published"
    /\ UNCHANGED <<noticeVars, walletLink, notable, refused>>

\* Only the number of attempts is written, which nothing looks at: the next
\* drain takes the row again.
CountAttempt(d) ==
    /\ Errand(d, "attempt", "idle")
    /\ UNCHANGED <<noticeVars, walletLink, notable, outrowAt, refused>>

\* The process dies, or the database refuses the mark and then the attempt.
WalletDrainFails(d) ==
    /\ errand[d] # "idle"
    /\ errand' = [errand EXCEPT ![d] = "idle"]
    /\ UNCHANGED <<noticeVars, walletLink, notable, outrowAt, refused>>

WalletOutNext ==
    \/ NoticeNext /\ UNCHANGED <<walletLink, notable, outrowAt, errand, refused>>
    \/ Link!LinkNext /\ UNCHANGED <<noticeVars, notable, outrowAt, errand, refused>>
    \/ \E d \in WalletDrains :
          \/ ClaimPendingRows(d) \/ ReadRow(d) \/ PublishNotice(d) \/ PostNotice(d)
          \/ MarkPublished(d) \/ CountAttempt(d) \/ WalletDrainFails(d)

WalletOutSpec == WalletOutInit /\ [][WalletOutNext]_walletOutVars

-----------------------------------------------------------------------------
\* However many drains tell the same row, over both ways and with copies that
\* come again, the customer gets one notification, and has it in the end as
\* long as some trace of the row is left: a row is published only when the
\* notification is stored, on its way, with the dead letters, or refused.
ToldOnceAndForAll ==
    /\ notices <= 1
    /\ outrowAt = "published" /\ notable = "notice" => notices = 1 \/ OnItsWay \/ dlq \/ refused
    /\ notable # "notice" => notices = 0 /\ ~OnItsWay
=============================================================================
