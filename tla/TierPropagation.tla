--------------------------- MODULE TierPropagation ---------------------------
(***************************************************************************)
(* The way of a KYC tier change from user-service to wallet-service: the   *)
(* outbox row written with the profile, the publishers that claim rows     *)
(* under a lease and in version order, the broker, the consumer of package *)
(* finvault-events with its retry queues and dead letters, and the inbox   *)
(* that wallet-service keeps with the tier.                                *)
(*                                                                         *)
(* merchant-service writes and publishes its events the same way.          *)
(***************************************************************************)
EXTENDS Naturals

CONSTANTS
    Publishers,   \* publisher processes
    Nobody,       \* the lock token of an unclaimed row
    Last,         \* versions of the profile that change its tier: 1..Last
    Copies,       \* places for copies of messages at the broker (a bound)
    MaxRetries    \* maxRetries of the consumer

ASSUME Bounds == Last \in Nat /\ MaxRetries \in Nat /\ Nobody \notin Publishers

Versions == 1..Last

VARIABLES
    row,      \* user_outbox_events, by version
    pub,      \* what each publisher is doing, and for which version
    msg,      \* the copies at the broker or in the consumer
    declared, \* wallet-service's queue has been declared and bound
    bypassed, \* the versions confirmed without it that have not come since
    dead,     \* the versions with a dead letter
    inbox,    \* WalletInbox
    tier      \* the version whose tier the wallet has; 0 is the first

tierVars == <<row, pub, msg, declared, bypassed, dead, inbox, tier>>

Row == [status : {"NONE", "PENDING", "PROCESSING", "PUBLISHED", "FAILED"},
        lock : Publishers \cup {Nobody}, leased : BOOLEAN]
Message == [at : {"none", "queue", "held", "done", "failed", "retry"},
            of : Versions \cup {0}, n : 0..MaxRetries]

TierTypeOK ==
    /\ row \in [Versions -> Row]
    /\ pub \in [Publishers -> [do : {"idle", "send", "sent", "unsent"}, of : Versions \cup {0}]]
    /\ msg \in [Copies -> Message]
    /\ declared \in BOOLEAN
    /\ bypassed \in SUBSET Versions /\ dead \in SUBSET Versions /\ inbox \in SUBSET Versions
    /\ tier \in 0..Last

Free == [status |-> "NONE", lock |-> Nobody, leased |-> FALSE]
Idle == [do |-> "idle", of |-> 0]
NoCopy == [at |-> "none", of |-> 0, n |-> 0]

TierInit ==
    /\ row = [v \in Versions |-> Free]
    /\ pub = [p \in Publishers |-> Idle]
    /\ msg = [c \in Copies |-> NoCopy]
    /\ declared = FALSE
    /\ bypassed = {} /\ dead = {} /\ inbox = {}
    /\ tier = 0

-----------------------------------------------------------------------------
(* user-service: the profile and its outbox                                *)

\* recordTierChange: the row is written in the profile's own transaction.
TierChange(v) ==
    /\ row[v].status = "NONE" /\ \A u \in Versions : u < v => row[u].status # "NONE"
    /\ row' = [row EXCEPT ![v] = [status |-> "PENDING", lock |-> Nobody, leased |-> FALSE]]
    /\ UNCHANGED <<pub, msg, declared, bypassed, dead, inbox, tier>>

\* An earlier version that is not PUBLISHED, FAILED ones included, goes first.
InTurn_SkipsFailed(v) == \A u \in Versions : u < v => row[u].status \in {"PUBLISHED", "FAILED"}

InTurn(v) == \A u \in Versions : u < v => row[u].status = "PUBLISHED"

Claimable_PendingOnly(v) == row[v].status = "PENDING"

Claimable(v) ==
    \/ row[v].status = "PENDING"
    \/ row[v].status = "PROCESSING" /\ ~row[v].leased

Claim(p, v) ==
    /\ pub[p].do = "idle"
    /\ Claimable(v) /\ InTurn(v)
    /\ row' = [row EXCEPT ![v] = [status |-> "PROCESSING", lock |-> p, leased |-> TRUE]]
    /\ pub' = [pub EXCEPT ![p] = [do |-> "send", of |-> v]]
    /\ UNCHANGED <<msg, declared, bypassed, dead, inbox, tier>>

LeaseLapses(v) ==
    /\ row[v].leased
    /\ row' = [row EXCEPT ![v] = [status |-> row[v].status, lock |-> row[v].lock, leased |-> FALSE]]
    /\ UNCHANGED <<pub, msg, declared, bypassed, dead, inbox, tier>>

\* A copy of a message reaches a queue of the broker.
Lands(v, at, n) ==
    \E c \in Copies : msg[c].at = "none" /\ msg' = [msg EXCEPT ![c] = [at |-> at, of |-> v, n |-> n]]

Wait(p, do) == pub' = [pub EXCEPT ![p] = [do |-> do, of |-> pub[p].of]]

\* publishConfirmed: without the broker's confirmation, for whatever reason,
\* it fails, though the message may have landed.  A message for a queue that is
\* not there is confirmed all the same if notification-service's queue, bound
\* to the same key, is: mandatory asks for one queue, not for each.
Publish(p) ==
    LET v == pub[p].of IN
    /\ pub[p].do = "send"
    /\ \/ /\ declared /\ Lands(v, "queue", 0) /\ bypassed' = bypassed \ {v}
          /\ \E do \in {"sent", "unsent"} : Wait(p, do)
       \/ ~declared /\ bypassed' = bypassed \cup {v} /\ Wait(p, "sent") /\ UNCHANGED msg
       \/ Wait(p, "unsent") /\ UNCHANGED <<msg, bypassed>>
    /\ UNCHANGED <<row, declared, dead, inbox, tier>>

\* Written only under the token of the claim.
Mark(p, statuses) ==
    LET v == pub[p].of IN
    /\ pub' = [pub EXCEPT ![p] = Idle]
    /\ IF row[v].status = "PROCESSING" /\ row[v].lock = p
       THEN \E s \in statuses : row' = [row EXCEPT ![v] = [status |-> s, lock |-> Nobody, leased |-> FALSE]]
       ELSE UNCHANGED row
    /\ UNCHANGED <<msg, declared, bypassed, dead, inbox, tier>>

Published(p) == pub[p].do = "sent" /\ Mark(p, {"PUBLISHED"})

\* FAILED after the configured number of attempts, which is left open here.
Unpublished(p) == pub[p].do = "unsent" /\ Mark(p, {"PENDING", "FAILED"})

PublisherCrash(p) ==
    /\ pub[p].do # "idle"
    /\ pub' = [pub EXCEPT ![p] = Idle]
    /\ UNCHANGED <<row, msg, declared, bypassed, dead, inbox, tier>>

\* npm run outbox:replay, by an operator.
ReplayFailed(v) ==
    /\ row[v].status = "FAILED"
    /\ row' = [row EXCEPT ![v] = [status |-> "PENDING", lock |-> Nobody, leased |-> FALSE]]
    /\ UNCHANGED <<pub, msg, declared, bypassed, dead, inbox, tier>>

-----------------------------------------------------------------------------
(* The broker, and finvault-events' processConsumerMessage at the wallet   *)

\* The wallet's consumer starts for the first time; its queue outlives it.
DeclareQueue ==
    /\ ~declared
    /\ declared' = TRUE
    /\ UNCHANGED <<row, pub, msg, bypassed, dead, inbox, tier>>

Moved(c, at) == [at |-> at, of |-> msg[c].of, n |-> msg[c].n]

\* Up to prefetch messages are being processed at once, in any order.
Deliver(c) ==
    /\ msg[c].at = "queue"
    /\ msg' = [msg EXCEPT ![c] = Moved(c, "held")]
    /\ UNCHANGED <<row, pub, declared, bypassed, dead, inbox, tier>>

Handle_NoInbox(c) ==
    /\ msg[c].at = "held"
    /\ msg' = [msg EXCEPT ![c] = Moved(c, "done")]
    /\ inbox' = inbox \cup {msg[c].of} /\ tier' = msg[c].of
    /\ UNCHANGED <<row, pub, declared, bypassed, dead>>

\* The inbox key and the tier are written in one transaction; a duplicate is
\* only acknowledged.
Handle(c) ==
    /\ msg[c].at = "held"
    /\ msg' = [msg EXCEPT ![c] = Moved(c, "done")]
    /\ IF msg[c].of \in inbox
       THEN UNCHANGED <<inbox, tier>>
       ELSE inbox' = inbox \cup {msg[c].of} /\ tier' = msg[c].of
    /\ UNCHANGED <<row, pub, declared, bypassed, dead>>

HandlerFails(c) ==
    /\ msg[c].at = "held"
    /\ msg' = [msg EXCEPT ![c] = Moved(c, "failed")]
    /\ UNCHANGED <<row, pub, declared, bypassed, dead, inbox, tier>>

Ack(c) ==
    /\ msg[c].at = "done"
    /\ msg' = [msg EXCEPT ![c] = NoCopy]
    /\ UNCHANGED <<row, pub, declared, bypassed, dead, inbox, tier>>

\* Where a failed message goes: to a retry queue or, in the end, to the dead
\* letters.
Forwarded(c) == [at |-> "retry", of |-> msg[c].of, n |-> msg[c].n + 1]

Forward_AckFirst(c) ==
    /\ msg[c].at = "failed"
    /\ msg' = [msg EXCEPT ![c] = NoCopy] \/ msg' = [msg EXCEPT ![c] = Forwarded(c)]
    /\ msg[c].n < MaxRetries
    /\ UNCHANGED <<row, pub, declared, bypassed, dead, inbox, tier>>

Forward_OneMore(c) ==
    /\ msg[c].at = "failed"
    /\ IF msg[c].n <= MaxRetries
       THEN msg' = [msg EXCEPT ![c] = Forwarded(c)] /\ UNCHANGED dead
       ELSE msg' = [msg EXCEPT ![c] = NoCopy] /\ dead' = dead \cup {msg[c].of}
    /\ UNCHANGED <<row, pub, declared, bypassed, inbox, tier>>

\* The original is acknowledged once the copy is confirmed.
Forward(c) ==
    /\ msg[c].at = "failed"
    /\ IF msg[c].n < MaxRetries
       THEN msg' = [msg EXCEPT ![c] = Forwarded(c)] /\ UNCHANGED dead
       ELSE msg' = [msg EXCEPT ![c] = NoCopy] /\ dead' = dead \cup {msg[c].of}
    /\ UNCHANGED <<row, pub, declared, bypassed, inbox, tier>>

\* It is not, or the channel is lost before: the original comes back, and the
\* copy may be there as well.
ForwardLost(c) ==
    /\ msg[c].at = "failed"
    /\ \/ msg' = [msg EXCEPT ![c] = Moved(c, "queue")] /\ UNCHANGED dead
       \/ /\ msg[c].n < MaxRetries
          /\ \E d \in Copies :
                /\ msg[d].at = "none"
                /\ msg' = [msg EXCEPT ![c] = Moved(c, "queue"), ![d] = Forwarded(c)]
          /\ UNCHANGED dead
       \/ /\ msg[c].n = MaxRetries
          /\ msg' = [msg EXCEPT ![c] = Moved(c, "queue")] /\ dead' = dead \cup {msg[c].of}
    /\ UNCHANGED <<row, pub, declared, bypassed, inbox, tier>>

\* The consumer's process or its channel is lost.
ChannelLost(c) ==
    /\ msg[c].at \in {"held", "done"}
    /\ msg' = [msg EXCEPT ![c] = Moved(c, "queue")]
    /\ UNCHANGED <<row, pub, declared, bypassed, dead, inbox, tier>>

\* The retry queue's TTL runs out.
RetryDue(c) ==
    /\ msg[c].at = "retry"
    /\ msg' = [msg EXCEPT ![c] = Moved(c, "queue")]
    /\ UNCHANGED <<row, pub, declared, bypassed, dead, inbox, tier>>

-----------------------------------------------------------------------------
TierNext ==
    \/ DeclareQueue
    \/ \E v \in Versions : TierChange(v) \/ LeaseLapses(v) \/ ReplayFailed(v)
    \/ \E p \in Publishers :
          \/ \E v \in Versions : Claim(p, v)
          \/ Publish(p) \/ Published(p) \/ Unpublished(p) \/ PublisherCrash(p)
    \/ \E c \in Copies :
          \/ Deliver(c) \/ Handle(c) \/ HandlerFails(c) \/ Ack(c)
          \/ Forward(c) \/ ForwardLost(c) \/ ChannelLost(c) \/ RetryDue(c)

TierSpec == TierInit /\ [][TierNext]_tierVars

\* The publishers' loops, the consumer and the broker keep going; what can be
\* done again and again is not lost to a crash every time.
TierFairness ==
    /\ WF_tierVars(\E v \in Versions : LeaseLapses(v))
    /\ SF_tierVars(\E p \in Publishers, v \in Versions : Claim(p, v))
    /\ SF_tierVars(\E p \in Publishers, v \in Versions :
                      pub[p].of = v /\ row[v].lock = p /\ pub[p].do = "send" /\ Publish(p) /\ pub'[p].do = "sent")
    /\ SF_tierVars(\E p \in Publishers, v \in Versions : pub[p].of = v /\ row[v].lock = p /\ Published(p))
    /\ \A p \in Publishers : WF_tierVars(Publish(p)) /\ WF_tierVars(Published(p)) /\ WF_tierVars(Unpublished(p))
    /\ \A c \in Copies :
          /\ WF_tierVars(Deliver(c)) /\ WF_tierVars(RetryDue(c))
          /\ SF_tierVars(Handle(c)) /\ SF_tierVars(Forward(c)) /\ SF_tierVars(Ack(c))

-----------------------------------------------------------------------------
Somewhere(v) == v \in dead \/ \E c \in Copies : msg[c].of = v

\* A version leaves the outbox only after every earlier one has been confirmed
\* by the broker, whatever failed, lapsed or was replayed in between.
PublishedInOrder ==
    \A u, v \in Versions :
        u < v /\ (row[v].status \notin {"NONE", "PENDING"} \/ Somewhere(v) \/ v \in inbox)
            => row[u].status = "PUBLISHED"

\* What the outbox has marked PUBLISHED is in the wallet or still on its way,
\* in a queue, in the consumer or among the dead letters; only what every
\* confirmation of preceded the wallet's queue is nowhere.
NothingLost ==
    \A v \in Versions : row[v].status = "PUBLISHED" => v \in inbox \cup bypassed \/ Somewhere(v)

\* A message that comes again, through a lapsed lease, an unconfirmed copy or a
\* redelivery, never moves the tier back.
DuplicateIsHarmless == [][tier' # tier => tier' \notin inbox /\ tier' \in inbox']_tierVars

\* Under fair processes every tier change reaches the wallet, or is kept where
\* an operator finds it, a FAILED row or a dead letter; or it was confirmed
\* before the wallet had a queue.
ReachesWallet ==
    TierFairness =>
        \A v \in Versions :
            row[v].status # "NONE" ~> v \in inbox \cup dead \cup bypassed \/ (\E u \in 1..v : row[u].status = "FAILED")
=============================================================================
