---------------------------- MODULE Registration ----------------------------
(***************************************************************************)
(* How a new account of auth-service becomes a profile of user-service and *)
(* a wallet of wallet-service: the outbox row written with the account,    *)
(* auth-service's workers, and the two consumers of user.registered, with  *)
(* the first tier of the profile on its way to the same wallet.            *)
(***************************************************************************)
EXTENDS Naturals

CONSTANTS
    AuthWorkers,       \* instances of auth-service; each runs one batch at a time
    NoWorker,
    Parcels,           \* places for copies of the event at the queues (a bound)
    MaxParcelRetries   \* retries of either consumer

ASSUME RegistrationBounds == NoWorker \notin AuthWorkers /\ MaxParcelRetries \in Nat

Takers == {"user", "wallet"}

VARIABLES
    account,   \* the outbox row: status, lockToken, lockedUntil
    clerk,     \* what each worker is about to do
    bound,     \* services whose queue has been declared
    missed,    \* services without a queue when the event was confirmed
    parcel,    \* the copies of the event: where, whose, and how often retried
    lost,      \* services with the event among their dead letters
    profile,   \* the profile and its consumed_events row exist
    taken,     \* wallet-service's inbox has the event
    purse,     \* the wallet and its tier
    upgrade    \* user.kyc_updated of this profile: "none", "sent" or "applied"

regVars == <<account, clerk, bound, missed, parcel, lost, profile, taken, purse, upgrade>>

Purses == {"none", "tier0", "tier1"}

RegTypeOK ==
    /\ account \in [status : {"NONE", "PENDING", "PUBLISHED"}, token : AuthWorkers \cup {NoWorker}, leased : BOOLEAN]
    /\ clerk \in [AuthWorkers -> {"idle", "send", "sent", "unsent"}]
    /\ bound \subseteq Takers /\ missed \subseteq Takers /\ lost \subseteq Takers
    /\ parcel \in [Parcels -> [at : {"none", "queue", "done", "failed", "refused"},
                               to : Takers, n : 0..MaxParcelRetries]]
    /\ profile \in BOOLEAN /\ taken \in BOOLEAN
    /\ purse \in Purses /\ upgrade \in {"none", "sent", "applied"}

NoParcel == [at |-> "none", to |-> "user", n |-> 0]

RegInit ==
    /\ account = [status |-> "NONE", token |-> NoWorker, leased |-> FALSE]
    /\ clerk = [w \in AuthWorkers |-> "idle"]
    /\ bound = {} /\ missed = {} /\ lost = {}
    /\ parcel = [c \in Parcels |-> NoParcel]
    /\ profile = FALSE
    /\ taken = FALSE /\ purse = "none" /\ upgrade = "none"

-----------------------------------------------------------------------------
(* auth-service                                                            *)

Clerk(w, from, to) == clerk[w] = from /\ clerk' = [clerk EXCEPT ![w] = to]

\* The account and its outbox row are one transaction.
RegisterAccount ==
    /\ account.status = "NONE"
    /\ account' = [account EXCEPT !.status = "PENDING"]
    /\ UNCHANGED <<clerk, bound, missed, parcel, lost, profile, taken, purse, upgrade>>

ClaimAuthEvent(w) ==
    /\ account.status = "PENDING" /\ ~account.leased
    /\ Clerk(w, "idle", "send")
    /\ account' = [status |-> "PENDING", token |-> w, leased |-> TRUE]
    /\ UNCHANGED <<bound, missed, parcel, lost, profile, taken, purse, upgrade>>

\* 30 seconds; the time to the next attempt is part of them here.
AuthLeaseLapses ==
    /\ account.leased
    /\ account' = [account EXCEPT !.leased = FALSE]
    /\ UNCHANGED <<clerk, bound, missed, parcel, lost, profile, taken, purse, upgrade>>

\* One copy for each queue that is there.
ReachesQueues(to) ==
    \E place \in [to -> Parcels] :
        /\ \A s, t \in to : parcel[place[s]].at = "none" /\ (place[s] = place[t] => s = t)
        /\ parcel' = [c \in Parcels |->
                         IF \E s \in to : place[s] = c
                         THEN [at |-> "queue", to |-> CHOOSE s \in to : place[s] = c, n |-> 0]
                         ELSE parcel[c]]

\* With mandatory, a message for which there is no queue at all is returned;
\* one that only some of its consumers have a queue for is not, and
\* notification-service may be the only one that has.
PublishRegistered(w) ==
    /\ \/ ReachesQueues(bound) /\ Clerk(w, "send", "sent") /\ missed' = Takers \ bound
       \/ Clerk(w, "send", "unsent") /\ (ReachesQueues(bound) \/ UNCHANGED parcel) /\ UNCHANGED missed
    /\ UNCHANGED <<account, bound, lost, profile, taken, purse, upgrade>>

\* Under the token; a failure leaves the row PENDING, however often.
MarkAuthEvent(w) ==
    /\ Clerk(w, "sent", "idle") \/ Clerk(w, "unsent", "idle")
    /\ account' = IF account.token = w
                  THEN [status |-> IF clerk[w] = "sent" THEN "PUBLISHED" ELSE account.status,
                        token |-> NoWorker, leased |-> FALSE]
                  ELSE account
    /\ UNCHANGED <<bound, missed, parcel, lost, profile, taken, purse, upgrade>>

AuthWorkerDies(w) ==
    /\ clerk[w] # "idle"
    /\ clerk' = [clerk EXCEPT ![w] = "idle"]
    /\ UNCHANGED <<account, bound, missed, parcel, lost, profile, taken, purse, upgrade>>

-----------------------------------------------------------------------------
(* The consumers                                                           *)

\* A service declares its queue as its consumer starts for the first time.
AssertQueue(s) ==
    /\ s \notin bound
    /\ bound' = bound \cup {s}
    /\ UNCHANGED <<account, clerk, missed, parcel, lost, profile, taken, purse, upgrade>>

Sent(c, at) == parcel' = [parcel EXCEPT ![c] = [at |-> at, to |-> parcel[c].to, n |-> parcel[c].n]]

\* consumeRegistration, one serializable transaction; a conflict with another
\* profile is permanent.
ConsumeRegistration(c) ==
    /\ parcel[c].at = "queue" /\ parcel[c].to = "user"
    /\ \/ profile' = TRUE /\ Sent(c, "done")
       \/ ~profile /\ UNCHANGED profile /\ Sent(c, "refused")
       \/ UNCHANGED profile /\ Sent(c, "failed")
    /\ UNCHANGED <<account, clerk, bound, missed, lost, taken, purse, upgrade>>

\* Mutant: the registration writes the tier of a wallet that exists.
ProvisionWallet_Resets(c) ==
    /\ parcel[c].at = "queue" /\ parcel[c].to = "wallet"
    /\ \/ taken' = TRUE /\ Sent(c, "done") /\ purse' = IF taken THEN purse ELSE "tier0"
       \/ UNCHANGED <<taken, purse>> /\ Sent(c, "failed")
    /\ UNCHANGED <<account, clerk, bound, missed, lost, profile, upgrade>>

\* The inbox row and the wallet, which is left as it is if it exists.
ProvisionWallet(c) ==
    /\ parcel[c].at = "queue" /\ parcel[c].to = "wallet"
    /\ \/ taken' = TRUE /\ Sent(c, "done") /\ purse' = IF purse = "none" THEN "tier0" ELSE purse
       \/ UNCHANGED <<taken, purse>> /\ Sent(c, "failed")
    /\ UNCHANGED <<account, clerk, bound, missed, lost, profile, upgrade>>

AckParcel(c) ==
    /\ parcel[c].at = "done"
    /\ parcel' = [parcel EXCEPT ![c] = NoParcel]
    /\ UNCHANGED <<account, clerk, bound, missed, lost, profile, taken, purse, upgrade>>

\* To the end of the queue or to the dead letters, and then the original is
\* acknowledged; without the confirmation it comes again.
RetryParcel(c) ==
    LET again == parcel[c].at = "failed" /\ parcel[c].n < MaxParcelRetries
        copy == [at |-> "queue", to |-> parcel[c].to, n |-> parcel[c].n + 1]
        home == [at |-> "queue", to |-> parcel[c].to, n |-> parcel[c].n]
    IN
    /\ parcel[c].at \in {"failed", "refused"}
    /\ \/ again /\ parcel' = [parcel EXCEPT ![c] = copy] /\ UNCHANGED lost
       \/ ~again /\ parcel' = [parcel EXCEPT ![c] = NoParcel] /\ lost' = lost \cup {parcel[c].to}
       \/ parcel' = [parcel EXCEPT ![c] = home] /\ lost' \in {lost, IF again THEN lost ELSE lost \cup {parcel[c].to}}
       \/ again /\ UNCHANGED lost
             /\ \E d \in Parcels : parcel[d].at = "none" /\ parcel' = [parcel EXCEPT ![c] = home, ![d] = copy]
    /\ UNCHANGED <<account, clerk, bound, missed, profile, taken, purse, upgrade>>

ParcelReturns(c) ==
    /\ parcel[c].at \in {"done", "failed", "refused"}
    /\ Sent(c, "queue")
    /\ UNCHANGED <<account, clerk, bound, missed, lost, profile, taken, purse, upgrade>>

\* The profile is approved, and its tier goes to the wallet by TierPropagation.
UpgradeProfile ==
    /\ profile /\ upgrade = "none"
    /\ upgrade' = "sent"
    /\ UNCHANGED <<account, clerk, bound, missed, parcel, lost, profile, taken, purse>>

\* Which makes the wallet if it is the first to arrive.
ApplyUpgrade ==
    /\ upgrade = "sent"
    /\ upgrade' = "applied" /\ purse' = "tier1"
    /\ UNCHANGED <<account, clerk, bound, missed, parcel, lost, profile, taken>>

RegNext ==
    \/ RegisterAccount \/ AuthLeaseLapses \/ UpgradeProfile \/ ApplyUpgrade
    \/ \E w \in AuthWorkers : ClaimAuthEvent(w) \/ PublishRegistered(w) \/ MarkAuthEvent(w) \/ AuthWorkerDies(w)
    \/ \E s \in Takers : AssertQueue(s)
    \/ \E c \in Parcels :
          \/ ConsumeRegistration(c) \/ ProvisionWallet(c)
          \/ AckParcel(c) \/ RetryParcel(c) \/ ParcelReturns(c)

RegSpec == RegInit /\ [][RegNext]_regVars

-----------------------------------------------------------------------------
Settled(s) == IF s = "user" THEN profile ELSE taken

\* An account whose event has left the outbox has its profile and its wallet,
\* or the event is on its way there or among the dead letters; only a service
\* that had never declared its queue hears nothing.  A wallet that the first
\* tier has made or changed keeps that tier when the registration comes late.
NobodyForgotten ==
    /\ account.status = "PUBLISHED" =>
          \A s \in Takers \ missed :
             Settled(s) \/ s \in lost \/ \E c \in Parcels : parcel[c].at # "none" /\ parcel[c].to = s
    /\ upgrade = "applied" => purse = "tier1"
=============================================================================
