---------------------------- MODULE FinanceNotices ----------------------------
(***************************************************************************)
(* How notification-service tells the parties of an event of               *)
(* finvault.events: one inbox row and one notification for each party in   *)
(* one transaction, then, once it has committed, the names of the parties  *)
(* and the sockets.                                                        *)
(*                                                                         *)
(* The module follows one event, whose copies two instances may work on;   *)
(* retries and dead letters are those of TierPropagation.                  *)
(***************************************************************************)
EXTENDS Naturals, FiniteSets

CONSTANTS
    Parties,    \* the sender and the receiver of a payment
    Handlings   \* deliveries of the event, first or again (a bound)

ASSUME KeysAreNoHandlings == Handlings \cap {"none", "kept"} = {}

VARIABLES
    recipients,   \* the parties the event is told to; {} if its data is invalid
    handling,     \* what each delivery is about to do
    inboxKey,     \* NotificationInbox: no row, the uncommitted row of a delivery, or the row
    notified,     \* parties with a notification
    named,        \* parties whose notification names the other one
    emitted       \* times each party was sent its notification over a socket

financeVars == <<recipients, handling, inboxKey, notified, named, emitted>>

FinanceTypeOK ==
    /\ recipients \subseteq Parties /\ notified \subseteq Parties
    /\ named \subseteq Parties
    /\ handling \in [Handlings -> [at : {"none", "begin", "create", "look", "enrich", "emit", "ack", "over"},
                                   of : SUBSET Parties]]
    /\ inboxKey \in {"none", "kept"} \cup Handlings
    /\ emitted \in [Parties -> Nat]

FinanceInit ==
    /\ recipients \in SUBSET Parties
    /\ handling = [h \in Handlings |-> [at |-> "none", of |-> {}]]
    /\ inboxKey = "none"
    /\ notified = {} /\ named = {}
    /\ emitted = [p \in Parties |-> 0]

\* of: the parties a step has done, or still has to do.
Handling(h, from, to, of) == handling[h].at = from /\ handling' = [handling EXCEPT ![h] = [at |-> to, of |-> of]]

-----------------------------------------------------------------------------
DeliverFinance(h) ==
    /\ Handling(h, "none", "begin", {})
    /\ UNCHANGED <<recipients, inboxKey, notified, named, emitted>>

\* runOnce: the INSERT waits for that of another delivery; after it the row is
\* this delivery's, or there was one.
InsertInbox(h) ==
    /\ \/ inboxKey = "none" /\ Handling(h, "begin", "create", {}) /\ inboxKey' = h
       \/ inboxKey = "kept" /\ Handling(h, "begin", "ack", {}) /\ UNCHANGED inboxKey
    /\ UNCHANGED <<recipients, notified, named, emitted>>

\* Mutant: the sockets are served as soon as the rows are created.
CreateNotification_Emits(h) ==
    /\ \E p \in recipients \ handling[h].of :
          /\ Handling(h, "create", "create", handling[h].of \cup {p})
          /\ emitted' = [emitted EXCEPT ![p] = @ + 1]
    /\ UNCHANGED <<recipients, inboxKey, notified, named>>

\* One by one, seen by nobody else before the commit.
CreateNotification(h) ==
    /\ \E p \in recipients \ handling[h].of : Handling(h, "create", "create", handling[h].of \cup {p})
    /\ UNCHANGED <<recipients, inboxKey, notified, named, emitted>>

CommitNotifications(h) ==
    /\ recipients # {} /\ handling[h].of = recipients
    /\ Handling(h, "create", "look", recipients)
    /\ inboxKey' = "kept" /\ notified' = notified \cup recipients
    /\ UNCHANGED <<recipients, named, emitted>>

\* A recipient is missing from the data, or the database fails.
RollsBack(h) ==
    /\ \E at \in {"begin", "create"} : Handling(h, at, "over", {})
    /\ inboxKey' = IF inboxKey = h THEN "none" ELSE inboxKey
    /\ UNCHANGED <<recipients, notified, named, emitted>>

\* getFullName of both: from the cache, from user-service or not at all.
LookUpNames(h) ==
    /\ \E found \in SUBSET recipients :
          Handling(h, "look", "enrich", IF Cardinality(recipients) > 1 THEN found ELSE {})
    /\ UNCHANGED <<recipients, inboxKey, notified, named, emitted>>

\* Whose counterparty has a name; an update that fails leaves the first text.
UpdateNotifications(h) ==
    /\ Handling(h, "enrich", "emit", recipients)
    /\ \E failed \in SUBSET recipients :
          named' = named \cup {p \in recipients \ failed : \E q \in handling[h].of : q # p}
    /\ UNCHANGED <<recipients, inboxKey, notified, emitted>>

Emit(h) ==
    /\ \E p \in handling[h].of :
          /\ Handling(h, "emit", "emit", handling[h].of \ {p})
          /\ emitted' = [emitted EXCEPT ![p] = @ + 1]
    /\ UNCHANGED <<recipients, inboxKey, notified, named>>

AckFinance(h) ==
    /\ \/ Handling(h, "emit", "over", {}) /\ handling[h].of = {}
       \/ Handling(h, "ack", "over", {})
    /\ UNCHANGED <<recipients, inboxKey, notified, named, emitted>>

\* The process dies: an open transaction is rolled back, what was to follow the
\* commit is lost, the message comes again.
InstanceDies(h) ==
    /\ \E at \in {"begin", "create", "look", "enrich", "emit", "ack"} : Handling(h, at, "over", {})
    /\ inboxKey' = IF inboxKey = h THEN "none" ELSE inboxKey
    /\ UNCHANGED <<recipients, notified, named, emitted>>

FinanceNext ==
    \E h \in Handlings :
        \/ DeliverFinance(h) \/ InsertInbox(h) \/ CreateNotification(h) \/ CommitNotifications(h)
        \/ RollsBack(h) \/ LookUpNames(h) \/ UpdateNotifications(h) \/ Emit(h)
        \/ AckFinance(h) \/ InstanceDies(h)

FinanceSpec == FinanceInit /\ [][FinanceNext]_financeVars

-----------------------------------------------------------------------------
\* All parties of the event are told or none is, whichever delivery fails at
\* whichever party; a delivery that is about to be acknowledged has told them;
\* and nobody is shown a notification that is not stored, or twice.
PartiesToldTogether ==
    /\ notified \in {{}, recipients}
    /\ \A h \in Handlings : handling[h].at \in {"emit", "ack"} => notified = recipients /\ recipients # {}
    /\ \A p \in Parties : emitted[p] <= 1 /\ (emitted[p] > 0 => p \in notified)
    /\ \A p \in named : p \in notified /\ Cardinality(recipients) > 1
=============================================================================
