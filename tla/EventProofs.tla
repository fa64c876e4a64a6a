---------------------------- MODULE EventProofs ----------------------------
(***************************************************************************)
(* For any number of processes, copies and retries: what the services tell *)
(* each other reaches the other side, or is left where somebody finds it,  *)
(* and once it has, coming again changes nothing.                          *)
(***************************************************************************)
EXTENDS TierPropagation, EventConsumer, Registration, FinanceNotices, WalletOutbox,
        FiniteSetTheorems, TLAPS

-----------------------------------------------------------------------------
(* TierPropagation                                                         *)

\* The outbox lets versions out in order, and what it has marked PUBLISHED is in
\* the wallet, on its way, among the dead letters, or was confirmed without its queue.
Statuses == {"NONE", "PENDING", "PROCESSING", "PUBLISHED", "FAILED"}

\* A publisher has a version in its hands.
InHand(v) == \E p \in Publishers : pub[p].do # "idle" /\ pub[p].of = v

\* In the wallet or on its way; or confirmed before the wallet had a queue.
Safe(v) == v \in inbox \cup bypassed \/ Somewhere(v)

\* Out of the outbox, or on its way out.
Out(v) == row[v].status \notin {"NONE", "PENDING"} \/ Safe(v) \/ InHand(v)

InOrder == \A u, v \in Versions : u < v /\ Out(v) => row[u].status = "PUBLISHED"

Kept ==
    /\ \A v \in Versions : row[v].status = "PUBLISHED" => Safe(v)
    /\ \A p \in Publishers : pub[p].do = "sent" => Safe(pub[p].of)

\* What a place holds is a version; what the consumer has done is in the inbox.
MessagesFit ==
    /\ \A c \in Copies : msg[c].at # "none" => msg[c].of \in Versions
    /\ \A c \in Copies : msg[c].at = "none" => msg[c].of = 0
    /\ \A c \in Copies : msg[c].at = "done" => msg[c].of \in inbox
    /\ \A p \in Publishers : pub[p].do # "idle" => pub[p].of \in Versions

TierInv == TierTypeOK /\ InOrder /\ Kept /\ MessagesFit

USE Bounds DEF TierInv, TierTypeOK, MessagesFit, Versions, Row, Message

LEMMA InitTier == TierInit => TierInv
<1> SUFFICES ASSUME TierInit PROVE TierInv
  OBVIOUS
<1>1. TierTypeOK
  <2>1. declared \in BOOLEAN
    BY DEF TierInit
  <2> QED BY <2>1 DEF TierInit, Free, Idle, NoCopy
<1>2. MessagesFit
  BY DEF TierInit, Idle, NoCopy
<1>3. \A v \in Versions : ~Out(v) /\ row[v].status = "NONE"
  BY DEF TierInit, Out, Safe, Somewhere, InHand, Free, Idle, NoCopy
<1>4. \A p \in Publishers : pub[p].do = "idle"
  BY DEF TierInit, Idle
<1> QED BY <1>1, <1>2, <1>3, <1>4 DEF InOrder, Kept

-----------------------------------------------------------------------------
(* The broker and the consumer move a version about, but neither lose it   *)
(* nor bring up another.                                                   *)

ConsumerKeeps ==
    /\ msg' \in [Copies -> Message] /\ dead' \in SUBSET Versions /\ inbox' \in SUBSET Versions
    /\ tier' \in 0..Last /\ declared' \in BOOLEAN /\ bypassed' = bypassed
    /\ MessagesFit'
    /\ \A v \in Versions : Safe(v)' <=> Safe(v)

LEMMA StepConsumer ==
    ASSUME TierInv, ConsumerKeeps, UNCHANGED <<row, pub>> PROVE TierInv'
<1>1. TierTypeOK' /\ MessagesFit'
  BY DEF ConsumerKeeps
<1>2. \A v \in Versions : Out(v)' <=> Out(v)
  BY DEF ConsumerKeeps, Out, InHand
<1>3. InOrder'
  BY <1>2 DEF InOrder
<1>4. Kept'
  BY DEF Kept, ConsumerKeeps
<1> QED BY <1>1, <1>3, <1>4

\* One place takes another message about the same version.
LEMMA CopyMoves ==
    ASSUME TierTypeOK, MessagesFit, NEW c \in Copies, NEW m \in Message, msg[c].at # "none",
           m.of = msg[c].of, m.at \in {"queue", "held", "failed", "retry"},
           msg' = [msg EXCEPT ![c] = m], UNCHANGED <<pub, declared, bypassed, dead, inbox, tier>>
    PROVE  ConsumerKeeps
  BY DEF Safe, Somewhere, ConsumerKeeps

LEMMA MovesAbout ==
    ASSUME NEW c \in Copies, TierInv,
           Deliver(c) \/ HandlerFails(c) \/ ChannelLost(c) \/ RetryDue(c)
    PROVE  ConsumerKeeps
<1>1. PICK at \in {"queue", "held", "failed"} :
        /\ msg[c].at # "none" /\ msg' = [msg EXCEPT ![c] = Moved(c, at)]
        /\ UNCHANGED <<pub, declared, bypassed, dead, inbox, tier>>
  BY DEF Deliver, HandlerFails, ChannelLost, RetryDue
<1>2. Moved(c, at) \in Message /\ Moved(c, at).of = msg[c].of /\ Moved(c, at).at = at
  BY DEF Moved
<1> QED BY <1>1, <1>2, CopyMoves

LEMMA HandleKeeps == ASSUME NEW c \in Copies, TierInv, Handle(c) PROVE ConsumerKeeps
<1>1. /\ msg[c].at = "held" /\ msg[c].of \in Versions
      /\ msg' = [msg EXCEPT ![c] = [at |-> "done", of |-> msg[c].of, n |-> msg[c].n]]
      /\ UNCHANGED <<row, pub, declared, bypassed, dead>>
  BY DEF Handle, Moved
<1>2. inbox' = inbox \cup {msg[c].of} /\ tier' \in 0..Last
  BY <1>1 DEF Handle
<1>3. \A d \in Copies : msg'[d].of = msg[d].of
  BY <1>1
<1>4. MessagesFit'
  BY <1>1, <1>2
<1>5. \A v \in Versions : Safe(v)' <=> Safe(v)
  BY <1>1, <1>2, <1>3 DEF Safe, Somewhere
<1> QED BY <1>1, <1>2, <1>4, <1>5 DEF ConsumerKeeps

LEMMA AckKeeps == ASSUME NEW c \in Copies, TierInv, Ack(c) PROVE ConsumerKeeps
<1>1. /\ msg[c].at = "done" /\ msg[c].of \in inbox
      /\ msg' = [msg EXCEPT ![c] = NoCopy]
      /\ UNCHANGED <<row, pub, declared, bypassed, dead, inbox, tier>>
  BY DEF Ack
<1> QED BY <1>1 DEF ConsumerKeeps, Safe, Somewhere, NoCopy

LEMMA ForwardKeeps == ASSUME NEW c \in Copies, TierInv, Forward(c) PROVE ConsumerKeeps
<1>1. CASE msg[c].n < MaxRetries
  <2>1. /\ msg[c].at = "failed" /\ msg' = [msg EXCEPT ![c] = Forwarded(c)]
        /\ UNCHANGED <<pub, declared, bypassed, dead, inbox, tier>>
    BY <1>1 DEF Forward
  <2>2. Forwarded(c) \in Message /\ Forwarded(c).of = msg[c].of /\ Forwarded(c).at = "retry"
    BY <1>1 DEF Forwarded
  <2> QED BY <2>1, <2>2, CopyMoves
<1>2. CASE ~(msg[c].n < MaxRetries)
  <2>1. /\ msg[c].at = "failed" /\ msg[c].of \in Versions /\ msg' = [msg EXCEPT ![c] = NoCopy]
        /\ dead' = dead \cup {msg[c].of} /\ UNCHANGED <<pub, declared, bypassed, inbox, tier>>
    BY <1>2 DEF Forward
  <2>2. msg' \in [Copies -> Message] /\ dead' \in SUBSET Versions /\ MessagesFit'
    <3>1. NoCopy \in Message /\ NoCopy.at = "none" /\ NoCopy.of = 0
      BY DEF NoCopy
    <3>2. msg' \in [Copies -> Message] /\ dead' \in SUBSET Versions
      BY <2>1, <3>1
    <3>3. MessagesFit'
      BY <2>1, <3>1
    <3> QED BY <3>2, <3>3
  <2>3. \A d \in Copies \ {c} : msg'[d] = msg[d]
    BY <2>1
  <2>4. msg'[c].of = 0
    BY <2>1 DEF NoCopy
  <2>5. \A v \in Versions : Safe(v)' <=> Safe(v)
    <3> HIDE DEF Message, Versions
    <3>1. \A v \in Versions : v # 0
      BY DEF Versions
    <3> QED BY <2>1, <2>3, <2>4, <3>1 DEF Safe, Somewhere
  <2> QED BY <2>1, <2>2, <2>5 DEF ConsumerKeeps
<1> QED BY <1>1, <1>2

LEMMA ForwardLostKeeps == ASSUME NEW c \in Copies, TierInv, ForwardLost(c) PROVE ConsumerKeeps
<1>1. msg[c].at = "failed" /\ msg[c].of \in Versions /\ UNCHANGED <<pub, declared, bypassed, inbox, tier>>
  BY DEF ForwardLost
<1>2. Moved(c, "queue") \in Message /\ Moved(c, "queue").of = msg[c].of /\ Moved(c, "queue").at = "queue"
  BY DEF Moved
<1>3. CASE msg' = [msg EXCEPT ![c] = Moved(c, "queue")] /\ UNCHANGED dead
  BY <1>1, <1>2, <1>3, CopyMoves
<1>4. ASSUME NEW d \in Copies, msg[d].at = "none", msg[c].n < MaxRetries,
             msg' = [msg EXCEPT ![c] = Moved(c, "queue"), ![d] = Forwarded(c)], UNCHANGED dead
      PROVE  ConsumerKeeps
  <2>1. Forwarded(c) \in Message /\ Forwarded(c).of = msg[c].of /\ Forwarded(c).at = "retry"
    BY <1>4 DEF Forwarded
  <2>2. c # d
    BY <1>1, <1>4
  <2> HIDE DEF Message
  <2>3. /\ msg' \in [Copies -> Message]
        /\ msg'[c] = Moved(c, "queue") /\ msg'[d] = Forwarded(c)
        /\ \A e \in Copies \ {c, d} : msg'[e] = msg[e]
    BY <1>2, <1>4, <2>1, <2>2
  <2>4. \A v \in Versions : Safe(v)' <=> Safe(v)
    <3>1. msg'[c].of = msg[c].of /\ msg'[d].of = msg[c].of /\ msg[d].of = 0
      BY <1>2, <1>4, <2>1, <2>3
    <3>2. \A v \in Versions : v # 0
      OBVIOUS
    <3> HIDE DEF Versions
    <3> QED BY <1>1, <1>4, <2>3, <3>1, <3>2 DEF Safe, Somewhere
  <2>5. MessagesFit'
    BY <1>1, <1>2, <1>4, <2>1, <2>3
  <2> QED BY <1>1, <1>4, <2>3, <2>4, <2>5 DEF ConsumerKeeps
<1>5. CASE msg' = [msg EXCEPT ![c] = Moved(c, "queue")] /\ dead' = dead \cup {msg[c].of}
  BY <1>1, <1>2, <1>5 DEF ConsumerKeeps, Safe, Somewhere
<1> QED BY <1>3, <1>4, <1>5 DEF ForwardLost

-----------------------------------------------------------------------------
(* The outbox and its publishers                                           *)

LEMMA StepTierChange == ASSUME NEW v \in Versions, TierInv, TierChange(v) PROVE TierInv'
<1>1. /\ row[v].status = "NONE" /\ UNCHANGED <<pub, msg, declared, bypassed, dead, inbox, tier>>
      /\ row' = [row EXCEPT ![v] = [status |-> "PENDING", lock |-> Nobody, leased |-> FALSE]]
  BY DEF TierChange
<1>2. \A u \in Versions : (Out(u)' => Out(u)) /\ (row'[u].status = "PUBLISHED" <=> row[u].status = "PUBLISHED")
  BY <1>1 DEF Out, InHand, Safe, Somewhere
<1>3. \A u \in Versions : Safe(u)' <=> Safe(u)
  BY <1>1 DEF Safe, Somewhere
<1>4. TierTypeOK' /\ MessagesFit'
  BY <1>1
<1> QED BY <1>1, <1>2, <1>3, <1>4 DEF InOrder, Kept

LEMMA StepLeaseLapses == ASSUME NEW v \in Versions, TierInv, LeaseLapses(v) PROVE TierInv'
<1>1. /\ row' = [row EXCEPT ![v] = [status |-> row[v].status, lock |-> row[v].lock, leased |-> FALSE]]
      /\ UNCHANGED <<pub, msg, declared, bypassed, dead, inbox, tier>>
  BY DEF LeaseLapses
<1>2. \A u \in Versions : (Out(u)' => Out(u)) /\ (row'[u].status = "PUBLISHED" <=> row[u].status = "PUBLISHED")
  BY <1>1 DEF Out, InHand, Safe, Somewhere
<1>3. \A u \in Versions : Safe(u)' <=> Safe(u)
  BY <1>1 DEF Safe, Somewhere
<1>4. TierTypeOK' /\ MessagesFit'
  BY <1>1
<1> QED BY <1>1, <1>2, <1>3, <1>4 DEF InOrder, Kept

LEMMA StepReplayFailed == ASSUME NEW v \in Versions, TierInv, ReplayFailed(v) PROVE TierInv'
<1>1. /\ row[v].status = "FAILED" /\ UNCHANGED <<pub, msg, declared, bypassed, dead, inbox, tier>>
      /\ row' = [row EXCEPT ![v] = [status |-> "PENDING", lock |-> Nobody, leased |-> FALSE]]
  BY DEF ReplayFailed
<1>2. \A u \in Versions : (Out(u)' => Out(u)) /\ (row'[u].status = "PUBLISHED" <=> row[u].status = "PUBLISHED")
  BY <1>1 DEF Out, InHand, Safe, Somewhere
<1>3. \A u \in Versions : Safe(u)' <=> Safe(u)
  BY <1>1 DEF Safe, Somewhere
<1>4. TierTypeOK' /\ MessagesFit'
  BY <1>1
<1> QED BY <1>1, <1>2, <1>3, <1>4 DEF InOrder, Kept

\* Here a version first leaves the outbox: InTurn is what keeps the order.
LEMMA StepClaim ==
    ASSUME NEW p \in Publishers, NEW v \in Versions, TierInv, Claim(p, v) PROVE TierInv'
<1>1. /\ pub[p].do = "idle" /\ UNCHANGED <<msg, declared, bypassed, dead, inbox, tier>>
      /\ \A u \in Versions : u < v => row[u].status = "PUBLISHED"
      /\ row[v].status # "PUBLISHED"
      /\ row' = [row EXCEPT ![v] = [status |-> "PROCESSING", lock |-> p, leased |-> TRUE]]
      /\ pub' = [pub EXCEPT ![p] = [do |-> "send", of |-> v]]
  BY DEF Claim, Claimable, InTurn
<1>2. TierTypeOK' /\ MessagesFit'
  BY <1>1
<1>3. \A u \in Versions : Safe(u)' <=> Safe(u)
  BY <1>1 DEF Safe, Somewhere
<1>4. \A u \in Versions \ {v} : row'[u] = row[u] /\ (Out(u)' => Out(u))
  BY <1>1, <1>3 DEF Out, InHand
<1>5. InOrder'
  <2> SUFFICES ASSUME NEW u \in Versions, NEW x \in Versions, u < x, Out(x)' PROVE row'[u].status = "PUBLISHED"
    BY DEF InOrder
  <2>1. CASE x = v
    BY <1>1, <1>4, <2>1
  <2>2. CASE x # v
    BY <1>1, <1>4, <2>2 DEF InOrder
  <2> QED BY <2>1, <2>2
<1>6. Kept'
  BY <1>1, <1>3 DEF Kept
<1> QED BY <1>2, <1>5, <1>6

LEMMA StepPublish == ASSUME NEW p \in Publishers, TierInv, Publish(p) PROVE TierInv'
<1> DEFINE v == pub[p].of
           Landed == Lands(v, "queue", 0) /\ bypassed' = bypassed \ {v}
           Passed == UNCHANGED msg /\ bypassed' = bypassed \cup {v}
<1>1. /\ pub[p].do = "send" /\ v \in Versions /\ UNCHANGED <<row, declared, dead, inbox, tier>>
      /\ \E do \in {"sent", "unsent"} :
            /\ pub' = [pub EXCEPT ![p] = [do |-> do, of |-> v]]
            /\ (do = "sent" => Landed \/ Passed) /\ (Landed \/ Passed \/ UNCHANGED <<msg, bypassed>>)
  BY DEF Publish, Wait
<1>2. ASSUME Lands(v, "queue", 0)
      PROVE  /\ msg' \in [Copies -> Message]
             /\ \A c \in Copies : msg'[c].at # "none" => msg'[c].of \in Versions
             /\ \A c \in Copies : msg'[c].at = "none" => msg'[c].of = 0
             /\ \A c \in Copies : msg'[c].at = "done" => msg'[c].of \in inbox
             /\ \A u \in Versions : (\E c \in Copies : msg'[c].of = u) <=> (u = v \/ \E c \in Copies : msg[c].of = u)
  <2>1. PICK c \in Copies : msg[c].at = "none" /\ msg' = [msg EXCEPT ![c] = [at |-> "queue", of |-> v, n |-> 0]]
    BY <1>2 DEF Lands
  <2> HIDE DEF v
  <2> QED BY <1>1, <2>1
<1>3. /\ \A u \in Versions : (Safe(u) => Safe(u)') /\ (Safe(u)' => Safe(u) \/ u = v)
      /\ Landed \/ Passed => Safe(v)'
  <2>1. CASE Landed
    BY <1>1, <1>2, <2>1 DEF Safe, Somewhere
  <2>2. CASE Passed
    BY <1>1, <2>2 DEF Safe, Somewhere
  <2>3. CASE UNCHANGED <<msg, bypassed>> /\ ~(Landed \/ Passed)
    BY <1>1, <2>3 DEF Safe, Somewhere
  <2> QED BY <1>1, <2>1, <2>2, <2>3
<1>5. TierTypeOK' /\ MessagesFit'
  <2>1. bypassed' \in SUBSET Versions
    BY <1>1
  <2>2. CASE Lands(v, "queue", 0)
    BY <1>1, <1>2, <2>1, <2>2
  <2>3. CASE UNCHANGED msg
    BY <1>1, <2>1, <2>3
  <2> QED BY <1>1, <2>2, <2>3
<1>6. InHand(v) /\ \A u \in Versions : InHand(u)' => InHand(u)
  BY <1>1 DEF InHand
<1> HIDE DEF Landed, Passed
<1>7. InOrder'
  BY <1>1, <1>3, <1>6 DEF InOrder, Out
<1>8. Kept'
  BY <1>1, <1>3 DEF Kept
<1> QED BY <1>5, <1>7, <1>8

LEMMA StepMark ==
    ASSUME NEW p \in Publishers, NEW statuses \in SUBSET {"PUBLISHED", "PENDING", "FAILED"}, TierInv,
           pub[p].do # "idle", "PUBLISHED" \in statuses => pub[p].do = "sent", Mark(p, statuses)
    PROVE  TierInv'
<1> DEFINE v == pub[p].of
<1>1. /\ v \in Versions /\ pub' = [pub EXCEPT ![p] = Idle] /\ UNCHANGED <<msg, declared, bypassed, dead, inbox, tier>>
      /\ \/ UNCHANGED row
         \/ /\ row[v].status = "PROCESSING"
            /\ \E s \in statuses : row' = [row EXCEPT ![v] = [status |-> s, lock |-> Nobody, leased |-> FALSE]]
  BY DEF Mark
<1>2. \A u \in Versions : Safe(u)' <=> Safe(u)
  BY <1>1 DEF Safe, Somewhere
<1>3. TierTypeOK' /\ MessagesFit'
  <2>1. row' \in [Versions -> Row]
    <3>1. CASE UNCHANGED row
      BY <3>1
    <3>2. ASSUME NEW s \in statuses,
                 row' = [row EXCEPT ![v] = [status |-> s, lock |-> Nobody, leased |-> FALSE]]
          PROVE  row' \in [Versions -> Row]
      BY <3>2
    <3> QED BY <1>1, <3>1, <3>2
  <2> QED BY <1>1, <2>1 DEF Idle
<1>4. \A u \in Versions : InHand(u)' => InHand(u)
  BY <1>1 DEF InHand, Idle
<1>5. \A u \in Versions : row[u].status = "PUBLISHED" => row'[u].status = "PUBLISHED"
  BY <1>1
<1>6. \A u \in Versions : Out(u)' => Out(u)
  BY <1>1, <1>2, <1>4 DEF Out
<1>7. InOrder'
  BY <1>5, <1>6 DEF InOrder
<1>8. Kept'
  <2>1. "PUBLISHED" \in statuses => Safe(v)
    BY DEF Kept
  <2>2. \A q \in Publishers : pub'[q].do = "sent" => q # p /\ pub'[q] = pub[q]
    BY <1>1 DEF Idle
  <2>3. ASSUME NEW q \in Publishers, pub'[q].do = "sent" PROVE Safe(pub[q].of)'
    <3>1. pub'[q] = pub[q] /\ pub[q].of \in Versions /\ Safe(pub[q].of)
      BY <2>2, <2>3 DEF Kept
    <3> DEFINE u == pub[q].of
    <3>2. Safe(u)'
      <4>1. u \in Versions /\ Safe(u)
        BY <3>1
      <4>2. \A x \in Versions : Safe(x) => (x \in inbox' \/ x \in bypassed' \/ x \in dead' \/ \E c \in Copies : msg'[c].of = x)
        BY <1>2 DEF Safe, Somewhere
      <4> QED BY <3>1, <4>1, <4>2 DEF Safe, Somewhere
    <3> QED BY <3>2
  <2> HIDE DEF v
  <2>4. \A u \in Versions : row'[u].status = "PUBLISHED" => row[u].status = "PUBLISHED" \/ (u = v /\ "PUBLISHED" \in statuses)
    BY <1>1
  <2>5. \A u \in Versions : row'[u].status = "PUBLISHED" => Safe(u)'
    BY <1>2, <2>1, <2>4 DEF Kept
  <2> QED BY <2>3, <2>5 DEF Kept
<1> QED BY <1>3, <1>7, <1>8

LEMMA StepPublisherCrash == ASSUME NEW p \in Publishers, TierInv, PublisherCrash(p) PROVE TierInv'
<1>1. pub' = [pub EXCEPT ![p] = Idle] /\ UNCHANGED <<row, msg, declared, bypassed, dead, inbox, tier>>
  BY DEF PublisherCrash
<1>2. \A u \in Versions : (Safe(u)' <=> Safe(u)) /\ (Out(u)' => Out(u))
  BY <1>1 DEF Safe, Somewhere, Out, InHand, Idle
<1> QED BY <1>1, <1>2 DEF InOrder, Kept, Idle

LEMMA StepTier == TierInv /\ [TierNext]_tierVars => TierInv'
<1> SUFFICES ASSUME TierInv, [TierNext]_tierVars PROVE TierInv'
  OBVIOUS
<1>1. CASE UNCHANGED tierVars
  <2>1. UNCHANGED <<row, pub, msg, declared, bypassed, dead, inbox, tier>>
    BY <1>1 DEF tierVars
  <2>2. \A u \in Versions : (Safe(u)' <=> Safe(u)) /\ (Out(u)' => Out(u))
    BY <2>1 DEF Safe, Somewhere, Out, InHand
  <2> QED BY <2>1, <2>2 DEF InOrder, Kept
<1>2. ASSUME NEW p \in Publishers,
             (\E v \in Versions : Claim(p, v)) \/ Publish(p) \/ Published(p) \/ Unpublished(p) \/ PublisherCrash(p)
      PROVE  TierInv'
  <2>1. CASE Published(p)
    BY <2>1, StepMark DEF Published
  <2>2. CASE Unpublished(p)
    BY <2>2, StepMark DEF Unpublished
  <2> QED BY <1>2, <2>1, <2>2, StepClaim, StepPublish, StepPublisherCrash
<1>3. ASSUME NEW c \in Copies,
             \/ Deliver(c) \/ Handle(c) \/ HandlerFails(c) \/ Ack(c)
             \/ Forward(c) \/ ForwardLost(c) \/ ChannelLost(c) \/ RetryDue(c)
      PROVE  TierInv'
  <2>1. UNCHANGED <<row, pub>>
    BY <1>3 DEF Deliver, Handle, HandlerFails, Ack, Forward, ForwardLost, ChannelLost, RetryDue
  <2>2. ConsumerKeeps
    BY <1>3, MovesAbout, HandleKeeps, AckKeeps, ForwardKeeps, ForwardLostKeeps
  <2> QED BY <2>1, <2>2, StepConsumer
<1>4. CASE DeclareQueue
  <2>1. UNCHANGED <<row, pub, msg, bypassed, dead, inbox, tier>> /\ declared' = TRUE
    BY <1>4 DEF DeclareQueue
  <2>2. \A u \in Versions : (Safe(u)' <=> Safe(u)) /\ (Out(u)' => Out(u))
    BY <2>1 DEF Safe, Somewhere, Out, InHand
  <2> QED BY <2>1, <2>2 DEF InOrder, Kept
<1>5. CASE TierNext
  BY <1>2, <1>3, <1>4, <1>5, StepTierChange, StepLeaseLapses, StepReplayFailed, Zenon DEF TierNext
<1> QED BY <1>1, <1>5

\* A version leaves the outbox only after all earlier ones, for any number of
\* publishers, lapsed leases and replays.
THEOREM OutboxIsInOrder == TierSpec => []PublishedInOrder
<1>1. TierInv => PublishedInOrder
  BY DEF InOrder, Out, Safe, PublishedInOrder
<1> QED BY <1>1, InitTier, StepTier, PTL DEF TierSpec

\* What is PUBLISHED is in the wallet, on its way or among the dead letters, for
\* any number of copies and retries; unless the wallet's queue was not there when
\* notification-service's had it confirmed, and it has not been published since.
THEOREM NothingIsLost == TierSpec => []NothingLost
<1>1. TierInv => NothingLost
  BY DEF Kept, Safe, NothingLost
<1> QED BY <1>1, InitTier, StepTier, PTL DEF TierSpec

\* The rows, the leases, the copies at the broker and the consumer's inbox keep
\* their types, for any number of publishers, copies and retries.
THEOREM TierTypeCorrect == TierSpec => []TierTypeOK
<1>1. TierInv => TierTypeOK
  OBVIOUS
<1> QED BY <1>1, InitTier, StepTier, PTL DEF TierSpec

\* Copies that come again never move the tier back: consumeTierUpdated writes the
\* tier only together with an inbox key that was not there.
THEOREM TierNeverMovesBack == TierSpec => DuplicateIsHarmless
<1>1. ASSUME [TierNext]_tierVars, tier' # tier PROVE tier' \notin inbox /\ tier' \in inbox'
  <2>1. PICK c \in Copies : Handle(c)
    BY <1>1 DEF TierNext, tierVars, DeclareQueue, TierChange, LeaseLapses, ReplayFailed, Claim, Publish, Published, Unpublished,
       Mark, PublisherCrash, Deliver, HandlerFails, Ack, Forward, ForwardLost, ChannelLost, RetryDue
  <2> QED BY <1>1, <2>1 DEF Handle
<1> QED BY <1>1, PTL DEF TierSpec, DuplicateIsHarmless

-----------------------------------------------------------------------------
(* EventConsumer                                                           *)

HIDE Bounds
HIDE DEF TierInv, TierTypeOK, MessagesFit, Versions, Row, Message

\* Once stop has begun the flag stays down, and no message is taken.
StopInv ==
    /\ stopping.at \in {"no", "settle", "join", "close", "done"}
    /\ DOMAIN stopping = {"at", "captured"}
    /\ stopping.at # "no" => running = FALSE
    /\ StopSettles

LEMMA StopInvStep == StopInv /\ [ConsumerNext]_consumerVars => StopInv'
  <1> SUFFICES ASSUME StopInv, [ConsumerNext]_consumerVars PROVE StopInv'
    OBVIOUS
  <1> USE DEF StopInv, StopSettles
  <1>1. CASE Start
    BY <1>1 DEF Start
  <1>2. CASE ConsumeStarts
    BY <1>2 DEF ConsumeStarts
  <1>3. CASE ConnectionRefused
    BY <1>3 DEF ConnectionRefused
  <1>4. CASE Disconnected
    BY <1>4 DEF Disconnected
  <1>5. CASE CloseCurrent
    BY <1>5 DEF CloseCurrent
  <1>6. CASE PauseEnds
    BY <1>6 DEF PauseEnds
  <1>7. CASE Stop
    BY <1>7 DEF Stop
  <1>8. CASE StopSignals
    BY <1>8 DEF StopSignals, Stopping
  <1>9. CASE StopJoins
    BY <1>9 DEF StopJoins, Stopping
  <1>10. CASE StopCloses
    BY <1>10 DEF StopCloses, Stopping
  <1>11. ASSUME NEW l \in Links, Attach(l) \/ LinkCloses(l) \/ TakeMessage(l) \/ MessageSettles(l) PROVE StopInv'
    BY <1>11 DEF Attach, LinkCloses, TakeMessage, MessageSettles
  <1>12. CASE UNCHANGED consumerVars
    BY <1>12 DEF consumerVars
  <1> HIDE DEF StopInv
  <1> QED BY <1>1, <1>2, <1>3, <1>4, <1>5, <1>6, <1>7, <1>8, <1>9, <1>10, <1>11, <1>12 DEF ConsumerNext

\* stop of finvault-events, against reconnections, closing channels and messages at
\* work: once it has waited for those no message is being processed, nor will be.
THEOREM StopIsSettled == ConsumerSpec => []StopSettles
  <1>1. ConsumerInit => StopInv
    BY DEF ConsumerInit, StopInv, StopSettles
  <1>2. StopInv => StopSettles
    BY DEF StopInv
  <1> QED BY <1>1, <1>2, StopInvStep, PTL DEF ConsumerSpec

\* At most one link is current, and until its consumer is registered it has none.
OneLink == active = {} \/ \E l \in Links : active = {l}

ConsumerInv ==
    /\ running \in BOOLEAN /\ tagged \in BOOLEAN
    /\ OneLink
    /\ consuming \subseteq open /\ open \in SUBSET Links /\ inFlight \in SUBSET Links
    /\ signalled \in {"none", "pending", "resolved"}
    /\ supervisor \in [at : {"off", "dial", "consume", "await", "settle", "pause", "over"}, looping : BOOLEAN]
    /\ stopping \in [at : {"no", "settle", "join", "close", "done"}, captured : SUBSET Links]
    /\ supervisor.at = "consume" => active \cap consuming = {}

LEMMA ConsumerInvStep == ConsumerInv /\ [ConsumerNext]_consumerVars => ConsumerInv'
  <1> SUFFICES ASSUME ConsumerInv, [ConsumerNext]_consumerVars PROVE ConsumerInv'
    OBVIOUS
  <1> USE DEF ConsumerInv, OneLink
  <1>1. CASE Start
    BY <1>1 DEF Start, Supervisor
  <1>2. CASE ConsumeStarts
    BY <1>2 DEF ConsumeStarts, Loop
  <1>3. CASE ConnectionRefused
    <2>1. open' \subseteq open /\ consuming' = consuming /\ consuming' \subseteq open'
      BY <1>3 DEF ConnectionRefused
    <2>2. OneLink' /\ tagged' \in BOOLEAN /\ signalled' \in {"none", "pending", "resolved"}
      BY <1>3 DEF ConnectionRefused
    <2>3. /\ running' \in BOOLEAN /\ supervisor'.at # "consume"
          /\ supervisor' \in [at : {"off", "dial", "consume", "await", "settle", "pause", "over"}, looping : BOOLEAN]
      <3>1. PICK at \in {"settle", "over", "off"}, l \in BOOLEAN : supervisor' = [at |-> at, looping |-> l]
        BY <1>3 DEF ConnectionRefused
      <3>2. running' = running \/ running' = FALSE
        BY <1>3 DEF ConnectionRefused
      <3> QED BY <3>1, <3>2
    <2> QED BY <1>3, <2>1, <2>2, <2>3 DEF ConnectionRefused
  <1>4. CASE Disconnected
    BY <1>4 DEF Disconnected, Supervisor
  <1>5. CASE CloseCurrent
    BY <1>5 DEF CloseCurrent, Supervisor
  <1>6. CASE PauseEnds
    BY <1>6 DEF PauseEnds, Supervisor
  <1>7. CASE Stop
    BY <1>7 DEF Stop
  <1>8. CASE StopSignals
    BY <1>8 DEF StopSignals, Stopping
  <1>9. CASE StopJoins
    BY <1>9 DEF StopJoins, Stopping
  <1>10. CASE StopCloses
    BY <1>10 DEF StopCloses, Stopping
  <1>11. ASSUME NEW l \in Links, Attach(l) PROVE ConsumerInv'
    BY <1>11 DEF Attach, Supervisor
  <1>12. ASSUME NEW l \in Links, LinkCloses(l) PROVE ConsumerInv'
    BY <1>12 DEF LinkCloses
  <1>13. ASSUME NEW l \in Links, TakeMessage(l) \/ MessageSettles(l) PROVE ConsumerInv'
    BY <1>13 DEF TakeMessage, MessageSettles
  <1>14. CASE UNCHANGED consumerVars
    BY <1>14 DEF consumerVars
  <1> HIDE DEF ConsumerInv, OneLink
  <1> QED BY <1>1, <1>2, <1>3, <1>4, <1>5, <1>6, <1>7, <1>8, <1>9, <1>10, <1>11, <1>12, <1>13, <1>14 DEF ConsumerNext

\* Whenever stop comes, and however often the connection is lost, there is never
\* more than one current link, and consumers are registered on open links only.
THEOREM ConsumerTypeCorrect == ConsumerSpec => []ConsumerTypeOK
  <1>1. ConsumerInit => ConsumerInv
    <2> SUFFICES ASSUME ConsumerInit PROVE ConsumerInv
      OBVIOUS
    <2>1. running \in BOOLEAN /\ tagged \in BOOLEAN /\ OneLink
      BY DEF ConsumerInit, OneLink
    <2>2. consuming \subseteq open /\ open \in SUBSET Links /\ inFlight \in SUBSET Links
      BY DEF ConsumerInit
    <2>3. /\ supervisor \in [at : {"off", "dial", "consume", "await", "settle", "pause", "over"}, looping : BOOLEAN]
          /\ stopping \in [at : {"no", "settle", "join", "close", "done"}, captured : SUBSET Links]
      BY DEF ConsumerInit
    <2>4. supervisor.at # "consume" /\ signalled = "none"
      BY DEF ConsumerInit
    <2> QED BY <2>1, <2>2, <2>3, <2>4 DEF ConsumerInv
  <1>2. OneLink => active \in SUBSET Links /\ Cardinality(active) <= 1
    <2>1. Cardinality({}) = 0
      BY FS_EmptySet
    <2>2. \A l : Cardinality({l}) = 1
      BY FS_Singleton
    <2>3. CASE active = {}
      BY <2>1, <2>3
    <2>4. ASSUME NEW l \in Links, active = {l} PROVE active \in SUBSET Links /\ Cardinality(active) <= 1
      <3>1. Cardinality(active) = 1
        BY <2>2, <2>4
      <3> QED BY <2>4, <3>1
    <2> QED BY <2>3, <2>4 DEF OneLink
  <1>3. ConsumerInv => ConsumerTypeOK
    BY <1>2 DEF ConsumerInv, ConsumerTypeOK
  <1> QED BY <1>1, <1>3, ConsumerInvStep, PTL DEF ConsumerSpec

-----------------------------------------------------------------------------
(* Registration                                                            *)

\* The event is at service s, with it, or lost to it.
Copied(s) == \E c \in Parcels : parcel[c].at # "none" /\ parcel[c].to = s
Reached(s) == Settled(s) \/ s \in lost \/ Copied(s)
AllReached == \A s \in Takers \ missed : Reached(s)

Accounts == [status : {"NONE", "PENDING", "PUBLISHED"}, token : AuthWorkers \cup {NoWorker}, leased : BOOLEAN]
Copy == [at : {"none", "queue", "done", "failed", "refused"}, to : Takers, n : 0..MaxParcelRetries]

RegInv ==
    /\ RegTypeOK
    /\ \A c \in Parcels : parcel[c].at = "done" => Settled(parcel[c].to)
    /\ \A w \in AuthWorkers : clerk[w] = "sent" => AllReached
    /\ account.status = "PUBLISHED" => AllReached
    /\ upgrade = "applied" => purse = "tier1"

LEMMA RegInvInit == RegInit => RegInv
  <1> SUFFICES ASSUME RegInit PROVE RegInv
    OBVIOUS
  <1>1. NoParcel \in Copy
    BY RegistrationBounds DEF NoParcel, Copy, Takers
  <1>2. RegTypeOK
    BY <1>1 DEF RegInit, RegTypeOK, Copy, Purses, Takers
  <1> QED BY <1>2 DEF RegInit, RegInv, NoParcel

LEMMA OutboxSteps ==
    ASSUME RegInv, NEW w \in AuthWorkers,
           ClaimAuthEvent(w) \/ MarkAuthEvent(w) \/ AuthWorkerDies(w)
    PROVE  RegInv'
  <1> DEFINE From == account'.status = "PUBLISHED" => account.status = "PUBLISHED" \/ clerk[w] = "sent"
  <1>1. UNCHANGED <<bound, missed, parcel, lost, profile, taken, purse, upgrade>>
    BY DEF ClaimAuthEvent, MarkAuthEvent, AuthWorkerDies
  <1>2. AllReached' = AllReached
    BY <1>1 DEF AllReached, Reached, Settled, Copied
  <1>3. account' \in Accounts /\ From
    <2> USE DEF RegInv, RegTypeOK, Accounts
    <2>1. CASE ClaimAuthEvent(w) BY <2>1 DEF ClaimAuthEvent
    <2>2. CASE MarkAuthEvent(w) BY <2>2 DEF MarkAuthEvent, Clerk
    <2>3. CASE AuthWorkerDies(w) BY <2>3 DEF AuthWorkerDies
    <2> QED BY <2>1, <2>2, <2>3
  <1>4. /\ clerk' \in [AuthWorkers -> {"idle", "send", "sent", "unsent"}]
        /\ \A v \in AuthWorkers : clerk'[v] = "sent" => clerk[v] = "sent"
    BY DEF ClaimAuthEvent, MarkAuthEvent, AuthWorkerDies, Clerk, RegInv, RegTypeOK
  <1>6. RegTypeOK'
    BY <1>1, <1>3, <1>4 DEF RegInv, RegTypeOK, Accounts
  <1>7. \A c \in Parcels : (parcel[c].at = "done" => Settled(parcel[c].to))'
    BY <1>1 DEF RegInv, Settled
  <1> QED BY <1>1, <1>2, <1>3, <1>4, <1>6, <1>7 DEF RegInv

LEMMA ReachesQueuesPuts ==
    ASSUME RegInv, NEW to \in SUBSET Takers, ReachesQueues(to)
    PROVE  /\ parcel' \in [Parcels -> Copy]
           /\ \A c \in Parcels : parcel[c].at # "none" => parcel'[c] = parcel[c]
           /\ \A c \in Parcels : parcel'[c] # parcel[c] => parcel'[c].at = "queue"
           /\ \A s \in to : Copied(s)'
  <1>1. PICK place \in [to -> Parcels] :
          /\ \A s, t \in to : parcel[place[s]].at = "none" /\ (place[s] = place[t] => s = t)
          /\ parcel' = [c \in Parcels |->
                           IF \E s \in to : place[s] = c
                           THEN [at |-> "queue", to |-> CHOOSE s \in to : place[s] = c, n |-> 0]
                           ELSE parcel[c]]
    BY DEF ReachesQueues
  <1>2. \A s \in to : (CHOOSE t \in to : place[t] = place[s]) = s
    BY <1>1
  <1>3. \A c \in Parcels : (\E s \in to : place[s] = c) => (CHOOSE s \in to : place[s] = c) \in Takers
    OBVIOUS
  <1>4. parcel' \in [Parcels -> Copy]
    BY <1>1, <1>3, RegistrationBounds DEF RegInv, RegTypeOK, Copy
  <1>5. \A s \in to : place[s] \in Parcels /\ parcel'[place[s]].at # "none" /\ parcel'[place[s]].to = s
    BY <1>1, <1>2
  <1> QED BY <1>1, <1>4, <1>5 DEF Copied

LEMMA PublishStep ==
    ASSUME RegInv, NEW w \in AuthWorkers, PublishRegistered(w)
    PROVE  RegInv'
  <1>1. UNCHANGED <<account, bound, lost, profile, taken, purse, upgrade>>
    BY DEF PublishRegistered
  <1>2. clerk' \in [AuthWorkers -> {"idle", "send", "sent", "unsent"}]
    BY DEF PublishRegistered, Clerk, RegInv, RegTypeOK
  <1>3. /\ parcel' \in [Parcels -> Copy]
        /\ \A c \in Parcels : parcel[c].at # "none" => parcel'[c] = parcel[c]
        /\ \A c \in Parcels : parcel'[c] # parcel[c] => parcel'[c].at = "queue"
    <2>1. CASE UNCHANGED parcel BY <2>1 DEF RegInv, RegTypeOK, Copy
    <2>2. CASE ReachesQueues(bound) BY <2>2, ReachesQueuesPuts DEF RegInv, RegTypeOK
    <2> QED BY <2>1, <2>2 DEF PublishRegistered
  <1>4. RegTypeOK'
    <2>1. missed' \subseteq Takers BY DEF PublishRegistered, RegInv, RegTypeOK
    <2> QED BY <1>1, <1>2, <1>3, <2>1 DEF RegInv, RegTypeOK, Copy
  <1>5. \A c \in Parcels : (parcel[c].at = "done" => Settled(parcel[c].to))'
    BY <1>1, <1>3 DEF RegInv, Settled
  <1>6. CASE ReachesQueues(bound) /\ missed' = Takers \ bound
    <2>1. \A s \in bound : Copied(s)' BY <1>6, ReachesQueuesPuts DEF RegInv, RegTypeOK
    <2>2. AllReached' BY <1>6, <2>1 DEF AllReached, Reached
    <2> QED BY <1>1, <1>4, <1>5, <2>2 DEF RegInv
  <1>7. CASE missed' = missed /\ Clerk(w, "send", "unsent")
    <2>1. \A s \in Takers : Copied(s) => Copied(s)' BY <1>3 DEF Copied
    <2>2. AllReached => AllReached' BY <1>1, <1>7, <2>1 DEF AllReached, Reached, Settled
    <2>3. \A v \in AuthWorkers : clerk'[v] = "sent" => clerk[v] = "sent" BY <1>7 DEF Clerk, RegInv, RegTypeOK
    <2> QED BY <1>1, <1>4, <1>5, <2>2, <2>3 DEF RegInv
  <1> QED BY <1>6, <1>7 DEF PublishRegistered

\* Once reached, a service stays so: the consumers let go of a copy only when
\* its work is done or it is among the dead letters.
LEMMA ConsumersKeep ==
    ASSUME RegInv, UNCHANGED <<account, clerk, bound, missed, upgrade>>,
           parcel' \in [Parcels -> Copy], lost \subseteq lost', lost' \subseteq Takers,
           profile' \in BOOLEAN, taken' \in BOOLEAN, purse' \in Purses, profile => profile', taken => taken',
           upgrade = "applied" => purse' = "tier1",
           \A s \in Takers : Copied(s) => Settled(s)' \/ s \in lost' \/ Copied(s)',
           \A c \in Parcels : (parcel[c].at = "done" => Settled(parcel[c].to))'
    PROVE  RegInv'
  <1>1. RegTypeOK'
    BY DEF RegInv, RegTypeOK, Copy
  <1>2. AllReached => AllReached'
    BY DEF AllReached, Reached, Settled, RegInv, RegTypeOK, Takers
  <1> QED BY <1>1, <1>2 DEF RegInv

LEMMA WorkSteps ==
    ASSUME RegInv, NEW c \in Parcels,
           ConsumeRegistration(c) \/ ProvisionWallet(c) \/ AckParcel(c) \/ ParcelReturns(c)
    PROVE  RegInv'
  <1>1. UNCHANGED <<account, clerk, bound, missed, lost, upgrade>>
    BY DEF ConsumeRegistration, ProvisionWallet, AckParcel, ParcelReturns
  <1>2. /\ profile' \in BOOLEAN /\ taken' \in BOOLEAN /\ purse' \in Purses
        /\ profile => profile'
        /\ taken => taken'
        /\ upgrade = "applied" => purse' = "tier1"
    BY DEF ConsumeRegistration, ProvisionWallet, AckParcel, ParcelReturns, RegInv, RegTypeOK, Purses
  <1>3. \A s \in Takers : Settled(s) => Settled(s)'
    <2>1. ASSUME NEW s \in Takers, Settled(s) PROVE Settled(s)'
      <3>1. CASE s = "user" BY <1>2, <2>1, <3>1, Zenon DEF Settled
      <3>2. CASE s # "user" BY <1>2, <2>1, <3>2, Zenon DEF Settled
      <3> QED BY <3>1, <3>2
    <2> QED BY <2>1
  <1> DEFINE Become(p) ==
           /\ parcel' = [parcel EXCEPT ![c] = p]
           /\ p.at # "none" => p.to = parcel[c].to
           /\ \A s \in Takers : s = parcel[c].to /\ p.at \in {"none", "done"} => Settled(s)'
  <1>4. \E p \in Copy : Become(p)
    <2>1. NoParcel \in Copy
      BY RegistrationBounds DEF NoParcel, Copy, Takers
    <2>2. CASE AckParcel(c)
      <3>1. Become(NoParcel)
        BY <1>3, <2>2 DEF AckParcel, NoParcel, RegInv
      <3> QED BY <2>1, <3>1
    <2>3. ASSUME NEW at \in {"done", "failed", "refused", "queue"}, Sent(c, at),
                 \A s \in Takers : s = parcel[c].to /\ at = "done" => Settled(s)'
          PROVE  \E p \in Copy : Become(p)
      <3> DEFINE p == [at |-> at, to |-> parcel[c].to, n |-> parcel[c].n]
      <3>1. p \in Copy
        BY DEF RegInv, RegTypeOK, Copy
      <3>2. Become(p)
        BY <2>3 DEF Sent
      <3> QED BY <3>1, <3>2
    <2> HIDE DEF Become
    <2>4. CASE ConsumeRegistration(c)
      <3>1. \A s : s = "user" /\ profile' => Settled(s)'
        BY DEF Settled
      <3> QED BY <2>3, <2>4, <3>1 DEF ConsumeRegistration
    <2>5. CASE ProvisionWallet(c)
      <3>1. \A s : s = "wallet" /\ taken' => Settled(s)'
        BY DEF Settled
      <3> QED BY <2>3, <2>5, <3>1 DEF ProvisionWallet
    <2>6. CASE ParcelReturns(c)
      BY <2>3, <2>6 DEF ParcelReturns
    <2> QED BY <2>2, <2>4, <2>5, <2>6
  <1>5. PICK p \in Copy : Become(p)
    BY <1>4
  <1>6. parcel' \in [Parcels -> Copy] /\ parcel'[c] = p /\ \A d \in Parcels \ {c} : parcel'[d] = parcel[d]
    BY <1>5 DEF RegInv, RegTypeOK, Copy
  <1>7. \A s \in Takers : Copied(s) => Settled(s)' \/ s \in lost' \/ Copied(s)'
    BY <1>5, <1>6 DEF Copied
  <1>8. \A d \in Parcels : (parcel[d].at = "done" => Settled(parcel[d].to))'
    <2> SUFFICES ASSUME NEW d \in Parcels, parcel'[d].at = "done" PROVE Settled(parcel[d].to)'
      OBVIOUS
    <2>1. PICK s \in Takers : s = parcel'[d].to /\ s = parcel[d].to
      BY <1>5, <1>6 DEF RegInv, RegTypeOK
    <2>2. Settled(s)'
      BY <1>3, <1>5, <1>6, <2>1 DEF RegInv
    <2> QED BY <2>1, <2>2
  <1>9. lost \subseteq lost' /\ lost' \subseteq Takers
    BY <1>1 DEF RegInv, RegTypeOK
  <1> HIDE DEF Become
  <1> QED BY <1>1, <1>2, <1>6, <1>7, <1>8, <1>9, ConsumersKeep

LEMMA RetryStep ==
    ASSUME RegInv, NEW c \in Parcels, RetryParcel(c)
    PROVE  RegInv'
  <1> DEFINE again == parcel[c].at = "failed" /\ parcel[c].n < MaxParcelRetries
             copy == [at |-> "queue", to |-> parcel[c].to, n |-> parcel[c].n + 1]
             home == [at |-> "queue", to |-> parcel[c].to, n |-> parcel[c].n]
  <1>1. UNCHANGED <<account, clerk, bound, missed, profile, taken, purse, upgrade>>
    BY DEF RetryParcel
  <1>2. NoParcel \in Copy /\ home \in Copy /\ (again => copy \in Copy) /\ parcel[c].to \in Takers
    BY RegistrationBounds DEF RegInv, RegTypeOK, NoParcel, Copy, Takers
  <1>3. lost \subseteq lost' /\ lost' \subseteq lost \cup {parcel[c].to}
    BY DEF RetryParcel
  <1>4. /\ parcel' \in [Parcels -> Copy]
        /\ \A d \in Parcels : parcel[d].at # "none" /\ d # c => parcel'[d] = parcel[d]
        /\ \A d \in Parcels : parcel'[d] = parcel[d] \/ parcel'[d].at # "done"
        /\ parcel'[c].at # "none" => parcel'[c].to = parcel[c].to
        /\ parcel'[c].at = "none" => parcel[c].to \in lost'
    <2> DEFINE Goal == /\ parcel' \in [Parcels -> Copy]
                       /\ \A d \in Parcels : parcel[d].at # "none" /\ d # c => parcel'[d] = parcel[d]
                       /\ \A d \in Parcels : parcel'[d] = parcel[d] \/ parcel'[d].at # "done"
                       /\ parcel'[c].at # "none" => parcel'[c].to = parcel[c].to
                       /\ parcel'[c].at = "none" => parcel[c].to \in lost'
    <2> USE DEF RegInv, RegTypeOK, Copy
    <2>1. CASE again /\ parcel' = [parcel EXCEPT ![c] = copy]
      BY <1>2, <2>1
    <2>2. CASE parcel' = [parcel EXCEPT ![c] = NoParcel] /\ lost' = lost \cup {parcel[c].to}
      BY <1>2, <2>2 DEF NoParcel
    <2>3. CASE parcel' = [parcel EXCEPT ![c] = home]
      BY <1>2, <2>3
    <2>4. CASE again /\ \E d \in Parcels : parcel[d].at = "none" /\ parcel' = [parcel EXCEPT ![c] = home, ![d] = copy]
      <3>1. PICK d \in Parcels : parcel[d].at = "none" /\ parcel' = [parcel EXCEPT ![c] = home, ![d] = copy]
        BY <2>4
      <3>2. parcel[c].at # "none" /\ d # c
        BY <3>1 DEF RetryParcel
      <3> QED BY <1>2, <2>4, <3>1, <3>2
    <2> HIDE DEF RegInv, RegTypeOK, Copy, Goal
    <2>5. Goal
      BY <2>1, <2>2, <2>3, <2>4 DEF RetryParcel, Goal
    <2> QED BY <2>5 DEF Goal
  <1> HIDE DEF again, copy, home
  <1>5. \A s \in Takers : Copied(s) => s \in lost' \/ Copied(s)'
    BY <1>4 DEF Copied
  <1>6. \A s : Settled(s)' = Settled(s)
    BY <1>1 DEF Settled
  <1>7. \A d \in Parcels : (parcel[d].at = "done" => Settled(parcel[d].to))'
    BY <1>1, <1>4 DEF RegInv, Settled
  <1> QED BY <1>1, <1>2, <1>3, <1>4, <1>5, <1>7, ConsumersKeep DEF RegInv, RegTypeOK

LEMMA RegInvStep == RegInv /\ [RegNext]_regVars => RegInv'
  <1> SUFFICES ASSUME RegInv, [RegNext]_regVars PROVE RegInv'
    OBVIOUS
  <1>1. CASE UNCHANGED regVars
    BY <1>1 DEF regVars, RegInv, RegTypeOK, AllReached, Reached, Settled, Copied
  <1>2. CASE RegisterAccount \/ AuthLeaseLapses
    <2>1. account'.status = "PUBLISHED" => account.status = "PUBLISHED"
      BY <1>2 DEF RegisterAccount, AuthLeaseLapses, RegInv, RegTypeOK
    <2>2. UNCHANGED <<clerk, bound, missed, parcel, lost, profile, taken, purse, upgrade>>
      BY <1>2 DEF RegisterAccount, AuthLeaseLapses
    <2>3. account' \in Accounts
      BY <1>2 DEF RegisterAccount, AuthLeaseLapses, RegInv, RegTypeOK, Accounts
    <2> QED BY <2>1, <2>2, <2>3 DEF RegInv, RegTypeOK, Accounts, AllReached, Reached, Settled, Copied
  <1>3. ASSUME NEW w \in AuthWorkers, ClaimAuthEvent(w) \/ MarkAuthEvent(w) \/ AuthWorkerDies(w) PROVE RegInv'
    BY <1>3, OutboxSteps
  <1>4. ASSUME NEW w \in AuthWorkers, PublishRegistered(w) PROVE RegInv'
    BY <1>4, PublishStep
  <1>5. ASSUME NEW s \in Takers, AssertQueue(s) PROVE RegInv'
    BY <1>5 DEF AssertQueue, RegInv, RegTypeOK, AllReached, Reached, Settled, Copied
  <1>6. ASSUME NEW c \in Parcels, ConsumeRegistration(c) \/ ProvisionWallet(c) \/ AckParcel(c) \/ ParcelReturns(c)
        PROVE RegInv'
    BY <1>6, WorkSteps
  <1>7. ASSUME NEW c \in Parcels, RetryParcel(c) PROVE RegInv'
    BY <1>7, RetryStep
  <1>8. CASE UpgradeProfile
    BY <1>8 DEF UpgradeProfile, RegInv, RegTypeOK, AllReached, Reached, Settled, Copied
  <1>9. CASE ApplyUpgrade
    BY <1>9 DEF ApplyUpgrade, RegInv, RegTypeOK, AllReached, Reached, Settled, Copied, Purses
  <1> QED BY <1>1, <1>2, <1>3, <1>4, <1>5, <1>6, <1>7, <1>8, <1>9, Zenon DEF RegNext

\* auth-service's outbox and the consumers of user-service and wallet-service,
\* for any number of workers, lapsed leases, copies and retries: each service
\* learns of the account, or what it was sent is where an operator finds it.
THEOREM NobodyIsForgotten == RegSpec => []NobodyForgotten
  <1>1. RegInv => NobodyForgotten
    BY DEF RegInv, AllReached, Reached, Copied, NobodyForgotten
  <1> QED BY <1>1, RegInvInit, RegInvStep, PTL DEF RegSpec

\* The outbox row, its copies and the three services keep their types.
THEOREM RegTypeCorrect == RegSpec => []RegTypeOK
  <1>1. RegInv => RegTypeOK
    BY DEF RegInv
  <1> QED BY <1>1, RegInvInit, RegInvStep, PTL DEF RegSpec

-----------------------------------------------------------------------------
(* FinanceNotices                                                          *)

\* One transaction at a time holds the inbox row, nobody is told before it
\* commits, and one delivery alone goes on to the sockets: the one that has
\* committed.
Committed(h) == handling[h].at \in {"look", "enrich", "emit"}

HandlingFits(h) ==
    /\ handling[h].at = "create" <=> inboxKey = h
    /\ Committed(h) => inboxKey = "kept"
    /\ handling[h].at = "ack" => inboxKey = "kept"
    /\ handling[h].at \in {"look", "enrich"} => \A p \in Parties : emitted[p] = 0
    /\ handling[h].at = "enrich" => (handling[h].of # {} => Cardinality(recipients) > 1)
    /\ handling[h].of \subseteq recipients
    /\ handling[h].at = "emit" => \A p \in handling[h].of : emitted[p] = 0

FinanceInv ==
    /\ FinanceTypeOK
    /\ \A h \in Handlings : HandlingFits(h)
    /\ \A g, h \in Handlings : Committed(g) /\ Committed(h) => g = h
    /\ IF inboxKey = "kept" THEN notified = recipients /\ recipients # {}
                            ELSE notified = {} /\ named = {} /\ \A p \in Parties : emitted[p] = 0
    /\ \A p \in Parties : emitted[p] <= 1 /\ (emitted[p] > 0 => p \in notified)
    /\ named \subseteq notified /\ (named # {} => Cardinality(recipients) > 1)

LEMMA FinanceInvInit == FinanceInit => FinanceInv
  BY KeysAreNoHandlings DEF FinanceInit, FinanceInv, FinanceTypeOK, HandlingFits, Committed

LEMMA FinanceInvStep == FinanceInv /\ [FinanceNext]_financeVars => FinanceInv'
  <1> SUFFICES ASSUME FinanceInv, [FinanceNext]_financeVars PROVE FinanceInv'
    OBVIOUS
  <1> USE KeysAreNoHandlings DEF FinanceInv, FinanceTypeOK, HandlingFits, Committed, Handling
  <1>0. CASE UNCHANGED financeVars
    BY <1>0 DEF financeVars
  <1>1. ASSUME NEW h \in Handlings, DeliverFinance(h) PROVE FinanceInv'
    BY <1>1 DEF DeliverFinance
  <1>2. ASSUME NEW h \in Handlings, InsertInbox(h) PROVE FinanceInv'
    BY <1>2 DEF InsertInbox
  <1>3. ASSUME NEW h \in Handlings, CreateNotification(h) PROVE FinanceInv'
    BY <1>3 DEF CreateNotification
  <1>4. ASSUME NEW h \in Handlings, CommitNotifications(h) PROVE FinanceInv'
    BY <1>4 DEF CommitNotifications
  <1>5. ASSUME NEW h \in Handlings, RollsBack(h) PROVE FinanceInv'
    BY <1>5 DEF RollsBack
  <1>6. ASSUME NEW h \in Handlings, LookUpNames(h) PROVE FinanceInv'
    BY <1>6 DEF LookUpNames
  <1>7. ASSUME NEW h \in Handlings, UpdateNotifications(h) PROVE FinanceInv'
    BY <1>7 DEF UpdateNotifications
  <1>8. ASSUME NEW h \in Handlings, Emit(h) PROVE FinanceInv'
    BY <1>8 DEF Emit
  <1>9. ASSUME NEW h \in Handlings, AckFinance(h) PROVE FinanceInv'
    BY <1>9 DEF AckFinance
  <1>10. ASSUME NEW h \in Handlings, InstanceDies(h) PROVE FinanceInv'
    BY <1>10 DEF InstanceDies
  <1> HIDE DEF FinanceInv
  <1> QED BY <1>0, <1>1, <1>2, <1>3, <1>4, <1>5, <1>6, <1>7, <1>8, <1>9, <1>10 DEF FinanceNext

\* financeEventsConsumer, for any number of deliveries and instances that die:
\* the parties to an event are told together or not at all, and each at most
\* once.
THEOREM PartiesAreTold == FinanceSpec => []PartiesToldTogether
  <1>1. FinanceInv => PartiesToldTogether
    BY DEF FinanceInv, FinanceTypeOK, HandlingFits, Committed, PartiesToldTogether
  <1> QED BY <1>1, FinanceInvInit, FinanceInvStep, PTL DEF FinanceSpec

\* The inbox, the notifications and what each delivery is about to do keep their
\* types.
THEOREM FinanceTypeCorrect == FinanceSpec => []FinanceTypeOK
  <1>1. FinanceInv => FinanceTypeOK
    BY DEF FinanceInv
  <1> QED BY <1>1, FinanceInvInit, FinanceInvStep, PTL DEF FinanceSpec

-----------------------------------------------------------------------------
(* WalletOutbox                                                            *)

\* The notification of the row is stored, on its way, with the dead letters, or
\* refused.
Traced == inInbox \/ OnItsWay \/ dlq \/ refused

Wire == [at : {"none", "queue", "held", "stored", "failed"}, n : 0..MaxNoticeRetries]

NoticeInv ==
    /\ wire \in [Wires -> Wire]
    /\ inInbox \in BOOLEAN /\ dlq \in BOOLEAN
    /\ notices = IF inInbox THEN 1 ELSE 0
    /\ \A c \in Wires : wire[c].at = "stored" => inInbox

ErrandInv ==
    /\ errand \in [WalletDrains -> {"idle", "read", "publish", "http", "mark", "attempt"}]
    /\ outrowAt \in {"pending", "published"}
    /\ notable # "notice" => ~inInbox /\ ~OnItsWay /\ \A d \in WalletDrains : errand[d] \notin {"publish", "http", "attempt"}
    /\ notable = "notice" =>
         /\ outrowAt = "published" => Traced
         /\ \A d \in WalletDrains : errand[d] = "mark" => Traced

WalletOutInv == NoticeInv /\ ErrandInv

\* What is said of a notification goes on to be so, and there is none that
\* nobody has sent.
NoticeKeeps ==
    /\ NoticeInv'
    /\ inInbox => inInbox'
    /\ dlq => dlq'
    /\ OnItsWay => OnItsWay' \/ inInbox' \/ dlq'
    /\ ~OnItsWay => ~OnItsWay' /\ inInbox' = inInbox

LEMMA WalletOutInvInit == WalletOutInit => WalletOutInv
  <1> SUFFICES ASSUME WalletOutInit PROVE WalletOutInv
    OBVIOUS
  <1>1. NoWire \in Wire /\ NoWire.at = "none"
    BY NoticeRetriesAreNatural DEF NoWire, Wire
  <1>2. NoticeInv
    BY <1>1 DEF WalletOutInit, NoticeInit, NoticeInv
  <1>3. ~OnItsWay
    BY <1>1 DEF WalletOutInit, NoticeInit, OnItsWay
  <1>4. ErrandInv
    BY <1>3 DEF WalletOutInit, NoticeInit, ErrandInv
  <1> QED BY <1>2, <1>4 DEF WalletOutInv

\* One copy moves, and stays a copy.
LEMMA WireMoves ==
    ASSUME NoticeInv, NEW c \in Wires, NEW x \in Wire, wire' = [wire EXCEPT ![c] = x], UNCHANGED <<inInbox, notices>>,
           wire[c].at # "none", x.at \notin {"stored", "none"}, dlq' \in BOOLEAN, dlq => dlq'
    PROVE  NoticeKeeps
  <1>1. wire' \in [Wires -> Wire] /\ wire'[c] = x /\ \A d \in Wires \ {c} : wire'[d] = wire[d]
    BY DEF NoticeInv
  <1>2. OnItsWay /\ OnItsWay'
    BY <1>1 DEF OnItsWay
  <1>3. NoticeInv'
    BY <1>1 DEF NoticeInv
  <1> QED BY <1>2, <1>3 DEF NoticeKeeps

LEMMA CopyKeeps ==
    ASSUME NoticeInv, NEW c \in Wires,
           Consume(c) \/ HandleMessage(c) \/ AckNotice(c) \/ RetryOrDeadLetter(c) \/ RetriedTwice(c)
    PROVE  NoticeKeeps
  <1>1. wire[c].n \in 0..MaxNoticeRetries /\ NoWire \in Wire /\ wire[c].at # "none"
    BY NoticeRetriesAreNatural DEF NoticeInv, Wire, NoWire, Consume, HandleMessage, AckNotice,
       RetryOrDeadLetter, RetriedTwice
  <1>2. \A at \in {"queue", "held", "failed"} : [at |-> at, n |-> wire[c].n] \in Wire
    BY <1>1 DEF Wire
  <1>3. CASE Consume(c)
    BY <1>1, <1>2, <1>3, WireMoves DEF Consume, MoveTo, NoticeInv
  <1>4. CASE HandleMessage(c)
    <2>1. CASE UNCHANGED <<inInbox, notices>> /\ MoveTo(c, "failed")
      BY <1>1, <1>2, <1>4, <2>1, WireMoves DEF HandleMessage, MoveTo, NoticeInv
    <2>2. CASE IngestNotification /\ MoveTo(c, "stored")
      <3>1. [at |-> "stored", n |-> wire[c].n] \in Wire
        BY <1>1 DEF Wire
      <3>2. wire' \in [Wires -> Wire]
        BY <2>2, <3>1 DEF MoveTo, NoticeInv
      <3>3. inInbox' = TRUE /\ notices' = 1 /\ dlq' = dlq
        BY <1>4, <2>2 DEF HandleMessage, IngestNotification, NoticeInv
      <3>4. OnItsWay
        BY <1>1 DEF OnItsWay
      <3> QED BY <3>2, <3>3, <3>4 DEF NoticeKeeps, NoticeInv
    <2> QED BY <1>4, <2>1, <2>2 DEF HandleMessage
  <1>5. CASE AckNotice(c)
    <2>1. wire' \in [Wires -> Wire] /\ \A d \in Wires : wire'[d].at = "stored" => wire[d].at = "stored"
      BY <1>1, <1>5 DEF AckNotice, NoticeInv, NoWire
    <2>2. inInbox /\ OnItsWay
      BY <1>1, <1>5 DEF AckNotice, NoticeInv, OnItsWay
    <2> QED BY <1>5, <2>1, <2>2 DEF AckNotice, NoticeKeeps, NoticeInv
  <1>6. CASE RetryOrDeadLetter(c)
    <2>1. CASE wire[c].n < MaxNoticeRetries /\ wire' = [wire EXCEPT ![c] = [at |-> "queue", n |-> wire[c].n + 1]] /\ UNCHANGED dlq
      <3>1. [at |-> "queue", n |-> wire[c].n + 1] \in Wire
        BY <1>1, <2>1, NoticeRetriesAreNatural DEF Wire
      <3> QED BY <1>1, <1>6, <2>1, <3>1, WireMoves DEF RetryOrDeadLetter, NoticeInv
    <2>2. CASE dlq' = TRUE /\ wire' = [wire EXCEPT ![c] = NoWire]
      <3>1. wire' \in [Wires -> Wire] /\ \A d \in Wires : wire'[d].at = "stored" => wire[d].at = "stored"
        BY <1>1, <2>2 DEF NoticeInv, NoWire
      <3>2. OnItsWay
        BY <1>1 DEF OnItsWay
      <3> QED BY <1>6, <2>2, <3>1, <3>2 DEF RetryOrDeadLetter, NoticeKeeps, NoticeInv
    <2> QED BY <1>6, <2>1, <2>2 DEF RetryOrDeadLetter
  <1>7. CASE RetriedTwice(c)
    <2>1. PICK d \in Wires : wire[d].at = "none" /\
            wire' = [wire EXCEPT ![c] = [at |-> "queue", n |-> wire[c].n], ![d] = [at |-> "queue", n |-> wire[c].n + 1]]
      BY <1>7 DEF RetriedTwice
    <2>2. [at |-> "queue", n |-> wire[c].n + 1] \in Wire /\ d # c
      BY <1>1, <1>7, <2>1, NoticeRetriesAreNatural DEF RetriedTwice, Wire
    <2>3. wire' \in [Wires -> Wire] /\ wire'[c].at = "queue" /\ \A e \in Wires : wire'[e].at = "stored" => wire[e].at = "stored"
      BY <1>2, <2>1, <2>2 DEF NoticeInv
    <2>4. OnItsWay /\ OnItsWay'
      BY <1>1, <2>3 DEF OnItsWay
    <2> QED BY <1>7, <2>3, <2>4 DEF RetriedTwice, NoticeKeeps, NoticeInv
  <1> QED BY <1>3, <1>4, <1>5, <1>6, <1>7

LEMMA LostWireKeeps == ASSUME NoticeInv, ConsumerLost \/ ServiceRestarts PROVE NoticeKeeps
  <1>1. CASE ServiceRestarts
    BY <1>1 DEF ServiceRestarts, NoticeKeeps, NoticeInv, OnItsWay
  <1>2. CASE ConsumerLost
    <2>1. NoWire \in Wire /\ NoWire.at = "none" /\ \A c \in Wires : [at |-> "queue", n |-> wire[c].n] \in Wire
      BY NoticeRetriesAreNatural DEF NoWire, NoticeInv, Wire
    <2>2. /\ wire' \in [Wires -> Wire]
          /\ \A c \in Wires : wire'[c].at # "stored" /\ (wire'[c].at = "none" <=> wire[c].at = "none")
      BY <1>2, <2>1 DEF ConsumerLost, NoticeInv
    <2>3. OnItsWay' <=> OnItsWay
      BY <2>2 DEF OnItsWay
    <2> QED BY <1>2, <2>2, <2>3 DEF ConsumerLost, NoticeKeeps, NoticeInv
  <1> QED BY <1>1, <1>2

LEMMA NoticeStep == ASSUME WalletOutInv, NoticeNext, UNCHANGED <<notable, outrowAt, errand, refused>>
      PROVE WalletOutInv'
  <1>1. NoticeKeeps
    BY CopyKeeps, LostWireKeeps DEF WalletOutInv, NoticeNext
  <1>2. Traced => Traced'
    BY <1>1 DEF NoticeKeeps, Traced
  <1> QED BY <1>1, <1>2 DEF WalletOutInv, NoticeKeeps, ErrandInv

LEMMA DrainStep ==
    ASSUME WalletOutInv, NEW d \in WalletDrains,
           \/ ClaimPendingRows(d) \/ ReadRow(d) \/ PublishNotice(d) \/ PostNotice(d)
           \/ MarkPublished(d) \/ CountAttempt(d) \/ WalletDrainFails(d)
    PROVE  WalletOutInv'
  <1>1. CASE ClaimPendingRows(d) \/ CountAttempt(d) \/ WalletDrainFails(d) \/ MarkPublished(d) \/ ReadRow(d)
    <2>1. UNCHANGED <<noticeVars, notable, refused>>
      BY <1>1 DEF ClaimPendingRows, CountAttempt, WalletDrainFails, MarkPublished, ReadRow
    <2>2. NoticeInv' /\ (OnItsWay' = OnItsWay) /\ (Traced' = Traced)
      BY <2>1 DEF noticeVars, WalletOutInv, NoticeInv, OnItsWay, Traced
    <2>3. ErrandInv'
      BY <1>1, <2>1, <2>2 DEF ClaimPendingRows, CountAttempt, WalletDrainFails, MarkPublished, ReadRow,
         Errand, WalletOutInv, ErrandInv, noticeVars
    <2> QED BY <2>2, <2>3 DEF WalletOutInv
  <1>2. CASE PublishNotice(d)
    <2>1. /\ errand[d] = "publish" /\ UNCHANGED <<dlq, inInbox, notices, notable, outrowAt, refused>>
          /\ (errand' = [errand EXCEPT ![d] = "mark"] /\ ReachesQueue) \/ errand' = [errand EXCEPT ![d] = "http"]
          /\ ReachesQueue \/ UNCHANGED wire
      BY <1>2 DEF PublishNotice, Errand
    <2>2. NoticeInv' /\ (OnItsWay => OnItsWay') /\ (ReachesQueue => OnItsWay')
      <3>1. CASE UNCHANGED wire
        BY <2>1, <3>1 DEF WalletOutInv, NoticeInv, OnItsWay, ReachesQueue
      <3>2. CASE ReachesQueue
        <4>1. PICK c \in Wires : wire[c].at = "none" /\ wire' = [wire EXCEPT ![c] = [at |-> "queue", n |-> 0]]
          BY <3>2 DEF ReachesQueue
        <4>2. [at |-> "queue", n |-> 0] \in Wire
          BY NoticeRetriesAreNatural DEF Wire
        <4>3. wire' \in [Wires -> Wire] /\ wire'[c].at = "queue" /\ \A e \in Wires : wire'[e].at = "stored" => wire[e].at = "stored"
          BY <4>1, <4>2 DEF WalletOutInv, NoticeInv
        <4>4. OnItsWay'
          BY <4>3 DEF OnItsWay
        <4> QED BY <2>1, <4>3, <4>4 DEF WalletOutInv, NoticeInv
      <3> QED BY <2>1, <3>1, <3>2
    <2>3. (Traced => Traced') /\ (ReachesQueue => Traced')
      BY <2>1, <2>2 DEF Traced
    <2>4. notable = "notice"
      BY <2>1 DEF WalletOutInv, ErrandInv
    <2>5. ErrandInv'
      BY <2>1, <2>3, <2>4 DEF WalletOutInv, ErrandInv
    <2> QED BY <2>2, <2>5 DEF WalletOutInv
  <1>3. CASE PostNotice(d)
    <2>1. /\ errand[d] = "http" /\ UNCHANGED <<wire, dlq, notable, outrowAt>>
          /\ errand' \in {[errand EXCEPT ![d] = "mark"], [errand EXCEPT ![d] = "attempt"]}
          /\ IngestNotification \/ UNCHANGED <<inInbox, notices>>
          /\ IngestNotification \/ refused' = TRUE \/ errand' = [errand EXCEPT ![d] = "attempt"]
          /\ refused' = refused \/ refused' = TRUE
      BY <1>3 DEF PostNotice, AcceptNotice, Errand
    <2>2. NoticeInv' /\ (inInbox => inInbox') /\ (IngestNotification => inInbox') /\ (OnItsWay' = OnItsWay)
      <3>1. OnItsWay' = OnItsWay
        BY <2>1 DEF OnItsWay
      <3>2. CASE IngestNotification
        <4>1. inInbox' = TRUE /\ notices' = 1
          BY <3>2 DEF IngestNotification, WalletOutInv, NoticeInv
        <4> QED BY <2>1, <3>1, <4>1 DEF WalletOutInv, NoticeInv
      <3>3. CASE ~IngestNotification
        BY <2>1, <3>1, <3>3 DEF WalletOutInv, NoticeInv
      <3> QED BY <3>2, <3>3
    <2>3. (Traced => Traced') /\ (errand' = [errand EXCEPT ![d] = "attempt"] \/ Traced')
      BY <2>1, <2>2 DEF Traced
    <2>4. notable = "notice"
      BY <2>1 DEF WalletOutInv, ErrandInv
    <2>5. ErrandInv'
      BY <2>1, <2>3, <2>4 DEF WalletOutInv, ErrandInv
    <2> QED BY <2>2, <2>5 DEF WalletOutInv
  <1> QED BY <1>1, <1>2, <1>3

LEMMA WalletOutInvStep == WalletOutInv /\ [WalletOutNext]_walletOutVars => WalletOutInv'
  <1> SUFFICES ASSUME WalletOutInv, [WalletOutNext]_walletOutVars PROVE WalletOutInv'
    OBVIOUS
  <1>1. CASE UNCHANGED <<noticeVars, notable, outrowAt, errand, refused>>
    BY <1>1 DEF noticeVars, WalletOutInv, NoticeInv, ErrandInv, OnItsWay, Traced
  <1> QED BY <1>1, NoticeStep, DrainStep DEF WalletOutNext, walletOutVars

\* wallet-service's outbox and notification-service: one notification at most for
\* a row, however many drains tell it and however often its copies come, and a
\* trace of it for as long as there is none.
THEOREM RowIsToldOnce == WalletOutSpec => []ToldOnceAndForAll
  <1>1. WalletOutInv => ToldOnceAndForAll
    BY DEF WalletOutInv, NoticeInv, ErrandInv, Traced, ToldOnceAndForAll
  <1> QED BY <1>1, WalletOutInvInit, WalletOutInvStep, PTL DEF WalletOutSpec

\* What the invariant above leaves open of the types.
RestTyped ==
    /\ listening \in BOOLEAN /\ refused \in BOOLEAN
    /\ notable \in Contents
    /\ Link!LinkTypeOK

LEMMA LinkStep ==
    ASSUME Link!LinkTypeOK,
           Link!LinkNext \/ (\E reply : Link!Publishing(reply)) \/ UNCHANGED walletLink
    PROVE  Link!LinkTypeOK'
  <1> USE WalletAttempts DEF Link!LinkTypeOK
  <1>0. /\ walletLink.attempts \in 0..MaxAttempts
        /\ walletLink.attempts > 0 => walletLink.attempts - 1 \in 0..MaxAttempts
    OBVIOUS
  <1>1. CASE Link!Connected
    <2>1. walletLink.attempts - 1 \in 0..MaxAttempts
      BY <1>0, <1>1 DEF Link!Connected
    <2> HIDE WalletAttempts
    <2> QED BY <1>1, <2>1 DEF Link!Connected
  <1>2. CASE Link!ConnectFails
    <2>1. walletLink.attempts - 1 \in 0..MaxAttempts
      BY <1>0, <1>2 DEF Link!ConnectFails
    <2> HIDE WalletAttempts
    <2> QED BY <1>2, <2>1 DEF Link!ConnectFails, Link!ResetState
  <1>3. CASE Link!ConnectionCloses
    BY <1>3 DEF Link!ConnectionCloses, Link!ResetState
  <1>4. CASE Link!LinkLost
    BY <1>4 DEF Link!LinkLost
  <1>5. ASSUME NEW l \in [usable : BOOLEAN, connecting : BOOLEAN, timer : BOOLEAN,
                          attempts : 0..MaxAttempts, stale : BOOLEAN]
        PROVE  Link!Dial(l) \in [usable : BOOLEAN, connecting : BOOLEAN, timer : BOOLEAN,
                                 attempts : 0..MaxAttempts, stale : BOOLEAN]
    <2>1. CASE l.connecting \/ l.attempts = MaxAttempts
      BY <2>1 DEF Link!Dial
    <2>2. CASE ~(l.connecting \/ l.attempts = MaxAttempts)
      <3>1. l.attempts + 1 \in 0..MaxAttempts
        BY <2>2
      <3> QED BY <2>2, <3>1 DEF Link!Dial
    <2> QED BY <2>1, <2>2
  <1>6. CASE Link!ReconnectTimer
    <2>1. [walletLink EXCEPT !.timer = FALSE]
            \in [usable : BOOLEAN, connecting : BOOLEAN, timer : BOOLEAN, attempts : 0..MaxAttempts, stale : BOOLEAN]
      OBVIOUS
    <2> QED BY <1>5, <1>6, <2>1 DEF Link!ReconnectTimer
  <1>7. CASE \E reply : Link!Publishing(reply)
    BY <1>5, <1>7 DEF Link!Publishing
  <1> QED BY <1>1, <1>2, <1>3, <1>4, <1>6, <1>7 DEF Link!LinkNext

LEMMA RestStep == RestTyped /\ [WalletOutNext]_walletOutVars => RestTyped'
  <1> SUFFICES ASSUME RestTyped, [WalletOutNext]_walletOutVars PROVE RestTyped'
    OBVIOUS
  <1>1. listening' \in BOOLEAN /\ refused' \in BOOLEAN /\ notable' \in Contents
    BY DEF RestTyped, WalletOutNext, walletOutVars, noticeVars, NoticeNext, ConsumerLost, ServiceRestarts,
       Consume, HandleMessage, AckNotice, RetryOrDeadLetter, RetriedTwice, ClaimPendingRows, ReadRow,
       PublishNotice, PostNotice, MarkPublished, CountAttempt, WalletDrainFails
  <1>2. Link!LinkNext \/ (\E reply : Link!Publishing(reply)) \/ UNCHANGED walletLink
    BY DEF WalletOutNext, walletOutVars, ClaimPendingRows, ReadRow,
       PublishNotice, PostNotice, MarkPublished, CountAttempt, WalletDrainFails
  <1> QED BY <1>1, <1>2, LinkStep DEF RestTyped

\* The row, the drains, the copies and the publisher's connection keep their
\* types, whatever the connection goes through.
THEOREM WalletOutTypeCorrect == WalletOutSpec => []WalletOutTypeOK
  <1>1. WalletOutInit => RestTyped
    <2>1. 1 \in 0..MaxAttempts
      BY WalletAttempts
    <2>2. Link!LinkInit => Link!LinkTypeOK
      BY <2>1 DEF Link!LinkInit, Link!LinkTypeOK
    <2>3. WalletOutInit => listening \in BOOLEAN /\ refused \in BOOLEAN
      BY DEF WalletOutInit, NoticeInit
    <2> QED BY <2>2, <2>3 DEF WalletOutInit, RestTyped
  <1>2. WalletOutInv /\ RestTyped => WalletOutTypeOK
    BY DEF WalletOutInv, NoticeInv, ErrandInv, RestTyped, WalletOutTypeOK, NoticeTypeOK, Wire
  <1> QED BY <1>1, <1>2, RestStep, WalletOutInvInit, WalletOutInvStep, PTL DEF WalletOutSpec
=============================================================================
