----------------------------- MODULE BrokerLink -----------------------------
(***************************************************************************)
(* The singleton connection of a service to RabbitMQ, for the events that  *)
(* are not in the shared envelope (utils/rabbitmq.publisher.ts).           *)
(*                                                                         *)
(* Every attempt to connect runs to its end whatever happened meanwhile,   *)
(* and the handlers of a connection that was given up still reset the      *)
(* variables when it closes.                                               *)
(***************************************************************************)
EXTENDS Naturals

CONSTANT MaxAttempts    \* bound: attempts to connect that run at once

ASSUME SomeAttempt == MaxAttempts \in Nat \ {0}

VARIABLE link    \* usable: channel and exchange are set; connecting: isConnecting;
                 \* timer: reconnectTimer; attempts: calls of connectBackground at
                 \* work; stale: connections that were given up but not closed

LinkTypeOK ==
    link \in [usable : BOOLEAN, connecting : BOOLEAN, timer : BOOLEAN,
              attempts : 0..MaxAttempts, stale : BOOLEAN]

\* The module connects as it is loaded.
LinkInit == link = [usable |-> FALSE, connecting |-> TRUE, timer |-> FALSE, attempts |-> 1, stale |-> FALSE]

\* connectBackground, up to its first await.
Dial(l) ==
    IF l.connecting \/ l.attempts = MaxAttempts THEN l
    ELSE [l EXCEPT !.connecting = TRUE, !.attempts = @ + 1]

\* Both, as resetState and scheduleReconnect are called together.
ResetState(l) == [l EXCEPT !.usable = FALSE, !.connecting = FALSE, !.timer = TRUE]

\* A second connection takes the place of the first, which stays open.
Connected ==
    /\ link.attempts > 0
    /\ link' = [link EXCEPT !.usable = TRUE, !.connecting = FALSE, !.attempts = @ - 1, !.stale = @ \/ link.usable]

ConnectFails ==
    /\ link.attempts > 0
    /\ link' = [ResetState(link) EXCEPT !.attempts = @ - 1]

\* The handler does not look which connection it is that closes.
ConnectionCloses ==
    /\ link.usable \/ link.stale
    /\ \E old \in IF link.stale THEN {FALSE, link.usable} ELSE {FALSE} :
          link' = [ResetState(link) EXCEPT !.stale = old]

\* The channel's error schedules an attempt, its close alone does not; the
\* connection stays open.
LinkLost ==
    /\ link.usable
    /\ \E erred \in BOOLEAN :
          link' = [link EXCEPT !.usable = FALSE, !.stale = TRUE, !.timer = @ \/ erred]

ReconnectTimer ==
    /\ link.timer
    /\ link' = Dial([link EXCEPT !.timer = FALSE])

LinkNext == Connected \/ ConnectFails \/ ConnectionCloses \/ LinkLost \/ ReconnectTimer

\* publish: "down" when there is no channel, and an attempt is started; a
\* confirmation that fails gives the channel up, though the message may have
\* been taken.
Publishing(reply) ==
    \/ reply = "down" /\ ~link.usable /\ link' = Dial(link)
    \/ reply = "confirmed" /\ link.usable /\ UNCHANGED link
    \/ reply = "unconfirmed" /\ link.usable
          /\ link' = [link EXCEPT !.usable = FALSE, !.stale = TRUE, !.timer = TRUE]
=============================================================================
