------------------------------- MODULE Heartbeat -------------------------------
(***************************************************************************)
(* The application-level heartbeat of WebSocketBridgeClient                *)
(* (_heartbeat_loop, and the pong branch of _dispatch) against a bridge    *)
(* process whose event loop may hang, over a connection that may drop and  *)
(* come back at any point of the loop.                                     *)
(*                                                                         *)
(* Time is counted in pings: _last_pong_ts >= _last_ping_ts says that a    *)
(* pong, of whichever ping, has arrived since the last ping was sent.      *)
(***************************************************************************)
EXTENDS Naturals

CONSTANT MaxInFlight   \* pings (and pongs) on their way: beyond it they are lost

ASSUME HeartbeatAssumption == MaxInFlight \in Nat \ {0}

VARIABLES
  loop,       \* the heartbeat loop sleeps: "interval", or "timeout" after a ping
  unanswered, \* pings sent since a pong last arrived (2 stands for more)
  missed,     \* _missed_heartbeats
  sock,       \* "open" or "closed"
  toJS,       \* pings on their way to the bridge
  toPy,       \* pongs on their way from it
  wedged      \* does the event loop of the bridge process hang?

vars == <<loop, unanswered, missed, sock, toJS, toPy, wedged>>

Init ==
  /\ loop = "interval" /\ unanswered = 0 /\ missed = 0
  /\ sock = "open" /\ toJS = 0 /\ toPy = 0
  /\ wedged = FALSE

OneMore(n, bound) == IF n < bound THEN n + 1 ELSE n

-----------------------------------------------------------------------------
(* _heartbeat_loop.  (The operators *_M are what a bug would make of the    *)
(* definition that follows them.)                                           *)

\* The interval is over and the socket is open; otherwise the loop sleeps on.
SendPing_M ==
  /\ loop = "interval" /\ sock = "open"
  /\ loop' = "timeout"
  /\ unanswered' = OneMore(unanswered, 2)
  /\ missed' = 0
  /\ toJS' = OneMore(toJS, MaxInFlight)
  /\ UNCHANGED <<sock, toPy, wedged>>
SendPing ==
  /\ loop = "interval" /\ sock = "open"
  /\ loop' = "timeout"
  /\ unanswered' = OneMore(unanswered, 2)
  /\ toJS' = OneMore(toJS, MaxInFlight)
  /\ UNCHANGED <<missed, sock, toPy, wedged>>

\* The timeout is over and a pong has arrived since the ping.
Answered ==
  /\ loop = "timeout" /\ unanswered = 0
  /\ loop' = "interval"
  /\ UNCHANGED <<unanswered, missed, sock, toJS, toPy, wedged>>

\* The timeout is over without a pong: the first miss is only counted.
Miss ==
  /\ loop = "timeout" /\ unanswered > 0 /\ missed + 1 < 2
  /\ loop' = "interval"
  /\ missed' = missed + 1
  /\ UNCHANGED <<unanswered, sock, toJS, toPy, wedged>>

\* The second closes whatever socket the client has now, which need not be the
\* one the pings were sent on.
ForceReconnect_M ==
  /\ loop = "timeout" /\ unanswered > 0 /\ missed + 1 >= 2
  /\ loop' = "interval"
  /\ missed' = missed + 1
  /\ sock' = "closed" /\ toJS' = 0
  /\ UNCHANGED <<unanswered, toPy, wedged>>
ForceReconnect ==
  /\ loop = "timeout" /\ unanswered > 0 /\ missed + 1 >= 2
  /\ loop' = "interval"
  /\ missed' = 0
  /\ sock' = "closed" /\ toJS' = 0
  /\ UNCHANGED <<unanswered, toPy, wedged>>

-----------------------------------------------------------------------------
(* The receive task, the connection and the bridge                          *)

\* _dispatch of a pong, which may still arrive when the socket has closed.
ReceivePong_M ==
  /\ toPy > 0
  /\ toPy' = toPy - 1
  /\ unanswered' = 0
  /\ UNCHANGED <<missed, loop, sock, toJS, wedged>>
ReceivePong ==
  /\ toPy > 0
  /\ toPy' = toPy - 1
  /\ unanswered' = 0 /\ missed' = 0
  /\ UNCHANGED <<loop, sock, toJS, wedged>>

\* handleMessage of a ping.
Pong ==
  /\ ~wedged /\ toJS > 0
  /\ toJS' = toJS - 1
  /\ toPy' = OneMore(toPy, MaxInFlight)
  /\ UNCHANGED <<loop, unanswered, missed, sock, wedged>>

\* The process hangs, or goes on (or is started again).
Wedge ==
  /\ wedged' = ~wedged
  /\ UNCHANGED <<loop, unanswered, missed, sock, toJS, toPy>>

\* The connection drops; pongs that had not arrived are lost.
Drop ==
  /\ sock = "open"
  /\ sock' = "closed" /\ toJS' = 0
  /\ toPy' \in 0 .. toPy
  /\ UNCHANGED <<loop, unanswered, missed, wedged>>

\* WebsocketService reconnects, to a process that answers the handshake.
Reconnect ==
  /\ sock = "closed" /\ toPy = 0 /\ ~wedged
  /\ sock' = "open"
  /\ UNCHANGED <<loop, unanswered, missed, toJS, toPy, wedged>>

-----------------------------------------------------------------------------
HeartbeatLoop == SendPing \/ Answered \/ Miss \/ ForceReconnect

Next == HeartbeatLoop \/ ReceivePong \/ Pong \/ Wedge \/ Drop \/ Reconnect

\* The client's event loop runs both its tasks.  Nothing is assumed of the
\* bridge process, the network or the reconnection.
Spec == Init /\ [][Next]_vars /\ WF_vars(HeartbeatLoop) /\ WF_vars(ReceivePong)

-----------------------------------------------------------------------------
(* Properties                                                               *)

TypeOK ==
  /\ loop \in {"interval", "timeout"}
  /\ unanswered \in 0 .. 2 /\ missed \in 0 .. 1
  /\ sock \in {"open", "closed"}
  /\ toJS \in 0 .. MaxInFlight /\ toPy \in 0 .. MaxInFlight
  /\ wedged \in BOOLEAN

\* The misses that close a socket are consecutive: since the last pong, of
\* whichever ping and connection, at least two pings have gone unanswered.
ClosedAfterTwoPings == [][ForceReconnect => unanswered >= 2]_vars

\* A bridge whose event loop hangs is noticed: late pongs of earlier pings may
\* hide it for a while, never for good.
WedgeNoticed == (wedged /\ sock = "open") ~> (~wedged \/ sock = "closed")

=============================================================================
