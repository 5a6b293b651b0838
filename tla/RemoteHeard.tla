------------------------------ MODULE RemoteHeard ------------------------------
(***************************************************************************)
(* What the remote LLM process learns of what the user heard: the          *)
(* turn.completed reports of WebSocketLLMService, sent at most once over   *)
(* connections that the heartbeat of Heartbeat.tla, the network and        *)
(* disconnect() close, and the hooks that BridgeConnection calls for them. *)
(*                                                                         *)
(* Every connection has a BridgeConnection and a handler of its own, and   *)
(* starts with session.start.  A message is handled without waiting for    *)
(* the hooks of the messages before it, so what counts is the order in     *)
(* which the hooks are called.  What had arrived on a connection is still  *)
(* handled after the client has given the connection up, perhaps after     *)
(* messages of the next one.                                               *)
(***************************************************************************)
EXTENDS Heartbeat, Sequences, SequencesExt

CONSTANTS
  MaxReports,      \* turns reported (a bound for model checking)
  MaxConnections   \* connections made, the first included (a bound)

ASSUME RemoteAssumption == MaxReports \in Nat /\ MaxConnections \in Nat \ {0}

VARIABLES
  reports,  \* turns reported so far: they are 1 .. reports
  sentOn,   \* the connection a message was sent on, or 0 (history)
  conn,     \* the connection made last
  inbox,    \* inbox[c]: messages on their way to c's BridgeConnection
  called,   \* called[c]: the messages whose hook c's handler has been called for
  leaving   \* how far disconnect() has come

reporting == <<reports, sentOn, conn, inbox, called, leaving>>
allVars   == <<vars, reporting>>

\* Messages are numbered: reports by their turn.
SessionStart == 0
SessionEnd   == MaxReports + 1
Connection   == 1 .. MaxConnections

RInit ==
  /\ Init
  /\ reports = 0 /\ sentOn = [m \in 1 .. SessionEnd |-> 0]
  /\ conn = 1 /\ inbox = [c \in Connection |-> IF c = 1 THEN <<SessionStart>> ELSE <<>>]
  /\ called = [c \in Connection |-> <<>>]
  /\ leaving = "no"

-----------------------------------------------------------------------------
(* The service and its client                                               *)

\* _safe_send: without an open socket the message is dropped.
SafeSend(m) ==
  IF sock = "open"
  THEN /\ sentOn' = [sentOn EXCEPT ![m] = conn]
       /\ inbox' = [inbox EXCEPT ![conn] = Append(@, m)]
  ELSE UNCHANGED <<sentOn, inbox>>

\* A VqlTurnCompletedFrame reaches the service.
SendTurnCompleted ==
  /\ leaving = "no" /\ reports < MaxReports
  /\ reports' = reports + 1
  /\ SafeSend(reports + 1)
  /\ UNCHANGED <<vars, conn, called, leaving>>

\* disconnect up to the cancelling of its tasks.
Disconnect ==
  /\ leaving = "no"
  /\ leaving' = "ending"
  /\ SafeSend(SessionEnd)
  /\ UNCHANGED <<vars, reports, conn, called>>

\* The heartbeat and receive tasks are cancelled and the socket is closed.
DisconnectWebsocket ==
  /\ leaving = "ending"
  /\ leaving' = "done"
  /\ sock' = "closed" /\ toJS' = 0 /\ toPy' = 0
  /\ UNCHANGED <<loop, unanswered, missed, wedged, reports, sentOn, conn, inbox, called>>

\* Of what is under way when a connection is lost, a prefix has arrived.
Lost ==
  /\ \E n \in 0 .. Len(inbox[conn]) :
       inbox' = [inbox EXCEPT ![conn] = SubSeq(@, 1, n)]
  /\ UNCHANGED <<reports, sentOn, conn, called, leaving>>

\* The bridge process dies: nothing that it has not handled is.
Died ==
  /\ inbox' = [c \in Connection |-> <<>>]
  /\ UNCHANGED <<reports, sentOn, conn, called, leaving>>

Loop ==
  /\ leaving # "done"
  /\ \/ (SendPing \/ Answered \/ Miss) /\ UNCHANGED reporting
     \/ ForceReconnect /\ Lost

Receive == leaving # "done" /\ ReceivePong /\ UNCHANGED reporting

\* What _connect_websocket sends on the connection it makes.  (The operators *_M
\* are what a bug would make of the definition that follows them.)
Opening_M == <<SessionStart>> \o inbox[conn]
Opening   == <<SessionStart>>

Connect ==
  /\ leaving = "no" /\ conn < MaxConnections
  /\ Reconnect
  /\ conn' = conn + 1
  /\ inbox' = [inbox EXCEPT ![conn + 1] = Opening]
  /\ UNCHANGED <<reports, sentOn, called, leaving>>

-----------------------------------------------------------------------------
(* The bridge process                                                       *)

\* The message that handleMessage takes next.
Arriving(c) == Head(inbox[c])

\* handleMessage calls the hook of the message.
HandleMessage(c) ==
  /\ ~wedged /\ inbox[c] # <<>>
  /\ called' = [called EXCEPT ![c] = Append(@, Arriving(c))]
  /\ inbox' = [inbox EXCEPT ![c] = Tail(@)]
  /\ UNCHANGED <<vars, reports, sentOn, conn, leaving>>

-----------------------------------------------------------------------------
Service == SendTurnCompleted \/ Disconnect \/ DisconnectWebsocket \/ Connect
Bridge  == \/ (Pong \/ Wedge) /\ UNCHANGED reporting
           \/ \E c \in Connection : HandleMessage(c)

RNext == Service \/ Loop \/ Receive \/ Bridge \/ (Drop /\ (Lost \/ Died))

\* The client's event loop runs its tasks, and a bridge process that keeps going
\* on after it hung handles what has arrived.  Nothing is assumed of pongs, the
\* network and the reconnection.
RSpec ==
  /\ RInit /\ [][RNext]_allVars
  /\ WF_allVars(Loop) /\ WF_allVars(Receive) /\ WF_allVars(DisconnectWebsocket)
  /\ \A c \in Connection : SF_allVars(HandleMessage(c))

-----------------------------------------------------------------------------
(* Properties                                                               *)

ReportTypeOK ==
  /\ TypeOK
  /\ reports \in 0 .. MaxReports /\ conn \in Connection
  /\ sentOn \in [1 .. SessionEnd -> 0 .. conn]
  /\ \A c \in Connection :
       inbox[c] \in Seq(0 .. SessionEnd) /\ called[c] \in Seq(0 .. SessionEnd)
  /\ leaving \in {"no", "ending", "done"}

\* What was sent on connection c, in the order of the numbers.
Sent(c) == {SessionStart} \cup {m \in 1 .. SessionEnd : sentOn[m] = c}

\* A handler's hooks are called for what was sent on its connection, in that
\* order, without a gap and once: the end of the session, if it comes, last, and
\* a report only on the connection it was sent on, whatever is lost with others.
CalledAsSent ==
  \A c \in Connection : \A i \in DOMAIN called[c] :
    /\ called[c][i] \in Sent(c)
    /\ {called[c][h] : h \in 1 .. i - 1} = {m \in Sent(c) : m < called[c][i]}

\* A report that was sent reaches the handler, unless the client gives up the
\* connection it was sent on: a process that hangs does not swallow the reports
\* of a conversation that goes on over the same connection.
ReportSettled ==
  \A m \in 1 .. MaxReports : \A c \in Connection :
    sentOn[m] = c ~> m \in Range(called[c]) \/ conn # c \/ sock = "closed"

=============================================================================
