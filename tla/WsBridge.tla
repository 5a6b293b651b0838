-------------------------------- MODULE WsBridge --------------------------------
(***************************************************************************)
(* The WebSocket backend: WebSocketLLMService._run_remote and              *)
(* WebSocketBridgeClient on the Python side, BridgeConnection on the       *)
(* JavaScript side, and the connection between them.                       *)
(*                                                                         *)
(* One task runs a turn at a time; the receive task routes what arrives to *)
(* the queue of its turn, and reconnects when the socket drops, or gives   *)
(* the connection up (both in pipecat's WebsocketService, which is not in  *)
(* the repository); every turn.cancel is sent by a task of its own;        *)
(* disconnect() runs beside them.                                          *)
(***************************************************************************)
EXTENDS Naturals, Sequences

CONSTANTS
  MaxTurns,         \* turns the pipeline asks for (a bound for model checking)
  MaxTexts,         \* text frames in one response (a bound)
  MaxConnections,   \* connections made, the first included (a bound)
  FirstMayFail,     \* may the connection attempt of start() fail?
  MayDisconnect     \* may the pipeline stop or be cancelled?

ASSUME BridgeAssumption ==
  /\ MaxTurns \in Nat
  /\ MaxTexts \in Nat
  /\ MaxConnections \in Nat \ {0}
  /\ FirstMayFail \in BOOLEAN
  /\ MayDisconnect \in BOOLEAN

VARIABLES
  asked,         \* turns the pipeline has asked for: they are 1 .. asked
  run,           \* the _run_remote call in progress
  out,           \* response frames pushed downstream (history)
  interrupted,   \* turns whose run an interruption cancelled (history)
  sock,          \* the client's socket: "none", "open" or "closed"
  recv,          \* where the receive task is
  leaving,       \* how far disconnect() has come
  connections,   \* connections made so far; the last one is the current one
  streams,       \* keys of _turn_streams
  queue,         \* queue[t]: what the receive task has put in t's queue
  ranOn,         \* the connection turn.run of t was sent on, or 0 (history)
  cancels,       \* turns whose turn.cancel task has not run yet
  toJS,          \* messages on their way to the bridge
  toPy,          \* messages on their way from it
  js             \* BridgeConnection.turns, and the texts their handler emitted

service == <<asked, run, out, interrupted>>
client  == <<sock, recv, leaving, connections>>
wire    == <<toJS, toPy, js>>
vars    == <<service, client, streams, queue, ranOn, cancels, wire>>

Turn == 1 .. MaxTurns

Start(t) == [type |-> "start", turn |-> t]
Text(t)  == [type |-> "text", turn |-> t]
End(t)   == [type |-> "end", turn |-> t]
Error(t) == [type |-> "error", turn |-> t]
Run(t)    == [type |-> "turn.run", turn |-> t]
Cancel(t) == [type |-> "turn.cancel", turn |-> t]
StreamClosed(t) == [type |-> "closed", turn |-> t]

Idle      == [turn |-> 0, phase |-> "idle", started |-> FALSE]
NotInMap  == [status |-> "none", said |-> 0]
NewTurn   == [status |-> "running", said |-> 0]
NoTurns   == [t \in Turn |-> NotInMap]

Init ==
  /\ asked = 0 /\ run = Idle /\ out = <<>> /\ interrupted = {}
  /\ sock = "none" /\ recv = "unstarted" /\ leaving = "no" /\ connections = 0
  /\ streams = {} /\ queue = [t \in Turn |-> <<>>] /\ ranOn = [t \in Turn |-> 0]
  /\ cancels = {} /\ toJS = <<>> /\ toPy = <<>> /\ js = NoTurns

-----------------------------------------------------------------------------
(* WebSocketLLMService._run_remote over WebSocketBridgeClient.run_turn      *)

\* What the finally block pushes for run r.  (The operators *_M are what a bug
\* would make of the definition that follows them.)
Ending_M(r) == <<End(r.turn)>>
Ending(r)   == IF r.started THEN <<End(r.turn)>>
                            ELSE <<Start(r.turn), End(r.turn)>>

\* The run is over, however it ended.
Leave ==
  /\ run' = Idle
  /\ out' = out \o Ending(run)

\* run_turn's finally block: the turn's queue is gone.
Unregister(t) ==
  /\ streams' = streams \ {t}
  /\ queue' = [queue EXCEPT ![t] = <<>>]

\* A context frame, or an injected turn, starts a run.
BeginTurn ==
  /\ recv # "unstarted" /\ leaving = "no"
  /\ run = Idle /\ asked < MaxTurns
  /\ asked' = asked + 1
  /\ run' = [turn |-> asked + 1, phase |-> "payload", started |-> FALSE]
  /\ UNCHANGED <<out, interrupted, client, streams, queue, ranOn, cancels, wire>>

\* run_turn on an open socket registers the turn's queue and sends turn.run.
RequestTurn ==
  /\ run.phase = "payload" /\ sock = "open"
  /\ run' = [run EXCEPT !.phase = "waiting"]
  /\ streams' = streams \cup {run.turn}
  /\ ranOn' = [ranOn EXCEPT ![run.turn] = connections]
  /\ toJS' = Append(toJS, Run(run.turn))
  /\ UNCHANGED <<asked, out, interrupted, client, queue, cancels, toPy, js>>

\* run_turn without a connection raises.
RequestRefused ==
  /\ run.phase = "payload" /\ sock # "open"
  /\ Leave
  /\ UNCHANGED <<asked, interrupted, client, streams, queue, ranOn, cancels, wire>>

\* The run takes the next item of its queue, an item of that type.
Taking(type) ==
  /\ run.phase = "waiting" /\ queue[run.turn] # <<>>
  /\ Head(queue[run.turn]).type = type

PushStart ==
  /\ Taking("start")
  /\ queue' = [queue EXCEPT ![run.turn] = Tail(@)]
  /\ run' = [run EXCEPT !.started = TRUE]
  /\ out' = Append(out, Start(run.turn))
  /\ UNCHANGED <<asked, interrupted, client, streams, ranOn, cancels, wire>>

\* Content before a start frame gets one made up for it.
PushText ==
  /\ Taking("text")
  /\ queue' = [queue EXCEPT ![run.turn] = Tail(@)]
  /\ run' = [run EXCEPT !.started = TRUE]
  /\ out' = (IF run.started THEN out ELSE Append(out, Start(run.turn)))
              \o <<Text(run.turn)>>
  /\ UNCHANGED <<asked, interrupted, client, streams, ranOn, cancels, wire>>

\* The end frame, or the loss of the connection, ends the stream.
StreamEnds ==
  /\ Taking("end") \/ Taking("closed")
  /\ Leave
  /\ Unregister(run.turn)
  /\ UNCHANGED <<asked, interrupted, client, ranOn, cancels, wire>>

\* An error of the bridge is raised in the body of the loop over the stream: the
\* generator, and its queue, are left for its finaliser.
RemoteError ==
  /\ Taking("error")
  /\ Leave
  /\ queue' = [queue EXCEPT ![run.turn] = Tail(@)]
  /\ UNCHANGED <<asked, interrupted, client, streams, ranOn, cancels, wire>>

\* Nothing arrived within turn_timeout.  The bridge is not told.
IdleTimeout_M == FALSE /\ UNCHANGED vars
IdleTimeout ==
  /\ run.phase = "waiting" /\ queue[run.turn] = <<>>
  /\ Leave
  /\ Unregister(run.turn)
  /\ UNCHANGED <<asked, interrupted, client, ranOn, cancels, wire>>

\* An interruption cancels the run: at the wait for the next item, which takes
\* the queue along, or elsewhere, which leaves it for the finaliser.
Interrupt_M ==
  /\ asked > 0
  /\ Leave
  /\ interrupted' = interrupted \cup {run.turn}
  /\ cancels' = cancels \cup {run.turn}
  /\ Unregister(run.turn) \/ UNCHANGED <<streams, queue>>
  /\ UNCHANGED <<asked, client, ranOn, wire>>
Interrupt ==
  /\ run # Idle
  /\ Leave
  /\ interrupted' = interrupted \cup {run.turn}
  /\ cancels' = cancels \cup {run.turn}
  /\ Unregister(run.turn) \/ UNCHANGED <<streams, queue>>
  /\ UNCHANGED <<asked, client, ranOn, wire>>

\* The finaliser of a generator whose loop was left.
FinaliseStream ==
  \E t \in streams \ {run.turn} :
    /\ Unregister(t)
    /\ UNCHANGED <<service, client, ranOn, cancels, wire>>

-----------------------------------------------------------------------------
(* WebSocketBridgeClient                                                    *)

\* connect(): the receive task exists once the socket is open.
Connect ==
  /\ recv = "unstarted"
  /\ sock' = "open" /\ recv' = "reading" /\ connections' = 1
  /\ UNCHANGED <<service, leaving, streams, queue, ranOn, cancels, wire>>

\* The attempt fails: start() reports it and goes on without receive task.
ConnectFails ==
  /\ FirstMayFail
  /\ recv = "unstarted"
  /\ recv' = "absent"
  /\ UNCHANGED <<service, sock, leaving, connections, streams, queue, ranOn,
                 cancels, wire>>

\* request_cancel's task runs: _safe_send.
SendCancel ==
  \E t \in cancels :
    /\ cancels' = cancels \ {t}
    /\ toJS' = IF sock = "open" THEN Append(toJS, Cancel(t)) ELSE toJS
    /\ UNCHANGED <<service, client, streams, queue, ranOn, toPy, js>>

\* _dispatch: to the queue of its turn, or to nobody.
Dispatch ==
  /\ recv = "reading" /\ toPy # <<>>
  /\ toPy' = Tail(toPy)
  /\ queue' = IF Head(toPy).turn \in streams
              THEN [queue EXCEPT ![Head(toPy).turn] = Append(@, Head(toPy))]
              ELSE queue
  /\ UNCHANGED <<service, client, streams, ranOn, cancels, toJS, js>>

\* _fail_active_turns
FailActiveTurns_M == queue' = queue
FailActiveTurns ==
  queue' = [t \in Turn |-> IF t \in streams THEN Append(queue[t], StreamClosed(t))
                                            ELSE queue[t]]

\* The socket is closed and what had arrived on it has been read.
ReceiveEnds_M ==
  /\ recv = "reading" /\ sock = "closed" /\ toPy = <<>>
  /\ recv' = "ended"
  /\ FailActiveTurns
  /\ UNCHANGED <<service, sock, leaving, connections, streams, ranOn, cancels,
                 wire>>
ReceiveEnds ==
  /\ recv = "reading" /\ sock = "closed" /\ toPy = <<>>
  /\ recv' = "reconnecting"
  /\ FailActiveTurns
  /\ UNCHANGED <<service, sock, leaving, connections, streams, ranOn, cancels,
                 wire>>

\* WebsocketService reconnects: a new connection, with a bridge of its own.
Reconnect ==
  /\ recv = "reconnecting" /\ leaving = "no"
  /\ sock' = "open" /\ recv' = "reading" /\ connections' = connections + 1
  /\ UNCHANGED <<service, leaving, streams, queue, ranOn, cancels, wire>>

\* It gives up: its attempts are bounded, connections that drop at once count as
\* failures, and with reconnect_on_error = False it makes none.  The receive task
\* is over, the socket stays closed.
GiveUp ==
  /\ recv = "reconnecting" /\ leaving = "no"
  /\ recv' = "gaveUp"
  /\ UNCHANGED <<service, sock, leaving, connections, streams, queue, ranOn,
                 cancels, wire>>

\* disconnect() up to session.end.
StartDisconnect ==
  /\ MayDisconnect /\ leaving = "no" /\ recv # "unstarted"
  /\ leaving' = "ending"
  /\ UNCHANGED <<service, sock, recv, connections, streams, queue, ranOn,
                 cancels, wire>>

\* disconnect() cancels the receive task, whose finally block may run.
CancelReceive ==
  /\ leaving = "ending"
  /\ leaving' = "cancelled"
  /\ recv' = "ended"
  /\ IF recv = "reading" THEN FailActiveTurns ELSE queue' = queue
  /\ UNCHANGED <<service, sock, connections, streams, ranOn, cancels, wire>>

\* disconnect() closes the socket and fails what is still registered.
CloseSocket ==
  /\ leaving = "cancelled"
  /\ leaving' = "done"
  /\ sock' = "none"
  /\ toJS' = <<>> /\ toPy' = <<>> /\ js' = NoTurns
  /\ FailActiveTurns
  /\ UNCHANGED <<service, recv, connections, streams, ranOn, cancels>>

-----------------------------------------------------------------------------
(* The connection, and BridgeConnection                                     *)

\* The connection drops: what had reached the client will still be read, what
\* had not reached the bridge is lost, and the bridge's side closes.
Drop ==
  /\ sock = "open" /\ connections < MaxConnections
  /\ sock' = "closed"
  /\ \E n \in 0 .. Len(toPy) : toPy' = SubSeq(toPy, 1, n)
  /\ toJS' = <<>> /\ js' = NoTurns
  /\ UNCHANGED <<service, recv, leaving, connections, streams, queue, ranOn,
                 cancels>>

\* cancelTurn: the turn with that id, if it is still in the map.
Aborted_M1(turns, t) ==
  [u \in Turn |-> IF turns[u].status = "running"
                  THEN [turns[u] EXCEPT !.status = "aborted"] ELSE turns[u]]
Aborted_M2(turns, t) == turns
Aborted(turns, t) ==
  IF turns[t].status = "none" THEN turns ELSE [turns EXCEPT ![t].status = "aborted"]

\* handleMessage for turn.run: runTurn up to the handler.
RunTurn ==
  /\ toJS # <<>> /\ Head(toJS).type = "turn.run"
  /\ toJS' = Tail(toJS)
  /\ LET t == Head(toJS).turn
     IN  IF js[t].status = "none"
         THEN js' = [js EXCEPT ![t] = NewTurn] /\ toPy' = Append(toPy, Start(t))
         ELSE js' = js /\ toPy' = Append(toPy, Error(t))
  /\ UNCHANGED <<service, client, streams, queue, ranOn, cancels>>

\* handleMessage for turn.cancel.
CancelTurn ==
  /\ toJS # <<>> /\ Head(toJS).type = "turn.cancel"
  /\ toJS' = Tail(toJS)
  /\ js' = Aborted(js, Head(toJS).turn)
  /\ UNCHANGED <<service, client, streams, queue, ranOn, cancels, toPy>>

\* The handler emits a text; the emitter's guard holds an aborted turn's back.
HandlerEmits ==
  \E t \in Turn :
    /\ js[t].status = "running" /\ js[t].said < MaxTexts
    /\ js' = [js EXCEPT ![t].said = @ + 1]
    /\ toPy' = Append(toPy, Text(t))
    /\ UNCHANGED <<service, client, streams, queue, ranOn, cancels, toJS>>

\* The handler returns, throws, or throws TurnAbortedError: that, like any end of
\* an aborted turn, is not told to the other side.
HandlerLeaves ==
  \E t \in Turn :
    /\ js[t].status # "none"
    /\ js' = [js EXCEPT ![t] = NotInMap]
    /\ \/ toPy' = toPy
       \/ /\ js[t].status = "running"
          /\ toPy' \in {Append(toPy, End(t)), Append(toPy, Error(t))}
    /\ UNCHANGED <<service, client, streams, queue, ranOn, cancels, toJS>>

-----------------------------------------------------------------------------
RunTask     == RequestTurn \/ RequestRefused \/ PushStart \/ PushText
                 \/ StreamEnds \/ RemoteError \/ IdleTimeout
ReceiveTask == Dispatch \/ ReceiveEnds \/ Reconnect \/ GiveUp
Disconnect  == CancelReceive \/ CloseSocket
MessageLoop == RunTurn \/ CancelTurn
Handler     == HandlerEmits \/ HandlerLeaves
Pipeline    == BeginTurn \/ Interrupt \/ StartDisconnect

\* Nobody has anything to do: the bounds are used up, or the pipeline has left.
Quiescent ==
  /\ asked = MaxTurns \/ leaving = "done"
  /\ run = Idle /\ streams = {} /\ cancels = {}
  /\ toJS = <<>> /\ toPy = <<>> /\ js = NoTurns
  /\ UNCHANGED vars

Next == RunTask \/ FinaliseStream \/ ReceiveTask \/ SendCancel \/ Disconnect
          \/ MessageLoop \/ Handler \/ Connect \/ ConnectFails \/ Drop \/ Pipeline
          \/ Quiescent

\* Both event loops run their tasks; a connection attempt comes to an end, and a
\* reconnection succeeds or is given up.  Nothing is assumed of the handler, the
\* pipeline or the network.
Fairness ==
  /\ WF_vars(RunTask) /\ WF_vars(ReceiveTask) /\ WF_vars(SendCancel)
  /\ WF_vars(Disconnect) /\ WF_vars(MessageLoop)
  /\ WF_vars(Connect \/ ConnectFails)

Spec     == Init /\ [][Next]_vars
FairSpec == Spec /\ Fairness

-----------------------------------------------------------------------------
(* Properties                                                               *)

TypeOK ==
  /\ asked \in 0 .. MaxTurns
  /\ run \in [turn : Turn, phase : {"payload", "waiting"}, started : BOOLEAN]
               \cup {Idle}
  /\ interrupted \in SUBSET Turn
  /\ sock \in {"none", "open", "closed"}
  /\ recv \in {"unstarted", "absent", "reading", "reconnecting", "gaveUp", "ended"}
  /\ leaving \in {"no", "ending", "cancelled", "done"}
  /\ connections \in 0 .. MaxConnections
  /\ streams \in SUBSET Turn /\ cancels \in SUBSET Turn
  /\ queue \in [Turn -> Seq([type : {"start", "text", "end", "error", "closed"},
                             turn : Turn])]
  /\ ranOn \in [Turn -> 0 .. MaxConnections]
  /\ out \in Seq([type : {"start", "text", "end"}, turn : Turn])
  /\ toJS \in Seq([type : {"turn.run", "turn.cancel"}, turn : Turn])
  /\ toPy \in Seq([type : {"start", "text", "end", "error"}, turn : Turn])
  /\ js \in [Turn -> [status : {"none", "running", "aborted"},
                      said : 0 .. MaxTexts]]

\* The service keeps the promise of every LLM service: matched pairs, one
\* response at a time, nothing of a turn outside its response, whatever the
\* bridge, the connection and the interruptions do.
Responses == INSTANCE TurnResponses WITH Turn <- Turn, out <- out
KeepsThePromise == Responses!Spec

\* The queue of turn t holds something that ends its run.
Ends(t) == \E i \in DOMAIN queue[t] : queue[t][i].type \in {"end", "error", "closed"}

\* Fail fast: a run never waits on a connection the receive task no longer
\* reads, unless disconnect() is about to fail it or its queue ends it already.
NoDeafTurn ==
  (run.phase = "waiting" /\ ~Ends(run.turn)) =>
    \/ recv = "reading" /\ ranOn[run.turn] = connections
    \/ leaving = "cancelled"

\* bridge.ts:49: a late cancel can never hit the wrong turn.  A turn the bridge
\* aborts is one whose run was interrupted.
CancelHitsItsTurn ==
  \A t \in Turn : js[t].status = "aborted" => t \in interrupted

\* No run waits for ever, though the bridge may never answer.
RunsEnd == \A t \in Turn : run.turn = t ~> run.turn # t

\* The bridge stops generating for a turn the user interrupted: it aborts it, or
\* the connection it runs on is gone, though turn.cancel is sent by a task that
\* may run after the next turn.run.
GenerationAborted ==
  \A t \in Turn :
    (t \in interrupted /\ js[t].status = "running") ~> js[t].status # "running"

\* A drop is attended to, whatever is left to read and whichever turns run: the
\* connection comes back, unless the client gave up trying or the pipeline leaves.
Reconnects ==
  sock = "closed" ~> (sock = "open" \/ recv = "gaveUp" \/ leaving # "no")

=============================================================================
