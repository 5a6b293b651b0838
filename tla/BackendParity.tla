----------------------------- MODULE BackendParity -----------------------------
(***************************************************************************)
(* One response of the agent, generated once through ADK and once behind   *)
(* the WebSocket bridge: AdkLLMService turns the runner's events into      *)
(* frames; BridgeConnection turns what its handler emits into envelopes,   *)
(* and WebSocketLLMService turns those back into frames.  The two services *)
(* run side by side on the same script and never meet: what each of them   *)
(* has pushed is what the pipeline would have seen of it.                  *)
(*                                                                         *)
(* Interruptions, timeouts and lost connections are in WsBridge.           *)
(***************************************************************************)
EXTENDS Naturals, SequencesExt

CONSTANT MaxOps   \* steps of one response (a bound for model checking)

ASSUME ParityAssumption == MaxOps \in Nat

VARIABLES
  script,   \* what the agent does in this response, one operation after another
  fails,    \* does it raise an exception after that?
  adkAt,    \* operations the runner has yielded as events
  adk,      \* the AdkLLMService running it
  handler,  \* the bridge's turn: "asked", "running" or "returned"
  jsAt,     \* operations its handler has performed
  wire,     \* envelopes of the turn not yet consumed by _run_remote
  remote    \* the WebSocketLLMService running it

agent  == <<script, fails>>
bridge == <<handler, jsAt>>
vars   == <<agent, adkAt, adk, bridge, wire, remote>>

-----------------------------------------------------------------------------
(* What an agent can do.  A payload is "none" (None, undefined), "empty"    *)
(* ({} or "") or "some"; token counts are "few" or "many".  A tool call or  *)
(* result may lack its id or its name.                                      *)

Op(kind, ids, bodies) == [op : {kind}, id : ids, body : bodies]

Ops == Op("text",   {TRUE},  {"empty", "some"})
  \cup Op("call",   BOOLEAN, {"none", "some"})
  \cup Op("result", BOOLEAN, {"none", "some"})
  \cup Op("delta",  {TRUE},  {"empty", "some"})
  \cup Op("usage",  {TRUE},  {"few", "many"})

Frame(name, body) == [frame |-> name, body |-> body]
Envelope(type, name, id, body) ==
  [type |-> type, frame |-> name, id |-> id, body |-> body]

\* x or {}
OrEmpty(body) == IF body = "none" THEN "empty" ELSE body

NewRun == [started |-> FALSE, usage |-> "none", over |-> FALSE,
           down |-> <<>>, up |-> <<>>, deltas |-> <<>>]

Init ==
  /\ script \in BoundedSeq(Ops, MaxOps) /\ fails \in BOOLEAN
  /\ adkAt = 0 /\ adk = NewRun
  /\ handler = "asked" /\ jsAt = 0 /\ wire = <<>> /\ remote = NewRun

-----------------------------------------------------------------------------
(* What the two services do alike: push frames, open the response before    *)
(* its first frame, and close it.  (The operators *_M are what a bug would  *)
(* make of the definition that follows them.)                               *)

Down == {"down"}
Both == {"down", "up"}

Push(service, frames, directions) ==
  [service EXCEPT !.down = IF "down" \in directions THEN @ \o frames ELSE @,
                  !.up   = IF "up" \in directions THEN @ \o frames ELSE @]

Opened(service) ==
  IF service.started THEN service
  ELSE Push([service EXCEPT !.started = TRUE], <<Frame("start", "none")>>, Down)

\* The finally block.
Closed(service) ==
  [Push(Opened(service),
        <<Frame("usage", service.usage), Frame("end", "none")>>, Down)
     EXCEPT !.over = TRUE]

\* push_error, then the finally block.
Failed(service) == Closed(Push(service, <<Frame("error", "none")>>, {"up"}))

-----------------------------------------------------------------------------
(* AdkLLMService                                                            *)

EventFrames(o) ==
  CASE o.op = "text" /\ o.body # "empty" -> <<Frame("text", o.body)>>
    [] o.op = "call"   -> <<Frame("calls_started", OrEmpty(o.body)),
                            Frame("in_progress", o.body)>>
    [] o.op = "result" -> <<Frame("result", OrEmpty(o.body))>>
    [] OTHER -> <<>>

NextEvent(kinds) ==
  /\ ~adk.over /\ adkAt < Len(script)
  /\ script[adkAt + 1].op \in kinds
  /\ adkAt' = adkAt + 1
  /\ UNCHANGED <<agent, bridge, wire, remote>>

AdkText ==
  /\ NextEvent({"text"})
  /\ adk' = Push(Opened(adk), EventFrames(script[adkAt']), Down)

\* An event without an id or a name fails the assertions, after the start frame.
AdkTool ==
  /\ NextEvent({"call", "result"})
  /\ LET o == script[adkAt']
     IN adk' = IF o.id THEN Push(Opened(adk), EventFrames(o), Both)
                       ELSE Failed(Opened(adk))

AdkStateDelta ==
  /\ NextEvent({"delta"})
  /\ LET d == script[adkAt'].body
     IN adk' = [Opened(adk) EXCEPT !.deltas = IF d = "empty" THEN @ ELSE Append(@, d)]

\* A final event: its counts replace the earlier ones.
AdkUsage ==
  /\ NextEvent({"usage"})
  /\ adk' = [Opened(adk) EXCEPT !.usage = script[adkAt'].body]

AdkReturns ==
  /\ ~adk.over /\ adkAt = Len(script)
  /\ adk' = IF fails THEN Failed(adk) ELSE Closed(adk)
  /\ UNCHANGED <<agent, adkAt, bridge, wire, remote>>

-----------------------------------------------------------------------------
(* BridgeConnection                                                         *)

Emitted(o) ==
  CASE o.op = "text"   -> <<Envelope("frame", "text", o.id, o.body)>>
    [] o.op = "call"   -> <<Envelope("frame", "calls_started", o.id, o.body),
                            Envelope("frame", "in_progress", o.id, o.body)>>
    [] o.op = "result" -> <<Envelope("frame", "result", o.id, o.body)>>
    [] o.op = "delta"  -> <<Envelope("state.delta", "none", o.id, o.body)>>
    [] o.op = "usage"  -> <<Envelope("turn.usage", "none", o.id, o.body)>>

RunTurn ==
  /\ handler = "asked"
  /\ handler' = "running"
  /\ wire' = Append(wire, Envelope("frame", "start", TRUE, "none"))
  /\ UNCHANGED <<agent, adkAt, adk, jsAt, remote>>

HandlerEmits ==
  /\ handler = "running" /\ jsAt < Len(script)
  /\ jsAt' = jsAt + 1
  /\ wire' = wire \o Emitted(script[jsAt'])
  /\ UNCHANGED <<agent, adkAt, adk, handler, remote>>

HandlerReturns ==
  /\ handler = "running" /\ jsAt = Len(script)
  /\ handler' = "returned"
  /\ wire' = Append(wire, IF fails THEN Envelope("error", "none", TRUE, "none")
                                   ELSE Envelope("frame", "end", TRUE, "none"))
  /\ UNCHANGED <<agent, adkAt, adk, jsAt, remote>>

-----------------------------------------------------------------------------
(* WebSocketLLMService                                                      *)

Directions_M(name) ==
  IF name \in {"calls_started", "in_progress"} THEN Both ELSE Down
Directions(name) ==
  IF name \in {"calls_started", "in_progress", "result"} THEN Both ELSE Down

OutputFrame_M(e) == Frame(e.frame, e.body)
OutputFrame(e) ==
  Frame(e.frame, IF e.frame \in {"calls_started", "result"} THEN OrEmpty(e.body)
                                                            ELSE e.body)

\* _run_remote takes the next envelope of one of these types.
Consume(types) ==
  /\ ~remote.over /\ wire # <<>>
  /\ Head(wire).type \in types
  /\ wire' = Tail(wire)
  /\ UNCHANGED <<agent, adkAt, adk, bridge>>

\* The start frame opens the response, as does any frame that comes without one.
RemoteFrame ==
  /\ Consume({"frame"})
  /\ LET e == Head(wire)
     IN remote' =
          CASE ~e.id -> Failed(remote)                  \* ProtocolError
            [] e.frame = "end" -> Closed(remote)        \* ends the stream of run_turn
            [] e.frame = "start" ->
                 Push([remote EXCEPT !.started = TRUE], <<OutputFrame(e)>>, Down)
            [] OTHER -> Push(Opened(remote), <<OutputFrame(e)>>, Directions(e.frame))

RemoteUsage ==
  /\ Consume({"turn.usage"})
  /\ remote' = [remote EXCEPT !.usage = Head(wire).body]

RemoteStateDelta ==
  /\ Consume({"state.delta"})
  /\ remote' = [remote EXCEPT !.deltas = Append(@, Head(wire).body)]

RemoteError ==
  /\ Consume({"error"})
  /\ remote' = Failed(remote)

\* After a failed run nobody listens to the turn, which the bridge does not know:
\* its late envelopes are dropped, except that a late error is reported, as one of
\* the connection.
DropLate ==
  /\ remote.over /\ wire # <<>>
  /\ wire' = Tail(wire)
  /\ remote' = IF Head(wire).type = "error"
               THEN Push(remote, <<Frame("error", "none")>>, {"up"}) ELSE remote
  /\ UNCHANGED <<agent, adkAt, adk, bridge>>

-----------------------------------------------------------------------------
Quiescent ==
  /\ adk.over /\ remote.over /\ handler = "returned" /\ wire = <<>>
  /\ UNCHANGED vars

Adk    == AdkText \/ AdkTool \/ AdkStateDelta \/ AdkUsage \/ AdkReturns
Bridge == RunTurn \/ HandlerEmits \/ HandlerReturns
Remote == RemoteFrame \/ RemoteUsage \/ RemoteStateDelta \/ RemoteError \/ DropLate

Next == Adk \/ Bridge \/ Remote \/ Quiescent

Spec == Init /\ [][Next]_vars

-----------------------------------------------------------------------------
(* Properties                                                               *)

Frames ==
  {Frame("start", "none"), Frame("end", "none"), Frame("error", "none")}
    \cup {Frame(f, b) : f \in {"text", "calls_started", "result"}, b \in {"empty", "some"}}
    \cup {Frame("in_progress", b) : b \in {"none", "some"}}
    \cup {Frame("usage", b) : b \in {"none", "few", "many"}}

ServiceOK(service) ==
  /\ service.started \in BOOLEAN /\ service.over \in BOOLEAN
  /\ service.usage \in {"none", "few", "many"}
  /\ service.down \in Seq(Frames) /\ service.up \in Seq(Frames)
  /\ service.deltas \in Seq({"empty", "some"})

\* Every variable has its type.  In particular FunctionCallsStarted and
\* FunctionCallResult frames always carry a dict, whichever backend built them
\* (`or {}` in _handle_function_call, _handle_function_response and protocol.py).
TypeOK ==
  /\ fails \in BOOLEAN
  /\ adkAt \in 0 .. Len(script) /\ jsAt \in 0 .. Len(script)
  /\ handler \in {"asked", "running", "returned"}
  /\ ServiceOK(adk) /\ ServiceOK(remote)

Error == Frame("error", "none")

\* s without the elements that are in dull.
Without(s, dull) ==
  FlattenSeq([i \in DOMAIN s |-> IF s[i] \in dull THEN <<>> ELSE <<s[i]>>])

HasError(up) == \E i \in DOMAIN up : up[i] = Error

\* An error ends a response; only the late error of an abandoned turn can follow it.
ErrorOnce(up) ==
  Without(up, {Error}) \o (IF HasError(up) THEN <<Error>> ELSE <<>>)

\* What a service has done, without the empty texts and empty state deltas, which
\* AdkLLMService skips and the bridge hands on, and without such a second error.
Substance(service) ==
  [down   |-> Without(service.down, {Frame("text", "empty")}),
   up     |-> ErrorOnce(service.up),
   deltas |-> Without(service.deltas, {"empty"})]

\* The backends are interchangeable: what one service has pushed downstream,
\* pushed upstream and reported as state deltas is, at any time, a beginning of
\* what the other has or will have, and the same once both are done, errors and
\* token counts included.  (docs/websocket-bridge.md: a black-box-equivalent
\* replacement for AdkLLMService; _run_remote against _run_adk.)
SameResponse ==
  LET a == Substance(adk)
      r == Substance(remote)
  IN /\ \A stream \in {"down", "up", "deltas"} :
           IsPrefix(a[stream], r[stream]) \/ IsPrefix(r[stream], a[stream])
     /\ adk.over => \A stream \in DOMAIN a : IsPrefix(r[stream], a[stream])
     /\ remote.over => \A stream \in DOMAIN r : IsPrefix(a[stream], r[stream])

=============================================================================
