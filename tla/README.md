# pipecat-adk: a TLA+ model

pipecat-adk joins pipecat's voice pipelines to an LLM backend: Google ADK in the same process
(`AdkLLMService`), or a separate process behind a WebSocket (`WebSocketLLMService` and the
JavaScript bridge). The difficulty it exists to solve is *interruption*: the user may speak over the
agent at any moment, and the conversation history the LLM sees must then contain what the user
heard, no more and no less. Everything that makes this hard is asynchronous: five processors with
two tasks each, an interruption that overtakes some queues and not others, a session store written by
two tasks, and, in the second backend, a network.

This directory holds TLA+ modules of those parts, the TLC runs that check them, and proofs that
TLAPS checks. `PROJECT.json` lists components, runs, hazards, findings and theorems, and says for
every definition which lines of the repository it models. Paths below are relative to the
repository.

## 1. The system

| component | state | operations | talks to |
|---|---|---|---|
| user context aggregator (`aggregators.py:43-90`) | `_prev_turn_id`, the transcription so far | a user turn starts (`broadcast_interruption`), ends (`push_aggregation`) | pushes `VqlInterruptionFrame`, `VqlContextFrame` downstream |
| ADK LLM service (`service.py`) | `_turn_invocation_map`, the run in progress | process a context frame, a completed turn, an interruption; `_run_adk`; `_write_heard_event`; `_persist_and_run`; stop, cancel | ADK runner and session store; response frames to the TTS |
| `VqlTTSMixin` (`tts_mixin.py`) | `_turn_context_id` | pin the TTS context to the turn | audio and text frames to the transport |
| assistant context aggregator (`aggregators.py:93-186`) | `_aggregation`, the text spoken so far | aggregate, turn stopped, interrupted | `VqlTurnCompletedFrame` up to the LLM service |
| interruption plugin (`interruption.py`, `heard.py`) | none between calls | rewrite a request's contents by its `[HEARD]` events | called by the ADK runner before every LLM call |
| WebSocket LLM service (`websocket/service.py`) | the run in progress | `_run_remote`, forward completed turns, start, stop | client; response frames to the TTS |
| WebSocket bridge client (`websocket/client.py`) | the socket, `_turn_streams`, receive and heartbeat tasks, heartbeat counters | connect, disconnect, `run_turn`, `request_cancel`, `_dispatch`, heartbeat | service, and the bridge over the socket |
| bridge connection (`js-bridge/src/bridge.ts`, `index.ts`) | `turns`: an abort controller per turn, `closed` | handle messages, run and cancel turns, close | client; the LLM handler |
| protocol codecs (`websocket/protocol.py`, `protocol.ts`) | none | encode, decode, validate | both ends |
| LLM handlers (`handler.ts`) | a script position | run a turn, emit | bridge connection |
| voice agent server (`apps/voice-agent/server`) | `active_sessions` in memory, ADK sessions in a database | start a session, answer a chat request, take a call and build its pipeline | the page; runner and session store; all of the above |
| voice agent page (`client/src/main.js`) | its session id, the messages it shows, a request under way | create a session, send a message | the server's routes |

### What each must get right, and what makes it hard

- **One vocabulary for turns.** A *turn id* is minted by the user aggregator, an *invocation id* by
  ADK; the LLM service joins them in its map when the first event of a run arrives. An interruption
  names a turn the aggregator remembers, which need not be the turn being spoken, and may be named
  again later. Correct: an invocation is marked as cut short at most once, with the text that was
  first reported for it, and never with the words of a later turn.
- **Two tasks per processor.** An interruption and a `VqlTurnCompletedFrame` are handled in the input
  task; contexts, responses and spoken text in the process task, which the interruption cancels. The
  `[HEARD]` write awaits the session store in between, holding up everything behind it.
- **Pairs.** Downstream always sees a response's start frame and its end frame, whatever happened to
  the run: cancelled, timed out, refused, failed, disconnected.
- **At-most-once messages.** `turn.cancel` is sent from a task of its own and lost if the socket is
  down; it may trail the next `turn.run`. It must never stop the wrong turn.
- **Reconnection.** A turn in progress must fail at once, nothing that arrives for it later may reach
  another turn, the connection must come back or be given up, and a bridge whose event loop hangs must be
  noticed.
- **A second reader of what was heard.** The remote process keeps its own history and learns of speech
  only by `turn.completed`, sent at most once. What arrives must be in order and belong to the
  connection, and handler, it was meant for.
- **Two stores, two entrances.** A conversation is entered by chat and by call; the ids handed out are
  in memory, what was said is in a database. Looking up and creating are two awaits; the page gives
  requests up that the server goes on with.

## 2. The modules

| module | models | kind |
|---|---|---|
| `VqlPipeline` | the in-process pipeline: user aggregator, ADK service, TTS mixin, transport, assistant aggregator, session journal | state machine, composed of all five processors |
| `VqlPipelineProofs` | | proofs about it: types, the bookkeeping of turns, shutdown, the order of the journal, whose words a report holds, which report is repeated, and that no word is lost |
| `VqlResponses` | `VqlPipeline` with the history of what the LLM service pushed; it implements `TurnResponses` | refinement |
| `HeardView` | the pipeline's journal as the plugin shows it to the LLM | composition of `VqlPipeline` and `AdkInterruptionPlugin` |
| `VqlServiceProofs` | | proofs about `VqlResponses` (the refinement, what the map and the reports owe each other) and about `HeardView` |
| `AdkInterruptionPlugin` | `_process_heard_markers`, one content per step, against a declarative reference | algorithm |
| `MCAdkInterruptionPlugin` | | its instance for TLC |
| `AdkInterruptionPluginProofs` | | proofs about it, for requests of any length |
| `TurnResponses` | what any LLM service promises the pipeline | abstract specification |
| `WsBridge` | `_run_remote`, the client and the bridge connection, composed over the connection between them; it implements `TurnResponses` too | state machine |
| `WsBridgeProofs` | | proofs about it, among them the refinement |
| `BackendParity` | one response with tool calls, usage, state deltas and failures, generated through both backends side by side | state machine |
| `BackendParityProofs` | | proofs about it: the two give one response |
| `Heartbeat` | the application-level heartbeat, against a process that hangs and a connection that drops | state machine |
| `RemoteHeard` | the reports of what was heard, over the connections that `Heartbeat` opens and closes, to the remote handlers | state machine, extends `Heartbeat` |
| `HeartbeatProofs` | | proofs about both |
| `AgentSessions` | the page, the chat and call routes and the session store of the voice agent application | state machine |
| `AgentSessionsProofs` | | proofs about it |
| `SequenceLemmas` | | what the proofs need of sequences: their least counterexamples, concatenation, and `FlattenSeq` |

### VqlPipeline

A frame queue between two processors is a sequence (`down`, `toTTS`, `toOut`, `toAA`, `up`). `down`
is what the user side has pushed to the LLM service, `procQ` what its input task has handed to its
process task, `run` the `_run_adk` call in progress: `called` (before the runner logs the message),
`asked` (the LLM has the journal so far), `streaming` (the first event has arrived: the invocation is
known and the start frame pushed), `persisted` (the final event is logged). `session` is the journal
as a sequence of `user`, `model` and `heard` events; `heardWrite` is a `_write_heard_event` between
`get_session` and `append_event`. `played` and `completions` are history: what the user heard, and
what was reported. Text is abstracted to numbered sentences of a turn, an invocation is named by its
turn (one `run_async` call allocates one invocation).

How a frame queue behaves under an interruption is where the model has to be exact:

- the LLM service and the TTS call their parent's `process_frame`: the interruption cancels the process
  task and empties its queue;
- an interruption is a SystemFrame: it comes out of a processor's input queue before the plain frames
  that wait there, and these *survive* it; only what has reached the process task is dropped. A `[HEARD]`
  write holds the LLM service's input task (`service.py:192`), so contexts and interruptions queue up
  behind it in `down`: `LLMInterrupted` takes the first interruption wherever it stands, `RouteContext` a
  context only when none waits. The run of a context may thus begin *after* the interruption that names
  its turn; `overtaken` remembers for the properties which turns that happened to;
- nothing in this repository holds the input task of the TTS, the output or the aggregator, so what waits
  there in front of an interruption has reached the process task: they take the first interruption of
  their queue at any time, and the TTS and the output drop what stands before it;
- `VqlAssistantContextAggregator` returns before calling its parent for a `VqlInterruptionFrame`, so
  spoken text still queued for its process task stays there (`AAInterrupted`), whereas the plain
  `InterruptionFrame` goes through the parent and drops the queue (`AAPlainInterrupted`).

An overtaken context has consequences that several properties have to name. Words left over at the
aggregator from turn 1 are reported in the name of turn 2, which has yet to run: that report finds no map
entry and writes nothing, and turn 2 then runs, speaks, and may be reported again. `FirstReport` does not
count such a report, which tells of other turns' words only (`~OwnWords`). `HeardIsFirstReport`: a `[HEARD]`
event repeats the first report of its turn, which was one of a turn cut short. `CutShortIsMarked`: a turn
whose own words were reported as cut short is on the way to its `[HEARD]` event, or has it.
`MapHoldsUnreported`: no turn stays in `_turn_invocation_map` once a report of its words has been handled.

`PushAggregation` pushes the frame and records `_prev_turn_id` in one step although the code awaits in
between: the same task handles the start of the next user turn. The runner's `EndRun` stands for the
end of the stream and for an exception or timeout at any earlier point; all run the same `finally` block.

### VqlResponses

`TurnResponses` is the promise in the docstring of `_run_remote`, "a matched start / end pair, just
like AdkLLMService", said once for any backend: responses are opened and closed alternately, content
appears only in the response of its own turn, a turn is answered at most once. The TTS takes frames out
of `toTTS` as the service puts them in, so the refinement needs a history variable: `pushed` collects
what a step of `VqlPipeline` appends. `KeepsThePromise` then is `TurnResponses` with `out <- pushed`.
The hard part is the cancelled run, whose `finally` block closes the response that the interruption cut,
before the interruption itself and before the next turn's start frame.

### HeardView

The plugin finds the model event of a `[HEARD]` event by position, and whether that is the right one
depends on what the two tasks of the service have put in the journal. `HeardView` applies
`AdkInterruptionPlugin`'s `Expected` to `VqlPipeline`'s journal: the LLM is shown a response whole, or as
it was first reported. Where it is neither (`ShownAsHeard`), the position went wrong in one of exactly
three ways: the event is of a *later* turn whose model event was never logged (the finding
`heard_without_model`); or of an *earlier* turn, which was reported when the later one's request had been
sent, so that it stands behind the later model event; or of a later turn whose context was overtaken and
which was reported, with words of others, while it ran: its event stands in front of its own model event.

### AdkInterruptionPlugin

The contents of a request are records: role, whether the text is a `[HEARD]` event, the text as a
sequence of words, and whether a function call or response is attached. `Keep`, `Truncate`, `Drop` are
the branches of the loop, `Finish` the replacement in place. `Expected` says, content by content and
without the loop, what the result has to be.

### WsBridge

One run at a time (`run`), as the service's process task makes it. `streams` and `queue` are
`_turn_streams` and its queues; `recv` is the state of the receive task; `leaving` is how far
`disconnect()` has come, which runs beside a run when a `CancelFrame` arrives; `cancels` holds the
turns whose fire-and-forget `turn.cancel` task has not run; `toJS` and `toPy` are the two directions of
the current connection; `js` is the bridge's map of turns with their abort flags. Frames of a response
other than text (tool calls, usage, state deltas) take the same way as text and are left to
`BackendParity`.

Two details matter. An exception raised in the *body* of the loop over `run_turn` leaves the generator,
and with it the turn's queue, to the asynchronous generator's finaliser (`RemoteError`, `Interrupt`,
then `FinaliseStream`); cancelled in its `await` it cleans up at once. And a timeout does not tell the
bridge, which then generates for two turns at a time.

`Drop` lets any prefix of what the bridge had sent still reach the client; the bridge's side closes, as
`index.ts` does, with all its turns. The new connection has a fresh `BridgeConnection`. pipecat's
`WebsocketService`, which reconnects after `_receive_messages` returns unless disconnecting, is external.
It may also fail for good (`GiveUp`): its attempts are bounded, connections that are lost at once make it
stop (`client.py:5-6`), and `reconnect_on_error` may be off. The receive task is then over and the socket
stays closed; turns are refused, each with its matched pair.

`KeepsThePromise` is `TurnResponses` as a property of `WsBridge`: the frames pushed downstream are the
mapped state.

### BackendParity

`docs/websocket-bridge.md` calls the bridge a black-box-equivalent replacement for `AdkLLMService`. One
script of operations, any that an agent can perform, is run by both: `adk` converts the runner's events,
the bridge's emitter puts envelopes on the `wire`, `remote` converts those. An event with several parts is
as many operations. Payloads are `none`, `empty` or `some`, which is what `or {}` and the tests for empty
text tell apart; a call or result may lack its id or name. Invocation ids are left out: the two backends
mint their own. `SameResponse` compares, per direction and for the state callback, what the two have done.
Three differences are real and named in the comparison: the bridge hands on empty texts and empty state
deltas, `AdkLLMService` does not; and a handler that fails after its turn has been abandoned (for a tool
call without an id) makes a second `ErrorFrame`, of the connection (`client.py:309`). Results of a tool are
objects here: over the bridge a falsy one of another type (`0`, `""`, `false`) also becomes `{}`.

### Heartbeat

Time is counted in pings: `_last_pong_ts >= _last_ping_ts` is "a pong has arrived since the last ping
was sent", whichever ping it answers. `wedged` belongs to the process, not the connection: a
hung process answers neither pings nor handshakes. Connection numbers are not needed for the heartbeat
itself; `RemoteHeard`, which extends the module and whose run checks its properties, adds them.

### RemoteHeard

Reports are numbered by turn, `SessionStart` and `SessionEnd` stand for the first and last message of a
connection. `inbox[c]` is what has been sent on connection `c` and not yet handled, `called[c]` the
messages whose hook `c`'s handler has been called for; `sentOn` is history. Every connection has its own
`BridgeConnection` and handler. `handleMessage` does not await the hooks, so what can be promised is the
order in which they are *called*; the hooks of an old connection may run beside those of the new.

When a connection is lost, by the network, the heartbeat or `disconnect()`, a prefix of what was under
way has arrived and may be handled later, even after the next connection has opened; when the bridge
process dies, nothing is. A report made while the socket is closed is dropped (`_safe_send`).
`CalledAsSent`: per connection the hooks called are a prefix of what was sent on it. `ReportSettled`:
a report that was sent is handled unless the client gives the connection up; together with `WedgeNoticed`
this says that a hung bridge does not swallow reports silently.

### AgentSessions

A *task* is a chat request or a call; both look up their ADK session and create it when it is missing, in
two awaits (`_ensure_adk_session`, `run_bot`), then log messages and answers in its journal. `session[s]`
joins the two stores: `active` is the entry in `active_sessions`, lost in a restart, `stored` and
`journal` are the database's. `page` and `shown` are `main.js`: the id, the request the button waits for,
the messages on display. Lost connections, failures at every step and restarts are actions. A call is the
journal events it causes; its pipeline is `VqlPipeline`. The database raises when a session is created
twice, which is external, as is the runner.

A page sends one message at a time, so its requests by themselves never race: `ConflictOnlyByRace` and
`MixedOnlyAfterError` say that interference takes a call, or a request the page has given up while the
server goes on with it. `RepliesPaired` and `ShownIsLogged` relate the page to the journal.

## 3. The runs

| run | instance | shows |
|---|---|---|
| `pipeline_interrupted` (`HeardView`) | 4 user turns, 2 of them transcribed, 2 sentences each | `HeardOncePerInvocation`, `NoSpeechFromLaterTurn`, `SpeechAccountedFor`, `HeardIsFirstReport`, `CutShortIsMarked`, `MapHoldsUnreported`, `ShownAsHeard` |
| `pipeline_injected` (`VqlPipeline`) | 2 user turns, 1 injected turn, 1 sentence, failing store, shutdown | `TypeOK`, `MapHoldsOpenTurns`, `JournalOrder`, `NothingAfterShutdown` |
| `pipeline_liveness` (`VqlResponses`) | 2 user turns, 2 sentences, shutdown, fairness | `ContextServed`, `HeardWritten`, `KeepsThePromise` |
| `plugin` | every request of up to 4 contents | `TypeOK`, `MatchesReference`, `NoMarkerLeft` |
| `ws_bridge` | 2 turns, 1 text each, 2 connections, refused first attempt, disconnect | `TypeOK`, `NoDeafTurn`, `CancelHitsItsTurn`, `KeepsThePromise` |
| `ws_bridge_liveness` | the same with fairness, connected at the start | `RunsEnd`, `GenerationAborted`, `Reconnects` |
| `backend_parity` | every response of up to 3 operations, ended cleanly or by an exception | `TypeOK`, `SameResponse` |
| `remote_heard` | 2 reports, 2 connections, 3 pings in flight, disconnect, fairness | `ReportTypeOK`, `CalledAsSent`, `ClosedAfterTwoPings`, `WedgeNoticed`, `ReportSettled` |
| `sessions` | 1 page, 3 chat requests and calls, 1 turn per call, 1 restart, fairness | `TypeOK`, `RepliesPaired`, `ShownIsLogged`, `MixedOnlyAfterError`, `ConflictOnlyByRace`, `Answered` |
| `heard_without_model`, `injected_heard`, `quoted_speech` | small | the findings below |

**Bounds.** `pipeline_interrupted` has two turns that speak and four user turns. A user turn without a
transcription interrupts too, and leaves `_prev_turn_id` alone: with three, a turn is interrupted twice
while the next one runs, or an interruption overtakes a context behind a `[HEARD]` write; with four, a turn
that was overtaken and reported with another turn's words is reported again and then marked, the exception
in `FirstReport`. Each exception that `FirstReport` and `ShownAsHeard` name occurs in this instance. Two
sentences are the least with one heard and one left over. What three or more turns that speak add (words
left over twice) is in no run; the theorems of section 4 are for any number. One injected turn suffices for
speech nobody's `_prev_turn_id` names, before or after a user turn. On the bridge two turns are needed for a
late `turn.cancel` or a late message to find the wrong one, two connections for a turn that outlives its
own. Four contents are the least with two `[HEARD]` events for one model event and a second model event.
Three operations give a failing one with something before and after it, and two reports of usage around
another operation. In `RemoteHeard` two reports are the least with an order and a gap, two connections the
least on which an old message can be handled late; drops and hangs are unbounded, messages in flight
saturate. In `AgentSessions` three tasks are a message, the one sent after it was given up, and a call; a
second page has a session of its own and would add nothing but its product. `pipeline_liveness` has no
injected turn: with one, and the failing store, the refinement no longer fits a few minutes.

**Deadlock** is checked in all runs. `Quiescent` (and `Returned` in the plugin) is the one way to
stop: bounds used up or pipeline shut, and nothing left anywhere. A lost frame or a task that waits
for nobody is therefore a deadlock, not silence.

**Fairness.** Weak fairness of each task: asyncio runs every ready task. In `VqlPipeline` the runner and the
audio of a sentence end as well (`service.py` relies on both; `run_async` has the LLM client's timeouts).
Nothing is assumed of the user, the application, the bridge's handler, the hang of a bridge process or the
network, except in `WsBridge` that a connection attempt comes to an end, which `open_timeout` sees to, and
that reconnecting, whose attempts are bounded, succeeds or is given up: `Reconnects` says a dropped
connection is open again, or given up, or the pipeline leaves. In particular `RunsEnd` does not assume that
the bridge ever answers: `turn_timeout` ends the run. `RemoteHeard` adds *strong* fairness of handling a
message: a process that goes on after each of its hangs handles what had arrived, while one that hangs for
good need not. In `AgentSessions` the server's tasks run, and the runner's answer comes or fails to; nothing
is assumed of pages, callers, failures, connections or restarts.

### Findings

- `heard_without_model`: an interruption that cancels the run while it streams leaves the runner no
  model event to log, yet the `[HEARD]` event is written (`service.py:191`); the plugin then truncates the
  *previous* turn's model event. `interruption.py:13-14` calls positional lookup reliable because the
  two are always adjacent.
- `injected_heard`: speech of an injected turn ends up in the `[HEARD]` text of a user turn, against
  `service.py:471-472`. Either the plain `InterruptionFrame` leaves it in the aggregation, or the
  interruption names the last user turn.
- `quoted_speech`: `HEARD_PATTERN` stops at the first double quote of the heard text, which
  `HEARD_FORMAT` does not escape; `docs/architecture.md:108` calls the text exact.

Seen while modelling, not in contradiction to a document or known to one:

- *The map.* An interrupted turn of which nothing was heard keeps its entry until shutdown
  (`MapHoldsUnreported` only says that no other turn does).
- *The journal.* A `[HEARD]` event written late truncates the model event of a later turn
  (`ShownAsHeard`); the last turn's report may be dropped behind an `EndFrame`.
- *Overtaken contexts.* The run of a turn may begin after the interruption that names it. If that
  interruption reports words left over from an earlier turn, they are taken for words of this one: before
  its first event the report is dropped for want of a map entry, while it streams it writes a `[HEARD]`
  event in front of the model event. Either way the entry goes with the first report that finds it. Words
  of such a turn that are left over in turn, and reported in the name of the next, leave it unmarked.
- *The remote turn.* A timed-out or failed one is not cancelled at the bridge and goes on beside the next;
  an error that arrives for a turn no longer active is reported as one of the connection
  (`client.py:309`); a state delta with a key `invocation_id` renames the response it arrives in, so that
  its end frame does not match its start frame (`websocket/service.py:246`).
- *The connection.* A first attempt that fails is never repeated, since the tasks that would are started
  after it (`client.py:128`), in a client its docstring calls self-healing; a heartbeat miss of an old
  connection counts against its successor, which can be closed without a ping of its own having gone
  unanswered (`client.py:352`).
- *Remote reports.* `turn.completed` is lost while the socket is down and not repeated; a connection that
  drops ends without the session-end hook; hooks of an old and a new connection may run side by side.
- *The application.* The chat request has no timeout on either side; after a restart a page's id is
  refused for calls (404) while chat goes on with it; message and answer of a request that was given up
  mix with the next (`MixedOnlyAfterError`).

## 4. What is proved

The runs check small instances; the theorems hold for every value of the constants. They assume no more
than the modules do of their constants: `BoundsAssumption` (the bounds of the pipeline are naturals, its
switches Booleans), `TextAssumption` (texts are sequences of words, the quote is one), `BridgeAssumption` and
`RemoteAssumption` (naturals, at least one connection), `HeartbeatAssumption` (at least one message in
flight), `ParityAssumption` (a natural), `SessionsAssumption` (naturals; pages and sessions are any sets).
Two theorems have a hypothesis of their own, named below.

| property | theorem | in |
|---|---|---|
| `TypeOK`, `HeardOncePerInvocation`, `MapHoldsOpenTurns` | `TypeCorrect`, `HeardOnce`, `MapIsOpen` | `VqlPipelineProofs` |
| `NothingAfterShutdown`, `JournalOrder`, `NoSpeechFromLaterTurn`, `HeardIsFirstReport` | `StopIsFinal`, `JournalKeepsOrder`, `HeardIsOfItsTurn`, `HeardRepeatsFirstReport` | `VqlPipelineProofs` |
| `SpeechAccountedFor` | `SpeechIsAccountedFor` (while no turn is injected), `AccountedWithoutInjection` | `VqlPipelineProofs` |
| `KeepsThePromise`, `MapHoldsUnreported`, `CutShortIsMarked` | `ServiceKeepsThePromise`, `MapIsUnreported`, `CutShortMarked` | `VqlServiceProofs` |
| `ShownAsHeard` | `PluginShowsWhatWasHeard` | `VqlServiceProofs` |
| `TypeOK`, `MatchesReference`, `NoMarkerLeft` | `TypeCorrect`, `LoopComputesReference`, `NoneIsLeft` | `AdkInterruptionPluginProofs` |
| `TypeOK`, `CancelHitsItsTurn`, `NoDeafTurn`, `KeepsThePromise` | `TypeCorrect`, `LateCancelIsHarmless`, `NobodyWaitsOnADeafConnection`, `BridgeKeepsThePromise` | `WsBridgeProofs` |
| `TypeOK`, `SameResponse` | `TypeCorrect`, `BackendsGiveOneResponse` | `BackendParityProofs` |
| `ReportTypeOK`, `CalledAsSent`, `ClosedAfterTwoPings` | `ReportsTypeCorrect`, `HooksAsSent`, `TwoPingsThroughReconnects` (and `TwoPingsBeforeClosing`, of `Heartbeat` alone) | `HeartbeatProofs` |
| `TypeOK`, `RepliesPaired`, `ShownIsLogged`, `ConflictOnlyByRace`, `MixedOnlyAfterError` | `TypeCorrect`, `RepliesArePaired`, `ShownInJournal`, `ConflictNeedsRace`, `MixedNeedsError` | `AgentSessionsProofs` |

Almost none of these properties is inductive. What has to be added to each says why the code is right.

**The pipeline.**

- *Types.* `TypeOK` is inductive: a conjunction by owner (user side, LLM service, speech path), and each
  lemma takes one task and proves the parts it changes. The TTS may stop a context that belongs to no
  turn as far as types can tell (`tts.context = NoTurn`), so `TTSStopped` and `TurnCompleted` allow it.
- *`Bookkeeping`*, for `HeardOnce` and `MapIsOpen`. A turn waiting for its run is in no run, map or journal
  yet (`QueuedAreFresh`), waits once (`QueuedOnce`) and has been minted; a turn whose `[HEARD]` event is
  written or being written has left the map and is not about to enter it (`HeardLeftTheMap`). Without
  these nothing says that a written turn is not mapped again by a second run. The step that matters is
  `HandleTurnCompleted`: it pops the entry before it writes, so whoever comes second finds none.
- *`QueueInv` and `LoggedOnce`*, for `JournalKeepsOrder`. The turns in the process task's queue come before
  those still on their way to it, both in the order of their ids; what the user spoke is logged before
  anything that waits; a message is logged once, and behind the message of the run in progress the journal holds
  nothing but `[HEARD]` events.
- *`SpeechInv`*, for `HeardIsOfItsTurn`. In every queue, an interruption that names a turn stays ahead of
  whatever a later turn of the user says (`FramesInOrder`). The queues are nested: what the aggregator
  holds bounds what may stand in its queue, that bounds the output's, and so on up to the service
  (`AfterSpoken` ... `AfterLLM`). An interruption overtaking frames, a process task's queue being emptied,
  and the leftover of `AAInterrupted` each have to keep this order. Nothing of the kind holds of the plain
  `InterruptionFrame`, which names no turn, nor of the reports of completed turns.
- *`Accounted`*, for `SpeechIsAccountedFor`: `SpeechAccountedFor` holds while no turn has been injected (with
  one it does not: the finding `injected_heard`). It is inductive together with `FramesInOrder`: the plain
  `InterruptionFrame`, which alone drops frames queued at the aggregator, has no speech in front of it,
  since that would be of a turn later than "no turn". What `FlattenSeq` returns for a concatenation is
  proved by least counterexample (`LeastElement`), on the concatenations of its prefixes (`Concats`); it
  is a recursive function, whose existence is itself such a proof (`SequenceLemmas`).
- *`ReportInv`*, for `HeardRepeatsFirstReport` and `MapIsUnreported`. `up` is the rest of `completions`, and
  whatever was handled has left the map. That it does not enter again is where overtaking matters: an
  interruption past the LLM service that names a turn finds its run over *unless the turn was overtaken*
  (`NamedAreDone`). A report of the turn's own words is late enough even then, because words that have left
  the service are of a turn that is running or over and whose context waits nowhere (`Voiced`,
  `VoicedAreDone`, kept by every queue of words on the way down). So a handled turn may be run again only if
  it was overtaken and the report told of other turns' words (`HandledLeftTheMap`): the exception in
  `FirstReport`, and the reason for `OwnWords` in `MapHoldsUnreported`.
- *`PromiseInv`*, for `ServiceKeepsThePromise`. The initial state maps to the initial state of
  `TurnResponses` and every step to a step or a stutter. A response is open exactly while a run that got
  an event is in progress, and what was pushed belongs to that run or to runs that are over.
- *`MarkedInv`*, for `CutShortMarked`. A turn that spoke is in the map until a report in its name is handled;
  then it is being marked or marked, unless it was spoken to its end (`SpokeIsKept`, `SpokenToItsEnd`). A report
  that tells of its words comes when its run has begun, and so finds the entry. The theorem assumes
  `~StoreMayFail`: when the session is gone `_write_heard_event` gives up (`service.py:356-361`), and it catches
  no exception of the store, so with a failing store the property is simply not true.
- *`ViewInv`*, for `PluginShowsWhatWasHeard`. The run of a turn that an interruption names past the LLM
  service is over, or the turn was overtaken (`CutAreOver`); interruptions never name injected turns
  (`CutAreSpoken`), because `_prev_turn_id` is only ever set from turns the user spoke; messages are in
  order (`NextIsLater`, `MessagesInOrder`) and a `[HEARD]` event stands behind the model event of its own
  turn if there is one, again unless the turn was overtaken (`ModelBeforeHeard`). Then the last model event
  in front of a `[HEARD]` event is its own, or belongs to a turn before it (its own is missing, or comes
  later) or after it (it was written late). `GreatestElement` finds the event that the plugin finds.

**The plugin.** `LoopInv`: `kept` lists, in order, the contents so far that are no `[HEARD]` events, and each
entry of `newContents` is what the reference makes of it given the contents *seen so far* (`Expected` of a
prefix of the request). The lemmas say how one more content changes the reference: a `[HEARD]` event
replaces the text of the last model content before it, anything else changes nothing. `MatchesReference`
then holds for requests of any length, which the run can only check up to four contents.

**The bridge.** `Lifecycle` joins the socket to the receive task: an open socket is read until `disconnect()`
cancels the task, only a lost one is reconnected. `CancelInv`: `turn.cancel`, waiting in its task or under
way, names turns the user interrupted, and nothing else. `DeafInv`: the queue of a run that waits is
registered in `_turn_streams`, so that whatever fails the registered turns reaches it. The refinement rests
on `AnswerInv`, which follows the start of a turn from a `turn.run` not yet handled to a start frame on the
wire, to one in the turn's queue, to one pushed downstream: it is nowhere twice and never behind the text it
belongs to; and what has been pushed ends in the response of the run in progress exactly if that has started.

**The two backends.** `ParityInv`: there is one response, `Whole(script, fails)`, which depends on the agent
alone: per stream, what the operations come to up to the first call or result without an id, then the closing
frames, with an error if the agent failed or an id was missing. Each service stands somewhere in it. For
`adk` that is the part of the script the runner has yielded (`AdkInv`). `remote` is behind: what it has done,
followed by what the envelopes still on the wire will make it do, is what the handler has emitted (`Leads` in
`RemoteInv`); an envelope without an id ends the turn for `remote`, so what stands behind it adds nothing.
The start frame has its own envelope on one side and is pushed before the first event on the other, which
`Opens` brings together. `SameResponse` follows: two beginnings of one sequence are beginnings of each other.
`FlattenSeq` again says what a filter leaves of a concatenation (`WithoutConcat`), and what a queue of
envelopes comes to (`PassedConcat`).

**Heartbeat and reports.** The heartbeat's `IInv`: a counted miss implies one unanswered ping during the
interval and two during the timeout, although another task resets the counter. `ReportInv` of
`HeartbeatProofs`: nothing has been sent on a connection that was not made; what is sent is larger than
all that was sent before; and per connection, the hooks called followed by the messages under way are in
the order of what was sent, complete while the connection is open (`LineOK`).

**The sessions.** `SessionsInv` says of tasks, pages and journals that what they name exists (`NamesExist`),
that a task runs on a session the database has (`RunsAreStored`), that a chat request belongs to one page
and a page awaits its last request (`OnePage`, `InTurn`, `LastAwaited`), that the messages of a page are
followed by their replies, that the phases of a task agree with the journal (`PhasesAreLogged`,
`LoggedInTurn`) and that a session a task is about to create was created by nobody else unless the two
raced (`CreatedByRace`).

**Only model-checked.**

- All liveness: `ContextServed`, `HeardWritten`, `RunsEnd`, `GenerationAborted`, `Reconnects`, `WedgeNoticed`,
  `ReportSettled`, `Answered`. Fairness is `ENABLED`, which the provers cannot handle.
- The three findings, which are counterexamples.

## 5. What is not modelled

- Session parameters and exports hold no behaviour; the debug observers choose and format log lines that
  nothing reads.
- JSON and the validation of envelopes: messages are records, and no end ever sends the other a malformed
  one. The routes for ICE candidates, the health check and the page's layout touch no modelled state.
- The demonstration handlers are the choices of `WsBridge`'s and `BackendParity`'s handler; the assistant
  example takes the steps of a call in `AgentSessions`, with one session for all its connections.
- pipecat, websockets, ADK and the database are modelled only by what this code relies on.
- `run_injected_turn` is called, as everywhere in the repository, from the task that runs turns.
- The dropped function call of a truncated model event (`interruption.py:81`): no document says what a
  request has to satisfy.

## 6. Plan

Done: the in-process pipeline, the plugin and what it shows of the pipeline's journal, the bridge, the
abstract specification that both backends implement, the two backends side by side, the heartbeat and the
reports of what was heard, the application's sessions; and the theorems of section 4. Left:

1. Runs of several segments (tool calls between texts) and the leftover text of `AAInterrupted` against
   `frames.py:47-49`.
2. `run_injected_turn` from another task of the application.
