------------------------------ MODULE VqlPipeline ------------------------------
(***************************************************************************)
(* The voice pipeline of pipecat_adk: VqlUserContextAggregator,            *)
(* AdkLLMService, VqlTTSMixin and VqlAssistantContextAggregator, joined by *)
(* the frames they exchange, around the ADK session journal.               *)
(*                                                                         *)
(*   user agg --down--> LLM --toTTS--> TTS --toOut--> transport --toAA-->  *)
(*   assistant agg --up--> LLM --heardWrite--> session                     *)
(*                                                                         *)
(* A processor has an input task, which handles SystemFrames in line (the  *)
(* interruption, VqlTurnCompletedFrame), and a process task, which handles *)
(* every other frame and which an interruption cancels (frames.py:32-36).  *)
(* SystemFrames come first out of the queue the input task reads.          *)
(*                                                                         *)
(* The runner, the TTS service's audio and the output transport are not in *)
(* the repository: their actions are what the code relies on them to do.   *)
(***************************************************************************)
EXTENDS Naturals, FiniteSets, SequencesExt

CONSTANTS
  MaxUserTurns,   \* user turns that may start (a bound for model checking)
  MaxTurns,       \* turn ids that user turns may mint up to (a bound)
  MaxInjected,    \* programmatic turns _persist_and_run may start (a bound)
  MaxSentences,   \* sentences in one response (a bound)
  StoreMayFail,   \* may get_session return None, or the session store raise?
  MayShutDown     \* may the application stop or cancel the pipeline?

ASSUME BoundsAssumption ==
  /\ MaxUserTurns \in Nat
  /\ MaxTurns \in Nat
  /\ MaxInjected \in Nat
  /\ MaxSentences \in Nat
  /\ StoreMayFail \in BOOLEAN
  /\ MayShutDown \in BOOLEAN

VARIABLES
  userSpeaking,   \* a user turn is open
  userTurns,      \* user turns started so far
  minted,         \* turn ids minted so far: they are 1 .. minted
  prevTurn,       \* VqlUserContextAggregator._prev_turn_id
  down,           \* frames in the LLM service's input queue, from the user side
  procQ,          \* VqlContextFrames waiting for the LLM service's process task
  run,            \* the _run_adk call the process task is in
  invMap,         \* keys of _turn_invocation_map
  heardWrite,     \* the [HEARD] event between get_session and append_event
  injected,       \* turn ids minted by _persist_and_run
  alive,          \* FALSE once stop() or cancel() has run
  session,        \* the journal: ADK session.events
  toTTS,          \* frames on their way from the LLM service to the TTS
  tts,            \* _turn_context_id, and whether it has synthesised anything
  toOut,          \* frames on their way from the TTS to the output transport
  toAA,           \* frames queued at the assistant aggregator
  spoken,         \* the assistant aggregator's _aggregation
  up,             \* VqlTurnCompletedFrames on their way up to the LLM service
  overtaken,      \* history: turns whose context frame an interruption overtook
  played,         \* history: sentences the user heard to the end
  completions     \* history: the VqlTurnCompletedFrames pushed so far

uaVars   == <<userSpeaking, userTurns, prevTurn>>
llmVars  == <<procQ, run, invMap, heardWrite, injected, alive, overtaken>>
upstream == <<uaVars, minted, down, llmVars, session>>
speech   == <<toTTS, tts, toOut, toAA, spoken, completions, up, played>>
vars     == <<upstream, speech>>

-----------------------------------------------------------------------------
(* Data.  An ADK invocation id is allocated by the one run_async call of a  *)
(* turn, so an invocation is named here by its turn.                        *)

NoTurn   == 0
Turns    == Nat \ {0}
Sentence == [turn : Turns, n : 1 .. MaxSentences]

Context(t)         == [type |-> "VqlContext", turn |-> t]
Interruption(t)    == [type |-> "Interruption", turn |-> t]
ResponseStart(t)   == [type |-> "ResponseStart", turn |-> t]
ResponseText(t, k) == [type |-> "ResponseText", turn |-> t, n |-> k]
ResponseEnd(t)     == [type |-> "ResponseEnd", turn |-> t]
SpokenText(s)      == [type |-> "TTSText", sentence |-> s]
SpeechStopped(c)   == [type |-> "TTSStopped", turn |-> c]

\* Interruption(NoTurn) is the plain InterruptionFrame of the first user turn.
InterruptionFrame == [type : {"Interruption"}, turn : Turns \cup {NoTurn}]
DownFrame == [type : {"VqlContext"}, turn : Turns] \cup InterruptionFrame
TTSFrame  == [type : {"ResponseStart", "ResponseEnd"}, turn : Turns]
               \cup [type : {"ResponseText"}, turn : Turns,
                     n : 1 .. MaxSentences]
               \cup InterruptionFrame
OutFrame  == [type : {"TTSText"}, sentence : Sentence]
               \cup [type : {"TTSStopped"}, turn : Turns \cup {NoTurn}]
               \cup InterruptionFrame
TurnCompleted == [turn : Turns \cup {NoTurn}, text : Seq(Sentence),
                  interrupted : BOOLEAN]
JournalEvent  == [kind : {"user", "model", "heard"}, turn : Turns,
                  text : Seq(Sentence)]

Run == [turn : Turns, said : 0 .. MaxSentences,
        phase : {"called", "asked", "streaming", "persisted"}]
HeardWrite == [turn : Turns, text : Seq(Sentence)]

Idle    == [turn |-> NoTurn, phase |-> "idle", said |-> 0]
NoWrite == [turn |-> NoTurn, text |-> <<>>]

\* The first n sentences of the response of turn t.
Response(t, n) == [k \in 1 .. n |-> [turn |-> t, n |-> k]]

\* The first interruption queued in q.
FirstInterruption(q, i) ==
  /\ i \in DOMAIN q
  /\ q[i].type = "Interruption"
  /\ \A j \in 1 .. i - 1 : q[j].type # "Interruption"

Behind(q, i) == SubSeq(q, i + 1, Len(q))

Init ==
  /\ userSpeaking = FALSE /\ userTurns = 0 /\ minted = 0 /\ prevTurn = NoTurn
  /\ down = <<>> /\ procQ = <<>> /\ run = Idle /\ invMap = {}
  /\ heardWrite = NoWrite /\ injected = {} /\ alive = TRUE /\ overtaken = {}
  /\ session = <<>>
  /\ toTTS = <<>> /\ tts = [context |-> NoTurn, synthesised |-> FALSE]
  /\ toOut = <<>> /\ toAA = <<>> /\ spoken = <<>> /\ up = <<>>
  /\ played = <<>> /\ completions = <<>>

-----------------------------------------------------------------------------
(* VqlUserContextAggregator                                                 *)

\* A user turn starts: broadcast_interruption names the previous turn, or
\* falls back to the plain frame (NoTurn) when there is none.
UserTurnStarted ==
  /\ alive /\ ~userSpeaking /\ userTurns < MaxUserTurns
  /\ userSpeaking' = TRUE
  /\ userTurns' = userTurns + 1
  /\ down' = Append(down, Interruption(prevTurn))
  /\ UNCHANGED <<prevTurn, minted, llmVars, session, speech>>

\* What push_aggregation leaves in _prev_turn_id once turn t is pushed.  (The
\* mutants *_M are what a bug would make of the definition that follows them.)
Recorded_M(t) == t - 1
Recorded(t)   == t

\* The user turn ends with something transcribed: push_aggregation.  Its two
\* effects are one step: the same task handles the next user turn's start.
PushAggregation ==
  /\ alive /\ userSpeaking /\ minted < MaxTurns
  /\ userSpeaking' = FALSE
  /\ minted' = minted + 1
  /\ down' = Append(down, Context(minted + 1))
  /\ prevTurn' = Recorded(minted + 1)
  /\ UNCHANGED <<userTurns, llmVars, session, speech>>

\* The user turn ends with nothing transcribed: push_aggregation returns "".
PushNothing ==
  /\ alive /\ userSpeaking
  /\ userSpeaking' = FALSE
  /\ UNCHANGED <<userTurns, prevTurn, minted, down, llmVars, session, speech>>

-----------------------------------------------------------------------------
(* AdkLLMService: the input task                                            *)

InputTaskFree == heardWrite = NoWrite

\* The start frame of run r has been pushed, and its invocation is known.
Started(r) == r.phase \in {"streaming", "persisted"}

\* What the finally block of _run_adk pushes for run r.
Cleanup(r) ==
  IF Started(r) THEN <<ResponseEnd(r.turn)>>
                ELSE <<ResponseStart(r.turn), ResponseEnd(r.turn)>>

\* What an interruption, or cancel(), makes a run in progress push.
CancelledRun_M1(r) == Cleanup(r)
CancelledRun_M2(r) == <<>>
CancelledRun(r)    == IF r = Idle THEN <<>> ELSE Cleanup(r)

\* A plain frame is handed to the process task, once no SystemFrame waits: the
\* input queue is a priority queue.
RouteContext ==
  /\ InputTaskFree
  /\ down # <<>> /\ \A i \in DOMAIN down : down[i].type = "VqlContext"
  /\ down' = Tail(down)
  /\ procQ' = Append(procQ, Head(down).turn)
  /\ UNCHANGED <<uaVars, minted, run, invMap, heardWrite, injected, alive,
                 overtaken, session, speech>>

\* The interruption overtakes the contexts that wait beside it, cancels the
\* process task (the run's finally block still pushes its frames), empties that
\* task's queue and is forwarded.
LLMInterrupted_M ==
  \E i \in DOMAIN down :
    /\ InputTaskFree
    /\ FirstInterruption(down, i)
    /\ down' = RemoveAt(down, i)
    /\ overtaken' = overtaken \cup {down[k].turn : k \in 1 .. i - 1}
    /\ procQ' = <<>>
    /\ toTTS' = Append(toTTS, down[i])
    /\ UNCHANGED <<uaVars, minted, run, invMap, heardWrite, injected, alive,
                   session, tts, toOut, toAA, spoken, completions, up, played>>
LLMInterrupted ==
  \E i \in DOMAIN down :
    /\ InputTaskFree
    /\ FirstInterruption(down, i)
    /\ down' = RemoveAt(down, i)
    /\ overtaken' = overtaken \cup {down[k].turn : k \in 1 .. i - 1}
    /\ run' = Idle
    /\ procQ' = <<>>
    /\ toTTS' = (toTTS \o CancelledRun(run)) \o <<down[i]>>
    /\ UNCHANGED <<uaVars, minted, invMap, heardWrite, injected, alive, session,
                   tts, toOut, toAA, spoken, completions, up, played>>

\* _turn_invocation_map.pop(turn_id, None)
Popped_M(map, t) == map
Popped(map, t)   == map \ {t}

\* Does process_frame go on to _write_heard_event?
WritesHeard_M1(frame, map) == frame.text # <<>> /\ frame.turn \in map
WritesHeard_M2(frame, map) ==
  /\ frame.interrupted /\ frame.text # <<>>
  /\ frame.turn \in Popped(map, frame.turn)
WritesHeard_M3(frame, map) == frame.interrupted /\ frame.text # <<>>
WritesHeard(frame, map) ==
  frame.interrupted /\ frame.text # <<>> /\ frame.turn \in map

\* VqlTurnCompletedFrame arrives: the entry goes, and an interrupted turn with
\* an invocation starts a write, which holds the input task until it is done.
HandleTurnCompleted ==
  /\ InputTaskFree
  /\ up # <<>>
  /\ up' = Tail(up)
  /\ invMap' = Popped(invMap, Head(up).turn)
  /\ heardWrite' = IF WritesHeard(Head(up), invMap)
                   THEN [turn |-> Head(up).turn, text |-> Head(up).text]
                   ELSE NoWrite
  /\ UNCHANGED <<uaVars, minted, down, procQ, run, injected, alive, overtaken,
                 session, toTTS, tts, toOut, toAA, spoken, completions, played>>

\* append_event completes _write_heard_event.
AppendHeard_M ==
  /\ heardWrite # NoWrite /\ heardWrite.turn \in invMap
  /\ session' = Append(session, [kind |-> "heard", turn |-> heardWrite.turn,
                                 text |-> heardWrite.text])
  /\ heardWrite' = NoWrite
  /\ UNCHANGED <<uaVars, minted, down, procQ, run, invMap, injected, alive,
                 overtaken, speech>>
AppendHeard ==
  /\ heardWrite # NoWrite
  /\ session' = Append(session, [kind |-> "heard", turn |-> heardWrite.turn,
                                 text |-> heardWrite.text])
  /\ heardWrite' = NoWrite
  /\ UNCHANGED <<uaVars, minted, down, procQ, run, invMap, injected, alive,
                 overtaken, speech>>

\* The session is gone, or the store raises: the marker is lost.
LoseHeard ==
  /\ StoreMayFail
  /\ heardWrite # NoWrite
  /\ heardWrite' = NoWrite
  /\ UNCHANGED <<uaVars, minted, down, procQ, run, invMap, injected, alive,
                 overtaken, session, speech>>

-----------------------------------------------------------------------------
(* AdkLLMService: the process task, and the ADK runner it iterates over     *)

ProcessTaskFree == alive /\ run = Idle

\* process_frame takes a VqlContextFrame and calls _run_adk.
StartRun ==
  /\ ProcessTaskFree
  /\ procQ # <<>>
  /\ procQ' = Tail(procQ)
  /\ run' = [turn |-> Head(procQ), phase |-> "called", said |-> 0]
  /\ UNCHANGED <<uaVars, minted, down, invMap, heardWrite, injected, alive,
                 overtaken, session, speech>>

\* A subclass handles a domain frame by calling _persist_and_run, which mints
\* an id of its own: _prev_turn_id does not learn of it.
PersistAndRun ==
  /\ ProcessTaskFree
  /\ Cardinality(injected) < MaxInjected
  /\ minted' = minted + 1
  /\ injected' = injected \cup {minted + 1}
  /\ run' = [turn |-> minted + 1, phase |-> "called", said |-> 0]
  /\ UNCHANGED <<uaVars, down, procQ, invMap, heardWrite, alive, overtaken,
                 session, speech>>

\* The runner logs the message in the journal and sends the LLM the journal
\* so far.
RunnerAsks ==
  /\ run.phase = "called"
  /\ run' = [run EXCEPT !.phase = "asked"]
  /\ session' = Append(session,
                        [kind |-> "user", turn |-> run.turn, text |-> <<>>])
  /\ UNCHANGED <<uaVars, minted, down, procQ, invMap, heardWrite, injected,
                 alive, overtaken, speech>>

\* What every event does first: the first of the run maps the turn to its
\* invocation and pushes the start frame.
Learned(map, r) == IF Started(r) THEN map ELSE map \cup {r.turn}
StartFrames(r)  == IF Started(r) THEN <<>> ELSE <<ResponseStart(r.turn)>>

\* A partial event: its text goes to the TTS and is not logged.
PartialEvent ==
  /\ run.phase \in {"asked", "streaming"}
  /\ run.said < MaxSentences
  /\ run' = [run EXCEPT !.phase = "streaming", !.said = @ + 1]
  /\ invMap' = Learned(invMap, run)
  /\ toTTS' = (toTTS \o StartFrames(run))
                \o <<ResponseText(run.turn, run.said + 1)>>
  /\ UNCHANGED <<uaVars, minted, down, procQ, heardWrite, injected, alive,
                 overtaken, session, tts, toOut, toAA, spoken, completions, up,
                 played>>

\* The final event repeats the streamed text: the runner logs it, and the
\* service pushes no text for it.
FinalEvent ==
  /\ run.phase \in {"asked", "streaming"}
  /\ run' = [run EXCEPT !.phase = "persisted"]
  /\ invMap' = Learned(invMap, run)
  /\ toTTS' = toTTS \o StartFrames(run)
  /\ session' = Append(session, [kind |-> "model", turn |-> run.turn,
                                 text |-> Response(run.turn, run.said)])
  /\ UNCHANGED <<uaVars, minted, down, procQ, heardWrite, injected, alive,
                 overtaken, tts, toOut, toAA, spoken, completions, up, played>>

\* The stream ends, or run_async raises or times out at any point before that:
\* either way the finally block leaves a matched pair of frames.
EndRun ==
  /\ run # Idle
  /\ run' = Idle
  /\ toTTS' = toTTS \o Cleanup(run)
  /\ UNCHANGED <<uaVars, minted, down, procQ, invMap, heardWrite, injected,
                 alive, overtaken, session, tts, toOut, toAA, spoken,
                 completions, up, played>>

\* _turn_invocation_map.clear()
Cleared_M(map) == map
Cleared(map)   == {}

\* stop() on EndFrame, which the process task reaches after every frame before
\* it, and cancel() on CancelFrame, at any point.
Shutdown ==
  /\ MayShutDown /\ alive
  /\ \/ down = <<>> /\ procQ = <<>> /\ run = Idle
     \/ InputTaskFree
  /\ alive' = FALSE
  /\ run' = Idle
  /\ procQ' = <<>>
  /\ invMap' = Cleared(invMap)
  /\ toTTS' = toTTS \o CancelledRun(run)
  /\ UNCHANGED <<uaVars, minted, down, heardWrite, injected, overtaken, session,
                 tts, toOut, toAA, spoken, completions, up, played>>

-----------------------------------------------------------------------------
(* VqlTTSMixin over a TTS service, and the output transport                 *)

\* VqlTTSMixin pins _turn_context_id to the turn of the start frame.
TTSStart ==
  /\ toTTS # <<>> /\ Head(toTTS).type = "ResponseStart"
  /\ toTTS' = Tail(toTTS)
  /\ tts' = [context |-> Head(toTTS).turn, synthesised |-> FALSE]
  /\ UNCHANGED <<upstream, toOut, toAA, spoken, completions, up, played>>

TTSText ==
  /\ toTTS # <<>> /\ Head(toTTS).type = "ResponseText"
  /\ toTTS' = Tail(toTTS)
  /\ tts' = [tts EXCEPT !.synthesised = TRUE]
  /\ toOut' = Append(toOut, SpokenText([turn |-> Head(toTTS).turn,
                                        n |-> Head(toTTS).n]))
  /\ UNCHANGED <<upstream, toAA, spoken, completions, up, played>>

\* The end of the response stops the context, if it made any audio.
TTSEnd ==
  /\ toTTS # <<>> /\ Head(toTTS).type = "ResponseEnd"
  /\ toTTS' = Tail(toTTS)
  /\ toOut' = IF tts.synthesised THEN Append(toOut, SpeechStopped(tts.context))
                                 ELSE toOut
  /\ UNCHANGED <<upstream, tts, toAA, spoken, completions, up, played>>

\* An interruption drops the frames queued before it.
TTSInterrupted ==
  \E i \in DOMAIN toTTS :
    /\ FirstInterruption(toTTS, i)
    /\ toTTS' = Behind(toTTS, i)
    /\ toOut' = Append(toOut, toTTS[i])
    /\ UNCHANGED <<upstream, tts, toAA, spoken, completions, up, played>>

\* A sentence has been played to the end: its TTSTextFrame goes on.
PlaySentence ==
  /\ toOut # <<>> /\ Head(toOut).type = "TTSText"
  /\ toOut' = Tail(toOut)
  /\ toAA' = Append(toAA, Head(toOut))
  /\ played' = Append(played, Head(toOut).sentence)
  /\ UNCHANGED <<upstream, toTTS, tts, spoken, completions, up>>

OutputStopped ==
  /\ toOut # <<>> /\ Head(toOut).type = "TTSStopped"
  /\ toOut' = Tail(toOut)
  /\ toAA' = Append(toAA, Head(toOut))
  /\ UNCHANGED <<upstream, toTTS, tts, spoken, completions, up, played>>

OutputInterrupted ==
  \E i \in DOMAIN toOut :
    /\ FirstInterruption(toOut, i)
    /\ toOut' = Behind(toOut, i)
    /\ toAA' = Append(toAA, toOut[i])
    /\ UNCHANGED <<upstream, toTTS, tts, spoken, completions, up, played>>

-----------------------------------------------------------------------------
(* VqlAssistantContextAggregator                                            *)

\* A TTSTextFrame is aggregated, whichever turn's context it belongs to.
AggregateText ==
  /\ toAA # <<>> /\ Head(toAA).type = "TTSText"
  /\ toAA' = Tail(toAA)
  /\ spoken' = Append(spoken, Head(toAA).sentence)
  /\ UNCHANGED <<upstream, toTTS, tts, toOut, up, completions, played>>

\* The VqlTurnCompletedFrame for turn t, if anything was aggregated for it.
Report(t, interrupted) ==
  IF spoken = <<>> THEN <<>>
  ELSE <<[turn |-> t, text |-> spoken, interrupted |-> interrupted]>>

\* _trigger_assistant_turn_stopped takes and resets the aggregation, and pushes
\* the frame up.
TriggerTurnStopped_M(t, interrupted) ==
  /\ spoken' = IF interrupted THEN <<>> ELSE spoken
  /\ up' = up \o Report(t, interrupted)
  /\ completions' = completions \o Report(t, interrupted)
TriggerTurnStopped(t, interrupted) ==
  /\ spoken' = <<>>
  /\ up' = up \o Report(t, interrupted)
  /\ completions' = completions \o Report(t, interrupted)

TurnStopped ==
  /\ toAA # <<>> /\ Head(toAA).type = "TTSStopped"
  /\ toAA' = Tail(toAA)
  /\ TriggerTurnStopped(Head(toAA).turn, FALSE)
  /\ UNCHANGED <<upstream, toTTS, tts, toOut, played>>

\* VqlInterruptionFrame: handled in line, past the frames still queued, which
\* stay queued because process_frame does not call its parent's.
AAInterrupted ==
  \E i \in DOMAIN toAA :
    /\ FirstInterruption(toAA, i)
    /\ toAA[i].turn # NoTurn
    /\ toAA' = RemoveAt(toAA, i)
    /\ TriggerTurnStopped(toAA[i].turn, TRUE)
    /\ UNCHANGED <<upstream, toTTS, tts, toOut, played>>

\* The plain InterruptionFrame goes to the parent class, which drops the queued
\* frames; _handle_interruptions is a no-op here.
AAPlainInterrupted ==
  \E i \in DOMAIN toAA :
    /\ FirstInterruption(toAA, i)
    /\ toAA[i].turn = NoTurn
    /\ toAA' = Behind(toAA, i)
    /\ UNCHANGED <<upstream, toTTS, tts, toOut, spoken, completions, up,
                   played>>

-----------------------------------------------------------------------------
InputTask   == RouteContext \/ LLMInterrupted \/ HandleTurnCompleted
                 \/ AppendHeard \/ LoseHeard
Runner      == RunnerAsks \/ PartialEvent \/ FinalEvent \/ EndRun
ProcessTask == StartRun \/ Runner
TTS         == TTSStart \/ TTSText \/ TTSEnd \/ TTSInterrupted
Output      == PlaySentence \/ OutputStopped \/ OutputInterrupted
Assistant   == AggregateText \/ TurnStopped \/ AAInterrupted
                 \/ AAPlainInterrupted
System      == InputTask \/ ProcessTask \/ TTS \/ Output \/ Assistant
User        == UserTurnStarted \/ PushAggregation \/ PushNothing
                 \/ PersistAndRun \/ Shutdown

\* Nobody has anything to do: the bounds are used up, or the pipeline is shut.
Quiescent ==
  /\ ~alive \/ (~userSpeaking /\ userTurns = MaxUserTurns /\ procQ = <<>>)
  /\ down = <<>>
  /\ run = Idle /\ heardWrite = NoWrite
  /\ toTTS = <<>> /\ toOut = <<>> /\ toAA = <<>> /\ up = <<>>
  /\ UNCHANGED vars

Next == System \/ User \/ Quiescent

\* The event loop runs every processor's tasks; the runner and the audio of a
\* sentence come to an end.  Nothing is assumed of the user or the application.
Fairness ==
  /\ WF_vars(InputTask) /\ WF_vars(ProcessTask) /\ WF_vars(TTS)
  /\ WF_vars(Output) /\ WF_vars(Assistant)

Spec     == Init /\ [][Next]_vars
FairSpec == Spec /\ Fairness

-----------------------------------------------------------------------------
(* Properties                                                               *)

UserTypeOK ==
  /\ userSpeaking \in BOOLEAN
  /\ userTurns \in Nat /\ minted \in Nat
  /\ prevTurn \in Turns \cup {NoTurn}
  /\ down \in Seq(DownFrame)

ServiceTypeOK ==
  /\ alive \in BOOLEAN
  /\ procQ \in Seq(Turns)
  /\ run \in Run \cup {Idle}
  /\ invMap \in SUBSET Turns /\ injected \in SUBSET Turns
  /\ overtaken \in SUBSET Turns
  /\ heardWrite \in HeardWrite \cup {NoWrite}
  /\ session \in Seq(JournalEvent)

SpeechTypeOK ==
  /\ toTTS \in Seq(TTSFrame)
  /\ tts \in [context : Turns \cup {NoTurn}, synthesised : BOOLEAN]
  /\ toOut \in Seq(OutFrame) /\ toAA \in Seq(OutFrame)
  /\ spoken \in Seq(Sentence) /\ played \in Seq(Sentence)
  /\ up \in Seq(TurnCompleted) /\ completions \in Seq(TurnCompleted)

TypeOK == UserTypeOK /\ ServiceTypeOK /\ SpeechTypeOK

HeardAt(i, t)  == session[i].kind = "heard" /\ session[i].turn = t
ModelAt(i, t)  == session[i].kind = "model" /\ session[i].turn = t
UserAt(i, t)   == session[i].kind = "user" /\ session[i].turn = t

\* An invocation gets at most one [HEARD] event, however often its turn id is
\* broadcast as interrupted; none is written for one already in the journal.
HeardOncePerInvocation ==
  /\ \A i, j \in DOMAIN session :
       session[i].kind = "heard" /\ HeardAt(j, session[i].turn) => i = j
  /\ heardWrite # NoWrite =>
       \A i \in DOMAIN session : ~HeardAt(i, heardWrite.turn)

\* The [HEARD] text of a turn never holds speech of a later turn: the
\* interruption naming a turn stays ahead of everything the next turn says, all
\* the way down the pipeline, though a later turn may already be running.
NoSpeechFromLaterTurn ==
  \A i \in DOMAIN session : session[i].kind = "heard" =>
    \A k \in DOMAIN session[i].text :
      \/ session[i].text[k].turn <= session[i].turn
      \/ session[i].text[k].turn \in injected

\* The sentences that a queue of frames still has to tell the aggregator.
SpeechIn(q) ==
  FlattenSeq([i \in DOMAIN q |->
                IF q[i].type = "TTSText" THEN <<q[i].sentence>> ELSE <<>>])

\* Every sentence the user heard is accounted for exactly once and in order:
\* reported in one VqlTurnCompletedFrame, aggregated, or about to be.
SpeechAccountedFor ==
  (FlattenSeq([i \in DOMAIN completions |-> completions[i].text]) \o spoken)
    \o SpeechIn(toAA) = played

\* The j-th VqlTurnCompletedFrame tells of words of the turn it names, and not
\* only of words left over from turns before it.
OwnWords(j) ==
  \E k \in DOMAIN completions[j].text :
    completions[j].text[k].turn = completions[j].turn

\* The j-th VqlTurnCompletedFrame is the first one of its turn.  Those do not
\* count that tell of leftover words and name a turn whose context frame was
\* overtaken by the interruption they come from: that turn may be yet to run.
FirstReport(j) ==
  \A k \in 1 .. j - 1 : completions[k].turn = completions[j].turn =>
    completions[j].turn \in overtaken /\ ~OwnWords(k)

\* A [HEARD] event repeats the first VqlTurnCompletedFrame of its turn, and that
\* frame was an interrupted one: a turn first reported as spoken to its end is
\* never marked as cut short by a later frame naming it.
HeardIsFirstReport ==
  \A i \in DOMAIN session : session[i].kind = "heard" =>
    \E j \in DOMAIN completions :
      /\ completions[j] = [turn |-> session[i].turn, text |-> session[i].text,
                           interrupted |-> TRUE]
      /\ FirstReport(j)

\* The j-th VqlTurnCompletedFrame is the first that tells of words of its turn, a
\* turn cut short that was not reported as spoken to its end before.
FirstCutShort(j) ==
  /\ completions[j].interrupted /\ OwnWords(j)
  /\ \A k \in 1 .. j - 1 : completions[k].turn = completions[j].turn =>
       completions[k].interrupted /\ ~OwnWords(k)

\* While the store works, and until shutdown, a turn whose words were reported as
\* cut short is never lost sight of: the report is on its way up, a [HEARD] event
\* of the turn is being written, or it is in the journal.  A request sent before
\* that event is in the journal (service.py:199) is sent while the event is on
\* its way, and for no other reason.
CutShortIsMarked ==
  alive => \A j \in DOMAIN completions : FirstCutShort(j) =>
    \/ \E i \in DOMAIN up : up[i] = completions[j]
    \/ heardWrite.turn = completions[j].turn
    \/ \E i \in DOMAIN session : HeardAt(i, completions[j].turn)

\* The map keeps no entry of a turn once a report of its words has been handled:
\* what stays in it until shutdown (service.py:254) are the turns of which the
\* user heard nothing, or nothing that was reported in their name.
MapHoldsUnreported ==
  \A j \in DOMAIN completions :
    (OwnWords(j) /\ completions[j].turn \in invMap) =>
      \E i \in DOMAIN up : up[i] = completions[j]

\* The map only holds turns whose invocation exists (the runner logged their
\* message) and that no [HEARD] event has been written for.
MapHoldsOpenTurns ==
  \A t \in invMap :
    /\ \E i \in DOMAIN session : UserAt(i, t)
    /\ \A i \in DOMAIN session : ~HeardAt(i, t)
    /\ heardWrite.turn # t

\* The i-th event is the message of a turn the user spoke.
SpokenMessage(i) == session[i].kind = "user" /\ session[i].turn \notin injected

\* The journal keeps its causal order though two tasks append to it: messages
\* are logged in the order the user spoke them, a turn's model event and its
\* [HEARD] event come after its message, and no other turn's message or
\* response comes between a message and its response.
JournalOrder ==
  \A i, j \in DOMAIN session :
    /\ (SpokenMessage(i) /\ SpokenMessage(j) /\ i < j)
         => session[i].turn < session[j].turn
    /\ session[i].kind \in {"model", "heard"}
         => \E k \in 1 .. i - 1 : UserAt(k, session[i].turn)
    /\ (session[i].kind = "user" /\ ModelAt(j, session[i].turn))
         => \A k \in i + 1 .. j - 1 : session[k].kind = "heard"

\* A shut-down service starts no new run and learns no invocation, so no [HEARD]
\* write can begin after stop() or cancel() has cleared the map.
NothingAfterShutdown ==
  [][~alive => /\ invMap' = {} /\ run' = Idle
               /\ heardWrite' \in {heardWrite, NoWrite}]_vars

\* Turn t waits for the process task.
Waiting(t) ==
  \/ \E i \in DOMAIN procQ : procQ[i] = t
  \/ \E i \in DOMAIN down : down[i] = Context(t)

\* No context frame waits for ever: a [HEARD] write that holds the input task,
\* and a run that holds the process task, always let it through in the end (or
\* the next user turn, or the end of the pipeline, drops it).
ContextServed ==
  \A t \in 1 .. MaxUserTurns : Waiting(t) ~> ~Waiting(t) \/ ~alive

\* The LLM service has yet to see that turn t was cut short.
CutShort(t) ==
  /\ t \in invMap
  /\ \E i \in DOMAIN up :
       /\ up[i].turn = t /\ up[i].interrupted
       /\ \A j \in 1 .. i - 1 : up[j].turn # t

\* While the store works and the pipeline stays up, every turn the aggregator
\* reports as cut short, and whose invocation is known, gets its [HEARD] event.
HeardWritten ==
  \A t \in 1 .. MaxUserTurns :
    CutShort(t) ~> ~alive \/ \E i \in DOMAIN session : HeardAt(i, t)

\* What interruption.py:13-14 says of the journal: a [HEARD] event is written
\* immediately after the model event it is about.
HeardFollowsItsModel ==
  \A i \in DOMAIN session : session[i].kind = "heard" =>
    i > 1 /\ ModelAt(i - 1, session[i].turn)

\* What service.py:471-472 says of _persist_and_run: speech of an injected turn
\* is not tracked for [HEARD] purposes.
InjectedSpeechUntracked ==
  \A i \in DOMAIN session : session[i].kind = "heard" =>
    \A k \in DOMAIN session[i].text : session[i].text[k].turn \notin injected

=============================================================================
