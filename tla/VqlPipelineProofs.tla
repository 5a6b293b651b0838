--------------------------- MODULE VqlPipelineProofs ---------------------------
(***************************************************************************)
(* Theorems about VqlPipeline, for every value of its bounds: its types    *)
(* and the bookkeeping of turns and invocations; what it writes in the     *)
(* journal, in which order, in whose name, and what of a turn cut short;   *)
(* and the speech that the reports in it account for.                      *)
(***************************************************************************)
EXTENDS VqlPipeline, FiniteSetTheorems, SequenceLemmas

-----------------------------------------------------------------------------
(* What an interruption leaves of a queue                                   *)

\* A queue without what an interruption overtakes is still a queue.
LEMMA BehindType ==
  ASSUME NEW S, NEW q \in Seq(S), NEW i \in DOMAIN q
  PROVE  Behind(q, i) \in Seq(S)
  BY DEF Behind

\* Nor does taking the interruption alone out of it add anything.
LEMMA RemoveAtType ==
  ASSUME NEW S, NEW q \in Seq(S), NEW i \in DOMAIN q
  PROVE  RemoveAt(q, i) \in Seq(S)
  BY DEF RemoveAt

\* What removing an item leaves: those before it, and those behind it one place
\* up.
LEMMA RemoveAtItems ==
  ASSUME NEW S, NEW q \in Seq(S), NEW i \in DOMAIN q
  PROVE  /\ Len(RemoveAt(q, i)) = Len(q) - 1
         /\ \A k \in 1 .. Len(q) - 1 :
              RemoveAt(q, i)[k] = IF k < i THEN q[k] ELSE q[k + 1]
  <1> DEFINE a == SubSeq(q, 1, i - 1)
             b == SubSeq(q, i + 1, Len(q))
  <1>1. /\ a \in Seq(S) /\ Len(a) = i - 1
        /\ \A k \in 1 .. i - 1 : a[k] = q[k]
    OBVIOUS
  <1>2. /\ b \in Seq(S) /\ Len(b) = Len(q) - i
        /\ \A k \in 1 .. Len(q) - i : b[k] = q[i + k]
    OBVIOUS
  <1>3. RemoveAt(q, i) = a \o b
    BY DEF RemoveAt
  <1>4. i \in 1 .. Len(q) /\ Len(q) \in Nat
    OBVIOUS
  <1> HIDE DEF a, b
  <1> QED
    BY <1>1, <1>2, <1>3, <1>4

-----------------------------------------------------------------------------
(* The frames the processors make                                           *)

LEMMA ResponseType ==
  ASSUME NEW t \in Turns, NEW n \in 0 .. MaxSentences
  PROVE  Response(t, n) \in Seq(Sentence)
  <1>1. n \in Nat
    BY BoundsAssumption
  <1>2. \A k \in 1 .. n : [turn |-> t, n |-> k] \in Sentence
    BY BoundsAssumption DEF Sentence
  <1> QED
    BY <1>1, <1>2 DEF Response

\* A run is in progress exactly when its turn is one.
LEMMA RunInProgress ==
  ASSUME NEW r \in Run \cup {Idle}
  PROVE  /\ r # Idle <=> r \in Run
         /\ r # Idle <=> r.turn # NoTurn
         /\ r = Idle <=> r.phase = "idle"
  BY BoundsAssumption DEF Run, Idle, Turns, NoTurn

\* Each frame the LLM service pushes is one the TTS takes.
LEMMA LLMFrames ==
  ASSUME NEW t \in Turns
  PROVE  /\ ResponseStart(t) \in TTSFrame
         /\ ResponseEnd(t) \in TTSFrame
         /\ \A k \in 1 .. MaxSentences : ResponseText(t, k) \in TTSFrame
  BY DEF TTSFrame, ResponseStart, ResponseEnd, ResponseText

LEMMA CleanupType ==
  ASSUME NEW r \in Run
  PROVE  Cleanup(r) \in Seq(TTSFrame)
  <1>1. r.turn \in Turns
    BY DEF Run
  <1> QED
    BY <1>1, LLMFrames DEF Cleanup

LEMMA CancelledRunType ==
  ASSUME NEW r \in Run \cup {Idle}
  PROVE  CancelledRun(r) \in Seq(TTSFrame)
  BY CleanupType DEF CancelledRun

LEMMA StartFramesType ==
  ASSUME NEW r \in Run
  PROVE  StartFrames(r) \in Seq(TTSFrame)
  <1>1. r.turn \in Turns
    BY DEF Run
  <1> QED
    BY <1>1, LLMFrames DEF StartFrames

\* An interruption is a frame of every queue it passes through.
LEMMA InterruptionFrames ==
  ASSUME NEW f, f.type = "Interruption"
  PROVE  f \in DownFrame \/ f \in TTSFrame \/ f \in OutFrame
           => f \in DownFrame /\ f \in TTSFrame /\ f \in OutFrame
  BY DEF DownFrame, TTSFrame, OutFrame, InterruptionFrame

-----------------------------------------------------------------------------
(* The interruption that the LLM service takes                              *)

\* The i-th frame has been taken out of the service's input queue.
TakenAt(i) ==
  /\ i \in DOMAIN down /\ Len(down') = Len(down) - 1
  /\ \A k \in DOMAIN down' :
       \/ k \in DOMAIN down /\ k < i /\ down'[k] = down[k]
       \/ k \in Nat /\ k + 1 \in DOMAIN down /\ i <= k /\ down'[k] = down[k + 1]

\* It is the first one in the queue, and overtakes the contexts in front of it.
LEMMA InterruptionTaken ==
  ASSUME UserTypeOK, LLMInterrupted
  PROVE  /\ run' = Idle /\ procQ' = <<>> /\ heardWrite = NoWrite
         /\ UNCHANGED <<userSpeaking, userTurns, prevTurn, minted, invMap,
                       heardWrite, injected, alive, session, tts, toOut, toAA,
                       spoken, completions, up, played>>
         /\ \E i \in DOMAIN down :
              /\ TakenAt(i) /\ down' \in Seq(DownFrame)
              /\ down' = RemoveAt(down, i)
              /\ down[i].type = "Interruption" /\ down[i] \in DownFrame
              /\ \A k \in 1 .. i - 1 : /\ k \in DOMAIN down
                                      /\ down[k].type = "VqlContext"
                                      /\ down[k].turn \in Turns
              /\ overtaken' = overtaken \cup {down[k].turn : k \in 1 .. i - 1}
              /\ toTTS' = (toTTS \o CancelledRun(run)) \o <<down[i]>>
  <1>1. down \in Seq(DownFrame)
    BY DEF UserTypeOK
  <1>2. PICK i \in DOMAIN down :
          /\ FirstInterruption(down, i) /\ down' = RemoveAt(down, i)
          /\ overtaken' = overtaken \cup {down[k].turn : k \in 1 .. i - 1}
          /\ toTTS' = (toTTS \o CancelledRun(run)) \o <<down[i]>>
    BY DEF LLMInterrupted
  <1>3. down' \in Seq(DownFrame)
    BY <1>1, <1>2, RemoveAtType
  <1>4. TakenAt(i)
    <2>1. /\ Len(down') = Len(down) - 1
          /\ \A k \in 1 .. Len(down) - 1 :
               down'[k] = IF k < i THEN down[k] ELSE down[k + 1]
      BY <1>1, <1>2, RemoveAtItems
    <2>2. i \in 1 .. Len(down) /\ Len(down) \in Nat
      BY <1>1
    <2>3. DOMAIN down' = 1 .. Len(down) - 1 /\ DOMAIN down = 1 .. Len(down)
      BY <1>1, <1>3, <2>1
    <2> QED
      BY <2>1, <2>2, <2>3 DEF TakenAt
  <1>5. \A k \in 1 .. i - 1 : /\ k \in DOMAIN down
                            /\ down[k].type = "VqlContext"
                            /\ down[k].turn \in Turns
    BY <1>1, <1>2 DEF FirstInterruption, DownFrame, InterruptionFrame
  <1>6. /\ run' = Idle /\ procQ' = <<>> /\ heardWrite = NoWrite
        /\ UNCHANGED <<userSpeaking, userTurns, prevTurn, minted, invMap,
                      heardWrite, injected, alive, session, tts, toOut, toAA,
                      spoken, completions, up, played>>
    BY DEF LLMInterrupted, InputTaskFree, uaVars
  <1>7. down[i].type = "Interruption" /\ down[i] \in DownFrame
    BY <1>1, <1>2 DEF FirstInterruption
  <1> QED
    BY <1>2, <1>3, <1>4, <1>5, <1>6, <1>7

-----------------------------------------------------------------------------
(* Type correctness                                                         *)

\* A step that leaves a part of the pipeline alone keeps its types.
LEMMA UserUnchanged ==
  ASSUME UserTypeOK, UNCHANGED <<userSpeaking, userTurns, minted, prevTurn, down>>
  PROVE  UserTypeOK'
  BY DEF UserTypeOK

LEMMA ServiceUnchanged ==
  ASSUME ServiceTypeOK,
         UNCHANGED <<alive, procQ, run, invMap, injected, heardWrite, overtaken,
                     session>>
  PROVE  ServiceTypeOK'
  BY DEF ServiceTypeOK

LEMMA SpeechUnchanged ==
  ASSUME SpeechTypeOK, UNCHANGED speech
  PROVE  SpeechTypeOK'
  BY DEF SpeechTypeOK, speech

LEMMA InitType == Init => TypeOK
  <1> SUFFICES ASSUME Init
               PROVE  TypeOK
    OBVIOUS
  <1>1. UserTypeOK
    <2>1. down \in Seq(DownFrame) /\ prevTurn \in Turns \cup {NoTurn}
      BY DEF Init
    <2>2. userSpeaking \in BOOLEAN /\ userTurns \in Nat /\ minted \in Nat
      BY DEF Init
    <2> QED
      BY <2>1, <2>2 DEF UserTypeOK
  <1>2. ServiceTypeOK
    BY DEF Init, ServiceTypeOK
  <1>3. SpeechTypeOK
    BY DEF Init, SpeechTypeOK
  <1> QED
    BY <1>1, <1>2, <1>3 DEF TypeOK

LEMMA UserType ==
  ASSUME TypeOK, UserTurnStarted \/ PushAggregation \/ PushNothing
  PROVE  TypeOK'
  <1> USE DEF TypeOK
  <1>1. ServiceTypeOK' /\ SpeechTypeOK'
    BY ServiceUnchanged, SpeechUnchanged
    DEF UserTurnStarted, PushAggregation, PushNothing, llmVars
  <1>2. minted + 1 \in Nat /\ minted + 1 \in Turns
    BY DEF UserTypeOK, Turns
  <1>3. CASE UserTurnStarted
    <2>1. Interruption(prevTurn) \in DownFrame
      BY DEF UserTypeOK, Interruption, DownFrame, InterruptionFrame
    <2> QED
      BY <1>1, <1>3, <2>1 DEF UserTurnStarted, UserTypeOK
  <1>4. CASE PushAggregation
    <2>1. Context(minted + 1) \in DownFrame
      BY <1>2 DEF Context, DownFrame
    <2>2. minted' \in Nat /\ prevTurn' \in Turns
      BY <1>2, <1>4 DEF PushAggregation, Recorded
    <2>3. down' \in Seq(DownFrame)
      BY <1>4, <2>1 DEF PushAggregation, UserTypeOK
    <2>4. UserTypeOK'
      BY <1>4, <2>2, <2>3 DEF PushAggregation, UserTypeOK
    <2> QED
      BY <1>1, <2>4
  <1>5. CASE PushNothing
    BY <1>1, <1>5 DEF PushNothing, UserTypeOK
  <1> QED
    BY <1>3, <1>4, <1>5

LEMMA InputTaskType ==
  ASSUME TypeOK, InputTask
  PROVE  TypeOK'
  <1> USE DEF TypeOK
  <1>1. CASE RouteContext
    <2>1. Head(down).turn \in Turns /\ Tail(down) \in Seq(DownFrame)
      BY <1>1 DEF RouteContext, UserTypeOK, DownFrame, InterruptionFrame
    <2>2. UserTypeOK'
      BY <1>1, <2>1 DEF RouteContext, UserTypeOK, uaVars
    <2>3. ServiceTypeOK'
      BY <1>1, <2>1 DEF RouteContext, ServiceTypeOK
    <2> QED
      BY <1>1, <2>2, <2>3, SpeechUnchanged DEF RouteContext
  <1>2. CASE LLMInterrupted
    <2>1. PICK i \in DOMAIN down :
            /\ down' \in Seq(DownFrame)
            /\ down[i].type = "Interruption" /\ down[i] \in DownFrame
            /\ \A k \in 1 .. i - 1 : down[k].turn \in Turns
            /\ overtaken' = overtaken \cup {down[k].turn : k \in 1 .. i - 1}
            /\ toTTS' = (toTTS \o CancelledRun(run)) \o <<down[i]>>
      BY <1>2, InterruptionTaken
    <2>2. CancelledRun(run) \in Seq(TTSFrame)
      BY CancelledRunType DEF ServiceTypeOK
    <2>3. UserTypeOK'
      BY <1>2, <2>1 DEF LLMInterrupted, UserTypeOK, uaVars
    <2>4. ServiceTypeOK'
      <3>1. {down[k].turn : k \in 1 .. i - 1} \in SUBSET Turns
        BY <2>1
      <3>2. overtaken' \in SUBSET Turns
        BY <2>1, <3>1 DEF ServiceTypeOK
      <3> QED
        BY <1>2, <3>2, InterruptionTaken DEF ServiceTypeOK
    <2>5. SpeechTypeOK'
      <3>1. down[i] \in TTSFrame
        BY <2>1, InterruptionFrames
      <3> QED
        BY <1>2, <2>1, <2>2, <3>1 DEF LLMInterrupted, SpeechTypeOK
    <2> QED
      BY <2>3, <2>4, <2>5
  <1>3. CASE HandleTurnCompleted
    <2>1. Head(up) \in TurnCompleted /\ Tail(up) \in Seq(TurnCompleted)
      BY <1>3 DEF HandleTurnCompleted, SpeechTypeOK
    <2>2. heardWrite' \in HeardWrite \cup {NoWrite}
      BY <1>3, <2>1
      DEF HandleTurnCompleted, WritesHeard, ServiceTypeOK, TurnCompleted,
          HeardWrite
    <2>3. invMap' \in SUBSET Turns
      BY <1>3 DEF HandleTurnCompleted, Popped, ServiceTypeOK
    <2>4. ServiceTypeOK'
      BY <1>3, <2>2, <2>3 DEF HandleTurnCompleted, ServiceTypeOK
    <2>5. SpeechTypeOK'
      BY <1>3, <2>1 DEF HandleTurnCompleted, SpeechTypeOK
    <2> QED
      BY <1>3, <2>4, <2>5, UserUnchanged DEF HandleTurnCompleted, uaVars
  <1>4. CASE AppendHeard
    <2>1. [kind |-> "heard", turn |-> heardWrite.turn,
           text |-> heardWrite.text] \in JournalEvent
      BY <1>4 DEF AppendHeard, ServiceTypeOK, JournalEvent, HeardWrite
    <2>2. ServiceTypeOK'
      BY <1>4, <2>1 DEF AppendHeard, ServiceTypeOK
    <2> QED
      BY <1>4, <2>2, UserUnchanged, SpeechUnchanged DEF AppendHeard, uaVars
  <1>5. CASE LoseHeard
    <2>1. ServiceTypeOK'
      BY <1>5 DEF LoseHeard, ServiceTypeOK
    <2> QED
      BY <1>5, <2>1, UserUnchanged, SpeechUnchanged DEF LoseHeard, uaVars
  <1> QED
    BY <1>1, <1>2, <1>3, <1>4, <1>5 DEF InputTask

LEMMA ProcessTaskType ==
  ASSUME TypeOK, ProcessTask
  PROVE  TypeOK'
  <1> USE DEF TypeOK
  <1>t. run # Idle => run \in Run
    BY DEF ServiceTypeOK
  <1>u. UserTypeOK'
    BY UserUnchanged
    DEF ProcessTask, Runner, StartRun, RunnerAsks, PartialEvent, FinalEvent,
        EndRun, uaVars
  <1>1. CASE StartRun
    <2>1. run' \in Run /\ procQ' \in Seq(Turns)
      BY <1>1, BoundsAssumption DEF StartRun, ServiceTypeOK, Run
    <2>2. ServiceTypeOK'
      BY <1>1, <2>1 DEF StartRun, ServiceTypeOK
    <2> QED
      BY <1>1, <1>u, <2>2, SpeechUnchanged DEF StartRun
  <1>2. CASE RunnerAsks
    <2>1. run \in Run
      BY <1>2, <1>t DEF RunnerAsks, Idle
    <2>2. run' \in Run
      BY <1>2, <2>1 DEF RunnerAsks, Run
    <2>3. [kind |-> "user", turn |-> run.turn, text |-> <<>>] \in JournalEvent
      BY <2>1 DEF Run, JournalEvent
    <2>4. ServiceTypeOK'
      BY <1>2, <2>2, <2>3 DEF RunnerAsks, ServiceTypeOK
    <2> QED
      BY <1>2, <1>u, <2>4, SpeechUnchanged DEF RunnerAsks
  <1>3. CASE PartialEvent
    <2>1. run \in Run
      BY <1>3, <1>t DEF PartialEvent, Idle
    <2>2. run.turn \in Turns /\ run.said + 1 \in 1 .. MaxSentences
      BY <1>3, <2>1, BoundsAssumption DEF PartialEvent, Run
    <2>3. run' = [turn |-> run.turn, phase |-> "streaming",
                  said |-> run.said + 1]
      BY <1>3, <2>1 DEF PartialEvent, Run
    <2>4. run' \in Run
      BY <2>2, <2>3, BoundsAssumption DEF Run
    <2>5. invMap' \in SUBSET Turns
      BY <1>3, <2>2 DEF PartialEvent, ServiceTypeOK, Learned
    <2>6. ServiceTypeOK'
      BY <1>3, <2>4, <2>5 DEF PartialEvent, ServiceTypeOK
    <2>7. ResponseText(run.turn, run.said + 1) \in TTSFrame
      BY <2>2, LLMFrames
    <2>8. SpeechTypeOK'
      BY <1>3, <2>1, <2>7, StartFramesType DEF PartialEvent, SpeechTypeOK
    <2> QED
      BY <1>u, <2>6, <2>8
  <1>4. CASE FinalEvent
    <2>1. run \in Run
      BY <1>4, <1>t DEF FinalEvent, Idle
    <2>2. run.turn \in Turns /\ run.said \in 0 .. MaxSentences
      BY <2>1 DEF Run
    <2>3. run' \in Run
      BY <1>4, <2>1 DEF FinalEvent, Run
    <2>4. invMap' \in SUBSET Turns
      BY <1>4, <2>2 DEF FinalEvent, ServiceTypeOK, Learned
    <2>5. [kind |-> "model", turn |-> run.turn,
           text |-> Response(run.turn, run.said)] \in JournalEvent
      BY <2>2, ResponseType DEF JournalEvent
    <2>6. ServiceTypeOK'
      BY <1>4, <2>3, <2>4, <2>5 DEF FinalEvent, ServiceTypeOK
    <2>7. SpeechTypeOK'
      BY <1>4, <2>1, StartFramesType DEF FinalEvent, SpeechTypeOK
    <2> QED
      BY <1>u, <2>6, <2>7
  <1>5. CASE EndRun
    <2>1. ServiceTypeOK'
      BY <1>5 DEF EndRun, ServiceTypeOK
    <2>2. SpeechTypeOK'
      BY <1>5, <1>t, CleanupType DEF EndRun, SpeechTypeOK
    <2> QED
      BY <1>u, <2>1, <2>2
  <1> QED
    BY <1>1, <1>2, <1>3, <1>4, <1>5 DEF ProcessTask, Runner

LEMMA ApplicationType ==
  ASSUME TypeOK, PersistAndRun \/ Shutdown
  PROVE  TypeOK'
  <1> USE DEF TypeOK
  <1>1. CASE PersistAndRun
    <2>1. minted + 1 \in Nat /\ minted + 1 \in Turns
      BY DEF UserTypeOK, Turns
    <2>2. UserTypeOK'
      BY <1>1, <2>1 DEF PersistAndRun, UserTypeOK, uaVars
    <2>3. run' \in Run /\ injected' \in SUBSET Turns
      BY <1>1, <2>1, BoundsAssumption DEF PersistAndRun, ServiceTypeOK, Run
    <2>4. ServiceTypeOK'
      BY <1>1, <2>3 DEF PersistAndRun, ServiceTypeOK
    <2> QED
      BY <1>1, <2>2, <2>4, SpeechUnchanged DEF PersistAndRun
  <1>2. CASE Shutdown
    <2>1. CancelledRun(run) \in Seq(TTSFrame)
      BY CancelledRunType DEF ServiceTypeOK
    <2>2. procQ' \in Seq(Turns)
      BY <1>2 DEF Shutdown
    <2>3. invMap' \in SUBSET Turns
      BY <1>2 DEF Shutdown, Cleared
    <2>4. alive' \in BOOLEAN
      BY <1>2 DEF Shutdown
    <2>5. ServiceTypeOK'
      BY <1>2, <2>2, <2>3, <2>4 DEF Shutdown, Cleared, ServiceTypeOK
    <2>6. SpeechTypeOK'
      BY <1>2, <2>1 DEF Shutdown, SpeechTypeOK
    <2> QED
      BY <1>2, <2>5, <2>6, UserUnchanged DEF Shutdown, uaVars
  <1> QED
    BY <1>1, <1>2

LEMMA SpeechType ==
  ASSUME TypeOK, TTS \/ Output
  PROVE  TypeOK'
  <1> USE DEF TypeOK
  <1>u. UNCHANGED upstream
    BY DEF TTS, TTSStart, TTSText, TTSEnd, TTSInterrupted, Output,
           PlaySentence, OutputStopped, OutputInterrupted
  <1>v. UserTypeOK' /\ ServiceTypeOK'
    BY <1>u, UserUnchanged, ServiceUnchanged DEF upstream, uaVars, llmVars
  <1>1. CASE TTSStart
    <2>1. Head(toTTS).turn \in Turns /\ Tail(toTTS) \in Seq(TTSFrame)
      BY <1>1 DEF TTSStart, SpeechTypeOK, TTSFrame, InterruptionFrame
    <2>2. SpeechTypeOK'
      BY <1>1, <2>1 DEF TTSStart, SpeechTypeOK
    <2> QED
      BY <1>v, <2>2
  <1>2. CASE TTSText
    <2>1. Head(toTTS) \in TTSFrame /\ Tail(toTTS) \in Seq(TTSFrame)
      BY <1>2 DEF TTSText, SpeechTypeOK
    <2>2. Head(toTTS) \in [type : {"ResponseText"}, turn : Turns,
                           n : 1 .. MaxSentences]
      BY <1>2, <2>1 DEF TTSText, TTSFrame, InterruptionFrame
    <2>3. SpokenText([turn |-> Head(toTTS).turn, n |-> Head(toTTS).n])
            \in OutFrame
      BY <2>2 DEF SpokenText, OutFrame, Sentence
    <2>4. toOut' \in Seq(OutFrame)
      BY <1>2, <2>3 DEF TTSText, SpeechTypeOK
    <2>5. tts' \in [context : Turns \cup {NoTurn}, synthesised : BOOLEAN]
      BY <1>2 DEF TTSText, SpeechTypeOK
    <2>6. SpeechTypeOK'
      BY <1>2, <2>1, <2>4, <2>5 DEF TTSText, SpeechTypeOK
    <2> QED
      BY <1>v, <2>6
  <1>3. CASE TTSEnd
    <2>1. SpeechStopped(tts.context) \in OutFrame
      BY DEF SpeechTypeOK, SpeechStopped, OutFrame
    <2>2. SpeechTypeOK'
      BY <1>3, <2>1 DEF TTSEnd, SpeechTypeOK
    <2> QED
      BY <1>v, <2>2
  <1>4. CASE TTSInterrupted
    <2>1. PICK i \in DOMAIN toTTS : /\ FirstInterruption(toTTS, i)
                                    /\ toTTS' = Behind(toTTS, i)
                                    /\ toOut' = Append(toOut, toTTS[i])
      BY <1>4 DEF TTSInterrupted
    <2>2. toTTS[i] \in OutFrame
      BY <2>1, InterruptionFrames DEF SpeechTypeOK, FirstInterruption
    <2>3. toTTS' \in Seq(TTSFrame)
      BY <2>1, BehindType DEF SpeechTypeOK
    <2>4. toOut' \in Seq(OutFrame)
      BY <2>1, <2>2 DEF SpeechTypeOK
    <2>5. SpeechTypeOK'
      BY <1>4, <2>3, <2>4 DEF TTSInterrupted, SpeechTypeOK
    <2> QED
      BY <1>v, <2>5
  <1>5. CASE PlaySentence
    <2>1. Head(toOut) \in OutFrame /\ Head(toOut).sentence \in Sentence
      BY <1>5 DEF PlaySentence, SpeechTypeOK, OutFrame, InterruptionFrame
    <2>2. SpeechTypeOK'
      BY <1>5, <2>1 DEF PlaySentence, SpeechTypeOK
    <2> QED
      BY <1>v, <2>2
  <1>6. CASE OutputStopped
    <2>1. Head(toOut) \in OutFrame /\ Tail(toOut) \in Seq(OutFrame)
      BY <1>6 DEF OutputStopped, SpeechTypeOK
    <2>2. SpeechTypeOK'
      BY <1>6, <2>1 DEF OutputStopped, SpeechTypeOK
    <2> QED
      BY <1>v, <2>2
  <1>7. CASE OutputInterrupted
    <2>1. toOut' \in Seq(OutFrame) /\ toAA' \in Seq(OutFrame)
      BY <1>7, BehindType DEF OutputInterrupted, SpeechTypeOK
    <2>2. SpeechTypeOK'
      BY <1>7, <2>1 DEF OutputInterrupted, SpeechTypeOK
    <2> QED
      BY <1>v, <2>2
  <1> QED
    BY <1>1, <1>2, <1>3, <1>4, <1>5, <1>6, <1>7 DEF TTS, Output

LEMMA TriggerType ==
  ASSUME SpeechTypeOK, NEW t \in Turns \cup {NoTurn}, NEW b \in BOOLEAN,
         TriggerTurnStopped(t, b)
  PROVE  /\ spoken' \in Seq(Sentence)
         /\ up' \in Seq(TurnCompleted)
         /\ completions' \in Seq(TurnCompleted)
  <1>1. [turn |-> t, text |-> spoken, interrupted |-> b] \in TurnCompleted
    BY DEF SpeechTypeOK, TurnCompleted
  <1>2. Report(t, b) \in Seq(TurnCompleted)
    BY <1>1 DEF Report
  <1> QED
    BY <1>2 DEF SpeechTypeOK, TriggerTurnStopped

LEMMA AssistantType ==
  ASSUME TypeOK, Assistant
  PROVE  TypeOK'
  <1> USE DEF TypeOK
  <1>u. UNCHANGED upstream
    BY DEF Assistant, AggregateText, TurnStopped, AAInterrupted,
           AAPlainInterrupted
  <1>v. UserTypeOK' /\ ServiceTypeOK'
    BY <1>u, UserUnchanged, ServiceUnchanged DEF upstream, uaVars, llmVars
  <1>1. CASE AggregateText
    <2>1. Head(toAA) \in OutFrame /\ Tail(toAA) \in Seq(OutFrame)
      BY <1>1 DEF AggregateText, SpeechTypeOK
    <2>2. Head(toAA).sentence \in Sentence
      BY <1>1, <2>1 DEF AggregateText, OutFrame, InterruptionFrame
    <2>3. SpeechTypeOK'
      BY <1>1, <2>1, <2>2 DEF AggregateText, SpeechTypeOK
    <2> QED
      BY <1>v, <2>3
  <1>2. CASE TurnStopped
    <2>1. /\ Head(toAA).turn \in Turns \cup {NoTurn}
          /\ Tail(toAA) \in Seq(OutFrame)
      BY <1>2 DEF TurnStopped, SpeechTypeOK, OutFrame, InterruptionFrame
    <2>2. /\ spoken' \in Seq(Sentence)
          /\ up' \in Seq(TurnCompleted) /\ completions' \in Seq(TurnCompleted)
      BY <1>2, <2>1, TriggerType, Zenon DEF TurnStopped
    <2>3. SpeechTypeOK'
      BY <1>2, <2>1, <2>2 DEF TurnStopped, SpeechTypeOK
    <2> QED
      BY <1>v, <2>3
  <1>3. CASE AAInterrupted
    <2>1. PICK i \in DOMAIN toAA : /\ FirstInterruption(toAA, i)
                                   /\ toAA' = RemoveAt(toAA, i)
                                   /\ TriggerTurnStopped(toAA[i].turn, TRUE)
      BY <1>3 DEF AAInterrupted
    <2>2. toAA[i].turn \in Turns \cup {NoTurn}
      BY <2>1 DEF SpeechTypeOK, FirstInterruption, OutFrame, InterruptionFrame
    <2>3. toAA' \in Seq(OutFrame)
      BY <2>1, RemoveAtType DEF SpeechTypeOK
    <2>4. /\ spoken' \in Seq(Sentence)
          /\ up' \in Seq(TurnCompleted) /\ completions' \in Seq(TurnCompleted)
      BY <2>1, <2>2, TriggerType, Zenon
    <2>5. SpeechTypeOK'
      BY <1>3, <2>3, <2>4 DEF AAInterrupted, SpeechTypeOK
    <2> QED
      BY <1>v, <2>5
  <1>4. CASE AAPlainInterrupted
    <2>1. toAA' \in Seq(OutFrame)
      BY <1>4, BehindType DEF AAPlainInterrupted, SpeechTypeOK
    <2>2. SpeechTypeOK'
      BY <1>4, <2>1 DEF AAPlainInterrupted, SpeechTypeOK
    <2> QED
      BY <1>v, <2>2
  <1> QED
    BY <1>1, <1>2, <1>3, <1>4 DEF Assistant

\* Every frame, journal event and piece of bookkeeping has the shape its readers
\* rely on: in particular the journal only ever names turns that were minted
\* (never the "no previous turn" of a first interruption), and only interruptions
\* may name no turn.
THEOREM TypeCorrect == Spec => []TypeOK
  <1>1. ASSUME TypeOK, [Next]_vars
        PROVE  TypeOK'
    <2>1. CASE System
      BY <1>1, <2>1, InputTaskType, ProcessTaskType, SpeechType, AssistantType
      DEF System
    <2>2. CASE User
      BY <1>1, <2>2, UserType, ApplicationType DEF User
    <2>3. CASE UNCHANGED vars
      BY <1>1, <2>3, UserUnchanged, ServiceUnchanged, SpeechUnchanged
      DEF TypeOK, vars, upstream, uaVars, llmVars
    <2> QED
      BY <1>1, <2>1, <2>2, <2>3 DEF Next, Quiescent
  <1> QED
    BY <1>1, InitType, PTL DEF Spec

-----------------------------------------------------------------------------
(* One [HEARD] event per invocation                                         *)

Written(t) == \E i \in DOMAIN session : HeardAt(i, t)
Logged(t)  == \E i \in DOMAIN session : UserAt(i, t)

\* Turn t has not begun to answer: nothing knows an invocation of it.
Fresh(t) == t \notin invMap /\ heardWrite.turn # t /\ ~Written(t)

\* Turn t waits in a queue of the LLM service.
InProcQ(t)   == \E i \in DOMAIN procQ : procQ[i] = t
ContextAt(i) == down[i].type = "VqlContext"

\* A turn is answered by one run, which learns its invocation only once: a turn
\* still to be run is fresh, and is in one place only.
QueuedAreFresh ==
  /\ \A i \in DOMAIN procQ : Fresh(procQ[i]) /\ procQ[i] # run.turn
  /\ \A i \in DOMAIN down : ContextAt(i) =>
       Fresh(down[i].turn) /\ down[i].turn # run.turn /\ ~InProcQ(down[i].turn)
  /\ run.phase \in {"called", "asked"} => Fresh(run.turn)

QueuedOnce ==
  /\ \A i, j \in DOMAIN procQ : procQ[i] = procQ[j] => i = j
  /\ \A i, j \in DOMAIN down :
       ContextAt(i) /\ ContextAt(j) /\ down[i].turn = down[j].turn => i = j

\* No turn is known to the pipeline before its id is minted.
KnownAreMinted ==
  /\ run.turn <= minted
  /\ \A i \in DOMAIN procQ : procQ[i] <= minted
  /\ \A i \in DOMAIN down : ContextAt(i) => down[i].turn <= minted
  /\ heardWrite.turn <= minted
  /\ \A t \in invMap : t <= minted
  /\ \A i \in DOMAIN session : session[i].turn <= minted

\* What is in the journal, or about to be written to it, has left the map.
HeardLeftTheMap ==
  /\ heardWrite # NoWrite =>
       heardWrite.turn \notin invMap /\ ~Written(heardWrite.turn)
  /\ \A t \in invMap : ~Written(t)
  /\ \A i, j \in DOMAIN session :
       session[i].kind = "heard" /\ HeardAt(j, session[i].turn) => i = j

\* The runner has logged the message of every run that got an event.
AskedAreLogged ==
  /\ run.phase \in {"asked", "streaming", "persisted"} => Logged(run.turn)
  /\ \A t \in invMap : Logged(t)

Bookkeeping ==
  QueuedAreFresh /\ QueuedOnce /\ KnownAreMinted /\ HeardLeftTheMap
    /\ AskedAreLogged

LEMMA InitBookkeeping == Init => Bookkeeping
  BY DEF Init, Bookkeeping, QueuedAreFresh, QueuedOnce, KnownAreMinted,
         HeardLeftTheMap, AskedAreLogged, Idle, NoWrite, NoTurn

\* Everything downstream of the LLM service leaves its bookkeeping alone.
LEMMA ElsewhereBookkeeping ==
  ASSUME Bookkeeping,
         UNCHANGED <<minted, down, procQ, run, invMap, heardWrite, session>>
  PROVE  Bookkeeping'
  BY DEF Bookkeeping, QueuedAreFresh, QueuedOnce, KnownAreMinted,
         HeardLeftTheMap, AskedAreLogged, Fresh, Written, Logged, InProcQ,
         ContextAt, HeardAt, UserAt

\* What an append to the journal changes.
LEMMA JournalAppend ==
  ASSUME session \in Seq(JournalEvent), NEW e \in JournalEvent,
         session' = Append(session, e)
  PROVE  /\ \A t : Written(t)' <=> Written(t) \/ (e.kind = "heard" /\ e.turn = t)
         /\ \A t : Logged(t)' <=> Logged(t) \/ (e.kind = "user" /\ e.turn = t)
  <1>1. DOMAIN session = 1 .. Len(session) /\ Len(session) \in Nat
    OBVIOUS
  <1>2. DOMAIN session' = 1 .. Len(session) + 1
    OBVIOUS
  <1>3. \A i \in DOMAIN session : session'[i] = session[i]
    OBVIOUS
  <1>4. session'[Len(session) + 1] = e
    OBVIOUS
  <1>5. DOMAIN session' = DOMAIN session \cup {Len(session) + 1}
    BY <1>1, <1>2
  <1> HIDE DEF JournalEvent
  <1> QED
    BY <1>3, <1>4, <1>5 DEF Written, Logged, HeardAt, UserAt

LEMMA DownFrameTurn ==
  ASSUME NEW f \in DownFrame
  PROVE  f.turn \in Nat /\ (f.type = "VqlContext" => f.turn # 0)
  BY DEF DownFrame, InterruptionFrame, Turns, NoTurn

LEMMA DownTurns ==
  ASSUME TypeOK
  PROVE  \A i \in DOMAIN down :
           down[i].turn \in Nat /\ (ContextAt(i) => down[i].turn # 0)
  <1>1. \A i \in DOMAIN down : down[i] \in DownFrame
    BY DEF TypeOK, UserTypeOK
  <1> QED
    BY <1>1, DownFrameTurn DEF ContextAt

LEMMA TurnsAreNumbers ==
  ASSUME TypeOK
  PROVE  /\ minted \in Nat /\ run.turn \in Nat /\ heardWrite.turn \in Nat
         /\ \A t \in invMap : t \in Nat
         /\ \A i \in DOMAIN procQ : procQ[i] \in Nat
         /\ \A i \in DOMAIN down : down[i].turn \in Nat
         /\ \A i \in DOMAIN session : session[i].turn \in Nat
  <1>1. minted \in Nat /\ \A i \in DOMAIN down : down[i].turn \in Nat
    BY DownTurns DEF TypeOK, UserTypeOK
  <1>2. run.turn \in Nat
    BY DEF TypeOK, ServiceTypeOK, Run, Idle, Turns, NoTurn
  <1>3. heardWrite.turn \in Nat
    BY DEF TypeOK, ServiceTypeOK, HeardWrite, NoWrite, Turns, NoTurn
  <1>4. /\ \A t \in invMap : t \in Nat
        /\ \A i \in DOMAIN procQ : procQ[i] \in Nat
    BY DEF TypeOK, ServiceTypeOK, Turns
  <1>5. \A i \in DOMAIN session : session[i].turn \in Nat
    <2>1. \A i \in DOMAIN session : session[i] \in JournalEvent
      BY DEF TypeOK, ServiceTypeOK
    <2>2. \A e \in JournalEvent : e.turn \in Nat
      BY DEF JournalEvent, Turns
    <2> QED
      BY <2>1, <2>2
  <1> QED
    BY <1>1, <1>2, <1>3, <1>4, <1>5

\* The id minted next is one the pipeline does not know.
LEMMA NextIsFresh ==
  ASSUME TypeOK, Bookkeeping
  PROVE  /\ Fresh(minted + 1) /\ ~InProcQ(minted + 1)
         /\ run.turn # minted + 1
         /\ \A i \in DOMAIN down : ContextAt(i) => down[i].turn # minted + 1
  BY TurnsAreNumbers
  DEF Bookkeeping, KnownAreMinted, Fresh, Written, HeardAt, InProcQ

LEMMA UserBookkeeping ==
  ASSUME TypeOK, Bookkeeping, UserTurnStarted \/ PushAggregation
  PROVE  Bookkeeping'
  <1>0. down \in Seq(DownFrame) /\ minted \in Nat
    BY DEF TypeOK, UserTypeOK
  <1>1. UNCHANGED <<procQ, run, invMap, heardWrite, session>>
    BY DEF UserTurnStarted, PushAggregation, llmVars
  <1>2. \A t : (Fresh(t)' <=> Fresh(t)) /\ (InProcQ(t)' <=> InProcQ(t))
    BY <1>1 DEF Fresh, Written, HeardAt, InProcQ
  <1>3. HeardLeftTheMap' /\ AskedAreLogged'
    BY <1>1 DEF Bookkeeping, HeardLeftTheMap, AskedAreLogged, Written, Logged,
                HeardAt, UserAt
  <1>4. PICK f : down' = Append(down, f) /\ minted' >= minted
                 /\ (f.type = "VqlContext"
                       => f.turn = minted + 1 /\ minted' = minted + 1)
    BY <1>0 DEF UserTurnStarted, PushAggregation, Interruption, Context
  <1>5. minted' \in Nat
    BY <1>0 DEF UserTurnStarted, PushAggregation
  <1>6. \A i \in DOMAIN down' :
          \/ i \in DOMAIN down /\ down'[i] = down[i]
          \/ i = Len(down) + 1 /\ down'[i] = f
    BY <1>0, <1>4
  <1>7. QueuedAreFresh'
    BY <1>1, <1>2, <1>4, <1>6, NextIsFresh
    DEF Bookkeeping, QueuedAreFresh, ContextAt
  <1>8. QueuedOnce'
    BY <1>1, <1>4, <1>6, NextIsFresh DEF Bookkeeping, QueuedOnce, ContextAt
  <1>9. KnownAreMinted'
    BY <1>0, <1>1, <1>4, <1>5, <1>6, TurnsAreNumbers
    DEF Bookkeeping, KnownAreMinted, ContextAt
  <1> QED
    BY <1>3, <1>7, <1>8, <1>9 DEF Bookkeeping

LEMMA RouteBookkeeping ==
  ASSUME TypeOK, Bookkeeping, RouteContext
  PROVE  Bookkeeping'
  <1>0. down \in Seq(DownFrame) /\ procQ \in Seq(Turns) /\ down # <<>>
    BY DEF TypeOK, UserTypeOK, ServiceTypeOK, RouteContext
  <1>1. UNCHANGED <<minted, run, invMap, heardWrite, session>>
    BY DEF RouteContext, uaVars
  <1>2. \A t : Fresh(t)' <=> Fresh(t)
    BY <1>1 DEF Fresh, Written, HeardAt
  <1>3. HeardLeftTheMap' /\ AskedAreLogged'
    BY <1>1 DEF Bookkeeping, HeardLeftTheMap, AskedAreLogged, Written, Logged,
                HeardAt, UserAt
  <1>4. /\ 1 \in DOMAIN down /\ ContextAt(1)
        /\ \A i \in DOMAIN down' : i + 1 \in DOMAIN down /\ down'[i] = down[i + 1]
                                   /\ i \in Nat \ {0}
    BY <1>0 DEF RouteContext, ContextAt
  <1>5. \A i \in DOMAIN procQ' :
          \/ i \in DOMAIN procQ /\ procQ'[i] = procQ[i]
          \/ i = Len(procQ) + 1 /\ procQ'[i] = down[1].turn
    BY <1>0 DEF RouteContext
  <1>6. \A t : InProcQ(t)' => InProcQ(t) \/ t = down[1].turn
    BY <1>5 DEF InProcQ
  <1>7. QueuedAreFresh'
    BY <1>1, <1>2, <1>4, <1>5, <1>6
    DEF Bookkeeping, QueuedAreFresh, QueuedOnce, ContextAt
  <1>8. QueuedOnce'
    BY <1>1, <1>4, <1>5 DEF Bookkeeping, QueuedAreFresh, QueuedOnce, ContextAt,
                            InProcQ
  <1>9. KnownAreMinted'
    BY <1>1, <1>4, <1>5 DEF Bookkeeping, KnownAreMinted, ContextAt
  <1> QED
    BY <1>3, <1>7, <1>8, <1>9 DEF Bookkeeping

\* An interruption, or the shutdown, empties the process task and its queue.
LEMMA CancelBookkeeping ==
  ASSUME TypeOK, Bookkeeping, LLMInterrupted \/ Shutdown
  PROVE  Bookkeeping'
  <1>0. down \in Seq(DownFrame)
    BY DEF TypeOK, UserTypeOK
  <1>1. UNCHANGED <<minted, heardWrite, session>>
    BY DEF LLMInterrupted, Shutdown, uaVars
  <1>2. procQ' = <<>> /\ run' = Idle /\ invMap' \subseteq invMap
    BY DEF LLMInterrupted, Shutdown, Cleared
  <1>3. \/ down' = down
        \/ \E i \in DOMAIN down : TakenAt(i)
    BY InterruptionTaken DEF Shutdown, TypeOK
  <1>4. \A t : Fresh(t) => Fresh(t)'
    BY <1>1, <1>2 DEF Fresh, Written, HeardAt
  <1>5. HeardLeftTheMap' /\ AskedAreLogged'
    BY <1>1, <1>2 DEF Bookkeeping, HeardLeftTheMap, AskedAreLogged, Written,
                      Logged, HeardAt, UserAt, Idle
  <1>6. run'.turn = 0 /\ run'.phase = "idle"
    BY <1>2 DEF Idle, NoTurn
  <1>7. \A i \in DOMAIN down : ContextAt(i) => down[i].turn # 0
    BY DownTurns
  <1>8. QueuedAreFresh'
    BY <1>2, <1>3, <1>4, <1>6, <1>7
    DEF Bookkeeping, QueuedAreFresh, ContextAt, InProcQ, TakenAt
  <1>9. QueuedOnce'
    <2>1. \A i, j \in DOMAIN procQ' : procQ'[i] = procQ'[j] => i = j
      BY <1>2
    <2>2. CASE down' = down
      BY <2>1, <2>2 DEF Bookkeeping, QueuedOnce, ContextAt
    <2>3. ASSUME NEW m \in DOMAIN down, TakenAt(m)
          PROVE  QueuedOnce'
      <3>1. m \in Nat /\ \A k \in DOMAIN down : k \in Nat
        BY <1>0
      <3>2. \A k \in DOMAIN down' : k \in Nat /\
              \/ k < m /\ k \in DOMAIN down /\ down'[k] = down[k]
              \/ k >= m /\ k + 1 \in DOMAIN down /\ down'[k] = down[k + 1]
        BY <2>3, <3>1 DEF TakenAt
      <3> QED
        BY <2>1, <3>1, <3>2 DEF Bookkeeping, QueuedOnce, ContextAt
    <2> QED
      BY <1>3, <2>2, <2>3
  <1>10. KnownAreMinted'
    BY <1>1, <1>2, <1>3, <1>6, TurnsAreNumbers
    DEF Bookkeeping, KnownAreMinted, ContextAt, TakenAt
  <1> QED
    BY <1>5, <1>8, <1>9, <1>10 DEF Bookkeeping

\* No turn in a queue of the service, and no run, is of the turn 0.
LEMMA QueuedAreTurns ==
  ASSUME TypeOK
  PROVE  /\ \A i \in DOMAIN procQ : procQ[i] # 0
         /\ \A i \in DOMAIN down : ContextAt(i) => down[i].turn # 0
         /\ run.phase \in {"called", "asked"} => run.turn # 0
  BY DownTurns DEF TypeOK, ServiceTypeOK, Run, Idle, Turns

\* The queues and the run stay as they are and fresh turns stay fresh.
LEMMA QueuesUnchanged ==
  ASSUME TypeOK, Bookkeeping, UNCHANGED <<minted, down, procQ, run>>,
         \A t : t # 0 /\ Fresh(t) => Fresh(t)'
  PROVE  QueuedAreFresh' /\ QueuedOnce'
  BY QueuedAreTurns
  DEF Bookkeeping, QueuedAreFresh, QueuedOnce, ContextAt, InProcQ

LEMMA HandleBookkeeping ==
  ASSUME TypeOK, Bookkeeping, HandleTurnCompleted
  PROVE  Bookkeeping'
  <1>1. UNCHANGED <<minted, down, procQ, run, session>>
    BY DEF HandleTurnCompleted, uaVars
  <1>2. \A t : (Written(t)' <=> Written(t)) /\ (Logged(t)' <=> Logged(t))
               /\ (InProcQ(t)' <=> InProcQ(t))
    BY <1>1 DEF Written, Logged, HeardAt, UserAt, InProcQ
  <1>3. invMap' \subseteq invMap
    BY DEF HandleTurnCompleted, Popped
  <1>4. \/ heardWrite' = NoWrite
        \/ heardWrite'.turn \in invMap /\ heardWrite'.turn \notin invMap'
    BY DEF HandleTurnCompleted, WritesHeard, Popped
  <1>5. NoWrite.turn = 0 /\ ~ (0 \in invMap)
    BY DEF NoWrite, NoTurn, TypeOK, ServiceTypeOK, Turns
  <1>6. \A t : t # 0 /\ Fresh(t) => Fresh(t)'
    BY <1>2, <1>3, <1>4, <1>5 DEF Fresh
  <1>7. QueuedAreFresh' /\ QueuedOnce'
    BY <1>1, <1>6, QueuesUnchanged
  <1>8. KnownAreMinted'
    BY <1>1, <1>3, <1>4, <1>5, TurnsAreNumbers
    DEF Bookkeeping, KnownAreMinted, ContextAt
  <1>9. HeardLeftTheMap' /\ AskedAreLogged'
    BY <1>1, <1>2, <1>3, <1>4
    DEF Bookkeeping, HeardLeftTheMap, AskedAreLogged, HeardAt
  <1> QED
    BY <1>7, <1>8, <1>9 DEF Bookkeeping

\* The two ends of _write_heard_event.
LEMMA WriteBookkeeping ==
  ASSUME TypeOK, Bookkeeping, AppendHeard \/ LoseHeard
  PROVE  Bookkeeping'
  <1>1. UNCHANGED <<minted, down, procQ, run, invMap>> /\ heardWrite' = NoWrite
    BY DEF AppendHeard, LoseHeard, uaVars
  <1>2. session \in Seq(JournalEvent)
    BY DEF TypeOK, ServiceTypeOK
  <1> DEFINE e == [kind |-> "heard", turn |-> heardWrite.turn,
                   text |-> heardWrite.text]
  <1>3. CASE AppendHeard
    <2>1. e \in JournalEvent
      BY <1>3 DEF AppendHeard, TypeOK, ServiceTypeOK, JournalEvent, HeardWrite
    <2>2. session' = Append(session, e)
      BY <1>3 DEF AppendHeard
    <2>3. /\ \A t : Written(t)' <=> Written(t) \/ heardWrite.turn = t
          /\ \A t : Logged(t)' <=> Logged(t)
      BY <1>2, <2>1, <2>2, JournalAppend
    <2>4. \A t : t # 0 /\ Fresh(t) => Fresh(t)'
      BY <1>1, <2>3 DEF Fresh, NoWrite, NoTurn
    <2>5. heardWrite # NoWrite /\ heardWrite.turn <= minted
      BY <1>3 DEF AppendHeard, Bookkeeping, KnownAreMinted
    <2>6. \A i \in DOMAIN session' :
            \/ i \in DOMAIN session /\ session'[i] = session[i]
            \/ i = Len(session) + 1 /\ session'[i] = e
      BY <1>2, <2>2
    <2>7. KnownAreMinted'
      BY <1>1, <2>5, <2>6, TurnsAreNumbers
      DEF Bookkeeping, KnownAreMinted, ContextAt, NoWrite, NoTurn
    <2>8. HeardLeftTheMap'
      <3>1. \A t \in invMap' : ~Written(t)'
        BY <1>1, <2>3, <2>5 DEF Bookkeeping, HeardLeftTheMap
      <3>2. \A i, j \in DOMAIN session' :
              session'[i].kind = "heard" /\ HeardAt(j, session[i].turn)' => i = j
        BY <2>5, <2>6 DEF Bookkeeping, HeardLeftTheMap, HeardAt, Written
      <3> QED
        BY <1>1, <3>1, <3>2 DEF HeardLeftTheMap
    <2>9. AskedAreLogged'
      BY <1>1, <2>3 DEF Bookkeeping, AskedAreLogged
    <2> QED
      BY <1>1, <2>4, <2>7, <2>8, <2>9, QueuesUnchanged DEF Bookkeeping
  <1>4. CASE LoseHeard
    <2>1. session' = session
      BY <1>4 DEF LoseHeard
    <2>2. \A t : (Written(t)' <=> Written(t)) /\ (Logged(t)' <=> Logged(t))
      BY <2>1 DEF Written, Logged, HeardAt, UserAt
    <2>3. \A t : t # 0 /\ Fresh(t) => Fresh(t)'
      BY <1>1, <2>2 DEF Fresh, NoWrite, NoTurn
    <2>4. KnownAreMinted' /\ HeardLeftTheMap' /\ AskedAreLogged'
      BY <1>1, <2>1, <2>2, TurnsAreNumbers
      DEF Bookkeeping, KnownAreMinted, HeardLeftTheMap, AskedAreLogged, HeardAt,
          ContextAt, NoWrite, NoTurn
    <2> QED
      BY <1>1, <2>3, <2>4, QueuesUnchanged DEF Bookkeeping
  <1> QED
    BY <1>3, <1>4

LEMMA StartBookkeeping ==
  ASSUME TypeOK, Bookkeeping, StartRun
  PROVE  Bookkeeping'
  <1>0. procQ \in Seq(Turns) /\ procQ # <<>>
    BY DEF TypeOK, ServiceTypeOK, StartRun
  <1>1. UNCHANGED <<minted, down, invMap, heardWrite, session>>
    BY DEF StartRun, uaVars
  <1>2. \A t : (Fresh(t)' <=> Fresh(t)) /\ (Written(t)' <=> Written(t))
               /\ (Logged(t)' <=> Logged(t))
    BY <1>1 DEF Fresh, Written, Logged, HeardAt, UserAt
  <1>3. 1 \in DOMAIN procQ /\ run'.turn = procQ[1] /\ run'.phase = "called"
    BY <1>0 DEF StartRun
  <1>4. \A i \in DOMAIN procQ' : /\ i + 1 \in DOMAIN procQ /\ i \in Nat \ {0}
                                 /\ procQ'[i] = procQ[i + 1]
    BY <1>0 DEF StartRun
  <1>5. \A t : InProcQ(t)' => InProcQ(t)
    BY <1>4 DEF InProcQ
  <1>6. QueuedAreFresh'
    BY <1>1, <1>2, <1>3, <1>4, <1>5
    DEF Bookkeeping, QueuedAreFresh, QueuedOnce, ContextAt, InProcQ
  <1>7. QueuedOnce'
    BY <1>1, <1>4 DEF Bookkeeping, QueuedOnce, ContextAt
  <1>8. KnownAreMinted'
    BY <1>1, <1>3, <1>4 DEF Bookkeeping, KnownAreMinted, ContextAt
  <1>9. HeardLeftTheMap' /\ AskedAreLogged'
    BY <1>1, <1>2, <1>3
    DEF Bookkeeping, HeardLeftTheMap, AskedAreLogged, HeardAt
  <1> QED
    BY <1>6, <1>7, <1>8, <1>9 DEF Bookkeeping

LEMMA PersistBookkeeping ==
  ASSUME TypeOK, Bookkeeping, PersistAndRun
  PROVE  Bookkeeping'
  <1>1. UNCHANGED <<down, procQ, invMap, heardWrite, session>>
    BY DEF PersistAndRun, uaVars
  <1>2. \A t : (Fresh(t)' <=> Fresh(t)) /\ (Written(t)' <=> Written(t))
               /\ (Logged(t)' <=> Logged(t)) /\ (InProcQ(t)' <=> InProcQ(t))
    BY <1>1 DEF Fresh, Written, Logged, HeardAt, UserAt, InProcQ
  <1>3. /\ minted' = minted + 1
        /\ run'.turn = minted + 1 /\ run'.phase = "called"
    BY DEF PersistAndRun
  <1>4. QueuedAreFresh' /\ QueuedOnce'
    BY <1>1, <1>2, <1>3, NextIsFresh
    DEF Bookkeeping, QueuedAreFresh, QueuedOnce, ContextAt, InProcQ
  <1>5. KnownAreMinted'
    BY <1>1, <1>3, TurnsAreNumbers DEF Bookkeeping, KnownAreMinted, ContextAt
  <1>6. HeardLeftTheMap' /\ AskedAreLogged'
    BY <1>1, <1>2, <1>3
    DEF Bookkeeping, HeardLeftTheMap, AskedAreLogged, HeardAt
  <1> QED
    BY <1>4, <1>5, <1>6 DEF Bookkeeping

\* A step that is about the turn of the run only: the turn may be logged, get a
\* model event, and have its invocation learned if it was fresh.
LEMMA RunStep ==
  ASSUME TypeOK, Bookkeeping, NEW t0, t0 = run.turn, t0 # 0,
         UNCHANGED <<minted, down, procQ, heardWrite>>,
         run' = Idle \/ (run'.turn = t0 /\ run'.phase # "called"),
         run'.phase = "asked" => invMap' = invMap /\ run.phase = "called",
         run'.phase \in {"asked", "streaming", "persisted"} => Logged(t0)',
         invMap' = invMap \/ (invMap' = invMap \cup {t0} /\ Fresh(t0) /\ Logged(t0)),
         \/ session' = session
         \/ \E e \in JournalEvent : /\ session' = Append(session, e)
                                    /\ e.turn = t0 /\ e.kind # "heard"
  PROVE  Bookkeeping'
  <1>1. session \in Seq(JournalEvent)
    BY DEF TypeOK, ServiceTypeOK
  <1>2. \A i \in DOMAIN session' :
          \/ i \in DOMAIN session /\ session'[i] = session[i]
          \/ session'[i].turn = t0 /\ session'[i].kind # "heard"
    BY <1>1
  <1>3. \A t : (Written(t)' <=> Written(t)) /\ (Logged(t) => Logged(t)')
               /\ (InProcQ(t)' <=> InProcQ(t))
    BY <1>1, JournalAppend DEF Written, Logged, HeardAt, UserAt, InProcQ
  <1>4. \A t : t # t0 => (Fresh(t) => Fresh(t)')
    BY <1>3 DEF Fresh
  <1>5. run'.phase \in {"called", "asked"} => Fresh(t0)'
    BY <1>3 DEF Idle, Bookkeeping, QueuedAreFresh, Fresh
  <1>6. run' = Idle => run'.turn = 0
    BY DEF Idle, NoTurn
  <1>7. QueuedAreFresh' /\ QueuedOnce'
    BY <1>3, <1>4, <1>5, <1>6, QueuedAreTurns
    DEF Bookkeeping, QueuedAreFresh, QueuedOnce, ContextAt, Idle
  <1>8. KnownAreMinted'
    BY <1>2, <1>6, TurnsAreNumbers DEF Bookkeeping, KnownAreMinted, ContextAt
  <1>9. HeardLeftTheMap'
    <2>0. heardWrite = NoWrite => \A t \in invMap : heardWrite.turn # t
      BY DEF NoWrite, NoTurn, TypeOK, ServiceTypeOK, Turns
    <2>1. \A t \in invMap' : heardWrite.turn # t /\ ~Written(t)
      BY <2>0 DEF Bookkeeping, HeardLeftTheMap, Fresh
    <2>2. \A i, j \in DOMAIN session' :
            session'[i].kind = "heard" /\ HeardAt(j, session[i].turn)' => i = j
      BY <1>2 DEF Bookkeeping, HeardLeftTheMap, HeardAt
    <2> QED
      BY <1>3, <2>1, <2>2 DEF Bookkeeping, HeardLeftTheMap
  <1>10. AskedAreLogged'
    BY <1>3 DEF Bookkeeping, AskedAreLogged, Idle
  <1> QED
    BY <1>7, <1>8, <1>9, <1>10 DEF Bookkeeping

LEMMA RunnerBookkeeping ==
  ASSUME TypeOK, Bookkeeping, Runner
  PROVE  Bookkeeping'
  <1>0. run # Idle /\ run \in Run
    BY DEF Runner, RunnerAsks, PartialEvent, FinalEvent, EndRun, Idle, TypeOK,
           ServiceTypeOK
  <1>1. PICK t0 \in Turns : t0 = run.turn /\ t0 # 0
    BY <1>0 DEF Run, Turns
  <1>s. run.said \in 0 .. MaxSentences
    BY <1>0 DEF Run
  <1>2. session \in Seq(JournalEvent)
    BY DEF TypeOK, ServiceTypeOK
  <1>3. CASE RunnerAsks
    <2>1. /\ run.phase = "called" /\ run'.turn = t0 /\ run'.phase = "asked"
          /\ invMap' = invMap /\ UNCHANGED <<minted, down, procQ, heardWrite>>
      BY <1>0, <1>1, <1>3 DEF RunnerAsks, Run, uaVars
    <2> DEFINE e == [kind |-> "user", turn |-> t0, text |-> <<>>]
    <2>2. /\ e \in JournalEvent /\ e.turn = t0 /\ e.kind = "user"
          /\ session' = Append(session, e)
      BY <1>1, <1>3 DEF RunnerAsks, JournalEvent
    <2> HIDE DEF e
    <2>3. Logged(t0)'
      BY <1>2, <2>2, JournalAppend
    <2> QED
      BY <1>1, <2>1, <2>2, <2>3, RunStep
  <1>4. CASE PartialEvent
    <2>1. /\ run.phase \in {"asked", "streaming"} /\ run'.turn = t0
          /\ run'.phase = "streaming" /\ session' = session
          /\ UNCHANGED <<minted, down, procQ, heardWrite>>
      BY <1>0, <1>1, <1>4 DEF PartialEvent, Run
    <2>2. Logged(t0) /\ (~Started(run) => Fresh(t0))
      BY <1>1, <2>1 DEF Bookkeeping, AskedAreLogged, QueuedAreFresh, Started
    <2>3. Logged(t0)'
      BY <2>1, <2>2 DEF Logged, UserAt
    <2>4. invMap' = invMap \/ (invMap' = invMap \cup {t0} /\ Fresh(t0))
      BY <1>1, <1>4, <2>2 DEF PartialEvent, Learned
    <2> QED
      BY <1>1, <2>1, <2>2, <2>3, <2>4, RunStep
  <1>5. CASE FinalEvent
    <2>1. /\ run.phase \in {"asked", "streaming"} /\ run'.turn = t0
          /\ run'.phase = "persisted"
          /\ UNCHANGED <<minted, down, procQ, heardWrite>>
      BY <1>0, <1>1, <1>5 DEF FinalEvent, Run
    <2> DEFINE e == [kind |-> "model", turn |-> t0,
                     text |-> Response(t0, run.said)]
    <2>2. /\ e \in JournalEvent /\ e.turn = t0 /\ e.kind = "model"
          /\ session' = Append(session, e)
      BY <1>1, <1>s, <1>5, ResponseType DEF FinalEvent, JournalEvent
    <2> HIDE DEF e
    <2>3. Logged(t0) /\ (~Started(run) => Fresh(t0))
      BY <1>1, <2>1 DEF Bookkeeping, AskedAreLogged, QueuedAreFresh, Started
    <2>4. Logged(t0)'
      BY <1>2, <2>2, <2>3, JournalAppend
    <2>5. invMap' = invMap \/ (invMap' = invMap \cup {t0} /\ Fresh(t0))
      BY <1>1, <1>5, <2>3 DEF FinalEvent, Learned
    <2> QED
      BY <1>1, <2>1, <2>2, <2>3, <2>4, <2>5, RunStep
  <1>6. CASE EndRun
    <2>1. /\ run' = Idle /\ invMap' = invMap /\ session' = session
          /\ UNCHANGED <<minted, down, procQ, heardWrite>>
      BY <1>6 DEF EndRun
    <2> QED
      BY <1>1, <2>1, RunStep DEF Idle
  <1> QED
    BY <1>3, <1>4, <1>5, <1>6 DEF Runner

\* Bookkeeping with TypeOK is inductive.
LEMMA BookkeepingInductive ==
  ASSUME TypeOK, Bookkeeping, [Next]_vars
  PROVE  Bookkeeping'
  <1>1. CASE InputTask
    BY <1>1, RouteBookkeeping, CancelBookkeeping, HandleBookkeeping,
       WriteBookkeeping DEF InputTask
  <1>2. CASE ProcessTask
    BY <1>2, StartBookkeeping, RunnerBookkeeping DEF ProcessTask
  <1>3. CASE TTS \/ Output \/ Assistant
    <2>1. UNCHANGED upstream
      BY <1>3 DEF TTS, TTSStart, TTSText, TTSEnd, TTSInterrupted, Output,
                  PlaySentence, OutputStopped, OutputInterrupted, Assistant,
                  AggregateText, TurnStopped, AAInterrupted, AAPlainInterrupted
    <2> QED
      BY <2>1, ElsewhereBookkeeping DEF upstream, llmVars
  <1>4. CASE UserTurnStarted \/ PushAggregation
    BY <1>4, UserBookkeeping
  <1>5. CASE PersistAndRun \/ Shutdown
    BY <1>5, PersistBookkeeping, CancelBookkeeping
  <1>6. CASE PushNothing \/ UNCHANGED vars
    BY <1>6, ElsewhereBookkeeping
    DEF PushNothing, vars, upstream, llmVars
  <1> QED
    BY <1>1, <1>2, <1>3, <1>4, <1>5, <1>6 DEF Next, System, User, Quiescent

\* The bookkeeping of the service is sound: every turn waits for its run once and
\* before it is in the map, and a reported turn has left the map for good.
THEOREM BookkeepingHolds == Spec => []Bookkeeping
  <1>1. Init => Bookkeeping
    BY InitBookkeeping
  <1>2. TypeOK /\ Bookkeeping /\ [Next]_vars => Bookkeeping'
    BY BookkeepingInductive
  <1> QED
    BY <1>1, <1>2, TypeCorrect, PTL DEF Spec

\* However often the interruption of a turn is broadcast, and whichever frames
\* report that turn, process_frame and _write_heard_event put at most one [HEARD]
\* event for it in the session, and begin none for a turn that has one.
THEOREM HeardOnce == Spec => []HeardOncePerInvocation
  <1>1. Bookkeeping => HeardOncePerInvocation
    BY DEF Bookkeeping, HeardLeftTheMap, HeardOncePerInvocation, Written
  <1> QED
    BY <1>1, BookkeepingHolds, PTL

\* _turn_invocation_map never holds a turn whose message the runner has not
\* logged, nor one whose [HEARD] event is written or being written: a later
\* VqlTurnCompletedFrame that finds its turn there may write the event.
THEOREM MapIsOpen == Spec => []MapHoldsOpenTurns
  <1>1. TypeOK /\ Bookkeeping => MapHoldsOpenTurns
    BY DEF TypeOK, ServiceTypeOK, Turns, NoWrite, NoTurn, Bookkeeping,
           HeardLeftTheMap, AskedAreLogged, MapHoldsOpenTurns, Written, Logged
  <1> QED
    BY <1>1, BookkeepingHolds, TypeCorrect, PTL

-----------------------------------------------------------------------------
(* After stop() or cancel()                                                 *)

LEMMA DownstreamSteps ==
  ASSUME TTS \/ Output \/ Assistant
  PROVE  UNCHANGED upstream
  BY DEF TTS, TTSStart, TTSText, TTSEnd, TTSInterrupted, Output, PlaySentence,
         OutputStopped, OutputInterrupted, Assistant, AggregateText, TurnStopped,
         AAInterrupted, AAPlainInterrupted

StoppedForGood == ~alive => invMap = {} /\ run = Idle

LEMMA StoppedInductive ==
  ASSUME StoppedForGood, [Next]_vars
  PROVE  /\ StoppedForGood'
         /\ ~alive => /\ ~alive' /\ invMap' = {} /\ run' = Idle
                     /\ heardWrite' \in {heardWrite, NoWrite}
  <1>1. CASE UNCHANGED upstream
    BY <1>1 DEF StoppedForGood, upstream, llmVars
  <1>2. CASE InputTask
    <2>1. CASE LLMInterrupted
      BY <2>1 DEF LLMInterrupted, StoppedForGood
    <2>2. CASE InputTask /\ ~LLMInterrupted
      BY <2>2 DEF InputTask, RouteContext, HandleTurnCompleted, WritesHeard,
           Popped, AppendHeard, LoseHeard, StoppedForGood
    <2> QED
      BY <1>2, <2>1, <2>2
  <1>3. CASE ProcessTask
    BY <1>3 DEF ProcessTask, ProcessTaskFree, StartRun, Runner, RunnerAsks,
         PartialEvent, FinalEvent, EndRun, Idle, StoppedForGood
  <1>4. CASE User
    BY <1>4 DEF User, UserTurnStarted, PushAggregation, PushNothing, PersistAndRun,
         ProcessTaskFree, Shutdown, Cleared, llmVars, StoppedForGood
  <1>5. CASE TTS \/ Output \/ Assistant
    BY <1>1, <1>5, DownstreamSteps
  <1> QED
    BY <1>1, <1>2, <1>3, <1>4, <1>5 DEF Next, System, Quiescent, vars

\* Once stop() or cancel() has cleared the map no step of the pipeline starts a
\* run, learns an invocation or begins to write a [HEARD] event.
THEOREM StopIsFinal == Spec => NothingAfterShutdown
  <1>1. Init => StoppedForGood
    BY DEF Init, StoppedForGood
  <1>2. StoppedForGood /\ [Next]_vars => StoppedForGood'
    BY StoppedInductive
  <1>3. StoppedForGood /\ [Next]_vars =>
          [~alive => /\ invMap' = {} /\ run' = Idle
                     /\ heardWrite' \in {heardWrite, NoWrite}]_vars
    BY StoppedInductive
  <1> QED
    BY <1>1, <1>2, <1>3, PTL DEF Spec, NothingAfterShutdown

-----------------------------------------------------------------------------
(* Turns are asked in the order they were spoken                            *)

\* u comes before everything that waits for the process task.
BeforeQueued(u) ==
  /\ \A k \in DOMAIN procQ : u < procQ[k]
  /\ \A k \in DOMAIN down : ContextAt(k) => u < down[k].turn

\* Turns wait in the order in which their ids were minted; no frame names a turn
\* that a context behind it asks for.
QueuesInOrder ==
  /\ \A k, l \in DOMAIN procQ : k < l => procQ[k] < procQ[l]
  /\ \A k \in DOMAIN procQ : \A l \in DOMAIN down :
       ContextAt(l) => procQ[k] < down[l].turn
  /\ \A k, l \in DOMAIN down :
       ContextAt(l) /\ k < l => down[k].turn < down[l].turn

\* A turn is the user's or injected, and prevTurn is the user's last one.
MintedApart ==
  /\ prevTurn <= minted
  /\ \A t \in injected : t <= minted
  /\ \A t \in 1 .. minted : t <= prevTurn \/ t \in injected
  /\ \A k \in DOMAIN procQ : procQ[k] \notin injected
  /\ \A k \in DOMAIN down :
       down[k].turn <= minted /\ (ContextAt(k) => down[k].turn \notin injected)

\* The turn of the run is one the user spoke, and is not logged yet.
SpokenRun == run.phase = "called" /\ run.turn \notin injected

LoggedInOrder ==
  /\ SpokenRun => BeforeQueued(run.turn)
  /\ \A i \in DOMAIN session : SpokenMessage(i) =>
       /\ BeforeQueued(session[i].turn)
       /\ SpokenRun => session[i].turn < run.turn

QueueInv == MintedApart /\ QueuesInOrder /\ LoggedInOrder

\* A step that only takes from the queues, calls no run and logs no message.
LEMMA QueuesShrink ==
  ASSUME TypeOK, QueueInv, UNCHANGED <<minted, prevTurn, injected>>,
         procQ' \in {procQ, <<>>}, down' = down \/ \E i \in DOMAIN down : TakenAt(i),
         run'.phase = "called" => run' = run,
         \/ session' = session
         \/ \E e \in JournalEvent : session' = Append(session, e) /\ e.kind # "user"
  PROVE  QueueInv'
  <1>1. /\ down \in Seq(DownFrame) /\ session \in Seq(JournalEvent)
    BY DEF TypeOK, UserTypeOK, ServiceTypeOK
  <1>2. \A k \in DOMAIN procQ' : k \in DOMAIN procQ /\ procQ'[k] = procQ[k]
    OBVIOUS
  <1>3. /\ \A k \in DOMAIN down' :
             \E m \in DOMAIN down : down'[k] = down[m]
        /\ \A k, l \in DOMAIN down' : k < l =>
             \E m, n \in DOMAIN down :
               m < n /\ down'[k] = down[m] /\ down'[l] = down[n]
    <2>1. CASE down' = down
      BY <2>1
    <2>2. ASSUME NEW i \in DOMAIN down, TakenAt(i)
          PROVE  /\ \A k \in DOMAIN down' :
                      \E m \in DOMAIN down : down'[k] = down[m]
                 /\ \A k, l \in DOMAIN down' : k < l =>
                      \E m, n \in DOMAIN down :
                        m < n /\ down'[k] = down[m] /\ down'[l] = down[n]
      <3>1. DOMAIN down = 1 .. Len(down) /\ Len(down) \in Nat
        BY <1>1
      <3> QED
        BY <2>2, <3>1 DEF TakenAt
    <2> QED
      BY <2>1, <2>2
  <1>4. \A i \in DOMAIN session' : SpokenMessage(i)' =>
          /\ i \in DOMAIN session /\ session'[i] = session[i]
          /\ SpokenMessage(i)
    <2>1. CASE session' = session
      BY <2>1 DEF SpokenMessage
    <2>2. ASSUME NEW e \in JournalEvent, session' = Append(session, e),
                 e.kind # "user"
          PROVE  \A i \in DOMAIN session' : session'[i].kind = "user" =>
                   i \in DOMAIN session /\ session'[i] = session[i]
      BY <1>1, <2>2
    <2> QED
      BY <2>1, <2>2 DEF SpokenMessage
  <1>5. MintedApart'
    BY <1>2, <1>3 DEF QueueInv, MintedApart, ContextAt
  <1>6. QueuesInOrder'
    BY <1>2, <1>3 DEF QueueInv, QueuesInOrder, ContextAt
  <1>7. SpokenRun' => SpokenRun /\ run' = run
    BY DEF SpokenRun
  <1>8. \A u : BeforeQueued(u) => BeforeQueued(u)'
    BY <1>2, <1>3 DEF BeforeQueued, ContextAt
  <1>9. LoggedInOrder'
    BY <1>4, <1>7, <1>8 DEF QueueInv, LoggedInOrder
  <1> QED
    BY <1>5, <1>6, <1>9 DEF QueueInv

LEMMA UserQueues ==
  ASSUME TypeOK, Bookkeeping, QueueInv, UserTurnStarted \/ PushAggregation
  PROVE  QueueInv'
  <1>0. /\ down \in Seq(DownFrame) /\ minted \in Nat /\ prevTurn \in Nat
    BY DEF TypeOK, UserTypeOK, Turns, NoTurn
  <1>1. UNCHANGED <<procQ, run, injected, session>>
    BY DEF UserTurnStarted, PushAggregation, llmVars
  <1>2. PICK f :
          /\ down' = Append(down, f) /\ minted <= minted' /\ minted' \in Nat
          /\ f.turn \in Nat /\ f.turn <= minted' /\ prevTurn' <= minted'
          /\ f.type = "VqlContext" => f.turn = minted + 1
          /\ \/ minted' = minted /\ prevTurn' = prevTurn
             \/ minted' = minted + 1 /\ prevTurn' = minted + 1
    BY <1>0 DEF UserTurnStarted, PushAggregation, Interruption, Context, Recorded,
                QueueInv, MintedApart
  <1>3. \A k \in DOMAIN down' :
          \/ k \in DOMAIN down /\ down'[k] = down[k]
          \/ k = Len(down) + 1 /\ down'[k] = f
    BY <1>0, <1>2
  <1>4. DOMAIN down = 1 .. Len(down) /\ Len(down) \in Nat
    BY <1>0
  <1>5. MintedApart'
    <2>1. /\ prevTurn' <= minted' /\ \A t \in injected' : t <= minted'
      BY <1>0, <1>1, <1>2 DEF QueueInv, MintedApart, TypeOK, ServiceTypeOK, Turns
    <2>2. \A t \in 1 .. minted' : t <= prevTurn' \/ t \in injected'
      BY <1>0, <1>1, <1>2 DEF QueueInv, MintedApart
    <2>3. \A k \in DOMAIN down' :
            down'[k].turn <= minted' /\ (ContextAt(k)' => down'[k].turn \notin injected)
      BY <1>0, <1>2, <1>3, DownTurns DEF QueueInv, MintedApart, ContextAt
    <2> QED
      BY <1>1, <2>1, <2>2, <2>3 DEF QueueInv, MintedApart
  <1>6. \A u \in Nat : u <= minted /\ BeforeQueued(u) => BeforeQueued(u)'
    BY <1>0, <1>1, <1>2, <1>3 DEF BeforeQueued, ContextAt
  <1>7. QueuesInOrder'
    <2>1. \A k \in DOMAIN procQ : \A l \in DOMAIN down' :
            ContextAt(l)' => procQ[k] < down'[l].turn
      BY <1>0, <1>2, <1>3, TurnsAreNumbers
      DEF QueueInv, QueuesInOrder, ContextAt, Bookkeeping, KnownAreMinted
    <2>2. \A k, l \in DOMAIN down' :
            ContextAt(l)' /\ k < l => down'[k].turn < down'[l].turn
      BY <1>0, <1>2, <1>3, <1>4, DownTurns
      DEF QueueInv, QueuesInOrder, MintedApart, ContextAt
    <2> QED
      BY <1>1, <2>1, <2>2 DEF QueueInv, QueuesInOrder
  <1>8. LoggedInOrder'
    BY <1>1, <1>6, TurnsAreNumbers
    DEF QueueInv, LoggedInOrder, SpokenRun, SpokenMessage, Bookkeeping,
        KnownAreMinted
  <1> QED
    BY <1>5, <1>7, <1>8 DEF QueueInv

LEMMA RouteQueues ==
  ASSUME TypeOK, QueueInv, RouteContext
  PROVE  QueueInv'
  <1>0. down \in Seq(DownFrame) /\ procQ \in Seq(Turns) /\ down # <<>>
    BY DEF TypeOK, UserTypeOK, ServiceTypeOK, RouteContext
  <1>1. UNCHANGED <<minted, prevTurn, injected, run, session>>
    BY DEF RouteContext, uaVars
  <1>2. /\ 1 \in DOMAIN down /\ ContextAt(1)
        /\ \A k \in DOMAIN down' : /\ k + 1 \in DOMAIN down /\ k \in Nat \ {0}
                                   /\ down'[k] = down[k + 1]
    BY <1>0 DEF RouteContext, ContextAt
  <1>3. \A k \in DOMAIN procQ' :
          \/ k \in DOMAIN procQ /\ procQ'[k] = procQ[k]
          \/ k = Len(procQ) + 1 /\ procQ'[k] = down[1].turn
    BY <1>0 DEF RouteContext
  <1>4. DOMAIN procQ = 1 .. Len(procQ) /\ Len(procQ) \in Nat
    BY <1>0
  <1>5. MintedApart'
    BY <1>1, <1>2, <1>3 DEF QueueInv, MintedApart, ContextAt
  <1>6. QueuesInOrder'
    <2>1. \A k, l \in DOMAIN procQ' : k < l => procQ'[k] < procQ'[l]
      BY <1>2, <1>3, <1>4 DEF QueueInv, QueuesInOrder
    <2>2. \A k \in DOMAIN procQ' : \A l \in DOMAIN down' :
            ContextAt(l)' => procQ'[k] < down'[l].turn
      BY <1>2, <1>3 DEF QueueInv, QueuesInOrder, ContextAt
    <2>3. \A k, l \in DOMAIN down' :
            ContextAt(l)' /\ k < l => down'[k].turn < down'[l].turn
      BY <1>2 DEF QueueInv, QueuesInOrder, ContextAt
    <2> QED
      BY <2>1, <2>2, <2>3 DEF QueuesInOrder
  <1>7. \A u : BeforeQueued(u) => BeforeQueued(u)'
    BY <1>2, <1>3 DEF BeforeQueued, ContextAt
  <1>8. LoggedInOrder'
    BY <1>1, <1>7 DEF QueueInv, LoggedInOrder, SpokenRun, SpokenMessage
  <1> QED
    BY <1>5, <1>6, <1>8 DEF QueueInv

LEMMA StartQueues ==
  ASSUME TypeOK, QueueInv, StartRun
  PROVE  QueueInv'
  <1>0. procQ \in Seq(Turns) /\ procQ # <<>>
    BY DEF TypeOK, ServiceTypeOK, StartRun
  <1>1. UNCHANGED <<minted, prevTurn, injected, down, session>>
    BY DEF StartRun, uaVars
  <1>2. PICK t \in Turns :
          /\ 1 \in DOMAIN procQ /\ t = procQ[1] /\ run'.turn = t
          /\ \A k \in DOMAIN procQ' : /\ k + 1 \in DOMAIN procQ /\ k \in Nat \ {0}
                                      /\ procQ'[k] = procQ[k + 1]
    BY <1>0 DEF StartRun
  <1>3. MintedApart' /\ QueuesInOrder'
    BY <1>1, <1>2 DEF QueueInv, MintedApart, QueuesInOrder, ContextAt
  <1>4. \A u : BeforeQueued(u) => BeforeQueued(u)' /\ u < t
    BY <1>1, <1>2 DEF BeforeQueued, ContextAt
  <1>5. BeforeQueued(t)'
    BY <1>1, <1>2 DEF QueueInv, QueuesInOrder, BeforeQueued, ContextAt
  <1>6. LoggedInOrder'
    BY <1>1, <1>2, <1>4, <1>5 DEF QueueInv, LoggedInOrder, SpokenMessage
  <1> QED
    BY <1>3, <1>6 DEF QueueInv

LEMMA PersistQueues ==
  ASSUME TypeOK, Bookkeeping, QueueInv, PersistAndRun
  PROVE  QueueInv'
  <1>0. minted \in Nat /\ prevTurn \in Nat
    BY DEF TypeOK, UserTypeOK, Turns, NoTurn
  <1>1. /\ UNCHANGED <<prevTurn, down, procQ, session>>
        /\ minted' = minted + 1 /\ injected' = injected \cup {minted + 1}
        /\ run'.turn = minted + 1
    BY DEF PersistAndRun, uaVars
  <1>2. MintedApart'
    <2>1. /\ prevTurn' <= minted' /\ \A t \in injected' : t <= minted'
      BY <1>0, <1>1 DEF QueueInv, MintedApart, TypeOK, ServiceTypeOK, Turns
    <2>2. \A t \in 1 .. minted' : t <= prevTurn' \/ t \in injected'
      BY <1>0, <1>1 DEF QueueInv, MintedApart
    <2>3. \A k \in DOMAIN procQ : procQ[k] \notin injected'
      BY <1>0, <1>1, TurnsAreNumbers
      DEF QueueInv, MintedApart, Bookkeeping, KnownAreMinted
    <2>4. \A k \in DOMAIN down :
            down[k].turn <= minted' /\ (ContextAt(k) => down[k].turn \notin injected')
      BY <1>0, <1>1, DownTurns DEF QueueInv, MintedApart
    <2> QED
      BY <1>1, <2>1, <2>2, <2>3, <2>4 DEF MintedApart, ContextAt
  <1>3. QueuesInOrder' /\ ~SpokenRun'
    BY <1>1 DEF QueueInv, QueuesInOrder, ContextAt, SpokenRun
  <1>4. LoggedInOrder'
    BY <1>1, <1>3 DEF QueueInv, LoggedInOrder, SpokenMessage, BeforeQueued,
                      ContextAt
  <1> QED
    BY <1>2, <1>3, <1>4 DEF QueueInv

LEMMA AskQueues ==
  ASSUME TypeOK, QueueInv, RunnerAsks
  PROVE  QueueInv'
  <1>0. session \in Seq(JournalEvent) /\ run \in Run
    BY DEF RunnerAsks, Idle, TypeOK, ServiceTypeOK
  <1>1. /\ UNCHANGED <<minted, prevTurn, injected, down, procQ>>
        /\ run.phase = "called" /\ run'.phase = "asked"
    BY <1>0 DEF RunnerAsks, uaVars, Run
  <1> DEFINE e == [kind |-> "user", turn |-> run.turn, text |-> <<>>]
  <1>2. e \in JournalEvent /\ session' = Append(session, e) /\ e.turn = run.turn
    BY <1>0 DEF RunnerAsks, Run, JournalEvent
  <1> HIDE DEF e
  <1>3. \A i \in DOMAIN session' :
          \/ i \in DOMAIN session /\ session'[i] = session[i]
          \/ session'[i].turn = run.turn
    BY <1>0, <1>2
  <1>4. MintedApart' /\ QueuesInOrder' /\ ~SpokenRun'
    BY <1>1 DEF QueueInv, MintedApart, QueuesInOrder, ContextAt, SpokenRun
  <1>5. LoggedInOrder'
    BY <1>1, <1>3, <1>4 DEF QueueInv, LoggedInOrder, SpokenRun, SpokenMessage,
                            BeforeQueued, ContextAt
  <1> QED
    BY <1>4, <1>5 DEF QueueInv

LEMMA QueuesInductive ==
  ASSUME TypeOK, Bookkeeping, QueueInv, [Next]_vars
  PROVE  QueueInv'
  <1>0. down \in Seq(DownFrame) /\ Tail(<<>>) \in {<<>>, Tail(<<>>)}
    BY DEF TypeOK, UserTypeOK
  <1>1. CASE UNCHANGED upstream
    BY <1>1, QueuesShrink DEF upstream, uaVars, llmVars
  <1>2. CASE LLMInterrupted \/ HandleTurnCompleted \/ AppendHeard \/ LoseHeard
    <2>1. CASE LLMInterrupted
      <3>1. \E i \in DOMAIN down : TakenAt(i)
        BY <2>1, InterruptionTaken DEF TypeOK
      <3> QED
        BY <2>1, <3>1, QueuesShrink DEF LLMInterrupted, uaVars, Idle
    <2>2. CASE HandleTurnCompleted \/ LoseHeard
      BY <2>2, QueuesShrink DEF HandleTurnCompleted, LoseHeard, uaVars
    <2>3. CASE AppendHeard
      <3> DEFINE e == [kind |-> "heard", turn |-> heardWrite.turn,
                       text |-> heardWrite.text]
      <3>1. /\ e \in JournalEvent /\ e.kind # "user"
            /\ session' = Append(session, e)
        BY <2>3 DEF AppendHeard, TypeOK, ServiceTypeOK, JournalEvent, HeardWrite
      <3> HIDE DEF e
      <3> QED
        BY <2>3, <3>1, QueuesShrink DEF AppendHeard, uaVars
    <2> QED
      BY <1>2, <2>1, <2>2, <2>3
  <1>3. CASE PartialEvent \/ FinalEvent \/ EndRun \/ Shutdown
    <2>1. CASE PartialEvent \/ EndRun \/ Shutdown
      <3>1. run'.phase # "called"
        <4>1. CASE PartialEvent
          <5>1. run \in Run
            BY <4>1 DEF PartialEvent, Idle, TypeOK, ServiceTypeOK
          <5> QED
            BY <4>1, <5>1 DEF PartialEvent, Run
        <4>2. CASE EndRun \/ Shutdown
          BY <4>2 DEF EndRun, Shutdown, Idle
        <4> QED
          BY <2>1, <4>1, <4>2
      <3> QED
        BY <2>1, <3>1, QueuesShrink DEF PartialEvent, EndRun, Shutdown, uaVars
    <2>2. CASE FinalEvent
      <3>0. run \in Run
        BY <2>2 DEF FinalEvent, Idle, TypeOK, ServiceTypeOK
      <3> DEFINE e == [kind |-> "model", turn |-> run.turn,
                       text |-> Response(run.turn, run.said)]
      <3>1. /\ e \in JournalEvent /\ e.kind # "user"
            /\ session' = Append(session, e) /\ run'.phase # "called"
        BY <2>2, <3>0, ResponseType DEF FinalEvent, JournalEvent, Run
      <3> HIDE DEF e
      <3> QED
        BY <2>2, <3>1, QueuesShrink DEF FinalEvent, uaVars
    <2> QED
      BY <1>3, <2>1, <2>2
  <1>4. CASE PushNothing
    BY <1>4, QueuesShrink DEF PushNothing, llmVars
  <1>5. CASE TTS \/ Output \/ Assistant \/ UNCHANGED vars
    BY <1>1, <1>5, DownstreamSteps DEF vars
  <1> QED
    BY <1>2, <1>3, <1>4, <1>5, UserQueues, RouteQueues, StartQueues, PersistQueues,
       AskQueues
    DEF Next, System, InputTask, ProcessTask, Runner, User, Quiescent

-----------------------------------------------------------------------------
(* A message is logged once, and its response right behind it               *)

LoggedOnce ==
  /\ \A i, j \in DOMAIN session :
       session[i].kind = "user" /\ UserAt(j, session[i].turn) => i = j
  /\ run.phase = "called" => ~Logged(run.turn)
  /\ \A k \in DOMAIN procQ : ~Logged(procQ[k])
  /\ \A k \in DOMAIN down : ContextAt(k) => ~Logged(down[k].turn)
  /\ run.phase \in {"asked", "streaming"} =>
       \A i \in DOMAIN session : UserAt(i, run.turn) =>
         \A k \in i + 1 .. Len(session) : session[k].kind = "heard"
  /\ heardWrite # NoWrite => Logged(heardWrite.turn)

JournalInv == QueueInv /\ LoggedOnce /\ JournalOrder

LEMMA AppendKeepsOrder ==
  ASSUME session \in Seq(JournalEvent), NEW e \in JournalEvent, JournalOrder,
         session' = Append(session, e), injected' = injected,
         e.kind = "user" /\ e.turn \notin injected =>
           \A i \in DOMAIN session :
             SpokenMessage(i) => session[i].turn < e.turn,
         e.kind # "user" => Logged(e.turn),
         e.kind = "model" =>
           \A i \in DOMAIN session : UserAt(i, e.turn) =>
             \A k \in i + 1 .. Len(session) : session[k].kind = "heard"
  PROVE  JournalOrder'
  <1>1. /\ DOMAIN session = 1 .. Len(session) /\ Len(session) \in Nat
        /\ DOMAIN session' = 1 .. Len(session) + 1
        /\ \A i \in DOMAIN session : session'[i] = session[i]
        /\ session'[Len(session) + 1] = e
    OBVIOUS
  <1> SUFFICES ASSUME NEW i \in DOMAIN session', NEW j \in DOMAIN session'
               PROVE  /\ (SpokenMessage(i)' /\ SpokenMessage(j)' /\ i < j)
                           => session'[i].turn < session'[j].turn
                      /\ session'[i].kind \in {"model", "heard"}
                           => \E k \in 1 .. i - 1 : UserAt(k, session[i].turn)'
                      /\ (session'[i].kind = "user" /\ ModelAt(j, session[i].turn)')
                           => \A k \in i + 1 .. j - 1 : session'[k].kind = "heard"
    BY DEF JournalOrder, ModelAt, UserAt
  <1>2. (SpokenMessage(i)' /\ SpokenMessage(j)' /\ i < j)
           => session'[i].turn < session'[j].turn
    BY <1>1 DEF JournalOrder, SpokenMessage
  <1>3. session'[i].kind \in {"model", "heard"}
           => \E k \in 1 .. i - 1 : UserAt(k, session[i].turn)'
    <2>1. CASE i \in DOMAIN session
      BY <1>1, <2>1 DEF JournalOrder, UserAt
    <2>2. CASE i = Len(session) + 1
      BY <1>1, <2>2 DEF Logged, UserAt
    <2> QED
      BY <1>1, <2>1, <2>2
  <1>4. (session'[i].kind = "user" /\ ModelAt(j, session[i].turn)')
           => \A k \in i + 1 .. j - 1 : session'[k].kind = "heard"
    <2>1. CASE i = Len(session) + 1
      BY <1>1, <2>1
    <2>2. CASE i \in DOMAIN session /\ j \in DOMAIN session
      BY <1>1, <2>2 DEF JournalOrder, ModelAt
    <2>3. CASE i \in DOMAIN session /\ j = Len(session) + 1
      BY <1>1, <2>3 DEF ModelAt, UserAt
    <2> QED
      BY <1>1, <2>1, <2>2, <2>3
  <1> QED
    BY <1>2, <1>3, <1>4

\* A step that does not touch the journal.
LEMMA NothingLogged ==
  ASSUME TypeOK, LoggedOnce, JournalOrder, session' = session,
         injected \subseteq injected',
         \A k \in DOMAIN procQ' : ~Logged(procQ'[k]),
         \A k \in DOMAIN down' : ContextAt(k)' => ~Logged(down'[k].turn),
         run'.phase = "called" => ~Logged(run'.turn),
         run'.phase \in {"asked", "streaming"} =>
           run.phase \in {"asked", "streaming"} /\ run'.turn = run.turn,
         heardWrite' # NoWrite => Logged(heardWrite'.turn)
  PROVE  LoggedOnce' /\ JournalOrder'
  <1>1. \A t : Logged(t)' <=> Logged(t)
    BY DEF Logged, UserAt
  <1>2. \A i \in DOMAIN session : SpokenMessage(i)' => SpokenMessage(i)
    BY DEF SpokenMessage
  <1>3. LoggedOnce'
    BY <1>1 DEF LoggedOnce, UserAt
  <1>4. JournalOrder'
    BY <1>2 DEF JournalOrder, UserAt, ModelAt
  <1> QED
    BY <1>3, <1>4

LEMMA LogAppended ==
  ASSUME TypeOK, Bookkeeping, JournalInv, AppendHeard \/ RunnerAsks \/ FinalEvent
  PROVE  LoggedOnce' /\ JournalOrder'
  <1>0. session \in Seq(JournalEvent)
    BY DEF TypeOK, ServiceTypeOK
  <1>1. CASE AppendHeard
    <2>1. /\ UNCHANGED <<procQ, down, run, injected>> /\ heardWrite # NoWrite
          /\ heardWrite' = NoWrite
      BY <1>1 DEF AppendHeard, uaVars
    <2> DEFINE e == [kind |-> "heard", turn |-> heardWrite.turn,
                     text |-> heardWrite.text]
    <2>2. /\ e \in JournalEvent /\ e.kind = "heard" /\ e.turn = heardWrite.turn
          /\ session' = Append(session, e)
      BY <1>1 DEF AppendHeard, TypeOK, ServiceTypeOK, JournalEvent, HeardWrite
    <2> HIDE DEF e
    <2>3. Logged(e.turn)
      BY <2>1, <2>2 DEF JournalInv, LoggedOnce
    <2>4. JournalOrder'
      BY <1>0, <2>1, <2>2, <2>3, AppendKeepsOrder DEF JournalInv
    <2>5. \A t : Logged(t)' <=> Logged(t)
      BY <1>0, <2>2, JournalAppend
    <2>6. /\ \A i \in 1 .. Len(session) : session'[i] = session[i]
          /\ Len(session') = Len(session) + 1 /\ Len(session) \in Nat
          /\ DOMAIN session = 1 .. Len(session)
          /\ DOMAIN session' = 1 .. Len(session) + 1
          /\ session'[Len(session) + 1].kind = "heard"
      BY <1>0, <2>2
    <2>7. LoggedOnce'
      BY <2>1, <2>5, <2>6 DEF JournalInv, LoggedOnce, UserAt, ContextAt
    <2> QED
      BY <2>4, <2>7
  <1>2. CASE RunnerAsks
    <2>0. run \in Run
      BY <1>2 DEF RunnerAsks, Idle, TypeOK, ServiceTypeOK
    <2>1. PICK t \in Turns : t = run.turn
      BY <2>0 DEF Run
    <2>2. /\ UNCHANGED <<procQ, down, injected, heardWrite>>
          /\ run.phase = "called" /\ run'.phase = "asked" /\ run'.turn = t
      BY <1>2, <2>0, <2>1 DEF RunnerAsks, uaVars, Run
    <2> DEFINE e == [kind |-> "user", turn |-> t, text |-> <<>>]
    <2>3. /\ e \in JournalEvent /\ e.kind = "user" /\ e.turn = t
          /\ session' = Append(session, e)
      BY <1>2, <2>1 DEF RunnerAsks, JournalEvent
    <2> HIDE DEF e
    <2>4. ~Logged(t)
      BY <2>1, <2>2 DEF JournalInv, LoggedOnce
    <2>5. \A i \in DOMAIN session :
            SpokenMessage(i) /\ t \notin injected => session[i].turn < t
      BY <2>1, <2>2 DEF JournalInv, QueueInv, LoggedInOrder, SpokenRun
    <2>6. JournalOrder'
      BY <1>0, <2>2, <2>3, <2>5, AppendKeepsOrder DEF JournalInv
    <2>7. \A u : Logged(u)' <=> Logged(u) \/ u = t
      BY <1>0, <2>3, JournalAppend
    <2>8. /\ \A i \in 1 .. Len(session) : session'[i] = session[i]
          /\ Len(session') = Len(session) + 1 /\ Len(session) \in Nat
          /\ DOMAIN session = 1 .. Len(session)
          /\ DOMAIN session' = 1 .. Len(session) + 1
          /\ session'[Len(session) + 1] = e
      BY <1>0, <2>3
    <2>9. /\ \A k \in DOMAIN procQ : procQ[k] # t
          /\ \A k \in DOMAIN down : ContextAt(k) => down[k].turn # t
      BY <2>1 DEF Bookkeeping, QueuedAreFresh
    <2>10. \A i \in DOMAIN session' : UserAt(i, t)' => i = Len(session) + 1
      BY <2>4, <2>8 DEF Logged, UserAt
    <2>11. \A i, j \in DOMAIN session' :
             session'[i].kind = "user" /\ UserAt(j, session[i].turn)' => i = j
      BY <2>3, <2>4, <2>8 DEF JournalInv, LoggedOnce, UserAt, Logged
    <2>12. LoggedOnce'
      BY <2>2, <2>7, <2>8, <2>9, <2>10, <2>11
      DEF JournalInv, LoggedOnce, ContextAt
    <2> QED
      BY <2>6, <2>12
  <1>3. CASE FinalEvent
    <2>0. run \in Run
      BY <1>3 DEF FinalEvent, Idle, TypeOK, ServiceTypeOK
    <2>1. /\ UNCHANGED <<procQ, down, injected, heardWrite>>
          /\ run.phase \in {"asked", "streaming"} /\ run'.phase = "persisted"
      BY <1>3, <2>0 DEF FinalEvent, uaVars, Run
    <2> DEFINE e == [kind |-> "model", turn |-> run.turn,
                     text |-> Response(run.turn, run.said)]
    <2>2. /\ e \in JournalEvent /\ e.kind = "model" /\ e.turn = run.turn
          /\ session' = Append(session, e)
      BY <1>3, <2>0, ResponseType DEF FinalEvent, JournalEvent, Run
    <2> HIDE DEF e
    <2>3. /\ Logged(e.turn)
          /\ \A i \in DOMAIN session : UserAt(i, e.turn) =>
               \A k \in i + 1 .. Len(session) : session[k].kind = "heard"
      BY <2>1, <2>2 DEF JournalInv, LoggedOnce, Bookkeeping, AskedAreLogged
    <2>4. JournalOrder'
      BY <1>0, <2>1, <2>2, <2>3, AppendKeepsOrder DEF JournalInv
    <2>5. \A t : Logged(t)' <=> Logged(t)
      BY <1>0, <2>2, JournalAppend
    <2>6. /\ \A i \in 1 .. Len(session) : session'[i] = session[i]
          /\ Len(session) \in Nat
          /\ DOMAIN session = 1 .. Len(session)
          /\ DOMAIN session' = 1 .. Len(session) + 1
          /\ session'[Len(session) + 1].kind = "model"
      BY <1>0, <2>2
    <2>7. LoggedOnce'
      BY <2>1, <2>5, <2>6 DEF JournalInv, LoggedOnce, UserAt, ContextAt
    <2> QED
      BY <2>4, <2>7
  <1> QED
    BY <1>1, <1>2, <1>3

LEMMA NotLogged ==
  ASSUME TypeOK, Bookkeeping, JournalInv, session' = session,
         InputTask \/ ProcessTask \/ User
  PROVE  LoggedOnce' /\ JournalOrder'
  <1>0. /\ down \in Seq(DownFrame) /\ procQ \in Seq(Turns)
        /\ session \in Seq(JournalEvent) /\ LoggedOnce /\ JournalOrder
    BY DEF TypeOK, UserTypeOK, ServiceTypeOK, JournalInv
  <1>1. ~Logged(minted + 1)
    BY TurnsAreNumbers DEF Bookkeeping, KnownAreMinted, Logged, UserAt
  <1>2. CASE UserTurnStarted \/ PushAggregation \/ PushNothing
    <2>1. UNCHANGED <<procQ, run, injected, heardWrite>>
      BY <1>2 DEF UserTurnStarted, PushAggregation, PushNothing, llmVars
    <2>2. \A k \in DOMAIN down' :
            \/ k \in DOMAIN down /\ down'[k] = down[k]
            \/ down'[k].type = "VqlContext" => down'[k].turn = minted + 1
      <3>1. CASE UserTurnStarted
        BY <1>0, <3>1 DEF UserTurnStarted, Interruption
      <3>2. CASE PushAggregation
        BY <1>0, <3>2 DEF PushAggregation, Context
      <3>3. CASE PushNothing
        BY <3>3 DEF PushNothing
      <3> QED
        BY <1>2, <3>1, <3>2, <3>3
    <2> QED
      BY <1>0, <1>1, <2>1, <2>2, NothingLogged DEF LoggedOnce, ContextAt
  <1>3. CASE PersistAndRun
    <2>1. /\ UNCHANGED <<procQ, down, heardWrite>> /\ injected \subseteq injected'
          /\ run'.turn = minted + 1 /\ run'.phase = "called"
      BY <1>3 DEF PersistAndRun, uaVars
    <2> QED
      BY <1>0, <1>1, <2>1, NothingLogged DEF LoggedOnce, ContextAt
  <1>4. CASE Shutdown \/ EndRun
    <2>1. /\ UNCHANGED <<down, heardWrite, injected>> /\ procQ' \in {procQ, <<>>}
          /\ run'.phase = "idle"
      BY <1>4 DEF Shutdown, EndRun, uaVars, Idle
    <2> QED
      BY <1>0, <2>1, NothingLogged DEF LoggedOnce, ContextAt
  <1>5. CASE RouteContext
    <2>1. UNCHANGED <<run, heardWrite, injected>> /\ down # <<>>
      BY <1>5 DEF RouteContext
    <2>2. /\ 1 \in DOMAIN down /\ ContextAt(1)
          /\ \A k \in DOMAIN down' : k + 1 \in DOMAIN down /\ down'[k] = down[k + 1]
      BY <1>0, <1>5 DEF RouteContext, ContextAt
    <2>3. \A k \in DOMAIN procQ' :
            \/ k \in DOMAIN procQ /\ procQ'[k] = procQ[k]
            \/ procQ'[k] = down[1].turn
      BY <1>0, <1>5 DEF RouteContext
    <2> QED
      BY <1>0, <2>1, <2>2, <2>3, NothingLogged DEF LoggedOnce, ContextAt
  <1>6. CASE LLMInterrupted
    <2>1. /\ UNCHANGED <<heardWrite, injected>> /\ procQ' = <<>>
          /\ run'.phase = "idle"
      BY <1>6 DEF LLMInterrupted, Idle
    <2>2. \A k \in DOMAIN down' : \E l \in DOMAIN down : down'[k] = down[l]
      BY <1>6, InterruptionTaken DEF TypeOK, TakenAt
    <2> QED
      BY <1>0, <2>1, <2>2, NothingLogged DEF LoggedOnce, ContextAt
  <1>7. CASE HandleTurnCompleted \/ LoseHeard
    <2>1. /\ UNCHANGED <<procQ, down, run, injected>>
          /\ heardWrite' = NoWrite \/ heardWrite'.turn \in invMap
      BY <1>7 DEF HandleTurnCompleted, LoseHeard, WritesHeard, uaVars
    <2> QED
      BY <1>0, <2>1, NothingLogged
      DEF LoggedOnce, ContextAt, Bookkeeping, AskedAreLogged
  <1>8. CASE StartRun
    <2>1. /\ UNCHANGED <<down, heardWrite, injected>> /\ run'.phase = "called"
          /\ 1 \in DOMAIN procQ /\ run'.turn = procQ[1]
          /\ \A k \in DOMAIN procQ' : k + 1 \in DOMAIN procQ /\ procQ'[k] = procQ[k + 1]
      BY <1>0, <1>8 DEF StartRun, uaVars
    <2> QED
      BY <1>0, <2>1, NothingLogged DEF LoggedOnce, ContextAt
  <1>9. CASE PartialEvent
    <2>0. run \in Run
      BY <1>9 DEF PartialEvent, Idle, TypeOK, ServiceTypeOK
    <2>1. /\ UNCHANGED <<procQ, down, heardWrite, injected>>
          /\ run.phase \in {"asked", "streaming"}
          /\ run'.phase = "streaming" /\ run'.turn = run.turn
      BY <1>9, <2>0 DEF PartialEvent, uaVars, Run
    <2> QED
      BY <1>0, <2>1, NothingLogged DEF LoggedOnce, ContextAt
  <1>10. CASE AppendHeard \/ RunnerAsks \/ FinalEvent
    BY <1>10, LogAppended
  <1> QED
    BY <1>2, <1>3, <1>4, <1>5, <1>6, <1>7, <1>8, <1>9, <1>10
    DEF InputTask, ProcessTask, Runner, User

LEMMA JournalInductive ==
  ASSUME TypeOK, Bookkeeping, JournalInv, [Next]_vars
  PROVE  JournalInv'
  <1>1. QueueInv'
    BY QueuesInductive DEF JournalInv
  <1>2. CASE UNCHANGED upstream
    BY <1>1, <1>2 DEF upstream, uaVars, llmVars, JournalInv, LoggedOnce,
       JournalOrder, Logged, UserAt, ModelAt, SpokenMessage, ContextAt
  <1>3. CASE AppendHeard \/ RunnerAsks \/ FinalEvent
    BY <1>1, <1>3, LogAppended DEF JournalInv
  <1>4. CASE session' = session /\ (InputTask \/ ProcessTask \/ User)
    BY <1>1, <1>4, NotLogged DEF JournalInv
  <1>5. (InputTask \/ ProcessTask \/ User)
          => session' = session \/ AppendHeard \/ RunnerAsks \/ FinalEvent
    BY DEF InputTask, ProcessTask, User, RouteContext, LLMInterrupted,
         HandleTurnCompleted, LoseHeard, StartRun, Runner, PartialEvent, EndRun,
         UserTurnStarted, PushAggregation, PushNothing, PersistAndRun, Shutdown
  <1> QED
    BY <1>2, <1>3, <1>4, <1>5, DownstreamSteps DEF Next, System, Quiescent, vars

LEMMA JournalInvHolds == Spec => []JournalInv
  <1>1. Init => JournalInv
    BY DEF Init, JournalInv, QueueInv, MintedApart, QueuesInOrder, LoggedInOrder,
    LoggedOnce, JournalOrder, SpokenRun, Idle, NoWrite, NoTurn
  <1>2. TypeOK /\ Bookkeeping /\ JournalInv /\ [Next]_vars => JournalInv'
    BY JournalInductive
  <1> QED
    BY <1>1, <1>2, TypeCorrect, BookkeepingHolds, PTL DEF Spec

\* Though the input task and the process task both append to the session, it
\* keeps its causal order: messages as they were spoken, each with its response
\* right behind it but for [HEARD] events of other turns.
THEOREM JournalKeepsOrder == Spec => []JournalOrder
  <1>1. JournalInv => JournalOrder
    BY DEF JournalInv
  <1> QED
    BY <1>1, JournalInvHolds, PTL

-----------------------------------------------------------------------------
(* An interruption stays ahead of what comes after it                       *)

\* Speech of turn u may be reported in the name of turn t.
Below(u, t, I) == u <= t \/ u \in I

\* What frame f makes the pipeline say is not of a turn later than t.
SaysBelow(f, t, I) ==
  /\ f.type \in {"VqlContext", "ResponseText"} => Below(f.turn, t, I)
  /\ f.type = "TTSText" => Below(f.sentence.turn, t, I)

QueueBelow(q, n, t, I) == \A k \in 1 .. n : SaysBelow(q[k], t, I)
TextBelow(s, t, I)     == \A k \in 1 .. Len(s) : Below(s[k].turn, t, I)

\* Every interruption in q names a turn of G that nothing before it is later than.
InOrder(q, G, I) ==
  \A i \in 1 .. Len(q) : q[i].type = "Interruption" =>
    q[i].turn \in G /\ QueueBelow(q, i - 1, q[i].turn, I)

\* The turns t such that nothing from here on down the pipeline is later than t.
AfterSpoken == {t \in Nat : TextBelow(spoken, t, injected)}
AfterAA  == {t \in AfterSpoken : QueueBelow(toAA, Len(toAA), t, injected)}
AfterOut == {t \in AfterAA : QueueBelow(toOut, Len(toOut), t, injected)}
AfterTTS == {t \in AfterOut : QueueBelow(toTTS, Len(toTTS), t, injected)}
AfterLLM == {t \in AfterTTS : /\ run # Idle => Below(run.turn, t, injected)
                              /\ \A k \in 1 .. Len(procQ) : Below(procQ[k], t, injected)}

\* An interruption that names a turn is ahead, in every queue, of whatever a later
\* turn says.
AAInOrder   == InOrder(toAA, AfterSpoken, injected)
OutInOrder  == InOrder(toOut, AfterAA, injected)
TTSInOrder  == InOrder(toTTS, AfterOut, injected)
DownInOrder == InOrder(down, AfterLLM, injected)

FramesInOrder ==
  AAInOrder /\ OutInOrder /\ TTSInOrder /\ DownInOrder /\ minted \in AfterLLM

CutReportsBelow ==
  /\ \A i \in 1 .. Len(up) :
       up[i].interrupted => TextBelow(up[i].text, up[i].turn, injected)
  /\ TextBelow(heardWrite.text, heardWrite.turn, injected)
  /\ \A i \in 1 .. Len(session) : session[i].kind = "heard" =>
       TextBelow(session[i].text, session[i].turn, injected)

SpeechInv == FramesInOrder /\ CutReportsBelow

\* What taking from a queue, or adding to it, does to its order.
LEMMA QuietFrames ==
  ASSUME NEW f, f.type \notin {"VqlContext", "ResponseText", "TTSText"}, NEW t, NEW I
  PROVE  SaysBelow(f, t, I)
  BY DEF SaysBelow

LEMMA MonoInOrder ==
  ASSUME NEW q, NEW G, NEW H, NEW I, NEW J, G \subseteq H, I \subseteq J,
         InOrder(q, G, I)
  PROVE  InOrder(q, H, J)
  BY DEF InOrder, QueueBelow, SaysBelow, Below

LEMMA AppendBelow ==
  ASSUME NEW S, NEW q \in Seq(S), NEW f \in S, NEW t, NEW I
  PROVE  QueueBelow(Append(q, f), Len(Append(q, f)), t, I)
           <=> QueueBelow(q, Len(q), t, I) /\ SaysBelow(f, t, I)
  <1>1. /\ Len(Append(q, f)) = Len(q) + 1 /\ Len(q) \in Nat
        /\ Append(q, f)[Len(q) + 1] = f
        /\ \A k \in 1 .. Len(q) : Append(q, f)[k] = q[k]
    OBVIOUS
  <1>2. 1 .. Len(q) + 1 = (1 .. Len(q)) \cup {Len(q) + 1}
    BY <1>1
  <1> QED
    BY <1>1, <1>2 DEF QueueBelow

LEMMA AppendInOrder ==
  ASSUME NEW S, NEW q \in Seq(S), NEW f \in S, NEW G, NEW I, InOrder(q, G, I),
         f.type = "Interruption" => f.turn \in G /\ QueueBelow(q, Len(q), f.turn, I)
  PROVE  InOrder(Append(q, f), G, I)
  <1> DEFINE r == Append(q, f)
  <1>1. /\ Len(r) = Len(q) + 1 /\ Len(q) \in Nat
        /\ r[Len(q) + 1] = f
        /\ \A k \in 1 .. Len(q) : r[k] = q[k]
    OBVIOUS
  <1> HIDE DEF r
  <1> SUFFICES ASSUME NEW i \in 1 .. Len(r), r[i].type = "Interruption"
               PROVE  r[i].turn \in G /\ QueueBelow(r, i - 1, r[i].turn, I)
    BY DEF InOrder, r
  <1>2. CASE i = Len(q) + 1
    <2>1. \A k \in 1 .. i - 1 : r[k] = q[k]
      BY <1>1, <1>2
    <2> QED
      BY <1>1, <1>2, <2>1 DEF QueueBelow
  <1>3. CASE i # Len(q) + 1
    <2>1. i \in 1 .. Len(q) /\ \A k \in 1 .. i - 1 : k \in 1 .. Len(q)
      BY <1>1, <1>3
    <2>2. r[i] = q[i] /\ \A k \in 1 .. i - 1 : r[k] = q[k]
      BY <1>1, <2>1
    <2> QED
      BY <2>1, <2>2 DEF InOrder, QueueBelow
  <1> QED
    BY <1>2, <1>3

LEMMA TailBelow ==
  ASSUME NEW S, NEW q \in Seq(S), q # <<>>, NEW t, NEW I,
         QueueBelow(q, Len(q), t, I)
  PROVE  SaysBelow(Head(q), t, I) /\ QueueBelow(Tail(q), Len(Tail(q)), t, I)
  <1>1. /\ Head(q) = q[1] /\ 1 \in 1 .. Len(q)
        /\ \A k \in 1 .. Len(Tail(q)) : k + 1 \in 1 .. Len(q) /\ Tail(q)[k] = q[k + 1]
    OBVIOUS
  <1> QED
    BY <1>1 DEF QueueBelow

LEMMA TailInOrder ==
  ASSUME NEW S, NEW q \in Seq(S), q # <<>>, NEW G, NEW H, NEW I, InOrder(q, G, I),
         \A t \in G : SaysBelow(Head(q), t, I) => t \in H
  PROVE  InOrder(Tail(q), H, I)
  <1> SUFFICES ASSUME NEW i \in 1 .. Len(Tail(q)), Tail(q)[i].type = "Interruption"
               PROVE  /\ Tail(q)[i].turn \in H
                      /\ QueueBelow(Tail(q), i - 1, Tail(q)[i].turn, I)
    BY DEF InOrder
  <1>1. /\ i + 1 \in 1 .. Len(q) /\ Tail(q)[i] = q[i + 1]
        /\ \A k \in 1 .. i - 1 : k + 1 \in 1 .. i /\ Tail(q)[k] = q[k + 1]
        /\ 1 \in 1 .. i /\ Head(q) = q[1] /\ (i + 1) - 1 = i
    OBVIOUS
  <1>2. /\ q[i + 1].turn \in G /\ \A k \in 1 .. i : SaysBelow(q[k], q[i + 1].turn, I)
    BY <1>1 DEF InOrder, QueueBelow
  <1> QED
    BY <1>1, <1>2 DEF QueueBelow

LEMMA BehindBelow ==
  ASSUME NEW S, NEW q \in Seq(S), NEW i \in DOMAIN q, NEW t, NEW I,
         QueueBelow(q, Len(q), t, I)
  PROVE  QueueBelow(Behind(q, i), Len(Behind(q, i)), t, I)
  <1>1. \A k \in 1 .. Len(Behind(q, i)) :
          k + i \in 1 .. Len(q) /\ Behind(q, i)[k] = q[k + i]
    BY DEF Behind
  <1> QED
    BY <1>1 DEF QueueBelow

LEMMA BehindInOrder ==
  ASSUME NEW S, NEW q \in Seq(S), NEW i \in DOMAIN q, NEW G, NEW I, InOrder(q, G, I)
  PROVE  InOrder(Behind(q, i), G, I)
  <1> DEFINE r == Behind(q, i)
  <1>1. \A k \in 1 .. Len(r) : /\ k + i \in 1 .. Len(q) /\ r[k] = q[k + i]
                               /\ \A l \in 1 .. k - 1 : /\ l \in 1 .. Len(r)
                                                        /\ l + i \in 1 .. (k + i) - 1
    BY DEF Behind
  <1> HIDE DEF r
  <1>2. InOrder(r, G, I)
    BY <1>1 DEF InOrder, QueueBelow
  <1> QED
    BY <1>2 DEF r

\* The frame taken out is an interruption: it was in nobody's way.
LEMMA RemoveInOrder ==
  ASSUME NEW S, NEW q \in Seq(S), NEW i \in DOMAIN q, NEW G, NEW I, InOrder(q, G, I)
  PROVE  /\ InOrder(RemoveAt(q, i), G, I)
         /\ \A t : QueueBelow(q, Len(q), t, I)
                     => QueueBelow(RemoveAt(q, i), Len(RemoveAt(q, i)), t, I)
  <1> DEFINE r == RemoveAt(q, i)
             at(k) == IF k < i THEN k ELSE k + 1
  <1>1. \A k \in 1 .. Len(r) : at(k) \in 1 .. Len(q) /\ r[k] = q[at(k)]
    BY RemoveAtItems
  <1>2. \A k \in 1 .. Len(r) : \A l \in 1 .. k - 1 :
          /\ l \in 1 .. Len(r) /\ at(l) \in 1 .. at(k) - 1
    BY DEF RemoveAt
  <1> HIDE DEF r, at
  <1>3. /\ InOrder(r, G, I)
        /\ \A t : QueueBelow(q, Len(q), t, I) => QueueBelow(r, Len(r), t, I)
    BY <1>1, <1>2 DEF InOrder, QueueBelow
  <1> QED
    BY <1>3 DEF r

\* A step downstream keeps the interruptions waiting for the LLM service in order
\* if it adds nothing to what the pipeline is going to say.
LEMMA DownstreamOrder ==
  ASSUME FramesInOrder, UNCHANGED upstream, AfterTTS \subseteq AfterTTS',
         AAInOrder', OutInOrder', TTSInOrder'
  PROVE  FramesInOrder'
  <1>1. UNCHANGED <<injected, run, procQ, minted, down>>
    BY DEF upstream, llmVars
  <1>2. AfterLLM \subseteq AfterLLM'
    BY <1>1 DEF AfterLLM
  <1>3. DownInOrder'
    BY <1>1, <1>2, MonoInOrder DEF FramesInOrder, DownInOrder
  <1> QED
    BY <1>1, <1>2, <1>3 DEF FramesInOrder

LEMMA TTSOrder ==
  ASSUME TypeOK, FramesInOrder, TTS
  PROVE  FramesInOrder'
  <1>1. /\ UNCHANGED <<injected, spoken, toAA>> /\ UNCHANGED upstream
        /\ AfterAA' = AfterAA /\ AAInOrder'
    <2>1. UNCHANGED <<spoken, toAA>>
      BY DEF TTS, TTSStart, TTSText, TTSEnd, TTSInterrupted
    <2>2. UNCHANGED upstream /\ injected' = injected
      BY DownstreamSteps DEF upstream, llmVars
    <2> QED
      BY <2>1, <2>2 DEF AfterSpoken, AfterAA, FramesInOrder, AAInOrder
  <1>2. toTTS \in Seq(TTSFrame) /\ toOut \in Seq(OutFrame)
    BY DEF TypeOK, SpeechTypeOK
  <1>3. toTTS' \in Seq(TTSFrame) /\ toOut' \in Seq(OutFrame)
    BY SpeechType DEF TypeOK, SpeechTypeOK
  <1>4. CASE TTSStart \/ TTSText \/ TTSEnd
    <2>1. toTTS # <<>> /\ toTTS' = Tail(toTTS)
      BY <1>4 DEF TTSStart, TTSText, TTSEnd
    <2>2. \/ toOut' = toOut
          \/ \E f \in OutFrame :
               /\ toOut' = Append(toOut, f) /\ f.type # "Interruption"
               /\ \A t : SaysBelow(Head(toTTS), t, injected)
                           => SaysBelow(f, t, injected)
      <3>1. CASE TTSStart
        BY <3>1 DEF TTSStart
      <3>2. CASE TTSText
        <4> DEFINE f == SpokenText([turn |-> Head(toTTS).turn, n |-> Head(toTTS).n])
        <4>1. Head(toTTS) \in TTSFrame
          BY <1>2, <2>1
        <4>2. Head(toTTS) \in [type : {"ResponseText"}, turn : Turns,
                               n : 1 .. MaxSentences]
          BY <3>2, <4>1 DEF TTSText, TTSFrame, InterruptionFrame
        <4>3. f \in OutFrame
          BY <4>2 DEF SpokenText, OutFrame, Sentence
        <4>4. \A t : SaysBelow(Head(toTTS), t, injected) => SaysBelow(f, t, injected)
          BY <3>2 DEF TTSText, SaysBelow, SpokenText
        <4> QED
          BY <3>2, <4>3, <4>4 DEF TTSText, SpokenText
      <3>3. CASE TTSEnd
        <4>1. SpeechStopped(tts.context) \in OutFrame
          BY DEF TypeOK, SpeechTypeOK, SpeechStopped, OutFrame
        <4> QED
          BY <3>3, <4>1 DEF TTSEnd, SpeechStopped, SaysBelow
      <3> QED
        BY <1>4, <3>1, <3>2, <3>3
    <2>3. \A t \in AfterOut : SaysBelow(Head(toTTS), t, injected) => t \in AfterOut'
      <3>1. \A t \in AfterOut : SaysBelow(Head(toTTS), t, injected)
              => QueueBelow(toOut', Len(toOut'), t, injected)
        <4>1. CASE toOut' = toOut
          BY <4>1 DEF AfterOut
        <4>2. CASE toOut' # toOut
          <5>1. PICK f \in OutFrame :
                  /\ toOut' = Append(toOut, f)
                  /\ \A t : SaysBelow(Head(toTTS), t, injected)
                              => SaysBelow(f, t, injected)
            BY <2>2, <4>2
          <5> QED
            BY <1>2, <5>1, AppendBelow DEF AfterOut
        <4> QED
          BY <4>1, <4>2
      <3> QED
        BY <1>1, <3>1 DEF AfterOut
    <2>4. AfterTTS \subseteq AfterTTS'
      BY <1>1, <1>2, <2>1, <2>3, TailBelow DEF AfterTTS
    <2>5. TTSInOrder'
      BY <1>1, <1>2, <2>1, <2>3, TailInOrder DEF FramesInOrder, TTSInOrder
    <2>6. OutInOrder'
      BY <1>1, <1>2, <2>2, AppendInOrder DEF FramesInOrder, OutInOrder
    <2> QED
      BY <1>1, <2>4, <2>5, <2>6, DownstreamOrder
  <1>5. CASE TTSInterrupted
    <2>1. PICK i \in DOMAIN toTTS : /\ FirstInterruption(toTTS, i)
                                    /\ toTTS' = Behind(toTTS, i)
                                    /\ toOut' = Append(toOut, toTTS[i])
      BY <1>5 DEF TTSInterrupted
    <2>2. /\ toTTS[i].type = "Interruption" /\ toTTS[i] \in OutFrame
          /\ toTTS[i].turn \in AfterOut
      <3>1. toTTS[i] \in TTSFrame /\ toTTS[i].type = "Interruption"
        BY <1>2, <2>1 DEF FirstInterruption
      <3> QED
        BY <1>2, <3>1, InterruptionFrames DEF FramesInOrder, TTSInOrder, InOrder
    <2>3. AfterOut \subseteq AfterOut'
      BY <1>1, <1>2, <2>1, <2>2, AppendBelow, QuietFrames DEF AfterOut
    <2>4. AfterTTS \subseteq AfterTTS'
      BY <1>1, <1>2, <2>1, <2>3, BehindBelow DEF AfterTTS
    <2>5. TTSInOrder'
      BY <1>1, <1>2, <2>1, <2>3, BehindInOrder, MonoInOrder
      DEF FramesInOrder, TTSInOrder
    <2>6. OutInOrder'
      BY <1>1, <1>2, <2>1, <2>2, AppendInOrder DEF FramesInOrder, OutInOrder, AfterOut
    <2> QED
      BY <1>1, <2>4, <2>5, <2>6, DownstreamOrder
  <1> QED
    BY <1>4, <1>5 DEF TTS

LEMMA OutputOrder ==
  ASSUME TypeOK, FramesInOrder, Output
  PROVE  FramesInOrder'
  <1>1. /\ UNCHANGED <<injected, spoken, toTTS>> /\ UNCHANGED upstream
        /\ AfterSpoken' = AfterSpoken
    <2>1. UNCHANGED <<spoken, toTTS>>
      BY DEF Output, PlaySentence, OutputStopped, OutputInterrupted
    <2>2. UNCHANGED upstream /\ injected' = injected
      BY DownstreamSteps DEF upstream, llmVars
    <2> QED
      BY <2>1, <2>2 DEF AfterSpoken
  <1>2. toOut \in Seq(OutFrame) /\ toAA \in Seq(OutFrame)
    BY DEF TypeOK, SpeechTypeOK
  <1>3. SUFFICES ASSUME AfterOut \subseteq AfterOut', OutInOrder', AAInOrder'
                 PROVE  FramesInOrder'
    <2>1. CASE PlaySentence \/ OutputStopped
      <3>1. /\ toOut # <<>> /\ toOut' = Tail(toOut)
            /\ toAA' = Append(toAA, Head(toOut))
            /\ Head(toOut).type # "Interruption" /\ Head(toOut) \in OutFrame
        BY <1>2, <2>1 DEF PlaySentence, OutputStopped
      <3>2. \A t \in AfterAA : SaysBelow(Head(toOut), t, injected) => t \in AfterAA'
        BY <1>1, <1>2, <3>1, AppendBelow DEF AfterAA
      <3>3. AfterOut \subseteq AfterOut'
        BY <1>1, <1>2, <3>1, <3>2, TailBelow DEF AfterOut
      <3>4. OutInOrder'
        BY <1>1, <1>2, <3>1, <3>2, TailInOrder DEF FramesInOrder, OutInOrder
      <3>5. AAInOrder'
        BY <1>1, <1>2, <3>1, AppendInOrder DEF FramesInOrder, AAInOrder
      <3> QED
        BY <1>3, <3>3, <3>4, <3>5
    <2>2. CASE OutputInterrupted
      <3>1. PICK i \in DOMAIN toOut : /\ FirstInterruption(toOut, i)
                                      /\ toOut' = Behind(toOut, i)
                                      /\ toAA' = Append(toAA, toOut[i])
        BY <2>2 DEF OutputInterrupted
      <3>2. /\ toOut[i].type = "Interruption" /\ toOut[i] \in OutFrame
            /\ toOut[i].turn \in AfterAA
        BY <1>2, <3>1 DEF FirstInterruption, FramesInOrder, OutInOrder, InOrder
      <3>3. AfterAA \subseteq AfterAA'
        BY <1>1, <1>2, <3>1, <3>2, AppendBelow, QuietFrames DEF AfterAA
      <3>4. AfterOut \subseteq AfterOut'
        BY <1>1, <1>2, <3>1, <3>3, BehindBelow DEF AfterOut
      <3>5. OutInOrder'
        BY <1>1, <1>2, <3>1, <3>3, BehindInOrder, MonoInOrder
        DEF FramesInOrder, OutInOrder
      <3>6. AAInOrder'
        BY <1>1, <1>2, <3>1, <3>2, AppendInOrder DEF FramesInOrder, AAInOrder, AfterAA
      <3> QED
        BY <1>3, <3>4, <3>5, <3>6
    <2> QED
      BY <2>1, <2>2 DEF Output
  <1>4. AfterTTS \subseteq AfterTTS'
    BY <1>1, <1>3 DEF AfterTTS
  <1>5. TTSInOrder'
    BY <1>1, <1>3, MonoInOrder DEF FramesInOrder, TTSInOrder
  <1> QED
    BY <1>1, <1>3, <1>4, <1>5, DownstreamOrder

LEMMA AssistantOrder ==
  ASSUME TypeOK, FramesInOrder, Assistant
  PROVE  FramesInOrder'
  <1>1. UNCHANGED <<injected, toOut, toTTS>> /\ UNCHANGED upstream
    <2>1. UNCHANGED <<toOut, toTTS>>
      BY DEF Assistant, AggregateText, TurnStopped, AAInterrupted, AAPlainInterrupted
    <2>2. UNCHANGED upstream /\ injected' = injected
      BY DownstreamSteps DEF upstream, llmVars
    <2> QED
      BY <2>1, <2>2
  <1>2. toAA \in Seq(OutFrame) /\ spoken \in Seq(Sentence)
    BY DEF TypeOK, SpeechTypeOK
  <1>3. SUFFICES ASSUME AfterAA \subseteq AfterAA', AAInOrder'
                 PROVE  FramesInOrder'
    <2>1. CASE AggregateText
      <3>1. /\ toAA # <<>> /\ toAA' = Tail(toAA) /\ Head(toAA).type = "TTSText"
            /\ spoken' = Append(spoken, Head(toAA).sentence)
            /\ Head(toAA) \in OutFrame /\ Head(toAA).sentence \in Sentence
        BY <1>2, <2>1 DEF AggregateText, OutFrame, InterruptionFrame
      <3>2. /\ Len(spoken') = Len(spoken) + 1 /\ Len(spoken) \in Nat
            /\ spoken'[Len(spoken) + 1] = Head(toAA).sentence
            /\ \A k \in 1 .. Len(spoken) : spoken'[k] = spoken[k]
        BY <1>2, <3>1
      <3>3. \A t \in AfterSpoken : SaysBelow(Head(toAA), t, injected)
              => t \in AfterSpoken'
        BY <1>1, <3>1, <3>2 DEF AfterSpoken, TextBelow, SaysBelow
      <3>4. AfterAA \subseteq AfterAA'
        BY <1>1, <1>2, <3>1, <3>3, TailBelow DEF AfterAA
      <3>5. AAInOrder'
        BY <1>1, <1>2, <3>1, <3>3, TailInOrder DEF FramesInOrder, AAInOrder
      <3> QED
        BY <1>3, <3>4, <3>5
    <2>2. CASE TurnStopped
      <3>1. toAA # <<>> /\ toAA' = Tail(toAA) /\ spoken' = <<>>
        BY <2>2 DEF TurnStopped, TriggerTurnStopped
      <3>2. AfterSpoken \subseteq AfterSpoken'
        BY <3>1 DEF AfterSpoken, TextBelow
      <3>3. AfterAA \subseteq AfterAA'
        BY <1>1, <1>2, <3>1, <3>2, TailBelow DEF AfterAA
      <3>4. AAInOrder'
        BY <1>1, <1>2, <3>1, <3>2, TailInOrder DEF FramesInOrder, AAInOrder
      <3> QED
        BY <1>3, <3>3, <3>4
    <2>3. CASE AAInterrupted
      <3>1. PICK i \in DOMAIN toAA : toAA' = RemoveAt(toAA, i) /\ spoken' = <<>>
        BY <2>3 DEF AAInterrupted, TriggerTurnStopped
      <3>2. AfterSpoken \subseteq AfterSpoken'
        BY <3>1 DEF AfterSpoken, TextBelow
      <3>3. AfterAA \subseteq AfterAA'
        BY <1>1, <1>2, <3>1, <3>2, RemoveInOrder DEF AfterAA, FramesInOrder, AAInOrder
      <3>4. AAInOrder'
        BY <1>1, <1>2, <3>1, <3>2, RemoveInOrder, MonoInOrder
        DEF FramesInOrder, AAInOrder
      <3> QED
        BY <1>3, <3>3, <3>4
    <2>4. CASE AAPlainInterrupted
      <3>1. PICK i \in DOMAIN toAA : toAA' = Behind(toAA, i) /\ spoken' = spoken
        BY <2>4 DEF AAPlainInterrupted
      <3>2. AfterSpoken' = AfterSpoken
        BY <1>1, <3>1 DEF AfterSpoken
      <3>3. AfterAA \subseteq AfterAA'
        BY <1>1, <1>2, <3>1, <3>2, BehindBelow DEF AfterAA
      <3>4. AAInOrder'
        BY <1>1, <1>2, <3>1, <3>2, BehindInOrder DEF FramesInOrder, AAInOrder
      <3> QED
        BY <1>3, <3>3, <3>4
    <2> QED
      BY <2>1, <2>2, <2>3, <2>4 DEF Assistant
  <1>4. AfterOut \subseteq AfterOut' /\ AfterTTS \subseteq AfterTTS'
    BY <1>1, <1>3 DEF AfterOut, AfterTTS
  <1>5. OutInOrder' /\ TTSInOrder'
    BY <1>1, <1>3, <1>4, MonoInOrder DEF FramesInOrder, OutInOrder, TTSInOrder
  <1> QED
    BY <1>1, <1>3, <1>4, <1>5, DownstreamOrder

\* The frames s are ones that run r pushes, between the start and the end of it.
PushedBy(r, s) ==
  /\ s \in Seq(TTSFrame)
  /\ \A k \in 1 .. Len(s) : /\ r # Idle /\ s[k].turn = r.turn
                            /\ s[k].type \in {"ResponseStart", "ResponseText", "ResponseEnd"}

LEMMA RunPushes ==
  ASSUME NEW r \in Run \cup {Idle}
  PROVE  /\ PushedBy(r, <<>>) /\ PushedBy(r, CancelledRun(r))
         /\ r # Idle => PushedBy(r, Cleanup(r)) /\ PushedBy(r, StartFrames(r))
  <1>1. PushedBy(r, <<>>)
    BY DEF PushedBy
  <1>2. ASSUME r # Idle
        PROVE  PushedBy(r, Cleanup(r)) /\ PushedBy(r, StartFrames(r))
    <2>1. r \in Run
      BY <1>2
    <2>2. Cleanup(r) \in Seq(TTSFrame) /\ StartFrames(r) \in Seq(TTSFrame)
      BY <2>1, CleanupType, StartFramesType
    <2>3. \A k \in 1 .. Len(Cleanup(r)) :
            /\ Cleanup(r)[k].turn = r.turn
            /\ Cleanup(r)[k].type \in {"ResponseStart", "ResponseEnd"}
      BY DEF Cleanup, ResponseStart, ResponseEnd
    <2>4. \A k \in 1 .. Len(StartFrames(r)) :
            StartFrames(r)[k].turn = r.turn /\ StartFrames(r)[k].type = "ResponseStart"
      BY DEF StartFrames, ResponseStart
    <2> QED
      BY <1>2, <2>2, <2>3, <2>4 DEF PushedBy
  <1> QED
    BY <1>1, <1>2 DEF CancelledRun

LEMMA PartialPushes ==
  ASSUME TypeOK, PartialEvent
  PROVE  /\ run # Idle /\ run'.turn = run.turn
         /\ PushedBy(run, StartFrames(run) \o <<ResponseText(run.turn, run.said + 1)>>)
         /\ toTTS' = toTTS \o (StartFrames(run) \o <<ResponseText(run.turn, run.said + 1)>>)
  <1>1. run # Idle /\ run \in Run /\ toTTS \in Seq(TTSFrame)
    BY DEF PartialEvent, Idle, TypeOK, ServiceTypeOK, SpeechTypeOK
  <1>2. /\ run.said + 1 \in 1 .. MaxSentences /\ run.turn \in Turns
        /\ run'.turn = run.turn
    BY <1>1, BoundsAssumption DEF PartialEvent, Run
  <1>3. PushedBy(run, StartFrames(run))
    BY <1>1, RunPushes
  <1> DEFINE f == ResponseText(run.turn, run.said + 1)
  <1>4. f \in TTSFrame /\ f.turn = run.turn /\ f.type = "ResponseText"
    BY <1>2, LLMFrames DEF ResponseText
  <1>5. toTTS' = (toTTS \o StartFrames(run)) \o <<f>>
    BY DEF PartialEvent
  <1> HIDE DEF f
  <1>6. PushedBy(run, StartFrames(run) \o <<f>>)
    BY <1>1, <1>3, <1>4 DEF PushedBy
  <1>7. toTTS' = toTTS \o (StartFrames(run) \o <<f>>)
    <2>1. StartFrames(run) \in Seq(TTSFrame) /\ <<f>> \in Seq(TTSFrame)
      BY <1>3, <1>4 DEF PushedBy
    <2> QED
      BY <1>1, <1>5, <2>1
  <1> QED
    BY <1>1, <1>2, <1>6, <1>7 DEF f

LEMMA ConcatQuiet ==
  ASSUME NEW S, NEW q \in Seq(S), NEW s \in Seq(S), NEW G, NEW I, InOrder(q, G, I),
         \A k \in 1 .. Len(s) : s[k].type # "Interruption"
  PROVE  /\ InOrder(q \o s, G, I)
         /\ \A t : QueueBelow(q, Len(q), t, I) /\ QueueBelow(s, Len(s), t, I)
                     => QueueBelow(q \o s, Len(q \o s), t, I)
  <1> DEFINE r == q \o s
  <1>1. /\ Len(q) \in Nat /\ Len(s) \in Nat /\ Len(r) = Len(q) + Len(s)
        /\ \A k \in 1 .. Len(q) : r[k] = q[k] /\ \A l \in 1 .. k - 1 : l \in 1 .. Len(q)
        /\ \A k \in 1 .. Len(r) : k \notin 1 .. Len(q) =>
             k - Len(q) \in 1 .. Len(s) /\ r[k] = s[k - Len(q)]
    OBVIOUS
  <1> HIDE DEF r
  <1>2. InOrder(r, G, I)
    BY <1>1 DEF InOrder, QueueBelow
  <1>3. \A t : QueueBelow(q, Len(q), t, I) /\ QueueBelow(s, Len(s), t, I)
                 => QueueBelow(r, Len(r), t, I)
    BY <1>1 DEF QueueBelow
  <1> QED
    BY <1>2, <1>3 DEF r

\* What a run pushes is in the way of no interruption behind the run.
LEMMA PushedOrder ==
  ASSUME TypeOK, FramesInOrder, NEW s, PushedBy(run, s)
  PROVE  /\ InOrder(toTTS \o s, AfterOut, injected)
         /\ \A t \in AfterLLM : QueueBelow(toTTS \o s, Len(toTTS \o s), t, injected)
  <1>1. toTTS \in Seq(TTSFrame) /\ s \in Seq(TTSFrame)
    BY DEF TypeOK, SpeechTypeOK, PushedBy
  <1>2. \A k \in 1 .. Len(s) : s[k].type # "Interruption"
    BY DEF PushedBy
  <1>3. \A t \in AfterLLM : QueueBelow(s, Len(s), t, injected)
    BY DEF PushedBy, AfterLLM, QueueBelow, SaysBelow
  <1>4. \A t \in AfterLLM : QueueBelow(toTTS, Len(toTTS), t, injected)
    BY DEF AfterLLM, AfterTTS
  <1> QED
    BY <1>1, <1>2, <1>3, <1>4, ConcatQuiet DEF FramesInOrder, TTSInOrder

LEMMA RunOrder ==
  ASSUME TypeOK, FramesInOrder,
         UNCHANGED <<injected, spoken, toAA, toOut, minted, down>>,
         NEW s, PushedBy(run, s), toTTS' = toTTS \o s,
         run' # Idle => run # Idle /\ run'.turn = run.turn,
         procQ' = procQ \/ procQ' = <<>>
  PROVE  FramesInOrder'
  <1>1. AfterSpoken' = AfterSpoken /\ AfterAA' = AfterAA /\ AfterOut' = AfterOut
    BY DEF AfterSpoken, AfterAA, AfterOut
  <1>2. AfterLLM \subseteq AfterLLM'
    BY <1>1, PushedOrder DEF AfterLLM, AfterTTS
  <1>3. TTSInOrder'
    BY <1>1, PushedOrder DEF TTSInOrder
  <1>4. DownInOrder'
    BY <1>2, MonoInOrder DEF FramesInOrder, DownInOrder
  <1> QED
    BY <1>1, <1>2, <1>3, <1>4 DEF FramesInOrder, AAInOrder, OutInOrder

\* The interruption is forwarded behind what the cancelled run still pushes.
LEMMA InterruptedOrder ==
  ASSUME TypeOK, FramesInOrder, LLMInterrupted
  PROVE  FramesInOrder'
  <1>1. PICK i \in DOMAIN down :
          /\ down' = RemoveAt(down, i)
          /\ down[i].type = "Interruption" /\ down[i] \in DownFrame
          /\ toTTS' = (toTTS \o CancelledRun(run)) \o <<down[i]>>
    BY InterruptionTaken DEF TypeOK
  <1> DEFINE r == toTTS \o CancelledRun(run)
             f == down[i]
  <1>2. UNCHANGED <<injected, spoken, toAA, toOut, minted>>
    BY DEF LLMInterrupted
  <1>3. AfterSpoken' = AfterSpoken /\ AfterAA' = AfterAA /\ AfterOut' = AfterOut
    BY <1>2 DEF AfterSpoken, AfterAA, AfterOut
  <1>4. down \in Seq(DownFrame) /\ i \in 1 .. Len(down)
    BY DEF TypeOK, UserTypeOK
  <1>5. /\ f \in DownFrame /\ f.type = "Interruption" /\ f \in TTSFrame
        /\ f.turn \in AfterLLM
    BY <1>1, <1>4, InterruptionFrames DEF FramesInOrder, DownInOrder, InOrder
  <1>6. /\ InOrder(r, AfterOut, injected)
        /\ \A t \in AfterLLM : QueueBelow(r, Len(r), t, injected)
    BY RunPushes, PushedOrder DEF TypeOK, ServiceTypeOK
  <1>7. r \in Seq(TTSFrame) /\ toTTS' = Append(r, f)
    <2>1. CancelledRun(run) \in Seq(TTSFrame) /\ toTTS \in Seq(TTSFrame)
      BY CancelledRunType DEF TypeOK, ServiceTypeOK, SpeechTypeOK
    <2>2. r \in Seq(TTSFrame) /\ toTTS' = r \o <<f>>
      BY <1>1, <2>1
    <2> HIDE DEF r, f
    <2> QED
      BY <1>5, <2>2
  <1> HIDE DEF r, f
  <1>8. TTSInOrder'
    BY <1>2, <1>3, <1>5, <1>6, <1>7, AppendInOrder
    DEF TTSInOrder, AfterLLM, AfterTTS
  <1>9. \A t \in AfterLLM : QueueBelow(toTTS', Len(toTTS'), t, injected)
    BY <1>5, <1>6, <1>7, AppendBelow, QuietFrames
  <1>10. AfterLLM \subseteq AfterLLM'
    BY <1>2, <1>3, <1>9 DEF AfterLLM, AfterTTS, LLMInterrupted
  <1>11. DownInOrder'
    BY <1>2, <1>1, <1>10, <1>4, RemoveInOrder, MonoInOrder
    DEF FramesInOrder, DownInOrder
  <1> QED
    BY <1>2, <1>3, <1>8, <1>10, <1>11 DEF FramesInOrder, AAInOrder, OutInOrder

\* Everything that is going to be said is of a turn.
LEMMA WeakenAfter ==
  ASSUME TypeOK, NEW t \in AfterLLM, NEW v \in Nat,
         \A u \in Turns : Below(u, t, injected) => Below(u, v, injected)
  PROVE  v \in AfterLLM
  <1>1. /\ \A k \in 1 .. Len(spoken) : spoken[k].turn \in Turns
        /\ \A k \in 1 .. Len(procQ) : procQ[k] \in Turns
        /\ run # Idle => run.turn \in Turns
    <2>1. \A k \in 1 .. Len(spoken) : spoken[k] \in Sentence
      BY DEF TypeOK, SpeechTypeOK
    <2>2. \A s \in Sentence : s.turn \in Turns
      BY DEF Sentence
    <2>3. \A k \in 1 .. Len(procQ) : procQ[k] \in Turns
      BY DEF TypeOK, ServiceTypeOK
    <2>4. run # Idle => run.turn \in Turns
      BY DEF TypeOK, ServiceTypeOK, Run
    <2> QED
      BY <2>1, <2>2, <2>3, <2>4
  <1>2. \A f \in OutFrame : SaysBelow(f, t, injected) => SaysBelow(f, v, injected)
    BY DEF OutFrame, InterruptionFrame, Sentence, SaysBelow
  <1>3. \A f \in TTSFrame : SaysBelow(f, t, injected) => SaysBelow(f, v, injected)
    BY DEF TTSFrame, InterruptionFrame, SaysBelow
  <1>4. /\ \A k \in 1 .. Len(toAA) : toAA[k] \in OutFrame
        /\ \A k \in 1 .. Len(toOut) : toOut[k] \in OutFrame
        /\ \A k \in 1 .. Len(toTTS) : toTTS[k] \in TTSFrame
    BY DEF TypeOK, SpeechTypeOK
  <1>5. v \in AfterSpoken
    BY <1>1 DEF AfterLLM, AfterTTS, AfterOut, AfterAA, AfterSpoken, TextBelow
  <1>6. v \in AfterAA
    BY <1>2, <1>4, <1>5 DEF AfterLLM, AfterTTS, AfterOut, AfterAA, QueueBelow
  <1>7. v \in AfterOut
    BY <1>2, <1>4, <1>6 DEF AfterLLM, AfterTTS, AfterOut, QueueBelow
  <1>8. v \in AfterTTS
    BY <1>3, <1>4, <1>7 DEF AfterLLM, AfterTTS, QueueBelow
  <1> QED
    BY <1>1, <1>8 DEF AfterLLM

LEMMA UserOrder ==
  ASSUME TypeOK, Bookkeeping, QueueInv, FramesInOrder,
         UserTurnStarted \/ PushAggregation
  PROVE  FramesInOrder'
  <1>1. UNCHANGED <<injected, spoken, toAA, toOut, toTTS, run, procQ>>
    BY DEF UserTurnStarted, PushAggregation, llmVars, speech
  <1>2. /\ AfterSpoken' = AfterSpoken /\ AfterAA' = AfterAA /\ AfterOut' = AfterOut
        /\ AfterLLM' = AfterLLM
    BY <1>1 DEF AfterSpoken, AfterAA, AfterOut, AfterTTS, AfterLLM
  <1>3. down \in Seq(DownFrame) /\ minted \in Nat /\ prevTurn \in Nat
    BY DEF TypeOK, UserTypeOK, Turns, NoTurn
  <1>4. CASE UserTurnStarted
    <2> DEFINE f == Interruption(prevTurn)
    <2>1. f \in DownFrame /\ f.turn = prevTurn /\ down' = Append(down, f)
      BY <1>4 DEF UserTurnStarted, Interruption, DownFrame, InterruptionFrame, TypeOK,
                  UserTypeOK
    <2> HIDE DEF f
    <2>2. \A u \in Turns : Below(u, minted, injected) => Below(u, prevTurn, injected)
      BY <1>3 DEF Below, QueueInv, MintedApart, Turns
    <2>3. prevTurn \in AfterLLM
      BY <1>3, <2>2, WeakenAfter DEF FramesInOrder
    <2>4. QueueBelow(down, Len(down), prevTurn, injected)
      <3>1. \A k \in 1 .. Len(down) : down[k] \in DownFrame /\ k \in DOMAIN down
        BY <1>3
      <3>2. \A k \in 1 .. Len(down) : ContextAt(k) =>
              down[k].turn \in Turns /\ down[k].turn <= minted
        BY <3>1, DownTurns DEF Bookkeeping, KnownAreMinted, Turns
      <3>3. \A k \in 1 .. Len(down) : down[k].type \in {"VqlContext", "Interruption"}
        BY <3>1 DEF DownFrame, InterruptionFrame
      <3> QED
        BY <2>2, <3>2, <3>3 DEF QueueBelow, SaysBelow, ContextAt, Below
    <2>5. DownInOrder'
      BY <1>1, <1>2, <1>3, <2>1, <2>3, <2>4, AppendInOrder
      DEF FramesInOrder, DownInOrder
    <2> QED
      BY <1>1, <1>2, <1>4, <2>5
      DEF FramesInOrder, AAInOrder, OutInOrder, TTSInOrder, UserTurnStarted
  <1>5. CASE PushAggregation
    <2> DEFINE f == Context(minted + 1)
    <2>1. /\ f \in DownFrame /\ f.type = "VqlContext" /\ down' = Append(down, f)
          /\ minted' = minted + 1
      BY <1>3, <1>5 DEF PushAggregation, Context, DownFrame, Turns
    <2> HIDE DEF f
    <2>2. \A u \in Turns : Below(u, minted, injected) => Below(u, minted + 1, injected)
      BY <1>3 DEF Below, Turns
    <2>3. minted' \in AfterLLM
      BY <1>3, <2>1, <2>2, WeakenAfter DEF FramesInOrder
    <2>4. DownInOrder'
      BY <1>1, <1>2, <1>3, <2>1, AppendInOrder DEF FramesInOrder, DownInOrder
    <2> QED
      BY <1>1, <1>2, <2>3, <2>4
      DEF FramesInOrder, AAInOrder, OutInOrder, TTSInOrder
  <1> QED
    BY <1>4, <1>5

LEMMA RouteOrder ==
  ASSUME TypeOK, Bookkeeping, FramesInOrder, RouteContext
  PROVE  FramesInOrder'
  <1>1. UNCHANGED <<injected, spoken, toAA, toOut, toTTS, run, minted>>
    BY DEF RouteContext, speech
  <1>2. /\ AfterSpoken' = AfterSpoken /\ AfterAA' = AfterAA /\ AfterOut' = AfterOut
        /\ AfterTTS' = AfterTTS
    BY <1>1 DEF AfterSpoken, AfterAA, AfterOut, AfterTTS
  <1>3. /\ down \in Seq(DownFrame) /\ procQ \in Seq(Turns) /\ down # <<>>
        /\ down' = Tail(down) /\ Head(down) = down[1] /\ 1 \in DOMAIN down
        /\ ContextAt(1)
    BY DEF RouteContext, ContextAt, TypeOK, UserTypeOK, ServiceTypeOK
  <1>4. /\ Len(procQ') = Len(procQ) + 1 /\ Len(procQ) \in Nat
        /\ procQ'[Len(procQ) + 1] = Head(down).turn
        /\ \A k \in 1 .. Len(procQ) : procQ'[k] = procQ[k]
    BY <1>3 DEF RouteContext
  <1>5. \A t \in AfterLLM : SaysBelow(Head(down), t, injected) => t \in AfterLLM'
    <2>1. SUFFICES ASSUME NEW t \in AfterLLM, SaysBelow(Head(down), t, injected)
                   PROVE  \A k \in 1 .. Len(procQ') : Below(procQ'[k], t, injected)
      BY <1>1, <1>2 DEF AfterLLM
    <2>2. Below(Head(down).turn, t, injected)
      BY <1>3, <2>1 DEF SaysBelow, ContextAt
    <2> QED
      BY <1>4, <2>2 DEF AfterLLM
  <1>6. minted \in AfterLLM'
    BY <1>3, <1>5 DEF Bookkeeping, KnownAreMinted, FramesInOrder, SaysBelow, Below,
                      ContextAt
  <1>7. DownInOrder'
    BY <1>1, <1>3, <1>5, TailInOrder DEF FramesInOrder, DownInOrder
  <1> QED
    BY <1>1, <1>2, <1>6, <1>7
    DEF FramesInOrder, AAInOrder, OutInOrder, TTSInOrder

LEMMA BeginOrder ==
  ASSUME TypeOK, FramesInOrder, StartRun \/ PersistAndRun
  PROVE  FramesInOrder'
  <1>1. UNCHANGED <<spoken, toAA, toOut, toTTS, down>>
    BY DEF StartRun, PersistAndRun, speech
  <1>2. /\ injected \subseteq injected' /\ minted' \in AfterLLM
        /\ run' # Idle /\ \A t \in AfterLLM : Below(run'.turn, t, injected')
        /\ \A t \in AfterLLM : \A k \in 1 .. Len(procQ') : Below(procQ'[k], t, injected)
    <2>1. CASE StartRun
      <3>1. /\ procQ \in Seq(Turns) /\ procQ # <<>> /\ procQ' = Tail(procQ)
            /\ run'.turn = Head(procQ) /\ UNCHANGED <<injected, minted>>
            /\ run' # Idle
        BY <2>1 DEF StartRun, TypeOK, ServiceTypeOK, Idle
      <3>2. /\ Head(procQ) = procQ[1] /\ 1 \in 1 .. Len(procQ)
            /\ \A k \in 1 .. Len(procQ') : k + 1 \in 1 .. Len(procQ) /\ procQ'[k] = procQ[k + 1]
        BY <3>1
      <3> QED
        BY <3>1, <3>2 DEF AfterLLM, FramesInOrder
    <2>2. CASE PersistAndRun
      <3>1. /\ procQ' = procQ /\ injected' = injected \cup {minted + 1}
            /\ run'.turn = minted + 1 /\ minted' = minted + 1 /\ run' # Idle
        BY <2>2 DEF PersistAndRun, Idle
      <3>2. minted \in Nat
        BY DEF TypeOK, UserTypeOK
      <3>3. \A u \in Turns : Below(u, minted, injected) => Below(u, minted + 1, injected)
        BY <3>2 DEF Below, Turns
      <3>4. minted + 1 \in AfterLLM
        BY <3>2, <3>3, WeakenAfter DEF FramesInOrder
      <3> QED
        BY <3>1, <3>4 DEF AfterLLM, Below
    <2> QED
      BY <2>1, <2>2
  <1>3. AfterSpoken \subseteq AfterSpoken'
    BY <1>1, <1>2 DEF AfterSpoken, TextBelow, Below
  <1>4. AfterAA \subseteq AfterAA'
    BY <1>1, <1>2, <1>3 DEF AfterAA, QueueBelow, SaysBelow, Below
  <1>5. AfterOut \subseteq AfterOut'
    BY <1>1, <1>2, <1>4 DEF AfterOut, QueueBelow, SaysBelow, Below
  <1>6. AfterTTS \subseteq AfterTTS'
    BY <1>1, <1>2, <1>5 DEF AfterTTS, QueueBelow, SaysBelow, Below
  <1>7. AfterLLM \subseteq AfterLLM'
    BY <1>2, <1>6 DEF AfterLLM, Below
  <1>8. AAInOrder' /\ OutInOrder'
    BY <1>1, <1>2, <1>3, <1>4, MonoInOrder DEF FramesInOrder, AAInOrder, OutInOrder
  <1>9. TTSInOrder' /\ DownInOrder'
    BY <1>1, <1>2, <1>5, <1>7, MonoInOrder DEF FramesInOrder, TTSInOrder, DownInOrder
  <1> QED
    BY <1>2, <1>7, <1>8, <1>9 DEF FramesInOrder

LEMMA FramesInductive ==
  ASSUME TypeOK, Bookkeeping, QueueInv, FramesInOrder, [Next]_vars
  PROVE  FramesInOrder'
  <1>1. CASE UNCHANGED <<injected, spoken, toAA, toOut, toTTS, run, procQ, minted, down>>
    BY <1>1 DEF FramesInOrder, AAInOrder, OutInOrder, TTSInOrder, DownInOrder,
         AfterLLM, AfterTTS, AfterOut, AfterAA, AfterSpoken
  <1>2. HandleTurnCompleted \/ AppendHeard \/ LoseHeard \/ PushNothing \/ Quiescent
          \/ UNCHANGED vars
          => UNCHANGED <<injected, spoken, toAA, toOut, toTTS, run, procQ, minted, down>>
    BY DEF HandleTurnCompleted, AppendHeard, LoseHeard, PushNothing, Quiescent, vars,
         upstream, uaVars, llmVars, speech
  <1>3. CASE RunnerAsks \/ PartialEvent \/ FinalEvent
    <2>1. toTTS \in Seq(TTSFrame) /\ toTTS \o <<>> = toTTS
      BY DEF TypeOK, SpeechTypeOK
    <2>2. CASE RunnerAsks
      <3>1. run \in Run /\ run # Idle
        BY <2>2 DEF RunnerAsks, Idle, TypeOK, ServiceTypeOK
      <3>2. run'.turn = run.turn
        BY <2>2, <3>1 DEF RunnerAsks, Run
      <3> QED
        BY <2>1, <2>2, <3>1, <3>2, RunPushes, RunOrder DEF RunnerAsks, speech
    <2>3. CASE PartialEvent
      BY <2>3, PartialPushes, RunOrder DEF PartialEvent
    <2>4. CASE FinalEvent
      <3>1. run \in Run /\ run # Idle
        BY <2>4 DEF FinalEvent, Idle, TypeOK, ServiceTypeOK
      <3>2. run'.turn = run.turn
        BY <2>4, <3>1 DEF FinalEvent, Run
      <3> QED
        BY <2>4, <3>1, <3>2, RunPushes, RunOrder DEF FinalEvent
    <2> QED
      BY <1>3, <2>2, <2>3, <2>4
  <1>4. CASE EndRun \/ Shutdown
    <2>1. run \in Run \cup {Idle}
      BY DEF TypeOK, ServiceTypeOK
    <2>2. CASE EndRun
      BY <2>1, <2>2, RunPushes, RunOrder DEF EndRun
    <2>3. CASE Shutdown
      BY <2>1, <2>3, RunPushes, RunOrder DEF Shutdown
    <2> QED
      BY <1>4, <2>2, <2>3
  <1>5. CASE LLMInterrupted \/ RouteContext \/ StartRun \/ PersistAndRun
    BY <1>5, InterruptedOrder, RouteOrder, BeginOrder
  <1>6. CASE UserTurnStarted \/ PushAggregation
    BY <1>6, UserOrder
  <1>7. CASE TTS \/ Output \/ Assistant
    BY <1>7, TTSOrder, OutputOrder, AssistantOrder
  <1> QED
    BY <1>1, <1>2, <1>3, <1>4, <1>5, <1>6, <1>7
    DEF Next, System, InputTask, ProcessTask, Runner, User

\* An interrupted report takes the text of a turn that everything spoken is of.
LEMMA CutReportsAssistant ==
  ASSUME TypeOK, SpeechInv, Assistant
  PROVE  CutReportsBelow'
  <1>1. UNCHANGED <<injected, heardWrite, session>>
    BY DownstreamSteps DEF upstream, llmVars
  <1>2. up \in Seq(TurnCompleted) /\ up' \in Seq(TurnCompleted)
    BY AssistantType DEF TypeOK, SpeechTypeOK
  <1>3. CASE up' = up
    BY <1>1, <1>3 DEF SpeechInv, CutReportsBelow, TextBelow, Below
  <1>4. ASSUME NEW t \in Nat, NEW b \in BOOLEAN, TriggerTurnStopped(t, b),
               b => t \in AfterSpoken, spoken # <<>>
        PROVE  CutReportsBelow'
    <2> DEFINE c == [turn |-> t, text |-> spoken, interrupted |-> b]
    <2>1. up' = up \o <<c>>
      BY <1>4 DEF TriggerTurnStopped, Report
    <2>2. c.interrupted => TextBelow(c.text, c.turn, injected)
      BY <1>4 DEF AfterSpoken
    <2> HIDE DEF c
    <2>3. \A i \in 1 .. Len(up') : up'[i] = c \/ (i \in 1 .. Len(up) /\ up'[i] = up[i])
      BY <1>2, <2>1
    <2> QED
      BY <1>1, <2>2, <2>3 DEF SpeechInv, CutReportsBelow, TextBelow, Below
  <1>5. CASE TurnStopped
    <2>1. Head(toAA) \in OutFrame /\ Head(toAA).type = "TTSStopped"
      BY <1>5 DEF TurnStopped, TypeOK, SpeechTypeOK
    <2>2. Head(toAA).turn \in Nat /\ TriggerTurnStopped(Head(toAA).turn, FALSE)
      <3>1. \A f \in OutFrame : f.type = "TTSStopped" => f.turn \in Nat
        BY DEF OutFrame, InterruptionFrame, Turns, NoTurn
      <3> QED
        BY <1>5, <2>1, <3>1 DEF TurnStopped
    <2>3. spoken = <<>> => up' = up
      BY <1>2, <2>2 DEF TriggerTurnStopped, Report
    <2> QED
      BY <1>3, <1>4, <2>2, <2>3
  <1>6. CASE AAInterrupted
    <2>1. PICK i \in DOMAIN toAA : /\ FirstInterruption(toAA, i)
                                   /\ TriggerTurnStopped(toAA[i].turn, TRUE)
      BY <1>6 DEF AAInterrupted
    <2>2. toAA[i].turn \in AfterSpoken /\ toAA[i].turn \in Nat
      BY <2>1 DEF FirstInterruption, SpeechInv, FramesInOrder, AAInOrder, InOrder,
                  TypeOK, SpeechTypeOK, AfterSpoken
    <2>3. spoken = <<>> => up' = up
      BY <1>2, <2>1 DEF TriggerTurnStopped, Report
    <2> QED
      BY <1>3, <1>4, <2>1, <2>2, <2>3
  <1>7. CASE AggregateText \/ AAPlainInterrupted
    BY <1>3, <1>7 DEF AggregateText, AAPlainInterrupted
  <1> QED
    BY <1>5, <1>6, <1>7 DEF Assistant

LEMMA CutReportsInductive ==
  ASSUME TypeOK, SpeechInv, [Next]_vars
  PROVE  CutReportsBelow'
  <1>1. CASE UNCHANGED <<injected, heardWrite, session, up>>
    BY <1>1 DEF SpeechInv, CutReportsBelow, TextBelow, Below
  <1>2. CASE Assistant
    BY <1>2, CutReportsAssistant
  <1>3. CASE HandleTurnCompleted
    <2>1. up \in Seq(TurnCompleted) /\ up # <<>> /\ up' = Tail(up)
      BY <1>3 DEF HandleTurnCompleted, TypeOK, SpeechTypeOK
    <2>2. /\ Head(up) = up[1] /\ 1 \in 1 .. Len(up)
          /\ \A i \in 1 .. Len(up') : i + 1 \in 1 .. Len(up) /\ up'[i] = up[i + 1]
      BY <2>1
    <2>3. UNCHANGED <<injected, session>>
      BY <1>3 DEF HandleTurnCompleted
    <2>4. TextBelow(heardWrite'.text, heardWrite'.turn, injected)
      <3>1. CASE heardWrite' = NoWrite
        BY <3>1 DEF NoWrite, TextBelow
      <3>2. CASE heardWrite' # NoWrite
        <4>1. /\ Head(up).interrupted /\ heardWrite'.turn = Head(up).turn
              /\ heardWrite'.text = Head(up).text
          BY <1>3, <3>2 DEF HandleTurnCompleted, WritesHeard
        <4> QED
          BY <2>2, <4>1 DEF SpeechInv, CutReportsBelow
      <3> QED
        BY <3>1, <3>2
    <2> QED
      BY <2>2, <2>3, <2>4 DEF SpeechInv, CutReportsBelow, TextBelow, Below
  <1>4. CASE AppendHeard \/ LoseHeard
    <2>1. UNCHANGED <<injected, up>> /\ heardWrite' = NoWrite
      BY <1>4 DEF AppendHeard, LoseHeard, speech
    <2>2. TextBelow(heardWrite'.text, heardWrite'.turn, injected')
      BY <2>1 DEF NoWrite, TextBelow
    <2> DEFINE e == [kind |-> "heard", turn |-> heardWrite.turn,
                     text |-> heardWrite.text]
    <2>3. TextBelow(e.text, e.turn, injected)
      BY DEF SpeechInv, CutReportsBelow
    <2>4. session \in Seq(JournalEvent)
      BY DEF TypeOK, ServiceTypeOK
    <2>5. session' = Append(session, e) \/ session' = session
      BY <1>4 DEF AppendHeard, LoseHeard
    <2> HIDE DEF e
    <2>6. \A i \in 1 .. Len(session') :
            session'[i] = e \/ (i \in 1 .. Len(session) /\ session'[i] = session[i])
      BY <2>4, <2>5
    <2> QED
      BY <2>1, <2>2, <2>3, <2>6 DEF SpeechInv, CutReportsBelow, TextBelow, Below
  <1>5. CASE RunnerAsks \/ FinalEvent
    <2>1. UNCHANGED <<injected, up, heardWrite>>
      BY <1>5 DEF RunnerAsks, FinalEvent, speech
    <2>2. PICK e : session' = Append(session, e) /\ e.kind # "heard"
      BY <1>5 DEF RunnerAsks, FinalEvent
    <2>3. session \in Seq(JournalEvent)
      BY DEF TypeOK, ServiceTypeOK
    <2>4. \A i \in 1 .. Len(session') :
            session'[i] = e \/ (i \in 1 .. Len(session) /\ session'[i] = session[i])
      BY <2>2, <2>3
    <2> QED
      BY <2>1, <2>2, <2>4 DEF SpeechInv, CutReportsBelow, TextBelow, Below
  <1>6. CASE PersistAndRun
    <2>1. injected \subseteq injected' /\ UNCHANGED <<heardWrite, session, up>>
      BY <1>6 DEF PersistAndRun, speech
    <2> QED
      BY <2>1 DEF SpeechInv, CutReportsBelow, TextBelow, Below
  <1>7. CASE UserTurnStarted \/ PushAggregation \/ PushNothing \/ Shutdown
    BY <1>1, <1>7
    DEF UserTurnStarted, PushAggregation, PushNothing, Shutdown, llmVars, speech
  <1>8. CASE RouteContext \/ LLMInterrupted \/ StartRun \/ PartialEvent \/ EndRun
    BY <1>1, <1>8
    DEF RouteContext, LLMInterrupted, StartRun, PartialEvent, EndRun, speech
  <1>9. CASE TTS \/ Output
    <2>1. up' = up
      BY <1>9 DEF TTS, TTSStart, TTSText, TTSEnd, TTSInterrupted, Output, PlaySentence,
                  OutputStopped, OutputInterrupted
    <2> QED
      BY <1>1, <1>9, <2>1, DownstreamSteps DEF upstream, llmVars
  <1>10. Quiescent \/ UNCHANGED vars => UNCHANGED <<injected, heardWrite, session, up>>
    BY DEF Quiescent, vars, upstream, llmVars, speech
  <1> QED
    BY <1>1, <1>2, <1>3, <1>4, <1>5, <1>6, <1>7, <1>8, <1>9, <1>10
    DEF Next, System, InputTask, ProcessTask, Runner, User

LEMMA SpeechInvHolds == Spec => []SpeechInv
  <1>1. Init => SpeechInv
    <2> SUFFICES ASSUME Init
                 PROVE  SpeechInv
      OBVIOUS
    <2>1. CutReportsBelow /\ AAInOrder /\ OutInOrder /\ TTSInOrder /\ DownInOrder
      BY DEF Init, CutReportsBelow, TextBelow, NoWrite, AAInOrder, OutInOrder,
             TTSInOrder, DownInOrder, InOrder
    <2>2. minted \in AfterLLM
      BY DEF Init, AfterLLM, AfterTTS, AfterOut, AfterAA, AfterSpoken, TextBelow,
             QueueBelow
    <2> QED
      BY <2>1, <2>2 DEF SpeechInv, FramesInOrder
  <1>2. TypeOK /\ Bookkeeping /\ JournalInv /\ SpeechInv /\ [Next]_vars => SpeechInv'
    BY FramesInductive, CutReportsInductive DEF SpeechInv, JournalInv
  <1> QED
    BY <1>1, <1>2, JournalInvHolds, TypeCorrect, BookkeepingHolds, PTL DEF Spec

\* What the user heard of a turn never includes, in the journal, speech of a later
\* turn: the interruption that names a turn stays ahead of all a later turn says,
\* in every queue down the pipeline.
THEOREM HeardIsOfItsTurn == Spec => []NoSpeechFromLaterTurn
  <1>1. TypeOK /\ SpeechInv => NoSpeechFromLaterTurn
    <2> SUFFICES ASSUME TypeOK, SpeechInv
                 PROVE  NoSpeechFromLaterTurn
      OBVIOUS
    <2>1. \A i \in DOMAIN session : /\ i \in 1 .. Len(session)
                                    /\ session[i].text \in Seq(Sentence)
      <3>1. \A e \in JournalEvent : e.text \in Seq(Sentence)
        BY DEF JournalEvent
      <3>2. session \in Seq(JournalEvent)
        BY DEF TypeOK, ServiceTypeOK
      <3> QED
        BY <3>1, <3>2
    <2>2. \A i \in DOMAIN session : DOMAIN session[i].text = 1 .. Len(session[i].text)
      BY <2>1
    <2> QED
      BY <2>1, <2>2 DEF SpeechInv, CutReportsBelow, NoSpeechFromLaterTurn, TextBelow,
                        Below
  <1> QED
    BY <1>1, SpeechInvHolds, TypeCorrect, PTL

-----------------------------------------------------------------------------
(* The first report of a turn                                               *)

\* Turn t has still to be answered.
Pending(t) ==
  \/ InProcQ(t)
  \/ \E i \in DOMAIN down : ContextAt(i) /\ down[i].turn = t
  \/ run.turn = t /\ run.phase \in {"called", "asked"}

\* Some frame of q, other than the text of a sentence, is of turn t.
NamedIn(q, t) == \E i \in DOMAIN q : q[i].type # "TTSText" /\ q[i].turn = t
Reported(t)   == \E i \in DOMAIN completions : completions[i].turn = t

\* A turn the processors behind the LLM service have heard of.
Named(t) ==
  \/ NamedIn(toTTS, t) \/ NamedIn(toOut, t) \/ NamedIn(toAA, t)
  \/ tts.context = t \/ Reported(t)

\* Nobody reports a turn, or interrupts it, before it is answered, unless the
\* interruption overtook its context.
NamedAreDone ==
  \A t \in Turns : Named(t) => t <= minted /\ (Pending(t) => t \in overtaken)

\* Frame f tells of words of turn t; so do frames of the queue q.
Tells(f, t) ==
  \/ f.type = "ResponseText" /\ f.turn = t
  \/ f.type = "TTSText" /\ f.sentence.turn = t
WordsIn(q, t)   == \E i \in DOMAIN q : Tells(q[i], t)
SpeechOf(s, t)  == \E k \in DOMAIN s : s[k].turn = t
ReportsOn(t)    == \E j \in DOMAIN completions : SpeechOf(completions[j].text, t)

\* Turn t has spoken: words of it are on their way, or reported.
Voiced(t) ==
  \/ WordsIn(toTTS, t) \/ WordsIn(toOut, t) \/ WordsIn(toAA, t)
  \/ SpeechOf(spoken, t) \/ ReportsOn(t)

\* No turn speaks before its run gets an event, overtaken or not.
VoicedAreDone == \A t \in Turns : Voiced(t) => t <= minted /\ ~Pending(t)

\* The reports the LLM service has handled: up is the rest of them.
Handled == Len(completions) - Len(up)

UpIsTheRest ==
  /\ Len(up) <= Len(completions)
  /\ \A i \in DOMAIN up : up[i] = completions[Handled + i]

\* A report that was handled took its turn out of the map; that turn is put in
\* later only if its context was overtaken, and the report said nothing of it.
HandledLeftTheMap ==
  \A j \in 1 .. Handled :
    (completions[j].turn \notin overtaken \/ OwnWords(j)) =>
      completions[j].turn \notin invMap

IsFirstReport(t, text) ==
    \E j \in DOMAIN completions :
      /\ completions[j] = [turn |-> t, text |-> text, interrupted |-> TRUE]
      /\ FirstReport(j)

ReportInv ==
  /\ NamedAreDone /\ VoicedAreDone /\ UpIsTheRest /\ HandledLeftTheMap
  /\ heardWrite # NoWrite => IsFirstReport(heardWrite.turn, heardWrite.text)
  /\ HeardIsFirstReport

LEMMA NamedInShorter ==
  ASSUME NEW S, NEW q \in Seq(S)
  PROVE  /\ q # <<>> => \A t : NamedIn(Tail(q), t) => NamedIn(q, t)
         /\ \A i \in DOMAIN q : \A t : NamedIn(Behind(q, i), t) => NamedIn(q, t)
         /\ \A i \in DOMAIN q : \A t : NamedIn(RemoveAt(q, i), t) => NamedIn(q, t)
  <1>1. q # <<>> => \A t : NamedIn(Tail(q), t) => NamedIn(q, t)
    <2>1. \A k \in DOMAIN Tail(q) : q # <<>> =>
            k + 1 \in DOMAIN q /\ Tail(q)[k] = q[k + 1]
      OBVIOUS
    <2> QED
      BY <2>1 DEF NamedIn
  <1>2. ASSUME NEW i \in DOMAIN q
        PROVE  \A t : NamedIn(Behind(q, i), t) => NamedIn(q, t)
    <2>1. \A k \in DOMAIN Behind(q, i) : k + i \in DOMAIN q /\ Behind(q, i)[k] = q[k + i]
      BY DEF Behind
    <2> QED
      BY <2>1 DEF NamedIn
  <1>3. ASSUME NEW i \in DOMAIN q
        PROVE  \A t : NamedIn(RemoveAt(q, i), t) => NamedIn(q, t)
    <2> DEFINE a == SubSeq(q, 1, i - 1)
               b == SubSeq(q, i + 1, Len(q))
    <2>1. /\ a \in Seq(S) /\ b \in Seq(S)
          /\ \A k \in DOMAIN a : k \in DOMAIN q /\ a[k] = q[k]
          /\ \A k \in DOMAIN b : k + i \in DOMAIN q /\ b[k] = q[k + i]
      OBVIOUS
    <2>2. RemoveAt(q, i) = a \o b
      BY DEF RemoveAt
    <2> HIDE DEF a, b
    <2>3. \A k \in DOMAIN (a \o b) :
            \/ k \in DOMAIN a /\ (a \o b)[k] = a[k]
            \/ k - Len(a) \in DOMAIN b /\ (a \o b)[k] = b[k - Len(a)]
      BY <2>1
    <2> QED
      BY <2>1, <2>2, <2>3 DEF NamedIn
  <1> QED
    BY <1>1, <1>2, <1>3

LEMMA NamedInAppend ==
  ASSUME NEW S, NEW q \in Seq(S), NEW f \in S, NEW t, NamedIn(Append(q, f), t)
  PROVE  NamedIn(q, t) \/ (f.type # "TTSText" /\ f.turn = t)
  <1>1. \A k \in DOMAIN Append(q, f) :
          Append(q, f)[k] = f \/ (k \in DOMAIN q /\ Append(q, f)[k] = q[k])
    OBVIOUS
  <1> QED
    BY <1>1 DEF NamedIn

LEMMA NamedInPushed ==
  ASSUME TypeOK, NEW s, PushedBy(run, s), NEW t, NamedIn(toTTS \o s, t)
  PROVE  NamedIn(toTTS, t) \/ (run # Idle /\ run.turn = t)
  <1>1. toTTS \in Seq(TTSFrame) /\ s \in Seq(TTSFrame)
    BY DEF TypeOK, SpeechTypeOK, PushedBy
  <1>2. \A k \in DOMAIN (toTTS \o s) :
          \/ k \in DOMAIN toTTS /\ (toTTS \o s)[k] = toTTS[k]
          \/ /\ k - Len(toTTS) \in 1 .. Len(s)
             /\ (toTTS \o s)[k] = s[k - Len(toTTS)]
    BY <1>1
  <1> QED
    BY <1>2 DEF NamedIn, PushedBy

\* Downstream of the LLM service no turn is named that was not named before.
LEMMA NothingNewDownstream ==
  ASSUME TypeOK, NEW t \in Turns, TTS \/ Output \/ Assistant, Named(t)'
  PROVE  Named(t)
  <1>1. /\ toTTS \in Seq(TTSFrame) /\ toOut \in Seq(OutFrame) /\ toAA \in Seq(OutFrame)
        /\ completions \in Seq(TurnCompleted)
    BY DEF TypeOK, SpeechTypeOK
  <1>2. CASE TTSStart
    <2>1. /\ toTTS # <<>> /\ toTTS' = Tail(toTTS) /\ UNCHANGED <<toOut, toAA, completions>>
          /\ tts'.context = toTTS[1].turn /\ 1 \in DOMAIN toTTS
          /\ toTTS[1].type # "TTSText"
      BY <1>1, <1>2 DEF TTSStart
    <2> QED
      BY <1>1, <2>1, NamedInShorter DEF Named, NamedIn, Reported
  <1>3. CASE TTSText
    <2> DEFINE f == SpokenText([turn |-> Head(toTTS).turn, n |-> Head(toTTS).n])
    <2>1. /\ toTTS # <<>> /\ toTTS' = Tail(toTTS) /\ UNCHANGED <<toAA, completions>>
          /\ tts'.context = tts.context /\ toOut' = Append(toOut, f)
      BY <1>3 DEF TTSText, TypeOK, SpeechTypeOK
    <2>2. toOut' \in Seq(OutFrame) /\ f.type = "TTSText"
      BY <1>3, SpeechType DEF TTS, TypeOK, SpeechTypeOK, SpokenText
    <2> HIDE DEF f
    <2>3. \A k \in DOMAIN toOut' : toOut'[k] = f \/ (k \in DOMAIN toOut /\ toOut'[k] = toOut[k])
      BY <1>1, <2>1, <2>2
    <2>4. NamedIn(toOut', t) => NamedIn(toOut, t)
      BY <2>2, <2>3 DEF NamedIn
    <2>5. NamedIn(toTTS', t) => NamedIn(toTTS, t)
      BY <1>1, <2>1, NamedInShorter
    <2> QED
      BY <2>1, <2>4, <2>5 DEF Named, Reported
  <1>4. CASE TTSEnd
    <2>1. /\ toTTS # <<>> /\ toTTS' = Tail(toTTS) /\ UNCHANGED <<tts, toAA, completions>>
          /\ toOut' = toOut \/ toOut' = Append(toOut, SpeechStopped(tts.context))
      BY <1>4 DEF TTSEnd
    <2>2. SpeechStopped(tts.context) \in OutFrame
      BY DEF TypeOK, SpeechTypeOK, SpeechStopped, OutFrame
    <2>3. NamedIn(toOut', t) => NamedIn(toOut, t) \/ tts.context = t
      <3>1. CASE toOut' = toOut
        BY <3>1
      <3>2. CASE toOut' = Append(toOut, SpeechStopped(tts.context))
        <4> DEFINE f == SpeechStopped(tts.context)
        <4>1. f \in OutFrame /\ f.turn = tts.context /\ toOut' = Append(toOut, f)
          BY <2>2, <3>2 DEF SpeechStopped
        <4> HIDE DEF f
        <4> QED
          BY <1>1, <4>1, NamedInAppend
      <3> QED
        BY <2>1, <3>1, <3>2
    <2>4. NamedIn(toTTS', t) => NamedIn(toTTS, t)
      BY <1>1, <2>1, NamedInShorter
    <2> QED
      BY <2>1, <2>3, <2>4 DEF Named, Reported
  <1>5. CASE TTSInterrupted
    <2>1. PICK i \in DOMAIN toTTS : /\ FirstInterruption(toTTS, i)
                                    /\ toTTS' = Behind(toTTS, i)
                                    /\ toOut' = Append(toOut, toTTS[i])
                                    /\ UNCHANGED <<tts, toAA, completions>>
      BY <1>5 DEF TTSInterrupted
    <2>2. toTTS[i] \in OutFrame /\ toTTS[i].type = "Interruption"
      BY <1>1, <2>1, InterruptionFrames DEF FirstInterruption
    <2>3. NamedIn(toOut', t) => NamedIn(toOut, t) \/ NamedIn(toTTS, t)
      BY <1>1, <2>1, <2>2, NamedInAppend DEF NamedIn
    <2>4. NamedIn(toTTS', t) => NamedIn(toTTS, t)
      BY <1>1, <2>1, NamedInShorter
    <2> QED
      BY <2>1, <2>3, <2>4 DEF Named, Reported
  <1>6. CASE PlaySentence \/ OutputStopped
    <2>1. /\ toOut # <<>> /\ toOut' = Tail(toOut) /\ UNCHANGED <<toTTS, tts, completions>>
          /\ toAA' = Append(toAA, toOut[1]) /\ 1 \in DOMAIN toOut /\ toOut[1] \in OutFrame
      BY <1>1, <1>6 DEF PlaySentence, OutputStopped
    <2>2. NamedIn(toAA', t) => NamedIn(toAA, t) \/ NamedIn(toOut, t)
      BY <1>1, <2>1, NamedInAppend DEF NamedIn
    <2>3. NamedIn(toOut', t) => NamedIn(toOut, t)
      BY <1>1, <2>1, NamedInShorter
    <2> QED
      BY <2>1, <2>2, <2>3 DEF Named, Reported
  <1>7. CASE OutputInterrupted
    <2>1. PICK i \in DOMAIN toOut : /\ toOut' = Behind(toOut, i)
                                    /\ toAA' = Append(toAA, toOut[i])
                                    /\ UNCHANGED <<toTTS, tts, completions>>
      BY <1>7 DEF OutputInterrupted
    <2>2. toOut[i] \in OutFrame
      BY <1>1
    <2>3. NamedIn(toAA', t) => NamedIn(toAA, t) \/ NamedIn(toOut, t)
      BY <1>1, <2>1, <2>2, NamedInAppend DEF NamedIn
    <2>4. NamedIn(toOut', t) => NamedIn(toOut, t)
      BY <1>1, <2>1, NamedInShorter
    <2> QED
      BY <2>1, <2>3, <2>4 DEF Named, Reported
  <1>8. CASE AggregateText \/ AAPlainInterrupted
    <2>1. /\ UNCHANGED <<toTTS, tts, toOut, completions>>
          /\ \/ toAA # <<>> /\ toAA' = Tail(toAA)
             \/ \E i \in DOMAIN toAA : toAA' = Behind(toAA, i)
      BY <1>8 DEF AggregateText, AAPlainInterrupted
    <2>2. NamedIn(toAA', t) => NamedIn(toAA, t)
      BY <1>1, <2>1, NamedInShorter
    <2> QED
      BY <2>1, <2>2 DEF Named, Reported
  <1>9. ASSUME NEW u, NEW b, TriggerTurnStopped(u, b), Reported(t)'
        PROVE  Reported(t) \/ u = t
    <2>1. CASE completions' = completions
      BY <1>9, <2>1 DEF Reported
    <2> DEFINE c == [turn |-> u, text |-> spoken, interrupted |-> b]
    <2>2. completions' # completions => completions' = Append(completions, c)
      BY <1>1, <1>9 DEF TriggerTurnStopped, Report
    <2>3. c.turn = u
      OBVIOUS
    <2> HIDE DEF c
    <2>4. CASE completions' # completions
      <3>1. \A k \in DOMAIN completions' :
              completions'[k] = c \/ (k \in DOMAIN completions /\ completions'[k] = completions[k])
        BY <1>1, <2>2, <2>4
      <3> QED
        BY <1>9, <2>3, <3>1 DEF Reported
    <2> QED
      BY <2>1, <2>4
  <1>10. CASE TurnStopped
    <2>1. /\ toAA # <<>> /\ toAA' = Tail(toAA) /\ UNCHANGED <<toTTS, tts, toOut>>
          /\ 1 \in DOMAIN toAA /\ toAA[1].type = "TTSStopped"
          /\ TriggerTurnStopped(toAA[1].turn, FALSE)
      <3>1. toAA # <<>> /\ Head(toAA) = toAA[1] /\ 1 \in DOMAIN toAA
        BY <1>1, <1>10 DEF TurnStopped
      <3> QED
        BY <1>10, <3>1 DEF TurnStopped
    <2>2. Reported(t)' => Reported(t) \/ NamedIn(toAA, t)
      BY <1>9, <2>1 DEF NamedIn
    <2>3. NamedIn(toAA', t) => NamedIn(toAA, t)
      BY <1>1, <2>1, NamedInShorter
    <2> QED
      BY <2>1, <2>2, <2>3 DEF Named
  <1>11. CASE AAInterrupted
    <2>1. PICK i \in DOMAIN toAA : /\ toAA' = RemoveAt(toAA, i)
                                   /\ toAA[i].type = "Interruption"
                                   /\ TriggerTurnStopped(toAA[i].turn, TRUE)
                                   /\ UNCHANGED <<toTTS, tts, toOut>>
      BY <1>11 DEF AAInterrupted, FirstInterruption
    <2>2. Reported(t)' => Reported(t) \/ NamedIn(toAA, t)
      BY <1>9, <2>1 DEF NamedIn
    <2>3. NamedIn(toAA', t) => NamedIn(toAA, t)
      BY <1>1, <2>1, NamedInShorter
    <2> QED
      BY <2>1, <2>2, <2>3 DEF Named
  <1> QED
    BY <1>2, <1>3, <1>4, <1>5, <1>6, <1>7, <1>8, <1>10, <1>11 DEF TTS, Output, Assistant

\* What is pending only shrinks, but for the turn minted in this step.
LEMMA PendingShrinks ==
  ASSUME TypeOK, [Next]_vars, NEW t \in Turns, Pending(t)'
  PROVE  Pending(t) \/ (t = minted + 1 /\ minted' = minted + 1)
  <1>0. down \in Seq(DownFrame) /\ procQ \in Seq(Turns)
    BY DEF TypeOK, UserTypeOK, ServiceTypeOK
  <1>1. CASE /\ down' = down
             /\ procQ' = procQ \/ procQ' = <<>>
             /\ run' = run \/ run'.phase \notin {"called", "asked"}
    BY <1>1 DEF Pending, InProcQ, ContextAt
  <1>2. CASE UserTurnStarted \/ PushAggregation
    <2>1. PICK f : /\ down' = Append(down, f)
                   /\ f.type = "VqlContext" => f.turn = minted + 1 /\ minted' = minted + 1
      BY <1>2 DEF UserTurnStarted, PushAggregation, Interruption, Context
    <2>2. \A k \in DOMAIN down' : down'[k] = f \/ (k \in DOMAIN down /\ down'[k] = down[k])
      BY <1>0, <2>1
    <2>3. procQ' = procQ /\ run' = run
      BY <1>2 DEF UserTurnStarted, PushAggregation, llmVars
    <2> QED
      BY <2>1, <2>2, <2>3 DEF Pending, InProcQ, ContextAt
  <1>3. CASE RouteContext
    <2>1. /\ down # <<>> /\ 1 \in DOMAIN down /\ ContextAt(1) /\ run' = run
          /\ \A k \in DOMAIN down' : k + 1 \in DOMAIN down /\ down'[k] = down[k + 1]
          /\ procQ' = Append(procQ, down[1].turn)
      BY <1>0, <1>3 DEF RouteContext, ContextAt
    <2>2. \A k \in DOMAIN procQ' :
            procQ'[k] = down[1].turn \/ (k \in DOMAIN procQ /\ procQ'[k] = procQ[k])
      BY <1>0, <2>1
    <2> QED
      BY <2>1, <2>2 DEF Pending, InProcQ, ContextAt
  <1>4. CASE LLMInterrupted
    <2>0. procQ' = <<>> /\ run' = Idle /\ \E i \in DOMAIN down : TakenAt(i)
      BY <1>4, InterruptionTaken DEF TypeOK
    <2>1. procQ' = <<>> /\ run'.phase = "idle" /\ \E i \in DOMAIN down : TakenAt(i)
      BY <2>0 DEF Idle
    <2>2. \A k \in DOMAIN down' : \E m \in DOMAIN down : down'[k] = down[m]
      BY <2>1 DEF TakenAt
    <2> QED
      BY <2>1, <2>2 DEF Pending, InProcQ, ContextAt
  <1>5. CASE StartRun
    <2>1. /\ 1 \in DOMAIN procQ /\ run'.turn = procQ[1] /\ down' = down
          /\ \A k \in DOMAIN procQ' : k + 1 \in DOMAIN procQ /\ procQ'[k] = procQ[k + 1]
      BY <1>0, <1>5 DEF StartRun
    <2> QED
      BY <2>1 DEF Pending, InProcQ, ContextAt
  <1>6. CASE PersistAndRun
    BY <1>6 DEF PersistAndRun, Pending, InProcQ, ContextAt
  <1>7. CASE Runner \/ Shutdown
    <2>1. run \in Run \cup {Idle}
      BY DEF TypeOK, ServiceTypeOK
    <2>2. CASE RunnerAsks
      <3>1. /\ run'.turn = run.turn /\ run.phase = "called"
            /\ UNCHANGED <<down, procQ>>
        BY <2>1, <2>2 DEF RunnerAsks, Run, Idle
      <3> QED
        BY <3>1 DEF Pending, InProcQ, ContextAt
    <2>3. CASE PartialEvent \/ FinalEvent
      <3>1. run'.phase \in {"streaming", "persisted"} /\ UNCHANGED <<down, procQ>>
        BY <2>1, <2>3 DEF PartialEvent, FinalEvent, Run, Idle
      <3> QED
        BY <1>1, <3>1
    <2>4. CASE EndRun \/ Shutdown
      BY <1>1, <2>4 DEF EndRun, Shutdown, Idle
    <2> QED
      BY <1>7, <2>2, <2>3, <2>4 DEF Runner
  <1>8. CASE HandleTurnCompleted \/ AppendHeard \/ LoseHeard \/ PushNothing
               \/ UNCHANGED upstream
    <2>1. UNCHANGED <<down, procQ, run>>
      BY <1>8 DEF HandleTurnCompleted, AppendHeard, LoseHeard, PushNothing, upstream,
                  llmVars
    <2> QED
      BY <1>1, <2>1
  <1>9. TTS \/ Output \/ Assistant \/ Quiescent \/ UNCHANGED vars => UNCHANGED upstream
    BY DownstreamSteps DEF Quiescent, vars
  <1> QED
    BY <1>2, <1>3, <1>4, <1>5, <1>6, <1>7, <1>8, <1>9
    DEF Next, System, InputTask, ProcessTask, User

\* A turn is named for the first time by its own run or by the interruption that
\* the LLM service forwards; either way it is done.
LEMMA NamedByRun ==
  ASSUME TypeOK, Bookkeeping, NamedAreDone, NEW s, PushedBy(run, s),
         toTTS' = toTTS \o s, UNCHANGED <<tts, toOut, toAA, completions, minted, down>>,
         procQ' = procQ \/ procQ' = <<>>, run'.phase \notin {"called", "asked"},
         overtaken' = overtaken
  PROVE  NamedAreDone'
  <1> SUFFICES ASSUME NEW t \in Turns, Named(t)'
               PROVE  t <= minted /\ (Pending(t)' => t \in overtaken)
    BY DEF NamedAreDone
  <1>1. Pending(t)' => Pending(t)
    BY DEF Pending, InProcQ, ContextAt
  <1>2. Named(t) \/ (run # Idle /\ run.turn = t)
    BY NamedInPushed DEF Named, Reported
  <1>3. CASE Named(t)
    BY <1>1, <1>3 DEF NamedAreDone
  <1>4. CASE run.turn = t
    <2>1. t <= minted
      BY <1>4 DEF Bookkeeping, KnownAreMinted
    <2>2. ~Pending(t)'
      BY <1>4 DEF Bookkeeping, QueuedAreFresh, Pending, InProcQ, ContextAt
    <2> QED
      BY <2>1, <2>2
  <1> QED
    BY <1>2, <1>3, <1>4

LEMMA NamedByInterruption ==
  ASSUME TypeOK, Bookkeeping, QueueInv, NamedAreDone, LLMInterrupted
  PROVE  NamedAreDone'
  <1>1. /\ run' = Idle /\ procQ' = <<>>
        /\ UNCHANGED <<minted, tts, toOut, toAA, completions>>
    BY InterruptionTaken DEF TypeOK
  <1>2. PICK i \in DOMAIN down :
          /\ TakenAt(i) /\ down[i].type = "Interruption" /\ down[i] \in DownFrame
          /\ overtaken' = overtaken \cup {down[k].turn : k \in 1 .. i - 1}
          /\ toTTS' = (toTTS \o CancelledRun(run)) \o <<down[i]>>
    BY InterruptionTaken DEF TypeOK
  <1> SUFFICES ASSUME NEW t \in Turns, Named(t)'
               PROVE  t <= minted /\ (Pending(t)' => t \in overtaken')
    BY <1>1 DEF NamedAreDone
  <1> DEFINE r == toTTS \o CancelledRun(run)
             f == down[i]
  <1>3. r \in Seq(TTSFrame) /\ toTTS' = Append(r, f) /\ f \in TTSFrame
    <2>1. CancelledRun(run) \in Seq(TTSFrame) /\ toTTS \in Seq(TTSFrame)
      BY CancelledRunType DEF TypeOK, ServiceTypeOK, SpeechTypeOK
    <2>2. r \in Seq(TTSFrame) /\ toTTS' = r \o <<f>>
      BY <1>2, <2>1
    <2>3. f \in TTSFrame
      BY <1>2, InterruptionFrames
    <2> HIDE DEF r, f
    <2> QED
      BY <2>2, <2>3
  <1>4. NamedIn(r, t) => NamedIn(toTTS, t) \/ (run # Idle /\ run.turn = t)
    BY RunPushes, NamedInPushed DEF TypeOK, ServiceTypeOK
  <1>5. Named(t) \/ run.turn = t \/ f.turn = t
    <2> HIDE DEF r, f
    <2>1. NamedIn(toTTS', t) => NamedIn(r, t) \/ f.turn = t
      BY <1>3, NamedInAppend
    <2> QED
      BY <1>1, <1>4, <2>1 DEF Named, Reported
  <1>6. ASSUME Pending(t)'
        PROVE  t \in overtaken'
    <2>1. PICK k \in DOMAIN down' : ContextAt(k)' /\ down'[k].turn = t
      BY <1>1, <1>6 DEF Pending, InProcQ, Idle
    <2>2. DOMAIN down = 1 .. Len(down) /\ Len(down) \in Nat
      BY DEF TypeOK, UserTypeOK
    <2>3. CASE k \in DOMAIN down /\ k < i /\ down'[k] = down[k]
      <3>1. k \in 1 .. i - 1 /\ down[k].turn = t
        BY <2>1, <2>2, <2>3
      <3> QED
        BY <1>2, <3>1
    <2>4. CASE k \in Nat /\ k + 1 \in DOMAIN down /\ i <= k /\ down'[k] = down[k + 1]
      <3>1. ContextAt(k + 1) /\ down[k + 1].turn = t /\ i < k + 1
        BY <2>1, <2>2, <2>4 DEF ContextAt
      <3>2. run.turn # t /\ Pending(t)
        BY <2>4, <3>1 DEF Bookkeeping, QueuedAreFresh, Pending
      <3>3. f.turn # t
        BY <2>4, <3>1, DownTurns DEF QueueInv, QueuesInOrder
      <3>4. t \in overtaken
        BY <1>5, <3>2, <3>3 DEF NamedAreDone
      <3> QED
        BY <1>2, <3>4
    <2> QED
      BY <1>2, <2>3, <2>4 DEF TakenAt
  <1>7. t <= minted
    BY <1>5 DEF NamedAreDone, Bookkeeping, KnownAreMinted, QueueInv, MintedApart
  <1> QED
    BY <1>6, <1>7

\* A context that was overtaken stays so.
LEMMA OvertakenGrows ==
  ASSUME [Next]_vars
  PROVE  overtaken \subseteq overtaken'
  <1>1. InputTask \/ ProcessTask \/ User => overtaken \subseteq overtaken'
    BY DEF InputTask, RouteContext, LLMInterrupted, HandleTurnCompleted, AppendHeard,
           LoseHeard, ProcessTask, StartRun, Runner, RunnerAsks, PartialEvent,
           FinalEvent, EndRun, User, UserTurnStarted, PushAggregation, PushNothing,
           PersistAndRun, Shutdown, llmVars
  <1>2. TTS \/ Output \/ Assistant \/ Quiescent \/ UNCHANGED vars
          => overtaken' = overtaken
    BY DownstreamSteps DEF upstream, llmVars, Quiescent, vars
  <1> QED
    BY <1>1, <1>2 DEF Next, System

LEMMA NamedInductive ==
  ASSUME TypeOK, Bookkeeping, QueueInv, NamedAreDone, [Next]_vars
  PROVE  NamedAreDone'
  <1>0. run \in Run \cup {Idle} /\ minted \in Nat
    BY DEF TypeOK, UserTypeOK, ServiceTypeOK
  <1>1. ASSUME \A t \in Turns : Named(t)' => Named(t),
               minted' = minted \/ minted' = minted + 1
        PROVE  NamedAreDone'
    <2> SUFFICES ASSUME NEW t \in Turns, Named(t)'
                 PROVE  t <= minted' /\ (Pending(t)' => t \in overtaken')
      BY DEF NamedAreDone
    <2>1. t <= minted /\ (Pending(t) => t \in overtaken) /\ t \in Nat
      BY <1>1 DEF NamedAreDone, Turns
    <2> QED
      BY <1>0, <1>1, <2>1, PendingShrinks, OvertakenGrows
  <1>2. CASE UNCHANGED <<toTTS, tts, toOut, toAA, completions>>
               /\ (minted' = minted \/ minted' = minted + 1)
    BY <1>1, <1>2 DEF Named, NamedIn, Reported
  <1>3. CASE TTS \/ Output \/ Assistant
    <2>1. minted' = minted
      BY <1>3, DownstreamSteps DEF upstream
    <2> QED
      BY <1>1, <1>3, <2>1, NothingNewDownstream
  <1>4. CASE PartialEvent \/ FinalEvent \/ EndRun \/ Shutdown
    <2>1. CASE PartialEvent
      <3>1. run'.phase = "streaming"
        BY <1>0, <2>1 DEF PartialEvent, Run, Idle
      <3> QED
        BY <2>1, <3>1, PartialPushes, NamedByRun DEF PartialEvent
    <2>2. CASE FinalEvent
      <3>1. run'.phase = "persisted" /\ run # Idle
        BY <1>0, <2>2 DEF FinalEvent, Run, Idle
      <3> QED
        BY <1>0, <2>2, <3>1, RunPushes, NamedByRun DEF FinalEvent
    <2>3. CASE EndRun
      BY <1>0, <2>3, RunPushes, NamedByRun DEF EndRun, Idle
    <2>4. CASE Shutdown
      BY <1>0, <2>4, RunPushes, NamedByRun DEF Shutdown, Idle
    <2> QED
      BY <1>4, <2>1, <2>2, <2>3, <2>4
  <1>5. CASE LLMInterrupted
    BY <1>5, NamedByInterruption
  <1>6. RouteContext \/ HandleTurnCompleted \/ AppendHeard \/ LoseHeard \/ StartRun
          \/ RunnerAsks \/ Quiescent \/ UNCHANGED vars
          => /\ UNCHANGED <<toTTS, tts, toOut, toAA, completions>> /\ minted' = minted
    BY DEF RouteContext, HandleTurnCompleted, AppendHeard, LoseHeard, StartRun,
         RunnerAsks, Quiescent, vars, upstream, speech
  <1>7. UserTurnStarted \/ PushAggregation \/ PushNothing \/ PersistAndRun
          => /\ UNCHANGED <<toTTS, tts, toOut, toAA, completions>>
             /\ minted' = minted \/ minted' = minted + 1
    BY DEF UserTurnStarted, PushAggregation, PushNothing, PersistAndRun, speech
  <1> QED
    BY <1>2, <1>3, <1>4, <1>5, <1>6, <1>7
    DEF Next, System, InputTask, ProcessTask, Runner, User

\* Shorter queues tell of no new words, and an append tells of the frame's.
LEMMA WordsInShorter ==
  ASSUME NEW S, NEW q \in Seq(S)
  PROVE  /\ q # <<>> => \A t : WordsIn(Tail(q), t) => WordsIn(q, t)
         /\ \A i \in DOMAIN q : \A t : WordsIn(Behind(q, i), t) => WordsIn(q, t)
         /\ \A i \in DOMAIN q : \A t : WordsIn(RemoveAt(q, i), t) => WordsIn(q, t)
  <1>1. q # <<>> => \A t : WordsIn(Tail(q), t) => WordsIn(q, t)
    <2>1. \A k \in DOMAIN Tail(q) : q # <<>> =>
            k + 1 \in DOMAIN q /\ Tail(q)[k] = q[k + 1]
      OBVIOUS
    <2> QED
      BY <2>1 DEF WordsIn
  <1>2. ASSUME NEW i \in DOMAIN q
        PROVE  \A t : WordsIn(Behind(q, i), t) => WordsIn(q, t)
    <2>1. \A k \in DOMAIN Behind(q, i) : k + i \in DOMAIN q /\ Behind(q, i)[k] = q[k + i]
      BY DEF Behind
    <2> QED
      BY <2>1 DEF WordsIn
  <1>3. ASSUME NEW i \in DOMAIN q
        PROVE  \A t : WordsIn(RemoveAt(q, i), t) => WordsIn(q, t)
    <2>1. \A k \in DOMAIN RemoveAt(q, i) : \E m \in DOMAIN q : RemoveAt(q, i)[k] = q[m]
      <3> DEFINE r == RemoveAt(q, i)
      <3>1. r \in Seq(S) /\ Len(r) = Len(q) - 1
        BY RemoveAtType, RemoveAtItems
      <3>2. \A k \in 1 .. Len(q) - 1 : r[k] = q[k] \/ r[k] = q[k + 1]
        BY RemoveAtItems
      <3> HIDE DEF r
      <3>3. \A k \in DOMAIN r : k \in DOMAIN q /\ k + 1 \in DOMAIN q
        BY <3>1
      <3>4. \A k \in DOMAIN r : r[k] = q[k] \/ r[k] = q[k + 1]
        BY <3>1, <3>2
      <3>5. \A k \in DOMAIN r : \E m \in DOMAIN q : r[k] = q[m]
        BY <3>3, <3>4
      <3> QED
        BY <3>5 DEF r
    <2> QED
      BY <2>1 DEF WordsIn
  <1> QED
    BY <1>1, <1>2, <1>3

LEMMA WordsInAppend ==
  ASSUME NEW S, NEW q \in Seq(S), NEW f \in S, NEW t, WordsIn(Append(q, f), t)
  PROVE  WordsIn(q, t) \/ Tells(f, t)
  <1>1. \A k \in DOMAIN Append(q, f) :
          Append(q, f)[k] = f \/ (k \in DOMAIN q /\ Append(q, f)[k] = q[k])
    OBVIOUS
  <1> QED
    BY <1>1 DEF WordsIn

LEMMA SpeechInAppend ==
  ASSUME NEW S, NEW q \in Seq(S), NEW s \in S, NEW t, SpeechOf(Append(q, s), t)
  PROVE  SpeechOf(q, t) \/ s.turn = t
  <1>1. \A k \in DOMAIN Append(q, s) :
          Append(q, s)[k] = s \/ (k \in DOMAIN q /\ Append(q, s)[k] = q[k])
    OBVIOUS
  <1> QED
    BY <1>1 DEF SpeechOf

\* Only its own run makes a turn speak.
LEMMA WordsPushed ==
  ASSUME TypeOK, NEW s, PushedBy(run, s), NEW t, WordsIn(toTTS \o s, t)
  PROVE  WordsIn(toTTS, t) \/ (run # Idle /\ run.turn = t)
  <1>1. toTTS \in Seq(TTSFrame) /\ s \in Seq(TTSFrame)
    BY DEF TypeOK, SpeechTypeOK, PushedBy
  <1>2. \A k \in DOMAIN (toTTS \o s) :
          \/ k \in DOMAIN toTTS /\ (toTTS \o s)[k] = toTTS[k]
          \/ /\ k - Len(toTTS) \in 1 .. Len(s)
             /\ (toTTS \o s)[k] = s[k - Len(toTTS)]
    BY <1>1
  <1> QED
    BY <1>2 DEF WordsIn, Tells, PushedBy

\* Downstream of the LLM service the words are only passed on, or dropped.
LEMMA TTSPassesWords ==
  ASSUME TypeOK, NEW t \in Turns, TTS, Voiced(t)'
  PROVE  Voiced(t)
  <1>1. /\ toTTS \in Seq(TTSFrame) /\ toOut \in Seq(OutFrame)
        /\ UNCHANGED <<toAA, spoken, completions>>
    BY DEF TypeOK, SpeechTypeOK, TTS, TTSStart, TTSText, TTSEnd, TTSInterrupted
  <1>2. ASSUME WordsIn(toTTS', t) => WordsIn(toTTS, t),
               WordsIn(toOut', t) => WordsIn(toOut, t) \/ WordsIn(toTTS, t)
        PROVE  Voiced(t)
    BY <1>1, <1>2 DEF Voiced, ReportsOn
  <1>3. CASE TTSStart
    <2>1. toTTS # <<>> /\ toTTS' = Tail(toTTS) /\ toOut' = toOut
      BY <1>3 DEF TTSStart
    <2> QED
      BY <1>1, <1>2, <2>1, WordsInShorter
  <1>4. CASE TTSText
    <2> DEFINE s == [turn |-> Head(toTTS).turn, n |-> Head(toTTS).n]
               f == SpokenText(s)
    <2>1. toTTS # <<>> /\ toTTS' = Tail(toTTS) /\ toOut' = Append(toOut, f)
      BY <1>4 DEF TTSText
    <2>2. toOut' \in Seq(OutFrame)
      BY <1>4, SpeechType DEF TTS, TypeOK, SpeechTypeOK
    <2>3. Tells(f, t) => WordsIn(toTTS, t)
      <3>1. Head(toTTS) = toTTS[1] /\ 1 \in DOMAIN toTTS
        BY <1>1, <2>1
      <3> QED
        BY <1>4, <3>1 DEF TTSText, Tells, WordsIn, SpokenText
    <2> HIDE DEF f, s
    <2>4. \A k \in DOMAIN toOut' : toOut'[k] = f \/ (k \in DOMAIN toOut /\ toOut'[k] = toOut[k])
      BY <1>1, <2>1, <2>2
    <2>5. WordsIn(toOut', t) => WordsIn(toOut, t) \/ WordsIn(toTTS, t)
      BY <2>3, <2>4 DEF WordsIn
    <2> QED
      BY <1>1, <1>2, <2>1, <2>5, WordsInShorter
  <1>5. CASE TTSEnd
    <2> DEFINE f == SpeechStopped(tts.context)
    <2>1. /\ toTTS # <<>> /\ toTTS' = Tail(toTTS)
          /\ toOut' = toOut \/ toOut' = Append(toOut, f)
      BY <1>5 DEF TTSEnd
    <2>2. f \in OutFrame /\ ~Tells(f, t)
      BY DEF TypeOK, SpeechTypeOK, SpeechStopped, OutFrame, Tells
    <2> HIDE DEF f
    <2>3. WordsIn(toOut', t) => WordsIn(toOut, t)
      BY <1>1, <2>1, <2>2, WordsInAppend
    <2> QED
      BY <1>1, <1>2, <2>1, <2>3, WordsInShorter
  <1>6. CASE TTSInterrupted
    <2>1. PICK i \in DOMAIN toTTS : /\ FirstInterruption(toTTS, i)
                                    /\ toTTS' = Behind(toTTS, i)
                                    /\ toOut' = Append(toOut, toTTS[i])
      BY <1>6 DEF TTSInterrupted
    <2>2. toTTS[i] \in OutFrame /\ ~Tells(toTTS[i], t)
      BY <1>1, <2>1, InterruptionFrames DEF FirstInterruption, Tells
    <2>3. WordsIn(toOut', t) => WordsIn(toOut, t)
      BY <1>1, <2>1, <2>2, WordsInAppend
    <2> QED
      BY <1>1, <1>2, <2>1, <2>3, WordsInShorter
  <1> QED
    BY <1>3, <1>4, <1>5, <1>6 DEF TTS

LEMMA OutputPassesWords ==
  ASSUME TypeOK, NEW t \in Turns, Output, Voiced(t)'
  PROVE  Voiced(t)
  <1>1. /\ toOut \in Seq(OutFrame) /\ toAA \in Seq(OutFrame)
        /\ UNCHANGED <<toTTS, spoken, completions>>
    BY DEF TypeOK, SpeechTypeOK, Output, PlaySentence, OutputStopped, OutputInterrupted
  <1>2. CASE PlaySentence \/ OutputStopped
    <2>1. /\ toOut # <<>> /\ toOut' = Tail(toOut) /\ toAA' = Append(toAA, toOut[1])
          /\ 1 \in DOMAIN toOut /\ toOut[1] \in OutFrame
      BY <1>1, <1>2 DEF PlaySentence, OutputStopped
    <2>2. WordsIn(toAA', t) => WordsIn(toAA, t) \/ WordsIn(toOut, t)
      BY <1>1, <2>1, WordsInAppend DEF WordsIn
    <2>3. WordsIn(toOut', t) => WordsIn(toOut, t)
      BY <1>1, <2>1, WordsInShorter
    <2> QED
      BY <1>1, <2>2, <2>3 DEF Voiced, ReportsOn
  <1>3. CASE OutputInterrupted
    <2>1. PICK i \in DOMAIN toOut : /\ toOut' = Behind(toOut, i)
                                    /\ toAA' = Append(toAA, toOut[i])
      BY <1>3 DEF OutputInterrupted
    <2>2. toOut[i] \in OutFrame
      BY <1>1
    <2>3. WordsIn(toAA', t) => WordsIn(toAA, t) \/ WordsIn(toOut, t)
      BY <1>1, <2>1, <2>2, WordsInAppend DEF WordsIn
    <2>4. WordsIn(toOut', t) => WordsIn(toOut, t)
      BY <1>1, <2>1, WordsInShorter
    <2> QED
      BY <1>1, <2>3, <2>4 DEF Voiced, ReportsOn
  <1> QED
    BY <1>2, <1>3 DEF Output

LEMMA AssistantPassesWords ==
  ASSUME TypeOK, NEW t \in Turns, Assistant, Voiced(t)'
  PROVE  Voiced(t)
  <1>1. /\ toAA \in Seq(OutFrame) /\ spoken \in Seq(Sentence)
        /\ completions \in Seq(TurnCompleted) /\ UNCHANGED <<toTTS, toOut>>
    BY DEF TypeOK, SpeechTypeOK, Assistant, AggregateText, TurnStopped, AAInterrupted,
           AAPlainInterrupted
  <1>2. ASSUME NEW u, NEW b, TriggerTurnStopped(u, b)
        PROVE  /\ ~SpeechOf(spoken', t)
               /\ ReportsOn(t)' => ReportsOn(t) \/ SpeechOf(spoken, t)
    <2>1. ~SpeechOf(spoken', t)
      BY <1>2 DEF TriggerTurnStopped, SpeechOf
    <2> DEFINE c == [turn |-> u, text |-> spoken, interrupted |-> b]
    <2>2. completions' = completions \/ completions' = Append(completions, c)
      BY <1>1, <1>2 DEF TriggerTurnStopped, Report
    <2>3. c.text = spoken
      OBVIOUS
    <2> HIDE DEF c
    <2>4. \A k \in DOMAIN completions' :
            completions'[k] = c \/ (k \in DOMAIN completions /\ completions'[k] = completions[k])
      <3>1. CASE completions' = completions
        BY <3>1
      <3>2. CASE completions' = Append(completions, c)
        BY <1>1, <3>2
      <3> QED
        BY <2>2, <3>1, <3>2
    <2>5. ReportsOn(t)' => ReportsOn(t) \/ SpeechOf(spoken, t)
      BY <2>3, <2>4 DEF ReportsOn
    <2> QED
      BY <2>1, <2>5
  <1>3. CASE AggregateText
    <2>1. /\ toAA # <<>> /\ toAA' = Tail(toAA) /\ completions' = completions
          /\ 1 \in DOMAIN toAA /\ toAA[1].type = "TTSText"
          /\ spoken' = Append(spoken, toAA[1].sentence) /\ toAA[1] \in OutFrame
      BY <1>1, <1>3 DEF AggregateText
    <2>2. toAA[1].sentence \in Sentence
      BY <2>1 DEF OutFrame, InterruptionFrame
    <2>3. SpeechOf(spoken', t) => SpeechOf(spoken, t) \/ toAA[1].sentence.turn = t
      BY <1>1, <2>1, <2>2, SpeechInAppend
    <2>4. toAA[1].sentence.turn = t => WordsIn(toAA, t)
      BY <2>1 DEF WordsIn, Tells
    <2>5. WordsIn(toAA', t) => WordsIn(toAA, t)
      BY <1>1, <2>1, WordsInShorter
    <2> QED
      BY <1>1, <2>1, <2>3, <2>4, <2>5 DEF Voiced, ReportsOn
  <1>4. CASE TurnStopped
    <2>1. /\ toAA # <<>> /\ toAA' = Tail(toAA)
          /\ TriggerTurnStopped(Head(toAA).turn, FALSE)
      BY <1>4 DEF TurnStopped
    <2> QED
      BY <1>1, <1>2, <2>1, WordsInShorter DEF Voiced
  <1>5. CASE AAInterrupted
    <2>1. PICK i \in DOMAIN toAA : /\ toAA' = RemoveAt(toAA, i)
                                   /\ TriggerTurnStopped(toAA[i].turn, TRUE)
      BY <1>5 DEF AAInterrupted
    <2> QED
      BY <1>1, <1>2, <2>1, WordsInShorter DEF Voiced
  <1>6. CASE AAPlainInterrupted
    <2>1. /\ \E i \in DOMAIN toAA : toAA' = Behind(toAA, i)
          /\ UNCHANGED <<spoken, completions>>
      BY <1>6 DEF AAPlainInterrupted
    <2>2. WordsIn(toAA', t) => WordsIn(toAA, t)
      BY <1>1, <2>1, WordsInShorter
    <2> QED
      BY <1>1, <2>1, <2>2 DEF Voiced, ReportsOn
  <1> QED
    BY <1>3, <1>4, <1>5, <1>6 DEF Assistant

\* A turn that speaks for the first time is the one of the run, which has got an
\* event.
LEMMA VoicedByRun ==
  ASSUME TypeOK, [Next]_vars, NEW t \in Turns, Voiced(t)'
  PROVE  Voiced(t) \/ (PartialEvent /\ run.turn = t /\ run'.turn = t)
  <1>1. CASE TTS \/ Output \/ Assistant
    BY <1>1, TTSPassesWords, OutputPassesWords, AssistantPassesWords
  <1>2. CASE UNCHANGED <<toTTS, toOut, toAA, spoken, completions>>
    BY <1>2 DEF Voiced, ReportsOn
  <1>3. toTTS \in Seq(TTSFrame) /\ run \in Run \cup {Idle}
    BY DEF TypeOK, ServiceTypeOK, SpeechTypeOK
  <1>4. CASE PartialEvent
    <2>1. PICK s : PushedBy(run, s) /\ toTTS' = toTTS \o s /\ run'.turn = run.turn
      BY <1>4, PartialPushes
    <2>2. UNCHANGED <<toOut, toAA, spoken, completions>>
      BY <1>4 DEF PartialEvent
    <2>3. WordsIn(toTTS', t) => WordsIn(toTTS, t) \/ run.turn = t
      BY <2>1, WordsPushed
    <2> QED
      BY <1>4, <2>1, <2>2, <2>3 DEF Voiced, ReportsOn
  <1>5. ASSUME NEW s \in Seq(TTSFrame), toTTS' = toTTS \o s,
               \A k \in 1 .. Len(s) : ~Tells(s[k], t),
               UNCHANGED <<toOut, toAA, spoken, completions>>
        PROVE  Voiced(t)
    <2>1. \A k \in DOMAIN toTTS' :
            \/ k \in DOMAIN toTTS /\ toTTS'[k] = toTTS[k]
            \/ /\ k - Len(toTTS) \in 1 .. Len(s)
               /\ toTTS'[k] = s[k - Len(toTTS)]
      BY <1>3, <1>5
    <2>2. WordsIn(toTTS', t) => WordsIn(toTTS, t)
      BY <1>5, <2>1 DEF WordsIn
    <2> QED
      BY <1>5, <2>2 DEF Voiced, ReportsOn
  <1>6. ASSUME NEW r \in Run
        PROVE  /\ \A k \in 1 .. Len(Cleanup(r)) : ~Tells(Cleanup(r)[k], t)
               /\ \A k \in 1 .. Len(StartFrames(r)) : ~Tells(StartFrames(r)[k], t)
    BY DEF Cleanup, StartFrames, ResponseStart, ResponseEnd, Tells
  <1>7. \A k \in 1 .. Len(CancelledRun(run)) : ~Tells(CancelledRun(run)[k], t)
    BY <1>3, <1>6 DEF CancelledRun
  <1>8. CASE FinalEvent \/ EndRun
    <2>1. run \in Run
      BY <1>3, <1>8 DEF FinalEvent, EndRun, Idle
    <2>2. PICK s \in {StartFrames(run), Cleanup(run)} : toTTS' = toTTS \o s
      BY <1>8 DEF FinalEvent, EndRun
    <2>3. s \in Seq(TTSFrame)
      BY <2>1, CleanupType, StartFramesType
    <2>4. UNCHANGED <<toOut, toAA, spoken, completions>>
      BY <1>8 DEF FinalEvent, EndRun
    <2> QED
      BY <1>5, <1>6, <2>1, <2>2, <2>3, <2>4
  <1>9. CASE Shutdown
    BY <1>3, <1>5, <1>7, <1>9, CancelledRunType DEF Shutdown
  <1>10. CASE LLMInterrupted
    <2>1. PICK f : f.type = "Interruption" /\ f \in DownFrame
                   /\ toTTS' = (toTTS \o CancelledRun(run)) \o <<f>>
      BY <1>10, InterruptionTaken DEF TypeOK
    <2>2. f \in TTSFrame /\ ~Tells(f, t) /\ CancelledRun(run) \in Seq(TTSFrame)
      BY <1>3, <2>1, InterruptionFrames, CancelledRunType DEF Tells
    <2> DEFINE s == CancelledRun(run) \o <<f>>
    <2>3. s \in Seq(TTSFrame) /\ toTTS' = toTTS \o s
      BY <1>3, <2>1, <2>2
    <2>4. \A k \in 1 .. Len(s) : s[k] = f \/ (k \in 1 .. Len(CancelledRun(run))
                                              /\ s[k] = CancelledRun(run)[k])
      BY <2>2
    <2>5. UNCHANGED <<toOut, toAA, spoken, completions>>
      BY <1>10 DEF LLMInterrupted
    <2> HIDE DEF s
    <2> QED
      BY <1>5, <1>7, <2>2, <2>3, <2>4, <2>5
  <1>11. RouteContext \/ HandleTurnCompleted \/ AppendHeard \/ LoseHeard \/ StartRun
           \/ RunnerAsks \/ UserTurnStarted \/ PushAggregation \/ PushNothing
           \/ PersistAndRun \/ Quiescent \/ UNCHANGED vars
           => UNCHANGED <<toTTS, toOut, toAA, spoken, completions>>
    BY DEF RouteContext, HandleTurnCompleted, AppendHeard, LoseHeard, StartRun,
           RunnerAsks, UserTurnStarted, PushAggregation, PushNothing, PersistAndRun,
           Quiescent, vars, speech
  <1> QED
    BY <1>1, <1>2, <1>4, <1>8, <1>9, <1>10, <1>11
    DEF Next, System, InputTask, ProcessTask, Runner, User

LEMMA VoicedInductive ==
  ASSUME TypeOK, Bookkeeping, VoicedAreDone, [Next]_vars
  PROVE  VoicedAreDone'
  <1>0. run \in Run \cup {Idle} /\ minted \in Nat
    BY DEF TypeOK, UserTypeOK, ServiceTypeOK
  <1>1. minted' = minted \/ minted' = minted + 1
    <2>1. InputTask \/ ProcessTask => minted' = minted
      BY DEF InputTask, RouteContext, LLMInterrupted, HandleTurnCompleted, AppendHeard,
             LoseHeard, ProcessTask, StartRun, Runner, RunnerAsks, PartialEvent,
             FinalEvent, EndRun
    <2>2. User => minted' = minted \/ minted' = minted + 1
      BY DEF User, UserTurnStarted, PushAggregation, PushNothing, PersistAndRun, Shutdown
    <2>3. TTS \/ Output \/ Assistant \/ Quiescent \/ UNCHANGED vars => minted' = minted
      BY DownstreamSteps DEF upstream, Quiescent, vars
    <2> QED
      BY <2>1, <2>2, <2>3 DEF Next, System
  <1> SUFFICES ASSUME NEW t \in Turns, Voiced(t)'
               PROVE  t <= minted' /\ ~Pending(t)'
    BY DEF VoicedAreDone
  <1>2. t \in Nat
    BY DEF Turns
  <1>3. CASE Voiced(t)
    <2>1. t <= minted /\ ~Pending(t)
      BY <1>3 DEF VoicedAreDone
    <2> QED
      BY <1>0, <1>1, <1>2, <2>1, PendingShrinks
  <1>4. CASE PartialEvent /\ run.turn = t
    <2>1. run'.phase = "streaming" /\ UNCHANGED <<minted, down, procQ>>
      BY <1>0, <1>4 DEF PartialEvent, Run, Idle
    <2>2. t <= minted /\ ~Pending(t)'
      BY <1>4, <2>1
      DEF Bookkeeping, KnownAreMinted, QueuedAreFresh, Pending, InProcQ, ContextAt
    <2> QED
      BY <2>1, <2>2
  <1> QED
    BY <1>3, <1>4, VoicedByRun

\* The aggregator adds the same reports to the history and to the way up.
LEMMA ReportsGrow ==
  ASSUME TypeOK, UpIsTheRest, Assistant
  PROVE  /\ UpIsTheRest' /\ Handled' = Handled
         /\ \A j \in DOMAIN completions :
              j \in DOMAIN completions' /\ completions'[j] = completions[j]
         /\ \A j \in DOMAIN up : j \in DOMAIN up' /\ up'[j] = up[j]
         /\ \A j \in DOMAIN completions' : j \notin DOMAIN completions =>
              \E i \in DOMAIN up' : up'[i] = completions'[j]
  <1>1. up \in Seq(TurnCompleted) /\ completions \in Seq(TurnCompleted)
    BY DEF TypeOK, SpeechTypeOK
  <1>2. \E R \in Seq(TurnCompleted) : up' = up \o R /\ completions' = completions \o R
    <2>1. \A t \in Turns \cup {NoTurn} : \A b \in BOOLEAN : Report(t, b) \in Seq(TurnCompleted)
      <3>1. \A t \in Turns \cup {NoTurn} : \A b \in BOOLEAN :
              [turn |-> t, text |-> spoken, interrupted |-> b] \in TurnCompleted
        BY DEF TurnCompleted, TypeOK, SpeechTypeOK
      <3> QED
        BY <3>1 DEF Report
    <2>2. \A f \in OutFrame : f.type # "TTSText" => f.turn \in Turns \cup {NoTurn}
      BY DEF OutFrame, InterruptionFrame
    <2>3. CASE AggregateText \/ AAPlainInterrupted
      <3>1. /\ <<>> \in Seq(TurnCompleted) /\ up' = up \o <<>>
            /\ completions' = completions \o <<>>
        BY <1>1, <2>3 DEF AggregateText, AAPlainInterrupted
      <3> QED
        BY <3>1
    <2>4. CASE TurnStopped
      <3>1. Head(toAA) \in OutFrame /\ Head(toAA).type = "TTSStopped"
        BY <2>4 DEF TurnStopped, TypeOK, SpeechTypeOK
      <3> QED
        BY <2>1, <2>2, <2>4, <3>1 DEF TurnStopped, TriggerTurnStopped
    <2>5. CASE AAInterrupted
      <3>1. PICK i \in DOMAIN toAA : /\ toAA[i].type = "Interruption"
                                     /\ TriggerTurnStopped(toAA[i].turn, TRUE)
        BY <2>5 DEF AAInterrupted, FirstInterruption
      <3>2. toAA[i] \in OutFrame
        BY DEF TypeOK, SpeechTypeOK
      <3> QED
        BY <2>1, <2>2, <3>1, <3>2 DEF TriggerTurnStopped
    <2> QED
      BY <2>3, <2>4, <2>5 DEF Assistant
  <1>3. PICK R \in Seq(TurnCompleted) : up' = up \o R /\ completions' = completions \o R
    BY <1>2
  <1>4. /\ Len(up') = Len(up) + Len(R) /\ Len(completions') = Len(completions) + Len(R)
        /\ Len(up) \in Nat /\ Len(R) \in Nat /\ Len(completions) \in Nat
        /\ Len(up) <= Len(completions)
    BY <1>1, <1>3 DEF UpIsTheRest
  <1>5. /\ \A j \in 1 .. Len(up) : up'[j] = up[j]
        /\ \A j \in 1 .. Len(R) : up'[Len(up) + j] = R[j]
        /\ \A j \in 1 .. Len(completions) : completions'[j] = completions[j]
        /\ \A j \in 1 .. Len(R) : completions'[Len(completions) + j] = R[j]
    BY <1>1, <1>3
  <1>6. /\ DOMAIN up' = 1 .. Len(up') /\ DOMAIN completions' = 1 .. Len(completions')
        /\ DOMAIN up = 1 .. Len(up) /\ DOMAIN completions = 1 .. Len(completions)
    BY <1>1, <1>3
  <1>7. Handled' = Handled /\ Handled \in Nat
    BY <1>4 DEF Handled
  <1>8. ASSUME NEW i \in 1 .. Len(up')
        PROVE  up'[i] = completions'[Handled + i]
    <2>1. CASE i <= Len(up)
      <3>1. i \in 1 .. Len(up) /\ Handled + i \in 1 .. Len(completions)
        BY <1>4, <2>1 DEF Handled
      <3> QED
        BY <1>5, <1>6, <3>1 DEF UpIsTheRest
    <2>2. CASE i > Len(up)
      <3>1. /\ i - Len(up) \in 1 .. Len(R) /\ Len(up) + (i - Len(up)) = i
            /\ Len(completions) + (i - Len(up)) = Handled + i
        BY <1>4, <2>2 DEF Handled
      <3> QED
        BY <1>5, <3>1
    <2> QED
      BY <1>4, <2>1, <2>2
  <1>9. UpIsTheRest'
    BY <1>4, <1>6, <1>7, <1>8 DEF UpIsTheRest
  <1>10. ASSUME NEW j \in DOMAIN completions', j \notin DOMAIN completions
         PROVE  \E i \in DOMAIN up' : up'[i] = completions'[j]
    <2> DEFINE k == j - Len(completions)
    <2>1. k \in 1 .. Len(R) /\ Len(completions) + k = j /\ Len(up) + k \in 1 .. Len(up')
      BY <1>4, <1>6, <1>10
    <2> QED
      BY <1>5, <1>6, <2>1
  <1> QED
    BY <1>4, <1>5, <1>6, <1>7, <1>9, <1>10

\* The report at the head of up becomes the last one handled.
LEMMA ReportHandled ==
  ASSUME TypeOK, UpIsTheRest, HandleTurnCompleted
  PROVE  /\ UpIsTheRest' /\ Handled' = Handled + 1 /\ Handled \in Nat
         /\ Handled + 1 \in DOMAIN completions
         /\ completions[Handled + 1] = Head(up) /\ Head(up) \in TurnCompleted
         /\ completions' = completions
  <1>1. /\ up \in Seq(TurnCompleted) /\ completions \in Seq(TurnCompleted)
        /\ up # <<>> /\ up' = Tail(up) /\ completions' = completions
    BY DEF HandleTurnCompleted, TypeOK, SpeechTypeOK
  <1>2. /\ Head(up) = up[1] /\ 1 \in DOMAIN up /\ Len(up') = Len(up) - 1 /\ Len(up) \in Nat
        /\ \A i \in DOMAIN up' : i + 1 \in DOMAIN up /\ up'[i] = up[i + 1] /\ i \in Nat
        /\ Len(completions) \in Nat /\ DOMAIN completions = 1 .. Len(completions)
        /\ Head(up) \in TurnCompleted /\ Len(up) > 0
    BY <1>1
  <1>3. Handled' = Handled + 1 /\ Handled \in Nat /\ Handled + 1 \in DOMAIN completions
    BY <1>1, <1>2 DEF Handled, UpIsTheRest
  <1>4. \A i \in DOMAIN up' : up'[i] = completions[(Handled + 1) + i]
    <2> TAKE i \in DOMAIN up'
    <2>1. Handled + (i + 1) = (Handled + 1) + i
      BY <1>2, <1>3
    <2> QED
      BY <1>2, <2>1 DEF UpIsTheRest
  <1>5. UpIsTheRest'
    BY <1>1, <1>2, <1>3, <1>4 DEF UpIsTheRest
  <1> QED
    BY <1>1, <1>2, <1>3, <1>5 DEF UpIsTheRest

\* A report is as it was when the ones before it stay as they are.
LEMMA FirstReportStays ==
  ASSUME completions \in Seq(TurnCompleted), completions' \in Seq(TurnCompleted),
         \A j \in DOMAIN completions :
           j \in DOMAIN completions' /\ completions'[j] = completions[j],
         overtaken \subseteq overtaken'
  PROVE  /\ \A j \in DOMAIN completions : OwnWords(j)' <=> OwnWords(j)
         /\ \A j \in DOMAIN completions : FirstReport(j) => FirstReport(j)'
         /\ \A t, text : IsFirstReport(t, text) => IsFirstReport(t, text)'
  <1>1. \A j \in DOMAIN completions : OwnWords(j)' <=> OwnWords(j)
    BY DEF OwnWords
  <1>2. ASSUME NEW j \in DOMAIN completions, FirstReport(j)
        PROVE  FirstReport(j)'
    <2>1. \A k \in 1 .. j - 1 : k \in DOMAIN completions
      OBVIOUS
    <2> QED
      BY <1>1, <1>2, <2>1 DEF FirstReport
  <1> QED
    BY <1>1, <1>2 DEF IsFirstReport

\* Reports already handled name turns that have left the map.
LEMMA HandledInductive ==
  ASSUME TypeOK, ReportInv, [Next]_vars
  PROVE  UpIsTheRest' /\ HandledLeftTheMap'
  <1>0. /\ completions \in Seq(TurnCompleted) /\ up \in Seq(TurnCompleted)
        /\ invMap \in SUBSET Turns /\ run \in Run \cup {Idle}
    BY DEF TypeOK, ServiceTypeOK, SpeechTypeOK
  <1>h. \A j \in 1 .. Handled : j \in DOMAIN completions
    BY <1>0 DEF Handled
  <1>g. overtaken \subseteq overtaken'
    BY OvertakenGrows
  <1>1. CASE UNCHANGED <<up, completions>> /\ invMap' \subseteq invMap
    BY <1>g, <1>1 DEF ReportInv, UpIsTheRest, HandledLeftTheMap, Handled, OwnWords
  <1>2. CASE Assistant
    <2>1. invMap' = invMap
      BY <1>2, DownstreamSteps DEF upstream, llmVars
    <2>2. UpIsTheRest' /\ Handled' = Handled
      BY <1>2, ReportsGrow DEF ReportInv
    <2>3. \A j \in 1 .. Handled : completions'[j] = completions[j]
      BY <1>2, <1>h, ReportsGrow DEF ReportInv
    <2> QED
      BY <1>g, <2>1, <2>2, <2>3 DEF ReportInv, HandledLeftTheMap, OwnWords
  <1>3. CASE HandleTurnCompleted
    <2>1. /\ UpIsTheRest' /\ Handled' = Handled + 1 /\ Handled \in Nat
          /\ completions[Handled + 1] = Head(up) /\ completions' = completions
      BY <1>3, ReportHandled DEF ReportInv
    <2>2. invMap' = invMap \ {Head(up).turn}
      BY <1>3 DEF HandleTurnCompleted, Popped
    <2>3. \A j \in 1 .. Handled + 1 : j \in 1 .. Handled \/ j = Handled + 1
      BY <2>1
    <2>4. \A j \in DOMAIN completions : OwnWords(j)' <=> OwnWords(j)
      BY <2>1 DEF OwnWords
    <2> QED
      BY <1>g, <1>h, <2>1, <2>2, <2>3, <2>4 DEF ReportInv, HandledLeftTheMap
  <1>4. CASE PartialEvent \/ FinalEvent
    <2>1. UNCHANGED <<up, completions>> /\ invMap' = Learned(invMap, run)
      BY <1>4 DEF PartialEvent, FinalEvent
    <2>2. CASE invMap' = invMap
      BY <1>1, <2>1, <2>2
    <2>3. CASE invMap' # invMap
      <3>1. run.phase = "asked" /\ invMap' = invMap \cup {run.turn}
        BY <1>4, <2>1, <2>3 DEF PartialEvent, FinalEvent, Learned, Started
      <3>2. run.turn \in Turns /\ Pending(run.turn)
        BY <1>0, <3>1 DEF Run, Idle, Pending
      <3>3. ASSUME NEW j \in DOMAIN completions, completions[j].turn = run.turn
            PROVE  run.turn \in overtaken /\ ~OwnWords(j)
        <4>1. run.turn \in overtaken
          BY <3>2, <3>3 DEF ReportInv, NamedAreDone, Named, Reported
        <4>2. OwnWords(j) => Voiced(run.turn)
          BY <3>3 DEF OwnWords, Voiced, ReportsOn, SpeechOf
        <4> QED
          BY <3>2, <4>1, <4>2 DEF ReportInv, VoicedAreDone
      <3>4. \A j \in DOMAIN completions : OwnWords(j)' <=> OwnWords(j)
        BY <2>1 DEF OwnWords
      <3>5. UpIsTheRest' /\ Handled' = Handled /\ completions' = completions
        BY <2>1 DEF ReportInv, UpIsTheRest, Handled
      <3> QED
        BY <1>g, <1>h, <3>1, <3>3, <3>4, <3>5 DEF ReportInv, HandledLeftTheMap
    <2> QED
      BY <2>2, <2>3
  <1>5. CASE RouteContext \/ LLMInterrupted \/ AppendHeard \/ LoseHeard \/ StartRun
               \/ RunnerAsks \/ EndRun
    BY <1>1, <1>5 DEF RouteContext, LLMInterrupted, AppendHeard, LoseHeard, StartRun,
                      RunnerAsks, EndRun, speech
  <1>6. CASE User
    <2>1. UNCHANGED <<up, completions>>
      BY <1>6 DEF User, UserTurnStarted, PushAggregation, PushNothing, PersistAndRun,
                  Shutdown, speech
    <2>2. invMap' \subseteq invMap
      BY <1>6 DEF User, UserTurnStarted, PushAggregation, PushNothing, PersistAndRun,
                  Shutdown, Cleared, llmVars
    <2> QED
      BY <1>1, <2>1, <2>2
  <1>7. CASE TTS \/ Output \/ Quiescent \/ UNCHANGED vars
    <2>1. UNCHANGED <<up, completions>>
      BY <1>7 DEF TTS, TTSStart, TTSText, TTSEnd, TTSInterrupted, Output, PlaySentence,
                  OutputStopped, OutputInterrupted, Quiescent, vars, speech
    <2>2. UNCHANGED upstream
      BY <1>7, DownstreamSteps DEF Quiescent, vars
    <2> QED
      BY <1>1, <2>1, <2>2 DEF upstream, llmVars
  <1> QED
    BY <1>2, <1>3, <1>4, <1>5, <1>6, <1>7
    DEF Next, System, InputTask, ProcessTask, Runner

LEMMA ReportInductive ==
  ASSUME TypeOK, TypeOK', Bookkeeping, QueueInv, ReportInv, [Next]_vars
  PROVE  ReportInv'
  <1>0. /\ completions \in Seq(TurnCompleted) /\ completions' \in Seq(TurnCompleted)
        /\ session \in Seq(JournalEvent)
    BY DEF TypeOK, ServiceTypeOK, SpeechTypeOK
  <1>1. NamedAreDone' /\ VoicedAreDone' /\ UpIsTheRest' /\ HandledLeftTheMap'
    BY NamedInductive, VoicedInductive, HandledInductive DEF ReportInv
  <1>g. overtaken \subseteq overtaken'
    BY OvertakenGrows
  <1>2. \A t, text : IsFirstReport(t, text) => IsFirstReport(t, text)'
    <2>1. CASE completions' = completions
      BY <1>0, <1>g, <2>1, FirstReportStays
    <2>2. CASE Assistant
      BY <1>0, <1>g, <2>2, FirstReportStays, ReportsGrow DEF ReportInv
    <2>3. completions' = completions \/ Assistant
      <3>1. Quiescent \/ UNCHANGED vars \/ TTS \/ Output \/ InputTask
              => completions' = completions
        BY DEF Quiescent, vars, speech, TTS, TTSStart, TTSText, TTSEnd, TTSInterrupted,
               Output, PlaySentence, OutputStopped, OutputInterrupted, InputTask,
               RouteContext, LLMInterrupted, HandleTurnCompleted, AppendHeard, LoseHeard
      <3>2. ProcessTask \/ User => completions' = completions
        BY DEF speech, ProcessTask, StartRun, Runner, RunnerAsks, PartialEvent,
               FinalEvent, EndRun, User, UserTurnStarted, PushAggregation, PushNothing,
               PersistAndRun, Shutdown
      <3> QED
        BY <3>1, <3>2 DEF Next, System
    <2> QED
      BY <2>1, <2>2, <2>3
  <1>3. ASSUME heardWrite' # NoWrite, heardWrite' # heardWrite
        PROVE  IsFirstReport(heardWrite'.turn, heardWrite'.text)
    <2>1. HandleTurnCompleted
      <3>1. TTS \/ Output \/ Assistant \/ Quiescent \/ UNCHANGED vars
              => heardWrite' = heardWrite
        BY DownstreamSteps DEF upstream, llmVars, Quiescent, vars
      <3>2. ProcessTask \/ User => heardWrite' = heardWrite
        BY DEF llmVars, ProcessTask, StartRun, Runner, RunnerAsks, PartialEvent,
               FinalEvent, EndRun, User, UserTurnStarted, PushAggregation, PushNothing,
               PersistAndRun, Shutdown
      <3> QED
        BY <1>3, <3>1, <3>2
        DEF Next, System, InputTask, RouteContext, LLMInterrupted, AppendHeard, LoseHeard
    <2> DEFINE c == Head(up)
    <2>2. /\ heardWrite' = [turn |-> c.turn, text |-> c.text]
          /\ c.interrupted /\ c.turn \in invMap
      BY <1>3, <2>1 DEF HandleTurnCompleted, WritesHeard
    <2>3. /\ Handled \in Nat /\ Handled + 1 \in DOMAIN completions
          /\ completions[Handled + 1] = c /\ c \in TurnCompleted
      BY <2>1, ReportHandled DEF ReportInv
    <2> HIDE DEF c
    <2>4. FirstReport(Handled + 1)
      <3>1. (Handled + 1) - 1 = Handled
        BY <2>3
      <3> QED
        BY <2>2, <2>3, <3>1 DEF FirstReport, ReportInv, HandledLeftTheMap
    <2>5. c = [turn |-> c.turn, text |-> c.text, interrupted |-> TRUE]
      BY <2>2, <2>3 DEF TurnCompleted
    <2>6. heardWrite'.turn = c.turn /\ heardWrite'.text = c.text
      BY <2>2
    <2> QED
      BY <2>3, <2>4, <2>5, <2>6 DEF IsFirstReport
  <1>4. PICK t, text : heardWrite'.turn = t /\ heardWrite'.text = text
    OBVIOUS
  <1>5. heardWrite' # NoWrite => IsFirstReport(t, text)
    BY <1>3, <1>4 DEF ReportInv
  <1>6. (heardWrite # NoWrite => IsFirstReport(heardWrite.turn, heardWrite.text))'
    BY <1>2, <1>4, <1>5
  <1>7. HeardIsFirstReport'
    <2>1. \A i \in DOMAIN session' : session'[i].kind = "heard" =>
            IsFirstReport(session'[i].turn, session'[i].text)
      <3>1. CASE session' = session
        BY <3>1 DEF ReportInv, HeardIsFirstReport, IsFirstReport
      <3>2. ASSUME NEW e \in JournalEvent, session' = Append(session, e),
                   e.kind = "heard" => IsFirstReport(e.turn, e.text)
            PROVE  \A i \in DOMAIN session' : session'[i].kind = "heard" =>
                     IsFirstReport(session'[i].turn, session'[i].text)
        <4>1. \A i \in DOMAIN session' :
                session'[i] = e \/ (i \in DOMAIN session /\ session'[i] = session[i])
          BY <1>0, <3>2
        <4> QED
          BY <3>2, <4>1 DEF ReportInv, HeardIsFirstReport, IsFirstReport
      <3>3. CASE AppendHeard
        <4> DEFINE e == [kind |-> "heard", turn |-> heardWrite.turn,
                         text |-> heardWrite.text]
        <4>1. /\ session' = Append(session, e) /\ e.turn = heardWrite.turn
              /\ e.text = heardWrite.text /\ heardWrite # NoWrite
          BY <3>3 DEF AppendHeard
        <4>2. e \in JournalEvent
          BY <3>3 DEF AppendHeard, TypeOK, ServiceTypeOK, JournalEvent, HeardWrite
        <4> HIDE DEF e
        <4> QED
          BY <3>2, <4>1, <4>2 DEF ReportInv
      <3>4. CASE RunnerAsks \/ FinalEvent
        <4>1. run \in Run
          BY <3>4 DEF RunnerAsks, FinalEvent, Idle, TypeOK, ServiceTypeOK
        <4>2. \E e \in JournalEvent : session' = Append(session, e) /\ e.kind # "heard"
          <5>1. CASE RunnerAsks
            <6> DEFINE e == [kind |-> "user", turn |-> run.turn, text |-> <<>>]
            <6>1. e \in JournalEvent /\ e.kind # "heard" /\ session' = Append(session, e)
              BY <4>1, <5>1 DEF RunnerAsks, Run, JournalEvent
            <6> HIDE DEF e
            <6> QED
              BY <6>1
          <5>2. CASE FinalEvent
            <6>1. run.turn \in Turns /\ Response(run.turn, run.said) \in Seq(Sentence)
              BY <4>1, ResponseType DEF Run
            <6> DEFINE e == [kind |-> "model", turn |-> run.turn,
                             text |-> Response(run.turn, run.said)]
            <6>2. e \in JournalEvent /\ e.kind # "heard" /\ session' = Append(session, e)
              BY <5>2, <6>1 DEF FinalEvent, JournalEvent
            <6> HIDE DEF e
            <6> QED
              BY <6>2
          <5> QED
            BY <3>4, <5>1, <5>2
        <4> QED
          BY <3>2, <4>2
      <3>5. session' = session \/ AppendHeard \/ RunnerAsks \/ FinalEvent
        <4>1. TTS \/ Output \/ Assistant \/ Quiescent \/ UNCHANGED vars
                => session' = session
          BY DownstreamSteps DEF upstream, Quiescent, vars
        <4>2. InputTask \/ ProcessTask \/ User
                => session' = session \/ AppendHeard \/ RunnerAsks \/ FinalEvent
          BY DEF InputTask, ProcessTask, User, RouteContext, LLMInterrupted,
            HandleTurnCompleted, LoseHeard, StartRun, Runner, PartialEvent, EndRun,
            UserTurnStarted, PushAggregation, PushNothing, PersistAndRun, Shutdown
        <4> QED
          BY <4>1, <4>2 DEF Next, System
      <3> QED
        BY <3>1, <3>3, <3>4, <3>5
    <2> SUFFICES ASSUME NEW i \in DOMAIN session', session'[i].kind = "heard"
                 PROVE  \E j \in DOMAIN completions' :
                          /\ completions'[j] = [turn |-> session'[i].turn,
                                                text |-> session'[i].text,
                                                interrupted |-> TRUE]
                          /\ FirstReport(j)'
      BY DEF HeardIsFirstReport
    <2>2. PICK u, words : u = session'[i].turn /\ words = session'[i].text
      OBVIOUS
    <2>3. IsFirstReport(u, words)'
      BY <1>2, <2>1, <2>2
    <2> QED
      BY <2>2, <2>3 DEF IsFirstReport
  <1> QED
    BY <1>1, <1>6, <1>7 DEF ReportInv

LEMMA ReportInvHolds == Spec => []ReportInv
  <1>1. Init => ReportInv
    BY DEF Init, ReportInv, NamedAreDone, Named, NamedIn, Reported, NoTurn, Turns,
           VoicedAreDone, Voiced, WordsIn, SpeechOf, ReportsOn,
           UpIsTheRest, HandledLeftTheMap, Handled, HeardIsFirstReport
  <1>2. TypeOK /\ TypeOK' /\ Bookkeeping /\ JournalInv /\ ReportInv /\ [Next]_vars
          => ReportInv'
    BY ReportInductive DEF JournalInv
  <1> QED
    BY <1>1, <1>2, TypeCorrect, BookkeepingHolds, JournalInvHolds, PTL DEF Spec

\* A [HEARD] event repeats the first report of its turn, an interrupted one: a
\* turn reported as spoken to its end is not marked as cut short by an
\* interruption frame that names it later.  A report before it has no words of
\* the turn, and is there only if the interruption overtook the turn's context.
THEOREM HeardRepeatsFirstReport == Spec => []HeardIsFirstReport
  <1>1. ReportInv => HeardIsFirstReport
    BY DEF ReportInv
  <1> QED
    BY <1>1, ReportInvHolds, PTL

-----------------------------------------------------------------------------
(* The speech in a queue, and in the reports                                *)

\* What frame f has to say, and what the frames of q have.
Says(f) == IF f.type = "TTSText" THEN <<f.sentence>> ELSE <<>>

LEMMA SaysType ==
  ASSUME NEW f \in OutFrame
  PROVE  Says(f) \in Seq(Sentence)
  BY DEF OutFrame, InterruptionFrame, Says

SaidBy(q) == [i \in DOMAIN q |-> Says(q[i])]

LEMMA SpeechInIs ==
  ASSUME NEW q \in Seq(OutFrame)
  PROVE  /\ SpeechIn(q) = FlattenSeq(SaidBy(q))
         /\ SaidBy(q) \in Seq(Seq(Sentence))
         /\ Len(SaidBy(q)) = Len(q)
         /\ \A i \in 1 .. Len(q) : SaidBy(q)[i] = Says(q[i])
  <1>1. DOMAIN q = 1 .. Len(q) /\ Len(q) \in Nat /\ \A i \in 1 .. Len(q) : q[i] \in OutFrame
    OBVIOUS
  <1>2. \A i \in 1 .. Len(q) : Says(q[i]) \in Seq(Sentence)
    BY <1>1, SaysType
  <1>3. SpeechIn(q) = FlattenSeq(SaidBy(q))
    BY DEF SpeechIn, SaidBy, Says
  <1>4. SaidBy(q) = [i \in 1 .. Len(q) |-> Says(q[i])]
    BY <1>1 DEF SaidBy
  <1> QED
    BY <1>1, <1>2, <1>3, <1>4

LEMMA SpeechInConcat ==
  ASSUME NEW q \in Seq(OutFrame), NEW r \in Seq(OutFrame)
  PROVE  SpeechIn(q \o r) = SpeechIn(q) \o SpeechIn(r)
  <1> DEFINE c == q \o r
  <1>1. /\ c \in Seq(OutFrame) /\ Len(c) = Len(q) + Len(r) /\ c = q \o r
        /\ Len(q) \in Nat /\ Len(r) \in Nat
        /\ \A i \in 1 .. Len(q) : c[i] = q[i]
        /\ \A i \in 1 .. Len(r) : c[Len(q) + i] = r[i]
        /\ \A i \in 1 .. Len(c) : i \in 1 .. Len(q) \/ i - Len(q) \in 1 .. Len(r)
    OBVIOUS
  <1> HIDE DEF c
  <1> DEFINE Q == SaidBy(q)
             R == SaidBy(r)
             C == SaidBy(c)
  <1>2. /\ Q \in Seq(Seq(Sentence)) /\ Len(Q) = Len(q)
        /\ \A i \in 1 .. Len(q) : Q[i] = Says(q[i])
        /\ SpeechIn(q) = FlattenSeq(Q)
    BY SpeechInIs
  <1>3. /\ R \in Seq(Seq(Sentence)) /\ Len(R) = Len(r)
        /\ \A i \in 1 .. Len(r) : R[i] = Says(r[i])
        /\ SpeechIn(r) = FlattenSeq(R)
    BY SpeechInIs
  <1>4. /\ C \in Seq(Seq(Sentence)) /\ Len(C) = Len(c)
        /\ \A i \in 1 .. Len(c) : C[i] = Says(c[i])
        /\ SpeechIn(c) = FlattenSeq(C)
    BY <1>1, SpeechInIs
  <1> HIDE DEF Q, R, C
  <1>5. \A i \in 1 .. Len(Q) : C[i] = Q[i]
    <2>1. \A i \in 1 .. Len(q) : i \in 1 .. Len(c)
      BY <1>1
    <2> QED
      BY <1>1, <1>2, <1>4, <2>1
  <1>6. \A i \in 1 .. Len(R) : C[Len(Q) + i] = R[i]
    <2> SUFFICES ASSUME NEW i \in 1 .. Len(r)
                 PROVE  C[Len(q) + i] = R[i]
      BY <1>2, <1>3
    <2>1. Len(q) + i \in 1 .. Len(c) /\ c[Len(q) + i] = r[i]
      BY <1>1
    <2>2. C[Len(q) + i] = Says(c[Len(q) + i])
      BY <1>4, <2>1
    <2> QED
      BY <1>3, <2>1, <2>2
  <1>7. Q \o R = C
    <2>1. Len(C) = Len(Q) + Len(R)
      BY <1>1, <1>2, <1>3, <1>4
    <2> QED
      BY <1>2, <1>3, <1>4, <1>5, <1>6, <2>1, JoinedIs
  <1>8. FlattenSeq(Q \o R) = FlattenSeq(Q) \o FlattenSeq(R)
    BY <1>2, <1>3, FlattenConcat
  <1> QED
    BY <1>1, <1>2, <1>3, <1>4, <1>7, <1>8

LEMMA SpeechInOne ==
  ASSUME NEW f \in OutFrame
  PROVE  SpeechIn(<<f>>) = Says(f)
  <1> DEFINE q == <<f>>
             Q == SaidBy(q)
  <1>1. q \in Seq(OutFrame) /\ Len(q) = 1 /\ q[1] = f
    OBVIOUS
  <1>2. /\ Q \in Seq(Seq(Sentence)) /\ Len(Q) = 1
        /\ Q[1] = Says(f) /\ SpeechIn(q) = FlattenSeq(Q)
    <2> HIDE DEF q
    <2> QED
      BY <1>1, SpeechInIs
  <1> HIDE DEF Q
  <1>3. Q = <<Says(f)>>
    BY <1>2
  <1>4. FlattenSeq(<<Says(f)>>) = Says(f)
    BY SaysType, FlattenOne
  <1> QED
    BY <1>2, <1>3, <1>4

LEMMA SilentQueue ==
  ASSUME NEW q \in Seq(OutFrame), \A i \in 1 .. Len(q) : q[i].type # "TTSText"
  PROVE  SpeechIn(q) = <<>>
  <1>1. \A i \in 1 .. Len(q) : Says(q[i]) = <<>>
    BY DEF Says
  <1> DEFINE Q == SaidBy(q)
  <1>2. /\ Q \in Seq(Seq(Sentence)) /\ Len(Q) = Len(q)
        /\ \A i \in 1 .. Len(q) : Q[i] = Says(q[i])
        /\ SpeechIn(q) = FlattenSeq(Q)
    BY SpeechInIs
  <1> HIDE DEF Q
  <1>3. FlattenSeq(Q) = <<>>
    BY <1>1, <1>2, FlattenNothing
  <1> QED
    BY <1>2, <1>3

LEMMA SpeechInType ==
  ASSUME NEW q \in Seq(OutFrame)
  PROVE  SpeechIn(q) \in Seq(Sentence)
  BY SpeechInIs, FlattenType

\* What the reports cs have told.
Told(cs) == FlattenSeq([i \in DOMAIN cs |-> cs[i].text])

LEMMA ToldIs ==
  ASSUME NEW cs \in Seq(TurnCompleted)
  PROVE  /\ [i \in DOMAIN cs |-> cs[i].text] \in Seq(Seq(Sentence))
         /\ Told(cs) \in Seq(Sentence)
  <1>1. \A i \in 1 .. Len(cs) : cs[i].text \in Seq(Sentence)
    <2>1. \A e \in TurnCompleted : e.text \in Seq(Sentence)
      BY DEF TurnCompleted
    <2>2. \A i \in 1 .. Len(cs) : cs[i] \in TurnCompleted
      OBVIOUS
    <2> QED
      BY <2>1, <2>2
  <1>2. [i \in 1 .. Len(cs) |-> cs[i].text] \in Seq(Seq(Sentence))
    BY <1>1
  <1>3. DOMAIN cs = 1 .. Len(cs)
    OBVIOUS
  <1>4. [i \in DOMAIN cs |-> cs[i].text] \in Seq(Seq(Sentence))
    BY <1>2, <1>3
  <1> QED
    BY <1>4, FlattenType DEF Told

LEMMA ToldOneMore ==
  ASSUME NEW cs \in Seq(TurnCompleted), NEW r \in TurnCompleted
  PROVE  Told(cs \o <<r>>) = Told(cs) \o r.text
  <1>2. r.text \in Seq(Sentence)
    <2>1. \A e \in TurnCompleted : e.text \in Seq(Sentence)
      BY DEF TurnCompleted
    <2> QED
      BY <2>1
  <1> DEFINE c == cs \o <<r>>
             Q == [i \in DOMAIN cs |-> cs[i].text]
             R == <<r.text>>
             C == [i \in DOMAIN c |-> c[i].text]
  <1>1. /\ c \in Seq(TurnCompleted) /\ Len(c) = Len(cs) + 1 /\ Len(cs) \in Nat
        /\ DOMAIN c = 1 .. Len(c) /\ DOMAIN cs = 1 .. Len(cs)
        /\ \A i \in 1 .. Len(cs) : i \in 1 .. Len(c) /\ c[i] = cs[i]
        /\ Len(cs) + 1 \in 1 .. Len(c) /\ c[Len(cs) + 1] = r
    OBVIOUS
  <1>3. R \in Seq(Seq(Sentence)) /\ Len(R) = 1 /\ R[1] = r.text
    BY <1>2
  <1> HIDE DEF c
  <1>4. Q \in Seq(Seq(Sentence)) /\ C \in Seq(Seq(Sentence))
    BY <1>1, ToldIs
  <1>5. /\ Len(Q) = Len(cs) /\ \A i \in 1 .. Len(cs) : Q[i] = cs[i].text
        /\ Len(C) = Len(c) /\ \A i \in 1 .. Len(c) : C[i] = c[i].text
    BY <1>1
  <1>6. FlattenSeq(C) = Told(c) /\ FlattenSeq(Q) = Told(cs)
    BY DEF Told
  <1>7. FlattenSeq(R) = r.text
    BY <1>2, FlattenOne
  <1> HIDE DEF Q, R, C
  <1>8. Q \o R = C
    <2>1. \A i \in 1 .. Len(Q) : C[i] = Q[i]
      BY <1>1, <1>5
    <2>2. \A i \in 1 .. Len(R) : C[Len(Q) + i] = R[i]
      <3>1. \A i \in 1 .. Len(R) : i = 1
        BY <1>3
      <3>2. C[Len(Q) + 1] = R[1]
        BY <1>1, <1>3, <1>5
      <3> QED
        BY <3>1, <3>2
    <2>3. Len(C) = Len(Q) + Len(R)
      BY <1>1, <1>3, <1>5
    <2> QED
      BY <1>3, <1>4, <2>1, <2>2, <2>3, JoinedIs
  <1>9. FlattenSeq(Q \o R) = FlattenSeq(Q) \o FlattenSeq(R)
    BY <1>3, <1>4, FlattenConcat
  <1> QED
    BY <1>6, <1>7, <1>8, <1>9 DEF c

-----------------------------------------------------------------------------

\* The account of the speech, over its four parts.
Account(a, b, c, p) == (a \o b) \o c = p

\* A sentence goes from the queue to what is held, is added to the queue, or what
\* is held is reported.
LEMMA Moved ==
  ASSUME NEW S, NEW a \in Seq(S), NEW b \in Seq(S), NEW c \in Seq(S), NEW x \in Seq(S),
         NEW p
  PROVE  /\ Account(a, b, x \o c, p) => Account(a, b \o x, c, p)
         /\ Account(a, b, c, p) => Account(a, b, c \o x, p \o x)
         /\ Account(a, b, c, p) => Account(a \o b, <<>>, c, p)
  <1>1. (a \o b) \o (x \o c) = (a \o (b \o x)) \o c
    <2>1. (a \o b) \o (x \o c) = ((a \o b) \o x) \o c
      <3> DEFINE d == a \o b
      <3>1. d \in Seq(S)
        OBVIOUS
      <3> HIDE DEF d
      <3>2. d \o (x \o c) = (d \o x) \o c
        BY ONLY <3>1, x \in Seq(S), c \in Seq(S), SMTT(60)
      <3> QED
        BY <3>2 DEF d
    <2>2. (a \o b) \o x = a \o (b \o x)
      BY ONLY a \in Seq(S), b \in Seq(S), x \in Seq(S), SMTT(60)
    <2> QED
      BY <2>1, <2>2
  <1>2. (a \o b) \o (c \o x) = ((a \o b) \o c) \o x
    OBVIOUS
  <1>3. (a \o b) \o <<>> = a \o b
    OBVIOUS
  <1> QED
    BY <1>1, <1>2, <1>3 DEF Account

\* What the aggregator has reported, holds, and is about to get.
LEMMA AccountIs ==
  ASSUME NEW cs, NEW b, NEW q, NEW p
  PROVE  /\ cs = completions /\ b = spoken /\ q = toAA /\ p = played =>
              (SpeechAccountedFor <=> Account(Told(cs), b, SpeechIn(q), p))
         /\ cs = completions' /\ b = spoken' /\ q = toAA' /\ p = played' =>
              (SpeechAccountedFor' <=> Account(Told(cs), b, SpeechIn(q), p))
  BY DEF SpeechAccountedFor, Told, SpeechIn, Account

\* The sentence at the head of the queue is aggregated.
LEMMA AggregatedIsAccounted ==
  ASSUME TypeOK, SpeechAccountedFor, AggregateText
  PROVE  SpeechAccountedFor'
  <1> DEFINE h == Head(toAA)
             r == Tail(toAA)
             x == <<h.sentence>>
  <1>1. /\ toAA \in Seq(OutFrame) /\ toAA # <<>> /\ spoken \in Seq(Sentence)
        /\ completions \in Seq(TurnCompleted)
    BY DEF TypeOK, SpeechTypeOK, AggregateText
  <1>2. /\ h \in OutFrame /\ r \in Seq(OutFrame) /\ toAA = <<h>> \o r
    BY <1>1
  <1>3. /\ h.type = "TTSText" /\ toAA' = r /\ spoken' = Append(spoken, h.sentence)
        /\ completions' = completions /\ played' = played
    BY DEF AggregateText
  <1>4. Says(h) = x /\ h.sentence \in Sentence /\ x \in Seq(Sentence)
    <2> HIDE DEF h
    <2>1. Says(h) = x
      BY <1>3 DEF Says
    <2>2. h.sentence \in Sentence
      BY <1>2, <1>3 DEF OutFrame, InterruptionFrame
    <2> QED
      BY <2>1, <2>2
  <1> HIDE DEF h, r
  <1>5. spoken' = spoken \o x
    BY <1>1, <1>3, <1>4
  <1> HIDE DEF x
  <1>6. SpeechIn(toAA) = x \o SpeechIn(r)
    <2>1. <<h>> \in Seq(OutFrame)
      BY <1>2
    <2>2. SpeechIn(<<h>> \o r) = SpeechIn(<<h>>) \o SpeechIn(r)
      BY <1>2, <2>1, SpeechInConcat
    <2>3. SpeechIn(<<h>>) = x
      BY <1>2, <1>4, SpeechInOne
    <2> QED
      BY <1>2, <2>2, <2>3
  <1> DEFINE a == Told(completions)
             c == SpeechIn(r)
  <1>7. a \in Seq(Sentence) /\ c \in Seq(Sentence)
    BY <1>1, <1>2, ToldIs, SpeechInType
  <1>8. Account(a, spoken, x \o c, played)
    BY <1>6, AccountIs, Zenon
  <1> HIDE DEF a, c
  <1>9. Account(a, spoken \o x, c, played)
    BY <1>1, <1>4, <1>7, <1>8, Moved
  <1> USE DEF a, c
  <1> QED
    BY <1>3, <1>5, <1>9, AccountIs, Zenon

\* What is held is reported, and frames without speech leave the queue.
LEMMA ReportedIsAccounted ==
  ASSUME TypeOK, SpeechAccountedFor, NEW t \in Turns \cup {NoTurn}, NEW i \in BOOLEAN,
         TriggerTurnStopped(t, i), played' = played,
         NEW q, toAA' = q, SpeechIn(q) = SpeechIn(toAA)
  PROVE  SpeechAccountedFor'
  <1> DEFINE a == Told(completions)
             c == SpeechIn(toAA)
             m == [turn |-> t, text |-> spoken, interrupted |-> i]
  <1>1. /\ toAA \in Seq(OutFrame) /\ spoken \in Seq(Sentence)
        /\ completions \in Seq(TurnCompleted)
    BY DEF TypeOK, SpeechTypeOK
  <1>2. a \in Seq(Sentence) /\ c \in Seq(Sentence)
    BY <1>1, ToldIs, SpeechInType
  <1>3. m \in TurnCompleted /\ m.text = spoken
    BY <1>1 DEF TurnCompleted
  <1>4. spoken' = <<>> /\ completions' = completions \o Report(t, i)
    BY DEF TriggerTurnStopped
  <1>5. Account(a, spoken, c, played)
    BY AccountIs, Zenon
  <1>6. Told(completions') = a \o spoken
    <2>1. CASE spoken = <<>>
      <3>1. completions' = completions
        BY <1>1, <1>4, <2>1 DEF Report
      <3> HIDE DEF a
      <3>2. a \o spoken = a
        BY <1>2, <2>1
      <3> QED
        BY <3>1, <3>2 DEF a
    <2>2. CASE spoken # <<>>
      <3>1. completions' = completions \o <<m>>
        BY <1>4, <2>2 DEF Report
      <3> HIDE DEF m
      <3>2. Told(completions \o <<m>>) = Told(completions) \o m.text
        BY <1>1, <1>3, ToldOneMore
      <3> QED
        BY <1>3, <3>1, <3>2
    <2> QED
      BY <2>1, <2>2
  <1> HIDE DEF a, c, m
  <1>7. Account(a \o spoken, <<>>, c, played)
    BY <1>1, <1>2, <1>5, Moved
  <1>8. Account(Told(completions'), <<>>, SpeechIn(q), played)
    BY <1>6, <1>7 DEF c
  <1>9. ASSUME NEW cs, cs = completions'
        PROVE  SpeechAccountedFor'
    <2>1. Account(Told(cs), <<>>, SpeechIn(q), played)
      BY <1>8, <1>9, Zenon
    <2> QED
      BY <1>4, <1>9, <2>1, AccountIs, Zenon
  <1> QED
    BY <1>9, Zenon

\* A frame is queued, and if it holds a sentence, that has been played.
LEMMA QueuedIsAccounted ==
  ASSUME TypeOK, SpeechAccountedFor, NEW f \in OutFrame, toAA' = Append(toAA, f),
         played' = played \o Says(f), UNCHANGED <<spoken, completions>>
  PROVE  SpeechAccountedFor'
  <1> DEFINE a == Told(completions)
             c == SpeechIn(toAA)
             q == toAA \o <<f>>
             p == played \o Says(f)
  <1>1. /\ toAA \in Seq(OutFrame) /\ spoken \in Seq(Sentence)
        /\ completions \in Seq(TurnCompleted)
    BY DEF TypeOK, SpeechTypeOK
  <1>2. a \in Seq(Sentence) /\ c \in Seq(Sentence) /\ Says(f) \in Seq(Sentence)
    BY <1>1, ToldIs, SpeechInType, SaysType
  <1>3. toAA' = q
    BY <1>1
  <1>4. Account(a, spoken, c, played)
    BY AccountIs, Zenon
  <1>5. SpeechIn(q) = c \o Says(f)
    <2>1. <<f>> \in Seq(OutFrame)
      OBVIOUS
    <2>2. SpeechIn(toAA \o <<f>>) = SpeechIn(toAA) \o SpeechIn(<<f>>)
      BY <1>1, <2>1, SpeechInConcat
    <2> QED
      BY <2>2, SpeechInOne
  <1> HIDE DEF a, c, q
  <1>6. Account(a, spoken, c \o Says(f), p)
    BY <1>1, <1>2, <1>4, Moved
  <1> HIDE DEF p
  <1>7. Account(a, spoken, SpeechIn(q), p)
    BY <1>5, <1>6
  <1>8. p = played' /\ spoken' = spoken /\ completions' = completions
    BY DEF p
  <1> QED
    BY <1>3, <1>7, <1>8, AccountIs, Zenon DEF a

\* What does not touch the four leaves the account as it is.
LEMMA UntouchedIsAccounted ==
  ASSUME SpeechAccountedFor, UNCHANGED <<toAA, spoken, completions, played>>
  PROVE  SpeechAccountedFor'
  BY DEF SpeechAccountedFor, SpeechIn

\* Taking a frame without speech out of a queue.
LEMMA SilentFrameGoes ==
  ASSUME NEW q \in Seq(OutFrame), NEW i \in DOMAIN q, q[i].type # "TTSText"
  PROVE  SpeechIn(RemoveAt(q, i)) = SpeechIn(q)
  <1> DEFINE a == SubSeq(q, 1, i - 1)
             b == SubSeq(q, i + 1, Len(q))
             f == q[i]
  <1>1. /\ a \in Seq(OutFrame) /\ b \in Seq(OutFrame) /\ f \in OutFrame
        /\ <<f>> \in Seq(OutFrame)
    OBVIOUS
  <1>2. q = (a \o <<f>>) \o b
    BY CutAround
  <1>3. RemoveAt(q, i) = a \o b
    BY DEF RemoveAt
  <1>4. Says(f) = <<>>
    BY DEF Says
  <1> HIDE DEF a, b, f
  <1>5. a \o <<f>> \in Seq(OutFrame)
    BY <1>1
  <1>6. /\ SpeechIn((a \o <<f>>) \o b) = SpeechIn(a \o <<f>>) \o SpeechIn(b)
        /\ SpeechIn(a \o <<f>>) = SpeechIn(a) \o SpeechIn(<<f>>)
        /\ SpeechIn(a \o b) = SpeechIn(a) \o SpeechIn(b)
    BY <1>1, <1>5, SpeechInConcat
  <1>7. SpeechIn(<<f>>) = <<>>
    BY <1>1, <1>4, SpeechInOne
  <1>8. SpeechIn(a) \o <<>> = SpeechIn(a)
    <2>1. SpeechIn(a) \in Seq(Sentence)
      BY <1>1, SpeechInType
    <2> QED
      BY <2>1
  <1> QED
    BY <1>2, <1>3, <1>6, <1>7, <1>8

\* Dropping what is queued up to a frame, none of which has speech.
LEMMA SilentFramesGo ==
  ASSUME NEW q \in Seq(OutFrame), NEW i \in DOMAIN q,
         \A k \in 1 .. i : q[k].type # "TTSText"
  PROVE  SpeechIn(Behind(q, i)) = SpeechIn(q)
  <1> DEFINE a == SubSeq(q, 1, i)
             b == SubSeq(q, i + 1, Len(q))
  <1>1. /\ a \in Seq(OutFrame) /\ b \in Seq(OutFrame) /\ q = a \o b
        /\ \A k \in 1 .. Len(a) : k \in 1 .. i /\ a[k] = q[k]
    <2>1. q = a \o b
      BY CutAround
    <2>2. i \in 1 .. Len(q) /\ Len(q) \in Nat
      OBVIOUS
    <2>3. Len(a) = i /\ \A k \in 1 .. i : a[k] = q[k]
      BY <2>2
    <2>4. a \in Seq(OutFrame) /\ b \in Seq(OutFrame)
      BY <2>2
    <2> HIDE DEF a, b
    <2> QED
      BY <2>1, <2>3, <2>4
  <1>2. Behind(q, i) = b
    BY DEF Behind
  <1> HIDE DEF a, b
  <1>3. SpeechIn(a) = <<>>
    BY <1>1, SilentQueue
  <1>4. SpeechIn(a \o b) = SpeechIn(a) \o SpeechIn(b)
    BY <1>1, SpeechInConcat
  <1>5. <<>> \o SpeechIn(b) = SpeechIn(b)
    <2>1. SpeechIn(b) \in Seq(Sentence)
      BY <1>1, SpeechInType
    <2> QED
      BY <2>1
  <1> QED
    BY <1>1, <1>2, <1>3, <1>4, <1>5

\* Before the interruption that names no turn there is no speech, unless a turn
\* was injected.
LEMMA SilentBeforePlain ==
  ASSUME TypeOK, FramesInOrder, injected = {}, NEW i \in DOMAIN toAA,
         toAA[i].type = "Interruption", toAA[i].turn = NoTurn
  PROVE  \A k \in 1 .. i : toAA[k].type # "TTSText"
  <1>1. toAA \in Seq(OutFrame) /\ i \in 1 .. Len(toAA) /\ Len(toAA) \in Nat
    BY DEF TypeOK, SpeechTypeOK
  <1>2. QueueBelow(toAA, i - 1, NoTurn, {})
    BY <1>1 DEF FramesInOrder, AAInOrder, InOrder
  <1> SUFFICES ASSUME NEW k \in 1 .. i, toAA[k].type = "TTSText"
               PROVE  FALSE
    OBVIOUS
  <1>3. k \in 1 .. i - 1 /\ k \in 1 .. Len(toAA)
    BY <1>1
  <1>4. toAA[k].sentence.turn <= 0
    BY <1>2, <1>3 DEF QueueBelow, SaysBelow, Below, NoTurn
  <1>5. toAA[k] \in OutFrame
    BY <1>1, <1>3
  <1>6. toAA[k].sentence \in Sentence
    BY <1>5 DEF OutFrame, InterruptionFrame
  <1> QED
    BY <1>4, <1>6 DEF Sentence, Turns

LEMMA AccountInductive ==
  ASSUME TypeOK, FramesInOrder, injected = {}, SpeechAccountedFor, [Next]_vars
  PROVE  SpeechAccountedFor'
  <1>1. toAA \in Seq(OutFrame) /\ toOut \in Seq(OutFrame) /\ played \in Seq(Sentence)
    BY DEF TypeOK, SpeechTypeOK
  <1>2. CASE AggregateText
    BY <1>2, AggregatedIsAccounted
  <1>3. CASE TurnStopped
    <2> DEFINE h == Head(toAA)
               q == Tail(toAA)
    <2>1. /\ toAA # <<>> /\ h.type = "TTSStopped" /\ toAA' = q /\ played' = played
          /\ TriggerTurnStopped(h.turn, FALSE)
      BY <1>3 DEF TurnStopped
    <2>2. h \in OutFrame /\ q \in Seq(OutFrame) /\ toAA = <<h>> \o q
          /\ <<h>> \in Seq(OutFrame)
      BY <1>1, <2>1
    <2> HIDE DEF h, q
    <2>3. h.turn \in Turns \cup {NoTurn}
      BY <2>1, <2>2 DEF OutFrame, InterruptionFrame
    <2>4. Says(h) = <<>>
      BY <2>1 DEF Says
    <2>5. SpeechIn(q) = SpeechIn(toAA)
      <3>1. SpeechIn(<<h>> \o q) = SpeechIn(<<h>>) \o SpeechIn(q)
        BY <2>2, SpeechInConcat
      <3>2. SpeechIn(<<h>>) = <<>>
        BY <2>2, <2>4, SpeechInOne
      <3>3. SpeechIn(q) \in Seq(Sentence)
        BY <2>2, SpeechInType
      <3>4. <<>> \o SpeechIn(q) = SpeechIn(q)
        BY <3>3
      <3> QED
        BY <2>2, <3>1, <3>2, <3>4
    <2> QED
      BY <2>1, <2>3, <2>5, ReportedIsAccounted
  <1>4. CASE AAInterrupted
    <2>1. PICK i \in DOMAIN toAA :
            /\ toAA[i].type = "Interruption" /\ toAA' = RemoveAt(toAA, i)
            /\ TriggerTurnStopped(toAA[i].turn, TRUE) /\ played' = played
      BY <1>4 DEF AAInterrupted, FirstInterruption
    <2>2. toAA[i] \in OutFrame
      BY <1>1
    <2>3. toAA[i].turn \in Turns \cup {NoTurn}
      BY <2>1, <2>2 DEF OutFrame, InterruptionFrame
    <2>4. SpeechIn(RemoveAt(toAA, i)) = SpeechIn(toAA)
      BY <1>1, <2>1, SilentFrameGoes
    <2> QED
      BY <2>1, <2>3, <2>4, ReportedIsAccounted
  <1>5. CASE AAPlainInterrupted
    <2>1. PICK i \in DOMAIN toAA :
            /\ toAA[i].type = "Interruption" /\ toAA[i].turn = NoTurn
            /\ toAA' = Behind(toAA, i) /\ UNCHANGED <<spoken, completions, played>>
      BY <1>5 DEF AAPlainInterrupted, FirstInterruption
    <2>2. \A k \in 1 .. i : toAA[k].type # "TTSText"
      BY <2>1, SilentBeforePlain
    <2>3. SpeechIn(Behind(toAA, i)) = SpeechIn(toAA)
      BY <1>1, <2>2, SilentFramesGo
    <2>4. ASSUME NEW q, q = Behind(toAA, i)
          PROVE  SpeechAccountedFor'
      <3>1. SpeechIn(q) = SpeechIn(toAA) /\ toAA' = q
        BY <2>1, <2>3, <2>4
      <3>2. Account(Told(completions), spoken, SpeechIn(toAA), played)
        BY AccountIs, Zenon
      <3>3. Account(Told(completions), spoken, SpeechIn(q), played)
        BY <3>1, <3>2, Zenon
      <3> QED
        BY <2>1, <3>1, <3>3, AccountIs, Zenon
    <2> QED
      BY <2>4, Zenon
  <1>6. CASE PlaySentence
    <2>1. /\ toOut # <<>> /\ Head(toOut).type = "TTSText"
          /\ toAA' = Append(toAA, Head(toOut))
          /\ played' = Append(played, Head(toOut).sentence)
          /\ UNCHANGED <<spoken, completions>>
      BY <1>6 DEF PlaySentence
    <2>2. Head(toOut) \in OutFrame
      BY <1>1, <2>1
    <2>3. Head(toOut).sentence \in Sentence
      BY <2>1, <2>2 DEF OutFrame, InterruptionFrame
    <2>4. played' = played \o Says(Head(toOut))
      BY <1>1, <2>1, <2>3 DEF Says
    <2> QED
      BY <2>1, <2>2, <2>4, QueuedIsAccounted
  <1>7. CASE OutputStopped
    <2>1. /\ toOut # <<>> /\ Head(toOut).type = "TTSStopped"
          /\ toAA' = Append(toAA, Head(toOut)) /\ played' = played
          /\ UNCHANGED <<spoken, completions>>
      BY <1>7 DEF OutputStopped
    <2>2. Head(toOut) \in OutFrame
      BY <1>1, <2>1
    <2>3. Says(Head(toOut)) = <<>>
      BY <2>1 DEF Says
    <2>4. played' = played \o Says(Head(toOut))
      BY <1>1, <2>1, <2>3
    <2> QED
      BY <2>1, <2>2, <2>4, QueuedIsAccounted
  <1>8. CASE OutputInterrupted
    <2>1. PICK i \in DOMAIN toOut :
            /\ toOut[i].type = "Interruption"
            /\ toAA' = Append(toAA, toOut[i]) /\ played' = played
            /\ UNCHANGED <<spoken, completions>>
      BY <1>8 DEF OutputInterrupted, FirstInterruption
    <2>2. toOut[i] \in OutFrame
      BY <1>1
    <2>3. Says(toOut[i]) = <<>>
      BY <2>1 DEF Says
    <2>4. played' = played \o Says(toOut[i])
      BY <1>1, <2>1, <2>3
    <2> QED
      BY <2>1, <2>2, <2>4, QueuedIsAccounted
  <1>9. CASE InputTask \/ ProcessTask \/ User \/ TTS \/ Quiescent \/ UNCHANGED vars
    <2>1. UNCHANGED <<toAA, spoken, completions, played>>
      <3>1. CASE InputTask
        BY <3>1 DEF InputTask, RouteContext, LLMInterrupted, HandleTurnCompleted,
                    AppendHeard, LoseHeard, speech
      <3>2. CASE ProcessTask
        BY <3>2 DEF ProcessTask, StartRun, Runner, RunnerAsks, PartialEvent, FinalEvent,
                    EndRun, speech
      <3>3. CASE User
        BY <3>3 DEF User, UserTurnStarted, PushAggregation, PushNothing, PersistAndRun,
                    Shutdown, speech
      <3>4. CASE TTS
        BY <3>4 DEF TTS, TTSStart, TTSText, TTSEnd, TTSInterrupted
      <3>5. CASE Quiescent \/ UNCHANGED vars
        BY <3>5 DEF Quiescent, vars, speech
      <3> QED
        BY <1>9, <3>1, <3>2, <3>3, <3>4, <3>5
    <2> QED
      BY <2>1, UntouchedIsAccounted
  <1> QED
    BY <1>2, <1>3, <1>4, <1>5, <1>6, <1>7, <1>8, <1>9
       DEF Next, System, Output, Assistant

LEMMA InjectedStays ==
  ASSUME [Next]_vars
  PROVE  injected' = {} => injected = {}
  <1>1. CASE InputTask
    BY <1>1 DEF InputTask, RouteContext, LLMInterrupted, HandleTurnCompleted,
                AppendHeard, LoseHeard
  <1>2. CASE ProcessTask
    BY <1>2 DEF ProcessTask, StartRun, Runner, RunnerAsks, PartialEvent, FinalEvent,
                EndRun
  <1>3. CASE User
    BY <1>3 DEF User, UserTurnStarted, PushAggregation, PushNothing, PersistAndRun,
                Shutdown, llmVars
  <1>4. CASE TTS \/ Output \/ Assistant
    BY <1>4, DownstreamSteps DEF upstream, llmVars
  <1>5. CASE Quiescent \/ UNCHANGED vars
    BY <1>5 DEF Quiescent, vars, upstream, llmVars
  <1> QED
    BY <1>1, <1>2, <1>3, <1>4, <1>5 DEF Next, System

\* SpeechAccountedFor holds as long as no turn is injected.
Accounted == injected = {} => SpeechAccountedFor

LEMMA AccountedHolds == Spec => []Accounted
  <1>1. Init => Accounted
    <2> SUFFICES ASSUME Init
                 PROVE  SpeechAccountedFor
      BY DEF Accounted
    <2>1. /\ toAA = <<>> /\ spoken = <<>> /\ completions = <<>> /\ played = <<>>
          /\ DOMAIN toAA = {} /\ DOMAIN completions = {}
      BY DEF Init
    <2>2. FlattenSeq(<<>>) = <<>>
      BY DEF FlattenSeq
    <2>3. SpeechIn(toAA) = <<>>
      <3>1. <<>> \in Seq(OutFrame) /\ \A i \in 1 .. Len(<<>>) : FALSE
        OBVIOUS
      <3>2. SpeechIn(<<>>) = <<>>
        BY <3>1, SilentQueue
      <3> QED
        BY <2>1, <3>2
    <2>4. Told(completions) = <<>>
      <3>1. [i \in DOMAIN completions |-> completions[i].text] = <<>>
        BY <2>1
      <3> QED
        BY <2>2, <3>1 DEF Told
    <2>5. Account(Told(completions), spoken, SpeechIn(toAA), played)
      BY <2>1, <2>3, <2>4 DEF Account
    <2> QED
      BY <2>5, AccountIs, Zenon
  <1>2. TypeOK /\ SpeechInv /\ Accounted /\ [Next]_vars => Accounted'
    BY AccountInductive, InjectedStays DEF Accounted, SpeechInv
  <1> QED
    BY <1>1, <1>2, SpeechInvHolds, TypeCorrect, PTL DEF Spec

LEMMA NobodyInjects == MaxInjected = 0 /\ Spec => [](injected = {})
  <1>1. Init => injected = {}
    BY DEF Init
  <1> SUFFICES ASSUME MaxInjected = 0
               PROVE  Spec => [](injected = {})
    OBVIOUS
  <1>2. injected = {} /\ [Next]_vars => (injected = {})'
    <2> SUFFICES ASSUME injected = {}, [Next]_vars
                 PROVE  injected' = {}
      OBVIOUS
    <2>1. ~PersistAndRun
      <3>1. Cardinality({}) = 0
        BY FS_EmptySet
      <3> QED
        BY <3>1 DEF PersistAndRun
    <2>2. CASE InputTask
      BY <2>2 DEF InputTask, RouteContext, LLMInterrupted, HandleTurnCompleted,
                  AppendHeard, LoseHeard
    <2>3. CASE ProcessTask
      BY <2>3 DEF ProcessTask, StartRun, Runner, RunnerAsks, PartialEvent, FinalEvent,
                  EndRun
    <2>4. CASE User
      BY <2>1, <2>4 DEF User, UserTurnStarted, PushAggregation, PushNothing, Shutdown,
                        llmVars
    <2>5. CASE TTS \/ Output \/ Assistant
      BY <2>5, DownstreamSteps DEF upstream, llmVars
    <2>6. CASE Quiescent \/ UNCHANGED vars
      BY <2>6 DEF Quiescent, vars, upstream, llmVars
    <2> QED
      BY <2>2, <2>3, <2>4, <2>5, <2>6 DEF Next, System
  <1> QED
    BY <1>1, <1>2, PTL DEF Spec

\* Whatever interruptions drop from the queues on the way to the assistant
\* aggregator and whenever it reports: while no turn is injected, each sentence the
\* user heard to the end is in exactly one VqlTurnCompletedFrame, or aggregated, or
\* queued for it, and in order.
THEOREM SpeechIsAccountedFor == Spec => [](injected = {} => SpeechAccountedFor)
  BY AccountedHolds, PTL DEF Accounted

\* In particular where the application injects none.
COROLLARY AccountedWithoutInjection == MaxInjected = 0 /\ Spec => []SpeechAccountedFor
  BY SpeechIsAccountedFor, NobodyInjects, PTL

=============================================================================
