---------------------------- MODULE VqlServiceProofs ----------------------------
(***************************************************************************)
(* Theorems about the two sides of AdkLLMService, for every value of the   *)
(* bounds: what it pushes downstream and remembers of the turns it has     *)
(* answered, and what the plugin shows the model of the journal (looking   *)
(* the model event of a [HEARD] event up by its position goes wrong in     *)
(* three ways and no other).                                               *)
(***************************************************************************)
EXTENDS VqlResponses, HeardView, VqlPipelineProofs

-----------------------------------------------------------------------------
(* The invariants                                                           *)

\* What TurnResponses sees.
ResponseFrame == [type : {"start", "text", "end"}, turn : Turns]

\* A turn something was pushed for has been answered, or is being answered.
Said(t)       == \E i \in DOMAIN pushed : pushed[i].turn = t
PushedAreDone == \A t \in Turns : Said(t) => t <= minted /\ ~Pending(t)

\* A response is open exactly while a run that got an event is in progress.
OpenByRun ==
  IF Started(run) THEN Promise!Open(run.turn)
                  ELSE pushed = <<>> \/ pushed[Len(pushed)].type = "end"

\* Turn ids come from user turns that ended and from _persist_and_run.
MintedWithinBounds ==
  /\ IsFiniteSet(injected) /\ Cardinality(injected) <= MaxInjected
  /\ userTurns <= MaxUserTurns
  /\ minted + (IF userSpeaking THEN 1 ELSE 0) <= userTurns + Cardinality(injected)

PromiseInv == pushed \in Seq(ResponseFrame) /\ PushedAreDone /\ OpenByRun
                /\ MintedWithinBounds

ReportsSaySomething == \A i \in DOMAIN completions : completions[i].text # <<>>

\* Turn t has spoken, or its run has got an event.
Spoke(t) == Voiced(t) \/ (run.turn = t /\ Started(run))

\* The report that took turn t out of the map was not of a turn cut short, and no
\* report before it told of words of t.
SpokenToItsEnd(t) ==
  \E k \in 1 .. Handled :
    /\ completions[k].turn = t /\ ~completions[k].interrupted
    /\ \A j \in 1 .. k - 1 : completions[j].turn = t => ~OwnWords(j)

\* Of a turn that spoke the invocation is known until its report is handled, and
\* then the marker is on its way or written, unless it was spoken to its end.
SpokeIsKept ==
  alive => \A t \in Turns : Spoke(t) =>
    t \in invMap \/ heardWrite.turn = t \/ Written(t) \/ SpokenToItsEnd(t)

MarkedInv == SpokeIsKept /\ ReportsSaySomething

-----------------------------------------------------------------------------
(* What a step pushes                                                       *)

LEMMA AppendedIs ==
  ASSUME NEW S, toTTS \in Seq(S), NEW s \in Seq(S), toTTS' = toTTS \o s
  PROVE  Appended = s
  <1> DEFINE r == toTTS \o s
             a == SubSeq(r, Len(toTTS) + 1, Len(r))
  <1>1. /\ r \in Seq(S) /\ Len(r) = Len(toTTS) + Len(s)
        /\ Len(toTTS) \in Nat /\ Len(s) \in Nat
        /\ \A k \in 1 .. Len(s) : r[Len(toTTS) + k] = s[k]
    OBVIOUS
  <1> HIDE DEF r
  <1>2. a \in Seq(S) /\ Len(a) = Len(s) /\ \A k \in 1 .. Len(s) : a[k] = s[k]
    <2>1. a \in Seq(S) /\ Len(a) = Len(s)
      BY <1>1
    <2>2. ASSUME NEW k \in 1 .. Len(s)
          PROVE  a[k] = s[k]
      <3>1. k \in 1 .. Len(a) /\ (Len(toTTS) + 1) + k - 1 = Len(toTTS) + k
        BY <1>1, <2>1
      <3>2. a[k] = r[Len(toTTS) + k]
        BY <1>1, <3>1
      <3> QED
        BY <1>1, <3>2
    <2> QED
      BY <2>1, <2>2
  <1> HIDE DEF a
  <1>3. a = s
    BY <1>2, SeqEqual
  <1> QED
    BY <1>3 DEF Appended, r, a

LEMMA NothingAppended ==
  ASSUME NEW S, toTTS \in Seq(S), toTTS' \in Seq(S), Len(toTTS') <= Len(toTTS)
  PROVE  Appended = <<>>
  BY DEF Appended

\* What Responses makes of the few sequences of frames a step pushes.
LEMMA ResponsesOf ==
  /\ Responses(<<>>) = <<>>
  /\ \A t : /\ Responses(<<ResponseStart(t)>>) = <<Promise!Start(t)>>
            /\ Responses(<<ResponseEnd(t)>>) = <<Promise!End(t)>>
            /\ Responses(<<ResponseStart(t), ResponseEnd(t)>>)
                 = <<Promise!Start(t), Promise!End(t)>>
            /\ \A n : /\ Responses(<<ResponseText(t, n)>>) = <<Promise!Text(t)>>
                      /\ Responses(<<ResponseStart(t), ResponseText(t, n)>>)
                           = <<Promise!Start(t), Promise!Text(t)>>
            /\ \A u : /\ Responses(<<Interruption(u)>>) = <<>>
                      /\ Responses(<<ResponseEnd(t), Interruption(u)>>)
                           = <<Promise!End(t)>>
                      /\ Responses(<<ResponseStart(t), ResponseEnd(t), Interruption(u)>>)
                           = <<Promise!Start(t), Promise!End(t)>>
  <1>1. Responses(<<>>) = <<>>
    BY DEF Responses
  <1>2. ASSUME NEW t
        PROVE  /\ Responses(<<ResponseStart(t)>>) = <<Promise!Start(t)>>
               /\ Responses(<<ResponseEnd(t)>>) = <<Promise!End(t)>>
    BY DEF Responses, ResponseStart, ResponseEnd, ResponseKind, Last, Front,
           Promise!Start, Promise!End
  <1>3. ASSUME NEW t
        PROVE  Responses(<<ResponseStart(t), ResponseEnd(t)>>)
                 = <<Promise!Start(t), Promise!End(t)>>
    BY DEF Responses, ResponseStart, ResponseEnd, ResponseKind, Last, Front,
           Promise!Start, Promise!End
  <1>4. ASSUME NEW t, NEW n
        PROVE  /\ Responses(<<ResponseText(t, n)>>) = <<Promise!Text(t)>>
               /\ Responses(<<ResponseStart(t), ResponseText(t, n)>>)
                    = <<Promise!Start(t), Promise!Text(t)>>
    BY DEF Responses, ResponseStart, ResponseText, ResponseKind, Last, Front,
           Promise!Start, Promise!Text
  <1>5. ASSUME NEW t, NEW u
        PROVE  /\ Responses(<<Interruption(u)>>) = <<>>
               /\ Responses(<<ResponseEnd(t), Interruption(u)>>) = <<Promise!End(t)>>
    <2>1. Responses(<<Interruption(u)>>) = <<>>
      BY DEF Responses, Interruption, Last, Front
    <2>2. Responses(<<ResponseEnd(t), Interruption(u)>>) = <<Promise!End(t)>>
      <3> DEFINE fs == <<ResponseEnd(t), Interruption(u)>>
      <3>1. fs # <<>> /\ Last(fs).type = "Interruption"
        BY DEF Last, Interruption
      <3>2. Front(fs) = <<ResponseEnd(t)>>
        <4> DEFINE S == {ResponseEnd(t), Interruption(u)}
                   r == SubSeq(fs, 1, 1)
                   e == <<ResponseEnd(t)>>
        <4>1. fs \in Seq(S) /\ Len(fs) = 2 /\ fs[1] = ResponseEnd(t)
          OBVIOUS
        <4>2. e \in Seq(S) /\ Len(e) = 1 /\ e[1] = ResponseEnd(t)
          OBVIOUS
        <4> HIDE DEF fs, S, e
        <4>3. r \in Seq(S) /\ Len(r) = 1 /\ r[1] = ResponseEnd(t)
          BY <4>1
        <4> HIDE DEF r
        <4>4. \A i \in 1 .. Len(r) : r[i] = e[i]
          BY <4>2, <4>3
        <4>5. r = e
          BY <4>2, <4>3, <4>4, SeqEqual
        <4>6. Front(fs) = r
          BY <4>1 DEF Front, r
        <4> QED
          BY <4>5, <4>6 DEF e
      <3> HIDE DEF fs
      <3>3. Responses(fs) = [i \in DOMAIN <<ResponseEnd(t)>> |->
                               [type |-> ResponseKind[<<ResponseEnd(t)>>[i].type],
                                turn |-> <<ResponseEnd(t)>>[i].turn]]
        BY <3>1, <3>2, Zenon DEF Responses
      <3> USE DEF fs
      <3> QED
        BY <3>3 DEF ResponseEnd, ResponseKind, Promise!End
    <2> QED
      BY <2>1, <2>2
  <1>6. ASSUME NEW t, NEW u
        PROVE  Responses(<<ResponseStart(t), ResponseEnd(t), Interruption(u)>>)
                 = <<Promise!Start(t), Promise!End(t)>>
    BY DEF Responses, ResponseStart, ResponseEnd, Interruption, ResponseKind, Last, Front,
           Promise!Start, Promise!End
  <1> QED
    BY <1>1, <1>2, <1>3, <1>4, <1>5, <1>6, Zenon

LEMMA ConcatFrames ==
  ASSUME NEW S, NEW a \in S, NEW b \in S, NEW c \in S
  PROVE  <<a>> \o <<b>> = <<a, b>> /\ <<a, b>> \o <<c>> = <<a, b, c>>
  <1>1. <<a>> \o <<b>> = <<a, b>>
    <2> DEFINE r == <<a>> \o <<b>>
               s == <<a, b>>
    <2>1. /\ r \in Seq(S) /\ Len(r) = 2 /\ r[1] = a /\ r[2] = b
          /\ s \in Seq(S) /\ Len(s) = 2 /\ s[1] = a /\ s[2] = b
      OBVIOUS
    <2> HIDE DEF r, s
    <2>2. \A k \in 1 .. 2 : r[k] = s[k]
      BY <2>1
    <2>3. r = s
      BY <2>1, <2>2, SeqEqual
    <2> QED
      BY <2>3 DEF r, s
  <1>2. <<a, b>> \o <<c>> = <<a, b, c>>
    <2> DEFINE r == <<a, b>> \o <<c>>
               s == <<a, b, c>>
    <2>1. /\ r \in Seq(S) /\ Len(r) = 3 /\ r[1] = a /\ r[2] = b /\ r[3] = c
          /\ s \in Seq(S) /\ Len(s) = 3 /\ s[1] = a /\ s[2] = b /\ s[3] = c
      OBVIOUS
    <2> HIDE DEF r, s
    <2>2. \A k \in 1 .. 3 : r[k] = s[k]
      BY <2>1
    <2>3. r = s
      BY <2>1, <2>2, SeqEqual
    <2> QED
      BY <2>3 DEF r, s
  <1> QED
    BY <1>1, <1>2

\* The frames s that run r pushes, as TurnResponses knows them.
Opens(r)  == IF Started(r) THEN <<>> ELSE <<Promise!Start(r.turn)>>
Closes(r) == IF Started(r) THEN <<Promise!End(r.turn)>>
                           ELSE <<Promise!Start(r.turn), Promise!End(r.turn)>>

LEMMA TTSPushesNothing ==
  ASSUME TypeOK, TypeOK', Remembering, pushed \in Seq(ResponseFrame),
         toTTS' = toTTS \/ TTS
  PROVE  pushed' = pushed
  <1>1. toTTS \in Seq(TTSFrame) /\ toTTS' \in Seq(TTSFrame)
    BY DEF TypeOK, SpeechTypeOK
  <1>2. Len(toTTS') <= Len(toTTS)
    <2>1. CASE toTTS' = toTTS
      BY <1>1, <2>1
    <2>2. CASE TTSStart \/ TTSText \/ TTSEnd
      <3>1. toTTS # <<>> /\ toTTS' = Tail(toTTS)
        BY <2>2 DEF TTSStart, TTSText, TTSEnd
      <3> QED
        BY <1>1, <3>1
    <2>3. CASE TTSInterrupted
      <3>1. PICK i \in DOMAIN toTTS : toTTS' = Behind(toTTS, i)
        BY <2>3 DEF TTSInterrupted
      <3>2. Len(Behind(toTTS, i)) <= Len(toTTS)
        BY <1>1 DEF Behind
      <3> QED
        BY <3>1, <3>2
    <2> QED
      BY <2>1, <2>2, <2>3 DEF TTS
  <1>3. Appended = <<>>
    BY <1>1, <1>2, NothingAppended
  <1> QED
    BY <1>3, ResponsesOf DEF Remembering

LEMMA EventPushes ==
  ASSUME TypeOK, Remembering, PartialEvent \/ FinalEvent
  PROVE  /\ PartialEvent => pushed' = pushed \o (Opens(run) \o <<Promise!Text(run.turn)>>)
         /\ FinalEvent => pushed' = pushed \o Opens(run)
  <1>1. toTTS \in Seq(TTSFrame)
    BY DEF TypeOK, SpeechTypeOK
  <1>2. CASE PartialEvent
    <2> DEFINE f == ResponseText(run.turn, run.said + 1)
    <2>1. /\ toTTS' = toTTS \o (StartFrames(run) \o <<f>>)
          /\ StartFrames(run) \o <<f>> \in Seq(TTSFrame)
      BY <1>2, PartialPushes DEF PushedBy
    <2>2. Appended = StartFrames(run) \o <<f>>
      BY <1>1, <2>1, AppendedIs
    <2>3. /\ run.turn \in Turns /\ f \in TTSFrame /\ ResponseStart(run.turn) \in TTSFrame
          /\ Promise!Start(run.turn) \in ResponseFrame
          /\ Promise!Text(run.turn) \in ResponseFrame
      <3>1. run \in Run /\ run.said + 1 \in 1 .. MaxSentences
        BY <1>2, BoundsAssumption DEF PartialEvent, Idle, TypeOK, ServiceTypeOK, Run
      <3>2. run.turn \in Turns
        BY <3>1 DEF Run
      <3> QED
        BY <3>1, <3>2, LLMFrames DEF ResponseFrame, Promise!Start, Promise!Text
    <2> HIDE DEF f
    <2>4. Responses(Appended) = Opens(run) \o <<Promise!Text(run.turn)>>
      <3>1. CASE Started(run)
        <4>1. Appended = <<f>>
          BY <2>2, <2>3, <3>1 DEF StartFrames
        <4>2. Opens(run) \o <<Promise!Text(run.turn)>> = <<Promise!Text(run.turn)>>
          BY <2>3, <3>1 DEF Opens
        <4> QED
          BY <4>1, <4>2, ResponsesOf DEF f
      <3>2. CASE ~Started(run)
        <4>1. Appended = <<ResponseStart(run.turn), f>>
          BY <2>2, <2>3, <3>2, ConcatFrames DEF StartFrames
        <4>2. Opens(run) \o <<Promise!Text(run.turn)>>
                = <<Promise!Start(run.turn), Promise!Text(run.turn)>>
          BY <2>3, <3>2, ConcatFrames DEF Opens
        <4> QED
          BY <4>1, <4>2, ResponsesOf DEF f
      <3> QED
        BY <3>1, <3>2
    <2>5. ~FinalEvent
      <3>1. run \in Run
        BY <1>2 DEF PartialEvent, Idle, TypeOK, ServiceTypeOK
      <3> QED
        BY <1>2, <3>1 DEF PartialEvent, FinalEvent, Run
    <2> QED
      BY <2>4, <2>5 DEF Remembering
  <1>3. CASE FinalEvent
    <2>1. run \in Run /\ toTTS' = toTTS \o StartFrames(run)
      BY <1>3 DEF FinalEvent, Idle, TypeOK, ServiceTypeOK
    <2>2. Appended = StartFrames(run)
      BY <1>1, <2>1, StartFramesType, AppendedIs
    <2>3. Responses(Appended) = Opens(run)
      BY <2>2, ResponsesOf DEF StartFrames, Opens
    <2>4. ~PartialEvent
      BY <1>3, <2>1 DEF PartialEvent, FinalEvent, Run
    <2> QED
      BY <2>3, <2>4 DEF Remembering
  <1> QED
    BY <1>2, <1>3

\* However a run ends, it leaves a matched pair and nothing else.
LEMMA StopPushes ==
  ASSUME TypeOK, Remembering, pushed \in Seq(ResponseFrame),
         EndRun \/ Shutdown \/ LLMInterrupted
  PROVE  IF run = Idle THEN pushed' = pushed ELSE pushed' = pushed \o Closes(run)
  <1>1. toTTS \in Seq(TTSFrame) /\ run \in Run \cup {Idle}
    BY DEF TypeOK, ServiceTypeOK, SpeechTypeOK
  <1>2. Responses(CancelledRun(run)) = IF run = Idle THEN <<>> ELSE Closes(run)
    BY ResponsesOf DEF CancelledRun, Cleanup, Closes
  <1>r. ASSUME Responses(Appended) = IF run = Idle THEN <<>> ELSE Closes(run)
        PROVE  IF run = Idle THEN pushed' = pushed ELSE pushed' = pushed \o Closes(run)
    <2>1. pushed' = pushed \o Responses(Appended)
      BY DEF Remembering
    <2>2. pushed \o <<>> = pushed
      OBVIOUS
    <2> QED
      BY <1>r, <2>1, <2>2
  <1>3. CASE EndRun \/ Shutdown
    <2>1. toTTS' = toTTS \o CancelledRun(run)
      BY <1>3 DEF EndRun, Shutdown, CancelledRun
    <2>2. Appended = CancelledRun(run)
      BY <1>1, <2>1, CancelledRunType, AppendedIs
    <2>3. Responses(Appended) = IF run = Idle THEN <<>> ELSE Closes(run)
      BY <1>2, <2>2
    <2> QED
      BY <1>r, <2>3
  <1>4. CASE LLMInterrupted
    <2>1. PICK u : /\ Interruption(u) \in TTSFrame
                   /\ toTTS' = (toTTS \o CancelledRun(run)) \o <<Interruption(u)>>
      <3>1. PICK f : /\ f.type = "Interruption" /\ f \in DownFrame
                     /\ toTTS' = (toTTS \o CancelledRun(run)) \o <<f>>
        BY <1>4, InterruptionTaken DEF TypeOK
      <3>2. f \in InterruptionFrame
        BY <3>1 DEF DownFrame
      <3>3. f = Interruption(f.turn)
        BY <3>2 DEF InterruptionFrame, Interruption
      <3>4. f \in TTSFrame
        BY <3>1, InterruptionFrames
      <3> QED
        BY <3>1, <3>3, <3>4
    <2> DEFINE s == CancelledRun(run) \o <<Interruption(u)>>
    <2>2. CancelledRun(run) \in Seq(TTSFrame) /\ <<Interruption(u)>> \in Seq(TTSFrame)
      BY <1>1, <2>1, CancelledRunType
    <2>3. s \in Seq(TTSFrame) /\ toTTS' = toTTS \o s
      <3>1. toTTS' = (toTTS \o CancelledRun(run)) \o <<Interruption(u)>>
        BY <2>1
      <3> DEFINE a == CancelledRun(run)
                 e == <<Interruption(u)>>
      <3>2. a \in Seq(TTSFrame) /\ e \in Seq(TTSFrame)
        BY <2>2
      <3> HIDE DEF a, e
      <3>3. a \o e \in Seq(TTSFrame) /\ (toTTS \o a) \o e = toTTS \o (a \o e)
        BY <1>1, <3>2, SMTT(30)
      <3> QED
        BY <3>1, <3>3 DEF a, e
    <2>4. Appended = s
      <3> HIDE DEF s
      <3> QED
        BY <1>1, <2>3, AppendedIs
    <2>6. run # Idle => /\ ResponseStart(run.turn) \in TTSFrame
                        /\ ResponseEnd(run.turn) \in TTSFrame
                        /\ Interruption(u) \in TTSFrame
      BY <1>1, <2>1, LLMFrames DEF Run
    <2>5. Responses(s) = IF run = Idle THEN <<>> ELSE Closes(run)
      <3>1. CASE run = Idle
        <4>1. s = <<Interruption(u)>>
          BY <2>2, <3>1 DEF CancelledRun
        <4> QED
          BY <3>1, <4>1, ResponsesOf
      <3>2. CASE run # Idle /\ Started(run)
        <4>1. s = <<ResponseEnd(run.turn), Interruption(u)>>
          BY <2>2, <2>6, <3>2, ConcatFrames DEF CancelledRun, Cleanup
        <4> QED
          BY <3>2, <4>1, ResponsesOf DEF Closes
      <3>3. CASE run # Idle /\ ~Started(run)
        <4>1. s = <<ResponseStart(run.turn), ResponseEnd(run.turn), Interruption(u)>>
          BY <2>2, <2>6, <3>3, ConcatFrames DEF CancelledRun, Cleanup
        <4> QED
          BY <3>3, <4>1, ResponsesOf DEF Closes
      <3> QED
        BY <3>1, <3>2, <3>3
    <2> QED
      BY <1>r, <2>4, <2>5
  <1> QED
    BY <1>3, <1>4

\* The other steps push nothing.
LEMMA OthersPushNothing ==
  ASSUME TypeOK, TypeOK', Next, Remembering, pushed \in Seq(ResponseFrame),
         ~PartialEvent, ~FinalEvent, ~EndRun, ~Shutdown, ~LLMInterrupted
  PROVE  pushed' = pushed
  <1>1. CASE TTS \/ toTTS' = toTTS
    BY <1>1, TTSPushesNothing
  <1>2. Output \/ Assistant \/ Quiescent => toTTS' = toTTS
    BY DEF Output, PlaySentence, OutputStopped, OutputInterrupted, Assistant,
           AggregateText, TurnStopped, AAInterrupted, AAPlainInterrupted, Quiescent,
           vars, speech
  <1>3. InputTask \/ ProcessTask \/ User => toTTS' = toTTS
    BY DEF InputTask, RouteContext, HandleTurnCompleted, AppendHeard, LoseHeard,
           ProcessTask, StartRun, Runner, RunnerAsks, User, UserTurnStarted,
           PushAggregation, PushNothing, PersistAndRun, speech
  <1> QED
    BY <1>1, <1>2, <1>3 DEF Next, System

-----------------------------------------------------------------------------
(* The promise is kept                                                      *)

LEMMA BoundsInductive ==
  ASSUME TypeOK, QueueInv, MintedWithinBounds, [Next]_vars
  PROVE  MintedWithinBounds'
  <1>0. /\ minted \in Nat /\ userTurns \in Nat /\ userSpeaking \in BOOLEAN
        /\ Cardinality(injected) \in Nat
    BY FS_CardinalityType DEF TypeOK, UserTypeOK, MintedWithinBounds
  <1>1. CASE UNCHANGED <<minted, userTurns, userSpeaking, injected>>
    BY <1>1 DEF MintedWithinBounds
  <1>2. CASE UserTurnStarted \/ PushAggregation \/ PushNothing
    <2>1. injected' = injected
      BY <1>2 DEF UserTurnStarted, PushAggregation, PushNothing, llmVars
    <2>2. CASE UserTurnStarted
      BY <1>0, <2>1, <2>2, BoundsAssumption DEF UserTurnStarted, MintedWithinBounds
    <2>3. CASE PushAggregation
      BY <1>0, <2>1, <2>3, BoundsAssumption DEF PushAggregation, MintedWithinBounds
    <2>4. CASE PushNothing
      BY <1>0, <2>1, <2>4, BoundsAssumption DEF PushNothing, MintedWithinBounds
    <2> QED
      BY <1>2, <2>2, <2>3, <2>4
  <1>3. CASE PersistAndRun
    <2>1. /\ injected' = injected \cup {minted + 1} /\ minted' = minted + 1
          /\ UNCHANGED <<userTurns, userSpeaking>>
          /\ Cardinality(injected) < MaxInjected
      BY <1>3 DEF PersistAndRun, uaVars
    <2>2. minted + 1 \notin injected
      BY <1>0 DEF QueueInv, MintedApart
    <2>3. /\ IsFiniteSet(injected')
          /\ Cardinality(injected') = Cardinality(injected) + 1
      BY <2>1, <2>2, FS_AddElement DEF MintedWithinBounds
    <2> QED
      BY <1>0, <2>1, <2>3, BoundsAssumption DEF MintedWithinBounds
  <1>4. UNCHANGED upstream => UNCHANGED <<minted, userTurns, userSpeaking, injected>>
    BY DEF upstream, uaVars, llmVars
  <1>5. TTS \/ Output \/ Assistant \/ Quiescent \/ UNCHANGED vars => UNCHANGED upstream
    BY DownstreamSteps DEF Quiescent, vars
  <1>6. InputTask \/ ProcessTask \/ Shutdown
          => UNCHANGED <<minted, userTurns, userSpeaking, injected>>
    BY DEF InputTask, RouteContext, LLMInterrupted, HandleTurnCompleted, AppendHeard,
           LoseHeard, ProcessTask, StartRun, Runner, RunnerAsks, PartialEvent,
           FinalEvent, EndRun, Shutdown, uaVars
  <1> QED
    BY <1>1, <1>2, <1>3, <1>4, <1>5, <1>6 DEF Next, System, User

\* A run that pushes something is of a turn that is waited for no more.
LEMMA RunIsDone ==
  ASSUME TypeOK, Bookkeeping, run # Idle, NEW t, t = run.turn,
         PartialEvent \/ FinalEvent \/ EndRun \/ Shutdown \/ LLMInterrupted
  PROVE  t <= minted /\ t \in Turns /\ ~Pending(t)'
  <1>1. run.turn <= minted /\ run.turn \in Turns /\ run \in Run
    BY DEF Bookkeeping, KnownAreMinted, TypeOK, ServiceTypeOK, Run
  <1>2. /\ procQ' = procQ \/ procQ' = <<>>
        /\ run'.phase \notin {"called", "asked"}
    <2>1. CASE PartialEvent \/ FinalEvent
      BY <1>1, <2>1 DEF PartialEvent, FinalEvent, Run
    <2>2. CASE EndRun \/ Shutdown \/ LLMInterrupted
      <3>1. run' = Idle /\ (procQ' = procQ \/ procQ' = <<>>)
        BY <2>2, InterruptionTaken DEF EndRun, Shutdown, TypeOK
      <3> QED
        BY <3>1 DEF Idle
    <2> QED
      BY <2>1, <2>2
  <1>3. \A k \in DOMAIN down' : \E l \in DOMAIN down : down'[k] = down[l]
    <2>1. down \in Seq(DownFrame)
      BY DEF TypeOK, UserTypeOK
    <2>2. CASE LLMInterrupted
      <3>1. PICK i \in DOMAIN down : TakenAt(i)
        BY <2>2, InterruptionTaken DEF TypeOK
      <3> QED
        BY <3>1 DEF TakenAt
    <2>3. CASE PartialEvent \/ FinalEvent \/ EndRun \/ Shutdown
      BY <2>3 DEF PartialEvent, FinalEvent, EndRun, Shutdown
    <2> QED
      BY <2>2, <2>3
  <1>4. ~Pending(t)'
    BY <1>2, <1>3 DEF Bookkeeping, QueuedAreFresh, Pending, InProcQ, ContextAt
  <1> QED
    BY <1>1, <1>4

LEMMA SaidGrows ==
  ASSUME pushed \in Seq(ResponseFrame), NEW s \in Seq(ResponseFrame),
         pushed' = pushed \o s
  PROVE  /\ pushed' \in Seq(ResponseFrame)
         /\ \A t : Said(t)' => Said(t) \/ \E k \in 1 .. Len(s) : s[k].turn = t
         /\ s # <<>> => pushed' # <<>> /\ pushed'[Len(pushed')] = s[Len(s)]
  <1>1. pushed' \in Seq(ResponseFrame)
    OBVIOUS
  <1>2. \A k \in DOMAIN pushed' :
          \/ k \in DOMAIN pushed /\ pushed'[k] = pushed[k]
          \/ k - Len(pushed) \in 1 .. Len(s) /\ pushed'[k] = s[k - Len(pushed)]
    OBVIOUS
  <1>3. \A t : Said(t)' => Said(t) \/ \E k \in 1 .. Len(s) : s[k].turn = t
    BY <1>2 DEF Said
  <1>4. s # <<>> => pushed' # <<>> /\ pushed'[Len(pushed')] = s[Len(s)]
    OBVIOUS
  <1> QED
    BY <1>1, <1>3, <1>4

LEMMA PushedOfRun ==
  ASSUME NEW t \in Turns
  PROVE  /\ Promise!Start(t) \in ResponseFrame /\ Promise!Start(t).turn = t
         /\ Promise!Text(t) \in ResponseFrame /\ Promise!Text(t).turn = t
         /\ Promise!End(t) \in ResponseFrame /\ Promise!End(t).turn = t
         /\ Promise!Start(t).type = "start" /\ Promise!Text(t).type = "text"
         /\ Promise!End(t).type = "end"
  BY DEF ResponseFrame, Promise!Start, Promise!Text, Promise!End

\* No turn is answered twice: the turn of a run that has not begun to answer is
\* one nothing was pushed for.
LEMMA NotAnswered ==
  ASSUME TypeOK, Bookkeeping, PromiseInv, run # Idle, ~Started(run)
  PROVE  ~Promise!Answered(run.turn) /\ Promise!NoneOpen
  <1>1. run.turn \in Turns /\ run.phase \in {"called", "asked"}
    BY DEF TypeOK, ServiceTypeOK, Run, Started
  <1>2. ~Said(run.turn)
    BY <1>1 DEF PromiseInv, PushedAreDone, Pending
  <1>3. ~Promise!Answered(run.turn)
    BY <1>1, <1>2, PushedOfRun DEF Promise!Answered, Said
  <1>4. Promise!NoneOpen
    BY DEF PromiseInv, OpenByRun, Promise!NoneOpen, Promise!Open, Promise!Start,
           Promise!Text
  <1> QED
    BY <1>3, <1>4

LEMMA TurnInBounds ==
  ASSUME TypeOK, Bookkeeping, PromiseInv, run # Idle
  PROVE  run.turn \in 1 .. MaxUserTurns + MaxInjected
  <1>1. run.turn \in Turns /\ run.turn <= minted
    BY DEF TypeOK, ServiceTypeOK, Run, Bookkeeping, KnownAreMinted
  <1>2. /\ minted \in Nat /\ userTurns \in Nat /\ Cardinality(injected) \in Nat
        /\ MaxUserTurns \in Nat /\ MaxInjected \in Nat
    BY FS_CardinalityType, BoundsAssumption
    DEF TypeOK, UserTypeOK, PromiseInv, MintedWithinBounds
  <1> QED
    BY <1>1, <1>2 DEF PromiseInv, MintedWithinBounds, Turns

\* What is known of pushed after a step, and the step of the promise it is.
OneMore ==
  /\ pushed' \in Seq(ResponseFrame) /\ PushedAreDone' /\ OpenByRun'
  /\ [Promise!Next]_pushed

LEMMA PushedStaysDone ==
  ASSUME TypeOK, PromiseInv, [Next]_vars, NEW t \in Turns, Said(t)
  PROVE  t <= minted' /\ ~Pending(t)'
  <1>1. t <= minted /\ ~Pending(t) /\ t \in Nat /\ minted \in Nat
    BY DEF PromiseInv, PushedAreDone, Turns, TypeOK, UserTypeOK
  <1>2. minted' = minted \/ minted' = minted + 1
    <2>1. UNCHANGED upstream => minted' = minted
      BY DEF upstream
    <2>2. InputTask \/ ProcessTask \/ User => minted' = minted \/ minted' = minted + 1
      BY DEF InputTask, RouteContext, LLMInterrupted, HandleTurnCompleted, AppendHeard,
             LoseHeard, ProcessTask, StartRun, Runner, RunnerAsks, PartialEvent,
             FinalEvent, EndRun, User, UserTurnStarted, PushAggregation, PushNothing,
             PersistAndRun, Shutdown
    <2> QED
      BY <2>1, <2>2, DownstreamSteps DEF Next, System, Quiescent, vars
  <1> QED
    BY <1>1, <1>2, PendingShrinks

LEMMA EventKeepsPromise ==
  ASSUME TypeOK, Bookkeeping, PromiseInv, Remembering, PartialEvent \/ FinalEvent
  PROVE  OneMore
  <1>1. run \in Run /\ run # Idle /\ run.turn \in Turns
    BY DEF PartialEvent, FinalEvent, Idle, TypeOK, ServiceTypeOK, Run
  <1>2. [Next]_vars
    BY DEF Next, System, ProcessTask, Runner
  <1>3. run'.turn = run.turn /\ Started(run')
    BY <1>1 DEF PartialEvent, FinalEvent, Run, Started
  <1>4. PICK t \in Turns : t = run.turn
    BY <1>1
  <1>5. t \in 1 .. MaxUserTurns + MaxInjected
    BY <1>1, <1>4, TurnInBounds
  <1>6. pushed \in Seq(ResponseFrame)
    BY DEF PromiseInv
  <1>7. ASSUME NEW s \in Seq(ResponseFrame), pushed' = pushed \o s,
               \A k \in 1 .. Len(s) : s[k].turn = t
        PROVE  pushed' \in Seq(ResponseFrame) /\ PushedAreDone'
    <2>1. \A u \in Turns : Said(u)' => u <= minted' /\ ~Pending(u)'
      <3> TAKE u \in Turns
      <3>1. Said(u)' => Said(u) \/ u = t
        <4>1. Said(u)' => Said(u) \/ \E k \in 1 .. Len(s) : s[k].turn = u
          BY <1>6, <1>7, SaidGrows
        <4> QED
          BY <1>7, <4>1
      <3>2. u = t => u <= minted' /\ ~Pending(u)'
        BY <1>1, <1>4, RunIsDone DEF PartialEvent, FinalEvent
      <3> QED
        BY <1>2, <3>1, <3>2, PushedStaysDone
    <2> QED
      BY <1>6, <1>7, <2>1, SaidGrows DEF PushedAreDone
  <1>8. ASSUME NEW s \in Seq(ResponseFrame), s # <<>>, pushed' = pushed \o s,
               s[Len(s)] \in {Promise!Start(t), Promise!Text(t)}
        PROVE  OpenByRun'
    <2>1. Promise!Open(t)'
      BY <1>6, <1>8, SaidGrows DEF Promise!Open
    <2> QED
      BY <1>3, <1>4, <2>1 DEF OpenByRun, Promise!Open
  <1>9. CASE Started(run)
    <2>1. Promise!Open(t)
      BY <1>4, <1>9 DEF PromiseInv, OpenByRun
    <2>2. CASE PartialEvent
      <3> DEFINE s == <<Promise!Text(t)>>
      <3>1. s \in Seq(ResponseFrame) /\ Len(s) = 1 /\ s[1] = Promise!Text(t)
        BY PushedOfRun
      <3>2. pushed' = pushed \o s
        BY <1>4, <1>9, <2>2, <3>1, EventPushes DEF Opens
      <3>3. Promise!Next
        BY <1>5, <2>1, <3>2 DEF Promise!Next, Promise!Say, Promise!Push
      <3>4. s # <<>> /\ \A k \in 1 .. Len(s) : s[k].turn = t
        BY <3>1, PushedOfRun
      <3> HIDE DEF s
      <3> QED
        BY <1>7, <1>8, <3>1, <3>2, <3>3, <3>4 DEF OneMore
    <2>3. CASE FinalEvent
      <3>1. pushed' = pushed
        BY <1>6, <1>9, <2>3, EventPushes DEF Opens
      <3>2. PushedAreDone'
        BY <1>2, <3>1, PushedStaysDone DEF PushedAreDone, Said
      <3>3. OpenByRun'
        BY <1>3, <1>4, <2>1, <3>1 DEF OpenByRun, Promise!Open
      <3> QED
        BY <1>6, <3>1, <3>2, <3>3 DEF OneMore
    <2> QED
      BY <2>2, <2>3
  <1>10. CASE ~Started(run)
    <2>1. Promise!NoneOpen /\ ~Promise!Answered(t)
      BY <1>1, <1>4, <1>10, NotAnswered
    <2>2. CASE PartialEvent
      <3> DEFINE s == <<Promise!Start(t), Promise!Text(t)>>
      <3>1. /\ s \in Seq(ResponseFrame) /\ Len(s) = 2 /\ s[2] = Promise!Text(t)
            /\ s[1] = Promise!Start(t)
        BY PushedOfRun
      <3>2. pushed' = pushed \o s
        BY <1>4, <1>10, <2>2, PushedOfRun, ConcatFrames, EventPushes DEF Opens
      <3>3. Promise!Next
        BY <1>5, <2>1, <3>2 DEF Promise!Next, Promise!OpenResponse, Promise!Push
      <3>4. s # <<>> /\ \A k \in 1 .. Len(s) : s[k].turn = t
        BY <3>1, PushedOfRun
      <3> HIDE DEF s
      <3> QED
        BY <1>7, <1>8, <3>1, <3>2, <3>3, <3>4 DEF OneMore
    <2>3. CASE FinalEvent
      <3> DEFINE s == <<Promise!Start(t)>>
      <3>1. s \in Seq(ResponseFrame) /\ Len(s) = 1 /\ s[1] = Promise!Start(t)
        BY PushedOfRun
      <3>2. pushed' = pushed \o s
        BY <1>4, <1>10, <2>3, EventPushes DEF Opens
      <3>3. Promise!Next
        BY <1>5, <2>1, <3>2 DEF Promise!Next, Promise!OpenResponse, Promise!Push
      <3>4. s # <<>> /\ \A k \in 1 .. Len(s) : s[k].turn = t
        BY <3>1, PushedOfRun
      <3> HIDE DEF s
      <3> QED
        BY <1>7, <1>8, <3>1, <3>2, <3>3, <3>4 DEF OneMore
    <2> QED
      BY <2>2, <2>3
  <1> QED
    BY <1>9, <1>10

LEMMA StopKeepsPromise ==
  ASSUME TypeOK, Bookkeeping, PromiseInv, Remembering,
         EndRun \/ Shutdown \/ LLMInterrupted
  PROVE  OneMore
  <1>1. run \in Run \cup {Idle} /\ pushed \in Seq(ResponseFrame)
    BY DEF TypeOK, ServiceTypeOK, PromiseInv
  <1>2. [Next]_vars
    BY DEF Next, System, ProcessTask, Runner, InputTask, User
  <1>3. run' = Idle /\ ~Started(run')
    <2>1. run' = Idle
      BY InterruptionTaken DEF EndRun, Shutdown, TypeOK
    <2> QED
      BY <2>1 DEF Started, Idle
  <1>4. CASE run = Idle
    <2>1. pushed' = pushed
      BY <1>1, <1>4, StopPushes
    <2>2. PushedAreDone'
      BY <1>2, <2>1, PushedStaysDone DEF PushedAreDone, Said
    <2>3. OpenByRun'
      BY <1>3, <1>4, <2>1 DEF PromiseInv, OpenByRun, Started
    <2> QED
      BY <1>1, <2>1, <2>2, <2>3 DEF OneMore
  <1>5. CASE run # Idle
    <2>1. PICK t \in Turns : t = run.turn
      BY <1>1, <1>5 DEF Run
    <2>2. t \in 1 .. MaxUserTurns + MaxInjected
      BY <1>5, <2>1, TurnInBounds
    <2>3. pushed' = pushed \o Closes(run)
      BY <1>1, <1>5, StopPushes
    <2>4. ASSUME NEW s \in Seq(ResponseFrame), pushed' = pushed \o s, s # <<>>,
                 \A k \in 1 .. Len(s) : s[k].turn = t, s[Len(s)].type = "end"
          PROVE  pushed' \in Seq(ResponseFrame) /\ PushedAreDone' /\ OpenByRun'
      <3>1. \A u \in Turns : Said(u)' => u <= minted' /\ ~Pending(u)'
        <4> TAKE u \in Turns
        <4>1. Said(u)' => Said(u) \/ u = t
          <5>1. Said(u)' => Said(u) \/ \E k \in 1 .. Len(s) : s[k].turn = u
            BY <1>1, <2>4, SaidGrows, Zenon
          <5> QED
            BY <2>4, <5>1, Zenon
        <4>2. minted' = minted
          BY DEF EndRun, Shutdown, LLMInterrupted
        <4>3. u = t => u <= minted' /\ ~Pending(u)'
          BY <1>5, <2>1, <4>2, RunIsDone
        <4> QED
          BY <1>2, <4>1, <4>3, PushedStaysDone
      <3>2. OpenByRun'
        BY <1>1, <1>3, <2>4, SaidGrows DEF OpenByRun
      <3> QED
        BY <1>1, <2>4, <3>1, <3>2, SaidGrows DEF PushedAreDone
    <2>5. CASE Started(run)
      <3> DEFINE s == <<Promise!End(t)>>
      <3>1. s \in Seq(ResponseFrame) /\ Len(s) = 1 /\ s[1] = Promise!End(t)
        BY PushedOfRun
      <3>2. pushed' = pushed \o s
        BY <2>1, <2>3, <2>5 DEF Closes
      <3>3. Promise!Open(t)
        BY <2>1, <2>5 DEF PromiseInv, OpenByRun
      <3>4. Promise!Next
        BY <2>2, <3>2, <3>3 DEF Promise!Next, Promise!CloseResponse, Promise!Push
      <3>5. s # <<>> /\ (\A k \in 1 .. Len(s) : s[k].turn = t) /\ s[Len(s)].type = "end"
        BY <3>1, PushedOfRun
      <3> HIDE DEF s
      <3> QED
        BY <2>4, <3>1, <3>2, <3>4, <3>5 DEF OneMore
    <2>6. CASE ~Started(run)
      <3> DEFINE s == <<Promise!Start(t), Promise!End(t)>>
      <3>1. /\ s \in Seq(ResponseFrame) /\ Len(s) = 2 /\ s[1] = Promise!Start(t)
            /\ s[2] = Promise!End(t)
        BY PushedOfRun
      <3>2. pushed' = pushed \o s
        BY <2>1, <2>3, <2>6 DEF Closes
      <3>3. Promise!NoneOpen /\ ~Promise!Answered(t)
        BY <1>5, <2>1, <2>6, NotAnswered
      <3>4. Promise!Next
        BY <2>2, <3>2, <3>3 DEF Promise!Next, Promise!OpenResponse, Promise!Push
      <3>5. s # <<>> /\ (\A k \in 1 .. Len(s) : s[k].turn = t) /\ s[Len(s)].type = "end"
        BY <3>1, PushedOfRun
      <3> HIDE DEF s
      <3> QED
        BY <2>4, <3>1, <3>2, <3>4, <3>5 DEF OneMore
    <2> QED
      BY <2>5, <2>6
  <1> QED
    BY <1>4, <1>5

LEMMA OthersKeepPromise ==
  ASSUME TypeOK, TypeOK', Bookkeeping, PromiseInv, [Next]_vars, pushed' = pushed,
         ~PartialEvent, ~FinalEvent, ~EndRun, ~Shutdown, ~LLMInterrupted
  PROVE  OneMore
  <1>1. run \in Run \cup {Idle} /\ pushed \in Seq(ResponseFrame)
    BY DEF TypeOK, ServiceTypeOK, PromiseInv
  <1>2. PushedAreDone'
    BY PushedStaysDone DEF PushedAreDone, Said
  <1>3. run' = run \/ (~Started(run) /\ ~Started(run'))
    <2>1. UNCHANGED upstream => run' = run
      BY DEF upstream, llmVars
    <2>2. TTS \/ Output \/ Assistant \/ Quiescent \/ UNCHANGED vars => UNCHANGED upstream
      BY DownstreamSteps DEF Quiescent, vars
    <2>3. RouteContext \/ HandleTurnCompleted \/ AppendHeard \/ LoseHeard
            \/ UserTurnStarted \/ PushAggregation \/ PushNothing => run' = run
      BY DEF RouteContext, HandleTurnCompleted, AppendHeard, LoseHeard, UserTurnStarted,
             PushAggregation, PushNothing, llmVars
    <2>4. StartRun \/ PersistAndRun => ~Started(run) /\ ~Started(run')
      BY DEF StartRun, PersistAndRun, ProcessTaskFree, Idle, Started
    <2>5. RunnerAsks => ~Started(run) /\ ~Started(run')
      BY <1>1 DEF RunnerAsks, Run, Idle, Started
    <2>6. CASE System \/ Quiescent \/ UNCHANGED vars
      BY <2>1, <2>2, <2>3, <2>4, <2>5, <2>6
      DEF System, InputTask, ProcessTask, Runner
    <2>7. CASE User
      BY <2>3, <2>4, <2>7 DEF User
    <2> QED
      BY <2>6, <2>7 DEF Next
  <1>4. OpenByRun'
    <2>1. CASE run' = run
      BY <2>1 DEF PromiseInv, OpenByRun, Started, Promise!Open
    <2>2. CASE ~Started(run) /\ ~Started(run')
      BY <2>2 DEF PromiseInv, OpenByRun
    <2> QED
      BY <1>3, <2>1, <2>2
  <1> QED
    BY <1>1, <1>2, <1>4 DEF OneMore

LEMMA PromiseInductive ==
  ASSUME TypeOK, TypeOK', Bookkeeping, QueueInv, PromiseInv, [RNext]_<<vars, pushed>>
  PROVE  PromiseInv' /\ [Promise!Next]_pushed
  <1>1. [Next]_vars
    BY DEF RNext
  <1>2. MintedWithinBounds'
    BY <1>1, BoundsInductive DEF PromiseInv
  <1>3. OneMore
    <2>1. CASE UNCHANGED <<vars, pushed>>
      <3>1. run' = run /\ pushed' = pushed
        BY <2>1 DEF vars, upstream, llmVars
      <3>2. PushedAreDone'
        BY <1>1, <3>1, PushedStaysDone DEF PushedAreDone, Said
      <3>3. OpenByRun'
        BY <3>1 DEF PromiseInv, OpenByRun, Started, Promise!Open
      <3> QED
        BY <3>1, <3>2, <3>3 DEF PromiseInv, OneMore
    <2>2. CASE RNext
      <3>1. Next /\ Remembering /\ pushed \in Seq(ResponseFrame)
        BY <2>2 DEF RNext, PromiseInv
      <3> QED
        BY <1>1, <3>1, EventKeepsPromise, StopKeepsPromise, OthersKeepPromise,
           OthersPushNothing
    <2> QED
      BY <2>1, <2>2
  <1> QED
    BY <1>2, <1>3 DEF OneMore, PromiseInv

-----------------------------------------------------------------------------
(* A turn cut short is marked                                               *)

LEMMA ReportsSaySomethingInductive ==
  ASSUME TypeOK, TypeOK', ReportsSaySomething, [Next]_vars
  PROVE  ReportsSaySomething'
  <1>0. completions \in Seq(TurnCompleted) /\ completions' \in Seq(TurnCompleted)
    BY DEF TypeOK, SpeechTypeOK
  <1>1. CASE completions' = completions
    BY <1>1 DEF ReportsSaySomething
  <1>2. ASSUME NEW t, NEW b, TriggerTurnStopped(t, b), spoken # <<>>
        PROVE  ReportsSaySomething'
    <2> DEFINE c == [turn |-> t, text |-> spoken, interrupted |-> b]
    <2>1. completions' = completions \o <<c>> /\ c.text # <<>>
      BY <1>2 DEF TriggerTurnStopped, Report
    <2> HIDE DEF c
    <2>2. \A k \in DOMAIN completions' :
            completions'[k] = c \/ (k \in DOMAIN completions /\ completions'[k] = completions[k])
      BY <1>0, <2>1
    <2> QED
      BY <2>1, <2>2 DEF ReportsSaySomething
  <1>3. CASE TurnStopped \/ AAInterrupted
    <2>1. PICK t, b : TriggerTurnStopped(t, b)
      BY <1>3 DEF TurnStopped, AAInterrupted
    <2>2. spoken = <<>> => completions' = completions
      BY <1>0, <2>1 DEF TriggerTurnStopped, Report
    <2> QED
      BY <1>1, <1>2, <2>1, <2>2
  <1>4. completions' = completions \/ TurnStopped \/ AAInterrupted
    <2>1. Quiescent \/ UNCHANGED vars \/ TTS \/ Output \/ InputTask
            => completions' = completions
      BY DEF Quiescent, vars, speech, TTS, TTSStart, TTSText, TTSEnd, TTSInterrupted,
             Output, PlaySentence, OutputStopped, OutputInterrupted, InputTask,
             RouteContext, LLMInterrupted, HandleTurnCompleted, AppendHeard, LoseHeard
    <2>2. ProcessTask \/ User => completions' = completions
      BY DEF speech, ProcessTask, StartRun, Runner, RunnerAsks, PartialEvent,
             FinalEvent, EndRun, User, UserTurnStarted, PushAggregation, PushNothing,
             PersistAndRun, Shutdown
    <2> QED
      BY <2>1, <2>2 DEF Next, System, Assistant, AggregateText, AAPlainInterrupted
  <1> QED
    BY <1>1, <1>3, <1>4

\* A marker that is being written, or in the journal, is not lost.
LEMMA MarkStays ==
  ASSUME ~StoreMayFail, TypeOK, [Next]_vars, NEW t \in Turns,
         heardWrite.turn = t \/ Written(t)
  PROVE  heardWrite'.turn = t \/ Written(t)'
  <1>0. /\ session \in Seq(JournalEvent) /\ run \in Run \cup {Idle}
        /\ heardWrite \in HeardWrite \cup {NoWrite} /\ NoWrite.turn # t
    BY DEF TypeOK, ServiceTypeOK, NoWrite, NoTurn, Turns
  <1>1. CASE UNCHANGED <<session, heardWrite>>
    BY <1>1 DEF Written, HeardAt
  <1>2. CASE HandleTurnCompleted
    <2>1. heardWrite = NoWrite /\ session' = session
      BY <1>2 DEF HandleTurnCompleted, InputTaskFree
    <2> QED
      BY <1>0, <2>1 DEF Written, HeardAt
  <1>3. CASE AppendHeard
    <2> DEFINE e == [kind |-> "heard", turn |-> heardWrite.turn, text |-> heardWrite.text]
    <2>1. e \in JournalEvent /\ session' = Append(session, e)
      BY <1>0, <1>3 DEF AppendHeard, HeardWrite, JournalEvent
    <2>2. e.kind = "heard" /\ e.turn = heardWrite.turn
      OBVIOUS
    <2> HIDE DEF e
    <2> QED
      BY <1>0, <2>1, <2>2, JournalAppend
  <1>4. CASE RunnerAsks \/ FinalEvent
    <2>1. run \in Run /\ heardWrite' = heardWrite
      BY <1>0, <1>4 DEF RunnerAsks, FinalEvent, Idle
    <2>2. PICK e \in JournalEvent : session' = Append(session, e)
      <3>1. CASE RunnerAsks
        <4> DEFINE d == [kind |-> "user", turn |-> run.turn, text |-> <<>>]
        <4>1. d \in JournalEvent
          BY <2>1 DEF Run, JournalEvent
        <4> QED
          BY <3>1, <4>1 DEF RunnerAsks
      <3>2. CASE FinalEvent
        <4> DEFINE d == [kind |-> "model", turn |-> run.turn,
                         text |-> Response(run.turn, run.said)]
        <4>1. d \in JournalEvent
          BY <2>1, ResponseType DEF Run, JournalEvent
        <4> QED
          BY <3>2, <4>1 DEF FinalEvent
      <3> QED
        BY <1>4, <3>1, <3>2
    <2> QED
      BY <1>0, <2>1, <2>2, JournalAppend
  <1>5. RouteContext \/ LLMInterrupted \/ StartRun \/ PartialEvent \/ EndRun
          => UNCHANGED <<session, heardWrite>>
    BY DEF RouteContext, LLMInterrupted, StartRun, PartialEvent, EndRun
  <1>6. User => UNCHANGED <<session, heardWrite>>
    BY DEF User, UserTurnStarted, PushAggregation, PushNothing, PersistAndRun, Shutdown,
           llmVars
  <1>7. TTS \/ Output \/ Assistant \/ Quiescent \/ UNCHANGED vars
          => UNCHANGED <<session, heardWrite>>
    BY DownstreamSteps DEF Quiescent, vars, upstream, llmVars
  <1> QED
    BY <1>1, <1>2, <1>3, <1>4, <1>5, <1>6, <1>7
    DEF Next, System, InputTask, LoseHeard, ProcessTask, Runner

\* The reports before a step are reports after it, and one more of them is
\* handled when the LLM service takes the next one.
LEMMA ReportsStay ==
  ASSUME TypeOK, ReportInv, [Next]_vars
  PROVE  /\ \A j \in 1 .. Handled : completions'[j] = completions[j]
         /\ Handled' = Handled \/ (HandleTurnCompleted /\ Handled' = Handled + 1)
  <1>0. /\ completions \in Seq(TurnCompleted) /\ Handled \in Nat
        /\ \A j \in 1 .. Handled : j \in DOMAIN completions
    BY DEF TypeOK, SpeechTypeOK, ReportInv, UpIsTheRest, Handled
  <1>1. CASE Assistant
    BY <1>0, <1>1, ReportsGrow DEF ReportInv
  <1>2. CASE HandleTurnCompleted
    BY <1>2, ReportHandled DEF ReportInv
  <1>3. CASE UNCHANGED <<up, completions>>
    BY <1>3 DEF Handled
  <1>4. Quiescent \/ UNCHANGED vars \/ TTS \/ Output => UNCHANGED <<up, completions>>
    BY DEF Quiescent, vars, speech, TTS, TTSStart, TTSText, TTSEnd, TTSInterrupted,
           Output, PlaySentence, OutputStopped, OutputInterrupted
  <1>5. RouteContext \/ LLMInterrupted \/ AppendHeard \/ LoseHeard \/ ProcessTask
          => UNCHANGED <<up, completions>>
    BY DEF RouteContext, LLMInterrupted, AppendHeard, LoseHeard, speech, ProcessTask,
           StartRun, Runner, RunnerAsks, PartialEvent, FinalEvent, EndRun
  <1>6. User => UNCHANGED <<up, completions>>
    BY DEF User, UserTurnStarted, PushAggregation, PushNothing, PersistAndRun, Shutdown,
           speech
  <1> QED
    BY <1>1, <1>2, <1>3, <1>4, <1>5, <1>6 DEF Next, System, InputTask

\* A turn speaks, or gets its first event, in its own run.
LEMMA SpokeStep ==
  ASSUME TypeOK, [Next]_vars, NEW t \in Turns, Spoke(t)'
  PROVE  Spoke(t) \/ ((PartialEvent \/ FinalEvent) /\ run.turn = t)
  <1>1. Voiced(t)' => Voiced(t) \/ (PartialEvent /\ run.turn = t)
    BY VoicedByRun
  <1>2. ASSUME run'.turn = t, Started(run')
        PROVE  \/ run.turn = t /\ Started(run)
               \/ (PartialEvent \/ FinalEvent) /\ run.turn = t
    <2>1. CASE run' = run
      BY <1>2, <2>1
    <2>2. CASE PartialEvent \/ FinalEvent
      <3>1. run'.turn = run.turn
        BY <2>2 DEF PartialEvent, FinalEvent, TypeOK, ServiceTypeOK, Run, Idle
      <3> QED
        BY <1>2, <2>2, <3>1
    <2>3. TTS \/ Output \/ Assistant \/ Quiescent \/ UNCHANGED vars => run' = run
      BY DownstreamSteps DEF Quiescent, vars, upstream, llmVars
    <2>4. RouteContext \/ HandleTurnCompleted \/ AppendHeard \/ LoseHeard
            \/ UserTurnStarted \/ PushAggregation \/ PushNothing => run' = run
      BY DEF RouteContext, HandleTurnCompleted, AppendHeard, LoseHeard,
             UserTurnStarted, PushAggregation, PushNothing, llmVars
    <2>5. ~(LLMInterrupted \/ EndRun \/ Shutdown \/ StartRun \/ PersistAndRun)
      <3>1. LLMInterrupted \/ EndRun \/ Shutdown => run' = Idle
        BY InterruptionTaken DEF EndRun, Shutdown, TypeOK
      <3>2. run' # Idle
        BY <1>2 DEF Started, Idle
      <3>3. ~(StartRun \/ PersistAndRun)
        BY <1>2 DEF StartRun, PersistAndRun, Started
      <3> QED
        BY <3>1, <3>2, <3>3
    <2>6. ~RunnerAsks
      BY <1>2 DEF RunnerAsks, Started, TypeOK, ServiceTypeOK, Run, Idle
    <2> QED
      BY <2>1, <2>2, <2>3, <2>4, <2>5, <2>6
      DEF Next, System, InputTask, ProcessTask, Runner, User
  <1> QED
    BY <1>1, <1>2 DEF Spoke

\* The report that takes turn t out of the map says that it was cut short, and is
\* marked, or that it was spoken to its end.
LEMMA TakenIsMarked ==
  ASSUME TypeOK, ReportInv, ReportsSaySomething, HandleTurnCompleted,
         NEW t \in Turns, t \in invMap, t \notin invMap'
  PROVE  heardWrite'.turn = t \/ SpokenToItsEnd(t)'
  <1>1. /\ Handled \in Nat /\ Handled' = Handled + 1 /\ completions' = completions
        /\ Handled + 1 \in DOMAIN completions /\ completions[Handled + 1] = Head(up)
    BY ReportHandled DEF ReportInv
  <1>2. Head(up).turn = t
    BY DEF HandleTurnCompleted, Popped
  <1>3. CASE Head(up).interrupted
    <2>1. WritesHeard(Head(up), invMap)
      BY <1>1, <1>2, <1>3 DEF WritesHeard, ReportsSaySomething
    <2> QED
      BY <1>2, <2>1 DEF HandleTurnCompleted
  <1>4. CASE ~Head(up).interrupted
    <2>1. \A j \in 1 .. Handled : completions[j].turn = t => ~OwnWords(j)
      BY DEF ReportInv, HandledLeftTheMap
    <2>2. \A j : OwnWords(j)' <=> OwnWords(j)
      BY <1>1 DEF OwnWords
    <2>3. Handled + 1 \in 1 .. Handled' /\ (Handled + 1) - 1 = Handled
      BY <1>1
    <2> QED
      BY <1>1, <1>2, <1>4, <2>1, <2>2, <2>3 DEF SpokenToItsEnd
  <1> QED
    BY <1>3, <1>4

\* A report that was not handled is on its way up.
LEMMA NotHandled ==
  ASSUME TypeOK, UpIsTheRest, NEW j \in DOMAIN completions, j \notin 1 .. Handled
  PROVE  \E i \in DOMAIN up : up[i] = completions[j]
  <1>1. up \in Seq(TurnCompleted) /\ completions \in Seq(TurnCompleted)
    BY DEF TypeOK, SpeechTypeOK
  <1>2. j - Handled \in DOMAIN up /\ Handled + (j - Handled) = j
    BY <1>1 DEF Handled, UpIsTheRest
  <1> QED
    BY <1>2 DEF UpIsTheRest

LEMMA SpokeIsKeptInductive ==
  ASSUME ~StoreMayFail, TypeOK, ReportInv, MarkedInv, [Next]_vars
  PROVE  SpokeIsKept'
  <1> SUFFICES ASSUME alive', NEW t \in Turns, Spoke(t)'
               PROVE  t \in invMap' \/ heardWrite'.turn = t \/ Written(t)'
                        \/ SpokenToItsEnd(t)'
    BY DEF SpokeIsKept
  <1>1. /\ alive
        /\ invMap \subseteq invMap' \/ HandleTurnCompleted
    <2>1. InputTask \/ ProcessTask
            => alive' = alive /\ (invMap \subseteq invMap' \/ HandleTurnCompleted)
      BY DEF InputTask, RouteContext, LLMInterrupted, HandleTurnCompleted, AppendHeard,
             LoseHeard, ProcessTask, StartRun, Runner, RunnerAsks, PartialEvent,
             FinalEvent, EndRun, Learned
    <2>2. User => UNCHANGED <<alive, invMap>>
      BY DEF User, UserTurnStarted, PushAggregation, PushNothing, PersistAndRun,
             Shutdown, llmVars
    <2>3. TTS \/ Output \/ Assistant \/ Quiescent \/ UNCHANGED vars
            => UNCHANGED <<alive, invMap>>
      BY DownstreamSteps DEF upstream, llmVars, Quiescent, vars
    <2> QED
      BY <2>1, <2>2, <2>3 DEF Next, System
  <1>2. CASE Spoke(t)
    <2>1. t \in invMap \/ heardWrite.turn = t \/ Written(t) \/ SpokenToItsEnd(t)
      BY <1>1, <1>2 DEF MarkedInv, SpokeIsKept
    <2>2. CASE t \in invMap
      BY <1>1, <2>2, TakenIsMarked DEF MarkedInv
    <2>3. CASE heardWrite.turn = t \/ Written(t)
      BY <2>3, MarkStays
    <2>4. CASE SpokenToItsEnd(t)
      <3>1. PICK k \in 1 .. Handled :
              /\ completions[k].turn = t /\ ~completions[k].interrupted
              /\ \A j \in 1 .. k - 1 : completions[j].turn = t => ~OwnWords(j)
        BY <2>4 DEF SpokenToItsEnd
      <3>2. Handled \in Nat
        BY DEF TypeOK, SpeechTypeOK, ReportInv, UpIsTheRest, Handled
      <3>3. /\ \A j \in 1 .. Handled : completions'[j] = completions[j]
            /\ k \in 1 .. Handled' /\ \A j \in 1 .. k - 1 : j \in 1 .. Handled
        BY <3>2, ReportsStay
      <3>4. \A j \in 1 .. Handled : OwnWords(j)' <=> OwnWords(j)
        BY <3>3 DEF OwnWords
      <3> QED
        BY <3>1, <3>3, <3>4 DEF SpokenToItsEnd
    <2> QED
      BY <2>1, <2>2, <2>3, <2>4
  <1>3. CASE ~Spoke(t)
    <2>1. (PartialEvent \/ FinalEvent) /\ run.turn = t /\ ~Started(run)
      BY <1>3, SpokeStep DEF Spoke
    <2> QED
      BY <2>1 DEF PartialEvent, FinalEvent, Learned
  <1> QED
    BY <1>2, <1>3

-----------------------------------------------------------------------------
(* The theorems                                                             *)

\* The history variable only remembers: what holds of the pipeline holds here.
LEMMA PipelineInside == RSpec => Spec
  <1>1. RInit => Init
    BY DEF RInit
  <1>2. [RNext]_<<vars, pushed>> => [Next]_vars
    BY DEF RNext
  <1> QED
    BY <1>1, <1>2, PTL DEF RSpec, Spec

LEMMA PromiseInvHolds == RSpec => []PromiseInv /\ [][Promise!Next]_pushed
  <1>1. RInit => PromiseInv
    <2> SUFFICES ASSUME RInit
                 PROVE  PromiseInv
      OBVIOUS
    <2>1. IsFiniteSet(injected) /\ Cardinality(injected) = 0
      BY FS_EmptySet DEF RInit, Init
    <2>2. MintedWithinBounds
      BY <2>1, BoundsAssumption DEF RInit, Init, MintedWithinBounds
    <2>3. pushed = <<>> /\ ~Started(run)
      BY DEF RInit, Init, Idle, Started
    <2> QED
      BY <2>2, <2>3 DEF PromiseInv, PushedAreDone, Said, OpenByRun
  <1>2. TypeOK /\ TypeOK' /\ Bookkeeping /\ JournalInv /\ PromiseInv
          /\ [RNext]_<<vars, pushed>>
          => PromiseInv' /\ [Promise!Next]_pushed
    BY PromiseInductive DEF JournalInv
  <1> QED
    BY <1>1, <1>2, PipelineInside, TypeCorrect, BookkeepingHolds, JournalInvHolds, PTL
    DEF RSpec

\* AdkLLMService keeps the promise TurnResponses states for any LLM service
\* (service.py:207-212): its frames come in matched pairs, one response at a
\* time, nothing of a turn outside its own response and no turn answered twice,
\* at whatever point an interruption or a shutdown cancels a run.
THEOREM ServiceKeepsThePromise == RSpec => KeepsThePromise
  <1>1. RInit => Promise!Init
    BY DEF RInit, Promise!Init
  <1> QED
    BY <1>1, PromiseInvHolds, PTL DEF RSpec, KeepsThePromise, Promise!Spec

\* An entry left in _turn_invocation_map is of a turn of which no report with
\* words of its own has been handled: such a report takes the entry with it, and
\* none comes before the entry is made, even if the turn's context was overtaken
\* by the interruption that names it.
THEOREM MapIsUnreported == Spec => []MapHoldsUnreported
  <1>1. TypeOK /\ ReportInv => MapHoldsUnreported
    <2> SUFFICES ASSUME TypeOK, ReportInv, NEW j \in DOMAIN completions,
                        OwnWords(j), completions[j].turn \in invMap
                 PROVE  \E i \in DOMAIN up : up[i] = completions[j]
      BY DEF MapHoldsUnreported
    <2>1. j \notin 1 .. Handled
      BY DEF ReportInv, HandledLeftTheMap
    <2> QED
      BY <2>1, NotHandled DEF ReportInv
  <1> QED
    BY <1>1, TypeCorrect, ReportInvHolds, PTL

LEMMA MarkedInvHolds == ~StoreMayFail /\ Spec => []MarkedInv
  <1>1. Init => MarkedInv
    BY DEF Init, Idle, Started, MarkedInv, SpokeIsKept, Spoke, Voiced, WordsIn,
           SpeechOf, ReportsOn, ReportsSaySomething
  <1>2. ASSUME ~StoreMayFail
        PROVE  Spec => []MarkedInv
    <2>1. TypeOK /\ TypeOK' /\ ReportInv /\ MarkedInv /\ [Next]_vars => MarkedInv'
      BY <1>2, SpokeIsKeptInductive, ReportsSaySomethingInductive DEF MarkedInv
    <2> QED
      BY <1>1, <2>1, TypeCorrect, ReportInvHolds, PTL DEF Spec
  <1> QED
    BY <1>2

\* While the session store works, a turn of which words were reported as cut
\* short, and which was not reported as spoken to its end before, is not lost
\* sight of until shutdown: the report is on its way, its [HEARD] event is being
\* written, or it is in the journal.
THEOREM CutShortMarked == ~StoreMayFail /\ Spec => []CutShortIsMarked
  <1>1. TypeOK /\ ReportInv /\ MarkedInv => CutShortIsMarked
    <2> SUFFICES ASSUME TypeOK, ReportInv, MarkedInv, alive,
                        NEW j \in DOMAIN completions, FirstCutShort(j),
                        NEW t, t = completions[j].turn, j \in 1 .. Handled
                 PROVE  heardWrite.turn = t \/ Written(t)
      BY NotHandled DEF CutShortIsMarked, Written, ReportInv
    <2>1. PICK k \in DOMAIN completions[j].text : completions[j].text[k].turn = t
      BY DEF FirstCutShort, OwnWords
    <2>2. t \in Turns
      <3>1. completions[j] \in TurnCompleted
        BY DEF TypeOK, SpeechTypeOK
      <3>2. completions[j].text \in Seq(Sentence)
        BY <3>1 DEF TurnCompleted
      <3>3. completions[j].text[k] \in Sentence
        BY <3>2
      <3> QED
        BY <2>1, <3>3 DEF Sentence
    <2>3. Spoke(t)
      BY <2>1 DEF Spoke, Voiced, ReportsOn, SpeechOf
    <2>4. t \notin invMap
      BY DEF FirstCutShort, ReportInv, HandledLeftTheMap
    <2>5. ~SpokenToItsEnd(t)
      <3> SUFFICES ASSUME NEW m \in 1 .. Handled, completions[m].turn = t,
                          ~completions[m].interrupted,
                          \A l \in 1 .. m - 1 : completions[l].turn = t => ~OwnWords(l)
                   PROVE  FALSE
        BY DEF SpokenToItsEnd
      <3>1. m < j \/ m = j \/ j < m
        OBVIOUS
      <3>2. m \in 1 .. j - 1 \/ m = j \/ j \in 1 .. m - 1
        BY <3>1
      <3> QED
        BY <3>2 DEF FirstCutShort
    <2> QED
      BY <2>2, <2>3, <2>4, <2>5 DEF MarkedInv, SpokeIsKept
  <1> QED
    BY <1>1, MarkedInvHolds, TypeCorrect, ReportInvHolds, PTL

-----------------------------------------------------------------------------
(* Turns that were cut short                                                *)

\* An interruption in q names turn t.
CutIn(q, t) == \E i \in DOMAIN q : q[i].type = "Interruption" /\ q[i].turn = t

ReportedCut(t) ==
  \E i \in DOMAIN completions : completions[i].turn = t /\ completions[i].interrupted

\* An interruption naming turn t has passed the LLM service.
Cut(t) == CutIn(toTTS, t) \/ CutIn(toOut, t) \/ CutIn(toAA, t) \/ ReportedCut(t)

\* The run of such a turn is over, unless the interruption overtook its context;
\* and the user spoke the turn.
CutAreOver   == \A t \in Turns : Cut(t) /\ run.turn = t => t \in overtaken
CutAreSpoken ==
  /\ \A t \in Turns : Cut(t) => t \notin injected
  /\ prevTurn \notin injected
  /\ \A k \in DOMAIN down : down[k].turn \notin injected

-----------------------------------------------------------------------------
(* The order of the journal                                                 *)

\* A message is logged after those of all earlier turns the user spoke.
NextIsLater ==
  run.phase = "called" =>
    \A i \in DOMAIN session : SpokenMessage(i) => session[i].turn < run.turn

MessagesInOrder ==
  \A i, j \in DOMAIN session :
    (i < j /\ SpokenMessage(i) /\ session[j].kind = "user")
      => session[i].turn < session[j].turn

\* A [HEARD] event stands behind the model event of its turn, if there is one,
\* unless the turn's context was overtaken.
ModelBeforeHeard ==
  \A i, j \in DOMAIN session :
    session[j].kind = "model" /\ HeardAt(i, session[j].turn) =>
      j < i \/ session[j].turn \in overtaken

ViewInv ==
  /\ CutAreOver /\ CutAreSpoken
  /\ NextIsLater /\ MessagesInOrder /\ ModelBeforeHeard

-----------------------------------------------------------------------------
(* Interruptions on their way down                                          *)

\* What is left of a queue was in it.
LEMMA TakenFrom ==
  ASSUME NEW S, NEW q \in Seq(S)
  PROVE  /\ q # <<>> => \A k \in DOMAIN Tail(q) : \E l \in DOMAIN q : Tail(q)[k] = q[l]
         /\ \A i \in DOMAIN q : \A k \in DOMAIN Behind(q, i) :
              \E l \in DOMAIN q : Behind(q, i)[k] = q[l]
         /\ \A i \in DOMAIN q : \A k \in DOMAIN RemoveAt(q, i) :
              \E l \in DOMAIN q : RemoveAt(q, i)[k] = q[l]
  <1>1. ASSUME q # <<>>, NEW k \in DOMAIN Tail(q)
        PROVE  \E l \in DOMAIN q : Tail(q)[k] = q[l]
    <2>1. k + 1 \in DOMAIN q /\ Tail(q)[k] = q[k + 1]
      BY <1>1
    <2> QED
      BY <2>1
  <1>2. ASSUME NEW i \in DOMAIN q, NEW k \in DOMAIN Behind(q, i)
        PROVE  \E l \in DOMAIN q : Behind(q, i)[k] = q[l]
    <2>1. k + i \in DOMAIN q /\ Behind(q, i)[k] = q[k + i]
      BY DEF Behind
    <2> QED
      BY <2>1
  <1>3. ASSUME NEW i \in DOMAIN q, NEW k \in DOMAIN RemoveAt(q, i)
        PROVE  \E l \in DOMAIN q : RemoveAt(q, i)[k] = q[l]
    <2> DEFINE a == SubSeq(q, 1, i - 1)
               b == SubSeq(q, i + 1, Len(q))
    <2>1. /\ a \in Seq(S) /\ b \in Seq(S)
          /\ \A l \in DOMAIN a : l \in DOMAIN q /\ a[l] = q[l]
          /\ \A l \in DOMAIN b : l + i \in DOMAIN q /\ b[l] = q[l + i]
      OBVIOUS
    <2>2. RemoveAt(q, i) = a \o b
      BY DEF RemoveAt
    <2> HIDE DEF a, b
    <2>3. \/ k \in DOMAIN a /\ (a \o b)[k] = a[k]
          \/ k - Len(a) \in DOMAIN b /\ (a \o b)[k] = b[k - Len(a)]
      BY <2>1, <2>2
    <2> QED
      BY <2>1, <2>2, <2>3
  <1> QED
    BY <1>1, <1>2, <1>3

LEMMA CutInShorter ==
  ASSUME NEW S, NEW q \in Seq(S), NEW r,
         \/ q # <<>> /\ r = Tail(q)
         \/ \E i \in DOMAIN q : r = Behind(q, i) \/ r = RemoveAt(q, i)
  PROVE  \A t : CutIn(r, t) => CutIn(q, t)
  <1>1. \A k \in DOMAIN r : \E l \in DOMAIN q : r[k] = q[l]
    BY TakenFrom
  <1> QED
    BY <1>1 DEF CutIn

LEMMA CutInAppend ==
  ASSUME NEW S, NEW q \in Seq(S), NEW f \in S, NEW t, CutIn(Append(q, f), t)
  PROVE  CutIn(q, t) \/ (f.type = "Interruption" /\ f.turn = t)
  <1>1. \A k \in DOMAIN Append(q, f) :
          Append(q, f)[k] = f \/ (k \in DOMAIN q /\ Append(q, f)[k] = q[k])
    OBVIOUS
  <1> QED
    BY <1>1 DEF CutIn

\* A run pushes no interruptions.
LEMMA CutNotPushed ==
  ASSUME TypeOK, NEW s, PushedBy(run, s), NEW t, CutIn(toTTS \o s, t)
  PROVE  CutIn(toTTS, t)
  <1>1. toTTS \in Seq(TTSFrame) /\ s \in Seq(TTSFrame)
    BY DEF TypeOK, SpeechTypeOK, PushedBy
  <1>2. \A k \in DOMAIN (toTTS \o s) :
          \/ k \in DOMAIN toTTS /\ (toTTS \o s)[k] = toTTS[k]
          \/ /\ k - Len(toTTS) \in 1 .. Len(s)
             /\ (toTTS \o s)[k] = s[k - Len(toTTS)]
    BY <1>1
  <1>3. \A k \in 1 .. Len(s) : s[k].type # "Interruption"
    BY DEF PushedBy
  <1> QED
    BY <1>2, <1>3 DEF CutIn

\* A report of a turn cut short answers the interruption that named the turn.
LEMMA CutReports ==
  ASSUME TypeOK, NEW u, NEW b \in BOOLEAN, TriggerTurnStopped(u, b), NEW t, ReportedCut(t)'
  PROVE  ReportedCut(t) \/ (b /\ u = t)
  <1>0. completions \in Seq(TurnCompleted)
    BY DEF TypeOK, SpeechTypeOK
  <1>1. CASE completions' = completions
    BY <1>1 DEF ReportedCut
  <1> DEFINE c == [turn |-> u, text |-> spoken, interrupted |-> b]
  <1>2. completions' # completions => completions' = Append(completions, c)
    BY <1>0 DEF TriggerTurnStopped, Report
  <1>3. c.turn = u /\ c.interrupted = b
    OBVIOUS
  <1> HIDE DEF c
  <1>4. CASE completions' # completions
    <2>1. \A k \in DOMAIN completions' :
            completions'[k] = c \/ (k \in DOMAIN completions /\ completions'[k] = completions[k])
      BY <1>0, <1>2, <1>4
    <2> QED
      BY <1>3, <2>1 DEF ReportedCut
  <1> QED
    BY <1>1, <1>4

\* The processors behind the LLM service interrupt no turn of their own.
LEMMA NoCutDownstream ==
  ASSUME TypeOK, NEW t, TTS \/ Output \/ Assistant, Cut(t)'
  PROVE  Cut(t)
  <1>1. /\ toTTS \in Seq(TTSFrame) /\ toOut \in Seq(OutFrame) /\ toAA \in Seq(OutFrame)
    BY DEF TypeOK, SpeechTypeOK
  <1>2. CASE TTSStart
    <2>1. /\ toTTS # <<>> /\ toTTS' = Tail(toTTS) /\ UNCHANGED <<toOut, toAA, completions>>
      BY <1>2 DEF TTSStart
    <2> QED
      BY <1>1, <2>1, CutInShorter DEF Cut, ReportedCut
  <1>3. CASE TTSText
    <2> DEFINE f == SpokenText([turn |-> Head(toTTS).turn, n |-> Head(toTTS).n])
    <2>1. /\ toTTS # <<>> /\ toTTS' = Tail(toTTS) /\ UNCHANGED <<toAA, completions>>
          /\ toOut' = Append(toOut, f)
      BY <1>3 DEF TTSText
    <2>2. toOut' \in Seq(OutFrame) /\ f.type = "TTSText"
      BY <1>3, SpeechType DEF TTS, TypeOK, SpeechTypeOK, SpokenText
    <2> HIDE DEF f
    <2>3. \A k \in DOMAIN toOut' : toOut'[k] = f \/ (k \in DOMAIN toOut /\ toOut'[k] = toOut[k])
      BY <1>1, <2>1, <2>2
    <2>4. CutIn(toOut', t) => CutIn(toOut, t)
      BY <2>2, <2>3 DEF CutIn
    <2>5. CutIn(toTTS', t) => CutIn(toTTS, t)
      BY <1>1, <2>1, CutInShorter
    <2> QED
      BY <2>1, <2>4, <2>5 DEF Cut, ReportedCut
  <1>4. CASE TTSEnd
    <2>1. /\ toTTS # <<>> /\ toTTS' = Tail(toTTS) /\ UNCHANGED <<toAA, completions>>
          /\ toOut' = toOut \/ toOut' = Append(toOut, SpeechStopped(tts.context))
      BY <1>4 DEF TTSEnd
    <2> DEFINE f == SpeechStopped(tts.context)
    <2>2. f \in OutFrame /\ f.type = "TTSStopped"
      BY DEF TypeOK, SpeechTypeOK, SpeechStopped, OutFrame
    <2> HIDE DEF f
    <2>3. CutIn(toOut', t) => CutIn(toOut, t)
      BY <1>1, <2>1, <2>2, CutInAppend DEF f
    <2>4. CutIn(toTTS', t) => CutIn(toTTS, t)
      BY <1>1, <2>1, CutInShorter
    <2> QED
      BY <2>1, <2>3, <2>4 DEF Cut, ReportedCut
  <1>5. CASE TTSInterrupted
    <2>1. PICK i \in DOMAIN toTTS : /\ FirstInterruption(toTTS, i)
                                    /\ toTTS' = Behind(toTTS, i)
                                    /\ toOut' = Append(toOut, toTTS[i])
                                    /\ UNCHANGED <<toAA, completions>>
      BY <1>5 DEF TTSInterrupted
    <2>2. toTTS[i] \in OutFrame /\ toTTS[i].type = "Interruption"
      BY <1>1, <2>1, InterruptionFrames DEF FirstInterruption
    <2>3. CutIn(toOut', t) => CutIn(toOut, t) \/ CutIn(toTTS, t)
      BY <1>1, <2>1, <2>2, CutInAppend DEF CutIn
    <2>4. CutIn(toTTS', t) => CutIn(toTTS, t)
      BY <1>1, <2>1, CutInShorter
    <2> QED
      BY <2>1, <2>3, <2>4 DEF Cut, ReportedCut
  <1>6. CASE PlaySentence \/ OutputStopped
    <2>1. /\ toOut # <<>> /\ toOut' = Tail(toOut) /\ UNCHANGED <<toTTS, completions>>
          /\ toAA' = Append(toAA, toOut[1]) /\ 1 \in DOMAIN toOut /\ toOut[1] \in OutFrame
      BY <1>1, <1>6 DEF PlaySentence, OutputStopped
    <2>2. CutIn(toAA', t) => CutIn(toAA, t) \/ CutIn(toOut, t)
      BY <1>1, <2>1, CutInAppend DEF CutIn
    <2>3. CutIn(toOut', t) => CutIn(toOut, t)
      BY <1>1, <2>1, CutInShorter
    <2> QED
      BY <2>1, <2>2, <2>3 DEF Cut, ReportedCut
  <1>7. CASE OutputInterrupted
    <2>1. PICK i \in DOMAIN toOut : /\ toOut' = Behind(toOut, i)
                                    /\ toAA' = Append(toAA, toOut[i])
                                    /\ UNCHANGED <<toTTS, completions>>
      BY <1>7 DEF OutputInterrupted
    <2>2. toOut[i] \in OutFrame
      BY <1>1
    <2>3. CutIn(toAA', t) => CutIn(toAA, t) \/ CutIn(toOut, t)
      BY <1>1, <2>1, <2>2, CutInAppend DEF CutIn
    <2>4. CutIn(toOut', t) => CutIn(toOut, t)
      BY <1>1, <2>1, CutInShorter
    <2> QED
      BY <2>1, <2>3, <2>4 DEF Cut, ReportedCut
  <1>8. CASE AggregateText \/ AAPlainInterrupted
    <2>1. /\ UNCHANGED <<toTTS, toOut, completions>>
          /\ \/ toAA # <<>> /\ toAA' = Tail(toAA)
             \/ \E i \in DOMAIN toAA : toAA' = Behind(toAA, i)
      BY <1>8 DEF AggregateText, AAPlainInterrupted
    <2>2. CutIn(toAA', t) => CutIn(toAA, t)
      BY <1>1, <2>1, CutInShorter
    <2> QED
      BY <2>1, <2>2 DEF Cut, ReportedCut
  <1>9. CASE TurnStopped
    <2>1. /\ toAA # <<>> /\ toAA' = Tail(toAA) /\ UNCHANGED <<toTTS, toOut>>
          /\ TriggerTurnStopped(Head(toAA).turn, FALSE)
      BY <1>9 DEF TurnStopped
    <2>2. ReportedCut(t)' => ReportedCut(t)
      BY <2>1, CutReports
    <2>3. CutIn(toAA', t) => CutIn(toAA, t)
      BY <1>1, <2>1, CutInShorter
    <2> QED
      BY <2>1, <2>2, <2>3 DEF Cut
  <1>10. CASE AAInterrupted
    <2>1. PICK i \in DOMAIN toAA : /\ toAA' = RemoveAt(toAA, i)
                                   /\ toAA[i].type = "Interruption"
                                   /\ TriggerTurnStopped(toAA[i].turn, TRUE)
                                   /\ UNCHANGED <<toTTS, toOut>>
      BY <1>10 DEF AAInterrupted, FirstInterruption
    <2>2. ReportedCut(t)' => ReportedCut(t) \/ toAA[i].turn = t
      BY <2>1, CutReports
    <2>21. toAA[i].turn = t => CutIn(toAA, t)
      BY <2>1 DEF CutIn
    <2>3. CutIn(toAA', t) => CutIn(toAA, t)
      BY <1>1, <2>1, CutInShorter
    <2> QED
      BY <2>1, <2>2, <2>21, <2>3 DEF Cut
  <1> QED
    BY <1>2, <1>3, <1>4, <1>5, <1>6, <1>7, <1>8, <1>9, <1>10 DEF TTS, Output, Assistant

\* The LLM service cuts a turn short by passing its interruption on.
LEMMA CutByService ==
  ASSUME TypeOK, [Next]_vars, NEW t, Cut(t)', ~Cut(t)
  PROVE  LLMInterrupted /\ \E i \in DOMAIN down : down[i].turn = t
  <1>0. run \in Run \cup {Idle}
    BY DEF TypeOK, ServiceTypeOK
  <1>1. UNCHANGED <<toTTS, toOut, toAA, completions>> => FALSE
    BY DEF Cut, CutIn, ReportedCut
  <1>2. ~(TTS \/ Output \/ Assistant)
    BY NoCutDownstream
  <1>3. ASSUME NEW s, PushedBy(run, s), toTTS' = toTTS \o s,
               UNCHANGED <<toOut, toAA, completions>>
        PROVE  FALSE
    <2>1. CutIn(toTTS', t)
      BY <1>3 DEF Cut, CutIn, ReportedCut
    <2> QED
      BY <1>3, <2>1, CutNotPushed DEF Cut
  <1>4. ~(PartialEvent \/ FinalEvent \/ EndRun \/ Shutdown)
    <2>1. ~PartialEvent
      BY <1>3, PartialPushes DEF PartialEvent
    <2>2. ~FinalEvent
      <3>1. FinalEvent => run # Idle
        BY DEF FinalEvent, Idle
      <3> QED
        BY <1>0, <1>3, <3>1, RunPushes DEF FinalEvent
    <2>3. ~EndRun
      BY <1>0, <1>3, RunPushes DEF EndRun
    <2>4. ~Shutdown
      BY <1>0, <1>3, RunPushes DEF Shutdown
    <2> QED
      BY <2>1, <2>2, <2>3, <2>4
  <1>5. ~(RouteContext \/ HandleTurnCompleted \/ AppendHeard \/ LoseHeard \/ StartRun
            \/ RunnerAsks \/ Quiescent \/ UNCHANGED vars)
    BY <1>1 DEF RouteContext, HandleTurnCompleted, AppendHeard, LoseHeard, StartRun,
         RunnerAsks, Quiescent, vars, upstream, speech
  <1>6. ~(UserTurnStarted \/ PushAggregation \/ PushNothing \/ PersistAndRun)
    BY <1>1 DEF UserTurnStarted, PushAggregation, PushNothing, PersistAndRun, speech
  <1>7. LLMInterrupted
    BY <1>2, <1>4, <1>5, <1>6 DEF Next, System, InputTask, ProcessTask, Runner, User
  <1>i. PICK i \in DOMAIN down :
           /\ down[i].type = "Interruption" /\ down[i] \in DownFrame
           /\ toTTS' = (toTTS \o CancelledRun(run)) \o <<down[i]>>
    BY <1>7, InterruptionTaken DEF TypeOK
  <1> DEFINE r == toTTS \o CancelledRun(run)
             f == down[i]
  <1>8. r \in Seq(TTSFrame) /\ toTTS' = Append(r, f) /\ f \in TTSFrame
    <2>1. CancelledRun(run) \in Seq(TTSFrame) /\ toTTS \in Seq(TTSFrame)
      BY CancelledRunType DEF TypeOK, ServiceTypeOK, SpeechTypeOK
    <2>2. r \in Seq(TTSFrame) /\ toTTS' = r \o <<f>>
      BY <1>i, <2>1
    <2>4. f \in TTSFrame
      BY <1>i, InterruptionFrames
    <2> HIDE DEF r, f
    <2> QED
      BY <2>2, <2>4
  <1>9. CutIn(r, t) => CutIn(toTTS, t)
    BY <1>0, RunPushes, CutNotPushed
  <1> HIDE DEF r, f
  <1>10. f.turn = t
    <2>1. UNCHANGED <<toOut, toAA, completions>>
      BY <1>7 DEF LLMInterrupted
    <2>2. CutIn(toTTS', t)
      BY <2>1 DEF Cut, CutIn, ReportedCut
    <2>3. CutIn(r, t) \/ f.turn = t
      BY <1>8, <2>2, CutInAppend
    <2> QED
      BY <1>9, <2>3 DEF Cut
  <1> QED
    BY <1>7, <1>10 DEF f

LEMMA CutNamed ==
  ASSUME NEW t, Cut(t)
  PROVE  Named(t)
  BY DEF Cut, CutIn, ReportedCut, Named, NamedIn, Reported

\* An interruption ends the run of the turn it names, and a turn that has been
\* interrupted is not run again: it is run after it only if it was overtaken.
LEMMA CutAreOverInductive ==
  ASSUME TypeOK, NamedAreDone, CutAreOver, [Next]_vars
  PROVE  CutAreOver'
  <1>0. /\ procQ \in Seq(Turns) /\ minted \in Nat /\ run \in Run \cup {Idle}
    BY DEF TypeOK, UserTypeOK, ServiceTypeOK
  <1> SUFFICES ASSUME NEW t \in Turns, Cut(t)', run'.turn = t
               PROVE  t \in overtaken'
    BY DEF CutAreOver
  <1>g. overtaken \subseteq overtaken'
    BY OvertakenGrows
  <1>1. CASE ~Cut(t)
    <2>1. run' = Idle
      BY <1>1, CutByService, InterruptionTaken DEF TypeOK
    <2> QED
      BY <2>1 DEF Idle, NoTurn, Turns
  <1>2. CASE Cut(t)
    <2>1. /\ run.turn = t => t \in overtaken
          /\ t <= minted
          /\ InProcQ(t) => t \in overtaken
      BY <1>2, CutNamed DEF CutAreOver, NamedAreDone, Pending
    <2>2. \/ run'.turn = run.turn
          \/ run' = Idle
          \/ StartRun
          \/ run'.turn = minted + 1
      <3>1. RunnerAsks \/ PartialEvent \/ FinalEvent => run'.turn = run.turn
        BY <1>0 DEF RunnerAsks, PartialEvent, FinalEvent, Run, Idle
      <3>2. LLMInterrupted \/ EndRun \/ Shutdown => run' = Idle
        BY InterruptionTaken DEF EndRun, Shutdown, TypeOK
      <3>3. PersistAndRun => run'.turn = minted + 1
        BY DEF PersistAndRun
      <3>4. TTS \/ Output \/ Assistant => run' = run
        BY DownstreamSteps DEF upstream, llmVars
      <3>5. RouteContext \/ HandleTurnCompleted \/ AppendHeard \/ LoseHeard
              \/ UserTurnStarted \/ PushAggregation \/ PushNothing \/ Quiescent
              \/ UNCHANGED vars => run' = run
        BY DEF RouteContext, HandleTurnCompleted, AppendHeard, LoseHeard,
             UserTurnStarted, PushAggregation, PushNothing, Quiescent, vars, upstream,
             llmVars
      <3> QED
        BY <3>1, <3>2, <3>3, <3>4, <3>5
        DEF Next, System, InputTask, ProcessTask, Runner, User
    <2>3. t \in Nat \ {0}
      BY DEF Turns
    <2>4. StartRun => run'.turn = procQ[1] /\ 1 \in DOMAIN procQ
      BY <1>0 DEF StartRun
    <2> QED
      BY <1>0, <1>g, <2>1, <2>2, <2>3, <2>4 DEF Idle, NoTurn, InProcQ
  <1> QED
    BY <1>1, <1>2

\* Interruptions name turns the user spoke.
LEMMA CutAreSpokenInductive ==
  ASSUME TypeOK, QueueInv, NamedAreDone, CutAreSpoken, [Next]_vars
  PROVE  CutAreSpoken'
  <1>0. /\ down \in Seq(DownFrame) /\ minted \in Nat /\ prevTurn \in Nat
        /\ \A k \in DOMAIN down : down[k].turn \in Nat
    BY TurnsAreNumbers DEF TypeOK, UserTypeOK, Turns, NoTurn
  <1>1. \/ injected' = injected
        \/ PersistAndRun /\ injected' = injected \cup {minted + 1}
    <2>1. TTS \/ Output \/ Assistant => injected' = injected
      BY DownstreamSteps DEF upstream, llmVars
    <2> QED
      BY <2>1 DEF Next, System, InputTask, ProcessTask, Runner, User, RouteContext,
         LLMInterrupted, HandleTurnCompleted, AppendHeard, LoseHeard, StartRun,
         RunnerAsks, PartialEvent, FinalEvent, EndRun, UserTurnStarted,
         PushAggregation, PushNothing, PersistAndRun, Shutdown, Quiescent, vars,
         upstream, llmVars
  <1>2. ASSUME NEW t, t <= minted, t \in Nat, t \notin injected
        PROVE  t \notin injected'
    BY <1>0, <1>1, <1>2
  <1>3. ASSUME NEW t \in Turns, Cut(t)'
        PROVE  t \notin injected'
    <2>1. CASE Cut(t)
      BY <1>2, <2>1, CutNamed DEF CutAreSpoken, NamedAreDone, Turns
    <2>2. CASE ~Cut(t)
      <3>1. LLMInterrupted /\ \E i \in DOMAIN down : down[i].turn = t
        BY <1>3, <2>2, CutByService
      <3>2. injected' = injected
        BY <3>1 DEF LLMInterrupted
      <3> QED
        BY <3>1, <3>2 DEF CutAreSpoken
    <2> QED
      BY <2>1, <2>2
  <1>4. prevTurn' \notin injected'
    <2>1. \/ prevTurn' = prevTurn
          \/ PushAggregation
      <3>1. TTS \/ Output \/ Assistant => prevTurn' = prevTurn
        BY DownstreamSteps DEF upstream, uaVars
      <3> QED
        BY <3>1 DEF Next, System, InputTask, ProcessTask, Runner, User, RouteContext,
           LLMInterrupted, HandleTurnCompleted, AppendHeard, LoseHeard, StartRun,
           RunnerAsks, PartialEvent, FinalEvent, EndRun, UserTurnStarted, PushNothing,
           PersistAndRun, Shutdown, Quiescent, vars, upstream, uaVars
    <2>2. CASE prevTurn' = prevTurn
      BY <1>0, <1>2, <2>2 DEF CutAreSpoken, QueueInv, MintedApart
    <2>3. CASE PushAggregation
      <3>1. prevTurn' = minted + 1 /\ injected' = injected
        BY <2>3 DEF PushAggregation, Recorded, llmVars
      <3> QED
        BY <1>0, <3>1 DEF QueueInv, MintedApart
    <2> QED
      BY <2>1, <2>2, <2>3
  <1>5. ASSUME NEW k \in DOMAIN down'
        PROVE  down'[k].turn \notin injected'
    <2>1. \/ \E l \in DOMAIN down : down'[k] = down[l]
          \/ down'[k].turn = prevTurn
          \/ down'[k].turn = minted + 1 /\ injected' = injected
      <3>1. CASE down' = down
        BY <1>5, <3>1
      <3>2. CASE RouteContext \/ LLMInterrupted
        <4>1. CASE RouteContext
          BY <1>0, <1>5, <4>1, TakenFrom DEF RouteContext
        <4>2. CASE LLMInterrupted
          BY <1>0, <1>5, <4>2, TakenFrom DEF LLMInterrupted
        <4> QED
          BY <3>2, <4>1, <4>2
      <3>3. CASE UserTurnStarted
        <4>1. down' = Append(down, Interruption(prevTurn))
          BY <3>3 DEF UserTurnStarted
        <4>2. Interruption(prevTurn).turn = prevTurn
          BY DEF Interruption
        <4>3. (k \in DOMAIN down /\ down'[k] = down[k]) \/ down'[k] = Interruption(prevTurn)
          BY <1>0, <1>5, <4>1
        <4> QED
          BY <4>2, <4>3
      <3>4. CASE PushAggregation
        <4>1. down' = Append(down, Context(minted + 1)) /\ injected' = injected
          BY <3>4 DEF PushAggregation, llmVars
        <4>2. Context(minted + 1).turn = minted + 1
          BY DEF Context
        <4>3. (k \in DOMAIN down /\ down'[k] = down[k]) \/ down'[k] = Context(minted + 1)
          BY <1>0, <1>5, <4>1
        <4> QED
          BY <4>1, <4>2, <4>3
      <3>5. down' = down \/ RouteContext \/ LLMInterrupted \/ UserTurnStarted
              \/ PushAggregation
        <4>1. TTS \/ Output \/ Assistant => down' = down
          BY DownstreamSteps DEF upstream
        <4> QED
          BY <4>1 DEF Next, System, InputTask, ProcessTask, Runner, User,
             HandleTurnCompleted, AppendHeard, LoseHeard, StartRun,
             RunnerAsks, PartialEvent, FinalEvent, EndRun, PushNothing,
             PersistAndRun, Shutdown, Quiescent, vars, upstream
      <3> QED
        BY <3>1, <3>2, <3>3, <3>4, <3>5
    <2>2. CASE \E l \in DOMAIN down : down'[k] = down[l]
      BY <1>0, <1>2, <2>2 DEF CutAreSpoken, QueueInv, MintedApart
    <2>3. CASE down'[k].turn = prevTurn
      BY <1>0, <1>2, <2>3 DEF CutAreSpoken, QueueInv, MintedApart
    <2>4. CASE down'[k].turn = minted + 1 /\ injected' = injected
      BY <1>0, <2>4 DEF QueueInv, MintedApart
    <2> QED
      BY <2>1, <2>2, <2>3, <2>4
  <1> QED
    BY <1>3, <1>4, <1>5 DEF CutAreSpoken

-----------------------------------------------------------------------------
(* What is logged behind what                                               *)

\* A turn marked as cut short has been cut short.
LEMMA HeardIsCut ==
  ASSUME HeardIsFirstReport, NEW i \in DOMAIN session, session[i].kind = "heard"
  PROVE  ReportedCut(session[i].turn)
  BY DEF HeardIsFirstReport, ReportedCut

\* A step that does not touch the journal.
LEMMA NothingLoggedView ==
  ASSUME TypeOK, Bookkeeping, QueueInv, ViewInv, [Next]_vars, session' = session
  PROVE  NextIsLater' /\ MessagesInOrder' /\ ModelBeforeHeard'
  <1>0. /\ procQ \in Seq(Turns) /\ minted \in Nat /\ run \in Run \cup {Idle}
        /\ \A i \in DOMAIN session : session[i].turn \in Nat /\ session[i].turn <= minted
    BY TurnsAreNumbers DEF TypeOK, UserTypeOK, ServiceTypeOK, Bookkeeping, KnownAreMinted
  <1>1. injected \subseteq injected'
    <2>1. TTS \/ Output \/ Assistant => injected' = injected
      BY DownstreamSteps DEF upstream, llmVars
    <2> QED
      BY <2>1 DEF Next, System, InputTask, ProcessTask, Runner, User, RouteContext,
         LLMInterrupted, HandleTurnCompleted, AppendHeard, LoseHeard, StartRun,
         RunnerAsks, PartialEvent, FinalEvent, EndRun, UserTurnStarted,
         PushAggregation, PushNothing, PersistAndRun, Shutdown, Quiescent, vars,
         upstream, llmVars
  <1>2. \A i \in DOMAIN session : SpokenMessage(i)' => SpokenMessage(i)
    BY <1>1 DEF SpokenMessage
  <1>3. MessagesInOrder' /\ ModelBeforeHeard'
    BY <1>2, OvertakenGrows DEF ViewInv, MessagesInOrder, ModelBeforeHeard, HeardAt
  <1>4. NextIsLater'
    <2> SUFFICES ASSUME run'.phase = "called", NEW i \in DOMAIN session, SpokenMessage(i)
                 PROVE  session[i].turn < run'.turn
      BY <1>2 DEF NextIsLater
    <2>1. run' = run \/ StartRun \/ PersistAndRun
      <3>1. TTS \/ Output \/ Assistant => run' = run
        BY DownstreamSteps DEF upstream, llmVars
      <3>2. ~(LLMInterrupted \/ EndRun \/ Shutdown)
        BY InterruptionTaken DEF EndRun, Shutdown, Idle, TypeOK
      <3>3. ~(RunnerAsks \/ PartialEvent \/ FinalEvent)
        BY <1>0 DEF RunnerAsks, PartialEvent, FinalEvent, Run, Idle
      <3> QED
        BY <3>1, <3>2, <3>3 DEF Next, System, InputTask, ProcessTask, Runner, User,
           RouteContext, HandleTurnCompleted, AppendHeard, LoseHeard, UserTurnStarted,
           PushAggregation, PushNothing, Quiescent, vars, upstream, llmVars
    <2>2. CASE run' = run
      BY <2>2 DEF ViewInv, NextIsLater
    <2>3. CASE StartRun
      <3>1. 1 \in DOMAIN procQ /\ run'.turn = procQ[1]
        BY <1>0, <2>3 DEF StartRun
      <3> QED
        BY <3>1 DEF QueueInv, LoggedInOrder, BeforeQueued
    <2>4. CASE PersistAndRun
      <3>1. run'.turn = minted + 1
        BY <2>4 DEF PersistAndRun
      <3> QED
        BY <1>0, <3>1
    <2> QED
      BY <2>1, <2>2, <2>3, <2>4
  <1> QED
    BY <1>3, <1>4

\* A step of the runner, or the end of a [HEARD] write, adds an event.
LEMMA LoggedView ==
  ASSUME TypeOK, HeardIsFirstReport, ViewInv, AppendHeard \/ RunnerAsks \/ FinalEvent
  PROVE  NextIsLater' /\ MessagesInOrder' /\ ModelBeforeHeard'
  <1>0. session \in Seq(JournalEvent) /\ run \in Run \cup {Idle}
    BY DEF TypeOK, ServiceTypeOK
  <1>1. ASSUME NEW e \in JournalEvent, session' = Append(session, e),
               injected' = injected, overtaken' = overtaken,
               e.kind = "user" =>
                 \A i \in DOMAIN session : SpokenMessage(i) => session[i].turn < e.turn,
               e.kind = "model" =>
                 \A i \in DOMAIN session : HeardAt(i, e.turn) => e.turn \in overtaken
        PROVE  MessagesInOrder' /\ ModelBeforeHeard'
    <2>1. /\ \A i \in DOMAIN session' : i \in DOMAIN session \/ i = Len(session) + 1
          /\ \A i \in DOMAIN session : session'[i] = session[i] /\ i < Len(session) + 1
          /\ session'[Len(session) + 1] = e
          /\ DOMAIN session = 1 .. Len(session) /\ Len(session) \in Nat
      BY <1>0, <1>1
    <2>2. MessagesInOrder'
      <3> SUFFICES ASSUME NEW i \in DOMAIN session', NEW j \in DOMAIN session', i < j,
                          SpokenMessage(i)', session'[j].kind = "user"
                   PROVE  session'[i].turn < session'[j].turn
        BY DEF MessagesInOrder
      <3>1. i \in DOMAIN session
        BY <2>1
      <3>2. SpokenMessage(i) /\ session'[i] = session[i]
        BY <1>1, <2>1, <3>1 DEF SpokenMessage
      <3>3. CASE j \in DOMAIN session
        BY <2>1, <3>1, <3>2, <3>3 DEF ViewInv, MessagesInOrder
      <3>4. CASE j = Len(session) + 1
        BY <1>1, <2>1, <3>1, <3>2, <3>4
      <3> QED
        BY <2>1, <3>3, <3>4
    <2>3. ASSUME NEW i \in DOMAIN session', NEW j \in DOMAIN session',
                 session'[j].kind = "model", session'[i].kind = "heard",
                 session'[i].turn = session'[j].turn
          PROVE  j < i \/ session'[j].turn \in overtaken'
      <3>1. CASE i \in DOMAIN session /\ j \in DOMAIN session
        BY <1>1, <2>1, <2>3, <3>1 DEF ViewInv, ModelBeforeHeard, HeardAt
      <3>2. CASE i \in DOMAIN session /\ j = Len(session) + 1
        BY <1>1, <2>1, <2>3, <3>2 DEF HeardAt
      <3>3. CASE i = Len(session) + 1
        BY <2>1, <2>3, <3>3
      <3> QED
        BY <2>1, <3>1, <3>2, <3>3
    <2> QED
      BY <2>2, <2>3 DEF ModelBeforeHeard, HeardAt
  <1>2. CASE AppendHeard
    <2> DEFINE e == [kind |-> "heard", turn |-> heardWrite.turn,
                     text |-> heardWrite.text]
    <2>1. /\ e \in JournalEvent /\ e.kind = "heard" /\ session' = Append(session, e)
          /\ UNCHANGED <<injected, overtaken>> /\ run' = run
      BY <1>2 DEF AppendHeard, TypeOK, ServiceTypeOK, JournalEvent, HeardWrite
    <2> HIDE DEF e
    <2>2. MessagesInOrder' /\ ModelBeforeHeard'
      BY <1>1, <2>1
    <2>3. NextIsLater'
      <3>1. \A i \in DOMAIN session' :
              (i \in DOMAIN session /\ session'[i] = session[i]) \/ session'[i] = e
        BY <1>0, <2>1
      <3> QED
        BY <2>1, <3>1 DEF ViewInv, NextIsLater, SpokenMessage
    <2> QED
      BY <2>2, <2>3
  <1>3. CASE RunnerAsks
    <2> DEFINE e == [kind |-> "user", turn |-> run.turn, text |-> <<>>]
    <2>1. /\ e \in JournalEvent /\ e.kind = "user" /\ e.turn = run.turn
          /\ session' = Append(session, e) /\ run.phase = "called"
          /\ UNCHANGED <<injected, overtaken>> /\ run'.phase = "asked"
      BY <1>0, <1>3 DEF RunnerAsks, Run, Idle, JournalEvent
    <2> HIDE DEF e
    <2> QED
      BY <1>1, <2>1 DEF ViewInv, NextIsLater
  <1>4. CASE FinalEvent
    <2> DEFINE e == [kind |-> "model", turn |-> run.turn,
                     text |-> Response(run.turn, run.said)]
    <2>0. run \in Run
      BY <1>0, <1>4 DEF FinalEvent, Idle
    <2>1. e \in JournalEvent /\ run \in Run
      BY <2>0, ResponseType DEF JournalEvent, Run
    <2>2. /\ e.kind = "model" /\ e.turn = run.turn
          /\ session' = Append(session, e) /\ run'.phase = "persisted"
          /\ UNCHANGED <<injected, overtaken>>
      BY <1>4, <2>1 DEF FinalEvent, Run
    <2> HIDE DEF e
    <2>3. \A i \in DOMAIN session : HeardAt(i, run.turn) => run.turn \in overtaken
      BY <2>1, HeardIsCut DEF ViewInv, CutAreOver, Cut, HeardAt, Run
    <2> QED
      BY <1>1, <2>1, <2>2, <2>3 DEF NextIsLater
  <1> QED
    BY <1>2, <1>3, <1>4

LEMMA ViewInductive ==
  ASSUME TypeOK, Bookkeeping, QueueInv, ReportInv, ViewInv, [Next]_vars
  PROVE  ViewInv'
  <1>1. CutAreOver' /\ CutAreSpoken'
    BY CutAreOverInductive, CutAreSpokenInductive DEF ViewInv, ReportInv
  <1>2. session' = session \/ AppendHeard \/ RunnerAsks \/ FinalEvent
    <2>1. TTS \/ Output \/ Assistant => session' = session
      BY DownstreamSteps DEF upstream
    <2> QED
      BY <2>1 DEF Next, System, InputTask, ProcessTask, Runner, User, RouteContext,
         LLMInterrupted, HandleTurnCompleted, LoseHeard, StartRun, PartialEvent,
         EndRun, UserTurnStarted, PushAggregation, PushNothing, PersistAndRun,
         Shutdown, Quiescent, vars, upstream
  <1>3. NextIsLater' /\ MessagesInOrder' /\ ModelBeforeHeard'
    BY <1>2, NothingLoggedView, LoggedView DEF ReportInv
  <1> QED
    BY <1>1, <1>3 DEF ViewInv

LEMMA ViewInvHolds == Spec => []ViewInv
  <1>1. Init => ViewInv
    BY DEF Init, ViewInv, CutAreOver, CutAreSpoken, Cut, CutIn, ReportedCut, NextIsLater,
           MessagesInOrder, ModelBeforeHeard, Idle
  <1>2. TypeOK /\ Bookkeeping /\ JournalInv /\ ReportInv /\ ViewInv /\ [Next]_vars
          => ViewInv'
    BY ViewInductive DEF JournalInv
  <1> QED
    BY <1>1, <1>2, TypeCorrect, BookkeepingHolds, JournalInvHolds, ReportInvHolds, PTL
    DEF Spec

-----------------------------------------------------------------------------
(* What the plugin shows                                                    *)

\* The contents of the request are the events of the journal.
LEMMA ContentOf ==
  ASSUME TypeOK
  PROVE  /\ DOMAIN Contents = DOMAIN session
         /\ \A i \in DOMAIN session :
              /\ Contents[i].text = session[i].text
              /\ Contents[i].heard = (session[i].kind = "heard")
              /\ Plugin!IsModel(Contents[i]) <=> session[i].kind = "model"
  BY DEF Contents, Plugin!IsModel

\* No text has a quote in it: the whole text of a [HEARD] event is found.
LEMMA WholeText ==
  ASSUME NEW x \in Seq(Sentence)
  PROVE  Plugin!Extracted(x) = x
  <1>1. \A i \in DOMAIN x : x[i] # NoQuote
    BY DEF Sentence, NoQuote, Turns, NoTurn
  <1> QED
    BY <1>1 DEF Plugin!Extracted

\* A model event is shown as it is, or with the text of the last [HEARD] event
\* before the next model event.
LEMMA ShownText ==
  ASSUME TypeOK, NEW i \in DOMAIN session, session[i].kind = "model"
  PROVE  \/ Shown(i) = session[i].text
         \/ \E m \in Plugin!MarkersOf(i, Len(session)) :
              /\ m \in DOMAIN session /\ i < m /\ session[m].kind = "heard"
              /\ \A l \in i + 1 .. m - 1 : session[l].kind # "model"
              /\ Shown(i) = session[m].text
  <1> DEFINE ms == Plugin!MarkersOf(i, Len(session))
             m  == CHOOSE m \in ms : \A l \in ms : l <= m
  <1>1. session \in Seq(JournalEvent) /\ Len(session) \in Nat
    BY DEF TypeOK, ServiceTypeOK
  <1>2. CASE ms = {}
    BY <1>2, ContentOf DEF Shown, Plugin!Expected
  <1>3. CASE ms # {}
    <2>1. ms \in SUBSET (0 .. Len(session))
      BY <1>1 DEF Plugin!MarkersOf
    <2>2. \E k \in ms : \A l \in ms : l <= k
      BY <1>1, <1>3, <2>1, GreatestElement
    <2>3. m \in ms
      BY <2>2
    <2>4. Shown(i) = Plugin!Truncated(Contents[i], Contents[m]).text
      BY <1>3 DEF Shown, Plugin!Expected
    <2> HIDE DEF m
    <2>5. /\ m \in i + 1 .. Len(session) /\ Contents[m].heard
          /\ \A l \in i + 1 .. m - 1 : ~Plugin!IsModel(Contents[l])
      BY <2>3 DEF Plugin!MarkersOf
    <2> HIDE DEF ms
    <2>6. m \in DOMAIN session /\ i < m /\ \A l \in i + 1 .. m - 1 : l \in DOMAIN session
      BY <1>1, <2>5
    <2>7. session[m].kind = "heard" /\ \A l \in i + 1 .. m - 1 : session[l].kind # "model"
      BY <2>5, <2>6, ContentOf
    <2>8. Shown(i) = session[m].text
      <3>1. Plugin!Truncated(Contents[i], Contents[m]).text
              = Plugin!Extracted(Contents[m].text)
        BY DEF Plugin!Truncated, Contents
      <3>2. session[m].text \in Seq(Sentence)
        <4>1. session[m] \in JournalEvent
          BY <1>1, <2>6
        <4> QED
          BY <4>1 DEF JournalEvent
      <3> QED
        BY <2>4, <2>6, <3>1, <3>2, ContentOf, WholeText
    <2> USE DEF ms
    <2> QED
      BY <2>3, <2>6, <2>7, <2>8
  <1> QED
    BY <1>2, <1>3

\* The [HEARD] event of a later turn whose own model event comes first does not
\* stand behind the model event of an earlier one.
LEMMA NotOfALaterTurn ==
  ASSUME TypeOK, JournalOrder, HeardIsFirstReport, ViewInv,
         NEW i \in DOMAIN session, NEW m \in DOMAIN session, NEW l \in DOMAIN session,
         session[i].kind = "model", session[m].kind = "heard", i < m,
         \A k \in i + 1 .. m - 1 : session[k].kind # "model",
         ModelAt(l, session[m].turn), session[m].turn > session[i].turn
  PROVE  l > m /\ session[m].turn \in overtaken
  <1>1. /\ session \in Seq(JournalEvent) /\ DOMAIN session = 1 .. Len(session)
        /\ Len(session) \in Nat
        /\ \A k \in DOMAIN session : session[k].turn \in Turns /\ session[k].turn \in Nat
    <2>1. session \in Seq(JournalEvent)
      BY DEF TypeOK, ServiceTypeOK
    <2>2. \A k \in DOMAIN session : session[k] \in JournalEvent
      BY <2>1
    <2> QED
      BY <2>1, <2>2 DEF JournalEvent, Turns
  <1> SUFFICES ASSUME l < m
               PROVE  FALSE
    BY <1>1 DEF ViewInv, ModelBeforeHeard, HeardAt, ModelAt
  <1>2. l < m
    OBVIOUS
  <1>3. l < i
    BY <1>1, <1>2 DEF ModelAt
  <1>4. PICK a \in 1 .. l - 1 : UserAt(a, session[m].turn)
    BY DEF JournalOrder, ModelAt
  <1>5. PICK b \in 1 .. i - 1 : UserAt(b, session[i].turn)
    BY DEF JournalOrder
  <1>6. a \in DOMAIN session /\ b \in DOMAIN session /\ a # b
    BY <1>1, <1>3, <1>4, <1>5 DEF UserAt
  <1>7. ~(a < b)
    <2>1. SpokenMessage(a)
      BY <1>1, <1>4, HeardIsCut DEF ViewInv, CutAreSpoken, Cut, SpokenMessage, UserAt
    <2> QED
      BY <1>1, <1>4, <1>5, <1>6, <2>1 DEF ViewInv, MessagesInOrder, UserAt
  <1>8. ~(b < l)
    <2>1. \A k \in b + 1 .. i - 1 : session[k].kind = "heard"
      BY <1>5, <1>6 DEF JournalOrder, UserAt, ModelAt
    <2>2. b < l => l \in b + 1 .. i - 1
      BY <1>1, <1>3, <1>6
    <2>3. session[l].kind = "model"
      BY DEF ModelAt
    <2> QED
      BY <2>1, <2>2, <2>3
  <1> QED
    BY <1>1, <1>4, <1>6, <1>7, <1>8

\* The LLM is shown a response whole or as it was first reported cut short.  Where
\* _find_previous_model_event finds the wrong event, it is for a [HEARD] event of an
\* earlier turn that was reported late; or of a later turn whose run was cancelled
\* before its model event was logged; or of a later turn whose context was
\* overtaken by the interruption that names it and which was reported while it
\* ran, so that its model event is logged behind its [HEARD] event.
THEOREM PluginShowsWhatWasHeard == Spec => []ShownAsHeard
  <1>1. TypeOK /\ JournalOrder /\ HeardIsFirstReport /\ ViewInv => ShownAsHeard
    <2> SUFFICES ASSUME TypeOK, JournalOrder, HeardIsFirstReport, ViewInv,
                        NEW i \in DOMAIN session, session[i].kind = "model",
                        Shown(i) # session[i].text
                 PROVE  \/ ReportedHeard(session[i].turn, Shown(i))
                        \/ \E m \in Plugin!MarkersOf(i, Len(session)) :
                             /\ Shown(i) = session[m].text
                             /\ \/ session[m].turn < session[i].turn
                                \/ /\ session[m].turn > session[i].turn
                                   /\ \A l \in DOMAIN session :
                                        ModelAt(l, session[m].turn) =>
                                          l > m /\ session[m].turn \in overtaken
      BY DEF ShownAsHeard
    <2>1. PICK m \in Plugin!MarkersOf(i, Len(session)) :
            /\ m \in DOMAIN session /\ i < m /\ session[m].kind = "heard"
            /\ \A l \in i + 1 .. m - 1 : session[l].kind # "model"
            /\ Shown(i) = session[m].text
      BY ShownText
    <2>2. session[m].turn \in Nat /\ session[i].turn \in Nat
      BY <2>1, TurnsAreNumbers
    <2>3. CASE session[m].turn = session[i].turn
      BY <2>1, <2>3 DEF HeardIsFirstReport, ReportedHeard
    <2>4. CASE session[m].turn < session[i].turn
      BY <2>1, <2>4
    <2>5. CASE session[m].turn > session[i].turn
      <3>1. \A l \in DOMAIN session : ModelAt(l, session[m].turn) =>
              l > m /\ session[m].turn \in overtaken
        BY <2>1, <2>5, NotOfALaterTurn
      <3> QED
        BY <2>1, <2>5, <3>1
    <2> QED
      BY <2>2, <2>3, <2>4, <2>5
  <1> QED
    BY <1>1, TypeCorrect, JournalKeepsOrder, HeardRepeatsFirstReport, ViewInvHolds, PTL

=============================================================================
