------------------------------ MODULE VqlResponses ------------------------------
(***************************************************************************)
(* VqlPipeline with a memory of what AdkLLMService has pushed downstream,  *)
(* which shows that the in-process backend keeps the promise TurnResponses *)
(* states for any LLM service, the one WsBridge keeps for the other        *)
(* backend.                                                                *)
(*                                                                         *)
(* toTTS is a queue the TTS takes frames from; pushed is everything that   *)
(* has ever been put in, as TurnResponses sees it: without interruptions,  *)
(* which are no part of a response, and without the wording of texts.      *)
(***************************************************************************)
EXTENDS VqlPipeline

VARIABLE pushed   \* history: the response frames the LLM service has pushed

ResponseKind == [ResponseStart |-> "start", ResponseText |-> "text",
                 ResponseEnd |-> "end"]

\* The frames fs as TurnResponses knows them.  An interruption, which it does
\* not, is the last frame of the step that forwards it.
Responses(fs) ==
  LET shown == IF fs # <<>> /\ Last(fs).type = "Interruption" THEN Front(fs) ELSE fs
  IN  [i \in DOMAIN shown |-> [type |-> ResponseKind[shown[i].type],
                               turn |-> shown[i].turn]]

\* What a step appends to toTTS; the TTS only ever shortens it.
Appended == SubSeq(toTTS', Len(toTTS) + 1, Len(toTTS'))

Remembering == pushed' = pushed \o Responses(Appended)

RInit     == Init /\ pushed = <<>>
RNext     == Next /\ Remembering
RSpec     == RInit /\ [][RNext]_<<vars, pushed>>
RFairSpec == RSpec /\ Fairness

-----------------------------------------------------------------------------
(* Properties                                                               *)

Promise == INSTANCE TurnResponses
             WITH Turn <- 1 .. MaxUserTurns + MaxInjected, out <- pushed

\* AdkLLMService keeps the promise of every LLM service (service.py:207-212):
\* matched pairs, one response at a time, nothing of a turn outside its own
\* response, no turn answered twice, although interruptions cancel runs at any
\* point and a finally block of one task pushes frames between those of another.
KeepsThePromise == Promise!Spec

=============================================================================
