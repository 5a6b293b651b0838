----------------------------- MODULE TurnResponses -----------------------------
(***************************************************************************)
(* What an LLM service of pipecat_adk promises the rest of the pipeline,   *)
(* whichever backend it delegates to: the frames it pushes downstream are  *)
(* matched start / end pairs, one response at a time, with content only    *)
(* inside the response of its own turn, and a turn is answered at most     *)
(* once.                                                                   *)
(***************************************************************************)
EXTENDS Naturals, Sequences

CONSTANT Turn

VARIABLE out   \* the response frames pushed downstream so far

Start(t) == [type |-> "start", turn |-> t]
Text(t)  == [type |-> "text", turn |-> t]
End(t)   == [type |-> "end", turn |-> t]

Open(t)     == out # <<>> /\ out[Len(out)] \in {Start(t), Text(t)}
NoneOpen    == \A t \in Turn : ~Open(t)
Answered(t) == \E i \in DOMAIN out : out[i] = Start(t)
Push(fs)    == out' = out \o fs

Init == out = <<>>

\* A response is opened, and may be continued or closed in the same step.
OpenResponse(t) ==
  /\ NoneOpen /\ ~Answered(t)
  /\ \/ Push(<<Start(t)>>)
     \/ Push(<<Start(t), Text(t)>>)
     \/ Push(<<Start(t), End(t)>>)

Say(t)           == Open(t) /\ Push(<<Text(t)>>)
CloseResponse(t) == Open(t) /\ Push(<<End(t)>>)

Next == \E t \in Turn : OpenResponse(t) \/ Say(t) \/ CloseResponse(t)

Spec == Init /\ [][Next]_out

=============================================================================
