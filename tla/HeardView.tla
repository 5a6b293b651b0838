------------------------------- MODULE HeardView -------------------------------
(***************************************************************************)
(* What the LLM is shown of a conversation: the journal of VqlPipeline as  *)
(* the runner hands it to AdkInterruptionPlugin, which cuts, by position,  *)
(* the model event before every [HEARD] event.                             *)
(***************************************************************************)
EXTENDS VqlPipeline

\* The contents of a request made from the journal as it is now.
Contents ==
  [i \in DOMAIN session |->
    [role |-> IF session[i].kind = "model" THEN "model" ELSE "user",
     heard |-> session[i].kind = "heard",
     text |-> session[i].text, tool |-> FALSE]]

NoQuote == [turn |-> NoTurn, n |-> 0]   \* texts are sentences: none is a quote

Plugin == INSTANCE AdkInterruptionPlugin
  WITH Word <- Sentence \cup {NoQuote}, Quote <- NoQuote, Text <- {<<>>},
       MaxLen <- 0, contents <- Contents, next <- 1, newContents <- <<>>,
       kept <- <<>>, done <- FALSE

\* What the LLM is shown in the place of event i.
Shown(i) == Plugin!Expected(i, Len(session)).text

\* A turn's first report, if it was one of a turn cut short.
ReportedHeard(t, text) ==
  \E j \in DOMAIN completions :
    /\ FirstReport(j)
    /\ completions[j] = [turn |-> t, text |-> text, interrupted |-> TRUE]

-----------------------------------------------------------------------------
(* Properties                                                               *)

\* The LLM is shown a response whole, or as it was first reported, except where
\* looking a [HEARD] event's model event up by its position goes wrong, which
\* happens in three ways and no other.  The event is of an earlier turn, of which
\* the report came when this one's request had been sent; or of a later turn that
\* has no model event of its own, and never gets one; or of a later turn whose
\* context an interruption overtook, which was reported with words of others
\* while it ran, so that its [HEARD] event stands before its model event.
ShownAsHeard ==
  \A i \in DOMAIN session : session[i].kind = "model" =>
    LET shown == Shown(i)
    IN  \/ shown = session[i].text
        \/ ReportedHeard(session[i].turn, shown)
        \/ \E m \in Plugin!MarkersOf(i, Len(session)) :
             /\ shown = session[m].text
             /\ \/ session[m].turn < session[i].turn
                \/ /\ session[m].turn > session[i].turn
                   /\ \A l \in DOMAIN session : ModelAt(l, session[m].turn) =>
                        l > m /\ session[m].turn \in overtaken

=============================================================================
