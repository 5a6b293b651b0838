------------------------- MODULE AdkInterruptionPlugin -------------------------
(***************************************************************************)
(* AdkInterruptionPlugin: the rewriting of a request's contents before     *)
(* each LLM call.  The loop of _process_heard_markers is the state         *)
(* machine, one content per step; what it computes is stated separately,   *)
(* content by content, as Expected.                                        *)
(***************************************************************************)
EXTENDS Naturals, Sequences

CONSTANTS
  Word,     \* what texts are made of
  Quote,    \* the double quote character, one of them
  Text,     \* texts a part may hold
  MaxLen    \* contents in a request (a bound for model checking)

ASSUME TextAssumption ==
  /\ Quote \in Word
  /\ Text \subseteq Seq(Word)
  /\ MaxLen \in Nat

VARIABLES
  contents,      \* llm_request.contents
  next,          \* index of the next content of the loop
  newContents,   \* new_contents
  kept,          \* history: kept[j] is the index newContents[j] came from
  done           \* contents[:] = new_contents has been executed

vars == <<contents, next, newContents, kept, done>>

-----------------------------------------------------------------------------
(* A content: its role, whether its text is a [HEARD] event, the text (what *)
(* stands after `only heard: "' in a [HEARD] event) and whether it carries a *)
(* function call or response besides.                                       *)

Content == [role : {"user", "model"}, heard : BOOLEAN, text : Text,
            tool : BOOLEAN]

\* HEARD_PATTERN's lazy group: the text up to the first quote.
Extracted(x) ==
  LET quotes == {i \in DOMAIN x : x[i] = Quote}
  IN  IF quotes = {} THEN x
      ELSE SubSeq(x, 1, (CHOOSE i \in quotes : \A j \in quotes : i <= j) - 1)

\* Content(role=..., parts=[Part(text=heard_text)])
Truncated(c, marker) ==
  [c EXCEPT !.text = Extracted(marker.text), !.tool = FALSE]

IsModel(c) == c.role = "model" /\ ~c.heard

\* _find_previous_model_event: the last model event of cs, or 0.  (Names in _M
\* are what a bug would make of the definition that follows them.)
PreviousModel_M(cs) ==
  LET models == {k \in DOMAIN cs : IsModel(cs[k])}
  IN  IF models = {} THEN 0 ELSE CHOOSE k \in models : \A l \in models : l >= k
PreviousModel(cs) ==
  LET models == {k \in DOMAIN cs : IsModel(cs[k])}
  IN  IF models = {} THEN 0 ELSE CHOOSE k \in models : \A l \in models : l <= k

Init ==
  /\ contents \in UNION {[1 .. n -> Content] : n \in 0 .. MaxLen}
  /\ next = 1
  /\ newContents = <<>>
  /\ kept = <<>>
  /\ done = FALSE

InLoop == ~done /\ next <= Len(contents)

\* A content that is no [HEARD] event is kept as it is.
Keep ==
  /\ InLoop /\ ~contents[next].heard
  /\ newContents' = Append(newContents, contents[next])
  /\ kept' = Append(kept, next)
  /\ next' = next + 1
  /\ UNCHANGED <<contents, done>>

\* A [HEARD] event truncates the model event before it.
Truncate_M ==
  /\ InLoop /\ contents[next].heard /\ PreviousModel(newContents) # 0
  /\ newContents' = Append(newContents, Truncated(newContents[PreviousModel(newContents)],
                                                  contents[next]))
  /\ next' = next + 1
  /\ UNCHANGED <<contents, kept, done>>
Truncate ==
  /\ InLoop /\ contents[next].heard /\ PreviousModel(newContents) # 0
  /\ newContents' = [newContents EXCEPT ![PreviousModel(newContents)] =
                       Truncated(@, contents[next])]
  /\ next' = next + 1
  /\ UNCHANGED <<contents, kept, done>>

\* A [HEARD] event with no model event before it leaves the history alone.
Drop ==
  /\ InLoop /\ contents[next].heard
  /\ PreviousModel(newContents) = 0
  /\ next' = next + 1
  /\ UNCHANGED <<contents, newContents, kept, done>>

\* contents[:] = new_contents
Rewritten_M(old, new) == old
Rewritten(old, new)   == new

\* The request is replaced in place.  (An empty request returns at once.)
Finish ==
  /\ ~done /\ next > Len(contents)
  /\ contents' = Rewritten(contents, newContents)
  /\ done' = TRUE
  /\ UNCHANGED <<next, newContents, kept>>

Returned == done /\ UNCHANGED vars

Next == Keep \/ Truncate \/ Drop \/ Finish \/ Returned

Spec == Init /\ [][Next]_vars

-----------------------------------------------------------------------------
(* Properties                                                               *)

TypeOK ==
  /\ DOMAIN contents = 1 .. Len(contents)
  /\ \A i \in DOMAIN contents : contents[i].role \in {"user", "model"}
  /\ next \in Nat \ {0} /\ done \in BOOLEAN
  /\ kept \in Seq(Nat) /\ Len(kept) = Len(newContents)

\* The [HEARD] events, among the first n contents, whose nearest earlier model
\* event is content k.
MarkersOf(k, n) ==
  {m \in k + 1 .. n : /\ contents[m].heard /\ IsModel(contents[k])
                      /\ \A l \in k + 1 .. m - 1 : ~IsModel(contents[l])}

\* What content k becomes once the first n contents are taken into account: the
\* last of its [HEARD] events wins.
Expected(k, n) ==
  LET ms == MarkersOf(k, n)
  IN  IF ms = {} THEN contents[k]
      ELSE Truncated(contents[k],
                     contents[CHOOSE m \in ms : \A l \in ms : l <= m])

\* The loop computes the reference: after n contents, new_contents holds, in
\* order, exactly the contents that are no [HEARD] event, each of them as
\* Expected; nothing but a model event followed by its own [HEARD] events is
\* ever changed.
MatchesReference ==
  ~done =>
    /\ \A j, l \in DOMAIN kept : j < l => kept[j] < kept[l]
    /\ {kept[j] : j \in DOMAIN kept}
         = {i \in 1 .. next - 1 : ~contents[i].heard}
    /\ newContents = [j \in DOMAIN kept |-> Expected(kept[j], next - 1)]

\* A second callback on the rewritten request would change nothing: no [HEARD]
\* event is left in it, and none is made up by the rewriting.
NoMarkerLeft ==
  done => \A i \in DOMAIN contents : ~contents[i].heard

\* What architecture.md:108 says of the heard text: it is exact.  A model event
\* the user cut short shows the LLM the whole text its [HEARD] event was given.
HeardTextExact ==
  ~done =>
    \A j \in DOMAIN kept :
      LET ms == MarkersOf(kept[j], next - 1)
      IN  ms # {} => \E m \in ms : newContents[j].text = contents[m].text

=============================================================================
