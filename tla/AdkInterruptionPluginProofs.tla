---------------------- MODULE AdkInterruptionPluginProofs ----------------------
(***************************************************************************)
(* That the loop of _process_heard_markers computes its reference, for     *)
(* requests of any length, texts over any alphabet and any mixture of      *)
(* [HEARD] events, model events and other contents.                        *)
(***************************************************************************)
EXTENDS AdkInterruptionPlugin, SequenceLemmas

-----------------------------------------------------------------------------
(* The operators                                                            *)

\* A content of the request, before or after it has been rewritten.
AnyContent == [role : {"user", "model"}, heard : BOOLEAN, text : Seq(Word),
               tool : BOOLEAN]

\* The text up to the first quote is a text.
LEMMA ExtractedType ==
  ASSUME NEW x \in Seq(Word)
  PROVE  Extracted(x) \in Seq(Word)
  <1> DEFINE quotes == {i \in DOMAIN x : x[i] = Quote}
             first  == CHOOSE i \in quotes : \A j \in quotes : i <= j
  <1>1. CASE quotes = {}
    BY <1>1 DEF Extracted
  <1>2. CASE quotes # {}
    <2>0. quotes \in SUBSET Nat
      OBVIOUS
    <2>1. \E i \in quotes : \A j \in quotes : i <= j
      BY <1>2, <2>0, LeastElement
    <2>2. first \in quotes
      BY <2>1
    <2> HIDE DEF first
    <2>3. first - 1 \in 0 .. Len(x)
      BY <2>2
    <2>4. SubSeq(x, 1, first - 1) \in Seq(Word)
      BY <2>3
    <2> USE DEF first
    <2> QED
      BY <1>2, <2>4 DEF Extracted
  <1> QED
    BY <1>1, <1>2

\* Truncating leaves a content of the same kind, and forgets what an earlier
\* [HEARD] event left of it.
LEMMA TruncatedContent ==
  ASSUME NEW c \in AnyContent, NEW m \in AnyContent
  PROVE  /\ Truncated(c, m) \in AnyContent
         /\ Truncated(c, m).role = c.role /\ Truncated(c, m).heard = c.heard
         /\ \A n \in AnyContent : Truncated(Truncated(c, n), m) = Truncated(c, m)
  <1>1. \A n \in AnyContent : Extracted(n.text) \in Seq(Word)
    BY ExtractedType DEF AnyContent
  <1> QED
    BY <1>1 DEF Truncated, AnyContent

\* PreviousModel finds the last model event, if there is one.
LEMMA PreviousModelIsLast ==
  ASSUME NEW cs \in Seq(AnyContent)
  PROVE  /\ PreviousModel(cs) = 0 => \A k \in DOMAIN cs : ~IsModel(cs[k])
         /\ PreviousModel(cs) # 0 =>
              /\ PreviousModel(cs) \in DOMAIN cs /\ IsModel(cs[PreviousModel(cs)])
              /\ \A k \in DOMAIN cs : IsModel(cs[k]) => k <= PreviousModel(cs)
  <1> DEFINE models == {k \in DOMAIN cs : IsModel(cs[k])}
             last   == CHOOSE k \in models : \A l \in models : l <= k
  <1>1. CASE models = {}
    BY <1>1 DEF PreviousModel
  <1>2. CASE models # {}
    <2>1. models \in SUBSET (0 .. Len(cs)) /\ Len(cs) \in Nat
      OBVIOUS
    <2>2. \E k \in models : \A l \in models : l <= k
      BY <1>2, <2>1, GreatestElement
    <2>3. last \in models /\ \A l \in models : l <= last
      BY <2>2
    <2>4. PreviousModel(cs) = last
      BY <1>2 DEF PreviousModel
    <2>5. last # 0
      BY <2>3
    <2> HIDE DEF last
    <2> QED
      BY <2>3, <2>4, <2>5
  <1> QED
    BY <1>1, <1>2

\* One more content counts against content k if it is a [HEARD] event and no
\* later model event stands between the two.
LEMMA OneMoreMarker ==
  ASSUME NEW n \in Nat, NEW k \in 1 .. n
  PROVE  LET marks == /\ contents[n + 1].heard /\ IsModel(contents[k])
                      /\ \A l \in k + 1 .. n : ~IsModel(contents[l])
         IN  /\ marks  => MarkersOf(k, n + 1) = MarkersOf(k, n) \cup {n + 1}
             /\ ~marks => MarkersOf(k, n + 1) = MarkersOf(k, n)
  <1>1. (k + 1 .. n + 1) = (k + 1 .. n) \cup {n + 1} /\ (n + 1) - 1 = n
    OBVIOUS
  <1> QED
    BY <1>1 DEF MarkersOf

LEMMA MarkersInRange ==
  ASSUME NEW n \in Nat, NEW k \in 1 .. n
  PROVE  MarkersOf(k, n) \in SUBSET (k + 1 .. n)
  BY DEF MarkersOf

\* What is expected of a content is of its kind, and truncating it further is
\* truncating the content itself.
LEMMA ExpectedContent ==
  ASSUME contents \in Seq(AnyContent), NEW n \in 0 .. Len(contents), NEW k \in 1 .. n
  PROVE  /\ Expected(k, n) \in AnyContent
         /\ Expected(k, n).role = contents[k].role
         /\ Expected(k, n).heard = contents[k].heard
         /\ \A m \in AnyContent : Truncated(Expected(k, n), m) = Truncated(contents[k], m)
  <1> DEFINE ms   == MarkersOf(k, n)
             last == CHOOSE m \in ms : \A l \in ms : l <= m
  <1>1. contents[k] \in AnyContent /\ n \in Nat
    OBVIOUS
  <1>2. CASE ms = {}
    BY <1>1, <1>2 DEF Expected
  <1>3. CASE ms # {}
    <2>1. ms \in SUBSET (0 .. n)
      BY <1>1, MarkersInRange
    <2>2. \E m \in ms : \A l \in ms : l <= m
      BY <1>1, <1>3, <2>1, GreatestElement
    <2>3. last \in ms
      BY <2>2
    <2>4. last \in 1 .. n
      BY <1>1, <2>3, MarkersInRange
    <2>5. contents[last] \in AnyContent /\ Expected(k, n) = Truncated(contents[k], contents[last])
      BY <1>3, <2>4 DEF Expected
    <2> HIDE DEF last
    <2> QED
      BY <1>1, <2>5, TruncatedContent
  <1> QED
    BY <1>2, <1>3

-----------------------------------------------------------------------------
(* The loop                                                                 *)

RequestTypeOK ==
  /\ contents \in Seq(AnyContent) /\ newContents \in Seq(AnyContent)
  /\ kept \in Seq(Nat) /\ Len(kept) = Len(newContents)
  /\ next \in Nat \ {0} /\ done \in BOOLEAN

\* MatchesReference, element by element.
LoopInv ==
  /\ next <= Len(contents) + 1
  /\ \A j, l \in DOMAIN kept : j < l => kept[j] < kept[l]
  /\ \A j \in DOMAIN kept : kept[j] \in 1 .. next - 1 /\ ~contents[kept[j]].heard
  /\ \A i \in 1 .. next - 1 : ~contents[i].heard => \E j \in DOMAIN kept : kept[j] = i
  /\ \A j \in DOMAIN kept : newContents[j] = Expected(kept[j], next - 1)

PluginInv == RequestTypeOK /\ (~done => LoopInv) /\ NoMarkerLeft

LEMMA InitPlugin == Init => PluginInv
  <1> SUFFICES ASSUME Init
               PROVE  PluginInv
    OBVIOUS
  <1>1. PICK n \in 0 .. MaxLen : contents \in [1 .. n -> Content]
    BY DEF Init
  <1>2. n \in Nat /\ \A c \in Content : c \in AnyContent
    BY <1>1, TextAssumption DEF Content, AnyContent
  <1>3. contents \in Seq(AnyContent)
    BY <1>1, <1>2
  <1>4. Len(contents) \in Nat /\ (1 .. next - 1) = {}
    BY <1>3 DEF Init
  <1>5. RequestTypeOK
    <2>1. done \in BOOLEAN
      BY Zenon DEF Init
    <2> QED
      BY <1>3, <2>1 DEF Init, RequestTypeOK
  <1>6. LoopInv
    <2>1. DOMAIN kept = {} /\ next <= Len(contents) + 1
      BY <1>4 DEF Init
    <2> QED
      BY <1>4, <2>1 DEF LoopInv
  <1> QED
    BY <1>5, <1>6 DEF Init, PluginInv, NoMarkerLeft

\* In the loop, an element of newContents is of the kind of the content it came
\* from.
LEMMA KeptKind ==
  ASSUME RequestTypeOK, LoopInv, NEW j \in DOMAIN kept
  PROVE  /\ kept[j] \in 1 .. next - 1 /\ next - 1 \in 0 .. Len(contents)
         /\ newContents[j].heard = FALSE /\ j \in DOMAIN newContents
         /\ IsModel(newContents[j]) <=> IsModel(contents[kept[j]])
         /\ \A m \in AnyContent :
              Truncated(newContents[j], m) = Truncated(contents[kept[j]], m)
  <1>1. /\ kept[j] \in 1 .. next - 1 /\ next - 1 \in 0 .. Len(contents)
        /\ j \in DOMAIN newContents /\ contents[kept[j]] \in AnyContent
        /\ contents[kept[j]].heard = FALSE
    <2>1. kept[j] \in 1 .. next - 1 /\ next \in Nat \ {0} /\ next - 1 <= Len(contents)
      BY DEF RequestTypeOK, LoopInv
    <2>2. j \in DOMAIN newContents /\ contents \in Seq(AnyContent) /\ ~contents[kept[j]].heard
      BY DEF RequestTypeOK, LoopInv
    <2>3. contents[kept[j]] \in AnyContent
      BY <2>1, <2>2
    <2> QED
      BY <2>1, <2>2, <2>3 DEF AnyContent
  <1>2. newContents[j] = Expected(kept[j], next - 1)
    BY DEF LoopInv
  <1>3. /\ newContents[j].role = contents[kept[j]].role
        /\ newContents[j].heard = contents[kept[j]].heard
        /\ \A m \in AnyContent :
             Truncated(newContents[j], m) = Truncated(contents[kept[j]], m)
    <2>1. contents \in Seq(AnyContent)
      BY DEF RequestTypeOK
    <2> QED
      BY <1>1, <1>2, <2>1, ExpectedContent
  <1> QED
    BY <1>1, <1>2, <1>3 DEF IsModel

\* A content whose markers are the ones it had is expected to be what it was.
LEMMA ExpectedStays ==
  ASSUME NEW k, NEW n, NEW m, MarkersOf(k, m) = MarkersOf(k, n)
  PROVE  Expected(k, m) = Expected(k, n)
  BY DEF Expected

LEMMA KeepStep ==
  ASSUME PluginInv, Keep
  PROVE  PluginInv'
  <1>0. /\ RequestTypeOK /\ LoopInv /\ ~done /\ ~done'
        /\ next \in DOMAIN contents /\ contents' = contents
        /\ contents[next] \in AnyContent
    BY DEF PluginInv, Keep, InLoop, RequestTypeOK
  <1>1. RequestTypeOK'
    BY <1>0 DEF RequestTypeOK, Keep
  <1>2. /\ \A j \in DOMAIN kept : j \in DOMAIN kept' /\ kept'[j] = kept[j]
                                    /\ newContents'[j] = newContents[j]
        /\ \A j \in DOMAIN kept' : j \in DOMAIN kept \/ j = Len(kept) + 1
        /\ Len(kept) + 1 \in DOMAIN kept' /\ Len(kept) \in Nat
        /\ kept'[Len(kept) + 1] = next /\ newContents'[Len(kept) + 1] = contents[next]
        /\ DOMAIN kept = 1 .. Len(kept)
    BY <1>0 DEF RequestTypeOK, Keep
  <1>3. /\ next' = next + 1 /\ next \in Nat \ {0} /\ next \in 1 .. Len(contents)
        /\ \A j \in DOMAIN kept : kept[j] \in 1 .. next - 1
    BY <1>0 DEF RequestTypeOK, Keep, LoopInv
  <1>4. ASSUME NEW j \in DOMAIN kept'
        PROVE  newContents'[j] = Expected(kept'[j], next)
    <2>1. CASE j \in DOMAIN kept
      <3>1. kept[j] \in 1 .. next - 1 /\ next - 1 \in Nat /\ (next - 1) + 1 = next
        BY <1>3, <2>1
      <3>2. MarkersOf(kept[j], next) = MarkersOf(kept[j], next - 1)
        BY <3>1, OneMoreMarker DEF Keep
      <3> QED
        BY <1>0, <1>2, <2>1, <3>2, ExpectedStays DEF LoopInv
    <2>2. CASE j = Len(kept) + 1
      <3>1. MarkersOf(next, next) = {}
        BY <1>3 DEF MarkersOf
      <3> QED
        BY <1>2, <2>2, <3>1 DEF Expected
    <2> QED
      BY <1>2, <2>1, <2>2
  <1>5. \A k, n : Expected(k, n)' = Expected(k, n)
    BY <1>0 DEF Expected, MarkersOf, IsModel
  <1>6. \A j \in DOMAIN kept' : kept'[j] \in 1 .. next /\ ~contents[kept'[j]].heard
    <2>1. ASSUME NEW j \in DOMAIN kept
          PROVE  kept'[j] \in 1 .. next /\ ~contents[kept'[j]].heard
      BY <1>0, <1>2, <1>3, <2>1 DEF LoopInv
    <2> QED
      BY <1>2, <1>3, <2>1 DEF Keep
  <1>7. \A j, l \in DOMAIN kept' : j < l => kept'[j] < kept'[l]
    BY <1>0, <1>2, <1>3 DEF LoopInv
  <1>8. \A i \in 1 .. next : ~contents[i].heard => \E j \in DOMAIN kept' : kept'[j] = i
    <2>1. \A i \in 1 .. next : i \in 1 .. next - 1 \/ i = next
      BY <1>3
    <2> QED
      BY <1>0, <1>2, <2>1 DEF LoopInv
  <1>9. LoopInv'
    <2>1. next' - 1 = next /\ next' <= Len(contents) + 1
      BY <1>3
    <2> QED
      BY <1>0, <1>4, <1>5, <1>6, <1>7, <1>8, <2>1 DEF LoopInv
  <1> QED
    BY <1>0, <1>1, <1>9 DEF PluginInv, NoMarkerLeft

\* What a [HEARD] event leaves as it was: everything but newContents.
LEMMA MarkerStep ==
  ASSUME RequestTypeOK, RequestTypeOK', LoopInv, InLoop, contents[next].heard,
         next' = next + 1, UNCHANGED <<contents, kept, done>>,
         \A j \in DOMAIN kept : newContents'[j] = Expected(kept[j], next)
  PROVE  LoopInv'
  <1>1. /\ next \in 1 .. Len(contents) /\ next' - 1 = next
        /\ \A i \in 1 .. next : i \in 1 .. next - 1 \/ i = next
        /\ \A i \in 1 .. next - 1 : i \in 1 .. next
    BY DEF RequestTypeOK, InLoop
  <1>2. \A k, n : Expected(k, n)' = Expected(k, n)
    BY DEF Expected, MarkersOf, IsModel
  <1> QED
    BY <1>1, <1>2 DEF LoopInv

LEMMA TruncateStep ==
  ASSUME PluginInv, Truncate
  PROVE  PluginInv'
  <1> DEFINE p == PreviousModel(newContents)
             c == Truncated(newContents[p], contents[next])
  <1>0. /\ RequestTypeOK /\ LoopInv /\ ~done /\ ~done' /\ InLoop
        /\ next \in DOMAIN contents /\ contents[next] \in AnyContent
        /\ contents[next].heard /\ UNCHANGED <<contents, kept, done>>
        /\ next' = next + 1 /\ newContents' = [newContents EXCEPT ![p] = c]
        /\ next \in Nat \ {0} /\ newContents \in Seq(AnyContent)
    BY DEF PluginInv, Truncate, InLoop, RequestTypeOK
  <1>1. /\ p \in DOMAIN newContents /\ IsModel(newContents[p])
        /\ \A j \in DOMAIN newContents : IsModel(newContents[j]) => j <= p
    BY <1>0, PreviousModelIsLast DEF Truncate
  <1>2. DOMAIN kept = DOMAIN newContents /\ p \in DOMAIN kept /\ kept \in Seq(Nat)
    BY <1>0, <1>1 DEF RequestTypeOK
  <1> HIDE DEF p
  <1>3. /\ c = Truncated(contents[kept[p]], contents[next]) /\ c \in AnyContent
        /\ IsModel(contents[kept[p]]) /\ kept[p] \in 1 .. next - 1
    <2>1. newContents[p] \in AnyContent
      BY <1>0, <1>1
    <2> QED
      BY <1>0, <1>1, <1>2, <2>1, KeptKind, TruncatedContent
  <1> HIDE DEF c
  <1>4. RequestTypeOK'
    <2>1. newContents' \in Seq(AnyContent) /\ Len(newContents') = Len(newContents)
      BY <1>0, <1>1, <1>3
    <2> QED
      BY <1>0, <2>1 DEF RequestTypeOK
  <1>5. \A l \in kept[p] + 1 .. next - 1 : ~IsModel(contents[l])
    <2> SUFFICES ASSUME NEW l \in kept[p] + 1 .. next - 1, IsModel(contents[l])
                 PROVE  FALSE
      OBVIOUS
    <2>1. l \in 1 .. next - 1 /\ l > kept[p] /\ ~contents[l].heard
      BY <1>2, <1>3 DEF IsModel
    <2>2. PICK j \in DOMAIN kept : kept[j] = l
      BY <1>0, <2>1 DEF LoopInv
    <2>3. j <= p
      BY <1>0, <1>1, <1>2, <2>2, KeptKind
    <2> QED
      <3>1. kept[j] \in Nat /\ kept[p] \in Nat /\ j \in Nat /\ p \in Nat
        BY <1>2
      <3>2. j < p => kept[j] < kept[p]
        BY <1>0, <1>2 DEF LoopInv
      <3> QED
        BY <2>1, <2>2, <2>3, <3>1, <3>2
  <1>6. ASSUME NEW j \in DOMAIN kept
        PROVE  newContents'[j] = Expected(kept[j], next)
    <2>0. /\ kept[j] \in 1 .. next - 1 /\ next - 1 \in Nat /\ (next - 1) + 1 = next
          /\ kept[j] \in Nat /\ j \in Nat /\ p \in Nat
      BY <1>0, <1>2 DEF LoopInv
    <2>1. CASE j = p
      <3> DEFINE ms == MarkersOf(kept[p], next)
      <3>1. next \in ms
        <4>1. \A l \in kept[p] + 1 .. next - 1 : ~IsModel(contents[l])
          BY <1>5
        <4>2. PICK n \in Nat : n = next - 1
          BY <2>0
        <4>3. n + 1 = next /\ kept[p] \in 1 .. n
          BY <2>0, <2>1, <4>2
        <4>4. contents[n + 1].heard /\ IsModel(contents[kept[p]])
          BY <1>0, <1>3, <4>3
        <4>5. MarkersOf(kept[p], n + 1) = MarkersOf(kept[p], n) \cup {n + 1}
          BY <4>1, <4>2, <4>3, <4>4, OneMoreMarker
        <4> QED
          BY <4>3, <4>5
      <3>2. \A l \in ms : l <= next
        BY <1>3 DEF MarkersOf
      <3>3. \A m \in ms : (\A l \in ms : l <= m) => m = next
        BY <3>1, <3>2, <1>0, <1>3 DEF MarkersOf
      <3> HIDE DEF ms
      <3>4. (CHOOSE m \in ms : \A l \in ms : l <= m) = next
        BY <3>1, <3>2, <3>3
      <3>5. Expected(kept[p], next) = Truncated(contents[kept[p]], contents[next])
        BY <3>1, <3>4 DEF Expected, ms
      <3> QED
        BY <1>0, <1>1, <1>3, <2>1, <3>5
    <2>2. CASE j # p
      <3>1. newContents'[j] = Expected(kept[j], next - 1)
        BY <1>0, <1>2, <2>2 DEF LoopInv
      <3>2. ASSUME IsModel(contents[kept[j]])
            PROVE  kept[p] \in kept[j] + 1 .. next - 1
        <4>1. j <= p
          BY <1>0, <1>1, <1>2, <3>2, KeptKind
        <4>2. kept[j] < kept[p]
          BY <1>0, <1>2, <2>0, <2>2, <4>1 DEF LoopInv
        <4> QED
          BY <1>3, <2>0, <4>2
      <3>3. MarkersOf(kept[j], next) = MarkersOf(kept[j], next - 1)
        BY <1>3, <2>0, <3>2, OneMoreMarker
      <3> QED
        BY <3>1, <3>3, ExpectedStays
    <2> QED
      BY <2>1, <2>2
  <1>7. LoopInv'
    BY <1>0, <1>4, <1>6, MarkerStep
  <1> QED
    BY <1>0, <1>4, <1>7 DEF PluginInv, NoMarkerLeft

LEMMA DropStep ==
  ASSUME PluginInv, Drop
  PROVE  PluginInv'
  <1>0. /\ RequestTypeOK /\ LoopInv /\ ~done /\ ~done' /\ InLoop
        /\ contents[next].heard /\ UNCHANGED <<contents, newContents, kept, done>>
        /\ next' = next + 1 /\ next \in Nat \ {0} /\ newContents \in Seq(AnyContent)
    BY DEF PluginInv, Drop, InLoop, RequestTypeOK
  <1>1. RequestTypeOK'
    BY <1>0 DEF RequestTypeOK
  <1>2. \A j \in DOMAIN newContents : ~IsModel(newContents[j])
    BY <1>0, PreviousModelIsLast DEF Drop
  <1>3. ASSUME NEW j \in DOMAIN kept
        PROVE  newContents'[j] = Expected(kept[j], next)
    <2>1. /\ kept[j] \in 1 .. next - 1 /\ next - 1 \in Nat /\ (next - 1) + 1 = next
      BY <1>0 DEF LoopInv
    <2>2. ~IsModel(contents[kept[j]])
      BY <1>0, <1>2, KeptKind
    <2>3. MarkersOf(kept[j], next) = MarkersOf(kept[j], next - 1)
      BY <2>1, <2>2, OneMoreMarker
    <2> QED
      BY <1>0, <2>3, ExpectedStays DEF LoopInv
  <1>4. LoopInv'
    BY <1>0, <1>1, <1>3, MarkerStep
  <1> QED
    BY <1>0, <1>1, <1>4 DEF PluginInv, NoMarkerLeft

LEMMA FinishStep ==
  ASSUME PluginInv, Finish
  PROVE  PluginInv'
  <1>1. /\ contents' = newContents /\ done' /\ RequestTypeOK /\ LoopInv
        /\ UNCHANGED <<next, newContents, kept>>
    BY DEF PluginInv, Finish, Rewritten
  <1>2. RequestTypeOK'
    BY <1>1 DEF RequestTypeOK
  <1>3. \A j \in DOMAIN newContents : ~newContents[j].heard
    <2>1. DOMAIN kept = DOMAIN newContents
      BY <1>1 DEF RequestTypeOK
    <2> QED
      BY <1>1, <2>1, KeptKind
  <1> QED
    BY <1>1, <1>2, <1>3 DEF PluginInv, NoMarkerLeft

LEMMA PluginInvHolds == Spec => []PluginInv
  <1>1. PluginInv /\ UNCHANGED vars => PluginInv'
    <2> SUFFICES ASSUME PluginInv, UNCHANGED vars
                 PROVE  PluginInv'
      OBVIOUS
    <2>1. \A k, n : Expected(k, n)' = Expected(k, n)
      BY DEF vars, Expected, MarkersOf, IsModel
    <2>2. (~done => LoopInv)'
      BY <2>1 DEF vars, PluginInv, LoopInv
    <2> QED
      BY <2>2 DEF vars, PluginInv, RequestTypeOK, NoMarkerLeft
  <1>2. PluginInv /\ [Next]_vars => PluginInv'
    BY <1>1, KeepStep, TruncateStep, DropStep, FinishStep DEF Next, Returned
  <1> QED
    BY InitPlugin, <1>2, PTL DEF Spec

-----------------------------------------------------------------------------
(* The theorems                                                             *)

\* The lists of the loop keep their types and stay of one length.
THEOREM TypeCorrect == Spec => []TypeOK
  <1>1. PluginInv => TypeOK
    <2> SUFFICES ASSUME PluginInv
                 PROVE  TypeOK
      OBVIOUS
    <2>1. DOMAIN contents = 1 .. Len(contents)
      BY DEF PluginInv, RequestTypeOK
    <2>2. \A i \in DOMAIN contents : contents[i] \in AnyContent
      BY DEF PluginInv, RequestTypeOK
    <2> QED
      BY <2>1, <2>2 DEF PluginInv, RequestTypeOK, TypeOK, AnyContent
  <1> QED
    BY <1>1, PluginInvHolds, PTL

\* _process_heard_markers computes the reference: new_contents holds, in order,
\* the contents that are no [HEARD] event, and a model event is truncated by the
\* last of the [HEARD] events that follow it before the next model event.
THEOREM LoopComputesReference == Spec => []MatchesReference
  <1>1. PluginInv => MatchesReference
    <2> SUFFICES ASSUME PluginInv, ~done
                 PROVE  /\ \A j, l \in DOMAIN kept : j < l => kept[j] < kept[l]
                        /\ {kept[j] : j \in DOMAIN kept}
                             = {i \in 1 .. next - 1 : ~contents[i].heard}
                        /\ newContents = [j \in DOMAIN kept |-> Expected(kept[j], next - 1)]
      BY DEF MatchesReference
    <2>1. LoopInv /\ RequestTypeOK
      BY DEF PluginInv
    <2>2. {kept[j] : j \in DOMAIN kept} = {i \in 1 .. next - 1 : ~contents[i].heard}
      BY <2>1 DEF LoopInv
    <2>3. newContents = [j \in DOMAIN kept |-> newContents[j]]
      BY <2>1 DEF RequestTypeOK
    <2>4. newContents = [j \in DOMAIN kept |-> Expected(kept[j], next - 1)]
      BY <2>1, <2>3 DEF LoopInv
    <2> QED
      BY <2>1, <2>2, <2>4 DEF LoopInv
  <1> QED
    BY <1>1, PluginInvHolds, PTL

\* No [HEARD] event is left in the request the LLM gets: a second callback on
\* it changes nothing.
THEOREM NoneIsLeft == Spec => []NoMarkerLeft
  <1>1. PluginInv => NoMarkerLeft
    BY DEF PluginInv
  <1> QED
    BY <1>1, PluginInvHolds, PTL

=============================================================================
