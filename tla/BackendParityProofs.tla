-------------------------- MODULE BackendParityProofs --------------------------
(***************************************************************************)
(* That the two backends give the same response, for scripts of any        *)
(* length: each service, wherever it is, stands somewhere in one response  *)
(* that depends on the script alone.                                       *)
(***************************************************************************)
EXTENDS BackendParity, SequenceLemmas

-----------------------------------------------------------------------------
(* The invariants                                                           *)

Services ==
  [started : BOOLEAN, usage : {"none", "few", "many"}, over : BOOLEAN,
   down : Seq(Frames), up : Seq(Frames), deltas : Seq({"empty", "some"})]

StartEnvelope == Envelope("frame", "start", TRUE, "none")
EndEnvelope   == Envelope("frame", "end", TRUE, "none")
ErrorEnvelope == Envelope("error", "none", TRUE, "none")

TextEnvelopes == {Envelope("frame", "text", TRUE, b) : b \in {"empty", "some"}}
ToolEnvelopes ==
  {Envelope("frame", f, id, b) :
     f \in {"calls_started", "in_progress", "result"},
     id \in BOOLEAN, b \in {"none", "some"}}
DeltaEnvelopes ==
  {Envelope("state.delta", "none", TRUE, b) : b \in {"empty", "some"}}
UsageEnvelopes == {Envelope("turn.usage", "none", TRUE, b) : b \in {"few", "many"}}

Envelopes ==
  {StartEnvelope, EndEnvelope, ErrorEnvelope}
    \cup TextEnvelopes \cup ToolEnvelopes \cup DeltaEnvelopes \cup UsageEnvelopes

Typed ==
  /\ script \in Seq(Ops) /\ wire \in Seq(Envelopes)
  /\ adk \in Services /\ remote \in Services
  /\ TypeOK

\* What the elements of s become, up to the first that has no id.
Passed(s, g) ==
  FlattenSeq([i \in DOMAIN s |-> IF \A j \in 1 .. i : s[j].id THEN g[s[i]] ELSE <<>>])

HaveIds(s) == \A i \in DOMAIN s : s[i].id

\* What an operation comes to on each stream of its service ...
OpDown  == [o \in Ops |-> EventFrames(o)]
OpUp    == [o \in Ops |-> IF o.op \in {"call", "result"} THEN EventFrames(o) ELSE <<>>]
OpDelta == [o \in Ops |-> IF o.op = "delta" /\ o.body = "some" THEN <<"some">> ELSE <<>>]
OpUsage == [o \in Ops |-> IF o.op = "usage" THEN <<o.body>> ELSE <<>>]

\* ... and an envelope, without the closing frames.
EmptyText == Frame("text", "empty")

WireDown ==
  [e \in Envelopes |->
    IF e.type = "frame" /\ e.frame # "end" /\ OutputFrame(e) # EmptyText
    THEN <<OutputFrame(e)>> ELSE <<>>]
WireUp ==
  [e \in Envelopes |->
    IF e.type = "frame" /\ Directions(e.frame) = Both THEN <<OutputFrame(e)>> ELSE <<>>]
WireDelta ==
  [e \in Envelopes |->
    IF e.type = "state.delta" /\ e.body = "some" THEN <<"some">> ELSE <<>>]
WireUsage == [e \in Envelopes |-> IF e.type = "turn.usage" THEN <<e.body>> ELSE <<>>]

\* The counts that hold after those in us.
Latest(u, us) == IF us = <<>> THEN u ELSE us[Len(us)]

Opening    == <<Frame("start", "none")>>
Usage(ops) == Latest("none", Passed(ops, OpUsage))
Closing(u) == <<Frame("usage", u), Frame("end", "none")>>

\* A response to ops that has ended, with or without an error.
Finished(ops, failed) ==
  [down   |-> (Opening \o Passed(ops, OpDown)) \o Closing(Usage(ops)),
   up     |-> Passed(ops, OpUp) \o (IF failed THEN <<Error>> ELSE <<>>),
   deltas |-> Passed(ops, OpDelta)]

\* The whole response to script t: its operations up to the first without an id.
Whole(t, f) == Finished(t, f \/ ~HaveIds(t))

Shown(s)    == Without(s.down, {EmptyText})
Raised(s)   == Without(s.up, {Error})
Reported(s) == Without(s.deltas, {"empty"})

Opens(b) == IF b THEN Opening ELSE <<>>

\* Service s has done what ops come to, and has reported no error.
Holds(s, ops) ==
  /\ Shown(s) = Opens(s.started) \o Passed(ops, OpDown)
  /\ Raised(s) = Passed(ops, OpUp)
  /\ Reported(s) = Passed(ops, OpDelta)
  /\ s.usage = Usage(ops)

Stands(s, ops) == ~HasError(s.up) /\ Holds(s, ops)

First(k) == SubSeq(script, 1, k)

\* AdkLLMService has done what the runner has yielded, or all that it ever will.
AdkInv ==
  IF adk.over THEN Substance(adk) = Whole(script, fails)
  ELSE /\ HaveIds(First(adkAt)) /\ (adk.started <=> adkAt # 0)
       /\ Stands(adk, First(adkAt))

\* What service s has done, and then does with what is on the wire, is what ops
\* come to; with the opening, if the turn has begun.
Leads(s, w, ops, begun) ==
  /\ ~HasError(s.up)
  /\ Shown(s) \o Passed(w, WireDown) = Opens(begun) \o Passed(ops, OpDown)
  /\ Raised(s) \o Passed(w, WireUp) = Passed(ops, OpUp)
  /\ Reported(s) \o Passed(w, WireDelta) = Passed(ops, OpDelta)
  /\ Latest(s.usage, Passed(w, WireUsage)) = Usage(ops)

Terminal(f) == IF f THEN ErrorEnvelope ELSE EndEnvelope

\* Where the turn of the bridge stands, while WebSocketLLMService listens to it.
BridgeInv ==
  /\ handler = "asked" => wire = <<>> /\ jsAt = 0 /\ ~remote.started
  /\ handler # "asked" /\ ~remote.started => wire # <<>> /\ wire[1] = StartEnvelope
  /\ handler = "returned" =>
       /\ jsAt = Len(script) /\ wire # <<>>
       /\ wire[Len(wire)] = Terminal(fails)
  /\ \A i \in DOMAIN wire :
       wire[i] \in {EndEnvelope, ErrorEnvelope} => handler = "returned" /\ i = Len(wire)

RemoteInv ==
  IF remote.over
  THEN /\ Substance(remote) = Whole(script, fails)
       /\ HasError(remote.up) \/ (wire = <<>> /\ handler = "returned")
  ELSE /\ BridgeInv
       /\ HaveIds(wire) <=> HaveIds(First(jsAt))
       /\ Leads(remote, wire, First(jsAt), handler # "asked")

ParityInv == Typed /\ AdkInv /\ RemoteInv

-----------------------------------------------------------------------------
(* Leaving out what is dull                                                 *)

Piece(x, dull)   == IF x \in dull THEN <<>> ELSE <<x>>
Pieces(s, dull)  == [i \in 1 .. Len(s) |-> Piece(s[i], dull)]

LEMMA WithoutIs ==
  ASSUME NEW S, NEW s \in Seq(S), NEW dull
  PROVE  /\ Without(s, dull) = FlattenSeq(Pieces(s, dull))
         /\ Pieces(s, dull) \in Seq(Seq(S))
         /\ Len(Pieces(s, dull)) = Len(s)
         /\ \A i \in 1 .. Len(s) : Pieces(s, dull)[i] = Piece(s[i], dull)
  <1>1. DOMAIN s = 1 .. Len(s) /\ Len(s) \in Nat /\ \A i \in 1 .. Len(s) : s[i] \in S
    OBVIOUS
  <1>2. \A i \in 1 .. Len(s) : Piece(s[i], dull) \in Seq(S)
    BY <1>1 DEF Piece
  <1>3. Without(s, dull) = FlattenSeq(Pieces(s, dull))
    BY <1>1 DEF Without, Pieces, Piece
  <1> QED
    BY <1>1, <1>2, <1>3 DEF Pieces

LEMMA WithoutType ==
  ASSUME NEW S, NEW s \in Seq(S), NEW dull
  PROVE  Without(s, dull) \in Seq(S)
  BY WithoutIs, FlattenType

LEMMA WithoutNothing ==
  ASSUME NEW dull
  PROVE  Without(<<>>, dull) = <<>>
  <1> DEFINE e == [i \in DOMAIN <<>> |-> IF <<>>[i] \in dull THEN <<>> ELSE <<<<>>[i]>>]
  <1>1. e = <<>>
    OBVIOUS
  <1> HIDE DEF e
  <1>2. FlattenSeq(e) = <<>>
    BY <1>1 DEF FlattenSeq
  <1> QED
    BY <1>2 DEF Without, e

LEMMA WithoutOne ==
  ASSUME NEW S, NEW x \in S, NEW dull
  PROVE  Without(<<x>>, dull) = Piece(x, dull)
  <1> DEFINE s == <<x>>
             P == Pieces(s, dull)
  <1>1. s \in Seq(S) /\ Len(s) = 1 /\ s[1] = x
    OBVIOUS
  <1>2. /\ P \in Seq(Seq(S)) /\ Len(P) = 1 /\ P[1] = Piece(x, dull)
        /\ Without(s, dull) = FlattenSeq(P)
    <2> HIDE DEF s
    <2> QED
      BY <1>1, WithoutIs
  <1> HIDE DEF P
  <1>3. P = <<Piece(x, dull)>>
    BY <1>2
  <1>4. FlattenSeq(<<Piece(x, dull)>>) = Piece(x, dull)
    <2>1. Piece(x, dull) \in Seq(S)
      BY DEF Piece
    <2> QED
      BY <2>1, FlattenOne
  <1> QED
    BY <1>2, <1>3, <1>4

LEMMA WithoutConcat ==
  ASSUME NEW S, NEW s \in Seq(S), NEW t \in Seq(S), NEW dull
  PROVE  Without(s \o t, dull) = Without(s, dull) \o Without(t, dull)
  <1> DEFINE c == s \o t
  <1>1. /\ c \in Seq(S) /\ Len(c) = Len(s) + Len(t)
        /\ Len(s) \in Nat /\ Len(t) \in Nat
        /\ \A i \in 1 .. Len(s) : i \in 1 .. Len(c) /\ c[i] = s[i]
        /\ \A i \in 1 .. Len(t) : Len(s) + i \in 1 .. Len(c) /\ c[Len(s) + i] = t[i]
    OBVIOUS
  <1> HIDE DEF c
  <1> DEFINE A == Pieces(s, dull)
             B == Pieces(t, dull)
             C == Pieces(c, dull)
  <1>2. /\ A \in Seq(Seq(S)) /\ Len(A) = Len(s)
        /\ \A i \in 1 .. Len(s) : A[i] = Piece(s[i], dull)
        /\ Without(s, dull) = FlattenSeq(A)
    BY WithoutIs
  <1>3. /\ B \in Seq(Seq(S)) /\ Len(B) = Len(t)
        /\ \A i \in 1 .. Len(t) : B[i] = Piece(t[i], dull)
        /\ Without(t, dull) = FlattenSeq(B)
    BY WithoutIs
  <1>4. /\ C \in Seq(Seq(S)) /\ Len(C) = Len(c)
        /\ \A i \in 1 .. Len(c) : C[i] = Piece(c[i], dull)
        /\ Without(c, dull) = FlattenSeq(C)
    BY <1>1, WithoutIs
  <1> HIDE DEF A, B, C
  <1>5. \A i \in 1 .. Len(A) : C[i] = A[i]
    BY <1>1, <1>2, <1>4
  <1>6. \A i \in 1 .. Len(B) : C[Len(A) + i] = B[i]
    <2> SUFFICES ASSUME NEW i \in 1 .. Len(t)
                 PROVE  C[Len(s) + i] = B[i]
      BY <1>2, <1>3
    <2>1. C[Len(s) + i] = Piece(c[Len(s) + i], dull)
      BY <1>1, <1>4
    <2> QED
      BY <1>1, <1>3, <2>1
  <1>7. FlattenSeq(C) = FlattenSeq(A) \o FlattenSeq(B)
    <2>1. Len(C) = Len(A) + Len(B)
      BY <1>1, <1>2, <1>3, <1>4
    <2> QED
      BY <1>2, <1>3, <1>4, <1>5, <1>6, <2>1, FlattenJoined
  <1> QED
    BY <1>2, <1>3, <1>4, <1>7 DEF c

-----------------------------------------------------------------------------
(* What a sequence becomes, up to the first element without an id           *)

\* For each element of T a text over S.
Texts(T, S) == [T -> Seq(S)]

Part(s, g, i)  == IF \A j \in 1 .. i : s[j].id THEN g[s[i]] ELSE <<>>
Parts(s, g)    == [i \in 1 .. Len(s) |-> Part(s, g, i)]

LEMMA PassedIs ==
  ASSUME NEW S, NEW T, NEW g \in Texts(T, S), NEW s \in Seq(T)
  PROVE  /\ Passed(s, g) = FlattenSeq(Parts(s, g))
         /\ Parts(s, g) \in Seq(Seq(S))
         /\ Len(Parts(s, g)) = Len(s)
         /\ \A i \in 1 .. Len(s) : Parts(s, g)[i] = Part(s, g, i)
  <1>1. DOMAIN s = 1 .. Len(s) /\ Len(s) \in Nat /\ \A i \in 1 .. Len(s) : s[i] \in T
    OBVIOUS
  <1>2. \A i \in 1 .. Len(s) : Part(s, g, i) \in Seq(S)
    <2>1. \A i \in 1 .. Len(s) : g[s[i]] \in Seq(S)
      BY <1>1 DEF Texts
    <2>2. <<>> \in Seq(S)
      OBVIOUS
    <2> QED
      BY <2>1, <2>2 DEF Part
  <1>3. Passed(s, g) = FlattenSeq(Parts(s, g))
    BY <1>1 DEF Passed, Parts, Part
  <1> QED
    BY <1>1, <1>2, <1>3 DEF Parts

LEMMA PassedType ==
  ASSUME NEW S, NEW T, NEW g \in Texts(T, S), NEW s \in Seq(T)
  PROVE  Passed(s, g) \in Seq(S)
  BY PassedIs, FlattenType

LEMMA PassedNothing ==
  ASSUME NEW g
  PROVE  Passed(<<>>, g) = <<>>
  <1> DEFINE e == [i \in DOMAIN <<>> |->
                    IF \A j \in 1 .. i : <<>>[j].id THEN g[<<>>[i]] ELSE <<>>]
  <1>1. e = <<>>
    OBVIOUS
  <1> HIDE DEF e
  <1>2. FlattenSeq(e) = <<>>
    BY <1>1 DEF FlattenSeq
  <1> QED
    BY <1>2 DEF Passed, e

\* What x adds to s, and what it comes to alone.
Gain(s, x, g) == IF HaveIds(s) /\ x.id THEN g[x] ELSE <<>>
Alone(x, g)   == IF x.id THEN g[x] ELSE <<>>

\* s is x alone, and c is s with x after it, all over T, where g gives texts over S.
Single(S, T, g, x, s)  == g \in Texts(T, S) /\ x \in T /\ s = <<x>>
Grows(S, T, g, s, x, c) ==
  g \in Texts(T, S) /\ s \in Seq(T) /\ x \in T /\ c = s \o <<x>>

LEMMA PassedOne ==
  ASSUME NEW S, NEW T, NEW g, NEW x, NEW s, Single(S, T, g, x, s)
  PROVE  Passed(s, g) = Alone(x, g)
  <1> DEFINE P == Parts(s, g)
             y == Alone(x, g)
  <1>1. /\ g \in Texts(T, S) /\ x \in T
        /\ s \in Seq(T) /\ Len(s) = 1 /\ s[1] = x /\ 1 .. 1 = {1}
    BY DEF Single
  <1>2. y \in Seq(S)
    BY <1>1 DEF Texts, Alone
  <1>3. /\ P \in Seq(Seq(S)) /\ Len(P) = 1 /\ P[1] = Part(s, g, 1)
        /\ Passed(s, g) = FlattenSeq(P)
    BY <1>1, PassedIs
  <1>4. Part(s, g, 1) = y
    BY <1>1 DEF Part, Alone
  <1> HIDE DEF P, y
  <1>5. P = <<y>>
    BY <1>3, <1>4
  <1>6. FlattenSeq(<<y>>) = y
    BY <1>2, FlattenOne
  <1> QED
    BY <1>3, <1>5, <1>6 DEF y

LEMMA PassedConcat ==
  ASSUME NEW S, NEW T, NEW g \in Texts(T, S), NEW s \in Seq(T), NEW t \in Seq(T)
  PROVE  Passed(s \o t, g)
           = Passed(s, g) \o (IF HaveIds(s) THEN Passed(t, g) ELSE <<>>)
  <1> DEFINE c == s \o t
  <1>1. /\ c \in Seq(T) /\ Len(c) = Len(s) + Len(t)
        /\ Len(s) \in Nat /\ Len(t) \in Nat
        /\ \A i \in 1 .. Len(s) : i \in 1 .. Len(c) /\ c[i] = s[i]
        /\ \A i \in 1 .. Len(t) : Len(s) + i \in 1 .. Len(c) /\ c[Len(s) + i] = t[i]
    OBVIOUS
  <1> HIDE DEF c
  <1> DEFINE A == Parts(s, g)
             B == Parts(t, g)
             C == Parts(c, g)
             N == [i \in 1 .. Len(t) |-> <<>>]
             D == IF HaveIds(s) THEN B ELSE N
  <1>2. /\ A \in Seq(Seq(S)) /\ Len(A) = Len(s)
        /\ \A i \in 1 .. Len(s) : A[i] = Part(s, g, i)
        /\ Passed(s, g) = FlattenSeq(A)
    BY PassedIs
  <1>3. /\ B \in Seq(Seq(S)) /\ Len(B) = Len(t)
        /\ \A i \in 1 .. Len(t) : B[i] = Part(t, g, i)
        /\ Passed(t, g) = FlattenSeq(B)
    BY PassedIs
  <1>4. /\ C \in Seq(Seq(S)) /\ Len(C) = Len(c)
        /\ \A i \in 1 .. Len(c) : C[i] = Part(c, g, i)
        /\ Passed(c, g) = FlattenSeq(C)
    BY <1>1, PassedIs
  <1>5. N \in Seq(Seq(S)) /\ Len(N) = Len(t) /\ \A i \in 1 .. Len(t) : N[i] = <<>>
    <2>1. \A i \in 1 .. Len(t) : <<>> \in Seq(S)
      OBVIOUS
    <2> QED
      BY <1>1, <2>1
  <1>6. FlattenSeq(D) = IF HaveIds(s) THEN Passed(t, g) ELSE <<>>
    <2>1. FlattenSeq(N) = <<>>
      <3> HIDE DEF N
      <3> QED
        BY <1>5, FlattenNothing
    <2> QED
      BY <1>3, <2>1
  <1>7. D \in Seq(Seq(S)) /\ Len(D) = Len(t)
    BY <1>3, <1>5
  <1>8. \A i \in 1 .. Len(s) : C[i] = A[i]
    <2> SUFFICES ASSUME NEW i \in 1 .. Len(s)
                 PROVE  Part(c, g, i) = Part(s, g, i)
      BY <1>1, <1>2, <1>4
    <2>1. c[i] = s[i] /\ \A j \in 1 .. i : c[j] = s[j]
      BY <1>1
    <2> QED
      BY <2>1 DEF Part
  <1>9. \A i \in 1 .. Len(t) : C[Len(s) + i] = D[i]
    <2> SUFFICES ASSUME NEW i \in 1 .. Len(t)
                 PROVE  Part(c, g, Len(s) + i) = D[i]
      BY <1>1, <1>4
    <2>1. c[Len(s) + i] = t[i]
      BY <1>1
    <2>2. CASE HaveIds(s)
      <3>1. \A j \in 1 .. Len(s) + i : j \in 1 .. Len(s) \/ (j - Len(s)) \in 1 .. i
        BY <1>1
      <3>2. (\A j \in 1 .. Len(s) + i : c[j].id) <=> (\A j \in 1 .. i : t[j].id)
        <4>1. \A j \in 1 .. Len(s) : c[j].id
          BY <1>1, <2>2 DEF HaveIds
        <4>2. \A j \in 1 .. i : c[Len(s) + j] = t[j] /\ Len(s) + j \in 1 .. Len(s) + i
          BY <1>1
        <4>3. \A j \in 1 .. Len(s) + i :
                (j - Len(s)) \in 1 .. i => c[j] = t[j - Len(s)]
          BY <1>1
        <4> QED
          BY <3>1, <4>1, <4>2, <4>3
      <3>3. Part(c, g, Len(s) + i) = Part(t, g, i)
        BY <2>1, <3>2 DEF Part
      <3> QED
        BY <1>3, <2>2, <3>3
    <2>3. CASE ~HaveIds(s)
      <3>1. PICK j \in 1 .. Len(s) : ~s[j].id
        BY <1>1, <2>3 DEF HaveIds
      <3>2. j \in 1 .. Len(s) + i /\ ~c[j].id
        BY <1>1, <3>1
      <3>3. Part(c, g, Len(s) + i) = <<>>
        BY <3>2 DEF Part
      <3> QED
        BY <1>5, <2>3, <3>3
    <2> QED
      BY <2>2, <2>3
  <1> HIDE DEF A, C, D
  <1>10. FlattenSeq(C) = FlattenSeq(A) \o FlattenSeq(D)
    <2>1. /\ Len(C) = Len(A) + Len(D)
          /\ \A i \in 1 .. Len(A) : C[i] = A[i]
          /\ \A i \in 1 .. Len(D) : C[Len(A) + i] = D[i]
      BY <1>1, <1>2, <1>4, <1>7, <1>8, <1>9
    <2> QED
      BY <1>2, <1>4, <1>7, <2>1, FlattenJoined
  <1> QED
    BY <1>2, <1>4, <1>6, <1>10 DEF c

-----------------------------------------------------------------------------
(* Operations and envelopes                                                 *)

Counts == {"few", "many"}
Deltas == {"empty", "some"}

LEMMA OpFrames ==
  ASSUME NEW o \in Ops
  PROVE  /\ EventFrames(o) \in Seq(Frames)
         /\ \/ EventFrames(o) = <<>> /\ o.op \notin {"call", "result"}
            \/ EventFrames(o) = <<Frame("text", "some")>> /\ o.op = "text"
            \/ \E b \in {"empty", "some"} :
                  EventFrames(o) = <<Frame("result", b)>> /\ o.op = "result"
            \/ \E b \in {"empty", "some"}, c \in {"none", "some"} :
                  /\ o.op = "call"
                  /\ EventFrames(o) = <<Frame("calls_started", b), Frame("in_progress", c)>>
  <1>1. CASE o.op = "text" /\ o.body # "empty"
    <2>1. o.body = "some" /\ EventFrames(o) = <<Frame("text", o.body)>>
      BY <1>1 DEF Ops, Op, EventFrames
    <2>2. Frame("text", "some") \in Frames
      BY DEF Frames
    <2> QED
      BY <1>1, <2>1, <2>2
  <1>2. CASE o.op = "call"
    <2>1. /\ OrEmpty(o.body) \in {"empty", "some"} /\ o.body \in {"none", "some"}
          /\ EventFrames(o) = <<Frame("calls_started", OrEmpty(o.body)),
                                Frame("in_progress", o.body)>>
      BY <1>2 DEF Ops, Op, EventFrames, OrEmpty
    <2>2. /\ Frame("calls_started", OrEmpty(o.body)) \in Frames
          /\ Frame("in_progress", o.body) \in Frames
      BY <2>1 DEF Frames
    <2> QED
      BY <1>2, <2>1, <2>2
  <1>3. CASE o.op = "result"
    <2>1. /\ OrEmpty(o.body) \in {"empty", "some"}
          /\ EventFrames(o) = <<Frame("result", OrEmpty(o.body))>>
      BY <1>3 DEF Ops, Op, EventFrames, OrEmpty
    <2>2. Frame("result", OrEmpty(o.body)) \in Frames
      BY <2>1 DEF Frames
    <2> QED
      BY <1>3, <2>1, <2>2
  <1>4. CASE o.op \notin {"call", "result"} /\ ~(o.op = "text" /\ o.body # "empty")
    BY <1>4 DEF Ops, Op, EventFrames
  <1> QED
    BY <1>1, <1>2, <1>3, <1>4

LEMMA OpTexts ==
  /\ OpDown \in Texts(Ops, Frames) /\ OpUp \in Texts(Ops, Frames)
  /\ OpDelta \in Texts(Ops, Deltas) /\ OpUsage \in Texts(Ops, Counts)
  <1>1. \A o \in Ops : EventFrames(o) \in Seq(Frames)
    BY OpFrames
  <1>2. \A o \in Ops : o.op = "usage" => o.body \in Counts
    BY DEF Ops, Op, Counts
  <1>3. \A o \in Ops : OpUp[o] \in Seq(Frames)
    BY <1>1 DEF OpUp
  <1>8. \A o \in Ops : OpUsage[o] \in Seq(Counts)
    <2> SUFFICES ASSUME NEW o \in Ops
                 PROVE  (IF o.op = "usage" THEN <<o.body>> ELSE <<>>) \in Seq(Counts)
      BY DEF OpUsage
    <2> QED
      BY <1>2
  <1>9. \A o \in Ops : OpDelta[o] \in Seq(Deltas)
    <2>1. "some" \in Deltas
      BY DEF Deltas
    <2>2. <<"some">> \in Seq(Deltas) /\ <<>> \in Seq(Deltas)
      BY <2>1
    <2> QED
      BY <2>2 DEF OpDelta
  <1>4. OpDown \in Texts(Ops, Frames)
    BY <1>1 DEF OpDown, Texts
  <1>5. OpUp \in Texts(Ops, Frames)
    BY <1>3 DEF OpUp, Texts
  <1>6. OpDelta \in Texts(Ops, Deltas)
    BY <1>9 DEF OpDelta, Texts
  <1>7. OpUsage \in Texts(Ops, Counts)
    BY <1>8 DEF OpUsage, Texts
  <1> QED
    BY <1>4, <1>5, <1>6, <1>7

\* The payload of a frame the bridge emits.
LEMMA OutputFrames ==
  ASSUME NEW e \in Envelopes, e.type = "frame"
  PROVE  /\ OutputFrame(e) \in Frames /\ OutputFrame(e) # Error
         /\ OutputFrame(e).frame = e.frame
  <1>1. CASE e \in {StartEnvelope, EndEnvelope}
    BY <1>1 DEF StartEnvelope, EndEnvelope, Envelope, OutputFrame, Frame, Frames, Error
  <1>2. CASE e.frame = "text" /\ e.body \in {"empty", "some"}
    BY <1>2 DEF OutputFrame, Frame, Frames, Error
  <1>3. CASE e.frame \in {"calls_started", "result"} /\ e.body \in {"none", "some"}
    <2>1. OutputFrame(e) = Frame(e.frame, OrEmpty(e.body))
          /\ OrEmpty(e.body) \in {"empty", "some"}
      BY <1>3 DEF OutputFrame, OrEmpty
    <2>2. Frame(e.frame, OrEmpty(e.body)) \in Frames
      BY <1>3, <2>1 DEF Frames
    <2> QED
      BY <1>3, <2>1, <2>2 DEF Frame, Error
  <1>4. CASE e.frame = "in_progress" /\ e.body \in {"none", "some"}
    <2>1. OutputFrame(e) = Frame("in_progress", e.body)
      BY <1>4 DEF OutputFrame
    <2>2. Frame("in_progress", e.body) \in Frames
      BY <1>4 DEF Frames
    <2> QED
      BY <1>4, <2>1, <2>2 DEF Frame, Error
  <1> QED
    BY <1>1, <1>2, <1>3, <1>4
    DEF Envelopes, TextEnvelopes, ToolEnvelopes, DeltaEnvelopes, UsageEnvelopes,
        ErrorEnvelope, StartEnvelope, EndEnvelope, Envelope

LEMMA WireTexts ==
  /\ WireDown \in Texts(Envelopes, Frames) /\ WireUp \in Texts(Envelopes, Frames)
  /\ WireDelta \in Texts(Envelopes, Deltas) /\ WireUsage \in Texts(Envelopes, Counts)
  <1>1. \A e \in Envelopes : e.type = "frame" => OutputFrame(e) \in Frames
    BY OutputFrames
  <1>2. \A e \in Envelopes : e.type = "turn.usage" => e.body \in Counts
    BY DEF Envelopes, TextEnvelopes, ToolEnvelopes, DeltaEnvelopes, UsageEnvelopes,
           StartEnvelope, EndEnvelope, ErrorEnvelope, Envelope, Counts
  <1>3. /\ \A e \in Envelopes : WireDown[e] \in Seq(Frames)
        /\ \A e \in Envelopes : WireUp[e] \in Seq(Frames)
    BY <1>1 DEF WireDown, WireUp
  <1>4. \A e \in Envelopes : WireUsage[e] \in Seq(Counts)
    <2> SUFFICES ASSUME NEW e \in Envelopes
                 PROVE  (IF e.type = "turn.usage" THEN <<e.body>> ELSE <<>>) \in Seq(Counts)
      BY DEF WireUsage
    <2> QED
      BY <1>2
  <1>9. \A e \in Envelopes : WireDelta[e] \in Seq(Deltas)
    <2>1. "some" \in Deltas
      BY DEF Deltas
    <2>2. <<"some">> \in Seq(Deltas) /\ <<>> \in Seq(Deltas)
      BY <2>1
    <2> QED
      BY <2>2 DEF WireDelta
  <1>5. WireDown \in Texts(Envelopes, Frames)
    BY <1>3 DEF WireDown, Texts
  <1>6. WireUp \in Texts(Envelopes, Frames)
    BY <1>3 DEF WireUp, Texts
  <1>7. WireDelta \in Texts(Envelopes, Deltas)
    BY <1>9 DEF WireDelta, Texts
  <1>8. WireUsage \in Texts(Envelopes, Counts)
    BY <1>4 DEF WireUsage, Texts
  <1> QED
    BY <1>5, <1>6, <1>7, <1>8

\* What an operation becomes in ADK and what its envelopes become are the same.
EmittedMeans(o, es) ==
  /\ es \in Seq(Envelopes) /\ es # <<>>
  /\ \A i \in DOMAIN es : es[i].id = o.id
  /\ \A i \in DOMAIN es : es[i] \notin {StartEnvelope, EndEnvelope, ErrorEnvelope}
  /\ o.id => /\ Passed(es, WireDown) = OpDown[o] /\ Passed(es, WireUp) = OpUp[o]
             /\ Passed(es, WireDelta) = OpDelta[o] /\ Passed(es, WireUsage) = OpUsage[o]

LEMMA EnvelopesHold ==
  /\ \A b \in {"empty", "some"} : Envelope("frame", "text", TRUE, b) \in Envelopes
  /\ \A f \in {"calls_started", "in_progress", "result"}, id \in BOOLEAN,
        b \in {"none", "some"} : Envelope("frame", f, id, b) \in Envelopes
  /\ \A b \in {"empty", "some"} : Envelope("state.delta", "none", TRUE, b) \in Envelopes
  /\ \A b \in {"few", "many"} : Envelope("turn.usage", "none", TRUE, b) \in Envelopes
  <1>1. \A b \in {"empty", "some"} : Envelope("frame", "text", TRUE, b) \in TextEnvelopes
    BY Zenon DEF TextEnvelopes
  <1>2. ASSUME NEW f \in {"calls_started", "in_progress", "result"}, NEW id \in BOOLEAN,
               NEW b \in {"none", "some"}
        PROVE  Envelope("frame", f, id, b) \in ToolEnvelopes
    BY SMT DEF ToolEnvelopes
  <1>3. \A b \in {"empty", "some"} :
          Envelope("state.delta", "none", TRUE, b) \in DeltaEnvelopes
    BY Zenon DEF DeltaEnvelopes
  <1>4. \A b \in {"few", "many"} :
          Envelope("turn.usage", "none", TRUE, b) \in UsageEnvelopes
    BY Zenon DEF UsageEnvelopes
  <1> QED
    BY <1>1, <1>2, <1>3, <1>4 DEF Envelopes

LEMMA OneEnvelope ==
  ASSUME NEW o \in Ops, NEW e \in Envelopes, e.id = o.id,
         e \notin {StartEnvelope, EndEnvelope, ErrorEnvelope},
         o.id => /\ WireDown[e] = OpDown[o] /\ WireUp[e] = OpUp[o]
                 /\ WireDelta[e] = OpDelta[o] /\ WireUsage[e] = OpUsage[o]
  PROVE  EmittedMeans(o, <<e>>)
  <1> DEFINE es == <<e>>
  <1>1. /\ es \in Seq(Envelopes) /\ es # <<>> /\ DOMAIN es = {1} /\ es[1] = e
    OBVIOUS
  <1>2. o.id => /\ Passed(es, WireDown) = WireDown[e] /\ Passed(es, WireUp) = WireUp[e]
                /\ Passed(es, WireDelta) = WireDelta[e]
                /\ Passed(es, WireUsage) = WireUsage[e]
    <2>1. ASSUME o.id, NEW S, NEW g \in Texts(Envelopes, S)
          PROVE  Passed(es, g) = g[e]
      <3>1. Single(S, Envelopes, g, e, es)
        BY <2>1 DEF Single
      <3> HIDE DEF es
      <3>2. Passed(es, g) = Alone(e, g)
        BY <3>1, PassedOne
      <3> QED
        BY <2>1, <3>2 DEF Alone
    <2> HIDE DEF es
    <2> QED
      BY <2>1, WireTexts
  <1> HIDE DEF es
  <1>3. EmittedMeans(o, es)
    BY <1>1, <1>2 DEF EmittedMeans
  <1> QED
    BY <1>3 DEF es

LEMMA EmittedIs ==
  ASSUME NEW o \in Ops
  PROVE  EmittedMeans(o, Emitted(o))
  <1>1. CASE o.op = "text"
    <2> DEFINE e == Envelope("frame", "text", o.id, o.body)
    <2>1. o.id = TRUE /\ o.body \in {"empty", "some"} /\ Emitted(o) = <<e>>
      BY <1>1 DEF Ops, Op, Emitted
    <2>2. e \in Envelopes /\ e.id = o.id /\ OutputFrame(e) = Frame("text", o.body)
      BY <2>1, EnvelopesHold DEF Envelope, OutputFrame
    <2>3. e \notin {StartEnvelope, EndEnvelope, ErrorEnvelope}
      BY DEF StartEnvelope, EndEnvelope, ErrorEnvelope, Envelope
    <2>4. EventFrames(o) = IF o.body = "empty" THEN <<>> ELSE <<Frame("text", o.body)>>
      BY <1>1 DEF EventFrames
    <2>5. WireDown[e] = OpDown[o]
      BY <2>1, <2>2, <2>4 DEF WireDown, OpDown, EmptyText, Envelope, Frame
    <2>6. WireUp[e] = OpUp[o] /\ WireDelta[e] = OpDelta[o] /\ WireUsage[e] = OpUsage[o]
      BY <1>1, <2>2 DEF WireUp, OpUp, WireDelta, OpDelta, WireUsage, OpUsage, Envelope,
                        Directions, Both, Down
    <2> HIDE DEF e
    <2> QED
      BY <2>1, <2>2, <2>3, <2>5, <2>6, OneEnvelope
  <1>2. CASE o.op = "result"
    <2> DEFINE e == Envelope("frame", "result", o.id, o.body)
    <2>1. o.id \in BOOLEAN /\ o.body \in {"none", "some"} /\ Emitted(o) = <<e>>
      BY <1>2 DEF Ops, Op, Emitted
    <2>2. /\ e \in Envelopes /\ e.id = o.id
          /\ OutputFrame(e) = Frame("result", OrEmpty(o.body))
      BY <2>1, EnvelopesHold DEF Envelope, OutputFrame
    <2>3. e \notin {StartEnvelope, EndEnvelope, ErrorEnvelope}
      BY DEF StartEnvelope, EndEnvelope, ErrorEnvelope, Envelope
    <2>4. EventFrames(o) = <<OutputFrame(e)>>
      BY <1>2, <2>2 DEF EventFrames
    <2>5. WireDown[e] = OpDown[o]
      BY <2>2, <2>4 DEF WireDown, OpDown, EmptyText, Envelope, Frame
    <2>6. WireUp[e] = OpUp[o] /\ WireDelta[e] = OpDelta[o] /\ WireUsage[e] = OpUsage[o]
      BY <1>2, <2>2, <2>4 DEF WireUp, OpUp, WireDelta, OpDelta, WireUsage, OpUsage,
                              Envelope, Directions, Both, Down
    <2> HIDE DEF e
    <2> QED
      BY <2>1, <2>2, <2>3, <2>5, <2>6, OneEnvelope
  <1>3. CASE o.op = "delta"
    <2> DEFINE e == Envelope("state.delta", "none", o.id, o.body)
    <2>1. o.id = TRUE /\ o.body \in {"empty", "some"} /\ Emitted(o) = <<e>>
      BY <1>3 DEF Ops, Op, Emitted
    <2>2. e \in Envelopes /\ e.id = o.id
      BY <2>1, EnvelopesHold DEF Envelope
    <2>3. e \notin {StartEnvelope, EndEnvelope, ErrorEnvelope}
      BY DEF StartEnvelope, EndEnvelope, ErrorEnvelope, Envelope
    <2>4. EventFrames(o) = <<>>
      BY <1>3 DEF EventFrames
    <2>5. /\ WireDown[e] = OpDown[o] /\ WireUp[e] = OpUp[o]
          /\ WireDelta[e] = OpDelta[o] /\ WireUsage[e] = OpUsage[o]
      BY <1>3, <2>2, <2>4 DEF WireDown, OpDown, WireUp, OpUp, WireDelta, OpDelta,
                              WireUsage, OpUsage, Envelope
    <2> HIDE DEF e
    <2> QED
      BY <2>1, <2>2, <2>3, <2>5, OneEnvelope
  <1>4. CASE o.op = "usage"
    <2> DEFINE e == Envelope("turn.usage", "none", o.id, o.body)
    <2>1. o.id = TRUE /\ o.body \in {"few", "many"} /\ Emitted(o) = <<e>>
      BY <1>4 DEF Ops, Op, Emitted
    <2>2. e \in Envelopes /\ e.id = o.id
      BY <2>1, EnvelopesHold DEF Envelope
    <2>3. e \notin {StartEnvelope, EndEnvelope, ErrorEnvelope}
      BY DEF StartEnvelope, EndEnvelope, ErrorEnvelope, Envelope
    <2>4. EventFrames(o) = <<>>
      BY <1>4 DEF EventFrames
    <2>5. /\ WireDown[e] = OpDown[o] /\ WireUp[e] = OpUp[o]
          /\ WireDelta[e] = OpDelta[o] /\ WireUsage[e] = OpUsage[o]
      BY <1>4, <2>2, <2>4 DEF WireDown, OpDown, WireUp, OpUp, WireDelta, OpDelta,
                              WireUsage, OpUsage, Envelope
    <2> HIDE DEF e
    <2> QED
      BY <2>1, <2>2, <2>3, <2>5, OneEnvelope
  <1>5. CASE o.op = "call"
    <2> DEFINE a == Envelope("frame", "calls_started", o.id, o.body)
               b == Envelope("frame", "in_progress", o.id, o.body)
    <2>1. /\ o.id \in BOOLEAN /\ o.body \in {"none", "some"}
          /\ Emitted(o) = <<a, b>>
      BY <1>5 DEF Ops, Op, Emitted
    <2>2. /\ a \in Envelopes /\ a.id = o.id /\ b \in Envelopes /\ b.id = o.id
          /\ OutputFrame(a) = Frame("calls_started", OrEmpty(o.body))
          /\ OutputFrame(b) = Frame("in_progress", o.body)
      BY <2>1, EnvelopesHold DEF Envelope, OutputFrame
    <2>3. /\ a \notin {StartEnvelope, EndEnvelope, ErrorEnvelope}
          /\ b \notin {StartEnvelope, EndEnvelope, ErrorEnvelope}
      BY DEF StartEnvelope, EndEnvelope, ErrorEnvelope, Envelope
    <2>4. EventFrames(o) = <<OutputFrame(a)>> \o <<OutputFrame(b)>>
      BY <1>5, <2>2 DEF EventFrames
    <2>5. /\ WireDown[a] = <<OutputFrame(a)>> /\ WireUp[a] = <<OutputFrame(a)>>
          /\ WireDown[b] = <<OutputFrame(b)>> /\ WireUp[b] = <<OutputFrame(b)>>
      BY <2>2 DEF WireDown, WireUp, EmptyText, Envelope, Frame, Directions, Both
    <2>6. /\ WireDelta[a] = <<>> /\ WireUsage[a] = <<>>
          /\ WireDelta[b] = <<>> /\ WireUsage[b] = <<>>
      BY <2>2 DEF WireDelta, WireUsage, Envelope
    <2>7. /\ OpDown[o] = EventFrames(o) /\ OpUp[o] = EventFrames(o)
          /\ OpDelta[o] = <<>> /\ OpUsage[o] = <<>>
      BY <1>5 DEF OpDown, OpUp, OpDelta, OpUsage
    <2> HIDE DEF a, b
    <2> DEFINE es == <<a, b>>
    <2>8. /\ es \in Seq(Envelopes) /\ es # <<>> /\ DOMAIN es = {1, 2}
          /\ es[1] = a /\ es[2] = b
      BY <2>2
    <2> DEFINE p == <<a>>
               q == <<b>>
    <2>12. /\ p \in Seq(Envelopes) /\ DOMAIN p = {1} /\ p[1] = a
           /\ q \in Seq(Envelopes) /\ es = p \o q
      <3>1. <<a, b>> = <<a>> \o <<b>>
        BY <2>2, TwoJoined
      <3>2. DOMAIN p = {1} /\ p[1] = a
        OBVIOUS
      <3>3. p \in Seq(Envelopes) /\ q \in Seq(Envelopes)
        BY <2>2
      <3> QED
        BY <3>1, <3>2, <3>3 DEF es
    <2>13. ASSUME NEW S, NEW g \in Texts(Envelopes, S)
           PROVE  Passed(p, g) = Alone(a, g) /\ Passed(q, g) = Alone(b, g)
      <3>1. Single(S, Envelopes, g, a, p) /\ Single(S, Envelopes, g, b, q)
        BY <2>2, <2>13 DEF Single
      <3> HIDE DEF p, q
      <3> QED
        BY <3>1, PassedOne
    <2> HIDE DEF p, q
    <2>9. ASSUME o.id, NEW S, NEW g \in Texts(Envelopes, S)
          PROVE  Passed(es, g) = g[a] \o g[b]
      <3>1. HaveIds(p)
        BY <2>2, <2>9, <2>12 DEF HaveIds
      <3>2. Passed(p, g) = g[a] /\ Passed(q, g) = g[b]
        BY <2>2, <2>9, <2>13 DEF Alone
      <3>3. Passed(p \o q, g)
              = Passed(p, g) \o (IF HaveIds(p) THEN Passed(q, g) ELSE <<>>)
        BY <2>9, <2>12, PassedConcat
      <3> QED
        BY <2>12, <3>1, <3>2, <3>3
    <2>10. o.id => /\ Passed(es, WireDown) = OpDown[o] /\ Passed(es, WireUp) = OpUp[o]
                   /\ Passed(es, WireDelta) = OpDelta[o]
                   /\ Passed(es, WireUsage) = OpUsage[o]
      <3> SUFFICES ASSUME o.id
                   PROVE  /\ Passed(es, WireDown) = OpDown[o] /\ Passed(es, WireUp) = OpUp[o]
                          /\ Passed(es, WireDelta) = OpDelta[o]
                          /\ Passed(es, WireUsage) = OpUsage[o]
        OBVIOUS
      <3>1. /\ Passed(es, WireDown) = WireDown[a] \o WireDown[b]
            /\ Passed(es, WireUp) = WireUp[a] \o WireUp[b]
            /\ Passed(es, WireDelta) = WireDelta[a] \o WireDelta[b]
            /\ Passed(es, WireUsage) = WireUsage[a] \o WireUsage[b]
        BY <2>9, WireTexts
      <3>2. <<>> \o <<>> = <<>>
        OBVIOUS
      <3> QED
        BY <2>4, <2>5, <2>6, <2>7, <3>1, <3>2
    <2>11. EmittedMeans(o, es)
      BY <2>2, <2>3, <2>8, <2>10 DEF EmittedMeans
    <2> QED
      BY <2>1, <2>11 DEF es
  <1> QED
    BY <1>1, <1>2, <1>3, <1>4, <1>5 DEF Ops, Op

-----------------------------------------------------------------------------
(* A script, operation by operation                                         *)

LEMMA OneMore ==
  ASSUME NEW T, NEW t \in Seq(T), NEW k \in 0 .. Len(t) - 1
  PROVE  /\ SubSeq(t, 1, k) \in Seq(T) /\ t[k + 1] \in T
         /\ SubSeq(t, 1, k + 1) = SubSeq(t, 1, k) \o <<t[k + 1]>>
         /\ HaveIds(SubSeq(t, 1, k + 1)) <=> HaveIds(SubSeq(t, 1, k)) /\ t[k + 1].id
  <1> DEFINE a == SubSeq(t, 1, k)
             b == SubSeq(t, 1, k + 1)
  <1>1. /\ Len(t) \in Nat /\ k + 1 \in DOMAIN t /\ (k + 1) - 1 = k
        /\ k \in Nat /\ k + 1 \in 1 .. k + 1
    OBVIOUS
  <1>2. SubSeq(t, 1, k + 1) = SubSeq(t, 1, (k + 1) - 1) \o <<t[k + 1]>>
    BY <1>1, CutAround
  <1>3. /\ a \in Seq(T) /\ DOMAIN a = 1 .. k /\ \A i \in 1 .. k : a[i] = t[i]
        /\ b \in Seq(T) /\ DOMAIN b = 1 .. k + 1 /\ \A i \in 1 .. k + 1 : b[i] = t[i]
        /\ t[k + 1] \in T
    BY <1>1
  <1> HIDE DEF a, b
  <1>4. HaveIds(b) <=> HaveIds(a) /\ t[k + 1].id
    <2>1. \A i \in 1 .. k + 1 : i \in 1 .. k \/ i = k + 1
      BY <1>1
    <2>2. \A i \in 1 .. k : i \in 1 .. k + 1
      BY <1>1
    <2> QED
      BY <1>1, <1>3, <2>1, <2>2 DEF HaveIds
  <1> QED
    BY <1>1, <1>2, <1>3, <1>4 DEF a, b

LEMMA PassedMore ==
  ASSUME NEW S, NEW T, NEW g, NEW s, NEW x, NEW c, Grows(S, T, g, s, x, c)
  PROVE  Passed(c, g) = Passed(s, g) \o Gain(s, x, g)
  <1> DEFINE q == <<x>>
  <1>1. /\ g \in Texts(T, S) /\ s \in Seq(T) /\ x \in T /\ c = s \o q
        /\ q \in Seq(T) /\ Single(S, T, g, x, q)
    BY DEF Grows, Single
  <1> HIDE DEF q
  <1>2. Passed(q, g) = Alone(x, g)
    BY <1>1, PassedOne
  <1>3. Passed(s \o q, g) = Passed(s, g) \o (IF HaveIds(s) THEN Passed(q, g) ELSE <<>>)
    BY ONLY <1>1, PassedConcat
  <1>4. (IF HaveIds(s) THEN Passed(q, g) ELSE <<>>) = Gain(s, x, g)
    BY <1>2 DEF Alone, Gain
  <1> QED
    BY <1>1, <1>3, <1>4

\* What the first k come to, and the rest.
LEMMA PassedInTwo ==
  ASSUME NEW S, NEW T, NEW g \in Texts(T, S), NEW t \in Seq(T), NEW k \in 0 .. Len(t)
  PROVE  /\ IsPrefix(Passed(SubSeq(t, 1, k), g), Passed(t, g))
         /\ k = Len(t) \/ ~HaveIds(SubSeq(t, 1, k)) =>
              /\ Passed(SubSeq(t, 1, k), g) = Passed(t, g)
              /\ HaveIds(SubSeq(t, 1, k)) <=> HaveIds(t)
  <1> DEFINE a == SubSeq(t, 1, k)
             b == SubSeq(t, k + 1, Len(t))
             c == IF HaveIds(a) THEN Passed(b, g) ELSE <<>>
  <1>1. Len(t) \in Nat /\ k \in Nat
    OBVIOUS
  <1>2. /\ a \in Seq(T) /\ Len(a) = k /\ DOMAIN a = 1 .. k
        /\ \A i \in 1 .. k : a[i] = t[i] /\ i \in DOMAIN t
        /\ b \in Seq(T) /\ Len(b) = Len(t) - k /\ \A i \in 1 .. Len(b) : b[i] = t[k + i]
    BY <1>1
  <1> HIDE DEF a, b
  <1>3. a \o b = t
    <2>1. /\ Len(t) = Len(a) + Len(b)
          /\ \A i \in 1 .. Len(a) : t[i] = a[i]
          /\ \A i \in 1 .. Len(b) : t[Len(a) + i] = b[i]
      BY <1>1, <1>2
    <2> QED
      BY <1>2, <2>1, JoinedIs
  <1>4. Passed(a \o b, g) = Passed(a, g) \o (IF HaveIds(a) THEN Passed(b, g) ELSE <<>>)
    BY <1>2, PassedConcat
  <1>5. Passed(a, g) \in Seq(S) /\ Passed(b, g) \in Seq(S)
    BY <1>2, PassedType
  <1>6. c \in Seq(S) /\ Passed(t, g) = Passed(a, g) \o c
    BY <1>3, <1>4, <1>5
  <1>7. k = Len(t) => a = t /\ b = <<>>
    <2>1. k = Len(t) => a = t
      BY <1>1 DEF a
    <2>2. k = Len(t) => b = <<>>
      BY <1>1, <1>2
    <2> QED
      BY <2>1, <2>2
  <1>8. ~HaveIds(a) => ~HaveIds(t) /\ c = <<>>
    BY <1>2 DEF HaveIds
  <1> HIDE DEF c
  <1>9. IsPrefix(Passed(a, g), Passed(a, g) \o c)
    BY <1>5, <1>6, BeginsJoined
  <1>10. c = <<>> => Passed(t, g) = Passed(a, g)
    BY <1>5, <1>6
  <1> QED
    BY <1>6, <1>7, <1>8, <1>9, <1>10 DEF a

\* The last of two sequences of counts.
LEMMA LatestJoined ==
  ASSUME NEW u, NEW us \in Seq(Counts), NEW vs \in Seq(Counts)
  PROVE  Latest(u, us \o vs) = Latest(Latest(u, us), vs)
  <1> DEFINE c == us \o vs
  <1>1. /\ Len(us) \in Nat /\ Len(vs) \in Nat /\ Len(c) = Len(us) + Len(vs)
        /\ \A i \in 1 .. Len(us) : c[i] = us[i]
        /\ \A i \in 1 .. Len(vs) : c[Len(us) + i] = vs[i]
        /\ c \in Seq(Counts)
    OBVIOUS
  <1>2. CASE vs = <<>>
    <2>1. us \o vs = us
      BY <1>2
    <2> QED
      BY <1>2, <2>1 DEF Latest
  <1>3. CASE vs # <<>>
    <2>1. Len(vs) \in 1 .. Len(vs)
      BY <1>1, <1>3
    <2> HIDE DEF c
    <2>2. c # <<>> /\ c[Len(c)] = vs[Len(vs)]
      BY <1>1, <2>1
    <2> QED
      BY <1>3, <2>2 DEF Latest, c
  <1> QED
    BY <1>2, <1>3

LEMMA LatestType ==
  ASSUME NEW u \in {"none", "few", "many"}, NEW us \in Seq(Counts)
  PROVE  Latest(u, us) \in {"none", "few", "many"}
  <1>1. us # <<>> => us[Len(us)] \in Counts
    OBVIOUS
  <1> QED
    BY <1>1 DEF Latest, Counts

-----------------------------------------------------------------------------
(* What a service does                                                      *)

\* r is s after it has pushed d downstream and u upstream.
Pushed(s, r, d, u) ==
  /\ r \in Services /\ r.usage = s.usage /\ r.over = s.over /\ r.deltas = s.deltas
  /\ r.down = s.down \o d /\ r.up = s.up \o u

LEMMA PushPushes ==
  ASSUME NEW s \in Services, NEW fs \in Seq(Frames), NEW ds \in SUBSET {"down", "up"}
  PROVE  /\ Push(s, fs, ds).started = s.started
         /\ Pushed(s, Push(s, fs, ds), IF "down" \in ds THEN fs ELSE <<>>,
                                       IF "up" \in ds THEN fs ELSE <<>>)
  <1>1. /\ s.down \in Seq(Frames) /\ s.up \in Seq(Frames)
        /\ s.deltas \in Seq({"empty", "some"}) /\ s.started \in BOOLEAN
        /\ s.over \in BOOLEAN /\ s.usage \in {"none", "few", "many"}
    BY DEF Services
  <1> DEFINE d == IF "down" \in ds THEN s.down \o fs ELSE s.down
             u == IF "up" \in ds THEN s.up \o fs ELSE s.up
  <1>4. s.down \o <<>> = s.down /\ s.up \o <<>> = s.up
    BY <1>1
  <1>5. s.down \o fs \in Seq(Frames) /\ s.up \o fs \in Seq(Frames)
    BY <1>1
  <1>2. /\ d \in Seq(Frames) /\ d = s.down \o (IF "down" \in ds THEN fs ELSE <<>>)
        /\ u \in Seq(Frames) /\ u = s.up \o (IF "up" \in ds THEN fs ELSE <<>>)
    BY <1>1, <1>4, <1>5, Zenon
  <1>3. Push(s, fs, ds) = [s EXCEPT !.down = d, !.up = u]
    BY DEF Push, Services
  <1> HIDE DEF d, u
  <1> QED
    BY <1>1, <1>2, <1>3 DEF Pushed, Services

LEMMA OpeningFrames ==
  /\ Opening \in Seq(Frames) /\ \A u \in {"none", "few", "many"} : Closing(u) \in Seq(Frames)
  /\ Error \in Frames /\ EmptyText \in Frames /\ Frame("start", "none") \in Frames
  /\ \A u \in {"none", "few", "many"} : Frame("usage", u) \in Frames
  /\ Frame("end", "none") \in Frames
  <1>1. /\ Error \in Frames /\ EmptyText \in Frames /\ Frame("start", "none") \in Frames
        /\ Frame("end", "none") \in Frames
    BY DEF Frames, Error, EmptyText
  <1>2. \A u \in {"none", "few", "many"} : Frame("usage", u) \in Frames
    BY DEF Frames
  <1>3. Opening \in Seq(Frames)
    BY <1>1 DEF Opening
  <1>4. ASSUME NEW u \in {"none", "few", "many"}
        PROVE  Closing(u) \in Seq(Frames)
    <2>1. Frame("usage", u) \in Frames /\ Frame("end", "none") \in Frames
      BY <1>1, <1>2
    <2> QED
      BY <2>1 DEF Closing
  <1> QED
    BY <1>1, <1>2, <1>3, <1>4

LEMMA OpenedPushes ==
  ASSUME NEW s \in Services
  PROVE  /\ Opened(s).started = TRUE
         /\ Pushed(s, Opened(s), IF s.started THEN <<>> ELSE Opening, <<>>)
  <1>1. CASE s.started
    <2>1. s.down \o <<>> = s.down /\ s.up \o <<>> = s.up /\ s.started = TRUE
      BY <1>1 DEF Services
    <2> QED
      BY <1>1, <2>1 DEF Opened, Pushed
  <1>2. CASE ~s.started
    <2> DEFINE q == [s EXCEPT !.started = TRUE]
               r == Push(q, Opening, Down)
    <2>1. /\ q \in Services /\ q.started = TRUE /\ q.usage = s.usage /\ q.over = s.over
          /\ q.deltas = s.deltas /\ q.down = s.down /\ q.up = s.up
      BY DEF Services
    <2>2. Opened(s) = r
      BY <1>2 DEF Opened, Opening
    <2> HIDE DEF q
    <2>3. /\ r.started = q.started
          /\ Pushed(q, r, IF "down" \in Down THEN Opening ELSE <<>>,
                          IF "up" \in Down THEN Opening ELSE <<>>)
      BY <2>1, PushPushes, OpeningFrames DEF Down
    <2>4. "down" \in Down /\ "up" \notin Down
      BY DEF Down
    <2> HIDE DEF r
    <2> QED
      BY <1>2, <2>1, <2>2, <2>3, <2>4 DEF Pushed
  <1> QED
    BY <1>1, <1>2

LEMMA ErrorsJoined ==
  ASSUME NEW a \in Seq(Frames), NEW b \in Seq(Frames)
  PROVE  HasError(a \o b) <=> HasError(a) \/ HasError(b)
  <1> DEFINE c == a \o b
  <1>1. /\ DOMAIN a = 1 .. Len(a) /\ DOMAIN b = 1 .. Len(b) /\ DOMAIN c = 1 .. Len(a) + Len(b)
        /\ Len(a) \in Nat /\ Len(b) \in Nat
        /\ \A i \in 1 .. Len(a) : c[i] = a[i]
        /\ \A i \in 1 .. Len(b) : c[Len(a) + i] = b[i] /\ Len(a) + i \in DOMAIN c
        /\ \A i \in 1 .. Len(a) + Len(b) :
             i \in 1 .. Len(a) \/ (i - Len(a) \in 1 .. Len(b) /\ c[i] = b[i - Len(a)])
    OBVIOUS
  <1> HIDE DEF c
  <1>2. \A i \in DOMAIN a : i \in DOMAIN c
    BY <1>1
  <1> HIDE DEF c
  <1>3. HasError(c) <=> HasError(a) \/ HasError(b)
    BY <1>1, <1>2 DEF HasError
  <1> QED
    BY <1>3 DEF c

\* What pushing adds to the streams.
LEMMA PushedStreams ==
  ASSUME NEW s \in Services, NEW r, NEW d \in Seq(Frames), NEW u \in Seq(Frames),
         Pushed(s, r, d, u)
  PROVE  /\ Shown(r) = Shown(s) \o Without(d, {EmptyText})
         /\ Raised(r) = Raised(s) \o Without(u, {Error})
         /\ Reported(r) = Reported(s)
         /\ HasError(r.up) <=> HasError(s.up) \/ HasError(u)
  <1>1. s.down \in Seq(Frames) /\ s.up \in Seq(Frames)
    BY DEF Services
  <1> DEFINE down == s.down
             up   == s.up
  <1>5. down \in Seq(Frames) /\ up \in Seq(Frames)
    BY <1>1
  <1> HIDE DEF down, up
  <1>6. \A dull : Without(down \o d, dull) = Without(down, dull) \o Without(d, dull)
    BY ONLY <1>5, d \in Seq(Frames), WithoutConcat, SMTT(60)
  <1>7. \A dull : Without(up \o u, dull) = Without(up, dull) \o Without(u, dull)
    BY ONLY <1>5, u \in Seq(Frames), WithoutConcat, SMTT(60)
  <1>2. Without(s.down \o d, {EmptyText})
          = Without(s.down, {EmptyText}) \o Without(d, {EmptyText})
    BY <1>6 DEF down
  <1>3. Without(s.up \o u, {Error}) = Without(s.up, {Error}) \o Without(u, {Error})
    BY <1>7 DEF up
  <1>4. HasError(s.up \o u) <=> HasError(s.up) \/ HasError(u)
    BY <1>1, ErrorsJoined
  <1> QED
    BY <1>2, <1>3, <1>4 DEF Pushed, Shown, Raised, Reported

\* Texts without anything dull stay as they are.
LEMMA KeptOne ==
  ASSUME NEW S, NEW a \in S, NEW dull, a \notin dull
  PROVE  Without(<<a>>, dull) = <<a>>
  BY WithoutOne DEF Piece

LEMMA KeptTwo ==
  ASSUME NEW S, NEW a \in S, NEW b \in S, NEW dull, a \notin dull, b \notin dull
  PROVE  Without(<<a, b>>, dull) = <<a, b>>
  <1> DEFINE p == <<a>>
             q == <<b>>
  <1>1. p \in Seq(S) /\ q \in Seq(S)
    OBVIOUS
  <1>2. Without(p, dull) = p /\ Without(q, dull) = q
    BY KeptOne
  <1>3. <<a, b>> = p \o q
    BY TwoJoined
  <1> HIDE DEF p, q
  <1>4. Without(p \o q, dull) = Without(p, dull) \o Without(q, dull)
    BY <1>1, WithoutConcat
  <1> QED
    BY <1>2, <1>3, <1>4

LEMMA OpeningKept ==
  /\ Without(Opening, {EmptyText}) = Opening
  /\ \A u \in {"none", "few", "many"} : Without(Closing(u), {EmptyText}) = Closing(u)
  /\ Without(<<Error>>, {Error}) = <<>> /\ HasError(<<Error>>)
  <1>1. Without(Opening, {EmptyText}) = Opening
    <2>1. Frame("start", "none") \notin {EmptyText}
      BY DEF Frame, EmptyText
    <2> QED
      BY <2>1, KeptOne, OpeningFrames DEF Opening
  <1>2. ASSUME NEW u \in {"none", "few", "many"}
        PROVE  Without(Closing(u), {EmptyText}) = Closing(u)
    <2>1. Frame("usage", u) \notin {EmptyText} /\ Frame("end", "none") \notin {EmptyText}
      BY DEF Frame, EmptyText
    <2>2. Frame("usage", u) \in Frames /\ Frame("end", "none") \in Frames
      BY OpeningFrames
    <2> QED
      BY <2>1, <2>2, KeptTwo DEF Closing
  <1>3. Without(<<Error>>, {Error}) = <<>>
    BY WithoutOne, OpeningFrames DEF Piece
  <1>4. HasError(<<Error>>)
    <2>1. 1 \in DOMAIN <<Error>> /\ <<Error>>[1] = Error
      OBVIOUS
    <2> QED
      BY <2>1 DEF HasError
  <1> QED
    BY <1>1, <1>2, <1>3, <1>4

\* The frames of an operation are shown as they are.
LEMMA OpFramesKept ==
  ASSUME NEW o \in Ops
  PROVE  /\ Without(EventFrames(o), {EmptyText}) = EventFrames(o)
         /\ Without(EventFrames(o), {Error}) = EventFrames(o)
         /\ ~HasError(EventFrames(o))
  <1> DEFINE fs == EventFrames(o)
  <1>1. CASE fs = <<>>
    <2>1. fs = <<>> /\ DOMAIN fs = {}
      BY <1>1
    <2> HIDE DEF fs
    <2>2. Without(fs, {EmptyText}) = fs /\ Without(fs, {Error}) = fs /\ ~HasError(fs)
      BY <2>1, WithoutNothing DEF HasError
    <2> QED
      BY <2>2 DEF fs
  <1>2. ASSUME NEW a \in Frames, fs = <<a>>, a.frame \in {"text", "result"}, a # EmptyText
        PROVE  Without(fs, {EmptyText}) = fs /\ Without(fs, {Error}) = fs /\ ~HasError(fs)
    <2>1. a # Error
      BY <1>2 DEF Error, Frame
    <2>2. fs = <<a>> /\ DOMAIN fs = {1} /\ fs[1] = a
      BY <1>2
    <2> HIDE DEF fs
    <2> QED
      BY <1>2, <2>1, <2>2, KeptOne DEF HasError
  <1>3. ASSUME NEW a \in Frames, NEW b \in Frames, fs = <<a, b>>,
               a.frame = "calls_started", b.frame = "in_progress"
        PROVE  Without(fs, {EmptyText}) = fs /\ Without(fs, {Error}) = fs /\ ~HasError(fs)
    <2>1. a # Error /\ b # Error /\ a # EmptyText /\ b # EmptyText
      BY <1>3 DEF Error, EmptyText, Frame
    <2>2. fs = <<a, b>> /\ DOMAIN fs = {1, 2} /\ fs[1] = a /\ fs[2] = b
      BY <1>3
    <2> HIDE DEF fs
    <2>3. Without(<<a, b>>, {EmptyText}) = <<a, b>> /\ Without(<<a, b>>, {Error}) = <<a, b>>
      BY <2>1, KeptTwo
    <2> QED
      BY <2>1, <2>2, <2>3 DEF HasError
  <1>4. /\ Frame("text", "some") \in Frames
        /\ \A b \in {"empty", "some"} :
             Frame("result", b) \in Frames /\ Frame("calls_started", b) \in Frames
        /\ \A c \in {"none", "some"} : Frame("in_progress", c) \in Frames
    BY DEF Frames
  <1>5. /\ \A f, b : Frame(f, b).frame = f
        /\ Frame("text", "some") # EmptyText /\ \A b : Frame("result", b) # EmptyText
    BY DEF Frame, EmptyText
  <1>6. \/ fs = <<>>
        \/ fs = <<Frame("text", "some")>>
        \/ \E b \in {"empty", "some"} : fs = <<Frame("result", b)>>
        \/ \E b \in {"empty", "some"}, c \in {"none", "some"} :
              fs = <<Frame("calls_started", b), Frame("in_progress", c)>>
    BY OpFrames
  <1> HIDE DEF fs
  <1>7. Without(fs, {EmptyText}) = fs /\ Without(fs, {Error}) = fs /\ ~HasError(fs)
    <2>1. CASE fs = <<Frame("text", "some")>>
      BY <1>2, <1>4, <1>5, <2>1
    <2>2. ASSUME NEW b \in {"empty", "some"}, fs = <<Frame("result", b)>>
          PROVE  Without(fs, {EmptyText}) = fs /\ Without(fs, {Error}) = fs /\ ~HasError(fs)
      BY <1>2, <1>4, <1>5, <2>2
    <2>3. ASSUME NEW b \in {"empty", "some"}, NEW c \in {"none", "some"},
                 fs = <<Frame("calls_started", b), Frame("in_progress", c)>>
          PROVE  Without(fs, {EmptyText}) = fs /\ Without(fs, {Error}) = fs /\ ~HasError(fs)
      BY <1>3, <1>4, <1>5, <2>3
    <2> QED
      BY <1>1, <1>6, <2>1, <2>2, <2>3 DEF fs
  <1> QED
    BY <1>7 DEF fs

-----------------------------------------------------------------------------
(* How a response ends                                                      *)

LEMMA PassedOps ==
  ASSUME NEW ops \in Seq(Ops)
  PROVE  /\ Passed(ops, OpDown) \in Seq(Frames) /\ Passed(ops, OpUp) \in Seq(Frames)
         /\ Passed(ops, OpDelta) \in Seq(Deltas) /\ Passed(ops, OpUsage) \in Seq(Counts)
         /\ Usage(ops) \in {"none", "few", "many"}
  <1>1. /\ Passed(ops, OpDown) \in Seq(Frames) /\ Passed(ops, OpUp) \in Seq(Frames)
        /\ Passed(ops, OpDelta) \in Seq(Deltas) /\ Passed(ops, OpUsage) \in Seq(Counts)
    BY PassedType, OpTexts
  <1>2. Usage(ops) \in {"none", "few", "many"}
    BY <1>1, LatestType DEF Usage
  <1> QED
    BY <1>1, <1>2

LEMMA ServiceStreams ==
  ASSUME NEW s \in Services
  PROVE  /\ s.down \in Seq(Frames) /\ s.up \in Seq(Frames) /\ s.deltas \in Seq(Deltas)
         /\ Shown(s) \in Seq(Frames) /\ Raised(s) \in Seq(Frames)
         /\ Reported(s) \in Seq(Deltas)
  <1>1. s.down \in Seq(Frames) /\ s.up \in Seq(Frames) /\ s.deltas \in Seq(Deltas)
    BY DEF Services, Deltas
  <1> QED
    BY <1>1, WithoutType DEF Shown, Raised, Reported

LEMMA OpenedHolds ==
  ASSUME NEW s \in Services, NEW ops \in Seq(Ops), Holds(s, ops), s.started \/ ops = <<>>
  PROVE  /\ Opened(s) \in Services /\ Opened(s).started = TRUE
         /\ Opened(s).over = s.over
         /\ Holds(Opened(s), ops)
         /\ HasError(Opened(s).up) <=> HasError(s.up)
  <1> DEFINE o == Opened(s)
             d == IF s.started THEN <<>> ELSE Opening
  <1>1. o.started = TRUE /\ Pushed(s, o, d, <<>>)
    BY OpenedPushes
  <1>2. d \in Seq(Frames) /\ <<>> \in Seq(Frames)
    BY OpeningFrames
  <1>3. ~HasError(<<>>)
    BY DEF HasError
  <1> HIDE DEF o
  <1>4. Without(d, {EmptyText}) = d
    BY OpeningKept, WithoutNothing
  <1> HIDE DEF d
  <1>5. /\ Shown(o) = Shown(s) \o d /\ Raised(o) = Raised(s) \o <<>>
        /\ Reported(o) = Reported(s) /\ (HasError(o.up) <=> HasError(s.up))
    BY <1>1, <1>2, <1>3, <1>4, PushedStreams, WithoutNothing, ZenonT(60)
  <1>6. Raised(o) = Raised(s)
    BY <1>5, ServiceStreams
  <1>7. Shown(o) = Opening \o Passed(ops, OpDown)
    <2>1. CASE s.started
      <3>1. Shown(s) \o <<>> = Shown(s)
        BY ServiceStreams
      <3> QED
        BY <1>5, <2>1, <3>1 DEF d, Holds, Opens
    <2>2. CASE ~s.started
      <3>1. Passed(ops, OpDown) = <<>>
        BY <2>2, PassedNothing
      <3>2. Shown(s) = <<>>
        <4>1. <<>> \o <<>> = <<>>
          OBVIOUS
        <4> QED
          BY <2>2, <3>1, <4>1 DEF Holds, Opens
      <3>3. <<>> \o Opening = Opening /\ Opening \o <<>> = Opening
        BY OpeningFrames
      <3> QED
        BY <1>5, <2>2, <3>1, <3>2, <3>3 DEF d
    <2> QED
      BY <2>1, <2>2
  <1>8. o.usage = s.usage /\ o \in Services /\ o.over = s.over
    BY <1>1 DEF Pushed
  <1>9. Holds(o, ops)
    BY <1>1, <1>5, <1>6, <1>7, <1>8 DEF Holds, Opens
  <1> QED
    BY <1>1, <1>5, <1>8, <1>9 DEF o

\* The finally block of a service that has done what ops come to.
LEMMA ClosedHolds ==
  ASSUME NEW s \in Services, NEW ops \in Seq(Ops), Holds(s, ops), s.started \/ ops = <<>>
  PROVE  /\ Closed(s) \in Services /\ Closed(s).over = TRUE
         /\ Substance(Closed(s)) = Finished(ops, HasError(s.up))
         /\ HasError(Closed(s).up) <=> HasError(s.up)
  <1> DEFINE o == Opened(s)
             c == Closing(s.usage)
             p == Push(o, c, Down)
             r == Closed(s)
  <1>1. /\ o \in Services /\ o.started = TRUE /\ Holds(o, ops)
        /\ HasError(o.up) <=> HasError(s.up)
    BY OpenedHolds
  <1>2. s.usage = Usage(ops) /\ s.usage \in {"none", "few", "many"}
    BY DEF Holds, Services
  <1>3. c \in Seq(Frames) /\ <<>> \in Seq(Frames) /\ Without(c, {EmptyText}) = c
    BY <1>2, OpeningFrames, OpeningKept
  <1>4. r = [p EXCEPT !.over = TRUE]
    BY DEF Closed, Closing
  <1> HIDE DEF o, c, r
  <1>5. Pushed(o, p, c, <<>>)
    <2>1. "down" \in Down /\ "up" \notin Down /\ Down \in SUBSET {"down", "up"}
      BY DEF Down
    <2>2. Pushed(o, p, IF "down" \in Down THEN c ELSE <<>>,
                       IF "up" \in Down THEN c ELSE <<>>)
      BY <1>1, <1>3, <2>1, PushPushes
    <2> QED
      BY <2>1, <2>2
  <1> HIDE DEF p
  <1>6. ~HasError(<<>>)
    BY DEF HasError
  <1>7. /\ Shown(p) = Shown(o) \o c /\ Raised(p) = Raised(o) \o <<>>
        /\ Reported(p) = Reported(o) /\ (HasError(p.up) <=> HasError(s.up))
    <2>1. /\ Shown(p) = Shown(o) \o Without(c, {EmptyText})
          /\ Raised(p) = Raised(o) \o Without(<<>>, {Error})
          /\ Reported(p) = Reported(o)
          /\ HasError(p.up) <=> HasError(o.up) \/ HasError(<<>>)
      BY <1>1, <1>3, <1>5, PushedStreams
    <2>2. Without(<<>>, {Error}) = <<>>
      BY WithoutNothing
    <2> QED
      BY <1>1, <1>3, <1>6, <2>1, <2>2
  <1>8. p \in Services
    BY <1>5 DEF Pushed
  <1>9. /\ r \in Services /\ r.over = TRUE /\ r.down = p.down /\ r.up = p.up
        /\ r.deltas = p.deltas
    BY <1>4, <1>8 DEF Services
  <1>10. Raised(p) = Raised(o)
    BY <1>1, <1>7, ServiceStreams
  <1>11. Without(r.down, {EmptyText}) = (Opening \o Passed(ops, OpDown)) \o Closing(Usage(ops))
    BY <1>1, <1>2, <1>7, <1>9 DEF Holds, Opens, Shown, c
  <1>12. /\ Without(r.up, {Error}) = Passed(ops, OpUp)
         /\ Without(r.deltas, {"empty"}) = Passed(ops, OpDelta)
    BY <1>1, <1>7, <1>9, <1>10 DEF Holds, Raised, Reported
  <1>13. HasError(r.up) <=> HasError(s.up)
    BY <1>7, <1>9
  <1>14. ErrorOnce(r.up) = Passed(ops, OpUp) \o (IF HasError(s.up) THEN <<Error>> ELSE <<>>)
    BY <1>12, <1>13, Zenon DEF ErrorOnce
  <1>15. Substance(r) = Finished(ops, HasError(s.up))
    BY <1>11, <1>12, <1>14 DEF Substance, Finished, EmptyText
  <1> QED
    BY <1>9, <1>13, <1>15 DEF r

\* push_error, then the finally block.
LEMMA FailedHolds ==
  ASSUME NEW s \in Services, NEW ops \in Seq(Ops), Holds(s, ops), s.started \/ ops = <<>>
  PROVE  /\ Failed(s) \in Services /\ Failed(s).over = TRUE
         /\ Substance(Failed(s)) = Finished(ops, TRUE)
         /\ HasError(Failed(s).up)
  <1> DEFINE e == <<Error>>
             q == Push(s, e, {"up"})
  <1>1. e \in Seq(Frames) /\ <<>> \in Seq(Frames)
    BY OpeningFrames
  <1>2. Failed(s) = Closed(q)
    BY DEF Failed, Error
  <1>3. Without(e, {Error}) = <<>> /\ HasError(e)
    BY OpeningKept
  <1> HIDE DEF e
  <1>4. q.started = s.started /\ Pushed(s, q, <<>>, e)
    <2>1. "down" \notin {"up"} /\ "up" \in {"up"} /\ {"up"} \in SUBSET {"down", "up"}
      OBVIOUS
    <2>2. /\ q.started = s.started
          /\ Pushed(s, q, IF "down" \in {"up"} THEN e ELSE <<>>,
                          IF "up" \in {"up"} THEN e ELSE <<>>)
      BY <1>1, <2>1, PushPushes
    <2> QED
      BY <2>1, <2>2
  <1> HIDE DEF q
  <1>5. /\ Shown(q) = Shown(s) \o <<>> /\ Raised(q) = Raised(s) \o <<>>
        /\ Reported(q) = Reported(s) /\ HasError(q.up)
    <2>1. /\ Shown(q) = Shown(s) \o Without(<<>>, {EmptyText})
          /\ Raised(q) = Raised(s) \o Without(e, {Error})
          /\ Reported(q) = Reported(s)
          /\ HasError(q.up) <=> HasError(s.up) \/ HasError(e)
      BY <1>1, <1>4, PushedStreams
    <2>2. Without(<<>>, {EmptyText}) = <<>>
      BY WithoutNothing
    <2> QED
      BY <1>3, <2>1, <2>2
  <1>6. Shown(q) = Shown(s) /\ Raised(q) = Raised(s)
    BY <1>5, ServiceStreams
  <1>7. q \in Services /\ q.usage = s.usage
    BY <1>4 DEF Pushed
  <1>8. Holds(q, ops)
    BY <1>4, <1>5, <1>6, <1>7 DEF Holds
  <1>9. q.started \/ ops = <<>>
    BY <1>4
  <1>10. /\ Closed(q) \in Services /\ Closed(q).over = TRUE
         /\ Substance(Closed(q)) = Finished(ops, HasError(q.up))
         /\ HasError(Closed(q).up)
    BY <1>5, <1>7, <1>8, <1>9, ClosedHolds
  <1>11. Finished(ops, HasError(q.up)) = Finished(ops, TRUE)
    BY <1>5 DEF Finished
  <1> QED
    BY <1>2, <1>10, <1>11

\* What a part of the script comes to, when nothing after it counts.
LEMMA FinishedIs ==
  ASSUME NEW t \in Seq(Ops), NEW k \in 0 .. Len(t),
         k = Len(t) \/ ~HaveIds(SubSeq(t, 1, k))
  PROVE  /\ \A failed : Finished(SubSeq(t, 1, k), failed) = Finished(t, failed)
         /\ HaveIds(SubSeq(t, 1, k)) <=> HaveIds(t)
  <1> DEFINE a == SubSeq(t, 1, k)
  <1>1. /\ HaveIds(a) <=> HaveIds(t)
        /\ Passed(a, OpDown) = Passed(t, OpDown) /\ Passed(a, OpUp) = Passed(t, OpUp)
        /\ Passed(a, OpDelta) = Passed(t, OpDelta) /\ Passed(a, OpUsage) = Passed(t, OpUsage)
    BY PassedInTwo, OpTexts
  <1> HIDE DEF a
  <1>2. \A failed : Finished(a, failed) = Finished(t, failed)
    BY <1>1 DEF Finished, Usage
  <1> QED
    BY <1>1, <1>2 DEF a

-----------------------------------------------------------------------------
(* What a service does in the middle of a response                          *)

\* From s to r the service shows d, raises u, reports ds and takes in the counts us.
Does(s, r, d, u, ds, us) ==
  /\ r \in Services /\ r.started = TRUE /\ r.over = s.over
  /\ Shown(r) = Shown(s) \o d /\ Raised(r) = Raised(s) \o u
  /\ Reported(r) = Reported(s) \o ds
  /\ r.usage = Latest(s.usage, us)
  /\ HasError(r.up) <=> HasError(s.up)

LEMMA PushDoes ==
  ASSUME NEW s \in Services, s.started = TRUE, NEW fs \in Seq(Frames),
         NEW ds \in SUBSET {"down", "up"}, ~HasError(fs)
  PROVE  Does(s, Push(s, fs, ds),
              IF "down" \in ds THEN Without(fs, {EmptyText}) ELSE <<>>,
              IF "up" \in ds THEN Without(fs, {Error}) ELSE <<>>, <<>>, <<>>)
  <1> DEFINE d == IF "down" \in ds THEN fs ELSE <<>>
             u == IF "up" \in ds THEN fs ELSE <<>>
             r == Push(s, fs, ds)
  <1>1. d \in Seq(Frames) /\ u \in Seq(Frames)
    OBVIOUS
  <1>2. r.started = TRUE /\ Pushed(s, r, d, u)
    BY PushPushes
  <1>3. ~HasError(u)
    BY DEF HasError
  <1>4. /\ Without(d, {EmptyText}) = IF "down" \in ds THEN Without(fs, {EmptyText}) ELSE <<>>
        /\ Without(u, {Error}) = IF "up" \in ds THEN Without(fs, {Error}) ELSE <<>>
    BY WithoutNothing
  <1> HIDE DEF d, u, r
  <1>5. /\ Shown(r) = Shown(s) \o Without(d, {EmptyText})
        /\ Raised(r) = Raised(s) \o Without(u, {Error})
        /\ Reported(r) = Reported(s) /\ (HasError(r.up) <=> HasError(s.up))
    BY <1>1, <1>2, <1>3, PushedStreams
  <1>6. /\ r \in Services /\ r.over = s.over /\ r.usage = s.usage
    BY <1>2 DEF Pushed
  <1>7. Reported(r) = Reported(s) \o <<>>
    BY <1>5, ServiceStreams
  <1>8. Latest(s.usage, <<>>) = s.usage
    BY DEF Latest
  <1> QED
    BY <1>2, <1>4, <1>5, <1>6, <1>7, <1>8 DEF Does, r

LEMMA DeltaDoes ==
  ASSUME NEW s \in Services, s.started = TRUE, NEW d \in Deltas
  PROVE  Does(s, [s EXCEPT !.deltas = Append(@, d)],
              <<>>, <<>>, IF d = "some" THEN <<"some">> ELSE <<>>, <<>>)
  <1> DEFINE q == s.deltas
             r == [s EXCEPT !.deltas = Append(q, d)]
             p == <<d>>
  <1>1. q \in Seq(Deltas) /\ p \in Seq(Deltas)
    BY ServiceStreams
  <1>2. Append(q, d) = q \o p /\ Append(q, d) \in Seq(Deltas)
    BY <1>1
  <1>3. /\ r \in Services /\ r.started = TRUE /\ r.over = s.over /\ r.usage = s.usage
        /\ r.down = s.down /\ r.up = s.up /\ r.deltas = Append(q, d)
    BY <1>2 DEF Services, Deltas
  <1>4. Without(p, {"empty"}) = IF d = "some" THEN <<"some">> ELSE <<>>
    <2>1. Without(p, {"empty"}) = Piece(d, {"empty"})
      BY WithoutOne
    <2> QED
      BY <2>1 DEF Piece, Deltas
  <1> HIDE DEF q, p
  <1>5. Without(q \o p, {"empty"}) = Without(q, {"empty"}) \o Without(p, {"empty"})
    BY <1>1, WithoutConcat
  <1>6. Reported(r) = Reported(s) \o (IF d = "some" THEN <<"some">> ELSE <<>>)
    BY <1>2, <1>3, <1>4, <1>5 DEF Reported, q
  <1>7. /\ Shown(r) = Shown(s) /\ Raised(r) = Raised(s)
        /\ HasError(r.up) <=> HasError(s.up)
    BY <1>3 DEF Shown, Raised
  <1>8. Shown(s) \o <<>> = Shown(s) /\ Raised(s) \o <<>> = Raised(s)
    BY ServiceStreams
  <1>9. Latest(s.usage, <<>>) = s.usage
    BY DEF Latest
  <1>10. [s EXCEPT !.deltas = Append(@, d)] = r
    BY DEF q
  <1> HIDE DEF r
  <1> QED
    BY <1>3, <1>6, <1>7, <1>8, <1>9, <1>10 DEF Does

LEMMA UsageDoes ==
  ASSUME NEW s \in Services, s.started = TRUE, NEW us \in Seq(Counts),
         NEW u \in {"none", "few", "many"}, u = Latest(s.usage, us)
  PROVE  Does(s, [s EXCEPT !.usage = u], <<>>, <<>>, <<>>, us)
  <1> DEFINE r == [s EXCEPT !.usage = u]
  <1>1. /\ r \in Services /\ r.started = TRUE /\ r.over = s.over /\ r.usage = u
        /\ r.down = s.down /\ r.up = s.up /\ r.deltas = s.deltas
    BY DEF Services
  <1> HIDE DEF r
  <1>2. /\ Shown(r) = Shown(s) /\ Raised(r) = Raised(s) /\ Reported(r) = Reported(s)
        /\ HasError(r.up) <=> HasError(s.up)
    BY <1>1 DEF Shown, Raised, Reported
  <1>3. /\ Shown(s) \o <<>> = Shown(s) /\ Raised(s) \o <<>> = Raised(s)
        /\ Reported(s) \o <<>> = Reported(s)
    BY ServiceStreams
  <1>4. Does(s, r, <<>>, <<>>, <<>>, us)
    BY <1>1, <1>2, <1>3 DEF Does
  <1> QED
    BY <1>4 DEF r

\* A service that does what one more operation comes to.
LEMMA DoesStand ==
  ASSUME NEW s \in Services, s.started = TRUE, NEW ops \in Seq(Ops), Stands(s, ops),
         HaveIds(ops), NEW o \in Ops, o.id, NEW r,
         Does(s, r, OpDown[o], OpUp[o], OpDelta[o], OpUsage[o])
  PROVE  Stands(r, ops \o <<o>>)
  <1> DEFINE c == ops \o <<o>>
  <1>1. ASSUME NEW S, NEW g \in Texts(Ops, S)
        PROVE  Passed(c, g) = Passed(ops, g) \o g[o]
    <2>1. Grows(S, Ops, g, ops, o, c)
      BY <1>1 DEF Grows
    <2> HIDE DEF c
    <2>2. Passed(c, g) = Passed(ops, g) \o Gain(ops, o, g)
      BY ONLY <2>1, PassedMore, SMTT(60)
    <2> QED
      BY <2>2 DEF Gain
  <1>2. /\ OpDown[o] \in Seq(Frames) /\ OpUp[o] \in Seq(Frames)
        /\ OpDelta[o] \in Seq(Deltas) /\ OpUsage[o] \in Seq(Counts)
    BY OpTexts DEF Texts
  <1> HIDE DEF c
  <1>3. /\ Passed(c, OpDown) = Passed(ops, OpDown) \o OpDown[o]
        /\ Passed(c, OpUp) = Passed(ops, OpUp) \o OpUp[o]
        /\ Passed(c, OpDelta) = Passed(ops, OpDelta) \o OpDelta[o]
        /\ Passed(c, OpUsage) = Passed(ops, OpUsage) \o OpUsage[o]
    BY <1>1, OpTexts
  <1>4. r.started = TRUE /\ ~HasError(r.up)
    BY DEF Does, Stands
  <1>5. Shown(r) = Opening \o Passed(c, OpDown)
    <2>1. Shown(r) = (Opening \o Passed(ops, OpDown)) \o OpDown[o]
      BY DEF Does, Stands, Holds, Opens
    <2> DEFINE p == Opening
               q == Passed(ops, OpDown)
               t == OpDown[o]
    <2>2. p \in Seq(Frames) /\ q \in Seq(Frames) /\ t \in Seq(Frames)
      BY <1>2, OpeningFrames, PassedOps
    <2> HIDE DEF p, q, t
    <2>3. (p \o q) \o t = p \o (q \o t)
      BY ONLY <2>2, SMTT(60)
    <2> QED
      BY <1>3, <2>1, <2>3 DEF p, q, t
  <1>6. Raised(r) = Passed(c, OpUp) /\ Reported(r) = Passed(c, OpDelta)
    BY <1>3 DEF Does, Stands, Holds
  <1>7. r.usage = Usage(c)
    <2>1. Passed(ops, OpUsage) \in Seq(Counts)
      BY PassedOps
    <2>2. Latest("none", Passed(ops, OpUsage) \o OpUsage[o])
            = Latest(Latest("none", Passed(ops, OpUsage)), OpUsage[o])
      BY <1>2, <2>1, LatestJoined
    <2> QED
      BY <1>3, <2>2 DEF Does, Stands, Holds, Usage
  <1> QED
    BY <1>4, <1>5, <1>6, <1>7 DEF Stands, Holds, Opens, c

-----------------------------------------------------------------------------
(* AdkLLMService                                                            *)

LEMMA ServicesOK ==
  ASSUME NEW s \in Services
  PROVE  ServiceOK(s)
  BY DEF Services, ServiceOK

\* The steps of AdkLLMService leave the bridge and the other service alone.
LEMMA AdkLeavesRemote ==
  ASSUME RemoteInv, UNCHANGED <<agent, bridge, wire, remote>>
  PROVE  RemoteInv'
  BY DEF RemoteInv, BridgeInv, First, agent, bridge

LEMMA AdkTypes ==
  ASSUME Typed, UNCHANGED <<agent, bridge, wire, remote>>,
         adk' \in Services, adkAt' \in 0 .. Len(script)
  PROVE  Typed'
  <1>1. ServiceOK(adk')
    BY ServicesOK
  <1> QED
    BY <1>1 DEF Typed, TypeOK, agent, bridge

\* AdkInv when the run goes on, and when it is over.
LEMMA AdkGoesOn ==
  ASSUME script' = script, fails' = fails, adk'.over = FALSE, adk'.started = TRUE,
         NEW ops, SubSeq(script, 1, adkAt') = ops, HaveIds(ops), Stands(adk', ops),
         adkAt' # 0
  PROVE  AdkInv'
  <1>1. /\ HaveIds(SubSeq(script', 1, adkAt')) /\ Stands(adk', SubSeq(script', 1, adkAt'))
    OBVIOUS
  <1> QED
    BY <1>1 DEF AdkInv, First

LEMMA AdkIsOver ==
  ASSUME script' = script, fails' = fails, adk'.over = TRUE,
         Substance(adk') = Whole(script, fails)
  PROVE  AdkInv'
  BY DEF AdkInv

\* What holds when the runner yields its next event.
LEMMA AdkEvent ==
  ASSUME Typed, AdkInv, NEW kinds, NextEvent(kinds), NEW o, o = script[adkAt'],
         NEW s, s = Opened(adk)
  PROVE  /\ o \in Ops /\ o.op \in kinds
         /\ s \in Services /\ s.started = TRUE /\ s.over = FALSE
         /\ First(adkAt) \in Seq(Ops) /\ HaveIds(First(adkAt)) /\ Stands(s, First(adkAt))
         /\ SubSeq(script, 1, adkAt') = First(adkAt) \o <<o>>
         /\ HaveIds(SubSeq(script, 1, adkAt')) <=> o.id
         /\ adkAt' \in 0 .. Len(script) /\ adkAt' # 0
         /\ UNCHANGED <<agent, bridge, wire, remote>> /\ script' = script /\ fails' = fails
  <1>1. /\ script \in Seq(Ops) /\ adkAt \in 0 .. Len(script) - 1 /\ adkAt' = adkAt + 1
        /\ adk \in Services /\ adk.over = FALSE /\ o.op \in kinds
        /\ adkAt' \in 0 .. Len(script) /\ adkAt' # 0
        /\ UNCHANGED <<agent, bridge, wire, remote>> /\ script' = script /\ fails' = fails
    BY DEF Typed, TypeOK, NextEvent, Services, agent
  <1>2. /\ First(adkAt) \in Seq(Ops) /\ o \in Ops
        /\ SubSeq(script, 1, adkAt') = First(adkAt) \o <<o>>
        /\ HaveIds(SubSeq(script, 1, adkAt')) <=> HaveIds(First(adkAt)) /\ o.id
    BY <1>1, OneMore DEF First
  <1>3. /\ HaveIds(First(adkAt)) /\ Stands(adk, First(adkAt))
        /\ adk.started <=> adkAt # 0
    BY <1>1 DEF AdkInv
  <1>4. adk.started \/ First(adkAt) = <<>>
    BY <1>1, <1>3 DEF First
  <1>5. /\ s \in Services /\ s.started = TRUE /\ s.over = adk.over
        /\ Holds(s, First(adkAt)) /\ (HasError(s.up) <=> HasError(adk.up))
    BY <1>1, <1>2, <1>3, <1>4, OpenedHolds DEF Stands
  <1>6. Stands(s, First(adkAt))
    BY <1>3, <1>5 DEF Stands
  <1> QED
    BY <1>1, <1>2, <1>3, <1>5, <1>6

LEMMA AdkDoes ==
  ASSUME ParityInv, NEW kinds, NextEvent(kinds), NEW o, o = script[adkAt'], o.id,
         NEW s, s = Opened(adk), NEW r, adk' = r,
         Does(s, r, OpDown[o], OpUp[o], OpDelta[o], OpUsage[o])
  PROVE  ParityInv'
  <1>1. Typed /\ AdkInv /\ RemoteInv
    BY DEF ParityInv
  <1>2. /\ o \in Ops /\ s \in Services /\ s.started = TRUE /\ s.over = FALSE
        /\ First(adkAt) \in Seq(Ops) /\ HaveIds(First(adkAt)) /\ Stands(s, First(adkAt))
        /\ SubSeq(script, 1, adkAt') = First(adkAt) \o <<o>>
        /\ HaveIds(SubSeq(script, 1, adkAt'))
        /\ adkAt' \in 0 .. Len(script) /\ adkAt' # 0
        /\ UNCHANGED <<agent, bridge, wire, remote>> /\ script' = script /\ fails' = fails
    BY <1>1, AdkEvent
  <1>3. Stands(r, First(adkAt) \o <<o>>)
    BY <1>2, DoesStand
  <1>4. r \in Services /\ r.started = TRUE /\ r.over = FALSE
    BY <1>2 DEF Does
  <1>5. AdkInv'
    BY <1>2, <1>3, <1>4, AdkGoesOn
  <1>6. Typed'
    BY <1>1, <1>2, <1>4, AdkTypes
  <1> QED
    BY <1>1, <1>2, <1>5, <1>6, AdkLeavesRemote DEF ParityInv

LEMMA AdkTextStep ==
  ASSUME ParityInv, AdkText
  PROVE  ParityInv'
  <1> DEFINE o == script[adkAt']
             s == Opened(adk)
             fs == EventFrames(o)
             r == Push(s, fs, Down)
  <1>1. NextEvent({"text"}) /\ adk' = r
    BY DEF AdkText
  <1>2. o \in Ops /\ o.op = "text" /\ s \in Services /\ s.started = TRUE
    <2>1. o = script[adkAt'] /\ s = Opened(adk) /\ Typed /\ AdkInv
      BY DEF ParityInv
    <2> HIDE DEF o, s
    <2>2. o.op \in {"text"}
      BY <1>1, <2>1, AdkEvent
    <2> QED
      BY <1>1, <2>1, <2>2, AdkEvent
  <1>3. o.id
    BY <1>2 DEF Ops, Op
  <1>4. /\ fs \in Seq(Frames) /\ Without(fs, {EmptyText}) = fs /\ ~HasError(fs)
    BY <1>2, OpFrames, OpFramesKept
  <1>5. /\ OpDown[o] = fs /\ OpUp[o] = <<>> /\ OpDelta[o] = <<>> /\ OpUsage[o] = <<>>
    BY <1>2 DEF OpDown, OpUp, OpDelta, OpUsage
  <1> HIDE DEF o, s, fs
  <1>6. "down" \in Down /\ "up" \notin Down /\ Down \in SUBSET {"down", "up"}
    BY DEF Down
  <1>7. Does(s, r, IF "down" \in Down THEN Without(fs, {EmptyText}) ELSE <<>>,
             IF "up" \in Down THEN Without(fs, {Error}) ELSE <<>>, <<>>, <<>>)
    BY <1>2, <1>4, <1>6, PushDoes
  <1>8. Does(s, r, OpDown[o], OpUp[o], OpDelta[o], OpUsage[o])
    BY <1>4, <1>5, <1>6, <1>7
  <1> HIDE DEF r
  <1> QED
    BY <1>1, <1>3, <1>8, AdkDoes DEF o, s

LEMMA AdkToolStep ==
  ASSUME ParityInv, AdkTool
  PROVE  ParityInv'
  <1> DEFINE o == script[adkAt']
             s == Opened(adk)
             fs == EventFrames(o)
             r == Push(s, fs, Both)
  <1>1. NextEvent({"call", "result"}) /\ adk' = IF o.id THEN r ELSE Failed(s)
    BY DEF AdkTool
  <1>2. /\ o \in Ops /\ o.op \in {"call", "result"} /\ s \in Services /\ s.started = TRUE
        /\ First(adkAt) \in Seq(Ops) /\ HaveIds(First(adkAt)) /\ Stands(s, First(adkAt))
        /\ SubSeq(script, 1, adkAt') = First(adkAt) \o <<o>>
        /\ HaveIds(SubSeq(script, 1, adkAt')) <=> o.id
        /\ adkAt' \in 0 .. Len(script) /\ adkAt' # 0
        /\ UNCHANGED <<agent, bridge, wire, remote>> /\ script' = script /\ fails' = fails
    BY <1>1, AdkEvent DEF ParityInv
  <1>3. /\ fs \in Seq(Frames) /\ Without(fs, {EmptyText}) = fs /\ ~HasError(fs)
        /\ Without(fs, {Error}) = fs
    BY <1>2, OpFrames, OpFramesKept
  <1>4. /\ OpDown[o] = fs /\ OpUp[o] = fs /\ OpDelta[o] = <<>> /\ OpUsage[o] = <<>>
    BY <1>2 DEF OpDown, OpUp, OpDelta, OpUsage
  <1>5. CASE o.id
    <2> HIDE DEF o, s, fs
    <2>1. "down" \in Both /\ "up" \in Both /\ Both \in SUBSET {"down", "up"}
      BY DEF Both
    <2>2. Does(s, r, IF "down" \in Both THEN Without(fs, {EmptyText}) ELSE <<>>,
               IF "up" \in Both THEN Without(fs, {Error}) ELSE <<>>, <<>>, <<>>)
      BY <1>2, <1>3, <2>1, PushDoes
    <2>3. Does(s, r, OpDown[o], OpUp[o], OpDelta[o], OpUsage[o])
      BY <1>3, <1>4, <2>1, <2>2
    <2> HIDE DEF r
    <2>4. adk' = r
      BY <1>1, <1>5
    <2> QED
      BY <1>1, <1>5, <2>3, <2>4, AdkDoes DEF o, s
  <1>6. CASE ~o.id
    <2> DEFINE k == adkAt'
               ops == First(adkAt)
    <2> HIDE DEF o, s
    <2>1. adk' = Failed(s)
      BY <1>1, <1>6
    <2>2. /\ Failed(s) \in Services /\ Failed(s).over = TRUE
          /\ Substance(Failed(s)) = Finished(ops, TRUE)
      BY <1>2, FailedHolds DEF Stands
    <2>3. /\ OpDown \in Texts(Ops, Frames) /\ OpUp \in Texts(Ops, Frames)
          /\ OpDelta \in Texts(Ops, Deltas) /\ OpUsage \in Texts(Ops, Counts)
      BY OpTexts
    <2> HIDE DEF ops
    <2>4. ASSUME NEW S, NEW g \in Texts(Ops, S)
          PROVE  Passed(ops \o <<o>>, g) = Passed(ops, g)
      <3>3. ops \in Seq(Ops) /\ g \in Texts(Ops, S) /\ Grows(S, Ops, g, ops, o, ops \o <<o>>)
        BY <1>2, <2>4 DEF ops, Grows
      <3>4. Passed(ops \o <<o>>, g) = Passed(ops, g) \o Gain(ops, o, g)
        BY <3>3, PassedMore
      <3>1. Passed(ops \o <<o>>, g) = Passed(ops, g) \o <<>>
        BY <1>6, <3>4 DEF Gain
      <3>2. Passed(ops, g) \in Seq(S)
        BY <3>3, PassedType
      <3> QED
        BY <3>1, <3>2
    <2>5. Finished(ops, TRUE) = Finished(ops \o <<o>>, TRUE)
      <3>1. /\ Passed(ops \o <<o>>, OpDown) = Passed(ops, OpDown)
            /\ Passed(ops \o <<o>>, OpUp) = Passed(ops, OpUp)
            /\ Passed(ops \o <<o>>, OpDelta) = Passed(ops, OpDelta)
            /\ Passed(ops \o <<o>>, OpUsage) = Passed(ops, OpUsage)
        BY <2>3, <2>4
      <3> QED
        BY <3>1 DEF Finished, Usage
    <2>6. /\ Finished(SubSeq(script, 1, k), TRUE) = Finished(script, TRUE)
          /\ ~HaveIds(script)
      <3>1. script \in Seq(Ops) /\ k \in 0 .. Len(script) /\ ~HaveIds(SubSeq(script, 1, k))
        BY <1>2, <1>6 DEF ParityInv, Typed
      <3> HIDE DEF k
      <3>2. /\ \A failed : Finished(SubSeq(script, 1, k), failed) = Finished(script, failed)
            /\ HaveIds(SubSeq(script, 1, k)) <=> HaveIds(script)
        BY <3>1, FinishedIs
      <3> QED
        BY <3>1, <3>2, Zenon
    <2>7. Whole(script, fails) = Finished(script, TRUE)
      BY <2>6, Zenon DEF Whole
    <2>8. AdkInv'
      BY <1>2, <2>1, <2>2, <2>5, <2>6, <2>7, AdkIsOver DEF ops
    <2>9. Typed'
      BY <1>2, <2>1, <2>2, AdkTypes DEF ParityInv
    <2> QED
      BY <1>2, <2>8, <2>9, AdkLeavesRemote DEF ParityInv
  <1> QED
    BY <1>5, <1>6

LEMMA AdkStateDeltaStep ==
  ASSUME ParityInv, AdkStateDelta
  PROVE  ParityInv'
  <1> DEFINE o == script[adkAt']
             s == Opened(adk)
             r == [s EXCEPT !.deltas = Append(@, o.body)]
  <1>1. /\ NextEvent({"delta"})
        /\ adk' = [s EXCEPT !.deltas = IF o.body = "empty" THEN @ ELSE Append(@, o.body)]
    BY DEF AdkStateDelta
  <1>2. o \in Ops /\ o.op = "delta" /\ s \in Services /\ s.started = TRUE
    <2>1. o = script[adkAt'] /\ s = Opened(adk) /\ Typed /\ AdkInv
      BY DEF ParityInv
    <2> HIDE DEF o, s
    <2>2. o.op \in {"delta"}
      BY <1>1, <2>1, AdkEvent
    <2> QED
      BY <1>1, <2>1, <2>2, AdkEvent
  <1>3. o.id /\ o.body \in {"empty", "some"}
    BY <1>2 DEF Ops, Op
  <1>4. /\ OpDown[o] = <<>> /\ OpUp[o] = <<>> /\ OpUsage[o] = <<>>
        /\ OpDelta[o] = IF o.body = "some" THEN <<"some">> ELSE <<>>
    BY <1>2 DEF OpDown, OpUp, OpDelta, OpUsage, EventFrames
  <1>5. NextEvent({"delta"}) /\ o = script[adkAt'] /\ s = Opened(adk)
    BY <1>1
  <1> HIDE DEF o, s
  <1>6. CASE o.body = "some"
    <2>1. adk' = r
      BY <1>1, <1>6
    <2>2. Does(s, r, <<>>, <<>>, IF o.body = "some" THEN <<"some">> ELSE <<>>, <<>>)
      BY <1>2, <1>3, DeltaDoes DEF Deltas
    <2> HIDE DEF r
    <2>3. Does(s, r, OpDown[o], OpUp[o], OpDelta[o], OpUsage[o])
      BY <1>4, <1>6, <2>2
    <2> QED
      BY <1>3, <1>5, <2>1, <2>3, AdkDoes
  <1>7. CASE o.body = "empty"
    <2>1. adk' = s
      BY <1>1, <1>2, <1>7 DEF Services
    <2>2. /\ Shown(s) \o <<>> = Shown(s) /\ Raised(s) \o <<>> = Raised(s)
          /\ Reported(s) \o <<>> = Reported(s) /\ Latest(s.usage, <<>>) = s.usage
      BY <1>2, ServiceStreams DEF Latest
    <2>3. Does(s, s, OpDown[o], OpUp[o], OpDelta[o], OpUsage[o])
      BY <1>2, <1>4, <1>7, <2>2 DEF Does
    <2> QED
      BY <1>3, <1>5, <2>1, <2>3, AdkDoes
  <1> QED
    BY <1>3, <1>6, <1>7

LEMMA AdkUsageStep ==
  ASSUME ParityInv, AdkUsage
  PROVE  ParityInv'
  <1> DEFINE o == script[adkAt']
             s == Opened(adk)
             us == <<o.body>>
             r == [s EXCEPT !.usage = o.body]
  <1>1. NextEvent({"usage"}) /\ adk' = r
    BY DEF AdkUsage
  <1>2. o \in Ops /\ o.op = "usage" /\ s \in Services /\ s.started = TRUE
    <2>1. o = script[adkAt'] /\ s = Opened(adk) /\ Typed /\ AdkInv
      BY DEF ParityInv
    <2> HIDE DEF o, s
    <2>2. o.op \in {"usage"}
      BY <1>1, <2>1, AdkEvent
    <2> QED
      BY <1>1, <2>1, <2>2, AdkEvent
  <1>3. o.id /\ o.body \in {"few", "many"}
    BY <1>2 DEF Ops, Op
  <1>4. OpDown[o] = <<>> /\ OpUp[o] = <<>> /\ OpDelta[o] = <<>> /\ OpUsage[o] = us
    BY <1>2 DEF OpDown, OpUp, OpDelta, OpUsage, EventFrames
  <1>5. NextEvent({"usage"}) /\ o = script[adkAt'] /\ s = Opened(adk)
    BY <1>1
  <1> HIDE DEF o, s
  <1>6. us \in Seq(Counts) /\ Latest(s.usage, us) = o.body
    BY <1>3 DEF Counts, Latest
  <1> HIDE DEF us
  <1>7. Does(s, r, <<>>, <<>>, <<>>, us)
    BY <1>2, <1>3, <1>6, UsageDoes
  <1> HIDE DEF r
  <1>8. Does(s, r, OpDown[o], OpUp[o], OpDelta[o], OpUsage[o])
    BY <1>4, <1>7
  <1> QED
    BY <1>1, <1>3, <1>5, <1>8, AdkDoes

LEMMA AdkReturnsStep ==
  ASSUME ParityInv, AdkReturns
  PROVE  ParityInv'
  <1> DEFINE ops == First(adkAt)
             r == IF fails THEN Failed(adk) ELSE Closed(adk)
  <1>1. /\ script \in Seq(Ops) /\ adkAt = Len(script) /\ adkAt \in 0 .. Len(script)
        /\ adk \in Services /\ adk.over = FALSE /\ fails \in BOOLEAN
        /\ UNCHANGED <<agent, bridge, wire, remote>> /\ adkAt' = adkAt
        /\ script' = script /\ fails' = fails /\ adk' = r
    BY DEF ParityInv, Typed, TypeOK, AdkReturns, Services, agent
  <1>2. /\ HaveIds(ops) /\ Stands(adk, ops) /\ (adk.started <=> adkAt # 0)
    BY <1>1 DEF ParityInv, AdkInv
  <1>3. ops \in Seq(Ops) /\ (adk.started \/ ops = <<>>)
    BY <1>1, <1>2 DEF First
  <1>4. /\ \A failed : Finished(ops, failed) = Finished(script, failed)
        /\ HaveIds(script)
    <2>1. /\ \A failed : Finished(SubSeq(script, 1, adkAt), failed) = Finished(script, failed)
          /\ HaveIds(SubSeq(script, 1, adkAt)) <=> HaveIds(script)
      BY <1>1, FinishedIs
    <2> QED
      BY <1>2, <2>1, Zenon DEF First
  <1> HIDE DEF ops, r
  <1>5. r \in Services /\ r.over = TRUE /\ Substance(r) = Finished(ops, fails)
    <2>1. CASE fails = TRUE
      BY <1>1, <1>2, <1>3, <2>1, FailedHolds DEF Stands, r
    <2>2. CASE fails = FALSE
      <3>1. /\ Closed(adk) \in Services /\ Closed(adk).over = TRUE
            /\ Substance(Closed(adk)) = Finished(ops, HasError(adk.up))
        BY <1>1, <1>2, <1>3, ClosedHolds DEF Stands
      <3>2. Finished(ops, HasError(adk.up)) = Finished(ops, FALSE)
        BY <1>2 DEF Stands, Finished
      <3> QED
        BY <2>2, <3>1, <3>2 DEF r
    <2> QED
      BY <1>1, <2>1, <2>2
  <1>6. Whole(script, fails) = Finished(ops, fails)
    <2>1. Finished(ops, fails) = Finished(script, fails)
      BY <1>4, Zenon
    <2>2. Finished(script, fails \/ ~HaveIds(script)) = Finished(script, fails)
      BY <1>4 DEF Finished
    <2> QED
      BY <2>1, <2>2 DEF Whole
  <1>7. AdkInv'
    BY <1>1, <1>5, <1>6, AdkIsOver
  <1>8. Typed'
    BY <1>1, <1>5, AdkTypes DEF ParityInv
  <1> QED
    BY <1>1, <1>7, <1>8, AdkLeavesRemote DEF ParityInv

-----------------------------------------------------------------------------
(* The wire                                                                 *)

LEMMA HeadAndTail ==
  ASSUME NEW S, NEW w \in Seq(S), w # <<>>
  PROVE  /\ Head(w) \in S /\ Head(w) = w[1] /\ Tail(w) \in Seq(S)
         /\ Len(Tail(w)) = Len(w) - 1 /\ Len(w) \in Nat /\ Len(w) >= 1
         /\ \A i \in 1 .. Len(w) - 1 : Tail(w)[i] = w[i + 1]
         /\ w = <<Head(w)>> \o Tail(w)
  <1> DEFINE p == <<Head(w)>>
             t == Tail(w)
  <1>1. /\ Head(w) \in S /\ Head(w) = w[1] /\ t \in Seq(S)
        /\ Len(t) = Len(w) - 1 /\ Len(w) \in Nat /\ Len(w) >= 1
        /\ \A i \in 1 .. Len(w) - 1 : t[i] = w[i + 1]
    OBVIOUS
  <1>2. p \in Seq(S) /\ Len(p) = 1 /\ p[1] = w[1]
    BY <1>1
  <1> HIDE DEF p, t
  <1>3. p \o t = w
    <2>1. \A i \in 1 .. Len(p) : w[i] = p[i]
      BY <1>2
    <2>2. \A i \in 1 .. Len(t) : w[Len(p) + i] = t[i]
      BY <1>1, <1>2
    <2>3. Len(w) = Len(p) + Len(t)
      BY <1>1, <1>2
    <2> QED
      BY <1>1, <1>2, <2>1, <2>2, <2>3, JoinedIs
  <1> QED
    BY <1>1, <1>3 DEF p, t

LEMMA PassedHead ==
  ASSUME NEW S, NEW T, NEW g \in Texts(T, S), NEW w \in Seq(T), w # <<>>
  PROVE  Passed(w, g) = IF Head(w).id THEN g[Head(w)] \o Passed(Tail(w), g) ELSE <<>>
  <1> DEFINE e == Head(w)
             p == <<e>>
             t == Tail(w)
  <1>1. e \in T /\ t \in Seq(T) /\ w = p \o t
    BY HeadAndTail
  <1>2. p \in Seq(T) /\ (HaveIds(p) <=> e.id)
    <2>1. e \in T
      BY <1>1
    <2> HIDE DEF e
    <2>2. p \in Seq(T) /\ DOMAIN p = {1} /\ p[1] = e
      BY <2>1
    <2> HIDE DEF p
    <2> QED
      BY <2>2 DEF HaveIds
  <1>3. Passed(p, g) = Alone(e, g)
    <2>1. Single(S, T, g, e, p)
      BY <1>1 DEF Single
    <2> HIDE DEF e, p
    <2> QED
      BY <2>1, PassedOne
  <1> HIDE DEF p, t
  <1>4. Passed(p \o t, g) = Passed(p, g) \o (IF HaveIds(p) THEN Passed(t, g) ELSE <<>>)
    BY <1>1, <1>2, PassedConcat
  <1>5. Passed(w, g) = IF e.id THEN g[e] \o Passed(t, g) ELSE <<>>
    <2>1. CASE e.id
      BY <1>1, <1>2, <1>3, <1>4, <2>1 DEF Alone
    <2>2. CASE ~e.id
      <3>1. <<>> \o <<>> = <<>>
        OBVIOUS
      <3> QED
        BY <1>1, <1>2, <1>3, <1>4, <2>2, <3>1 DEF Alone
    <2> QED
      BY <2>1, <2>2
  <1> QED
    BY <1>5 DEF t

LEMMA PassedNone ==
  ASSUME NEW S, NEW T, NEW g \in Texts(T, S), NEW w \in Seq(T), w # <<>>, ~w[1].id
  PROVE  Passed(w, g) = <<>>
  BY PassedHead, HeadAndTail

LEMMA HeadHasId ==
  ASSUME NEW T, NEW w \in Seq(T), w # <<>>
  PROVE  HaveIds(w) <=> Head(w).id /\ HaveIds(Tail(w))
  <1> DEFINE t == Tail(w)
  <1>1. /\ DOMAIN w = 1 .. Len(w) /\ DOMAIN t = 1 .. Len(t) /\ Len(t) = Len(w) - 1
        /\ Len(w) \in Nat /\ Len(w) >= 1 /\ Head(w) = w[1]
        /\ \A i \in 1 .. Len(t) : t[i] = w[i + 1]
    BY HeadAndTail
  <1> HIDE DEF t
  <1>2. \A i \in DOMAIN w : i = 1 \/ i - 1 \in DOMAIN t
    BY <1>1
  <1>3. /\ 1 \in DOMAIN w
        /\ \A i \in DOMAIN t : i + 1 \in DOMAIN w /\ t[i] = w[i + 1]
    BY <1>1
  <1>4. \A i \in DOMAIN w : i - 1 \in DOMAIN t => w[i] = t[i - 1]
    BY <1>1
  <1>5. HaveIds(w) <=> w[1].id /\ HaveIds(t)
    BY <1>2, <1>3, <1>4 DEF HaveIds
  <1> QED
    BY <1>1, <1>5 DEF t

LEMMA JoinedIds ==
  ASSUME NEW T, NEW a \in Seq(T), NEW b \in Seq(T)
  PROVE  HaveIds(a \o b) <=> HaveIds(a) /\ HaveIds(b)
  <1> DEFINE c == a \o b
  <1>1. /\ DOMAIN a = 1 .. Len(a) /\ DOMAIN b = 1 .. Len(b) /\ DOMAIN c = 1 .. Len(a) + Len(b)
        /\ Len(a) \in Nat /\ Len(b) \in Nat
        /\ \A i \in 1 .. Len(a) : c[i] = a[i] /\ i \in DOMAIN c
        /\ \A i \in 1 .. Len(b) : c[Len(a) + i] = b[i] /\ Len(a) + i \in DOMAIN c
        /\ \A i \in 1 .. Len(a) + Len(b) :
             i \in 1 .. Len(a) \/ (i - Len(a) \in 1 .. Len(b) /\ c[i] = b[i - Len(a)])
    OBVIOUS
  <1> HIDE DEF c
  <1>2. HaveIds(c) <=> HaveIds(a) /\ HaveIds(b)
    BY <1>1 DEF HaveIds
  <1> QED
    BY <1>2 DEF c

\* The envelopes of an operation add to each stream what the operation adds, and
\* nothing if it lacks its id.
LEMMA EmittedPasses ==
  ASSUME NEW o \in Ops, NEW es, es = Emitted(o)
  PROVE  /\ es \in Seq(Envelopes) /\ es # <<>> /\ (HaveIds(es) <=> o.id)
         /\ \A i \in DOMAIN es : es[i] \notin {StartEnvelope, EndEnvelope, ErrorEnvelope}
         /\ Passed(es, WireDown) = IF o.id THEN OpDown[o] ELSE <<>>
         /\ Passed(es, WireUp) = IF o.id THEN OpUp[o] ELSE <<>>
         /\ Passed(es, WireDelta) = IF o.id THEN OpDelta[o] ELSE <<>>
         /\ Passed(es, WireUsage) = IF o.id THEN OpUsage[o] ELSE <<>>
  <1>1. EmittedMeans(o, es)
    BY EmittedIs
  <1>2. es \in Seq(Envelopes) /\ es # <<>> /\ \A i \in DOMAIN es : es[i].id = o.id
    BY <1>1 DEF EmittedMeans
  <1>3. 1 \in DOMAIN es /\ es[1].id = o.id
    BY <1>2
  <1>4. HaveIds(es) <=> o.id
    BY <1>2, <1>3 DEF HaveIds
  <1>5. ASSUME ~o.id, NEW S, NEW g \in Texts(Envelopes, S)
        PROVE  Passed(es, g) = <<>>
    BY <1>2, <1>3, <1>5, PassedNone
  <1>6. CASE o.id
    BY <1>1, <1>4, <1>6 DEF EmittedMeans
  <1>7. CASE ~o.id
    BY <1>1, <1>4, <1>5, <1>7, WireTexts DEF EmittedMeans
  <1> QED
    BY <1>6, <1>7

\* What x has and w adds is what y has and ops add.
Same(x, w, gw, y, ops, go) == x \o Passed(w, gw) = y \o Passed(ops, go)

\* es add what o adds.
Adds(es, gw, o, go) == Passed(es, gw) = IF o.id THEN go[o] ELSE <<>>

\* What is added behind p is added behind v, which is x and p.
Follows(x, p, a, v) == x \o (p \o a) = v \o a

LEMMA AddedBehind ==
  ASSUME NEW S, NEW x \in Seq(S), NEW p \in Seq(S), NEW a \in Seq(S), NEW v, v = x \o p
  PROVE  Follows(x, p, a, v)
  <1>1. x \o (p \o a) = (x \o p) \o a
    BY ONLY SMTT(60)
  <1> QED
    BY <1>1 DEF Follows

LEMMA StreamMore ==
  ASSUME NEW S, NEW x \in Seq(S), NEW y \in Seq(S),
         NEW w \in Seq(Envelopes), NEW es \in Seq(Envelopes), NEW gw \in Texts(Envelopes, S),
         NEW ops \in Seq(Ops), NEW o \in Ops, NEW go \in Texts(Ops, S),
         Same(x, w, gw, y, ops, go), HaveIds(w) <=> HaveIds(ops), Adds(es, gw, o, go),
         NEW c, c = ops \o <<o>>
  PROVE  Same(x, w \o es, gw, y, c, go)
  <1>1. Passed(w \o es, gw)
          = Passed(w, gw) \o (IF HaveIds(w) THEN Passed(es, gw) ELSE <<>>)
    BY PassedConcat
  <1>3. Passed(c, go) = Passed(ops, go) \o Gain(ops, o, go)
    <2>1. Grows(S, Ops, go, ops, o, c)
      BY DEF Grows
    <2> QED
      BY ONLY <2>1, PassedMore, SMTT(60)
  <1> DEFINE p == Passed(w, gw)
             q == Passed(ops, go)
             a == Gain(ops, o, go)
  <1>2. (IF HaveIds(w) THEN Passed(es, gw) ELSE <<>>) = a
    BY DEF Adds, Gain
  <1>4. p \in Seq(S) /\ q \in Seq(S)
    BY PassedType
  <1>5. go[o] \in Seq(S)
    BY DEF Texts
  <1>6. a \in Seq(S)
    BY <1>5 DEF Gain
  <1>7. x \o p = y \o q
    BY DEF Same
  <1>9. Passed(w \o es, gw) = p \o a /\ Passed(c, go) = q \o a
    BY <1>1, <1>2, <1>3
  <1> HIDE DEF p, q, a
  <1> DEFINE v == x \o p
  <1>8. v = x \o p /\ v = y \o q
    BY <1>7
  <1> HIDE DEF v
  <1>10. Follows(x, p, a, v) /\ Follows(y, q, a, v)
    BY ONLY <1>4, <1>6, <1>8, x \in Seq(S), y \in Seq(S), AddedBehind
  <1> QED
    BY <1>9, <1>10 DEF Same, Follows

\* The counts that hold after u and w are those of ops.
SameCount(u, w, ops) == Latest(u, Passed(w, WireUsage)) = Usage(ops)

LEMMA CountMore ==
  ASSUME NEW u, NEW w \in Seq(Envelopes), NEW es \in Seq(Envelopes),
         NEW ops \in Seq(Ops), NEW o \in Ops,
         SameCount(u, w, ops),
         HaveIds(w) <=> HaveIds(ops), Adds(es, WireUsage, o, OpUsage),
         NEW c, c = ops \o <<o>>
  PROVE  SameCount(u, w \o es, c)
  <1>0. WireUsage \in Texts(Envelopes, Counts) /\ OpUsage \in Texts(Ops, Counts)
    BY WireTexts, OpTexts
  <1>1. Passed(w \o es, WireUsage)
          = Passed(w, WireUsage) \o (IF HaveIds(w) THEN Passed(es, WireUsage) ELSE <<>>)
    BY <1>0, PassedConcat
  <1>3. Passed(c, OpUsage) = Passed(ops, OpUsage) \o Gain(ops, o, OpUsage)
    <2>1. Grows(Counts, Ops, OpUsage, ops, o, c)
      BY <1>0 DEF Grows
    <2> QED
      BY ONLY <2>1, PassedMore, SMTT(60)
  <1> DEFINE p == Passed(w, WireUsage)
             q == Passed(ops, OpUsage)
             a == Gain(ops, o, OpUsage)
  <1>2. (IF HaveIds(w) THEN Passed(es, WireUsage) ELSE <<>>) = a
    BY DEF Adds, Gain
  <1>4. p \in Seq(Counts) /\ q \in Seq(Counts)
    BY <1>0, PassedType
  <1>5. OpUsage[o] \in Seq(Counts)
    BY <1>0 DEF Texts
  <1>6. a \in Seq(Counts)
    BY <1>5 DEF Gain
  <1>7. Latest(u, p) = Latest("none", q)
    BY DEF Usage, SameCount
  <1>9. Passed(w \o es, WireUsage) = p \o a /\ Passed(c, OpUsage) = q \o a
    BY <1>1, <1>2, <1>3
  <1> HIDE DEF p, q, a
  <1>8. /\ Latest(u, p \o a) = Latest(Latest(u, p), a)
        /\ Latest("none", q \o a) = Latest(Latest("none", q), a)
    BY <1>4, <1>6, LatestJoined
  <1> QED
    BY <1>7, <1>8, <1>9 DEF Usage, SameCount

\* The handler performs one more operation.
LEMMA LeadsMore ==
  ASSUME NEW s \in Services, NEW w \in Seq(Envelopes), NEW ops \in Seq(Ops), NEW o \in Ops,
         NEW begun \in BOOLEAN, Leads(s, w, ops, begun), HaveIds(w) <=> HaveIds(ops),
         NEW es, es = Emitted(o), NEW c, c = ops \o <<o>>
  PROVE  Leads(s, w \o es, c, begun)
  <1>1. /\ es \in Seq(Envelopes)
        /\ Adds(es, WireDown, o, OpDown) /\ Adds(es, WireUp, o, OpUp)
        /\ Adds(es, WireDelta, o, OpDelta) /\ Adds(es, WireUsage, o, OpUsage)
    BY EmittedPasses DEF Adds
  <1>2. /\ Shown(s) \in Seq(Frames) /\ Raised(s) \in Seq(Frames) /\ Reported(s) \in Seq(Deltas)
        /\ Opens(begun) \in Seq(Frames) /\ <<>> \in Seq(Frames) /\ <<>> \in Seq(Deltas)
    BY ServiceStreams, OpeningFrames DEF Opens
  <1>3. c \in Seq(Ops)
    OBVIOUS
  <1>4. ASSUME NEW S, NEW x \in Seq(S), NEW y \in Seq(S), NEW gw \in Texts(Envelopes, S),
               NEW go \in Texts(Ops, S), Same(x, w, gw, y, ops, go), Adds(es, gw, o, go)
        PROVE  Same(x, w \o es, gw, y, c, go)
    BY <1>1, <1>4, StreamMore
  <1>5. ASSUME NEW q \in Seq(Ops)
        PROVE  <<>> \o Passed(q, OpUp) = Passed(q, OpUp)
               /\ <<>> \o Passed(q, OpDelta) = Passed(q, OpDelta)
    BY PassedOps
  <1>6. /\ Same(Shown(s), w, WireDown, Opens(begun), ops, OpDown)
        /\ Same(Raised(s), w, WireUp, <<>>, ops, OpUp)
        /\ Same(Reported(s), w, WireDelta, <<>>, ops, OpDelta)
    BY <1>5 DEF Leads, Same
  <1>7. Same(Shown(s), w \o es, WireDown, Opens(begun), c, OpDown)
    BY <1>1, <1>2, <1>4, <1>6, WireTexts, OpTexts
  <1>8. Same(Raised(s), w \o es, WireUp, <<>>, c, OpUp)
    BY <1>1, <1>2, <1>4, <1>6, WireTexts, OpTexts
  <1>9. Same(Reported(s), w \o es, WireDelta, <<>>, c, OpDelta)
    BY <1>1, <1>2, <1>4, <1>6, WireTexts, OpTexts
  <1>10. Latest(s.usage, Passed(w \o es, WireUsage)) = Usage(c)
    <2>1. SameCount(s.usage, w, ops)
      BY DEF Leads, SameCount
    <2>2. SameCount(s.usage, w \o es, c)
      BY <1>1, <2>1, CountMore
    <2> QED
      BY <2>2 DEF SameCount
  <1> QED
    BY <1>3, <1>5, <1>7, <1>8, <1>9, <1>10 DEF Leads, Same

\* An envelope that adds nothing to any stream.
LEMMA LeadsStill ==
  ASSUME NEW s \in Services, NEW w \in Seq(Envelopes), NEW ops, NEW begun,
         Leads(s, w, ops, begun), NEW e \in Envelopes,
         WireDown[e] = <<>>, WireUp[e] = <<>>, WireDelta[e] = <<>>, WireUsage[e] = <<>>,
         NEW v, v = w \o <<e>>
  PROVE  Leads(s, v, ops, begun)
  <1>1. ASSUME NEW S, NEW g \in Texts(Envelopes, S), g[e] = <<>>
        PROVE  Passed(v, g) = Passed(w, g)
    <2>0. Grows(S, Envelopes, g, w, e, v)
      BY <1>1 DEF Grows
    <2>1. Passed(v, g) = Passed(w, g) \o Gain(w, e, g)
      BY ONLY <2>0, PassedMore, SMTT(60)
    <2>2. Passed(w, g) \in Seq(S)
      BY <1>1, PassedType
    <2>3. Passed(v, g) = Passed(w, g) \o <<>>
      BY <1>1, <2>1 DEF Gain
    <2>4. Passed(w, g) \o <<>> = Passed(w, g)
      BY <2>2
    <2> QED
      BY <2>3, <2>4
  <1>2. /\ Passed(v, WireDown) = Passed(w, WireDown)
        /\ Passed(v, WireUp) = Passed(w, WireUp)
        /\ Passed(v, WireDelta) = Passed(w, WireDelta)
        /\ Passed(v, WireUsage) = Passed(w, WireUsage)
    BY <1>1, WireTexts
  <1> QED
    BY <1>2 DEF Leads

\* The envelopes that begin and end a turn.
LEMMA TerminalsMean ==
  /\ StartEnvelope \in Envelopes /\ EndEnvelope \in Envelopes /\ ErrorEnvelope \in Envelopes
  /\ StartEnvelope.id = TRUE /\ EndEnvelope.id = TRUE /\ ErrorEnvelope.id = TRUE
  /\ StartEnvelope \notin {EndEnvelope, ErrorEnvelope}
  /\ WireDown[StartEnvelope] = Opening /\ WireUp[StartEnvelope] = <<>>
  /\ WireDelta[StartEnvelope] = <<>> /\ WireUsage[StartEnvelope] = <<>>
  /\ \A e \in {EndEnvelope, ErrorEnvelope} :
        /\ WireDown[e] = <<>> /\ WireUp[e] = <<>>
        /\ WireDelta[e] = <<>> /\ WireUsage[e] = <<>>
  <1>1. StartEnvelope \in Envelopes /\ EndEnvelope \in Envelopes /\ ErrorEnvelope \in Envelopes
    BY DEF Envelopes
  <1>2. /\ StartEnvelope.type = "frame" /\ StartEnvelope.frame = "start"
        /\ StartEnvelope.body = "none"
        /\ EndEnvelope.type = "frame" /\ EndEnvelope.frame = "end"
        /\ ErrorEnvelope.type = "error"
        /\ StartEnvelope.id = TRUE /\ EndEnvelope.id = TRUE /\ ErrorEnvelope.id = TRUE
    BY DEF StartEnvelope, EndEnvelope, ErrorEnvelope, Envelope
  <1>3. OutputFrame(StartEnvelope) = Frame("start", "none")
        /\ Frame("start", "none") # EmptyText
    BY <1>2 DEF OutputFrame, Frame, EmptyText
  <1>4. Directions("start") # Both /\ Directions("end") # Both
    BY DEF Directions, Both, Down
  <1>5. StartEnvelope # EndEnvelope /\ StartEnvelope # ErrorEnvelope
    BY <1>2
  <1>6. /\ WireDown[StartEnvelope] = Opening /\ WireUp[StartEnvelope] = <<>>
        /\ WireDelta[StartEnvelope] = <<>> /\ WireUsage[StartEnvelope] = <<>>
    BY <1>1, <1>2, <1>3, <1>4 DEF WireDown, WireUp, WireDelta, WireUsage, Opening
  <1>7. /\ WireDown[EndEnvelope] = <<>> /\ WireUp[EndEnvelope] = <<>>
        /\ WireDelta[EndEnvelope] = <<>> /\ WireUsage[EndEnvelope] = <<>>
    BY <1>1, <1>2, <1>4 DEF WireDown, WireUp, WireDelta, WireUsage
  <1>8. /\ WireDown[ErrorEnvelope] = <<>> /\ WireUp[ErrorEnvelope] = <<>>
        /\ WireDelta[ErrorEnvelope] = <<>> /\ WireUsage[ErrorEnvelope] = <<>>
    BY <1>1, <1>2 DEF WireDown, WireUp, WireDelta, WireUsage
  <1> QED
    BY <1>1, <1>2, <1>5, <1>6, <1>7, <1>8

-----------------------------------------------------------------------------
(* BridgeConnection                                                         *)

\* The steps of the bridge and of WebSocketLLMService leave AdkLLMService alone.
LEMMA OthersLeaveAdk ==
  ASSUME AdkInv, UNCHANGED <<agent, adkAt, adk>>
  PROVE  AdkInv'
  BY DEF AdkInv, First, agent

LEMMA ListensOn ==
  ASSUME BridgeInv', ~remote'.over,
         HaveIds(wire') <=> HaveIds(SubSeq(script', 1, jsAt')),
         Leads(remote', wire', SubSeq(script', 1, jsAt'), handler' # "asked")
  PROVE  RemoteInv'
  BY DEF RemoteInv, First

\* What the bridge still does after the service has given up does not matter.
LEMMA ListensNoMore ==
  ASSUME RemoteInv, remote.over, handler # "returned",
         script' = script, fails' = fails, remote' = remote
  PROVE  RemoteInv'
  BY DEF RemoteInv

LEMMA BridgeTypes ==
  ASSUME Typed, UNCHANGED <<agent, adkAt, adk>>, UNCHANGED remote,
         wire' \in Seq(Envelopes), jsAt' \in 0 .. Len(script),
         handler' \in {"asked", "running", "returned"}
  PROVE  Typed'
  BY DEF Typed, TypeOK, agent

LEMMA RunTurnStep ==
  ASSUME ParityInv, RunTurn
  PROVE  ParityInv'
  <1> DEFINE w == <<StartEnvelope>>
  <1>1. /\ script \in Seq(Ops) /\ wire \in Seq(Envelopes) /\ remote \in Services
        /\ jsAt \in 0 .. Len(script) /\ handler = "asked" /\ handler' = "running"
        /\ wire' = Append(wire, StartEnvelope) /\ UNCHANGED <<agent, adkAt, adk>>
        /\ script' = script /\ fails' = fails /\ jsAt' = jsAt /\ remote' = remote
    BY DEF ParityInv, Typed, TypeOK, RunTurn, StartEnvelope, agent
  <1>2. StartEnvelope \in Envelopes /\ StartEnvelope.id = TRUE
    BY TerminalsMean
  <1>3. wire' \in Seq(Envelopes)
    BY <1>1, <1>2
  <1>4. ASSUME remote.over PROVE RemoteInv'
    BY <1>1, <1>4, ListensNoMore DEF ParityInv
  <1>5. ASSUME ~remote.over PROVE RemoteInv'
    <2>1. /\ wire = <<>> /\ jsAt = 0 /\ remote.started = FALSE
          /\ Leads(remote, <<>>, SubSeq(script, 1, 0), FALSE)
      BY <1>1, <1>5 DEF ParityInv, RemoteInv, BridgeInv, First, Services
    <2>2. SubSeq(script, 1, 0) = <<>>
      BY <1>1
    <2>3. /\ wire' = w /\ w \in Seq(Envelopes) /\ Len(w) = 1 /\ w # <<>> /\ w[1] = StartEnvelope
          /\ DOMAIN w = {1}
      BY <1>1, <1>2, <2>1
    <2>4. HaveIds(w) /\ HaveIds(<<>>)
      BY <1>2, <2>3 DEF HaveIds
    <2>5. /\ Passed(w, WireDown) = Opening /\ Passed(w, WireUp) = <<>>
          /\ Passed(w, WireDelta) = <<>> /\ Passed(w, WireUsage) = <<>>
      <3>1. ASSUME NEW S, NEW g \in Texts(Envelopes, S)
            PROVE  Passed(w, g) = g[StartEnvelope]
        <4>1. Single(S, Envelopes, g, StartEnvelope, w)
          BY <1>2, <3>1 DEF Single
        <4> HIDE DEF w
        <4>2. Passed(w, g) = Alone(StartEnvelope, g)
          BY <4>1, PassedOne
        <4> QED
          BY <1>2, <4>2 DEF Alone
      <3> HIDE DEF w
      <3> QED
        BY <3>1, WireTexts, TerminalsMean
    <2> HIDE DEF w
    <2>6. \A g : Passed(<<>>, g) = <<>>
      BY PassedNothing
    <2>7. Opening \in Seq(Frames) /\ <<>> \o Opening = Opening /\ Opening \o <<>> = Opening
          /\ <<>> \o <<>> = <<>>
      BY OpeningFrames
    <2>8. /\ Shown(remote) \o <<>> = <<>> /\ Raised(remote) \o <<>> = <<>>
          /\ Reported(remote) \o <<>> = <<>> /\ Latest(remote.usage, <<>>) = Usage(<<>>)
          /\ ~HasError(remote.up)
      BY <2>1, <2>2, <2>6, <2>7 DEF Leads, Opens
    <2>9. Shown(remote) = <<>>
      BY <1>1, <2>8, ServiceStreams
    <2>10. Leads(remote, w, <<>>, TRUE)
      BY <2>5, <2>6, <2>7, <2>8, <2>9 DEF Leads, Opens
    <2>11. BridgeInv'
      <3>1. w[1] \notin {EndEnvelope, ErrorEnvelope}
        BY <2>3, TerminalsMean
      <3> QED
        BY <1>1, <2>3, <3>1 DEF BridgeInv
    <2>12. /\ HaveIds(wire') <=> HaveIds(SubSeq(script', 1, jsAt'))
           /\ Leads(remote', wire', SubSeq(script', 1, jsAt'), TRUE)
           /\ ~remote'.over
      BY <1>1, <1>5, <2>1, <2>2, <2>3, <2>4, <2>10
    <2> QED
      BY <1>1, <1>3, <2>11, <2>12, ListensOn
  <1>6. Typed'
    <2>1. handler' \in {"asked", "running", "returned"} /\ jsAt' \in 0 .. Len(script)
      BY <1>1
    <2> QED
      BY <1>1, <1>3, <2>1, BridgeTypes DEF ParityInv
  <1> QED
    BY <1>1, <1>4, <1>5, <1>6, OthersLeaveAdk DEF ParityInv

LEMMA HandlerEmitsStep ==
  ASSUME ParityInv, HandlerEmits
  PROVE  ParityInv'
  <1> DEFINE o == script[jsAt + 1]
             ops == First(jsAt)
             c == SubSeq(script, 1, jsAt + 1)
             es == Emitted(o)
  <1>1. /\ script \in Seq(Ops) /\ wire \in Seq(Envelopes) /\ remote \in Services
        /\ jsAt \in 0 .. Len(script) - 1 /\ handler = "running" /\ handler' = handler
        /\ jsAt' = jsAt + 1 /\ jsAt' \in 0 .. Len(script)
        /\ wire' = wire \o es /\ UNCHANGED <<agent, adkAt, adk>>
        /\ script' = script /\ fails' = fails /\ remote' = remote
    BY DEF ParityInv, Typed, TypeOK, HandlerEmits, agent
  <1>2. /\ ops \in Seq(Ops) /\ o \in Ops /\ c = ops \o <<o>>
        /\ HaveIds(c) <=> HaveIds(ops) /\ o.id
    BY <1>1, OneMore DEF First
  <1>3. /\ es \in Seq(Envelopes) /\ es # <<>> /\ (HaveIds(es) <=> o.id)
        /\ \A i \in DOMAIN es : es[i] \notin {StartEnvelope, EndEnvelope, ErrorEnvelope}
    BY <1>2, EmittedPasses
  <1>4. wire' \in Seq(Envelopes)
    BY <1>1, <1>3
  <1>5. ASSUME remote.over PROVE RemoteInv'
    BY <1>1, <1>5, ListensNoMore DEF ParityInv
  <1>6. ASSUME ~remote.over PROVE RemoteInv'
    <2>1. /\ BridgeInv /\ (HaveIds(wire) <=> HaveIds(ops)) /\ Leads(remote, wire, ops, TRUE)
      BY <1>1, <1>6 DEF ParityInv, RemoteInv
    <2>2. c = SubSeq(script', 1, jsAt') /\ es = Emitted(o)
      BY <1>1
    <2> HIDE DEF o, ops, c, es
    <2>3. Leads(remote, wire \o es, c, TRUE)
      BY <1>1, <1>2, <2>1, <2>2, LeadsMore
    <2>4. HaveIds(wire \o es) <=> HaveIds(c)
      BY <1>1, <1>2, <1>3, <2>1, JoinedIds
    <2>5. BridgeInv'
      <3> DEFINE v == wire \o es
      <3>1. /\ v \in Seq(Envelopes) /\ Len(v) = Len(wire) + Len(es) /\ DOMAIN v = 1 .. Len(v)
            /\ Len(wire) \in Nat /\ Len(es) \in Nat /\ Len(es) > 0
            /\ DOMAIN wire = 1 .. Len(wire) /\ DOMAIN es = 1 .. Len(es)
            /\ \A i \in 1 .. Len(wire) : v[i] = wire[i]
            /\ \A i \in 1 .. Len(v) :
                 i \in 1 .. Len(wire) \/ (i - Len(wire) \in 1 .. Len(es) /\ v[i] = es[i - Len(wire)])
        BY <1>1, <1>3
      <3>2. wire' = v
        BY <1>1
      <3> HIDE DEF v
      <3>3. \A i \in DOMAIN v : v[i] \notin {EndEnvelope, ErrorEnvelope}
        <4>1. \A i \in DOMAIN wire : wire[i] \notin {EndEnvelope, ErrorEnvelope}
          BY <1>1, <2>1 DEF BridgeInv
        <4>2. \A i \in DOMAIN es : es[i] \notin {EndEnvelope, ErrorEnvelope}
          BY <1>3
        <4> QED
          BY <3>1, <4>1, <4>2
      <3>4. ~remote.started => v # <<>> /\ v[1] = StartEnvelope
        <4> SUFFICES ASSUME ~remote.started
                     PROVE  v # <<>> /\ v[1] = StartEnvelope
          OBVIOUS
        <4>1. wire # <<>> /\ wire[1] = StartEnvelope
          BY <1>1, <2>1 DEF BridgeInv
        <4>2. 1 \in 1 .. Len(wire) /\ v # <<>>
          BY <1>1, <3>1, <4>1
        <4> QED
          BY <3>1, <4>1, <4>2
      <3> QED
        BY <1>1, <3>2, <3>3, <3>4 DEF BridgeInv
    <2>6. ~remote'.over /\ handler' # "asked"
      BY <1>1, <1>6
    <2> QED
      BY <1>1, <2>2, <2>3, <2>4, <2>5, <2>6, ListensOn
  <1> HIDE DEF o, ops, c, es
  <1>7. Typed'
    <2>1. handler' \in {"asked", "running", "returned"}
      BY <1>1
    <2> QED
      BY <1>1, <1>4, <2>1, BridgeTypes DEF ParityInv
  <1> QED
    BY <1>1, <1>5, <1>6, <1>7, OthersLeaveAdk DEF ParityInv

LEMMA HandlerReturnsStep ==
  ASSUME ParityInv, HandlerReturns
  PROVE  ParityInv'
  <1> DEFINE e == Terminal(fails)
             ops == First(jsAt)
             v == wire \o <<e>>
  <1>1. /\ script \in Seq(Ops) /\ wire \in Seq(Envelopes) /\ remote \in Services
        /\ jsAt = Len(script) /\ jsAt \in 0 .. Len(script) /\ handler = "running"
        /\ handler' = "returned" /\ jsAt' = jsAt
        /\ wire' = Append(wire, e) /\ UNCHANGED <<agent, adkAt, adk>>
        /\ script' = script /\ fails' = fails /\ remote' = remote
    BY DEF ParityInv, Typed, TypeOK, HandlerReturns, agent, Terminal, EndEnvelope, ErrorEnvelope
  <1>2. /\ e \in {EndEnvelope, ErrorEnvelope} /\ e \in Envelopes /\ e.id = TRUE
        /\ WireDown[e] = <<>> /\ WireUp[e] = <<>> /\ WireDelta[e] = <<>> /\ WireUsage[e] = <<>>
        /\ e' = e
    <2>1. e \in {EndEnvelope, ErrorEnvelope}
      BY DEF Terminal
    <2>2. e' = e
      BY <1>1 DEF Terminal
    <2> HIDE DEF e
    <2> QED
      BY <2>1, <2>2, TerminalsMean
  <1>3. wire' = v /\ v \in Seq(Envelopes)
    <2>1. e \in Envelopes
      BY <1>2
    <2> HIDE DEF e
    <2>2. Append(wire, e) = wire \o <<e>> /\ wire \o <<e>> \in Seq(Envelopes)
      BY <1>1, <2>1
    <2> QED
      BY <1>1, <2>2
  <1>4. ASSUME remote.over PROVE RemoteInv'
    BY <1>1, <1>4, ListensNoMore DEF ParityInv
  <1>5. ASSUME ~remote.over PROVE RemoteInv'
    <2>1. /\ BridgeInv /\ (HaveIds(wire) <=> HaveIds(ops)) /\ Leads(remote, wire, ops, TRUE)
      BY <1>1, <1>5 DEF ParityInv, RemoteInv
    <2>2. ops = SubSeq(script', 1, jsAt') /\ v = wire \o <<e>> /\ e' = e /\ e' = Terminal(fails')
      BY <1>1, <1>2 DEF First
    <2> HIDE DEF e, ops, v
    <2>3. Leads(remote, v, ops, TRUE)
      BY <1>1, <1>2, <2>1, <2>2, LeadsStill
    <2>4. HaveIds(v) <=> HaveIds(ops)
      <3> DEFINE q == <<e>>
      <3>1. q \in Seq(Envelopes) /\ DOMAIN q = {1} /\ q[1] = e
        BY <1>2
      <3> HIDE DEF q
      <3>2. HaveIds(q)
        BY <1>2, <3>1 DEF HaveIds
      <3>3. HaveIds(wire \o q) <=> HaveIds(wire) /\ HaveIds(q)
        BY <1>1, <3>1, JoinedIds
      <3> QED
        BY <2>1, <2>2, <3>2, <3>3 DEF q
    <2>5. BridgeInv'
      <3>1. /\ Len(v) = Len(wire) + 1 /\ DOMAIN v = 1 .. Len(v) /\ Len(wire) \in Nat
            /\ v[Len(v)] = e /\ v # <<>> /\ DOMAIN wire = 1 .. Len(wire)
            /\ \A i \in 1 .. Len(wire) : v[i] = wire[i]
        BY <1>1, <1>2, <2>2
      <3>2. \A i \in DOMAIN v : v[i] \in {EndEnvelope, ErrorEnvelope} => i = Len(v)
        <4>1. \A i \in DOMAIN wire : wire[i] \notin {EndEnvelope, ErrorEnvelope}
          BY <1>1, <2>1 DEF BridgeInv
        <4>2. \A i \in 1 .. Len(v) : i \in 1 .. Len(wire) \/ i = Len(v)
          BY <3>1
        <4> QED
          BY <3>1, <4>1, <4>2
      <3>3. ~remote.started => v[1] = StartEnvelope
        <4> SUFFICES ASSUME ~remote.started
                     PROVE  v[1] = StartEnvelope
          OBVIOUS
        <4>1. wire # <<>> /\ wire[1] = StartEnvelope
          BY <1>1, <2>1 DEF BridgeInv
        <4>2. 1 \in 1 .. Len(wire)
          BY <1>1, <4>1
        <4> QED
          BY <3>1, <4>1, <4>2
      <3> QED
        BY <1>1, <1>3, <2>2, <3>1, <3>2, <3>3 DEF BridgeInv
    <2>6. ~remote'.over /\ handler' # "asked"
      BY <1>1, <1>5
    <2> QED
      BY <1>1, <1>3, <2>2, <2>3, <2>4, <2>5, <2>6, ListensOn
  <1> HIDE DEF e, ops, v
  <1>6. Typed'
    <2>1. handler' \in {"asked", "running", "returned"} /\ jsAt' \in 0 .. Len(script)
      BY <1>1
    <2> QED
      BY <1>1, <1>3, <2>1, BridgeTypes DEF ParityInv
  <1> QED
    BY <1>1, <1>4, <1>5, <1>6, OthersLeaveAdk DEF ParityInv

-----------------------------------------------------------------------------
(* WebSocketLLMService                                                      *)

LEMMA EnvelopeKinds ==
  ASSUME NEW e \in Envelopes
  PROVE  /\ e.type \in {"frame", "state.delta", "turn.usage", "error"}
         /\ e.type = "turn.usage" => e.id = TRUE /\ e.body \in Counts
         /\ e.type = "state.delta" => e.id = TRUE /\ e.body \in Deltas
         /\ e.type = "error" <=> e = ErrorEnvelope
         /\ e.type = "frame" /\ e.frame = "start" <=> e = StartEnvelope
         /\ e.type = "frame" /\ e.frame = "end" <=> e = EndEnvelope
  <1>1. CASE e \in {StartEnvelope, EndEnvelope, ErrorEnvelope}
    BY <1>1 DEF StartEnvelope, EndEnvelope, ErrorEnvelope, Envelope
  <1>2. CASE e \in TextEnvelopes
    BY <1>2 DEF TextEnvelopes, StartEnvelope, EndEnvelope, ErrorEnvelope, Envelope
  <1>3. CASE e \in ToolEnvelopes
    BY <1>3 DEF ToolEnvelopes, StartEnvelope, EndEnvelope, ErrorEnvelope, Envelope
  <1>4. CASE e \in DeltaEnvelopes
    BY <1>4 DEF DeltaEnvelopes, StartEnvelope, EndEnvelope, ErrorEnvelope, Envelope, Deltas
  <1>5. CASE e \in UsageEnvelopes
    BY <1>5 DEF UsageEnvelopes, StartEnvelope, EndEnvelope, ErrorEnvelope, Envelope, Counts
  <1> QED
    BY <1>1, <1>2, <1>3, <1>4, <1>5 DEF Envelopes

\* The service does what the first envelope on the wire comes to.
LEMMA LeadsOn ==
  ASSUME NEW s \in Services, NEW r, NEW w \in Seq(Envelopes), w # <<>>, NEW ops, NEW begun,
         Leads(s, w, ops, begun), NEW e, e = Head(w), e.id,
         Does(s, r, WireDown[e], WireUp[e], WireDelta[e], WireUsage[e])
  PROVE  Leads(r, Tail(w), ops, begun)
  <1> DEFINE t == Tail(w)
  <1>1. e \in Envelopes /\ t \in Seq(Envelopes)
    BY HeadAndTail
  <1>2. ASSUME NEW S, NEW g \in Texts(Envelopes, S)
        PROVE  /\ Passed(w, g) = g[e] \o Passed(t, g)
               /\ g[e] \in Seq(S) /\ Passed(t, g) \in Seq(S)
    <2>1. Passed(w, g) = g[e] \o Passed(t, g)
      BY <1>2, PassedHead
    <2>2. g[e] \in Seq(S)
      BY <1>1, <1>2 DEF Texts
    <2>3. Passed(t, g) \in Seq(S)
      BY <1>1, <1>2, PassedType
    <2> QED
      BY <2>1, <2>2, <2>3
  <1> HIDE DEF t
  <1>3. ASSUME NEW S, NEW g \in Texts(Envelopes, S), NEW x \in Seq(S)
        PROVE  (x \o g[e]) \o Passed(t, g) = x \o Passed(w, g)
    <2> DEFINE a == g[e]
               b == Passed(t, g)
    <2>1. a \in Seq(S) /\ b \in Seq(S) /\ Passed(w, g) = a \o b
      BY <1>2, <1>3
    <2> HIDE DEF a, b
    <2>2. (x \o a) \o b = x \o (a \o b)
      BY ONLY <2>1, x \in Seq(S), ConcatAssociative
    <2> QED
      BY <2>1, <2>2 DEF a, b
  <1>4. Shown(s) \in Seq(Frames) /\ Raised(s) \in Seq(Frames) /\ Reported(s) \in Seq(Deltas)
    BY ServiceStreams
  <1>5. /\ (Shown(s) \o WireDown[e]) \o Passed(t, WireDown) = Shown(s) \o Passed(w, WireDown)
        /\ (Raised(s) \o WireUp[e]) \o Passed(t, WireUp) = Raised(s) \o Passed(w, WireUp)
        /\ (Reported(s) \o WireDelta[e]) \o Passed(t, WireDelta)
             = Reported(s) \o Passed(w, WireDelta)
    BY <1>3, <1>4, WireTexts
  <1>6. Latest(Latest(s.usage, WireUsage[e]), Passed(t, WireUsage))
          = Latest(s.usage, Passed(w, WireUsage))
    <2> DEFINE u == s.usage
               a == WireUsage[e]
               b == Passed(t, WireUsage)
    <2>1. a \in Seq(Counts) /\ b \in Seq(Counts) /\ Passed(w, WireUsage) = a \o b
      BY <1>2, WireTexts
    <2> HIDE DEF u, a, b
    <2>2. Latest(u, a \o b) = Latest(Latest(u, a), b)
      BY <2>1, LatestJoined
    <2> QED
      BY <2>1, <2>2 DEF u, a, b
  <1>7. Leads(r, t, ops, begun)
    BY <1>5, <1>6 DEF Leads, Does
  <1> QED
    BY <1>7 DEF t

\* Nothing that counts is left on the wire.
LEMMA LeadsNowhere ==
  ASSUME NEW s \in Services, s.started = TRUE, NEW w \in Seq(Envelopes),
         NEW ops \in Seq(Ops), Leads(s, w, ops, TRUE),
         \A g \in {WireDown, WireUp, WireDelta, WireUsage} : Passed(w, g) = <<>>
  PROVE  Stands(s, ops)
  <1>1. /\ Shown(s) \o <<>> = Opening \o Passed(ops, OpDown)
        /\ Raised(s) \o <<>> = Passed(ops, OpUp)
        /\ Reported(s) \o <<>> = Passed(ops, OpDelta)
        /\ Latest(s.usage, <<>>) = Usage(ops) /\ ~HasError(s.up)
    BY DEF Leads, Opens
  <1>2. /\ Shown(s) \o <<>> = Shown(s) /\ Raised(s) \o <<>> = Raised(s)
        /\ Reported(s) \o <<>> = Reported(s) /\ Latest(s.usage, <<>>) = s.usage
    BY ServiceStreams DEF Latest
  <1> QED
    BY <1>1, <1>2 DEF Stands, Holds, Opens

\* What holds when _run_remote takes an envelope.
LEMMA RemoteTakes ==
  ASSUME ParityInv, remote.over = FALSE, wire # <<>>, NEW e, e = Head(wire),
         NEW ops, ops = First(jsAt)
  PROVE  /\ wire \in Seq(Envelopes) /\ e \in Envelopes /\ e = wire[1]
         /\ Tail(wire) \in Seq(Envelopes) /\ remote \in Services
         /\ script \in Seq(Ops) /\ jsAt \in 0 .. Len(script) /\ ops \in Seq(Ops)
         /\ handler \in {"running", "returned"}
         /\ e # StartEnvelope => remote.started = TRUE
         /\ HaveIds(wire) <=> HaveIds(ops)
         /\ Leads(remote, wire, ops, TRUE)
         /\ fails \in BOOLEAN
  <1>1. /\ wire \in Seq(Envelopes) /\ remote \in Services /\ script \in Seq(Ops)
        /\ jsAt \in 0 .. Len(script) /\ handler \in {"asked", "running", "returned"}
        /\ fails \in BOOLEAN
    BY DEF ParityInv, Typed, TypeOK
  <1>2. /\ BridgeInv /\ (HaveIds(wire) <=> HaveIds(ops))
        /\ Leads(remote, wire, ops, handler # "asked")
    BY DEF ParityInv, RemoteInv
  <1>3. handler # "asked" /\ (~remote.started => wire[1] = StartEnvelope)
    BY <1>2 DEF BridgeInv
  <1>4. remote.started \in BOOLEAN
    BY <1>1 DEF Services
  <1>5. ops \in Seq(Ops)
    BY <1>1 DEF First
  <1>6. e \in Envelopes /\ e = wire[1] /\ Tail(wire) \in Seq(Envelopes)
    BY <1>1, HeadAndTail
  <1> QED
    BY <1>1, <1>2, <1>3, <1>4, <1>5, <1>6

LEMMA RemoteTypes ==
  ASSUME Typed, UNCHANGED <<agent, adkAt, adk, bridge>>,
         wire' \in Seq(Envelopes), remote' \in Services
  PROVE  Typed'
  <1>1. ServiceOK(remote')
    BY ServicesOK
  <1> QED
    BY <1>1 DEF Typed, TypeOK, agent, bridge

LEMMA RemoteDoes ==
  ASSUME ParityInv, remote.over = FALSE, wire # <<>>, NEW e, e = Head(wire), e.id,
         e \notin {EndEnvelope, ErrorEnvelope}, wire' = Tail(wire),
         UNCHANGED <<agent, adkAt, adk, bridge>>, NEW r, remote' = r,
         Does(remote, r, WireDown[e], WireUp[e], WireDelta[e], WireUsage[e])
  PROVE  ParityInv'
  <1> DEFINE ops == First(jsAt)
             t == Tail(wire)
  <1>1. /\ wire \in Seq(Envelopes) /\ e \in Envelopes /\ e = wire[1]
        /\ t \in Seq(Envelopes) /\ remote \in Services
        /\ handler \in {"running", "returned"}
        /\ HaveIds(wire) <=> HaveIds(ops)
        /\ Leads(remote, wire, ops, TRUE)
    BY RemoteTakes
  <1>2. /\ Len(t) = Len(wire) - 1 /\ Len(wire) \in Nat /\ Len(wire) >= 1
        /\ \A i \in 1 .. Len(wire) - 1 : t[i] = wire[i + 1]
    BY <1>1, HeadAndTail
  <1>3. Leads(r, t, ops, TRUE)
    BY <1>1, LeadsOn
  <1>4. HaveIds(t) <=> HaveIds(ops)
    BY <1>1, HeadHasId
  <1>5. r \in Services /\ r.started = TRUE /\ r.over = FALSE
    BY DEF Does
  <1>6. /\ script' = script /\ fails' = fails /\ handler' = handler /\ jsAt' = jsAt
        /\ wire' = t /\ ops = SubSeq(script', 1, jsAt')
    BY DEF agent, bridge, First
  <1>7. BridgeInv
    BY DEF ParityInv, RemoteInv
  <1> HIDE DEF t, ops
  <1>8. BridgeInv'
    <2>1. DOMAIN wire = 1 .. Len(wire) /\ DOMAIN t = 1 .. Len(t)
      BY <1>1
    <2>2. \A i \in DOMAIN t :
            t[i] \in {EndEnvelope, ErrorEnvelope} => handler = "returned" /\ i = Len(t)
      <3> SUFFICES ASSUME NEW i \in DOMAIN t, t[i] \in {EndEnvelope, ErrorEnvelope}
                   PROVE  handler = "returned" /\ i = Len(t)
        OBVIOUS
      <3>1. i + 1 \in DOMAIN wire /\ wire[i + 1] = t[i]
        BY <1>2, <2>1
      <3>2. handler = "returned" /\ i + 1 = Len(wire)
        BY <1>7, <3>1 DEF BridgeInv
      <3> QED
        BY <1>2, <2>1, <3>2
    <2>3. handler = "returned" => /\ jsAt = Len(script) /\ t # <<>>
                                  /\ t[Len(t)] = Terminal(fails)
      <3> SUFFICES ASSUME handler = "returned"
                   PROVE  /\ jsAt = Len(script) /\ t # <<>>
                          /\ t[Len(t)] = Terminal(fails)
        OBVIOUS
      <3>1. jsAt = Len(script) /\ wire[Len(wire)] = Terminal(fails)
        BY <1>7 DEF BridgeInv
      <3>2. Terminal(fails) \in {EndEnvelope, ErrorEnvelope}
        BY DEF Terminal
      <3>3. Len(wire) # 1
        BY <1>1, <3>1, <3>2
      <3>4. Len(t) >= 1 /\ t[Len(t)] = wire[Len(wire)] /\ Len(t) \in Nat
        BY <1>2, <3>3
      <3>5. t # <<>>
        BY <3>4
      <3> QED
        BY <3>1, <3>4, <3>5
    <2> QED
      BY <1>1, <1>5, <1>6, <2>2, <2>3 DEF BridgeInv
  <1>9. RemoteInv'
    <2>1. ~remote'.over /\ handler' # "asked"
      BY <1>1, <1>5, <1>6
    <2> QED
      BY <1>3, <1>4, <1>6, <1>8, <2>1, ListensOn
  <1>10. Typed'
    BY <1>1, <1>5, <1>6, RemoteTypes DEF ParityInv
  <1> QED
    BY <1>9, <1>10, OthersLeaveAdk DEF ParityInv

\* The response is over, with an error or with the end of the turn.
LEMMA RemoteEnds ==
  ASSUME ParityInv, wire' \in Seq(Envelopes), UNCHANGED <<agent, adkAt, adk, bridge>>,
         NEW r \in Services, remote' = r, r.over = TRUE,
         Substance(r) = Whole(script, fails),
         HasError(r.up) \/ (wire' = <<>> /\ handler = "returned")
  PROVE  ParityInv'
  <1>1. script' = script /\ fails' = fails /\ handler' = handler
    BY DEF agent, bridge
  <1>2. RemoteInv'
    BY <1>1 DEF RemoteInv
  <1>3. Typed'
    BY RemoteTypes DEF ParityInv
  <1> QED
    BY <1>2, <1>3, OthersLeaveAdk DEF ParityInv

LEMMA RemoteUsageStep ==
  ASSUME ParityInv, RemoteUsage
  PROVE  ParityInv'
  <1> DEFINE e == Head(wire)
             us == <<e.body>>
             r == [remote EXCEPT !.usage = e.body]
  <1>0. remote \in Services
    BY DEF ParityInv, Typed
  <1>1. /\ remote.over = FALSE /\ wire # <<>> /\ e.type = "turn.usage"
        /\ wire' = Tail(wire) /\ UNCHANGED <<agent, adkAt, adk, bridge>> /\ remote' = r
    BY <1>0 DEF RemoteUsage, Consume, Services
  <1>2. e = Head(wire)
    OBVIOUS
  <1> HIDE DEF e
  <1>3. /\ e \in Envelopes /\ e.id = TRUE /\ e.body \in Counts
        /\ e \notin {StartEnvelope, EndEnvelope, ErrorEnvelope}
    <2>1. e \in Envelopes
      BY <1>1, <1>2, RemoteTakes
    <2>2. StartEnvelope \in Envelopes /\ EndEnvelope \in Envelopes /\ ErrorEnvelope \in Envelopes
      BY TerminalsMean
    <2>3. /\ StartEnvelope.type = "frame" /\ EndEnvelope.type = "frame"
          /\ ErrorEnvelope.type = "error"
      BY <2>2, EnvelopeKinds
    <2> QED
      BY <1>1, <2>1, <2>3, EnvelopeKinds
  <1>4. remote.started = TRUE
    BY <1>1, <1>2, <1>3, RemoteTakes
  <1>5. WireDown[e] = <<>> /\ WireUp[e] = <<>> /\ WireDelta[e] = <<>> /\ WireUsage[e] = us
    BY <1>1, <1>3 DEF WireDown, WireUp, WireDelta, WireUsage
  <1>6. /\ us \in Seq(Counts) /\ e.body \in {"none", "few", "many"}
        /\ Latest(remote.usage, us) = e.body
    BY <1>3 DEF Counts, Latest
  <1> HIDE DEF us
  <1>7. Does(remote, r, <<>>, <<>>, <<>>, us)
    BY <1>0, <1>4, <1>6, UsageDoes
  <1> HIDE DEF r
  <1>8. Does(remote, r, WireDown[e], WireUp[e], WireDelta[e], WireUsage[e])
    BY <1>5, <1>7
  <1> QED
    BY <1>1, <1>2, <1>3, <1>8, RemoteDoes

LEMMA RemoteStateDeltaStep ==
  ASSUME ParityInv, RemoteStateDelta
  PROVE  ParityInv'
  <1> DEFINE e == Head(wire)
             r == [remote EXCEPT !.deltas = Append(@, e.body)]
  <1>0. remote \in Services
    BY DEF ParityInv, Typed
  <1>1. /\ remote.over = FALSE /\ wire # <<>> /\ e.type = "state.delta"
        /\ wire' = Tail(wire) /\ UNCHANGED <<agent, adkAt, adk, bridge>> /\ remote' = r
    BY <1>0 DEF RemoteStateDelta, Consume, Services
  <1>2. e = Head(wire)
    OBVIOUS
  <1> HIDE DEF e
  <1>3. /\ e \in Envelopes /\ e.id = TRUE /\ e.body \in Deltas
        /\ e \notin {StartEnvelope, EndEnvelope, ErrorEnvelope}
    <2>1. e \in Envelopes
      BY <1>1, <1>2, RemoteTakes
    <2>2. StartEnvelope \in Envelopes /\ EndEnvelope \in Envelopes /\ ErrorEnvelope \in Envelopes
      BY TerminalsMean
    <2>3. /\ StartEnvelope.type = "frame" /\ EndEnvelope.type = "frame"
          /\ ErrorEnvelope.type = "error"
      BY <2>2, EnvelopeKinds
    <2> QED
      BY <1>1, <2>1, <2>3, EnvelopeKinds
  <1>4. remote.started = TRUE
    BY <1>1, <1>2, <1>3, RemoteTakes
  <1>5. /\ WireDown[e] = <<>> /\ WireUp[e] = <<>> /\ WireUsage[e] = <<>>
        /\ WireDelta[e] = IF e.body = "some" THEN <<"some">> ELSE <<>>
    BY <1>1, <1>3 DEF WireDown, WireUp, WireDelta, WireUsage
  <1>7. Does(remote, r, <<>>, <<>>, IF e.body = "some" THEN <<"some">> ELSE <<>>, <<>>)
    <2> DEFINE b == e.body
    <2>1. b \in Deltas
      BY <1>3
    <2> HIDE DEF b
    <2>2. Does(remote, [remote EXCEPT !.deltas = Append(@, b)], <<>>, <<>>,
               IF b = "some" THEN <<"some">> ELSE <<>>, <<>>)
      BY <1>0, <1>4, <2>1, DeltaDoes
    <2> QED
      BY <2>2 DEF b
  <1> HIDE DEF r
  <1>8. Does(remote, r, WireDown[e], WireUp[e], WireDelta[e], WireUsage[e])
    BY <1>5, <1>7, Zenon
  <1> QED
    BY <1>1, <1>2, <1>3, <1>8, RemoteDoes

\* An error of the handler, which is the last of its turn.
LEMMA RemoteErrorStep ==
  ASSUME ParityInv, RemoteError
  PROVE  ParityInv'
  <1> DEFINE e == Head(wire)
             ops == First(jsAt)
             r == Failed(remote)
  <1>0. remote \in Services
    BY DEF ParityInv, Typed
  <1>1. /\ remote.over = FALSE /\ wire # <<>> /\ e.type = "error"
        /\ wire' = Tail(wire) /\ UNCHANGED <<agent, adkAt, adk, bridge>> /\ remote' = r
    BY <1>0 DEF RemoteError, Consume, Services
  <1>2. e = Head(wire) /\ ops = First(jsAt)
    OBVIOUS
  <1> HIDE DEF e, ops
  <1>3. /\ wire \in Seq(Envelopes) /\ e \in Envelopes /\ e = wire[1]
        /\ Tail(wire) \in Seq(Envelopes)
        /\ script \in Seq(Ops) /\ jsAt \in 0 .. Len(script) /\ ops \in Seq(Ops)
        /\ HaveIds(wire) <=> HaveIds(ops)
        /\ Leads(remote, wire, ops, TRUE) /\ fails \in BOOLEAN
    BY <1>1, <1>2, RemoteTakes
  <1>4. e = ErrorEnvelope
    BY <1>1, <1>3, EnvelopeKinds
  <1>5. remote.started = TRUE
    BY <1>1, <1>2, <1>4, TerminalsMean, RemoteTakes
  <1>6. handler = "returned" /\ Len(wire) = 1 /\ jsAt = Len(script) /\ fails = TRUE
    <2>1. BridgeInv
      BY <1>1 DEF ParityInv, RemoteInv
    <2>2. 1 \in DOMAIN wire
      BY <1>1, <1>3
    <2>3. handler = "returned" /\ 1 = Len(wire)
      BY <1>3, <1>4, <2>1, <2>2 DEF BridgeInv
    <2>4. jsAt = Len(script) /\ wire[Len(wire)] = Terminal(fails)
      BY <2>1, <2>3 DEF BridgeInv
    <2>5. ErrorEnvelope # EndEnvelope
      BY DEF ErrorEnvelope, EndEnvelope, Envelope
    <2> QED
      BY <1>3, <1>4, <2>3, <2>4, <2>5 DEF Terminal
  <1>7. \A g \in {WireDown, WireUp, WireDelta, WireUsage} : Passed(wire, g) = <<>>
    <2>1. Tail(wire) = <<>>
      <3>1. Tail(wire) \in Seq(Envelopes) /\ Len(Tail(wire)) = 0
        BY <1>1, <1>3, <1>6, HeadAndTail
      <3> QED
        BY <3>1, EmptySeq
    <2>2. ASSUME NEW S, NEW g \in Texts(Envelopes, S), g[e] = <<>>
          PROVE  Passed(wire, g) = <<>>
      <3>1. Passed(wire, g) = IF Head(wire).id THEN g[Head(wire)] \o Passed(Tail(wire), g) ELSE <<>>
        BY <1>1, <1>3, <2>2, PassedHead
      <3>2. Passed(Tail(wire), g) = <<>>
        BY <2>1, PassedNothing
      <3>3. <<>> \o <<>> = <<>>
        OBVIOUS
      <3> QED
        BY <1>2, <2>2, <3>1, <3>2, <3>3
    <2> QED
      BY <1>4, <2>2, WireTexts, TerminalsMean
  <1>8. Stands(remote, ops)
    BY <1>0, <1>3, <1>5, <1>7, LeadsNowhere
  <1>9. /\ r \in Services /\ r.over = TRUE /\ Substance(r) = Finished(ops, TRUE)
        /\ HasError(r.up)
    BY <1>0, <1>3, <1>5, <1>8, FailedHolds DEF Stands
  <1>10. Finished(ops, TRUE) = Whole(script, fails)
    <2>1. \A failed : Finished(ops, failed) = Finished(script, failed)
      BY <1>2, <1>3, <1>6, FinishedIs DEF First
    <2>2. Finished(ops, TRUE) = Finished(script, TRUE)
      BY <2>1, Zenon
    <2>3. Finished(script, fails \/ ~HaveIds(script)) = Finished(script, TRUE)
      BY <1>6 DEF Finished
    <2> QED
      BY <2>2, <2>3 DEF Whole
  <1> HIDE DEF r
  <1> QED
    BY <1>1, <1>3, <1>9, <1>10, RemoteEnds

\* A late envelope of a turn that has failed: at most one more error, which is the
\* same to the pipeline.
LEMMA DropLateStep ==
  ASSUME ParityInv, DropLate
  PROVE  ParityInv'
  <1> DEFINE u == <<Error>>
             r == Push(remote, u, {"up"})
  <1>1. /\ wire \in Seq(Envelopes) /\ remote \in Services /\ remote.over = TRUE
        /\ wire # <<>> /\ wire' = Tail(wire) /\ UNCHANGED <<agent, adkAt, adk, bridge>>
        /\ remote' = r \/ remote' = remote
    BY DEF ParityInv, Typed, DropLate, Services, Error
  <1>2. Substance(remote) = Whole(script, fails) /\ HasError(remote.up)
    BY <1>1 DEF ParityInv, RemoteInv
  <1>3. wire' \in Seq(Envelopes)
    BY <1>1, HeadAndTail
  <1>4. CASE remote' = remote
    BY <1>1, <1>2, <1>3, <1>4, RemoteEnds
  <1>5. CASE remote' = r
    <2>1. u \in Seq(Frames) /\ Without(u, {Error}) = <<>> /\ HasError(u) /\ <<>> \in Seq(Frames)
      BY OpeningFrames, OpeningKept
    <2> HIDE DEF u
    <2>2. Pushed(remote, r, <<>>, u)
      <3>1. "down" \notin {"up"} /\ "up" \in {"up"} /\ {"up"} \in SUBSET {"down", "up"}
        OBVIOUS
      <3>2. Pushed(remote, r, IF "down" \in {"up"} THEN u ELSE <<>>,
                              IF "up" \in {"up"} THEN u ELSE <<>>)
        BY <1>1, <2>1, <3>1, PushPushes
      <3> QED
        BY <3>1, <3>2
    <2> HIDE DEF r
    <2>3. /\ Shown(r) = Shown(remote) \o Without(<<>>, {EmptyText})
          /\ Raised(r) = Raised(remote) \o Without(u, {Error})
          /\ Reported(r) = Reported(remote) /\ HasError(r.up)
      BY <1>1, <2>1, <2>2, PushedStreams
    <2>4. Without(<<>>, {EmptyText}) = <<>>
      BY WithoutNothing
    <2>5. Shown(r) = Shown(remote) /\ Raised(r) = Raised(remote)
      <3>1. Shown(remote) \o <<>> = Shown(remote) /\ Raised(remote) \o <<>> = Raised(remote)
        BY <1>1, ServiceStreams
      <3> QED
        BY <2>1, <2>3, <2>4, <3>1
    <2>6. ErrorOnce(r.up) = ErrorOnce(remote.up)
      BY <1>2, <2>3, <2>5 DEF ErrorOnce, Raised
    <2>7. Substance(r) = Substance(remote)
      BY <2>3, <2>5, <2>6 DEF Substance, Shown, Reported, EmptyText
    <2>8. r \in Services /\ r.over = TRUE
      BY <1>1, <2>2 DEF Pushed
    <2> QED
      BY <1>1, <1>2, <1>3, <1>5, <2>3, <2>7, <2>8, RemoteEnds
  <1> QED
    BY <1>1, <1>4, <1>5

\* The start frame of the bridge opens the response.
LEMMA StartDoes ==
  ASSUME NEW s \in Services,
         NEW r, r = Push([s EXCEPT !.started = TRUE], <<OutputFrame(StartEnvelope)>>, Down)
  PROVE  Does(s, r, Opening, <<>>, <<>>, <<>>)
  <1> DEFINE q == [s EXCEPT !.started = TRUE]
  <1>1. /\ q \in Services /\ q.started = TRUE /\ q.usage = s.usage /\ q.over = s.over
        /\ q.deltas = s.deltas /\ q.down = s.down /\ q.up = s.up
    BY DEF Services
  <1>2. OutputFrame(StartEnvelope) = Frame("start", "none")
    BY DEF OutputFrame, StartEnvelope, Envelope
  <1>3. r = Push(q, Opening, Down)
    BY <1>2 DEF Opening
  <1> HIDE DEF q
  <1>4. Opening \in Seq(Frames) /\ ~HasError(Opening) /\ Without(Opening, {EmptyText}) = Opening
    <2>1. Opening \in Seq(Frames) /\ DOMAIN Opening = {1} /\ Opening[1] = Frame("start", "none")
      BY OpeningFrames DEF Opening
    <2>2. Frame("start", "none") # Error
      BY DEF Frame, Error
    <2> QED
      BY <2>1, <2>2, OpeningKept DEF HasError
  <1>5. "down" \in Down /\ "up" \notin Down /\ Down \in SUBSET {"down", "up"}
    BY DEF Down
  <1>6. Does(q, r, IF "down" \in Down THEN Without(Opening, {EmptyText}) ELSE <<>>,
             IF "up" \in Down THEN Without(Opening, {Error}) ELSE <<>>, <<>>, <<>>)
    <2> DEFINE fs == Opening
    <2>1. fs \in Seq(Frames) /\ ~HasError(fs) /\ r = Push(q, fs, Down)
      BY <1>3, <1>4
    <2> HIDE DEF fs
    <2>2. Does(q, Push(q, fs, Down),
               IF "down" \in Down THEN Without(fs, {EmptyText}) ELSE <<>>,
               IF "up" \in Down THEN Without(fs, {Error}) ELSE <<>>, <<>>, <<>>)
      BY ONLY <1>1, <1>5, <2>1, PushDoes
    <2> QED
      BY <2>1, <2>2 DEF fs
  <1>7. Does(q, r, Opening, <<>>, <<>>, <<>>)
    BY <1>4, <1>5, <1>6
  <1>8. Shown(q) = Shown(s) /\ Raised(q) = Raised(s) /\ Reported(q) = Reported(s)
    BY <1>1 DEF Shown, Raised, Reported
  <1> QED
    BY <1>1, <1>7, <1>8 DEF Does

\* Any other frame is pushed as it is, in its directions.
LEMMA OutputDoes ==
  ASSUME NEW s \in Services, s.started = TRUE, NEW e \in Envelopes, e.type = "frame",
         e \notin {StartEnvelope, EndEnvelope},
         NEW r, r = Push(s, <<OutputFrame(e)>>, Directions(e.frame))
  PROVE  Does(s, r, WireDown[e], WireUp[e], WireDelta[e], WireUsage[e])
  <1> DEFINE x == OutputFrame(e)
             fs == <<x>>
             ds == Directions(e.frame)
  <1>1. x \in Frames /\ x # Error /\ e.frame # "end"
    BY OutputFrames, EnvelopeKinds
  <1>2. ds = Both \/ ds = Down
    BY DEF Directions
  <1>3. ds \in SUBSET {"down", "up"} /\ "down" \in ds /\ ("up" \in ds <=> ds = Both)
    BY <1>2 DEF Both, Down
  <1>4. /\ WireDown[e] = (IF x # EmptyText THEN fs ELSE <<>>)
        /\ WireUp[e] = (IF ds = Both THEN fs ELSE <<>>)
        /\ WireDelta[e] = <<>> /\ WireUsage[e] = <<>>
    BY <1>1 DEF WireDown, WireUp, WireDelta, WireUsage
  <1>5. r = Push(s, fs, ds)
    OBVIOUS
  <1> HIDE DEF x, ds
  <1>6. /\ fs \in Seq(Frames)
        /\ Without(fs, {EmptyText}) = (IF x # EmptyText THEN fs ELSE <<>>)
        /\ Without(fs, {Error}) = fs /\ ~HasError(fs)
    <2>1. /\ Without(fs, {EmptyText}) = Piece(x, {EmptyText})
          /\ Without(fs, {Error}) = Piece(x, {Error})
      BY <1>1, WithoutOne
    <2>2. fs \in Seq(Frames) /\ DOMAIN fs = {1} /\ fs[1] = x
      BY <1>1
    <2>3. ~HasError(fs)
      <3> HIDE DEF fs
      <3> QED
        BY <1>1, <2>2 DEF HasError
    <2> QED
      BY <1>1, <2>1, <2>2, <2>3 DEF Piece
  <1> HIDE DEF fs
  <1>7. Does(s, r, IF "down" \in ds THEN Without(fs, {EmptyText}) ELSE <<>>,
             IF "up" \in ds THEN Without(fs, {Error}) ELSE <<>>, <<>>, <<>>)
    BY <1>3, <1>5, <1>6, PushDoes, ZenonT(60)
  <1>8. /\ (IF "down" \in ds THEN Without(fs, {EmptyText}) ELSE <<>>) = WireDown[e]
        /\ (IF "up" \in ds THEN Without(fs, {Error}) ELSE <<>>) = WireUp[e]
    BY <1>3, <1>4, <1>6
  <1> QED
    BY <1>4, <1>7, <1>8

LEMMA RemoteFrameStep ==
  ASSUME ParityInv, RemoteFrame
  PROVE  ParityInv'
  <1> DEFINE e == Head(wire)
             ops == First(jsAt)
             s == Push([remote EXCEPT !.started = TRUE], <<OutputFrame(e)>>, Down)
             r == Push(Opened(remote), <<OutputFrame(e)>>, Directions(e.frame))
  <1>0. remote \in Services
    BY DEF ParityInv, Typed
  <1>1. /\ remote.over = FALSE /\ wire # <<>> /\ e.type = "frame"
        /\ wire' = Tail(wire) /\ UNCHANGED <<agent, adkAt, adk, bridge>>
        /\ remote' = CASE ~e.id -> Failed(remote)
                       [] e.frame = "end" -> Closed(remote)
                       [] e.frame = "start" -> s
                       [] OTHER -> r
    BY <1>0 DEF RemoteFrame, Consume, Services
  <1>2. e = Head(wire) /\ ops = First(jsAt)
    OBVIOUS
  <1>3. s = Push([remote EXCEPT !.started = TRUE], <<OutputFrame(e)>>, Down)
    OBVIOUS
  <1>4. r = Push(Opened(remote), <<OutputFrame(e)>>, Directions(e.frame))
    OBVIOUS
  <1> HIDE DEF e, ops, s, r
  <1>5. /\ wire \in Seq(Envelopes) /\ e \in Envelopes /\ e = wire[1]
        /\ Tail(wire) \in Seq(Envelopes)
        /\ script \in Seq(Ops) /\ jsAt \in 0 .. Len(script) /\ ops \in Seq(Ops)
        /\ e # StartEnvelope => remote.started = TRUE
        /\ HaveIds(wire) <=> HaveIds(ops)
        /\ Leads(remote, wire, ops, TRUE) /\ fails \in BOOLEAN
    BY <1>1, <1>2, RemoteTakes
  <1>6. /\ e.frame = "start" <=> e = StartEnvelope
        /\ e.frame = "end" <=> e = EndEnvelope
        /\ e # ErrorEnvelope
    BY <1>1, <1>5, EnvelopeKinds
  <1>7. StartEnvelope.id = TRUE /\ EndEnvelope.id = TRUE /\ StartEnvelope # EndEnvelope
    BY TerminalsMean
  <1>8. CASE ~e.id
    <2>1. remote' = Failed(remote) /\ remote.started = TRUE
      <3>1. e # StartEnvelope
        BY <1>7, <1>8
      <3>2. e.frame \notin {"start", "end"}
        BY <1>6, <1>7, <1>8
      <3>3. remote' = Failed(remote)
        BY <1>1, <1>8, <3>2
      <3> QED
        BY <1>5, <3>1, <3>3
    <2>2. \A g \in {WireDown, WireUp, WireDelta, WireUsage} : Passed(wire, g) = <<>>
      <3>1. ASSUME NEW S, NEW g \in Texts(Envelopes, S)
            PROVE  Passed(wire, g) = <<>>
        BY <1>1, <1>5, <1>8, <3>1, PassedNone
      <3> QED
        BY <3>1, WireTexts
    <2>3. Stands(remote, ops)
      BY <1>0, <1>5, <2>1, <2>2, LeadsNowhere
    <2>4. /\ Failed(remote) \in Services /\ Failed(remote).over = TRUE
          /\ Substance(Failed(remote)) = Finished(ops, TRUE)
          /\ HasError(Failed(remote).up)
      BY <1>0, <1>5, <2>1, <2>3, FailedHolds DEF Stands
    <2>5. Finished(ops, TRUE) = Whole(script, fails)
      <3>1. ~HaveIds(ops)
        <4>1. 1 \in DOMAIN wire /\ ~wire[1].id
          BY <1>1, <1>5, <1>8
        <4> QED
          BY <1>5, <4>1 DEF HaveIds
      <3>2. /\ \A failed : Finished(ops, failed) = Finished(script, failed)
            /\ ~HaveIds(script)
        BY <1>2, <1>5, <3>1, FinishedIs DEF First
      <3>3. Finished(ops, TRUE) = Finished(script, TRUE)
        BY <3>2, Zenon
      <3>4. Finished(script, fails \/ ~HaveIds(script)) = Finished(script, TRUE)
        BY <3>2 DEF Finished
      <3> QED
        BY <3>3, <3>4 DEF Whole
    <2> QED
      BY <1>1, <1>5, <2>1, <2>4, <2>5, RemoteEnds
  <1>9. CASE e.id /\ e.frame = "end"
    <2>1. remote' = Closed(remote) /\ remote.started = TRUE /\ e = EndEnvelope
      BY <1>1, <1>5, <1>6, <1>7, <1>9
    <2>2. handler = "returned" /\ Len(wire) = 1 /\ jsAt = Len(script) /\ fails = FALSE
      <3>1. BridgeInv
        BY <1>1 DEF ParityInv, RemoteInv
      <3>2. 1 \in DOMAIN wire
        BY <1>1, <1>5
      <3>3. handler = "returned" /\ 1 = Len(wire)
        BY <1>5, <2>1, <3>1, <3>2 DEF BridgeInv
      <3>4. jsAt = Len(script) /\ wire[Len(wire)] = Terminal(fails)
        BY <3>1, <3>3 DEF BridgeInv
      <3>5. ErrorEnvelope # EndEnvelope
        BY DEF ErrorEnvelope, EndEnvelope, Envelope
      <3> QED
        BY <1>5, <2>1, <3>3, <3>4, <3>5 DEF Terminal
    <2>3. Tail(wire) = <<>>
      <3>1. Tail(wire) \in Seq(Envelopes) /\ Len(Tail(wire)) = 0
        BY <1>1, <1>5, <2>2, HeadAndTail
      <3> QED
        BY <3>1, EmptySeq
    <2>4. \A g \in {WireDown, WireUp, WireDelta, WireUsage} : Passed(wire, g) = <<>>
      <3>1. ASSUME NEW S, NEW g \in Texts(Envelopes, S), g[e] = <<>>
            PROVE  Passed(wire, g) = <<>>
        <4>1. Passed(wire, g)
                = IF Head(wire).id THEN g[Head(wire)] \o Passed(Tail(wire), g) ELSE <<>>
          BY <1>1, <1>5, <3>1, PassedHead
        <4>2. Passed(Tail(wire), g) = <<>>
          BY <2>3, PassedNothing
        <4>3. <<>> \o <<>> = <<>>
          OBVIOUS
        <4> QED
          BY <1>2, <3>1, <4>1, <4>2, <4>3
      <3> QED
        BY <2>1, <3>1, WireTexts, TerminalsMean
    <2>5. Stands(remote, ops)
      BY <1>0, <1>5, <2>1, <2>4, LeadsNowhere
    <2>6. /\ Closed(remote) \in Services /\ Closed(remote).over = TRUE
          /\ Substance(Closed(remote)) = Finished(ops, HasError(remote.up))
      BY <1>0, <1>5, <2>1, <2>5, ClosedHolds DEF Stands
    <2>7. Finished(ops, HasError(remote.up)) = Whole(script, fails)
      <3>1. HaveIds(ops)
        <4>1. HaveIds(Tail(wire))
          BY <2>3 DEF HaveIds
        <4> QED
          BY <1>1, <1>2, <1>5, <1>9, <4>1, HeadHasId
      <3>2. /\ \A failed : Finished(ops, failed) = Finished(script, failed)
            /\ HaveIds(script)
        BY <1>2, <1>5, <2>2, <3>1, FinishedIs DEF First
      <3>3. Finished(ops, FALSE) = Finished(script, FALSE)
        BY <3>2, Zenon
      <3>4. Finished(script, fails \/ ~HaveIds(script)) = Finished(script, FALSE)
        BY <2>2, <3>2 DEF Finished
      <3>5. Finished(ops, HasError(remote.up)) = Finished(ops, FALSE)
        BY <2>5 DEF Stands, Finished
      <3> QED
        BY <3>3, <3>4, <3>5 DEF Whole
    <2> QED
      BY <1>1, <1>5, <2>1, <2>2, <2>3, <2>6, <2>7, RemoteEnds
  <1>10. CASE e.id /\ e.frame = "start"
    <2>1. remote' = s /\ e = StartEnvelope
      BY <1>1, <1>6, <1>10
    <2>2. Does(remote, s, Opening, <<>>, <<>>, <<>>)
      BY <1>0, <1>3, <2>1, StartDoes
    <2>3. Does(remote, s, WireDown[e], WireUp[e], WireDelta[e], WireUsage[e])
      BY <2>1, <2>2, TerminalsMean
    <2>4. e \notin {EndEnvelope, ErrorEnvelope}
      BY <1>6, <1>7, <2>1
    <2> QED
      BY <1>1, <1>2, <1>10, <2>1, <2>3, <2>4, RemoteDoes
  <1>11. CASE e.id /\ e.frame \notin {"start", "end"}
    <2>1. remote' = r /\ remote.started = TRUE
      BY <1>1, <1>5, <1>6, <1>11
    <2>2. Opened(remote) = remote
      BY <2>1 DEF Opened
    <2>3. e \notin {StartEnvelope, EndEnvelope, ErrorEnvelope}
      BY <1>6, <1>11
    <2>4. Does(remote, r, WireDown[e], WireUp[e], WireDelta[e], WireUsage[e])
      BY <1>0, <1>1, <1>4, <1>5, <2>1, <2>2, <2>3, OutputDoes
    <2> QED
      BY <1>1, <1>2, <1>11, <2>1, <2>3, <2>4, RemoteDoes
  <1> QED
    BY <1>8, <1>9, <1>10, <1>11

-----------------------------------------------------------------------------
(* The invariant                                                            *)

LEMMA NewRunStands ==
  /\ NewRun \in Services /\ Stands(NewRun, <<>>) /\ Leads(NewRun, <<>>, <<>>, FALSE)
  <1>1. NewRun \in Services
    <2>1. <<>> \in Seq(Frames) /\ <<>> \in Seq({"empty", "some"})
      OBVIOUS
    <2> QED
      BY <2>1 DEF NewRun, Services
  <1>2. ~HasError(NewRun.up)
    BY DEF NewRun, HasError
  <1>3. \A dull : Without(<<>>, dull) = <<>>
    BY WithoutNothing
  <1>4. \A g : Passed(<<>>, g) = <<>>
    BY PassedNothing
  <1>5. <<>> \o <<>> = <<>>
    OBVIOUS
  <1>6. Shown(NewRun) = <<>> /\ Raised(NewRun) = <<>> /\ Reported(NewRun) = <<>>
    BY <1>3 DEF Shown, Raised, Reported, NewRun
  <1>7. NewRun.usage = "none" /\ NewRun.started = FALSE
    BY DEF NewRun
  <1>8. Latest("none", <<>>) = "none" /\ Usage(<<>>) = "none"
    BY <1>4 DEF Usage, Latest
  <1> QED
    BY <1>1, <1>2, <1>4, <1>5, <1>6, <1>7, <1>8 DEF Stands, Holds, Leads, Opens

LEMMA InitParity == Init => ParityInv
  <1> SUFFICES ASSUME Init
               PROVE  ParityInv
    OBVIOUS
  <1>1. script \in Seq(Ops)
    <2>1. script \in BoundedSeq(Ops, MaxOps)
      BY DEF Init
    <2>2. PICK m \in 0 .. MaxOps : script \in [1 .. m -> Ops]
      BY <2>1, Zenon DEF BoundedSeq, SeqOf
    <2>3. m \in Nat
      BY ParityAssumption
    <2> QED
      BY <2>2, <2>3
  <1>2. /\ adkAt = 0 /\ adk = NewRun /\ handler = "asked" /\ jsAt = 0 /\ wire = <<>>
        /\ remote = NewRun /\ fails \in BOOLEAN
    BY DEF Init
  <1>3. First(0) = <<>> /\ 0 \in 0 .. Len(script)
    BY <1>1 DEF First
  <1>4. HaveIds(<<>>)
    BY DEF HaveIds
  <1>5. Typed
    <2>1. ServiceOK(NewRun) /\ NewRun \in Services
      BY NewRunStands, ServicesOK
    <2>2. <<>> \in Seq(Envelopes)
      OBVIOUS
    <2> QED
      BY <1>1, <1>2, <1>3, <2>1, <2>2 DEF Typed, TypeOK
  <1>6. NewRun.over = FALSE /\ NewRun.started = FALSE
    BY DEF NewRun
  <1>7. AdkInv
    BY <1>2, <1>3, <1>4, <1>6, NewRunStands DEF AdkInv
  <1>8. BridgeInv
    BY <1>2, <1>6 DEF BridgeInv
  <1>9. RemoteInv
    <2>1. ~(handler # "asked")
      BY <1>2
    <2>2. Leads(remote, wire, First(jsAt), FALSE)
      BY <1>2, <1>3, NewRunStands
    <2>3. Leads(remote, wire, First(jsAt), handler # "asked")
      BY <2>1, <2>2
    <2> QED
      BY <1>2, <1>3, <1>4, <1>6, <1>8, <2>3 DEF RemoteInv
  <1> QED
    BY <1>5, <1>7, <1>9 DEF ParityInv

LEMMA NextParity == ParityInv /\ [Next]_vars => ParityInv'
  <1> SUFFICES ASSUME ParityInv, [Next]_vars
               PROVE  ParityInv'
    OBVIOUS
  <1>1. CASE Adk
    BY <1>1, AdkTextStep, AdkToolStep, AdkStateDeltaStep, AdkUsageStep, AdkReturnsStep DEF Adk
  <1>2. CASE Bridge
    BY <1>2, RunTurnStep, HandlerEmitsStep, HandlerReturnsStep DEF Bridge
  <1>3. CASE Remote
    BY <1>3, RemoteFrameStep, RemoteUsageStep, RemoteStateDeltaStep, RemoteErrorStep,
       DropLateStep DEF Remote
  <1>4. CASE Quiescent \/ UNCHANGED vars
    <2>1. /\ script' = script /\ fails' = fails /\ adkAt' = adkAt /\ adk' = adk
          /\ handler' = handler /\ jsAt' = jsAt /\ wire' = wire /\ remote' = remote
      BY <1>4 DEF Quiescent, vars, agent, bridge
    <2> QED
      BY <2>1 DEF ParityInv, Typed, TypeOK, AdkInv, RemoteInv, BridgeInv, First
  <1> QED
    BY <1>1, <1>2, <1>3, <1>4 DEF Next

LEMMA ParityInvHolds == Spec => []ParityInv
  BY InitParity, NextParity, PTL DEF Spec

\* Every variable has its type, for responses of any length: a FunctionCallsStarted
\* or FunctionCallResult frame carries a dict whichever service pushed it, `or {}`
\* being applied in _handle_function_call and _handle_function_response as well as
\* in protocol.py, and nothing else gets into a stream.
THEOREM TypeCorrect == Spec => []TypeOK
  <1>1. ParityInv => TypeOK
    BY DEF ParityInv, Typed
  <1> QED
    BY <1>1, ParityInvHolds, PTL

-----------------------------------------------------------------------------
(* The same response                                                        *)

LEMMA WholeStreams ==
  ASSUME NEW t \in Seq(Ops), NEW f, NEW W, W = Whole(t, f)
  PROVE  W.down \in Seq(Frames) /\ W.up \in Seq(Frames) /\ W.deltas \in Seq(Deltas)
  <1>1. /\ Passed(t, OpDown) \in Seq(Frames) /\ Passed(t, OpUp) \in Seq(Frames)
        /\ Passed(t, OpDelta) \in Seq(Deltas) /\ Closing(Usage(t)) \in Seq(Frames)
        /\ Opening \in Seq(Frames)
    BY PassedOps, OpeningFrames
  <1>2. <<Error>> \in Seq(Frames)
    BY OpeningFrames
  <1>3. (Opening \o Passed(t, OpDown)) \o Closing(Usage(t)) \in Seq(Frames)
    BY <1>1
  <1>4. \A b : Passed(t, OpUp) \o (IF b THEN <<Error>> ELSE <<>>) \in Seq(Frames)
    BY <1>1, <1>2
  <1> QED
    BY <1>1, <1>3, <1>4 DEF Whole, Finished

\* What the first operations come to is a beginning of the whole response.
LEMMA Begins ==
  ASSUME NEW t \in Seq(Ops), NEW f, NEW W, W = Whole(t, f), NEW k \in 0 .. Len(t),
         NEW ops, ops = SubSeq(t, 1, k), NEW b \in BOOLEAN, b \/ k = 0
  PROVE  /\ ops \in Seq(Ops)
         /\ IsPrefix(Opens(b) \o Passed(ops, OpDown), W.down)
         /\ IsPrefix(Passed(ops, OpUp), W.up)
         /\ IsPrefix(Passed(ops, OpDelta), W.deltas)
  <1>1. ops \in Seq(Ops)
    OBVIOUS
  <1>2. /\ IsPrefix(Passed(ops, OpDown), Passed(t, OpDown))
        /\ IsPrefix(Passed(ops, OpUp), Passed(t, OpUp))
        /\ IsPrefix(Passed(ops, OpDelta), Passed(t, OpDelta))
    BY PassedInTwo, OpTexts
  <1>3. /\ Passed(ops, OpDown) \in Seq(Frames) /\ Passed(ops, OpUp) \in Seq(Frames)
        /\ Passed(t, OpDown) \in Seq(Frames) /\ Passed(t, OpUp) \in Seq(Frames)
    BY <1>1, PassedOps
  <1>4. /\ W.down \in Seq(Frames) /\ W.up \in Seq(Frames)
        /\ Opening \in Seq(Frames) /\ Closing(Usage(t)) \in Seq(Frames)
    BY WholeStreams, PassedOps, OpeningFrames
  <1>5. IsPrefix(Opens(b) \o Passed(ops, OpDown), W.down)
    <2>1. CASE b
      <3> DEFINE p == Opening \o Passed(ops, OpDown)
                 q == Opening \o Passed(t, OpDown)
                 u == Closing(Usage(t))
      <3>1. p \in Seq(Frames) /\ q \in Seq(Frames) /\ u \in Seq(Frames)
        BY <1>3, <1>4
      <3>2. IsPrefix(p, q)
        BY <1>2, <1>3, <1>4, BeginsAfter
      <3>3. W.down = q \o u
        BY DEF Whole, Finished
      <3> HIDE DEF p, q, u
      <3>4. IsPrefix(q, q \o u)
        BY <3>1, BeginsJoined
      <3>5. IsPrefix(p, W.down)
        BY <1>4, <3>1, <3>2, <3>3, <3>4, BeginsTransitively
      <3> QED
        BY <2>1, <3>5 DEF Opens, p
    <2>2. CASE ~b
      <3>1. ops = <<>>
        BY <2>2
      <3>2. Opens(b) \o Passed(ops, OpDown) = <<>>
        <4>1. <<>> \o <<>> = <<>>
          OBVIOUS
        <4> QED
          BY <2>2, <3>1, <4>1, PassedNothing DEF Opens
      <3>3. IsPrefix(<<>>, <<>> \o W.down) /\ <<>> \o W.down = W.down
        <4>1. <<>> \in Seq(Frames) /\ <<>> \o W.down = W.down
          BY <1>4
        <4> QED
          BY <1>4, <4>1, BeginsJoined
      <3>4. IsPrefix(<<>>, W.down)
        BY <3>3
      <3> QED
        BY <3>2, <3>4
    <2> QED
      BY <2>1, <2>2
  <1>6. IsPrefix(Passed(ops, OpUp), W.up)
    <2> DEFINE p == Passed(t, OpUp)
               u == IF f \/ ~HaveIds(t) THEN <<Error>> ELSE <<>>
    <2>1. u \in Seq(Frames)
      BY OpeningFrames
    <2>2. W.up = p \o u
      BY DEF Whole, Finished
    <2>3. p \in Seq(Frames)
      BY <1>3
    <2>4. IsPrefix(Passed(ops, OpUp), p)
      BY <1>2
    <2> HIDE DEF p, u
    <2>5. IsPrefix(p, p \o u)
      BY <2>1, <2>3, BeginsJoined
    <2> QED
      BY <1>3, <1>4, <2>2, <2>3, <2>4, <2>5, BeginsTransitively, ZenonT(60)
  <1>7. IsPrefix(Passed(ops, OpDelta), W.deltas)
    BY <1>2 DEF Whole, Finished
  <1> QED
    BY <1>1, <1>5, <1>6, <1>7

\* x is a beginning of the response W, and all of it once the service is over.
Within(x, over, W) ==
  /\ x.down \in Seq(Frames) /\ x.up \in Seq(Frames) /\ x.deltas \in Seq(Deltas)
  /\ IsPrefix(x.down, W.down) /\ IsPrefix(x.up, W.up) /\ IsPrefix(x.deltas, W.deltas)
  /\ over => x.down = W.down /\ x.up = W.up /\ x.deltas = W.deltas

LEMMA WholeWithin ==
  ASSUME NEW t \in Seq(Ops), NEW f, NEW W, W = Whole(t, f), NEW over
  PROVE  Within(W, over, W)
  <1>1. W.down \in Seq(Frames) /\ W.up \in Seq(Frames) /\ W.deltas \in Seq(Deltas)
    BY WholeStreams
  <1>2. /\ IsPrefix(W.down, W.down) /\ IsPrefix(W.up, W.up) /\ IsPrefix(W.deltas, W.deltas)
    BY <1>1, PrefixIs
  <1> QED
    BY <1>1, <1>2 DEF Within

\* A service without an error has shown its substance as it is.
LEMMA SubstanceIs ==
  ASSUME NEW s \in Services, ~HasError(s.up)
  PROVE  /\ Substance(s).down = Shown(s) /\ Substance(s).up = Raised(s)
         /\ Substance(s).deltas = Reported(s)
  <1>1. Raised(s) \o <<>> = Raised(s)
    BY ServiceStreams
  <1>2. ErrorOnce(s.up) = Raised(s) \o <<>>
    BY DEF ErrorOnce, Raised
  <1> QED
    BY <1>1, <1>2 DEF Substance, Shown, Reported, EmptyText

LEMMA AdkWithin ==
  ASSUME ParityInv, NEW W, W = Whole(script, fails)
  PROVE  Within(Substance(adk), adk.over, W)
  <1>1. script \in Seq(Ops) /\ adk \in Services /\ adkAt \in 0 .. Len(script)
    BY DEF ParityInv, Typed, TypeOK
  <1>2. CASE adk.over
    <2>1. Substance(adk) = W
      BY <1>2 DEF ParityInv, AdkInv
    <2> QED
      BY <1>1, <2>1, WholeWithin
  <1>3. CASE ~adk.over
    <2> DEFINE ops == First(adkAt)
               b == adk.started
    <2>1. /\ (b <=> adkAt # 0) /\ Stands(adk, ops)
      BY <1>3 DEF ParityInv, AdkInv
    <2>2. b \in BOOLEAN /\ (b \/ adkAt = 0)
      BY <1>1, <2>1 DEF Services
    <2>3. ops = SubSeq(script, 1, adkAt)
      BY DEF First
    <2>4. /\ Shown(adk) = Opens(b) \o Passed(ops, OpDown)
          /\ Raised(adk) = Passed(ops, OpUp) /\ Reported(adk) = Passed(ops, OpDelta)
          /\ ~HasError(adk.up)
      BY <2>1 DEF Stands, Holds
    <2> HIDE DEF ops, b
    <2>5. /\ IsPrefix(Opens(b) \o Passed(ops, OpDown), W.down)
          /\ IsPrefix(Passed(ops, OpUp), W.up)
          /\ IsPrefix(Passed(ops, OpDelta), W.deltas)
      BY <1>1, <2>2, <2>3, Begins
    <2>6. /\ Substance(adk).down = Shown(adk) /\ Substance(adk).up = Raised(adk)
          /\ Substance(adk).deltas = Reported(adk)
      BY <1>1, <2>4, SubstanceIs
    <2> QED
      BY <1>1, <1>3, <2>4, <2>5, <2>6, ServiceStreams DEF Within
  <1> QED
    BY <1>2, <1>3

LEMMA RemoteWithin ==
  ASSUME ParityInv, NEW W, W = Whole(script, fails)
  PROVE  Within(Substance(remote), remote.over, W)
  <1>1. /\ script \in Seq(Ops) /\ remote \in Services /\ jsAt \in 0 .. Len(script)
        /\ wire \in Seq(Envelopes)
    BY DEF ParityInv, Typed, TypeOK
  <1>2. CASE remote.over
    <2>1. Substance(remote) = W
      BY <1>2 DEF ParityInv, RemoteInv
    <2> QED
      BY <1>1, <2>1, WholeWithin
  <1>3. CASE ~remote.over
    <2> DEFINE ops == First(jsAt)
               b == handler # "asked"
    <2>1. BridgeInv /\ Leads(remote, wire, ops, b)
      BY <1>3 DEF ParityInv, RemoteInv
    <2>2. b \in BOOLEAN /\ (b \/ jsAt = 0)
      BY <2>1 DEF BridgeInv
    <2>3. ops = SubSeq(script, 1, jsAt)
      BY DEF First
    <2> HIDE DEF ops, b
    <2>4. /\ Shown(remote) \o Passed(wire, WireDown) = Opens(b) \o Passed(ops, OpDown)
          /\ Raised(remote) \o Passed(wire, WireUp) = Passed(ops, OpUp)
          /\ Reported(remote) \o Passed(wire, WireDelta) = Passed(ops, OpDelta)
          /\ ~HasError(remote.up)
      BY <2>1 DEF Leads
    <2>5. /\ IsPrefix(Opens(b) \o Passed(ops, OpDown), W.down)
          /\ IsPrefix(Passed(ops, OpUp), W.up)
          /\ IsPrefix(Passed(ops, OpDelta), W.deltas)
          /\ ops \in Seq(Ops)
      BY <1>1, <2>2, <2>3, Begins
    <2>6. ASSUME NEW S, NEW x \in Seq(S), NEW y \in Seq(S), NEW z \in Seq(S),
                 IsPrefix(x \o y, z)
          PROVE  IsPrefix(x, z)
      <3>1. x \o y \in Seq(S) /\ IsPrefix(x, x \o y)
        BY BeginsJoined
      <3> QED
        BY <2>6, <3>1, BeginsTransitively
    <2>7. /\ Passed(wire, WireDown) \in Seq(Frames) /\ Passed(wire, WireUp) \in Seq(Frames)
          /\ Passed(wire, WireDelta) \in Seq(Deltas)
      BY <1>1, WireTexts, PassedType
    <2>8. /\ Shown(remote) \in Seq(Frames) /\ Raised(remote) \in Seq(Frames)
          /\ Reported(remote) \in Seq(Deltas)
      BY <1>1, ServiceStreams
    <2>9. W.down \in Seq(Frames) /\ W.up \in Seq(Frames) /\ W.deltas \in Seq(Deltas)
      BY <1>1, WholeStreams
    <2>10. /\ IsPrefix(Shown(remote), W.down) /\ IsPrefix(Raised(remote), W.up)
           /\ IsPrefix(Reported(remote), W.deltas)
      <3>1. /\ IsPrefix(Shown(remote) \o Passed(wire, WireDown), W.down)
            /\ IsPrefix(Raised(remote) \o Passed(wire, WireUp), W.up)
            /\ IsPrefix(Reported(remote) \o Passed(wire, WireDelta), W.deltas)
        BY <2>4, <2>5
      <3>2. IsPrefix(Shown(remote), W.down)
        BY <2>6, <2>7, <2>8, <2>9, <3>1
      <3>3. IsPrefix(Raised(remote), W.up)
        BY <2>6, <2>7, <2>8, <2>9, <3>1
      <3>4. IsPrefix(Reported(remote), W.deltas)
        BY <2>6, <2>7, <2>8, <2>9, <3>1
      <3> QED
        BY <3>2, <3>3, <3>4
    <2>11. /\ Substance(remote).down = Shown(remote) /\ Substance(remote).up = Raised(remote)
           /\ Substance(remote).deltas = Reported(remote)
      BY <1>1, <2>4, SubstanceIs
    <2> QED
      BY <1>3, <2>8, <2>10, <2>11 DEF Within
  <1> QED
    BY <1>2, <1>3

\* The backends are interchangeable, for every agent, however long its response:
\* what _run_adk and _run_remote have pushed downstream, pushed upstream and
\* reported as state deltas are at any time two beginnings of one response, which
\* depends on what the agent does and on nothing else, and each of them is all of
\* it once its run is over (docs/websocket-bridge.md: a black-box-equivalent
\* replacement for AdkLLMService).
THEOREM BackendsGiveOneResponse == Spec => []SameResponse
  <1>1. ASSUME ParityInv
        PROVE  SameResponse
    <2> DEFINE a == Substance(adk)
               r == Substance(remote)
               W == Whole(script, fails)
    <2>1. Within(a, adk.over, W) /\ Within(r, remote.over, W)
      BY <1>1, AdkWithin, RemoteWithin
    <2>2. DOMAIN a = {"down", "up", "deltas"} /\ DOMAIN r = {"down", "up", "deltas"}
      BY DEF Substance
    <2>3. /\ a["down"] = a.down /\ a["up"] = a.up /\ a["deltas"] = a.deltas
          /\ r["down"] = r.down /\ r["up"] = r.up /\ r["deltas"] = r.deltas
      OBVIOUS
    <2>4. W.down \in Seq(Frames) /\ W.up \in Seq(Frames) /\ W.deltas \in Seq(Deltas)
      BY <1>1, WholeStreams DEF ParityInv, Typed
    <2>5. SameResponse <=>
            /\ \A stream \in {"down", "up", "deltas"} :
                 IsPrefix(a[stream], r[stream]) \/ IsPrefix(r[stream], a[stream])
            /\ adk.over => \A stream \in DOMAIN a : IsPrefix(r[stream], a[stream])
            /\ remote.over => \A stream \in DOMAIN r : IsPrefix(a[stream], r[stream])
      BY DEF SameResponse
    <2> HIDE DEF a, r, W
    <2>6. /\ IsPrefix(a.down, r.down) \/ IsPrefix(r.down, a.down)
          /\ IsPrefix(a.up, r.up) \/ IsPrefix(r.up, a.up)
          /\ IsPrefix(a.deltas, r.deltas) \/ IsPrefix(r.deltas, a.deltas)
      BY <2>1, <2>4, BeginningsCompare DEF Within
    <2>7. adk.over => \A stream \in {"down", "up", "deltas"} : IsPrefix(r[stream], a[stream])
      BY <2>1, <2>3 DEF Within
    <2>8. remote.over => \A stream \in {"down", "up", "deltas"} : IsPrefix(a[stream], r[stream])
      BY <2>1, <2>3 DEF Within
    <2> QED
      BY <2>2, <2>3, <2>5, <2>6, <2>7, <2>8
  <1> QED
    BY <1>1, ParityInvHolds, PTL

=============================================================================
