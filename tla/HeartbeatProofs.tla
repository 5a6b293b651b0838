---------------------------- MODULE HeartbeatProofs ----------------------------
(***************************************************************************)
(* That the heartbeat never closes a socket on misses that are not         *)
(* consecutive, by itself and in the client that reconnects, and that over *)
(* the connections it closes the bridge's hooks are called for what was    *)
(* sent, for every bound on messages, reports and connections.             *)
(***************************************************************************)
EXTENDS RemoteHeard, TLAPS

-----------------------------------------------------------------------------
(* The heartbeat                                                            *)

\* A counted miss means that a ping has gone unanswered, and, once the next one
\* is sent, two.
MissCounted ==
  /\ missed = 1 /\ loop = "interval" => unanswered >= 1
  /\ missed = 1 /\ loop = "timeout" => unanswered >= 2

IInv == TypeOK /\ MissCounted

\* A counter that saturates stays within its bound.
LEMMA OneMoreBounded ==
  ASSUME NEW b \in Nat, NEW n \in 0 .. b
  PROVE  OneMore(n, b) \in 0 .. b
  <1>1. CASE n < b
    BY <1>1, SMT DEF OneMore
  <1>2. CASE ~(n < b)
    BY <1>2, SMT DEF OneMore
  <1> QED
    BY <1>1, <1>2

\* The loop and the receive task start with nothing counted.
LEMMA InitIInv == Init => IInv
  <1> SUFFICES ASSUME Init PROVE IInv
    OBVIOUS
  <1>1. wedged \in BOOLEAN
    BY Zenon DEF Init
  <1>2. /\ unanswered \in 0 .. 2 /\ missed \in 0 .. 1
        /\ toJS \in 0 .. MaxInFlight /\ toPy \in 0 .. MaxInFlight
    BY HeartbeatAssumption, SMT DEF HeartbeatAssumption, Init
  <1> QED
    BY <1>1, <1>2 DEF Init, IInv, TypeOK, MissCounted

\* Every step of the heartbeat, the bridge and the network preserves it.
LEMMA NextIInv == IInv /\ [Next]_vars => IInv'
  <1> SUFFICES ASSUME IInv, [Next]_vars PROVE IInv'
    OBVIOUS
  <1> USE HeartbeatAssumption DEF HeartbeatAssumption, IInv
  <1>1. CASE SendPing
    <2>1. /\ unanswered' \in 0 .. 2
          /\ unanswered < 2 => unanswered' = unanswered + 1
          /\ unanswered = 2 => unanswered' = 2
      BY <1>1, SMT DEF SendPing, OneMore, TypeOK
    <2>2. toJS' \in 0 .. MaxInFlight
      BY <1>1, OneMoreBounded DEF SendPing, TypeOK
    <2> QED
      BY <1>1, <2>1, <2>2 DEF SendPing, TypeOK, MissCounted
  <1>2. CASE Answered
    BY <1>2 DEF Answered, TypeOK, MissCounted
  <1>3. CASE Miss
    BY <1>3 DEF Miss, TypeOK, MissCounted
  <1>4. CASE ForceReconnect
    BY <1>4 DEF ForceReconnect, TypeOK, MissCounted
  <1>5. CASE ReceivePong
    BY <1>5 DEF ReceivePong, TypeOK, MissCounted
  <1>6. CASE Pong
    <2>1. toPy' \in 0 .. MaxInFlight
      BY <1>6, OneMoreBounded DEF Pong, TypeOK
    <2> QED
      BY <1>6, <2>1 DEF Pong, TypeOK, MissCounted
  <1>7. CASE Wedge
    BY <1>7 DEF Wedge, TypeOK, MissCounted
  <1>8. CASE Drop
    BY <1>8 DEF Drop, TypeOK, MissCounted
  <1>9. CASE Reconnect
    BY <1>9 DEF Reconnect, TypeOK, MissCounted
  <1>10. CASE UNCHANGED vars
    BY <1>10 DEF vars, TypeOK, MissCounted
  <1> QED
    BY <1>1, <1>2, <1>3, <1>4, <1>5, <1>6, <1>7, <1>8, <1>9, <1>10
    DEF Next, HeartbeatLoop

\* _missed_heartbeats, reset by _dispatch from another task, counts consecutive
\* misses: a socket is closed only after two pings that no pong came after.
THEOREM TwoPingsBeforeClosing == Spec => ClosedAfterTwoPings
  <1>1. IInv /\ [Next]_vars => [ForceReconnect => unanswered >= 2]_vars
    BY DEF IInv, TypeOK, MissCounted, ForceReconnect
  <1> QED
    BY <1>1, InitIInv, NextIInv, PTL DEF Spec, ClosedAfterTwoPings
-----------------------------------------------------------------------------
(* The messages of a connection                                             *)

Messages == 0 .. SessionEnd

\* What the handler of connection c has got or may still get.
Line(c) == called[c] \o inbox[c]

\* s goes through the members of S one after another, without a gap.
InOrder(s, S) ==
  \A i \in DOMAIN s :
    s[i] \in S /\ \A m \in S : m < s[i] <=> \E h \in DOMAIN s : h < i /\ s[h] = m

Complete(s, S) == \A m \in S : \E i \in DOMAIN s : s[i] = m

\* What is on a connection is its own, in order, and nothing was lost of it while
\* it is open.
LineOK(c) ==
  /\ InOrder(Line(c), Sent(c))
  /\ c = conn /\ sock = "open" => Complete(Line(c), Sent(c))

\* Nothing has begun on the connections not yet made, and what is sent next is
\* larger than what was sent before.
ReportInv ==
  /\ ReportTypeOK /\ IInv
  /\ inbox \in [Connection -> Seq(Messages)] /\ called \in [Connection -> Seq(Messages)]
  /\ \A c \in Connection : conn < c => called[c] = <<>> /\ inbox[c] = <<>>
  /\ \A m \in 1 .. SessionEnd : sentOn[m] # 0 =>
       m <= reports \/ (m = SessionEnd /\ leaving # "no")
  /\ \A c \in Connection : LineOK(c)

\* Whatever begins s is in order if s is.
LEMMA BeginningInOrder ==
  ASSUME NEW s \in Seq(Messages), NEW t \in Seq(Messages), NEW S,
         Len(t) <= Len(s), \A i \in DOMAIN t : t[i] = s[i], InOrder(s, S)
  PROVE  InOrder(t, S)
  <1>1. DOMAIN t \subseteq DOMAIN s
    OBVIOUS
  <1>2. ASSUME NEW i \in DOMAIN t, NEW h \in DOMAIN s, h < i
        PROVE  h \in DOMAIN t
    BY <1>2
  <1> QED
    BY <1>1, <1>2 DEF InOrder

\* A message larger than those of S goes to the end.
LEMMA LargerInOrder ==
  ASSUME NEW s \in Seq(Messages), NEW S \in SUBSET Messages, NEW m \in Messages,
         \A k \in S : k < m, InOrder(s, S), Complete(s, S)
  PROVE  InOrder(Append(s, m), S \cup {m}) /\ Complete(Append(s, m), S \cup {m})
  <1> DEFINE t == Append(s, m)
  <1>1. /\ DOMAIN s = 1 .. Len(s) /\ Len(s) \in Nat /\ DOMAIN t = 1 .. Len(s) + 1
        /\ t[Len(s) + 1] = m /\ \A i \in DOMAIN s : t[i] = s[i]
    OBVIOUS
  <1> HIDE DEF t
  <1>2. m \in Nat /\ \A k \in S : k \in Nat /\ k < m
    BY DEF Messages, SessionEnd
  <1>3. ASSUME NEW i \in DOMAIN t
        PROVE  /\ t[i] \in S \cup {m}
               /\ \A k \in S \cup {m} : k < t[i] <=> \E h \in DOMAIN t : h < i /\ t[h] = k
    <2>1. CASE i \in DOMAIN s
      <3>1. t[i] \in S /\ t[i] = s[i]
        BY <1>1, <2>1 DEF InOrder
      <3>2. ASSUME NEW k \in S
            PROVE  k < t[i] <=> \E h \in DOMAIN t : h < i /\ t[h] = k
        <4>1. k < s[i] <=> \E h \in DOMAIN s : h < i /\ s[h] = k
          BY <2>1 DEF InOrder
        <4>2. \A h \in DOMAIN t : h < i => h \in DOMAIN s
          BY <1>1, <2>1
        <4> QED
          BY <1>1, <3>1, <4>1, <4>2
      <3>3. ~(m < t[i])
        <4>1. t[i] \in Nat /\ t[i] < m
          BY <1>2, <3>1
        <4> QED
          BY <1>2, <4>1
      <3>4. ASSUME NEW h \in DOMAIN t, h < i
            PROVE  t[h] # m
        <4>1. h \in DOMAIN s
          BY <1>1, <2>1, <3>4
        <4>2. t[h] \in S
          BY <1>1, <4>1 DEF InOrder
        <4> QED
          BY <1>2, <4>2
      <3> QED
        BY <3>1, <3>2, <3>3, <3>4
    <2>2. CASE i = Len(s) + 1
      <3>1. t[i] = m
        BY <1>1, <2>2
      <3>2. ASSUME NEW k \in S
            PROVE  \E h \in DOMAIN t : h < i /\ t[h] = k
        <4>1. PICK h \in DOMAIN s : s[h] = k
          BY DEF Complete
        <4> QED
          BY <1>1, <2>2, <4>1
      <3>3. ASSUME NEW h \in DOMAIN t, h < i
            PROVE  t[h] # m
        <4>1. h \in DOMAIN s
          BY <1>1, <2>2, <3>3
        <4>2. t[h] \in S
          BY <1>1, <4>1 DEF InOrder
        <4> QED
          BY <1>2, <4>2
      <3> QED
        BY <1>2, <3>1, <3>2, <3>3
    <2> QED
      BY <1>1, <2>1, <2>2
  <1>4. \A k \in S \cup {m} : \E i \in DOMAIN t : t[i] = k
    <2>1. ASSUME NEW k \in S
          PROVE  \E i \in DOMAIN t : t[i] = k
      <3>1. PICK i \in DOMAIN s : s[i] = k
        BY DEF Complete
      <3> QED
        BY <1>1, <3>1
    <2> QED
      BY <1>1, <2>1
  <1> QED
    BY <1>3, <1>4 DEF InOrder, Complete, t

\* What becomes of a line when a message goes in, ...
LEMMA LineTakes ==
  ASSUME NEW s \in Seq(Messages), NEW t \in Seq(Messages), NEW m \in Messages
  PROVE  s \o Append(t, m) = Append(s \o t, m)
  OBVIOUS

\* ... is lost with all that follows it, ...
LEMMA LineLosesEnd ==
  ASSUME NEW s \in Seq(Messages), NEW t \in Seq(Messages), NEW n \in 0 .. Len(t)
  PROVE  /\ SubSeq(t, 1, n) \in Seq(Messages)
         /\ Len(s \o SubSeq(t, 1, n)) <= Len(s \o t)
         /\ \A i \in DOMAIN (s \o SubSeq(t, 1, n)) :
              (s \o SubSeq(t, 1, n))[i] = (s \o t)[i]
  <1> DEFINE u == SubSeq(t, 1, n)
  <1>1. /\ u \in Seq(Messages) /\ Len(u) = n /\ n \in Nat /\ n <= Len(t)
        /\ \A i \in 1 .. n : u[i] = t[i]
    OBVIOUS
  <1> HIDE DEF u
  <1>2. Len(s \o u) <= Len(s \o t)
    BY <1>1
  <1>3. ASSUME NEW i \in DOMAIN (s \o u)
        PROVE  (s \o u)[i] = (s \o t)[i]
    <2>1. CASE i <= Len(s)
      BY <1>1, <2>1
    <2>2. CASE ~(i <= Len(s))
      <3>1. i - Len(s) \in 1 .. n
        BY <1>1, <2>2
      <3>2. (s \o u)[i] = u[i - Len(s)] /\ (s \o t)[i] = t[i - Len(s)]
        BY <1>1, <2>2, <3>1
      <3> QED
        BY <1>1, <3>1, <3>2
    <2> QED
      BY <2>1, <2>2
  <1> QED
    BY <1>1, <1>2, <1>3 DEF u

\* ... or is handled.
LEMMA LineMoves ==
  ASSUME NEW s \in Seq(Messages), NEW t \in Seq(Messages)
  PROVE  /\ t # <<>> => Append(s, Head(t)) \o Tail(t) = s \o t
         /\ s \o t \in Seq(Messages) /\ Len(s) <= Len(s \o t) /\ s \o <<>> = s
         /\ \A i \in DOMAIN s : s[i] = (s \o t)[i]
  <1>1. ASSUME t # <<>>
        PROVE  Append(s, Head(t)) \o Tail(t) = s \o t
    BY <1>1
  <1>2. s \o t \in Seq(Messages) /\ Len(s) <= Len(s \o t) /\ s \o <<>> = s
    OBVIOUS
  <1>3. \A i \in DOMAIN s : s[i] = (s \o t)[i]
    OBVIOUS
  <1> QED
    BY <1>1, <1>2, <1>3

\* The line of the next state, by name.
LEMMA LineAfter ==
  ASSUME NEW c, NEW s, NEW S, s = Line(c)', S = Sent(c)', InOrder(s, S),
         c = conn' /\ sock' = "open" => Complete(s, S)
  PROVE  LineOK(c)'
  <1>1. /\ s = called'[c] \o inbox'[c]
        /\ S = {SessionStart} \cup {m \in 1 .. SessionEnd : sentOn'[m] = c}
    BY DEF Line, Sent
  <1>2. InOrder(called'[c] \o inbox'[c],
                {SessionStart} \cup {m \in 1 .. SessionEnd : sentOn'[m] = c})
    BY <1>1
  <1>3. c = conn' /\ sock' = "open" =>
          Complete(called'[c] \o inbox'[c],
                   {SessionStart} \cup {m \in 1 .. SessionEnd : sentOn'[m] = c})
    BY <1>1
  <1> QED
    BY <1>2, <1>3 DEF LineOK, InOrder, Complete, Line, Sent

LEMMA LineFacts ==
  ASSUME ReportTypeOK, NEW c \in Connection
  PROVE  /\ called[c] \in Seq(Messages) /\ inbox[c] \in Seq(Messages)
         /\ Line(c) \in Seq(Messages) /\ Sent(c) \in SUBSET Messages
         /\ conn \in Nat /\ c \in Nat /\ MaxReports \in Nat /\ SessionEnd = MaxReports + 1
  <1>1. called[c] \in Seq(Messages) /\ inbox[c] \in Seq(Messages)
    BY DEF ReportTypeOK, Messages
  <1>2. Line(c) \in Seq(Messages)
    BY <1>1 DEF Line
  <1>3. /\ conn \in Nat /\ c \in Nat /\ MaxReports \in Nat
        /\ SessionEnd = MaxReports + 1
    BY RemoteAssumption DEF RemoteAssumption, ReportTypeOK, Connection, SessionEnd
  <1>4. Sent(c) \in SUBSET Messages
    BY <1>3 DEF Sent, Messages, SessionStart
  <1> QED
    BY <1>1, <1>2, <1>3, <1>4

\* Connection c stays as it is, unless it is closed.
LEMMA LineStays ==
  ASSUME ReportInv, NEW c \in Connection, LineOK(c),
         inbox'[c] = inbox[c], called'[c] = called[c], Sent(c)' = Sent(c),
         c = conn' /\ sock' = "open" => c = conn /\ sock = "open"
  PROVE  LineOK(c)'
  <1>1. Line(c)' = Line(c)
    BY DEF Line
  <1> QED
    BY <1>1, LineAfter DEF LineOK

\* _safe_send of a message larger than those before.
LEMMA SafeSendKeeps ==
  ASSUME ReportInv, NEW m \in 1 .. SessionEnd, SafeSend(m),
         \A k \in 1 .. SessionEnd : sentOn[k] # 0 => k < m,
         called' = called, conn' = conn, sock' = sock
  PROVE  /\ sentOn' \in [1 .. SessionEnd -> 0 .. conn']
         /\ \A c \in Connection : inbox'[c] \in Seq(0 .. SessionEnd)
         /\ \A c \in Connection : conn' < c => called'[c] = <<>> /\ inbox'[c] = <<>>
         /\ \A k \in 1 .. SessionEnd : sentOn'[k] # 0 => sentOn[k] # 0 \/ k = m
         /\ \A c \in Connection : LineOK(c)'
         /\ inbox' \in [Connection -> Seq(Messages)]
  <1>0. /\ ReportTypeOK /\ conn \in Connection /\ inbox \in [Connection -> Seq(Messages)]
        /\ sentOn \in [1 .. SessionEnd -> 0 .. conn] /\ m \in Messages
    BY DEF ReportInv, ReportTypeOK, Messages
  <1>1. CASE sock # "open"
    <2>1. UNCHANGED <<sentOn, inbox>>
      BY <1>1 DEF SafeSend
    <2>2. \A c \in Connection : Sent(c)' = Sent(c)
      BY <2>1 DEF Sent
    <2>3. ASSUME NEW c \in Connection
          PROVE  LineOK(c)'
      BY <2>1, <2>2, LineStays DEF ReportInv
    <2> QED
      BY <1>0, <2>1, <2>3 DEF ReportInv, ReportTypeOK
  <1>2. CASE sock = "open"
    <2>1. /\ sentOn' = [sentOn EXCEPT ![m] = conn]
          /\ inbox' = [inbox EXCEPT ![conn] = Append(@, m)]
      BY <1>2 DEF SafeSend
    <2>2. /\ inbox'[conn] = Append(inbox[conn], m)
          /\ \A c \in Connection : c # conn => inbox'[c] = inbox[c]
          /\ inbox' \in [Connection -> Seq(Messages)]
      BY <1>0, <2>1
    <2>3. /\ sentOn' \in [1 .. SessionEnd -> 0 .. conn] /\ sentOn'[m] = conn
          /\ \A k \in 1 .. SessionEnd : k # m => sentOn'[k] = sentOn[k]
      BY <1>0, <2>1, LineFacts
    <2>4. sentOn[m] = 0
      <3>1. m \in Nat /\ ~(m < m)
        BY <1>0, LineFacts
      <3> QED
        BY <3>1
    <2>5. ASSUME NEW c \in Connection, c # conn
          PROVE  LineOK(c)'
      <3>1. Sent(c)' = Sent(c)
        <4>1. c # 0
          BY DEF Connection
        <4> QED
          BY <2>3, <2>4, <2>5, <4>1 DEF Sent
      <3> QED
        BY <2>2, <2>5, <3>1, LineStays DEF ReportInv
    <2>6. ASSUME NEW c, c = conn
          PROVE  LineOK(c)'
      <3>1. Sent(c)' = Sent(c) \cup {m}
        BY <2>3, <2>6 DEF Sent
      <3>2. Line(c)' = Append(Line(c), m)
        <4>1. called[c] \in Seq(Messages) /\ inbox[c] \in Seq(Messages)
          BY <1>0, <2>6, LineFacts
        <4>2. called[c] \o Append(inbox[c], m) = Append(called[c] \o inbox[c], m)
          BY <1>0, <4>1, LineTakes
        <4>3. inbox'[c] = Append(inbox[c], m) /\ called'[c] = called[c]
          BY <2>2, <2>6
        <4> QED
          BY <4>2, <4>3 DEF Line
      <3>3. \A k \in Sent(c) : k < m
        <4>1. c # 0 /\ 0 < m
          BY <1>0, <2>6, LineFacts DEF Connection
        <4> QED
          BY <4>1 DEF Sent, SessionStart
      <3>4. InOrder(Line(c), Sent(c)) /\ Complete(Line(c), Sent(c))
        BY <1>0, <1>2, <2>6 DEF ReportInv, LineOK
      <3>5. /\ InOrder(Append(Line(c), m), Sent(c) \cup {m})
            /\ Complete(Append(Line(c), m), Sent(c) \cup {m})
        BY <1>0, <2>6, <3>3, <3>4, LineFacts, LargerInOrder
      <3> QED
        BY <3>1, <3>2, <3>5, LineAfter
    <2>7. \A c \in Connection : conn' < c => called'[c] = <<>> /\ inbox'[c] = <<>>
      <3>1. ~(conn < conn)
        BY <1>0, LineFacts
      <3> QED
        BY <2>2, <3>1 DEF ReportInv
    <2> QED
      BY <2>2, <2>3, <2>5, <2>6, <2>7 DEF Messages
  <1> QED
    BY <1>1, <1>2

LEMMA SendKeeps ==
  ASSUME ReportInv, SendTurnCompleted
  PROVE  ReportInv'
  <1>0. /\ ReportTypeOK /\ IInv /\ MaxReports \in Nat /\ SessionEnd = MaxReports + 1
        /\ reports \in Nat /\ reports < MaxReports /\ leaving = "no"
        /\ reports' = reports + 1 /\ UNCHANGED <<vars, conn, called, leaving>>
    BY RemoteAssumption
    DEF RemoteAssumption, ReportInv, ReportTypeOK, SendTurnCompleted, SessionEnd
  <1> DEFINE m == reports + 1
  <1>1. m \in 1 .. SessionEnd /\ SafeSend(m)
    BY <1>0 DEF SendTurnCompleted
  <1>2. \A k \in 1 .. SessionEnd : sentOn[k] # 0 => k < m
    BY <1>0 DEF ReportInv
  <1> HIDE DEF m
  <1>3. called' = called /\ conn' = conn /\ sock' = sock
    BY <1>0 DEF vars
  <1>4. IInv'
    BY <1>0, NextIInv
  <1>5. \A k \in 1 .. SessionEnd : sentOn'[k] # 0 => k <= reports'
    <2>1. \A k \in 1 .. SessionEnd : sentOn'[k] # 0 => sentOn[k] # 0 \/ k = m
      BY <1>1, <1>2, <1>3, SafeSendKeeps
    <2>2. \A k \in 1 .. SessionEnd : k < m \/ k = m => k <= reports'
      BY <1>0 DEF m
    <2> QED
      BY <1>2, <2>1, <2>2
  <1>6. ReportTypeOK'
    <2>1. reports' \in 0 .. MaxReports
      BY <1>0
    <2> QED
      BY <1>0, <1>1, <1>2, <1>3, <1>4, <2>1, SafeSendKeeps DEF ReportTypeOK, IInv
  <1> QED
    BY <1>1, <1>2, <1>3, <1>4, <1>5, <1>6, SafeSendKeeps DEF ReportInv

LEMMA DisconnectKeeps ==
  ASSUME ReportInv, Disconnect
  PROVE  ReportInv'
  <1>0. /\ ReportTypeOK /\ IInv /\ MaxReports \in Nat /\ SessionEnd = MaxReports + 1
        /\ reports \in 0 .. MaxReports /\ leaving = "no" /\ leaving' = "ending"
        /\ UNCHANGED <<vars, reports, conn, called>> /\ SafeSend(SessionEnd)
    BY RemoteAssumption
    DEF RemoteAssumption, ReportInv, ReportTypeOK, Disconnect, SessionEnd
  <1>1. SessionEnd \in 1 .. SessionEnd
    BY <1>0
  <1>2. \A k \in 1 .. SessionEnd : sentOn[k] # 0 => k < SessionEnd
    BY <1>0 DEF ReportInv
  <1>3. called' = called /\ conn' = conn /\ sock' = sock
    BY <1>0 DEF vars
  <1>4. IInv'
    BY <1>0, NextIInv
  <1>5. \A k \in 1 .. SessionEnd : sentOn'[k] # 0 => k <= reports' \/ k = SessionEnd
    <2>1. \A k \in 1 .. SessionEnd : sentOn'[k] # 0 => sentOn[k] # 0 \/ k = SessionEnd
      BY <1>0, <1>1, <1>2, <1>3, SafeSendKeeps
    <2> QED
      BY <1>0, <2>1 DEF ReportInv
  <1>6. ReportTypeOK'
    BY <1>0, <1>1, <1>2, <1>3, <1>4, SafeSendKeeps DEF ReportTypeOK, IInv
  <1> QED
    BY <1>0, <1>1, <1>2, <1>3, <1>4, <1>5, <1>6, SafeSendKeeps DEF ReportInv

\* Only the heartbeat, the bridge or the socket has changed.
LEMMA HeartbeatKeeps ==
  ASSUME ReportInv, IInv', UNCHANGED <<reports, sentOn, conn, inbox, called>>,
         leaving' \in {"no", "ending", "done"}, leaving # "no" => leaving' # "no",
         sock' = "open" => sock = "open"
  PROVE  ReportInv'
  <1>1. \A c \in Connection : Sent(c)' = Sent(c)
    BY DEF Sent
  <1>2. ASSUME NEW c \in Connection
        PROVE  LineOK(c)'
    BY <1>1, LineStays DEF ReportInv
  <1> QED
    BY <1>2 DEF ReportInv, ReportTypeOK, IInv

\* Each connection has lost what was under way, or the end of it.
LEMMA LossKeeps ==
  ASSUME ReportInv, IInv', UNCHANGED <<reports, sentOn, conn, called, leaving>>,
         sock' # "open", inbox' \in [Connection -> Seq(Messages)],
         \A c \in Connection : \E n \in 0 .. Len(inbox[c]) :
           inbox'[c] = SubSeq(inbox[c], 1, n)
  PROVE  ReportInv'
  <1>0. ReportTypeOK
    BY DEF ReportInv
  <1>1. ASSUME NEW c \in Connection
        PROVE  LineOK(c)' /\ (inbox[c] = <<>> => inbox'[c] = <<>>)
    <2>1. PICK n \in 0 .. Len(inbox[c]) : inbox'[c] = SubSeq(inbox[c], 1, n)
      OBVIOUS
    <2>2. called[c] \in Seq(Messages) /\ inbox[c] \in Seq(Messages)
      BY <1>0, LineFacts
    <2> DEFINE s == called[c] \o inbox[c]
               t == called[c] \o SubSeq(inbox[c], 1, n)
    <2>3. /\ s \in Seq(Messages) /\ t \in Seq(Messages) /\ Len(t) <= Len(s)
          /\ \A i \in DOMAIN t : t[i] = s[i]
      <3>1. SubSeq(inbox[c], 1, n) \in Seq(Messages)
        BY <2>2, LineLosesEnd
      <3>2. t \in Seq(Messages) /\ s \in Seq(Messages)
        BY <2>2, <3>1, LineMoves
      <3>3. Len(t) <= Len(s) /\ \A i \in DOMAIN t : t[i] = s[i]
        <4>1. /\ Len(called[c] \o SubSeq(inbox[c], 1, n)) <= Len(called[c] \o inbox[c])
              /\ \A i \in DOMAIN (called[c] \o SubSeq(inbox[c], 1, n)) :
                   (called[c] \o SubSeq(inbox[c], 1, n))[i] = (called[c] \o inbox[c])[i]
          BY <2>2, LineLosesEnd
        <4> QED
          BY <4>1
      <3> QED
        BY <3>2, <3>3
    <2>4. Line(c)' = t /\ Line(c) = s /\ Sent(c)' = Sent(c)
      BY <2>1 DEF Line, Sent
    <2> HIDE DEF s, t
    <2>5. InOrder(t, Sent(c))
      BY <2>3, <2>4, BeginningInOrder DEF ReportInv, LineOK
    <2>6. LineOK(c)'
      BY <2>4, <2>5, LineAfter
    <2>7. inbox[c] = <<>> => inbox'[c] = <<>>
      BY <2>1
    <2> QED
      BY <2>6, <2>7
  <1>2. ReportTypeOK'
    BY <1>0 DEF ReportTypeOK, IInv, Messages
  <1> QED
    BY <1>1, <1>2 DEF ReportInv

LEMMA LostKeeps ==
  ASSUME ReportInv, IInv', Lost, sock' # "open"
  PROVE  ReportInv'
  <1>1. PICK n \in 0 .. Len(inbox[conn]) :
          inbox' = [inbox EXCEPT ![conn] = SubSeq(inbox[conn], 1, n)]
    BY DEF Lost
  <1>2. inbox \in [Connection -> Seq(Messages)] /\ conn \in Connection
    BY DEF ReportInv, ReportTypeOK
  <1>3. SubSeq(inbox[conn], 1, n) \in Seq(Messages)
    BY <1>2
  <1>4. /\ inbox' \in [Connection -> Seq(Messages)]
        /\ inbox'[conn] = SubSeq(inbox[conn], 1, n)
        /\ \A c \in Connection : c # conn => inbox'[c] = inbox[c]
    BY <1>1, <1>2, <1>3
  <1>5. ASSUME NEW c \in Connection
        PROVE  \E k \in 0 .. Len(inbox[c]) : inbox'[c] = SubSeq(inbox[c], 1, k)
    <2>1. CASE c = conn
      BY <1>4, <2>1
    <2>2. CASE c # conn
      <3>1. inbox[c] \in Seq(Messages)
        BY <1>2
      <3>2. inbox[c] = SubSeq(inbox[c], 1, Len(inbox[c])) /\ Len(inbox[c]) \in 0 .. Len(inbox[c])
        BY <3>1
      <3> QED
        BY <1>4, <2>2, <3>2
    <2> QED
      BY <2>1, <2>2
  <1> QED
    BY <1>4, <1>5, LossKeeps DEF Lost

LEMMA DiedKeeps ==
  ASSUME ReportInv, IInv', Died, sock' # "open"
  PROVE  ReportInv'
  <1>1. inbox' \in [Connection -> Seq(Messages)] /\ \A c \in Connection : inbox'[c] = <<>>
    BY DEF Died
  <1>2. ASSUME NEW c \in Connection
        PROVE  \E n \in 0 .. Len(inbox[c]) : inbox'[c] = SubSeq(inbox[c], 1, n)
    <2>1. inbox[c] \in Seq(Messages)
      BY DEF ReportInv
    <2>2. 0 \in 0 .. Len(inbox[c]) /\ SubSeq(inbox[c], 1, 0) = <<>>
      BY <2>1
    <2> QED
      BY <1>1, <2>2
  <1> QED
    BY <1>1, <1>2, LossKeeps DEF Died

LEMMA ConnectKeeps ==
  ASSUME ReportInv, Connect
  PROVE  ReportInv'
  <1> DEFINE d == conn + 1
  <1>0. /\ ReportTypeOK /\ IInv /\ conn \in Nat /\ conn \in Connection /\ conn < MaxConnections
        /\ inbox \in [Connection -> Seq(Messages)] /\ MaxConnections \in Nat
        /\ d \in Connection /\ conn' = d /\ Reconnect
        /\ UNCHANGED <<reports, sentOn, called, leaving>>
    <2>1. /\ ReportTypeOK /\ IInv /\ conn \in Connection /\ conn < MaxConnections
          /\ inbox \in [Connection -> Seq(Messages)] /\ conn' = d /\ Reconnect
          /\ UNCHANGED <<reports, sentOn, called, leaving>>
      BY DEF ReportInv, ReportTypeOK, Connect
    <2>2. conn \in Nat /\ MaxConnections \in Nat /\ d \in Connection
      BY <2>1, RemoteAssumption DEF RemoteAssumption, Connection
    <2> QED
      BY <2>1, <2>2
  <1>1. <<SessionStart>> \in Seq(Messages)
    <2>1. SessionStart \in Messages
      BY <1>0, LineFacts DEF Messages, SessionStart
    <2> QED
      BY <2>1
  <1>2. inbox' = [inbox EXCEPT ![d] = <<SessionStart>>]
    BY DEF Connect, Opening
  <1> HIDE DEF d
  <1>3. /\ inbox' \in [Connection -> Seq(Messages)] /\ inbox'[d] = <<SessionStart>>
        /\ \A c \in Connection : c # d => inbox'[c] = inbox[c]
    BY <1>0, <1>1, <1>2
  <1>4. IInv'
    BY <1>0, NextIInv DEF Next
  <1>5. \A c \in Connection : c \in Nat /\ (d <= c => conn < c)
    BY <1>0 DEF Connection, d
  <1>6. ASSUME NEW c \in Connection
        PROVE  LineOK(c)'
    <2>1. Sent(c)' = Sent(c)
      BY <1>0 DEF Sent
    <2>2. CASE c # d
      BY <1>0, <1>3, <2>1, <2>2, LineStays DEF ReportInv
    <2>3. CASE c = d
      <3>1. \A m \in 1 .. SessionEnd : sentOn[m] # c
        <4>1. \A m \in 1 .. SessionEnd : sentOn[m] \in 0 .. conn
          BY <1>0 DEF ReportTypeOK
        <4> QED
          BY <1>0, <2>3, <4>1 DEF d
      <3>2. Sent(c)' = {SessionStart}
        BY <2>1, <3>1 DEF Sent
      <3>3. called'[c] = <<>>
        BY <1>0, <1>5, <2>3 DEF ReportInv, d
      <3>4. Line(c)' = <<SessionStart>>
        BY <1>3, <2>3, <3>3 DEF Line
      <3>5. InOrder(<<SessionStart>>, {SessionStart}) /\ Complete(<<SessionStart>>, {SessionStart})
        BY DEF InOrder, Complete, SessionStart
      <3> QED
        BY <3>2, <3>4, <3>5, LineAfter
    <2> QED
      BY <2>2, <2>3
  <1>7. \A c \in Connection : conn' < c => called'[c] = <<>> /\ inbox'[c] = <<>>
    BY <1>0, <1>3, <1>5 DEF ReportInv, d
  <1>8. sentOn' \in [1 .. SessionEnd -> 0 .. conn']
    <2>1. sentOn \in [1 .. SessionEnd -> 0 .. conn] /\ 0 .. conn \subseteq 0 .. d
      BY <1>0 DEF ReportTypeOK, d
    <2> QED
      BY <1>0, <2>1
  <1>9. ReportTypeOK'
    BY <1>0, <1>3, <1>4, <1>8 DEF ReportTypeOK, IInv, Messages
  <1> QED
    BY <1>0, <1>3, <1>4, <1>6, <1>7, <1>9 DEF ReportInv

LEMMA HandleKeeps ==
  ASSUME ReportInv, NEW c \in Connection, HandleMessage(c)
  PROVE  ReportInv'
  <1>0. /\ ReportTypeOK /\ IInv /\ inbox \in [Connection -> Seq(Messages)]
        /\ called \in [Connection -> Seq(Messages)] /\ inbox[c] # <<>>
        /\ UNCHANGED <<vars, reports, sentOn, conn, leaving>>
    BY DEF ReportInv, HandleMessage
  <1>1. /\ called' = [called EXCEPT ![c] = Append(called[c], Head(inbox[c]))]
        /\ inbox' = [inbox EXCEPT ![c] = Tail(inbox[c])]
    BY DEF HandleMessage, Arriving
  <1>2. Append(called[c], Head(inbox[c])) \in Seq(Messages) /\ Tail(inbox[c]) \in Seq(Messages)
    <2>1. inbox[c] \in Seq(Messages) /\ called[c] \in Seq(Messages) /\ inbox[c] # <<>>
      BY <1>0
    <2> QED
      BY <2>1
  <1>3. /\ called' \in [Connection -> Seq(Messages)] /\ inbox' \in [Connection -> Seq(Messages)]
        /\ called'[c] = Append(called[c], Head(inbox[c])) /\ inbox'[c] = Tail(inbox[c])
        /\ \A b \in Connection : b # c => called'[b] = called[b] /\ inbox'[b] = inbox[b]
    BY <1>0, <1>1, <1>2
  <1>4. IInv' /\ sock' = sock
    BY <1>0, NextIInv DEF vars
  <1>5. ASSUME NEW b \in Connection
        PROVE  LineOK(b)'
    <2>1. Sent(b)' = Sent(b)
      BY <1>0 DEF Sent
    <2>2. CASE b # c
      BY <1>0, <1>3, <1>4, <2>1, <2>2, LineStays DEF ReportInv
    <2>3. CASE b = c
      <3>1. Line(b)' = Line(b)
        <4>1. Append(called[c], Head(inbox[c])) \o Tail(inbox[c]) = called[c] \o inbox[c]
          BY <1>0, LineMoves
        <4> QED
          BY <1>3, <2>3, <4>1 DEF Line
      <3> QED
        BY <1>0, <1>4, <2>1, <3>1, LineAfter DEF ReportInv, LineOK
    <2> QED
      BY <2>2, <2>3
  <1>6. \A b \in Connection : conn' < b => called'[b] = <<>> /\ inbox'[b] = <<>>
    BY <1>0, <1>3 DEF ReportInv
  <1>7. ReportTypeOK'
    BY <1>0, <1>3, <1>4 DEF ReportTypeOK, IInv, Messages
  <1> QED
    BY <1>0, <1>3, <1>4, <1>5, <1>6, <1>7 DEF ReportInv

LEMMA InitReports == RInit => ReportInv
  <1> SUFFICES ASSUME RInit
               PROVE  ReportInv
    OBVIOUS
  <1>0. /\ IInv /\ MaxReports \in Nat /\ 1 \in Connection /\ SessionEnd \in Nat
        /\ SessionStart \in Messages
    BY InitIInv, RemoteAssumption
    DEF RemoteAssumption, RInit, Connection, SessionEnd, SessionStart, Messages
  <1>1. <<SessionStart>> \in Seq(Messages) /\ <<>> \in Seq(Messages)
    BY <1>0
  <1>2. /\ inbox \in [Connection -> Seq(Messages)] /\ called \in [Connection -> Seq(Messages)]
        /\ inbox[1] = <<SessionStart>>
        /\ \A c \in Connection : called[c] = <<>> /\ (c # 1 => inbox[c] = <<>>)
    BY <1>0, <1>1 DEF RInit
  <1>3. ASSUME NEW c \in Connection
        PROVE  LineOK(c)
    <2>1. Sent(c) = {SessionStart}
      <3>1. \A m \in 1 .. SessionEnd : sentOn[m] = 0
        BY DEF RInit
      <3>2. c # 0
        BY DEF Connection
      <3> QED
        BY <3>1, <3>2 DEF Sent
    <2>2. CASE c = 1
      <3>1. Line(c) = <<SessionStart>>
        <4>1. called[c] = <<>> /\ inbox[c] = <<SessionStart>>
          BY <1>2, <2>2
        <4>2. <<>> \o <<SessionStart>> = <<SessionStart>>
          BY <1>1
        <4> QED
          BY <4>1, <4>2 DEF Line
      <3>2. InOrder(<<SessionStart>>, {SessionStart}) /\ Complete(<<SessionStart>>, {SessionStart})
        BY DEF InOrder, Complete, SessionStart
      <3> QED
        BY <2>1, <3>1, <3>2 DEF LineOK
    <2>3. CASE c # 1
      <3>1. Line(c) = <<>> /\ c # conn
        BY <1>2, <2>3 DEF Line, RInit
      <3>2. InOrder(<<>>, {SessionStart})
        BY DEF InOrder
      <3> QED
        BY <2>1, <3>1, <3>2 DEF LineOK
    <2> QED
      BY <2>2, <2>3
  <1>4. ReportTypeOK
    <2>1. sentOn \in [1 .. SessionEnd -> 0 .. conn]
      BY <1>0 DEF RInit
    <2>2. reports \in 0 .. MaxReports /\ conn \in Connection
      BY <1>0 DEF RInit
    <2> QED
      BY <1>0, <1>2, <2>1, <2>2 DEF ReportTypeOK, IInv, RInit, Messages
  <1>5. \A c \in Connection : conn < c => called[c] = <<>> /\ inbox[c] = <<>>
    BY <1>2 DEF RInit
  <1> QED
    BY <1>0, <1>2, <1>3, <1>4, <1>5 DEF ReportInv, RInit

LEMMA NextReports == ReportInv /\ [RNext]_allVars => ReportInv'
  <1> SUFFICES ASSUME ReportInv, [RNext]_allVars
               PROVE  ReportInv'
    OBVIOUS
  <1>0. IInv /\ leaving \in {"no", "ending", "done"}
    BY DEF ReportInv, ReportTypeOK
  <1>1. CASE SendTurnCompleted
    BY <1>1, SendKeeps
  <1>2. CASE Disconnect
    BY <1>2, DisconnectKeeps
  <1>3. CASE DisconnectWebsocket
    <2>1. IInv'
      BY <1>0, <1>3, HeartbeatAssumption
      DEF HeartbeatAssumption, DisconnectWebsocket, IInv, TypeOK, MissCounted
    <2> QED
      BY <1>3, <2>1, HeartbeatKeeps DEF DisconnectWebsocket
  <1>4. CASE Connect
    BY <1>4, ConnectKeeps
  <1>5. CASE Loop
    <2>1. CASE (SendPing \/ Answered \/ Miss) /\ UNCHANGED reporting
      <3>1. IInv' /\ sock' = sock
        BY <1>0, <2>1, NextIInv DEF Next, HeartbeatLoop, SendPing, Answered, Miss
      <3> QED
        BY <1>0, <2>1, <3>1, HeartbeatKeeps DEF reporting
    <2>2. CASE ForceReconnect /\ Lost
      <3>1. IInv' /\ sock' # "open"
        BY <1>0, <2>2, NextIInv DEF Next, HeartbeatLoop, ForceReconnect
      <3> QED
        BY <2>2, <3>1, LostKeeps
    <2> QED
      BY <1>5, <2>1, <2>2 DEF Loop
  <1>6. CASE Receive \/ ((Pong \/ Wedge) /\ UNCHANGED reporting)
    <2>1. IInv' /\ sock' = sock /\ UNCHANGED reporting
      BY <1>0, <1>6, NextIInv DEF Next, Receive, ReceivePong, Pong, Wedge
    <2> QED
      BY <1>0, <2>1, HeartbeatKeeps DEF reporting
  <1>7. CASE \E c \in Connection : HandleMessage(c)
    BY <1>7, HandleKeeps
  <1>8. CASE Drop /\ (Lost \/ Died)
    <2>1. IInv' /\ sock' # "open"
      BY <1>0, <1>8, NextIInv DEF Next, Drop
    <2> QED
      BY <1>8, <2>1, LostKeeps, DiedKeeps
  <1>9. CASE UNCHANGED allVars
    <2>1. UNCHANGED vars /\ UNCHANGED reporting
      BY <1>9 DEF allVars
    <2>2. IInv' /\ sock' = sock
      BY <1>0, <2>1, NextIInv DEF vars
    <2> QED
      BY <1>0, <2>1, <2>2, HeartbeatKeeps DEF reporting
  <1> QED
    BY <1>1, <1>2, <1>3, <1>4, <1>5, <1>6, <1>7, <1>8, <1>9 DEF RNext, Service, Bridge

LEMMA ReportInvHolds == RSpec => []ReportInv
  BY InitReports, NextReports, PTL DEF RSpec

\* The client's counters and what is under way stay within their bounds, whatever
\* its heartbeat, disconnect(), the network and the bridge process do.
THEOREM ReportsTypeCorrect == RSpec => []ReportTypeOK
  <1>1. ReportInv => ReportTypeOK
    BY DEF ReportInv
  <1> QED
    BY <1>1, ReportInvHolds, PTL

\* BridgeConnection calls a handler's hooks for the messages _safe_send sent on
\* its own connection, in that order, without a gap and once, however often the
\* connection is lost and made again.
THEOREM HooksAsSent == RSpec => []CalledAsSent
  <1>1. ReportInv => CalledAsSent
    <2> SUFFICES ASSUME ReportInv, NEW c \in Connection, NEW i \in DOMAIN called[c]
                 PROVE  /\ called[c][i] \in Sent(c)
                        /\ {called[c][h] : h \in 1 .. i - 1}
                             = {m \in Sent(c) : m < called[c][i]}
      BY DEF CalledAsSent
    <2>1. called[c] \in Seq(Messages) /\ inbox[c] \in Seq(Messages)
      BY DEF ReportInv
    <2>2. InOrder(called[c], Sent(c))
      <3>1. InOrder(called[c] \o inbox[c], Sent(c))
        BY DEF ReportInv, LineOK, Line
      <3>2. /\ called[c] \o inbox[c] \in Seq(Messages)
            /\ Len(called[c]) <= Len(called[c] \o inbox[c])
            /\ \A h \in DOMAIN called[c] : called[c][h] = (called[c] \o inbox[c])[h]
        BY <2>1, LineMoves
      <3> QED
        BY <2>1, <3>1, <3>2, BeginningInOrder
    <2>3. /\ called[c][i] \in Sent(c)
          /\ \A m \in Sent(c) :
               m < called[c][i] <=> \E h \in DOMAIN called[c] : h < i /\ called[c][h] = m
          /\ \A h \in DOMAIN called[c] : called[c][h] \in Sent(c)
      BY <2>2 DEF InOrder
    <2>4. \A h : h \in 1 .. i - 1 <=> h \in DOMAIN called[c] /\ h < i
      BY <2>1
    <2>5. ASSUME NEW h \in 1 .. i - 1
          PROVE  called[c][h] \in Sent(c) /\ called[c][h] < called[c][i]
      BY <2>3, <2>4
    <2>6. ASSUME NEW m \in Sent(c), m < called[c][i]
          PROVE  \E h \in 1 .. i - 1 : called[c][h] = m
      BY <2>3, <2>4, <2>6
    <2> QED
      BY <2>3, <2>5, <2>6
  <1> QED
    BY <1>1, ReportInvHolds, PTL

\* The same of _missed_heartbeats in the client that reconnects and disconnects:
\* a socket is closed only after two pings that no pong came after.
THEOREM TwoPingsThroughReconnects == RSpec => ClosedAfterTwoPings
  <1>1. ReportInv /\ [RNext]_allVars => [ForceReconnect => unanswered >= 2]_vars
    BY DEF ReportInv, IInv, TypeOK, MissCounted, ForceReconnect
  <1> QED
    BY <1>1, ReportInvHolds, PTL DEF RSpec, ClosedAfterTwoPings

===============================================================================
