---------------------------- MODULE WsBridgeProofs ----------------------------
(***************************************************************************)
(* Theorems about WsBridge, for every value of its bounds: types, and the  *)
(* invariants that NoDeafTurn, CancelHitsItsTurn and the refinement of     *)
(* TurnResponses rest on.                                                  *)
(***************************************************************************)
EXTENDS WsBridge, TLAPS

-----------------------------------------------------------------------------
(* The connection: which steps touch it, and what holds of it throughout    *)

ConnectionStep ==
  Connect \/ ConnectFails \/ ReceiveEnds \/ Reconnect \/ GiveUp \/ StartDisconnect
    \/ CancelReceive \/ CloseSocket \/ Drop

LEMMA ConnectionSteps ==
  ASSUME [Next]_vars
  PROVE  ConnectionStep \/ UNCHANGED client
  <1>1. CASE RunTask \/ FinaliseStream \/ SendCancel
    BY <1>1 DEF RunTask, FinaliseStream, SendCancel, RequestTurn,
         RequestRefused, PushStart, PushText, StreamEnds, RemoteError,
         IdleTimeout
  <1>2. CASE MessageLoop \/ Handler
    BY <1>2 DEF MessageLoop, Handler, RunTurn, CancelTurn, HandlerEmits,
         HandlerLeaves
  <1>3. CASE ReceiveTask \/ Disconnect \/ Connect \/ ConnectFails \/ Drop
    BY <1>3 DEF ReceiveTask, Disconnect, Dispatch, ConnectionStep
  <1>4. CASE Pipeline
    BY <1>4 DEF Pipeline, BeginTurn, Interrupt, ConnectionStep
  <1>5. CASE Quiescent \/ UNCHANGED vars
    BY <1>5 DEF Quiescent, vars
  <1> QED
    BY <1>1, <1>2, <1>3, <1>4, <1>5 DEF Next

ClientTypeOK ==
  /\ sock \in {"none", "open", "closed"}
  /\ recv \in {"unstarted", "absent", "reading", "reconnecting", "gaveUp", "ended"}
  /\ leaving \in {"no", "ending", "cancelled", "done"}
  /\ connections \in 0 .. MaxConnections

\* The receive task and the socket live and die together: an open socket is read
\* until disconnect() cancels the task, and only a lost one is reconnected.
Lifecycle ==
  /\ recv = "unstarted" => sock = "none" /\ leaving = "no" /\ connections = 0
  /\ recv = "reconnecting" => sock = "closed"
  /\ sock = "closed" => connections < MaxConnections
  /\ sock = "open" => recv = "reading" \/ leaving = "cancelled"
  /\ leaving \in {"cancelled", "done"} => recv = "ended"

LEMMA ClientInvariant ==
  ASSUME ClientTypeOK, Lifecycle, [Next]_vars
  PROVE  ClientTypeOK' /\ Lifecycle'
  <1> USE BridgeAssumption
  <1>1. CASE UNCHANGED client
    BY <1>1 DEF client, ClientTypeOK, Lifecycle
  <1>2. CASE Connect \/ ConnectFails
    BY <1>2 DEF Connect, ConnectFails, ClientTypeOK, Lifecycle
  <1>3. CASE ReceiveEnds \/ Reconnect \/ GiveUp
    BY <1>3 DEF ReceiveEnds, Reconnect, GiveUp, ClientTypeOK, Lifecycle
  <1>4. CASE StartDisconnect \/ CancelReceive \/ CloseSocket
    BY <1>4 DEF StartDisconnect, CancelReceive, CloseSocket, ClientTypeOK,
                Lifecycle
  <1>5. CASE Drop
    BY <1>5 DEF Drop, ClientTypeOK, Lifecycle
  <1> QED
    BY <1>1, <1>2, <1>3, <1>4, <1>5, ConnectionSteps DEF ConnectionStep

-----------------------------------------------------------------------------
(* Type correctness                                                         *)

OutFrame == [type : {"start", "text", "end"}, turn : Turn]
Item     == [type : {"start", "text", "end", "error", "closed"}, turn : Turn]
FromJS   == [type : {"start", "text", "end", "error"}, turn : Turn]
FromPy   == [type : {"turn.run", "turn.cancel"}, turn : Turn]
JsTurn   == [status : {"none", "running", "aborted"}, said : 0 .. MaxTexts]

Runs     == [turn : Turn, phase : {"payload", "waiting"}, started : BOOLEAN]

ServiceTypeOK ==
  /\ asked \in 0 .. MaxTurns
  /\ run \in Runs \cup {Idle}
  /\ interrupted \in SUBSET Turn
  /\ out \in Seq(OutFrame)

StreamTypeOK ==
  /\ streams \in SUBSET Turn /\ cancels \in SUBSET Turn
  /\ queue \in [Turn -> Seq(Item)]
  /\ ranOn \in [Turn -> 0 .. MaxConnections]

WireTypeOK ==
  /\ toJS \in Seq(FromPy) /\ toPy \in Seq(FromJS)
  /\ js \in [Turn -> JsTurn]

LEMMA TypeParts ==
  TypeOK <=> ServiceTypeOK /\ ClientTypeOK /\ StreamTypeOK /\ WireTypeOK
  BY DEF TypeOK, ServiceTypeOK, ClientTypeOK, StreamTypeOK, WireTypeOK, Item,
         FromJS, FromPy, JsTurn, OutFrame, Runs

\* A run in progress is the run of a turn.
LEMMA RunInProgress ==
  ASSUME ServiceTypeOK
  PROVE  /\ run # Idle => run \in Runs /\ run.turn \in Turn
         /\ run.phase # "idle" <=> run # Idle
  BY DEF ServiceTypeOK, Idle, Runs

LEMMA OutFrames ==
  ASSUME NEW t \in Turn
  PROVE  Start(t) \in OutFrame /\ Text(t) \in OutFrame /\ End(t) \in OutFrame
  BY DEF Start, Text, End, OutFrame

LEMMA EndingType ==
  ASSUME NEW r, r.turn \in Turn
  PROVE  Ending(r) \in Seq(OutFrame)
  <1>1. /\ Start(r.turn) \in OutFrame
        /\ End(r.turn) \in OutFrame
    BY OutFrames
  <1> QED
    BY <1>1 DEF Ending

LEMMA LeaveType ==
  ASSUME ServiceTypeOK, run # Idle, Leave,
         asked' = asked, interrupted' \in SUBSET Turn
  PROVE  ServiceTypeOK'
  <1>1. run.turn \in Turn
    BY RunInProgress
  <1>2. out' \in Seq(OutFrame)
    BY <1>1, EndingType DEF Leave, ServiceTypeOK
  <1> QED
    BY <1>2 DEF Leave, ServiceTypeOK

LEMMA ServiceType ==
  ASSUME ServiceTypeOK, [Next]_vars
  PROVE  ServiceTypeOK'
  <1>0. MaxTurns \in Nat
    BY BridgeAssumption
  <1>1. CASE UNCHANGED service
    BY <1>1 DEF service, ServiceTypeOK
  <1>2. CASE BeginTurn
    <2>1. asked + 1 \in Turn /\ asked' \in 0 .. MaxTurns
      BY <1>0, <1>2 DEF BeginTurn, ServiceTypeOK, Turn
    <2> QED
      BY <1>2, <2>1 DEF BeginTurn, ServiceTypeOK, Runs
  <1>3. CASE RequestTurn
    BY <1>3, RunInProgress DEF RequestTurn, ServiceTypeOK, Idle, Runs
  <1>4. CASE RequestRefused \/ StreamEnds \/ RemoteError \/ IdleTimeout
    <2>1. run # Idle /\ Leave /\ UNCHANGED <<asked, interrupted>>
      BY <1>4 DEF RequestRefused, StreamEnds, RemoteError, IdleTimeout,
                  Taking, Idle
    <2> QED
      BY <2>1, LeaveType DEF ServiceTypeOK
  <1>5. CASE Interrupt
    BY <1>5, LeaveType, RunInProgress DEF Interrupt, ServiceTypeOK
  <1>6. CASE PushStart \/ PushText
    <2>1. /\ run.phase = "waiting" /\ run # Idle /\ run.turn \in Turn
          /\ run' = [run EXCEPT !.started = TRUE]
          /\ UNCHANGED <<asked, interrupted>>
      BY <1>6, RunInProgress DEF PushStart, PushText, Taking, Idle
    <2>2. out' \in Seq(OutFrame)
      <3>1. Start(run.turn) \in OutFrame /\ Text(run.turn) \in OutFrame
        BY <2>1, OutFrames
      <3>2. CASE PushStart
        BY <3>1, <3>2 DEF PushStart, ServiceTypeOK
      <3>3. CASE PushText
        <4>1. Append(out, Start(run.turn)) \in Seq(OutFrame)
          BY <3>1 DEF ServiceTypeOK
        <4>2. <<Text(run.turn)>> \in Seq(OutFrame)
          BY <3>1
        <4> QED
          BY <3>3, <4>1, <4>2 DEF PushText, ServiceTypeOK
      <3> QED
        BY <1>6, <3>2, <3>3
    <2> QED
      BY <2>1, <2>2, RunInProgress DEF ServiceTypeOK, Runs
  <1> QED
    <2>1. CASE RunTask \/ Pipeline
      BY <2>1, <1>1, <1>2, <1>3, <1>4, <1>5, <1>6
      DEF RunTask, Pipeline, StartDisconnect
    <2>2. CASE FinaliseStream \/ SendCancel \/ ReceiveTask \/ Disconnect
                 \/ Connect \/ ConnectFails \/ Drop
      BY <2>2, <1>1 DEF FinaliseStream, SendCancel, ReceiveTask, Dispatch,
           ReceiveEnds, Reconnect, GiveUp, Disconnect, CancelReceive, CloseSocket,
           Connect, ConnectFails, Drop
    <2>3. CASE MessageLoop \/ Handler \/ Quiescent \/ UNCHANGED vars
      BY <2>3, <1>1 DEF MessageLoop, RunTurn, CancelTurn, Handler, HandlerEmits,
           HandlerLeaves, Quiescent, vars
    <2> QED
      BY <2>1, <2>2, <2>3 DEF Next

\* What runs out of a queue, or is closed, is still a queue of items.
LEMMA UnregisterType ==
  ASSUME StreamTypeOK, NEW t, Unregister(t)
  PROVE  streams' \in SUBSET Turn /\ queue' \in [Turn -> Seq(Item)]
  <1>1. <<>> \in Seq(Item)
    OBVIOUS
  <1> QED
    BY <1>1 DEF StreamTypeOK, Unregister

LEMMA FailActiveTurnsType ==
  ASSUME StreamTypeOK, FailActiveTurns
  PROVE  queue' \in [Turn -> Seq(Item)]
  <1>1. \A t \in Turn : StreamClosed(t) \in Item
    BY DEF StreamClosed, Item
  <1> QED
    BY <1>1 DEF StreamTypeOK, FailActiveTurns

\* The item taken from the queue of the run is gone from it.
LEMMA TakenType ==
  ASSUME StreamTypeOK, NEW t \in Turn, queue[t] # <<>>,
         queue' = [queue EXCEPT ![t] = Tail(@)]
  PROVE  queue' \in [Turn -> Seq(Item)]
  BY DEF StreamTypeOK

LEMMA StreamType ==
  ASSUME ServiceTypeOK, ClientTypeOK, StreamTypeOK, WireTypeOK, [Next]_vars
  PROVE  StreamTypeOK'
  <1>1. CASE UNCHANGED <<streams, queue, ranOn, cancels>>
    BY <1>1 DEF StreamTypeOK
  <1>2. CASE RequestTurn
    <2>1. run.turn \in Turn
      BY <1>2, RunInProgress DEF RequestTurn, Idle
    <2> QED
      BY <1>2, <2>1 DEF RequestTurn, StreamTypeOK, ClientTypeOK
  <1>3. CASE PushStart \/ PushText \/ RemoteError
    <2>1. run.turn \in Turn /\ queue[run.turn] # <<>>
      BY <1>3, RunInProgress DEF PushStart, PushText, RemoteError, Taking, Idle
    <2> QED
      BY <1>3, <2>1, TakenType DEF PushStart, PushText, RemoteError, StreamTypeOK
  <1>4. CASE StreamEnds \/ IdleTimeout
    BY <1>4, UnregisterType DEF StreamEnds, IdleTimeout, StreamTypeOK
  <1>5. CASE Interrupt
    BY <1>5, UnregisterType, RunInProgress DEF Interrupt, StreamTypeOK
  <1>6. CASE FinaliseStream
    BY <1>6, UnregisterType DEF FinaliseStream, StreamTypeOK
  <1>7. CASE SendCancel
    BY <1>7 DEF SendCancel, StreamTypeOK
  <1>8. CASE Dispatch
    <2>1. Head(toPy) \in FromJS
      BY <1>8 DEF Dispatch, WireTypeOK
    <2>2. Head(toPy) \in Item /\ Head(toPy).turn \in Turn
      BY <2>1 DEF FromJS, Item
    <2> QED
      BY <1>8, <2>2 DEF Dispatch, StreamTypeOK
  <1>9. CASE ReceiveEnds \/ CancelReceive \/ CloseSocket
    BY <1>9, FailActiveTurnsType
    DEF ReceiveEnds, CancelReceive, CloseSocket, StreamTypeOK
  <1> QED
    <2>1. CASE RunTask \/ Pipeline
      BY <2>1, <1>1, <1>2, <1>3, <1>4, <1>5
      DEF RunTask, Pipeline, BeginTurn, StartDisconnect, RequestRefused
    <2>2. CASE FinaliseStream \/ SendCancel \/ ReceiveTask \/ Disconnect
                 \/ Connect \/ ConnectFails \/ Drop
      BY <2>2, <1>1, <1>6, <1>7, <1>8, <1>9
      DEF ReceiveTask, Reconnect, GiveUp, Disconnect, Connect, ConnectFails, Drop
    <2>3. CASE MessageLoop \/ Handler \/ Quiescent \/ UNCHANGED vars
      BY <2>3, <1>1 DEF MessageLoop, RunTurn, CancelTurn, Handler, HandlerEmits,
           HandlerLeaves, Quiescent, vars
    <2> QED
      BY <2>1, <2>2, <2>3 DEF Next

LEMMA Messages ==
  ASSUME NEW t \in Turn
  PROVE  /\ Run(t) \in FromPy /\ Cancel(t) \in FromPy
         /\ Start(t) \in FromJS /\ Text(t) \in FromJS
         /\ End(t) \in FromJS /\ Error(t) \in FromJS
  BY DEF Run, Cancel, FromPy, Start, Text, End, Error, FromJS

LEMMA NoTurnsType == NoTurns \in [Turn -> JsTurn]
  BY BridgeAssumption DEF NoTurns, NotInMap, JsTurn

LEMMA AbortedType ==
  ASSUME WireTypeOK, NEW t
  PROVE  Aborted(js, t) \in [Turn -> JsTurn]
  BY DEF WireTypeOK, Aborted, JsTurn

LEMMA WireType ==
  ASSUME ServiceTypeOK, StreamTypeOK, WireTypeOK, [Next]_vars
  PROVE  WireTypeOK'
  <1>0. MaxTexts \in Nat
    BY BridgeAssumption
  <1>1. CASE UNCHANGED wire
    BY <1>1 DEF wire, WireTypeOK
  <1>2. CASE RequestTurn
    <2>1. run.turn \in Turn
      BY <1>2, RunInProgress DEF RequestTurn, Idle
    <2> QED
      BY <1>2, <2>1, Messages DEF RequestTurn, WireTypeOK
  <1>3. CASE SendCancel
    BY <1>3, Messages DEF SendCancel, StreamTypeOK, WireTypeOK
  <1>4. CASE Dispatch
    BY <1>4 DEF Dispatch, WireTypeOK
  <1>5. CASE CloseSocket
    BY <1>5, NoTurnsType DEF CloseSocket, WireTypeOK
  <1>6. CASE Drop
    <2>1. \A n \in 0 .. Len(toPy) : SubSeq(toPy, 1, n) \in Seq(FromJS)
      BY DEF WireTypeOK
    <2> QED
      BY <1>6, <2>1, NoTurnsType DEF Drop, WireTypeOK
  <1>7. CASE RunTurn
    <2>1. Head(toJS) \in FromPy /\ Tail(toJS) \in Seq(FromPy)
      BY <1>7 DEF RunTurn, WireTypeOK
    <2>2. PICK t \in Turn : t = Head(toJS).turn
      BY <2>1 DEF FromPy
    <2>3. NewTurn \in JsTurn
      BY <1>0 DEF NewTurn, JsTurn
    <2>4. js' \in [Turn -> JsTurn]
      BY <1>7, <2>2, <2>3 DEF RunTurn, WireTypeOK
    <2>5. toPy' \in {Append(toPy, Start(t)), Append(toPy, Error(t))}
      BY <1>7, <2>2 DEF RunTurn
    <2>6. toPy' \in Seq(FromJS)
      BY <2>5, Messages DEF WireTypeOK
    <2> QED
      BY <1>7, <2>1, <2>4, <2>6 DEF RunTurn, WireTypeOK
  <1>8. CASE CancelTurn
    BY <1>8, AbortedType DEF CancelTurn, WireTypeOK
  <1>9. CASE HandlerEmits
    <2>1. PICK t \in Turn :
            /\ js[t].said < MaxTexts
            /\ js' = [js EXCEPT ![t].said = @ + 1]
            /\ toPy' = Append(toPy, Text(t))
            /\ toJS' = toJS
      BY <1>9 DEF HandlerEmits
    <2>2. js[t].said + 1 \in 0 .. MaxTexts
      BY <1>0, <2>1 DEF WireTypeOK, JsTurn
    <2>3. js' \in [Turn -> JsTurn]
      BY <2>1, <2>2 DEF WireTypeOK, JsTurn
    <2> QED
      BY <2>1, <2>3, Messages DEF WireTypeOK
  <1>10. CASE HandlerLeaves
    <2>1. NotInMap \in JsTurn
      BY <1>0 DEF NotInMap, JsTurn
    <2>2. PICK t \in Turn :
            /\ js' = [js EXCEPT ![t] = NotInMap]
            /\ toPy' \in {toPy, Append(toPy, End(t)), Append(toPy, Error(t))}
            /\ toJS' = toJS
      BY <1>10 DEF HandlerLeaves
    <2>3. toPy' \in Seq(FromJS)
      <3>1. End(t) \in FromJS /\ Error(t) \in FromJS /\ toPy \in Seq(FromJS)
        BY Messages DEF WireTypeOK
      <3> QED
        BY <2>2, <3>1
    <2> QED
      BY <2>1, <2>2, <2>3 DEF WireTypeOK
  <1> QED
    <2>1. CASE RunTask \/ Pipeline
      BY <2>1, <1>1, <1>2
      DEF RunTask, RequestRefused, PushStart, PushText, StreamEnds, RemoteError,
          IdleTimeout, Pipeline, BeginTurn, StartDisconnect, Interrupt
    <2>2. CASE FinaliseStream \/ SendCancel \/ ReceiveTask \/ Disconnect
                 \/ Connect \/ ConnectFails \/ Drop
      BY <2>2, <1>1, <1>3, <1>4, <1>5, <1>6
      DEF FinaliseStream, ReceiveTask, ReceiveEnds, Reconnect, GiveUp, Disconnect,
          CancelReceive, Connect, ConnectFails, wire
    <2>3. CASE MessageLoop \/ Handler \/ Quiescent \/ UNCHANGED vars
      BY <2>3, <1>1, <1>7, <1>8, <1>9, <1>10
      DEF MessageLoop, Handler, Quiescent, vars
    <2> QED
      BY <2>1, <2>2, <2>3 DEF Next

\* Types and the life of the connection, which bounds the number of connections.
TypeInv == TypeOK /\ Lifecycle

LEMMA InitType == Init => TypeInv
  <1> SUFFICES ASSUME Init
               PROVE  TypeInv
    OBVIOUS
  <1> USE BridgeAssumption
  <1>1. ServiceTypeOK
    BY DEF Init, ServiceTypeOK
  <1>2. ClientTypeOK /\ Lifecycle
    BY DEF Init, ClientTypeOK, Lifecycle
  <1>3. StreamTypeOK
    BY DEF Init, StreamTypeOK
  <1>4. WireTypeOK
    BY NoTurnsType DEF Init, WireTypeOK
  <1> QED
    BY <1>1, <1>2, <1>3, <1>4, TypeParts DEF TypeInv

LEMMA TypeInductive ==
  ASSUME TypeInv, [Next]_vars
  PROVE  TypeInv'
  <1>1. /\ ServiceTypeOK /\ ClientTypeOK /\ StreamTypeOK /\ WireTypeOK
        /\ Lifecycle
    BY TypeParts DEF TypeInv
  <1>2. /\ ServiceTypeOK' /\ ClientTypeOK' /\ StreamTypeOK' /\ WireTypeOK'
        /\ Lifecycle'
    BY <1>1, ServiceType, ClientInvariant, StreamType, WireType
  <1> QED
    BY <1>2, TypeParts DEF TypeInv, TypeOK, ServiceTypeOK, ClientTypeOK, StreamTypeOK, WireTypeOK, Item,
         FromJS, FromPy, JsTurn, OutFrame, Runs

\* Runs, queues, messages and the bridge's map keep their shape, and the client
\* never makes more connections than it is allowed: what connects again is only
\* what had been connected and was lost.
THEOREM TypeCorrect == Spec => []TypeOK
  <1>1. TypeInv /\ [Next]_vars => TypeInv'
    BY TypeInductive
  <1>2. TypeInv => TypeOK
    BY DEF TypeInv
  <1> QED
    BY <1>1, <1>2, InitType, PTL DEF Spec

-----------------------------------------------------------------------------
(* A cancel hits its turn                                                   *)

\* A cancel on its way, in its task or on the wire, is of an interrupted turn,
\* and so is a turn the bridge has aborted.
CancelInv ==
  /\ cancels \subseteq interrupted
  /\ \A i \in 1 .. Len(toJS) :
       toJS[i].type = "turn.cancel" => toJS[i].turn \in interrupted
  /\ CancelHitsItsTurn

LEMMA CancelInductive ==
  ASSUME TypeInv, TypeInv', CancelInv, [Next]_vars
  PROVE  CancelInv'
  <1>0. /\ ServiceTypeOK /\ StreamTypeOK /\ WireTypeOK
        /\ toJS \in Seq(FromPy)
    BY TypeParts DEF TypeInv, WireTypeOK
  <1>1. CASE UNCHANGED <<interrupted, cancels, toJS, js>>
    BY <1>1 DEF CancelInv, CancelHitsItsTurn
  <1>2. CASE RequestTurn
    <2>1. run.turn \in Turn /\ Run(run.turn) \in FromPy
      BY <1>0, <1>2, RunInProgress, Messages DEF RequestTurn, Idle
    <2>2. Run(run.turn).type # "turn.cancel"
      BY DEF Run
    <2>3. \A i \in 1 .. Len(toJS') :
            toJS'[i].type = "turn.cancel" => toJS'[i].turn \in interrupted
      BY <1>0, <1>2, <2>1, <2>2 DEF RequestTurn, CancelInv
    <2> QED
      BY <1>2, <2>3 DEF RequestTurn, CancelInv, CancelHitsItsTurn
  <1>3. CASE Interrupt
    BY <1>3 DEF Interrupt, CancelInv, CancelHitsItsTurn, wire
  <1>4. CASE SendCancel
    <2>1. PICK t \in cancels :
            /\ cancels' = cancels \ {t}
            /\ toJS' = IF sock = "open" THEN Append(toJS, Cancel(t)) ELSE toJS
            /\ UNCHANGED <<interrupted, js>>
      BY <1>4 DEF SendCancel, service
    <2>2. t \in interrupted /\ Cancel(t) \in FromPy /\ Cancel(t).turn = t
      BY <1>0, Messages DEF StreamTypeOK, CancelInv, Cancel
    <2>3. \A i \in 1 .. Len(toJS') :
            toJS'[i].type = "turn.cancel" => toJS'[i].turn \in interrupted
      BY <1>0, <2>1, <2>2 DEF CancelInv
    <2> QED
      BY <2>1, <2>3 DEF CancelInv, CancelHitsItsTurn
  <1>5. CASE RunTurn \/ CancelTurn
    <2>1. /\ toJS # <<>> /\ toJS' = Tail(toJS)
          /\ UNCHANGED <<interrupted, cancels>>
      BY <1>5 DEF RunTurn, CancelTurn, service
    <2>2. \A i \in 1 .. Len(toJS') :
            toJS'[i].type = "turn.cancel" => toJS'[i].turn \in interrupted
      BY <1>0, <2>1 DEF CancelInv
    <2>3. PICK m \in FromPy : m = Head(toJS) /\ m = toJS[1] /\ 1 \in 1 .. Len(toJS)
      BY <1>0, <2>1
    <2>4. CancelHitsItsTurn'
      <3>1. CASE RunTurn
        BY <1>0, <2>1, <3>1
        DEF RunTurn, CancelInv, CancelHitsItsTurn, WireTypeOK, NewTurn
      <3>2. CASE CancelTurn
        <4>1. m.type = "turn.cancel" /\ m.turn \in interrupted
          BY <2>3, <3>2 DEF CancelTurn, CancelInv
        <4> QED
          BY <1>0, <2>1, <2>3, <3>2, <4>1
          DEF CancelTurn, CancelInv, CancelHitsItsTurn, WireTypeOK, Aborted
      <3> QED
        BY <1>5, <3>1, <3>2
    <2> QED
      BY <2>1, <2>2, <2>4 DEF CancelInv
  <1>6. CASE HandlerEmits \/ HandlerLeaves
    <2>1. \A u \in Turn : js'[u].status \in {js[u].status, "none"}
      <3>1. CASE HandlerEmits
        BY <1>0, <3>1 DEF HandlerEmits, WireTypeOK, JsTurn
      <3>2. CASE HandlerLeaves
        BY <1>0, <3>2 DEF HandlerLeaves, WireTypeOK, NotInMap
      <3> QED
        BY <1>6, <3>1, <3>2
    <2>2. UNCHANGED <<interrupted, cancels, toJS>>
      BY <1>6 DEF HandlerEmits, HandlerLeaves, service
    <2> QED
      BY <2>1, <2>2 DEF CancelInv, CancelHitsItsTurn
  <1>7. CASE CloseSocket \/ Drop
    BY <1>7 DEF CloseSocket, Drop, CancelInv, CancelHitsItsTurn, NoTurns,
                NotInMap, service
  <1> QED
    <2>1. CASE RunTask \/ Pipeline
      BY <2>1, <1>1, <1>2, <1>3
      DEF RunTask, RequestRefused, PushStart, PushText, StreamEnds, RemoteError,
          IdleTimeout, Pipeline, BeginTurn, StartDisconnect, wire, service
    <2>2. CASE FinaliseStream \/ SendCancel \/ ReceiveTask \/ Disconnect
                 \/ Connect \/ ConnectFails \/ Drop
      BY <2>2, <1>1, <1>4, <1>7
      DEF FinaliseStream, ReceiveTask, Dispatch, ReceiveEnds, Reconnect, GiveUp,
          Disconnect, CancelReceive, Connect, ConnectFails, wire, service
    <2>3. CASE MessageLoop \/ Handler \/ Quiescent \/ UNCHANGED vars
      BY <2>3, <1>1, <1>5, <1>6
      DEF MessageLoop, Handler, Quiescent, vars, service, wire
    <2> QED
      BY <2>1, <2>2, <2>3 DEF Next

\* A cancel that arrives late, behind the turn.run of a later turn or after its
\* own turn has ended, aborts the turn it was meant for or none.
THEOREM LateCancelIsHarmless == Spec => []CancelHitsItsTurn
  <1>1. Init => CancelInv
    BY DEF Init, CancelInv, CancelHitsItsTurn, NoTurns, NotInMap
  <1>2. TypeInv /\ TypeInv' /\ CancelInv /\ [Next]_vars => CancelInv'
    BY CancelInductive
  <1>3. CancelInv => CancelHitsItsTurn
    BY DEF CancelInv
  <1>4. TypeInv /\ [Next]_vars => TypeInv'
    BY TypeInductive
  <1> QED
    BY <1>1, <1>2, <1>3, <1>4, InitType, PTL DEF Spec

-----------------------------------------------------------------------------
(* No run waits on a connection nobody reads                                *)

\* The queue of a run that waits is registered: whatever fails the registered
\* turns reaches it.
WaitingIsRegistered == run.phase = "waiting" => run.turn \in streams

DeafInv == WaitingIsRegistered /\ NoDeafTurn

\* Items added to the queue of a run do not take the one that ends it away.
LEMMA AppendKeepsEnds ==
  ASSUME NEW t \in Turn, StreamTypeOK, Ends(t), NEW m \in Item,
         queue'[t] = Append(queue[t], m)
  PROVE  Ends(t)'
  <1>1. queue[t] \in Seq(Item)
    BY DEF StreamTypeOK
  <1> QED
    BY <1>1 DEF Ends

LEMMA FailingEnds ==
  ASSUME NEW t \in streams, StreamTypeOK, FailActiveTurns
  PROVE  Ends(t)'
  <1>1. /\ queue[t] \in Seq(Item) /\ StreamClosed(t) \in Item
        /\ StreamClosed(t).type = "closed"
        /\ queue'[t] = Append(queue[t], StreamClosed(t))
    BY DEF StreamTypeOK, FailActiveTurns, StreamClosed, Item
  <1>2. Len(queue[t]) + 1 \in DOMAIN queue'[t]
    BY <1>1
  <1>3. queue'[t][Len(queue[t]) + 1] = StreamClosed(t)
    BY <1>1
  <1> QED
    BY <1>1, <1>2, <1>3 DEF Ends

\* A step that is not of the connection keeps the queue of a waiting run, but
\* for items added to it or a frame of content taken from it.
LEMMA RunKeepsEnds ==
  ASSUME StreamTypeOK, DeafInv, NEW t \in Turn, run.turn = t, run'.turn = t,
         run.phase = "waiting", t \in streams',
         UNCHANGED <<client, ranOn>>,
         Ends(t) => Ends(t)'
  PROVE  DeafInv'
  BY DEF DeafInv, WaitingIsRegistered, NoDeafTurn, client

LEMMA DeafInductive ==
  ASSUME TypeInv, TypeInv', DeafInv, [Next]_vars
  PROVE  DeafInv'
  <1>0. /\ ServiceTypeOK /\ ClientTypeOK /\ StreamTypeOK /\ WireTypeOK
        /\ Lifecycle
    BY TypeParts DEF TypeInv
  <1>1. CASE UNCHANGED <<run, client, streams, queue, ranOn>>
    BY <1>1 DEF DeafInv, WaitingIsRegistered, NoDeafTurn, Ends, client
  <1>2. CASE run'.phase # "waiting"
    BY <1>2 DEF DeafInv, WaitingIsRegistered, NoDeafTurn
  <1>3. CASE RequestTurn
    <2>1. run.turn \in Turn
      BY <1>0, <1>3, RunInProgress DEF RequestTurn, Idle
    <2>2. run'.turn = run.turn
      BY <1>0, <1>3 DEF RequestTurn, ServiceTypeOK, Runs, Idle
    <2>3. ranOn'[run.turn] = connections /\ run.turn \in streams'
      BY <1>0, <1>3, <2>1 DEF RequestTurn, StreamTypeOK
    <2>4. recv = "reading" \/ leaving = "cancelled"
      BY <1>0, <1>3 DEF RequestTurn, Lifecycle
    <2> QED
      BY <1>3, <2>2, <2>3, <2>4
      DEF RequestTurn, client, DeafInv, WaitingIsRegistered, NoDeafTurn
  <1>4. CASE PushStart \/ PushText
    <2>1. PICK t \in Turn : t = run.turn /\ run # Idle
      BY <1>0, <1>4, RunInProgress DEF PushStart, PushText, Taking, Idle
    <2>2. /\ run.phase = "waiting" /\ run'.turn = t /\ t \in streams'
          /\ UNCHANGED <<client, ranOn>>
      BY <1>0, <1>4, <2>1 DEF PushStart, PushText, Taking, ServiceTypeOK, Runs,
                              DeafInv, WaitingIsRegistered
    <2>3. /\ queue[t] \in Seq(Item) /\ queue[t] # <<>>
          /\ queue'[t] = Tail(queue[t])
          /\ queue[t][1].type \notin {"end", "error", "closed"}
      BY <1>0, <1>4, <2>1 DEF PushStart, PushText, Taking, StreamTypeOK
    <2>4. Ends(t) => Ends(t)'
      <3> SUFFICES ASSUME NEW i \in DOMAIN queue[t],
                          queue[t][i].type \in {"end", "error", "closed"}
                   PROVE  Ends(t)'
        BY DEF Ends
      <3>1. i - 1 \in DOMAIN queue'[t] /\ queue'[t][i - 1] = queue[t][i]
        BY <2>3
      <3> QED
        BY <3>1 DEF Ends
    <2> QED
      BY <1>0, <2>1, <2>2, <2>4, RunKeepsEnds
  <1>5. CASE FinaliseStream
    <2>1. PICK t \in streams \ {run.turn} :
            Unregister(t) /\ UNCHANGED <<run, client, ranOn>>
      BY <1>5 DEF FinaliseStream, service
    <2>2. CASE run = Idle
      BY <1>2, <2>1, <2>2 DEF Idle
    <2>3. CASE run # Idle
      <3>1. run.turn \in Turn
        BY <1>0, <2>3, RunInProgress
      <3>2. queue'[run.turn] = queue[run.turn]
        BY <1>0, <2>1, <3>1 DEF Unregister, StreamTypeOK
      <3> QED
        BY <2>1, <3>2 DEF Unregister, DeafInv, WaitingIsRegistered, NoDeafTurn,
                          Ends, client
    <2> QED
      BY <2>2, <2>3
  <1>6. CASE Dispatch /\ run.phase = "waiting"
    <2>1. PICK t \in Turn : t = run.turn
      BY <1>0, <1>6, RunInProgress DEF Idle
    <2>2. PICK m \in FromJS : m = Head(toPy)
      BY <1>0, <1>6 DEF Dispatch, WireTypeOK
    <2>3. m \in Item /\ m.turn \in Turn
      BY <2>2 DEF FromJS, Item
    <2>4. queue'[t] = queue[t] \/ queue'[t] = Append(queue[t], m)
      BY <1>0, <1>6, <2>2, <2>3 DEF Dispatch, StreamTypeOK
    <2>5. Ends(t) => Ends(t)'
      BY <1>0, <2>3, <2>4, AppendKeepsEnds DEF Ends
    <2>6. /\ run' = run /\ UNCHANGED <<client, ranOn, streams>>
      BY <1>6 DEF Dispatch, service
    <2> QED
      BY <1>0, <1>6, <2>1, <2>5, <2>6, RunKeepsEnds
      DEF DeafInv, WaitingIsRegistered
  <1>7. CASE (ReceiveEnds \/ CancelReceive \/ CloseSocket)
               /\ run.phase = "waiting"
    <2>1. PICK t \in Turn : t = run.turn
      BY <1>0, <1>7, RunInProgress DEF Idle
    <2>2. /\ UNCHANGED <<run, streams>> /\ t \in streams
          /\ FailActiveTurns \/ leaving' = "cancelled"
      BY <1>7, <2>1 DEF ReceiveEnds, CancelReceive, CloseSocket, service, DeafInv,
                        WaitingIsRegistered
    <2>3. FailActiveTurns => Ends(t)'
      BY <1>0, <2>2, FailingEnds
    <2> QED
      BY <2>1, <2>2, <2>3 DEF DeafInv, WaitingIsRegistered, NoDeafTurn
  <1>8. CASE Connect \/ ConnectFails \/ Reconnect \/ GiveUp \/ StartDisconnect
             \/ Drop
    <2>1. UNCHANGED <<run, streams, queue, ranOn>>
      BY <1>8 DEF Connect, ConnectFails, Reconnect, GiveUp, StartDisconnect, Drop, service
    <2>2. \/ recv \notin {"reading"} /\ leaving # "cancelled"
          \/ UNCHANGED <<recv, connections>> /\ leaving # "cancelled"
          \/ UNCHANGED <<leaving, connections, recv>>
      BY <1>0, <1>8 DEF Connect, ConnectFails, Reconnect, GiveUp, StartDisconnect, Drop,
                        Lifecycle
    <2> QED
      BY <2>1, <2>2 DEF DeafInv, WaitingIsRegistered, NoDeafTurn, Ends
  <1> QED
    <2>1. CASE RunTask \/ Pipeline
      BY <2>1, <1>1, <1>2, <1>3, <1>4, <1>8
      DEF RunTask, RequestRefused, StreamEnds, RemoteError, IdleTimeout, Leave,
          Pipeline, BeginTurn, Interrupt, Idle
    <2>2. CASE FinaliseStream \/ SendCancel \/ ReceiveTask \/ Disconnect
                 \/ Connect \/ ConnectFails \/ Drop
      <3>1. CASE run.phase = "waiting"
        BY <2>2, <3>1, <1>1, <1>5, <1>6, <1>7, <1>8
        DEF SendCancel, ReceiveTask, Disconnect, service
      <3>2. CASE run.phase # "waiting"
        BY <2>2, <3>2, <1>2
        DEF FinaliseStream, SendCancel, ReceiveTask, Dispatch, ReceiveEnds,
            Reconnect, GiveUp, Disconnect, CancelReceive, CloseSocket, Connect,
            ConnectFails, Drop, service
      <3> QED
        BY <3>1, <3>2
    <2>3. CASE MessageLoop \/ Handler \/ Quiescent \/ UNCHANGED vars
      BY <2>3, <1>1
      DEF MessageLoop, RunTurn, CancelTurn, Handler, HandlerEmits, HandlerLeaves,
          Quiescent, vars, service
    <2> QED
      BY <2>1, <2>2, <2>3 DEF Next

\* Fail fast: whatever drops, reconnects or disconnects, the item that ends a
\* run is in its queue before the connection it waits on goes unread.
THEOREM NobodyWaitsOnADeafConnection == Spec => []NoDeafTurn
  <1>1. Init => DeafInv
    BY DEF Init, Idle, DeafInv, WaitingIsRegistered, NoDeafTurn
  <1>2. TypeInv /\ TypeInv' /\ DeafInv /\ [Next]_vars => DeafInv'
    BY DeafInductive
  <1>3. DeafInv => NoDeafTurn
    BY DEF DeafInv
  <1>4. TypeInv /\ [Next]_vars => TypeInv'
    BY TypeInductive
  <1> QED
    BY <1>1, <1>2, <1>3, <1>4, InitType, PTL DEF Spec

-----------------------------------------------------------------------------
(* A turn is answered at most once                                          *)

Content(t) == {Start(t), Text(t)}
None(s, ms) == \A i \in 1 .. Len(s) : s[i] \notin ms

\* m is in s once, or not at all.
Unique(s, m) == \A i, j \in 1 .. Len(s) : s[i] = m /\ s[j] = m => i = j

\* Nothing of the response of t precedes its start in s.
StartLeads(s, t) ==
  \A i, j \in 1 .. Len(s) : s[j] = Start(t) /\ i < j => s[i] \notin Content(t)

\* t has not been run by the bridge, as far as anybody can tell.
NotRun(t) ==
  /\ js[t].status = "none"
  /\ None(toPy, Content(t)) /\ None(queue[t], Content(t))

\* t has not been asked of the bridge.
Unborn(t) == t > asked \/ (run.turn = t /\ run.phase = "payload")

\* The start of t moves on: from a turn not asked for, to a turn.run, to a start
\* frame on the wire, to one in the queue of t, to one pushed downstream; it is
\* nowhere twice, and never behind the text it belongs to.
Unasked(t)      == Unborn(t) => NotRun(t) /\ None(toJS, {Run(t)})
AskedOnce(t)    == /\ Unique(toJS, Run(t))
                   /\ ~None(toJS, {Run(t)}) => NotRun(t)
StartOnWire(t)  == /\ StartLeads(toPy, t)
                   /\ ~None(toPy, {Start(t)}) => None(queue[t], Content(t))
StartInQueue(t) == StartLeads(queue[t], t)
StartPushed(t)  == (run.turn = t /\ run.started) =>
                     /\ None(toJS, {Run(t)}) /\ None(toPy, {Start(t)})
                     /\ None(queue[t], {Start(t)})

StartsOnce(t) == /\ Unasked(t) /\ AskedOnce(t)
                 /\ StartOnWire(t) /\ StartInQueue(t) /\ StartPushed(t)

\* What has been pushed is of turns asked for, and ends in the response of the
\* run in progress, if it has started.
OutInv ==
  /\ run # Idle => run.turn \in 1 .. asked
  /\ run.phase = "payload" => ~run.started
  /\ \A i \in 1 .. Len(out) :
       out[i].turn \in 1 .. asked /\ (out[i].turn = run.turn => run.started)
  /\ run.started => out # <<>> /\ out[Len(out)] \in Content(run.turn)
  /\ ~run.started => out = <<>> \/ out[Len(out)].type = "end"

\* The queue of a turn holds what is of that turn.
OwnQueue(t) == \A i \in 1 .. Len(queue[t]) : queue[t][i].turn = t

AnswerInv == /\ \A t \in Turn : StartsOnce(t) /\ OwnQueue(t)
             /\ OutInv

\* r holds no more of the response of t than s does.
NoMore(s, r, t) ==
  /\ None(s, Content(t)) => None(r, Content(t))
  /\ None(s, {Start(t)}) => None(r, {Start(t)})
  /\ StartLeads(s, t) => StartLeads(r, t)

\* r holds no more requests of t than s does.
NoMoreRuns(s, r, t) ==
  /\ None(s, {Run(t)}) => None(r, {Run(t)})
  /\ Unique(s, Run(t)) => Unique(r, Run(t))

LEMMA AppendNone ==
  ASSUME NEW S, NEW s \in Seq(S), NEW m \in S, NEW ms
  PROVE  None(Append(s, m), ms) <=> None(s, ms) /\ m \notin ms
  BY DEF None

LEMMA TailNone ==
  ASSUME NEW S, NEW s \in Seq(S), s # <<>>, NEW ms
  PROVE  /\ None(s, ms) => None(Tail(s), ms) /\ Head(s) \notin ms
         /\ Head(s) \notin ms /\ None(Tail(s), ms) => None(s, ms)
  <1>1. None(s, ms) => None(Tail(s), ms) /\ Head(s) \notin ms
    BY DEF None
  <1>2. ASSUME Head(s) \notin ms, None(Tail(s), ms)
        PROVE  None(s, ms)
    <2> SUFFICES ASSUME NEW i \in 1 .. Len(s)
                 PROVE  s[i] \notin ms
      BY DEF None
    <2>1. CASE i = 1
      BY <1>2, <2>1
    <2>2. CASE i # 1
      <3>1. i - 1 \in 1 .. Len(Tail(s)) /\ Tail(s)[i - 1] = s[i]
        BY <2>2
      <3> QED
        BY <1>2, <3>1 DEF None
    <2> QED
      BY <2>1, <2>2
  <1> QED
    BY <1>1, <1>2

LEMMA NoneOfLess ==
  ASSUME NEW s, NEW ms, NEW ns, None(s, ms), ns \subseteq ms
  PROVE  None(s, ns)
  BY DEF None

LEMMA AppendOther ==
  ASSUME NEW S, NEW s \in Seq(S), NEW m \in S, NEW t
  PROVE  /\ m \notin Content(t) => NoMore(s, Append(s, m), t)
         /\ m # Run(t) => NoMoreRuns(s, Append(s, m), t)
  <1>1. ASSUME m \notin Content(t)
        PROVE  NoMore(s, Append(s, m), t)
    <2>1. StartLeads(s, t) => StartLeads(Append(s, m), t)
      BY <1>1 DEF StartLeads, Content
    <2> QED
      BY <1>1, <2>1, AppendNone DEF NoMore, Content
  <1>2. ASSUME m # Run(t)
        PROVE  NoMoreRuns(s, Append(s, m), t)
    <2>1. Unique(s, Run(t)) => Unique(Append(s, m), Run(t))
      BY <1>2 DEF Unique
    <2> QED
      BY <1>2, <2>1, AppendNone DEF NoMoreRuns
  <1> QED
    BY <1>1, <1>2

LEMMA TailHasNoMore ==
  ASSUME NEW S, NEW s \in Seq(S), s # <<>>, NEW t
  PROVE  NoMore(s, Tail(s), t) /\ NoMoreRuns(s, Tail(s), t)
  <1>1. StartLeads(s, t) => StartLeads(Tail(s), t)
    BY DEF StartLeads
  <1>2. Unique(s, Run(t)) => Unique(Tail(s), Run(t))
    BY DEF Unique
  <1> QED
    BY <1>1, <1>2, TailNone DEF NoMore, NoMoreRuns

LEMMA PrefixHasNoMore ==
  ASSUME NEW S, NEW s \in Seq(S), NEW n \in 0 .. Len(s), NEW t
  PROVE  NoMore(s, SubSeq(s, 1, n), t)
  BY DEF NoMore, None, StartLeads

LEMMA EmptyHasNone ==
  ASSUME NEW s, NEW t
  PROVE  /\ NoMore(s, <<>>, t) /\ NoMoreRuns(s, <<>>, t)
         /\ NoMore(s, s, t) /\ NoMoreRuns(s, s, t)
  BY DEF NoMore, NoMoreRuns, None, StartLeads, Unique

\* Behind a start or a text of t there is no start of t.
LEMMA HeadLeads ==
  ASSUME NEW S, NEW s \in Seq(S), s # <<>>, NEW t, StartLeads(s, t),
         Head(s) \in Content(t)
  PROVE  None(Tail(s), {Start(t)})
  <1> SUFFICES ASSUME NEW i \in 1 .. Len(Tail(s)), Tail(s)[i] = Start(t)
               PROVE  FALSE
    BY DEF None
  <1>1. i + 1 \in 1 .. Len(s) /\ s[i + 1] = Start(t) /\ 1 < i + 1
          /\ 1 \in 1 .. Len(s)
    OBVIOUS
  <1> QED
    BY <1>1 DEF StartLeads

\* A step that adds nothing of t anywhere, asks for nothing and starts nothing.
LEMMA StepWithoutTurn ==
  ASSUME NEW t \in Turn, StartsOnce(t),
         Unborn(t)' => Unborn(t),
         js'[t].status = "none" \/ js[t].status # "none",
         NoMoreRuns(toJS, toJS', t), NoMore(toPy, toPy', t),
         NoMore(queue[t], queue'[t], t),
         run'.turn = t /\ run'.started => run.turn = t /\ run.started
  PROVE  StartsOnce(t)'
  <1>1. NotRun(t) => NotRun(t)'
    BY DEF NotRun, NoMore
  <1> QED
    BY <1>1 DEF StartsOnce, Unasked, AskedOnce, StartOnWire, StartInQueue,
                StartPushed, NoMore, NoMoreRuns

\* A message is content of t only if it is a start or a text, and of t.
LEMMA MessagesDiffer ==
  ASSUME NEW t, NEW m
  PROVE  /\ m \in Content(t) => m.turn = t /\ m.type \in {"start", "text"}
         /\ m \in FromJS \cup Item /\ m.turn = t /\ m.type \in {"start", "text"}
              => m \in Content(t)
         /\ m \in FromJS \cup Item /\ m.turn = t /\ m.type = "start"
              => m = Start(t)
         /\ m = Run(t) => m.turn = t /\ m.type = "turn.run"
         /\ m \in FromPy /\ m.turn = t /\ m.type = "turn.run" => m = Run(t)
         /\ Start(t) # Text(t)
  <1>1. /\ Start(t).turn = t /\ Start(t).type = "start"
        /\ Text(t).turn = t /\ Text(t).type = "text"
        /\ Run(t).turn = t /\ Run(t).type = "turn.run"
    BY DEF Start, Text, Run
  <1>2. m \in FromJS \cup Item /\ m.turn = t /\ m.type = "start" => m = Start(t)
    BY DEF FromJS, Item, Start
  <1>3. m \in FromJS \cup Item /\ m.turn = t /\ m.type = "text" => m = Text(t)
    BY DEF FromJS, Item, Text
  <1>4. m \in FromPy /\ m.turn = t /\ m.type = "turn.run" => m = Run(t)
    BY DEF FromPy, Run
  <1> QED
    BY <1>1, <1>2, <1>3, <1>4 DEF Content

LEMMA OwnQueueInductive ==
  ASSUME TypeInv, \A u \in Turn : OwnQueue(u), [Next]_vars, NEW t \in Turn
  PROVE  OwnQueue(t)'
  <1>0. /\ ServiceTypeOK /\ StreamTypeOK /\ WireTypeOK /\ OwnQueue(t)
        /\ queue[t] \in Seq(Item)
    BY TypeParts DEF TypeInv, StreamTypeOK
  <1>1. CASE queue'[t] \in {queue[t], <<>>}
    BY <1>0, <1>1 DEF OwnQueue
  <1>2. CASE queue[t] # <<>> /\ queue'[t] = Tail(queue[t])
    BY <1>0, <1>2 DEF OwnQueue
  <1>3. ASSUME NEW m \in Item, m.turn = t, queue'[t] = Append(queue[t], m)
        PROVE  OwnQueue(t)'
    BY <1>0, <1>3 DEF OwnQueue
  <1>4. ASSUME NEW u, Unregister(u)
        PROVE  OwnQueue(t)'
    BY <1>0, <1>1, <1>4 DEF Unregister, StreamTypeOK
  <1>5. CASE FailActiveTurns
    <2>1. StreamClosed(t) \in Item /\ StreamClosed(t).turn = t
      BY DEF StreamClosed, Item
    <2> QED
      BY <1>1, <1>3, <1>5, <2>1 DEF FailActiveTurns
  <1>6. CASE PushStart \/ PushText \/ RemoteError
    <2>1. run.turn \in Turn
      BY <1>0, <1>6, RunInProgress
      DEF PushStart, PushText, RemoteError, Taking, Idle
    <2> QED
      BY <1>0, <1>1, <1>2, <1>6, <2>1
      DEF PushStart, PushText, RemoteError, Taking, StreamTypeOK
  <1>7. CASE Dispatch
    <2>1. PICK m \in FromJS : m = Head(toPy)
      BY <1>0, <1>7 DEF Dispatch, WireTypeOK
    <2>2. m \in Item /\ m.turn \in Turn
      BY <2>1 DEF FromJS, Item
    <2>3. \/ queue'[t] = queue[t]
          \/ m.turn = t /\ queue'[t] = Append(queue[t], m)
      BY <1>0, <1>7, <2>1, <2>2 DEF Dispatch, StreamTypeOK
    <2> QED
      BY <1>1, <1>3, <2>2, <2>3
  <1>8. CASE queue' = queue
    BY <1>1, <1>8
  <1> QED
    <2>1. CASE RunTask \/ Pipeline
      BY <2>1, <1>4, <1>6, <1>8
      DEF RunTask, RequestTurn, RequestRefused, StreamEnds, IdleTimeout,
          Pipeline, BeginTurn, Interrupt, StartDisconnect
    <2>2. CASE FinaliseStream \/ SendCancel \/ ReceiveTask \/ Disconnect
                 \/ Connect \/ ConnectFails \/ Drop
      BY <2>2, <1>4, <1>5, <1>7, <1>8
      DEF FinaliseStream, SendCancel, ReceiveTask, ReceiveEnds, Reconnect, GiveUp,
          Disconnect, CancelReceive, CloseSocket, Connect, ConnectFails, Drop
    <2>3. CASE MessageLoop \/ Handler \/ Quiescent \/ UNCHANGED vars
      BY <2>3, <1>8
      DEF MessageLoop, RunTurn, CancelTurn, Handler, HandlerEmits, HandlerLeaves,
          Quiescent, vars
    <2> QED
      BY <2>1, <2>2, <2>3 DEF Next

\* The start of a turn moves one place further, or is lost, in every step.
LEMMA AnswersOnce ==
  ASSUME TypeInv, AnswerInv, [Next]_vars, NEW t \in Turn
  PROVE  StartsOnce(t)'
  <1>0. /\ StartsOnce(t) /\ OwnQueue(t) /\ OutInv
        /\ ServiceTypeOK /\ StreamTypeOK /\ WireTypeOK
        /\ toJS \in Seq(FromPy) /\ toPy \in Seq(FromJS)
        /\ queue[t] \in Seq(Item) /\ asked \in Nat /\ t \in Nat
    <2>1. StartsOnce(t) /\ OwnQueue(t) /\ OutInv
      BY DEF AnswerInv
    <2>2. ServiceTypeOK /\ StreamTypeOK /\ WireTypeOK
      BY TypeParts DEF TypeInv
    <2>3. toJS \in Seq(FromPy) /\ toPy \in Seq(FromJS)
      BY <2>2 DEF WireTypeOK
    <2>4. queue[t] \in Seq(Item)
      BY <2>2 DEF StreamTypeOK
    <2>5. asked \in Nat /\ t \in Nat
      BY <2>2, BridgeAssumption DEF ServiceTypeOK, Turn
    <2> QED
      BY <2>1, <2>2, <2>3, <2>4, <2>5
  \* steps that leave the wire alone and shrink the queue, if anything
  <1>1. ASSUME UNCHANGED wire, asked' = asked,
               NoMore(queue[t], queue'[t], t),
               run'.turn = t => run' = run
        PROVE  StartsOnce(t)'
    BY <1>0, <1>1, EmptyHasNone, StepWithoutTurn DEF Unborn, wire
  <1>2. ASSUME NEW u, Unregister(u)
        PROVE  NoMore(queue[t], queue'[t], t)
    BY <1>0, <1>2, EmptyHasNone DEF Unregister, StreamTypeOK
  <1>3. CASE BeginTurn
    <2>1. /\ UNCHANGED <<wire, queue>> /\ asked' = asked + 1
          /\ run'.turn = asked + 1 /\ run'.phase = "payload" /\ ~run'.started
      BY <1>3 DEF BeginTurn
    <2>2. Unborn(t)' => Unborn(t)
      BY <1>0, <2>1 DEF Unborn
    <2> QED
      BY <1>0, <2>1, <2>2, EmptyHasNone, StepWithoutTurn DEF wire
  <1>4. CASE RequestTurn
    <2>1. PICK u \in Turn : u = run.turn /\ run # Idle
      BY <1>0, <1>4, RunInProgress DEF RequestTurn, Idle
    <2>2. /\ run'.turn = u /\ run'.phase = "waiting" /\ run'.started = run.started
          /\ ~run.started /\ run.phase = "payload"
          /\ toJS' = Append(toJS, Run(u)) /\ Run(u) \in FromPy
          /\ UNCHANGED <<asked, queue, toPy, js>>
      BY <1>0, <1>4, <2>1, Messages
      DEF RequestTurn, OutInv, ServiceTypeOK, Runs
    <2>3. CASE u = t
      <3>1. NotRun(t) /\ None(toJS, {Run(t)})
        BY <1>0, <2>1, <2>2, <2>3 DEF StartsOnce, Unasked, Unborn
      <3>2. ~Unborn(t)'
        BY <1>0, <2>1, <2>2, <2>3 DEF Unborn, OutInv
      <3>3. Unique(toJS', Run(t))
        BY <1>0, <2>2, <2>3, <3>1 DEF Unique, None
      <3>4. NotRun(t)'
        BY <2>2, <3>1 DEF NotRun
      <3> QED
        BY <1>0, <2>2, <3>2, <3>3, <3>4
        DEF StartsOnce, Unasked, AskedOnce, StartOnWire, StartInQueue, StartPushed
    <2>4. CASE u # t
      <3>1. NoMoreRuns(toJS, toJS', t)
        BY <1>0, <2>2, <2>4, AppendOther, MessagesDiffer
      <3>2. Unborn(t)' => Unborn(t)
        BY <2>2, <2>4 DEF Unborn
      <3> QED
        BY <1>0, <2>2, <2>4, <3>1, <3>2, EmptyHasNone, StepWithoutTurn
    <2> QED
      BY <2>3, <2>4
  <1>5. CASE PushStart \/ PushText
    <2>1. PICK u \in Turn : u = run.turn /\ run # Idle
      BY <1>0, <1>5, RunInProgress DEF PushStart, PushText, Taking, Idle
    <2>2. /\ run.phase = "waiting"
          /\ run'.turn = u /\ run'.phase = "waiting" /\ run'.started
          /\ queue[u] # <<>> /\ queue' = [queue EXCEPT ![u] = Tail(@)]
          /\ Head(queue[u]).type \in {"start", "text"}
          /\ UNCHANGED <<asked, wire>>
      BY <1>0, <1>5, <2>1
      DEF PushStart, PushText, Taking, ServiceTypeOK, Runs
    <2>3. NoMore(queue[t], queue'[t], t)
      BY <1>0, <2>1, <2>2, EmptyHasNone, TailHasNoMore DEF StreamTypeOK
    <2>4. CASE u # t
      BY <1>1, <2>2, <2>3, <2>4
    <2>5. CASE u = t
      <3>1. Head(queue[t]) \in Item /\ Head(queue[t]).turn = t
        BY <1>0, <2>2, <2>5 DEF OwnQueue
      <3>2. Head(queue[t]) \in Content(t)
        BY <2>2, <2>5, <3>1, MessagesDiffer
      <3>3. ~None(queue[t], Content(t))
        BY <1>0, <2>2, <2>5, <3>2, TailNone
      <3>4. None(toJS, {Run(t)}) /\ None(toPy, {Start(t)})
        BY <1>0, <3>3 DEF StartsOnce, AskedOnce, StartOnWire, NotRun
      <3>5. queue'[t] = Tail(queue[t])
        BY <1>0, <2>2, <2>5 DEF StreamTypeOK
      <3>6. None(queue'[t], {Start(t)})
        BY <1>0, <2>2, <2>5, <3>2, <3>5, HeadLeads DEF StartsOnce, StartInQueue
      <3>7. ~Unborn(t)'
        BY <1>0, <2>1, <2>2, <2>5 DEF Unborn, OutInv
      <3> QED
        BY <1>0, <2>2, <2>3, <3>4, <3>6, <3>7
        DEF StartsOnce, Unasked, AskedOnce, StartOnWire, StartInQueue,
            StartPushed, NoMore, wire, NotRun
    <2> QED
      BY <2>4, <2>5
  <1>6. CASE StreamEnds \/ IdleTimeout \/ Interrupt \/ RequestRefused \/ RemoteError
    <2>1. /\ UNCHANGED <<wire, asked>> /\ run' = Idle
          /\ \/ queue' = queue
             \/ \E u \in {run.turn} : Unregister(u)
             \/ /\ queue[run.turn] # <<>> /\ run # Idle
                /\ queue' = [queue EXCEPT ![run.turn] = Tail(@)]
      BY <1>6 DEF StreamEnds, IdleTimeout, Interrupt, RequestRefused, RemoteError,
                  Leave, Taking, Idle
    <2>2. NoMore(queue[t], queue'[t], t)
      <3>1. CASE queue' = queue
        BY <3>1, EmptyHasNone
      <3>2. CASE \E u \in {run.turn} : Unregister(u)
        BY <3>2, <1>2
      <3>3. CASE /\ queue[run.turn] # <<>> /\ run # Idle
                 /\ queue' = [queue EXCEPT ![run.turn] = Tail(@)]
        BY <1>0, <3>3, EmptyHasNone, TailHasNoMore, RunInProgress
        DEF StreamTypeOK
      <3> QED
        BY <2>1, <3>1, <3>2, <3>3
    <2>3. run'.turn # t
      BY <2>1, BridgeAssumption DEF Idle, Turn
    <2> QED
      BY <1>1, <2>1, <2>2, <2>3
  <1>7. CASE FinaliseStream
    <2>1. PICK u : Unregister(u) /\ UNCHANGED <<service, wire>>
      BY <1>7 DEF FinaliseStream
    <2> QED
      BY <1>1, <1>2, <2>1 DEF service
  <1>8. CASE SendCancel
    <2>1. PICK u \in Turn : toJS' = toJS \/ toJS' = Append(toJS, Cancel(u))
      BY <1>0, <1>8 DEF SendCancel, StreamTypeOK
    <2>2. Cancel(u) \in FromPy /\ Cancel(u) # Run(t)
      BY Messages DEF Cancel, Run
    <2>3. NoMoreRuns(toJS, toJS', t)
      BY <1>0, <2>1, <2>2, AppendOther, EmptyHasNone
    <2> QED
      BY <1>0, <1>8, <2>3, EmptyHasNone, StepWithoutTurn
      DEF SendCancel, service, Unborn
  <1>9. CASE Dispatch
    <2>1. PICK m \in FromJS : m = Head(toPy) /\ toPy # <<>> /\ toPy' = Tail(toPy)
      BY <1>0, <1>9 DEF Dispatch
    <2>2. m \in Item /\ m.turn \in Turn
      BY <2>1 DEF FromJS, Item
    <2>3. queue'[t] = queue[t] \/ queue'[t] = Append(queue[t], m)
      BY <1>0, <1>9, <2>1, <2>2 DEF Dispatch, StreamTypeOK
    <2>4. NoMore(toPy, toPy', t)
      BY <1>0, <2>1, TailHasNoMore
    <2>5. UNCHANGED <<service, toJS, js>>
      BY <1>9 DEF Dispatch
    <2>6. CASE queue'[t] = queue[t] \/ m \notin Content(t)
      <3>1. NoMore(queue[t], queue'[t], t)
        BY <1>0, <2>2, <2>3, <2>6, EmptyHasNone, AppendOther
      <3> QED
        BY <1>0, <2>4, <2>5, <3>1, EmptyHasNone, StepWithoutTurn
        DEF service, Unborn
    <2>7. CASE queue'[t] = Append(queue[t], m) /\ m \in Content(t)
      <3>1. ~None(toPy, Content(t)) /\ ~NotRun(t)
        BY <1>0, <2>1, <2>7, TailNone DEF NotRun
      <3>2. None(toPy', {Start(t)})
        BY <1>0, <2>1, <2>7, HeadLeads DEF StartsOnce, StartOnWire
      <3>3. ~Unborn(t) /\ ~Unborn(t)' /\ None(toJS', {Run(t)})
        BY <1>0, <2>5, <3>1
        DEF StartsOnce, Unasked, AskedOnce, Unborn, service
      <3>4. m = Start(t) => /\ None(queue[t], Content(t))
                            /\ ~None(toPy, {Start(t)})
        BY <1>0, <2>1, TailNone DEF StartsOnce, StartOnWire
      <3>5. StartInQueue(t)'
        BY <1>0, <2>2, <2>7, <3>4 DEF StartsOnce, StartInQueue, StartLeads, None
      <3>6. (run.turn = t /\ run.started) => None(queue'[t], {Start(t)})
        BY <1>0, <2>2, <2>7, <3>4, AppendNone DEF StartsOnce, StartPushed
      <3> QED
        BY <1>0, <2>4, <2>5, <3>2, <3>3, <3>5, <3>6
        DEF StartsOnce, Unasked, AskedOnce, StartOnWire, StartPushed, NoMore,
            service
    <2> QED
      BY <2>3, <2>6, <2>7
  <1>10. CASE ReceiveEnds \/ CancelReceive
    <2>1. StreamClosed(t) \in Item /\ StreamClosed(t) \notin Content(t)
      BY DEF StreamClosed, Item, Content, Start, Text
    <2>2. queue'[t] \in {queue[t], Append(queue[t], StreamClosed(t))}
      BY <1>10 DEF ReceiveEnds, CancelReceive, FailActiveTurns
    <2>3. NoMore(queue[t], queue'[t], t)
      BY <1>0, <2>1, <2>2, EmptyHasNone, AppendOther
    <2> QED
      BY <1>1, <1>10, <2>3 DEF ReceiveEnds, CancelReceive, service
  <1>11. CASE CloseSocket \/ Drop
    <2>1. StreamClosed(t) \in Item /\ StreamClosed(t) \notin Content(t)
      BY DEF StreamClosed, Item, Content, Start, Text
    <2>2. queue'[t] \in {queue[t], Append(queue[t], StreamClosed(t))}
      BY <1>11 DEF CloseSocket, Drop, FailActiveTurns
    <2>3. NoMore(queue[t], queue'[t], t)
      BY <1>0, <2>1, <2>2, EmptyHasNone, AppendOther
    <2>4. NoMore(toPy, toPy', t)
      BY <1>0, <1>11, EmptyHasNone, PrefixHasNoMore DEF CloseSocket, Drop
    <2>5. js'[t].status = "none"
      BY <1>11 DEF CloseSocket, Drop, NoTurns, NotInMap
    <2> QED
      BY <1>0, <1>11, <2>3, <2>4, <2>5, EmptyHasNone, StepWithoutTurn
      DEF CloseSocket, Drop, service, Unborn
  <1>12. CASE RunTurn
    <2>1. PICK m \in FromPy : /\ m = Head(toJS) /\ toJS # <<>>
                              /\ toJS' = Tail(toJS) /\ m.type = "turn.run"
      BY <1>0, <1>12 DEF RunTurn
    <2>2. PICK u \in Turn : u = m.turn
      BY <2>1 DEF FromPy
    <2>3. /\ m = Run(u) /\ (u = t <=> Run(u) = Run(t))
          /\ Start(u) \in FromJS /\ Error(u) \in FromJS
      BY <2>1, <2>2, Messages, MessagesDiffer DEF Run
    <2>4. NoMoreRuns(toJS, toJS', t)
      BY <1>0, <2>1, TailHasNoMore
    <2>5. UNCHANGED <<asked, run, queue>>
      BY <1>12 DEF RunTurn, service
    <2>6. \/ /\ js[u].status = "none" /\ js' = [js EXCEPT ![u] = NewTurn]
             /\ toPy' = Append(toPy, Start(u))
          \/ js' = js /\ toPy' = Append(toPy, Error(u))
      BY <1>12, <2>1, <2>2 DEF RunTurn
    <2>7. /\ Error(u) \notin Content(t)
          /\ u # t => Start(u) \notin Content(t)
      BY DEF Content, Start, Text, Error
    <2>8. CASE u # t \/ toPy' = Append(toPy, Error(u))
      <3>1. NoMore(toPy, toPy', t)
        <4>1. PICK e \in FromJS : e \notin Content(t) /\ toPy' = Append(toPy, e)
          BY <2>3, <2>6, <2>7, <2>8
        <4> QED
          BY <1>0, <4>1, AppendOther
      <3>2. js'[t].status = "none" \/ js[t].status # "none"
        BY <1>0, <2>6, <2>8 DEF WireTypeOK, JsTurn, Start, Error
      <3> QED
        BY <1>0, <2>4, <2>5, <3>1, <3>2, EmptyHasNone, StepWithoutTurn DEF Unborn
    <2>9. CASE u = t /\ toPy' = Append(toPy, Start(t))
      <3>1. ~None(toJS, {Run(t)}) /\ None(toJS', {Run(t)})
        <4>1. Head(toJS) = Run(t)
          BY <2>1, <2>3, <2>9
        <4>2. ~None(toJS, {Run(t)})
          BY <1>0, <2>1, <4>1, TailNone
        <4>3. Unique(toJS, Run(t))
          BY <1>0 DEF StartsOnce, AskedOnce
        <4>4. \A i \in 1 .. Len(Tail(toJS)) : Tail(toJS)[i] # Run(t)
          <5> SUFFICES ASSUME NEW i \in 1 .. Len(Tail(toJS)),
                              Tail(toJS)[i] = Run(t)
                       PROVE  FALSE
            OBVIOUS
          <5>1. /\ i + 1 \in 1 .. Len(toJS) /\ 1 \in 1 .. Len(toJS)
                /\ toJS[i + 1] = Run(t) /\ toJS[1] = Run(t)
            BY <1>0, <2>1, <4>1
          <5>2. i + 1 = 1
            BY <4>3, <5>1 DEF Unique
          <5> QED
            BY <5>2
        <4> QED
          BY <2>1, <4>2, <4>4 DEF None
      <3>2. /\ None(toPy, Content(t)) /\ None(queue[t], Content(t))
            /\ ~Unborn(t) /\ ~Unborn(t)'
        BY <1>0, <2>5, <3>1
        DEF StartsOnce, Unasked, AskedOnce, NotRun, Unborn
      <3>3. ~(run.turn = t /\ run.started)
        BY <1>0, <3>1 DEF StartsOnce, StartPushed
      <3>4. StartLeads(toPy', t)
        BY <1>0, <2>3, <2>9, <3>2 DEF StartLeads, None
      <3>5. Unique(toJS', Run(t))
        BY <1>0, <2>4 DEF NoMoreRuns, StartsOnce, AskedOnce
      <3> QED
        BY <1>0, <2>5, <3>1, <3>2, <3>3, <3>4, <3>5
        DEF StartsOnce, Unasked, AskedOnce, StartOnWire, StartInQueue, StartPushed
    <2> QED
      BY <2>6, <2>8, <2>9
  <1>13. CASE CancelTurn
    <2>1. /\ toJS # <<>> /\ toJS' = Tail(toJS) /\ UNCHANGED <<service, queue, toPy>>
          /\ js' = Aborted(js, Head(toJS).turn)
      BY <1>13 DEF CancelTurn
    <2>2. js'[t].status = "none" \/ js[t].status # "none"
      BY <1>0, <2>1 DEF Aborted, WireTypeOK
    <2> QED
      BY <1>0, <2>1, <2>2, TailHasNoMore, EmptyHasNone, StepWithoutTurn
      DEF service, Unborn
  <1>14. CASE HandlerEmits
    <2>1. PICK u \in Turn : /\ js[u].status = "running"
                            /\ js' = [js EXCEPT ![u].said = @ + 1]
                            /\ toPy' = Append(toPy, Text(u)) /\ Text(u) \in FromJS
                            /\ UNCHANGED <<asked, run, queue, toJS>>
      BY <1>14, Messages DEF HandlerEmits, service
    <2>2. js'[t].status = js[t].status
      BY <1>0, <2>1 DEF WireTypeOK, JsTurn
    <2>3. CASE u # t
      <3>1. Text(u) \notin Content(t)
        BY <2>3 DEF Content, Start, Text
      <3>2. NoMore(toPy, toPy', t)
        BY <1>0, <2>1, <3>1, AppendOther
      <3> QED
        BY <1>0, <2>1, <2>2, <3>2, EmptyHasNone, StepWithoutTurn DEF Unborn
    <2>4. CASE u = t
      <3>1. ~NotRun(t)
        BY <2>1, <2>4 DEF NotRun
      <3>2. ~Unborn(t) /\ ~Unborn(t)' /\ None(toJS, {Run(t)})
        BY <1>0, <2>1, <3>1 DEF StartsOnce, Unasked, AskedOnce, Unborn
      <3>3. Text(u) # Start(t)
        BY DEF Text, Start
      <3>4. StartLeads(toPy', t)
        BY <1>0, <2>1, <3>3 DEF StartsOnce, StartOnWire, StartLeads
      <3>5. None(toPy', {Start(t)}) <=> None(toPy, {Start(t)})
        BY <1>0, <2>1, <3>3, AppendNone
      <3> QED
        BY <1>0, <2>1, <3>2, <3>4, <3>5
        DEF StartsOnce, Unasked, AskedOnce, StartOnWire, StartInQueue, StartPushed
    <2> QED
      BY <2>3, <2>4
  <1>15. CASE HandlerLeaves
    <2>1. PICK u \in Turn :
            /\ js[u].status # "none" /\ js' = [js EXCEPT ![u] = NotInMap]
            /\ toPy' \in {toPy, Append(toPy, End(u)), Append(toPy, Error(u))}
            /\ UNCHANGED <<asked, run, queue, toJS>>
      BY <1>15 DEF HandlerLeaves, service
    <2>2. /\ End(u) \in FromJS /\ Error(u) \in FromJS
          /\ End(u) \notin Content(t) /\ Error(u) \notin Content(t)
      BY Messages DEF Content, Start, Text, End, Error
    <2>3. NoMore(toPy, toPy', t)
      BY <1>0, <2>1, <2>2, AppendOther, EmptyHasNone
    <2>4. js'[t].status = "none" \/ js[t].status # "none"
      BY <1>0, <2>1 DEF WireTypeOK
    <2> QED
      BY <1>0, <2>1, <2>3, <2>4, EmptyHasNone, StepWithoutTurn DEF Unborn
  <1>16. CASE UNCHANGED <<service, wire, queue>>
    BY <1>1, <1>16, EmptyHasNone DEF service
  <1> QED
    <2>1. CASE RunTask \/ Pipeline
      BY <2>1, <1>3, <1>4, <1>5, <1>6, <1>16
      DEF RunTask, Pipeline, StartDisconnect
    <2>2. CASE FinaliseStream \/ SendCancel \/ ReceiveTask \/ Disconnect
                 \/ Connect \/ ConnectFails \/ Drop
      BY <2>2, <1>7, <1>8, <1>9, <1>10, <1>11, <1>16
      DEF ReceiveTask, Reconnect, GiveUp, Disconnect, Connect, ConnectFails
    <2>3. CASE MessageLoop \/ Handler \/ Quiescent \/ UNCHANGED vars
      BY <2>3, <1>12, <1>13, <1>14, <1>15, <1>16
      DEF MessageLoop, Handler, Quiescent, vars
    <2> QED
      BY <2>1, <2>2, <2>3 DEF Next

LEMMA AppendTurn ==
  ASSUME NEW s \in Seq(OutFrame), NEW n, NEW m \in OutFrame,
         m.turn \in 1 .. n, \A i \in 1 .. Len(s) : s[i].turn \in 1 .. n
  PROVE  /\ Append(s, m) \in Seq(OutFrame) /\ s \o <<m>> = Append(s, m)
         /\ \A i \in 1 .. Len(Append(s, m)) : Append(s, m)[i].turn \in 1 .. n
  OBVIOUS

\* Leaving the run closes its response, and opens it first if need be.
LEMMA LeaveOut ==
  ASSUME ServiceTypeOK, OutInv, run # Idle, Leave, asked' = asked
  PROVE  OutInv'
  <1>1. /\ run.turn \in Turn /\ run.turn \in 1 .. asked /\ out \in Seq(OutFrame)
        /\ asked \in Nat
    BY BridgeAssumption, RunInProgress DEF OutInv, ServiceTypeOK
  <1>2. /\ Start(run.turn) \in OutFrame /\ End(run.turn) \in OutFrame
        /\ Start(run.turn).turn = run.turn
        /\ End(run.turn).turn = run.turn /\ End(run.turn).type = "end"
    BY <1>1, OutFrames DEF Start, End
  <1>3. /\ run' = Idle /\ run'.turn = 0 /\ ~run'.started /\ run'.phase = "idle"
    BY DEF Leave, Idle
  <1>4. \/ out' = out \o <<End(run.turn)>>
        \/ out' = out \o <<Start(run.turn), End(run.turn)>>
    BY DEF Leave, Ending
  <1>5. out' # <<>> /\ out'[Len(out')] = End(run.turn)
    BY <1>1, <1>2, <1>4
  <1>6. \A i \in 1 .. Len(out') : out'[i].turn \in 1 .. asked
    <2>1. \/ out' = Append(out, End(run.turn))
          \/ out' = Append(Append(out, Start(run.turn)), End(run.turn))
      BY <1>1, <1>2, <1>4
    <2>2. \A i \in 1 .. Len(out) : out[i].turn \in 1 .. asked
      BY DEF OutInv
    <2> QED
      BY <1>1, <1>2, <2>1, <2>2, AppendTurn
  <1> QED
    BY <1>1, <1>2, <1>3, <1>5, <1>6 DEF OutInv

LEMMA OutInductive ==
  ASSUME TypeInv, OutInv, [Next]_vars
  PROVE  OutInv'
  <1>0. /\ ServiceTypeOK /\ out \in Seq(OutFrame) /\ asked \in Nat
    BY TypeParts, BridgeAssumption DEF TypeInv, ServiceTypeOK
  <1>1. CASE UNCHANGED <<asked, run, out>>
    BY <1>1 DEF OutInv
  <1>2. CASE BeginTurn
    <2>1. /\ out' = out /\ asked' = asked + 1 /\ run = Idle /\ ~run.started
          /\ run'.turn = asked + 1 /\ run'.phase = "payload" /\ ~run'.started
      BY <1>2 DEF BeginTurn, Idle
    <2> QED
      BY <1>0, <2>1 DEF OutInv
  <1>3. CASE RequestTurn
    <2>1. /\ run # Idle /\ run'.turn = run.turn /\ run'.started = run.started
          /\ run'.phase = "waiting" /\ UNCHANGED <<asked, out>>
      BY <1>0, <1>3 DEF RequestTurn, Idle, ServiceTypeOK, Runs
    <2> QED
      BY <2>1 DEF OutInv
  <1>4. CASE RequestRefused \/ StreamEnds \/ RemoteError \/ IdleTimeout \/ Interrupt
    <2>1. run # Idle /\ Leave /\ asked' = asked
      BY <1>4 DEF RequestRefused, StreamEnds, RemoteError, IdleTimeout, Interrupt,
                  Taking, Idle
    <2> QED
      BY <1>0, <2>1, LeaveOut
  <1>5. CASE PushStart \/ PushText
    <2>1. /\ run # Idle /\ run.turn \in Turn /\ asked' = asked
          /\ run'.turn = run.turn /\ run'.started /\ run'.phase = "waiting"
      BY <1>0, <1>5, RunInProgress
      DEF PushStart, PushText, Taking, Idle, ServiceTypeOK, Runs
    <2>2. /\ Start(run.turn) \in OutFrame /\ Text(run.turn) \in OutFrame
          /\ Start(run.turn).turn = run.turn /\ Text(run.turn).turn = run.turn
          /\ run.turn \in 1 .. asked
      BY <2>1, OutFrames DEF Start, Text, OutInv
    <2>3. \/ out' = Append(out, Start(run.turn))
          \/ out' = Append(out, Start(run.turn)) \o <<Text(run.turn)>>
          \/ out' = out \o <<Text(run.turn)>>
      BY <1>5 DEF PushStart, PushText
    <2>4. out' # <<>> /\ out'[Len(out')] \in Content(run.turn)
      BY <1>0, <2>2, <2>3 DEF Content
    <2>5. \A i \in 1 .. Len(out') : out'[i].turn \in 1 .. asked
      <3>1. \A i \in 1 .. Len(out) : out[i].turn \in 1 .. asked
        BY <1>0 DEF OutInv
      <3> QED
        BY <1>0, <2>2, <2>3, <3>1, AppendTurn
    <2> QED
      BY <2>1, <2>2, <2>4, <2>5 DEF OutInv, Idle
  <1> QED
    <2>1. CASE RunTask \/ Pipeline
      BY <2>1, <1>1, <1>2, <1>3, <1>4, <1>5
      DEF RunTask, Pipeline, StartDisconnect, service
    <2>2. CASE FinaliseStream \/ SendCancel \/ ReceiveTask \/ Disconnect
                 \/ Connect \/ ConnectFails \/ Drop
      BY <2>2, <1>1
      DEF FinaliseStream, SendCancel, ReceiveTask, Dispatch, ReceiveEnds,
          Reconnect, GiveUp, Disconnect, CancelReceive, CloseSocket, Connect,
          ConnectFails, Drop, service
    <2>3. CASE MessageLoop \/ Handler \/ Quiescent \/ UNCHANGED vars
      BY <2>3, <1>1
      DEF MessageLoop, RunTurn, CancelTurn, Handler, HandlerEmits, HandlerLeaves,
          Quiescent, vars, service
    <2> QED
      BY <2>1, <2>2, <2>3 DEF Next

LEMMA AnswerInductive ==
  ASSUME TypeInv, AnswerInv, [Next]_vars
  PROVE  AnswerInv'
  <1>1. \A t \in Turn : StartsOnce(t)'
    BY AnswersOnce
  <1>2. \A t \in Turn : OwnQueue(t)'
    BY OwnQueueInductive DEF AnswerInv
  <1>3. OutInv'
    BY OutInductive DEF AnswerInv
  <1> QED
    BY <1>1, <1>2, <1>3 DEF AnswerInv

LEMMA InitAnswers == Init => AnswerInv
  <1> SUFFICES ASSUME Init
               PROVE  AnswerInv
    OBVIOUS
  <1>1. OutInv
    BY DEF Init, OutInv, Idle
  <1>2. ASSUME NEW t \in Turn
        PROVE  StartsOnce(t) /\ OwnQueue(t)
    <2>1. /\ queue[t] = <<>> /\ toPy = <<>> /\ toJS = <<>>
          /\ js[t].status = "none" /\ ~run.started
      BY DEF Init, NoTurns, NotInMap, Idle
    <2> QED
      BY <2>1 DEF StartsOnce, OwnQueue, Unasked, AskedOnce, StartOnWire,
           StartInQueue, StartPushed, NotRun, None, Unique, StartLeads
  <1> QED
    BY <1>1, <1>2 DEF AnswerInv

-----------------------------------------------------------------------------
(* The service implements TurnResponses                                     *)

\* The responses that are open, and the turns that have been answered, in the
\* terms of the run.
LEMMA ResponseOfRun ==
  ASSUME ServiceTypeOK, OutInv
  PROVE  /\ run.started => run.turn \in Turn /\ Responses!Open(run.turn)
         /\ ~run.started => Responses!NoneOpen
         /\ run # Idle /\ ~run.started => ~Responses!Answered(run.turn)
  <1>0. out \in Seq(OutFrame)
    BY DEF ServiceTypeOK
  <1>1. ASSUME run.started
        PROVE  run.turn \in Turn /\ Responses!Open(run.turn)
    <2>1. run # Idle
      BY <1>1 DEF Idle
    <2> QED
      BY <1>1, <2>1, RunInProgress
      DEF OutInv, Content, Start, Text, Responses!Open, Responses!Start,
          Responses!Text
  <1>2. ASSUME ~run.started
        PROVE  Responses!NoneOpen
    BY <1>0, <1>2 DEF OutInv, Responses!NoneOpen, Responses!Open,
                      Responses!Start, Responses!Text
  <1>3. ASSUME run # Idle, ~run.started
        PROVE  ~Responses!Answered(run.turn)
    <2>1. \A i \in 1 .. Len(out) : out[i].turn # run.turn
      BY <1>3 DEF OutInv
    <2> QED
      BY <1>0, <2>1 DEF Responses!Answered, Responses!Start
  <1> QED
    BY <1>1, <1>2, <1>3

LEMMA LeaveResponds ==
  ASSUME ServiceTypeOK, OutInv, run # Idle, Leave
  PROVE  Responses!Next
  <1>1. run.turn \in Turn
    BY RunInProgress
  <1>2. CASE run.started
    <2>1. Responses!CloseResponse(run.turn)
      BY <1>2, ResponseOfRun
      DEF Leave, Ending, End, Responses!CloseResponse, Responses!Push,
          Responses!End
    <2> QED
      BY <1>1, <2>1 DEF Responses!Next
  <1>3. CASE ~run.started
    <2>1. Responses!OpenResponse(run.turn)
      BY <1>3, ResponseOfRun
      DEF Leave, Ending, Start, End, Responses!OpenResponse, Responses!Push,
          Responses!Start, Responses!End
    <2> QED
      BY <1>1, <2>1 DEF Responses!Next
  <1> QED
    BY <1>2, <1>3

LEMMA StepResponds ==
  ASSUME TypeInv, AnswerInv, [Next]_vars
  PROVE  [Responses!Next]_out
  <1>0. /\ ServiceTypeOK /\ StreamTypeOK /\ OutInv /\ out \in Seq(OutFrame)
    BY TypeParts DEF TypeInv, AnswerInv, ServiceTypeOK
  <1>1. CASE UNCHANGED out
    BY <1>1
  <1>2. CASE RequestRefused \/ StreamEnds \/ RemoteError \/ IdleTimeout \/ Interrupt
    <2>1. run # Idle /\ Leave
      BY <1>2 DEF RequestRefused, StreamEnds, RemoteError, IdleTimeout, Interrupt,
                  Taking, Idle
    <2> QED
      BY <1>0, <2>1, LeaveResponds
  <1>3. CASE PushStart
    <2>1. PICK t \in Turn : t = run.turn /\ run # Idle
      BY <1>0, <1>3, RunInProgress DEF PushStart, Taking, Idle
    <2>2. /\ StartPushed(t) /\ queue[t] \in Seq(Item) /\ queue[t] # <<>>
          /\ OwnQueue(t) /\ Head(queue[t]).type = "start"
      BY <1>0, <1>3, <2>1 DEF AnswerInv, StartsOnce, PushStart, Taking, StreamTypeOK
    <2>3. Head(queue[t]) \in Item /\ Head(queue[t]).turn = t
      BY <2>2 DEF OwnQueue
    <2>4. Head(queue[t]) = Start(t)
      BY <2>2, <2>3, MessagesDiffer
    <2>5. ~run.started
      BY <2>1, <2>2, <2>4, TailNone DEF StartPushed
    <2>6. out' = out \o <<Responses!Start(t)>>
      BY <1>0, <1>3, <2>1 DEF PushStart, Start, Responses!Start
    <2>7. Responses!OpenResponse(t)
      BY <1>0, <2>1, <2>5, <2>6, ResponseOfRun
      DEF Responses!OpenResponse, Responses!Push
    <2> QED
      BY <2>7 DEF Responses!Next
  <1>4. CASE PushText
    <2>1. PICK t \in Turn : t = run.turn /\ run # Idle
      BY <1>0, <1>4, RunInProgress DEF PushText, Taking, Idle
    <2>2. CASE run.started
      <3>1. Responses!Say(t)
        BY <1>0, <1>4, <2>1, <2>2, ResponseOfRun
        DEF PushText, Text, Responses!Say, Responses!Push, Responses!Text
      <3> QED
        BY <3>1 DEF Responses!Next
    <2>3. CASE ~run.started
      <3>1. out' = Append(out, Start(t)) \o <<Text(t)>>
        BY <1>4, <2>1, <2>3 DEF PushText
      <3>2. Start(t) \in OutFrame /\ Text(t) \in OutFrame
        BY OutFrames
      <3>3. out' = out \o <<Start(t), Text(t)>>
        BY <1>0, <3>1, <3>2
      <3>4. Responses!OpenResponse(t)
        BY <1>0, <2>1, <2>3, <3>3, ResponseOfRun
        DEF Start, Text, Responses!OpenResponse, Responses!Push, Responses!Start,
            Responses!Text
      <3> QED
        BY <3>4 DEF Responses!Next
    <2> QED
      BY <2>2, <2>3
  <1> QED
    <2>1. CASE RunTask \/ Pipeline
      BY <2>1, <1>1, <1>2, <1>3, <1>4
      DEF RunTask, RequestTurn, Pipeline, BeginTurn, StartDisconnect, service
    <2>2. CASE FinaliseStream \/ SendCancel \/ ReceiveTask \/ Disconnect
                 \/ Connect \/ ConnectFails \/ Drop
      BY <2>2, <1>1
      DEF FinaliseStream, SendCancel, ReceiveTask, Dispatch, ReceiveEnds,
          Reconnect, GiveUp, Disconnect, CancelReceive, CloseSocket, Connect,
          ConnectFails, Drop, service
    <2>3. CASE MessageLoop \/ Handler \/ Quiescent \/ UNCHANGED vars
      BY <2>3, <1>1
      DEF MessageLoop, RunTurn, CancelTurn, Handler, HandlerEmits, HandlerLeaves,
          Quiescent, vars, service
    <2> QED
      BY <2>1, <2>2, <2>3 DEF Next

\* Refinement: whatever the bridge, the connection and the interruptions do, the
\* frames WebSocketLLMService pushes are the responses TurnResponses allows,
\* every response opened once and closed before the next.
THEOREM BridgeKeepsThePromise == Spec => KeepsThePromise
  <1>1. Init => Responses!Init
    BY DEF Init, Responses!Init
  <1>2. TypeInv /\ [Next]_vars => TypeInv'
    BY TypeInductive
  <1>3. TypeInv /\ AnswerInv /\ [Next]_vars => AnswerInv'
    BY AnswerInductive
  <1>4. TypeInv /\ AnswerInv /\ [Next]_vars => [Responses!Next]_out
    BY StepResponds
  <1> QED
    BY <1>1, <1>2, <1>3, <1>4, InitType, InitAnswers, PTL
    DEF Spec, KeepsThePromise, Responses!Spec

=============================================================================
