-------------------------- MODULE AgentSessionsProofs --------------------------
(***************************************************************************)
(* That the conversations of the voice agent application stay in order,    *)
(* for any number of pages, requests, calls and restarts of the server.    *)
(***************************************************************************)
EXTENDS AgentSessions, TLAPS

-----------------------------------------------------------------------------
(* The invariant                                                            *)

TaskRecord    == [kind : {"chat", "call"}, session : Nat \ {0},
                  phase : {"lookup", "create", "conflict", "failed", "run", "asked",
                           "answered", "silent", "done"}]
EventRecord   == [kind : {"user", "model"}, task : Nat \ {0}]
SessionRecord == [active : BOOLEAN, stored : BOOLEAN, journal : Seq(EventRecord)]
EntryRecord   == [who : {"user", "agent", "fallback", "error"}, task : Nat \ {0}]
PageRecord    == [session : Nat, waiting : Nat, loaded : BOOLEAN]

Shapes ==
  /\ page \in [Page -> PageRecord] /\ shown \in [Page -> Seq(EntryRecord)]
  /\ task \in Seq(TaskRecord) /\ session \in Seq(SessionRecord)
  /\ restarts \in Nat

IsChat(k)   == task[k].kind = "chat"
Waits(p, k) == page[p].waiting = k

\* Whatever names a session or a task names one there is.
NamesExist ==
  /\ \A p \in Page : page[p].session <= Len(session) /\ page[p].waiting <= Len(task)
  /\ \A p \in Page : \A i \in DOMAIN shown[p] : shown[p][i].task <= Len(task)
  /\ \A k \in DOMAIN task : task[k].session <= Len(session)
  /\ \A s \in DOMAIN session : \A i \in DOMAIN session[s].journal :
       /\ session[s].journal[i].task <= Len(task)
       /\ task[session[s].journal[i].task].session = s

RunsAreStored ==
  \A k \in DOMAIN task :
    InPhase(k, {"run", "asked", "answered", "silent"}) => SessionOf(k).stored

\* A session that requests are sent to is that of one page, which waits for one
\* of them at a time.
OnePage ==
  /\ \A p, q \in Page : page[p].session = page[q].session => p = q \/ page[p].session = 0
  /\ \A p \in Page : page[p].session # 0 => page[p].loaded
  /\ \A p \in Page : page[p].waiting # NoTask =>
       IsChat(page[p].waiting) /\ task[page[p].waiting].session = page[p].session
  /\ \A k \in DOMAIN task : IsChat(k) => \E p \in Page : page[p].session = task[k].session

\* The server is done with request k, or the page is.
Settled(k) == InPhase(k, {"done"}) \/ GivenUp(k)

\* A page waits for every request that is not settled, so that the earlier ones
\* of its session are.
InTurn ==
  /\ \A k \in DOMAIN task : IsChat(k) => Settled(k) \/ \E p \in Page : Waits(p, k)
  /\ \A j, k \in DOMAIN task :
       (IsChat(j) /\ IsChat(k) /\ task[j].session = task[k].session /\ j < k) => Settled(j)

\* The list of messages ends with the one the page waits for.
LastAwaited ==
  \A p \in Page :
    LET n == Len(shown[p])
    IN  IF page[p].waiting = NoTask THEN n % 2 = 0
        ELSE n % 2 = 1 /\ shown[p][n] = Entry("user", page[p].waiting)

\* A task that waits for an answer, or has it, has logged its message.
PhasesAreLogged ==
  \A k \in DOMAIN task :
    /\ InPhase(k, {"asked", "answered"}) => Logged(k, Message(k))
    /\ InPhase(k, {"answered"}) => Logged(k, Answer(k))

\* Another task races with k for the session, for a reason.
Raced(k) ==
  \E j \in DOMAIN task \ {k} :
    /\ task[j].session = task[k].session
    /\ "call" \in {task[j].kind, task[k].kind} \/ GivenUp(j) \/ GivenUp(k)

CreatedByRace ==
  \A k \in DOMAIN task :
    /\ InPhase(k, {"create"}) /\ SessionOf(k).stored => Raced(k)
    /\ InPhase(k, {"conflict"}) => Raced(k)

\* A request logged after a later one has been given up.
LoggedInTurn ==
  \A s \in DOMAIN session :
    LET j == session[s].journal
    IN  \A a, b \in DOMAIN j :
          (a < b /\ IsChat(j[a].task) /\ IsChat(j[b].task) /\ j[b].task < j[a].task)
            => GivenUp(j[b].task)

SessionsInv ==
  /\ Shapes /\ NamesExist /\ RunsAreStored /\ OnePage /\ InTurn
  /\ LastAwaited /\ RepliesPaired /\ PhasesAreLogged /\ ShownIsLogged
  /\ CreatedByRace /\ LoggedInTurn
-----------------------------------------------------------------------------
(* What the steps change                                                    *)

Phases == {"lookup", "create", "conflict", "failed", "run", "asked", "answered",
           "silent", "done"}

\* The fields of what there is.
LEMMA TaskFields ==
  ASSUME NEW ts \in Seq(TaskRecord)
  PROVE  \A k \in DOMAIN ts :
           /\ k \in Nat \ {0} /\ ts[k] \in TaskRecord
           /\ ts[k].kind \in {"chat", "call"} /\ ts[k].session \in Nat \ {0}
           /\ ts[k].phase \in Phases
  <1>1. \A k \in DOMAIN ts : k \in Nat \ {0} /\ ts[k] \in TaskRecord
    OBVIOUS
  <1> QED
    BY <1>1 DEF TaskRecord, Phases

LEMMA JournalFields ==
  ASSUME NEW ss \in Seq(SessionRecord), NEW s \in DOMAIN ss
  PROVE  /\ ss[s].journal \in Seq(EventRecord)
         /\ \A i \in DOMAIN ss[s].journal : ss[s].journal[i].task \in Nat \ {0}
  <1>1. ss[s] \in SessionRecord
    OBVIOUS
  <1>2. ss[s].journal \in Seq(EventRecord)
    BY <1>1 DEF SessionRecord
  <1>3. \A i \in DOMAIN ss[s].journal : ss[s].journal[i] \in EventRecord
    BY <1>2
  <1> QED
    BY <1>2, <1>3 DEF EventRecord

LEMMA EntryFields ==
  ASSUME NEW es \in Seq(EntryRecord)
  PROVE  \A i \in DOMAIN es : es[i].task \in Nat \ {0}
  <1>1. \A i \in DOMAIN es : es[i] \in EntryRecord
    OBVIOUS
  <1> QED
    BY <1>1 DEF EntryRecord

\* What names a task or a session is in the domain of it.
LEMMA NamesInDomain ==
  ASSUME Shapes, NamesExist
  PROVE  /\ \A k \in DOMAIN task : task[k].session \in DOMAIN session
         /\ \A p \in Page : \A i \in DOMAIN shown[p] : shown[p][i].task \in DOMAIN task
         /\ \A p \in Page : page[p].waiting # NoTask => page[p].waiting \in DOMAIN task
         /\ \A p \in Page : page[p].session # 0 => page[p].session \in DOMAIN session
         /\ \A s \in DOMAIN session : \A i \in DOMAIN session[s].journal :
              session[s].journal[i].task \in DOMAIN task
  <1>0. /\ task \in Seq(TaskRecord) /\ session \in Seq(SessionRecord)
        /\ \A p \in Page : page[p] \in PageRecord /\ shown[p] \in Seq(EntryRecord)
    BY DEF Shapes
  <1>1. \A k \in DOMAIN task : task[k].session \in DOMAIN session
    BY <1>0, TaskFields DEF NamesExist
  <1>2. \A p \in Page : \A i \in DOMAIN shown[p] : shown[p][i].task \in DOMAIN task
    BY <1>0, EntryFields DEF NamesExist
  <1>3. \A p \in Page : /\ page[p].waiting # NoTask => page[p].waiting \in DOMAIN task
                        /\ page[p].session # 0 => page[p].session \in DOMAIN session
    BY <1>0 DEF NamesExist, PageRecord, NoTask
  <1>4. \A s \in DOMAIN session : \A i \in DOMAIN session[s].journal :
          session[s].journal[i].task \in DOMAIN task
    BY <1>0, JournalFields DEF NamesExist
  <1> QED
    BY <1>1, <1>2, <1>3, <1>4

\* What no step takes back: tasks, sessions, messages and replies are added, a
\* task that is done stays so, and a session stays in the database.
Grows ==
  /\ \A k \in DOMAIN task :
       /\ k \in DOMAIN task'
       /\ task'[k].kind = task[k].kind /\ task'[k].session = task[k].session
       /\ task[k].phase = "done" => task'[k].phase = "done"
  /\ \A s \in DOMAIN session :
       /\ s \in DOMAIN session'
       /\ session[s].stored => session'[s].stored
       /\ \A i \in DOMAIN session[s].journal :
            /\ i \in DOMAIN session'[s].journal
            /\ session'[s].journal[i] = session[s].journal[i]
  /\ \A p \in Page : \A i \in DOMAIN shown[p] :
       i \in DOMAIN shown'[p] /\ shown'[p][i] = shown[p][i]

\* Task k goes on to phase ph.
LEMMA PhaseEffect ==
  ASSUME Shapes, NEW k \in DOMAIN task, NEW ph \in Phases, Becomes(k, ph)
  PROVE  /\ task' \in Seq(TaskRecord) /\ Len(task') = Len(task)
         /\ \A j \in DOMAIN task :
              /\ task'[j].kind = task[j].kind /\ task'[j].session = task[j].session
              /\ j # k => task'[j].phase = task[j].phase
         /\ task'[k].phase = ph
  <1>1. task \in Seq(TaskRecord) /\ task' = [task EXCEPT ![k] = [task[k] EXCEPT !.phase = ph]]
    BY DEF Shapes, Becomes
  <1> DEFINE r == [task[k] EXCEPT !.phase = ph]
  <1>2. /\ r \in TaskRecord /\ r.kind = task[k].kind /\ r.session = task[k].session
        /\ r.phase = ph
    <2>1. task[k] \in TaskRecord
      BY <1>1
    <2> QED
      BY <2>1 DEF TaskRecord, Phases
  <1> HIDE DEF r
  <1>3. /\ task' \in Seq(TaskRecord) /\ Len(task') = Len(task) /\ task'[k] = r
        /\ \A j \in DOMAIN task : j # k => task'[j] = task[j]
    BY <1>1, <1>2 DEF r
  <1> QED
    BY <1>2, <1>3

\* Event e is logged in the session of task k.
LEMMA LogEffect ==
  ASSUME Shapes, NamesExist, NEW k \in DOMAIN task, NEW e \in EventRecord, Log(k, e)
  PROVE  LET t == task[k].session
         IN  /\ session' \in Seq(SessionRecord) /\ Len(session') = Len(session)
             /\ t \in DOMAIN session
             /\ \A s \in DOMAIN session : /\ session'[s].stored = session[s].stored
                                          /\ s # t => session'[s] = session[s]
             /\ session'[t].journal = Append(session[t].journal, e)
             /\ session[t].journal \in Seq(EventRecord)
  <1> DEFINE t == task[k].session
             r == [session[t] EXCEPT !.journal = Append(session[t].journal, e)]
  <1>1. /\ session \in Seq(SessionRecord) /\ task[k] \in TaskRecord
        /\ session' = [session EXCEPT ![t] = r]
    BY DEF Shapes, Log
  <1>2. t \in DOMAIN session /\ session[t] \in SessionRecord
    BY <1>1 DEF NamesExist, TaskRecord
  <1>3. /\ r \in SessionRecord /\ r.stored = session[t].stored
        /\ r.journal = Append(session[t].journal, e)
        /\ session[t].journal \in Seq(EventRecord)
    BY SMTT(20), <1>2 DEF SessionRecord
  <1> HIDE DEF r, t
  <1>4. /\ session' \in Seq(SessionRecord) /\ Len(session') = Len(session)
        /\ session'[t] = r /\ \A s \in DOMAIN session : s # t => session'[s] = session[s]
    BY <1>1, <1>2, <1>3
  <1> QED
    BY <1>2, <1>3, <1>4 DEF t

\* The pages ps stop waiting and show w in the place of the reply.
Replied(ps, w) ==
  /\ \A p \in Page : /\ page'[p].session = page[p].session
                     /\ page'[p].loaded = page[p].loaded
                     /\ \A i \in DOMAIN shown[p] :
                          i \in DOMAIN shown'[p] /\ shown'[p][i] = shown[p][i]
  /\ \A p \in ps : /\ page'[p].waiting = NoTask
                   /\ Len(shown'[p]) = Len(shown[p]) + 1
                   /\ shown'[p][Len(shown[p]) + 1] = Entry(w, page[p].waiting)
  /\ \A p \in Page \ ps : page'[p].waiting = page[p].waiting /\ shown'[p] = shown[p]
  /\ page' \in [Page -> PageRecord] /\ shown' \in [Page -> Seq(EntryRecord)]

LEMMA ReplyEffect ==
  ASSUME Shapes, NEW ps \in SUBSET {p \in Page : page[p].waiting # NoTask},
         NEW w \in {"agent", "fallback", "error"},
         page' = [p \in Page |-> IF p \in ps THEN [page[p] EXCEPT !.waiting = NoTask]
                                 ELSE page[p]],
         shown' \in [Page -> Seq(EntryRecord)],
         \A p \in ps : shown'[p] = Append(shown[p], Entry(w, page[p].waiting)),
         \A p \in Page \ ps : shown'[p] = shown[p]
  PROVE  Replied(ps, w)
  <1>1. page \in [Page -> PageRecord] /\ shown \in [Page -> Seq(EntryRecord)]
    BY DEF Shapes
  <1>2. page' \in [Page -> PageRecord]
    BY <1>1 DEF PageRecord, NoTask
  <1>3. \A p \in Page : /\ page'[p].session = page[p].session
                        /\ page'[p].loaded = page[p].loaded
                        /\ p \in ps => page'[p].waiting = NoTask
                        /\ p \notin ps => page'[p].waiting = page[p].waiting
    BY <1>1 DEF PageRecord
  <1>4. ASSUME NEW p \in ps
        PROVE  /\ Len(shown'[p]) = Len(shown[p]) + 1
               /\ shown'[p][Len(shown[p]) + 1] = Entry(w, page[p].waiting)
               /\ \A i \in DOMAIN shown[p] :
                    i \in DOMAIN shown'[p] /\ shown'[p][i] = shown[p][i]
    <2> DEFINE e == Entry(w, page[p].waiting)
    <2>1. e \in EntryRecord
      BY <1>1 DEF Entry, EntryRecord, PageRecord, NoTask
    <2>2. shown[p] \in Seq(EntryRecord) /\ shown'[p] = Append(shown[p], e)
      BY <1>1
    <2> HIDE DEF e
    <2>3. /\ Len(shown'[p]) = Len(shown[p]) + 1 /\ shown'[p][Len(shown[p]) + 1] = e
          /\ \A i \in DOMAIN shown[p] :
               i \in DOMAIN shown'[p] /\ shown'[p][i] = shown[p][i]
      BY <2>1, <2>2
    <2> QED
      BY <2>3 DEF e
  <1> QED
    BY <1>2, <1>3, <1>4 DEF Replied

\* A list of entries with one more.
LEMMA OneMoreEntry ==
  ASSUME Shapes, NEW p \in Page, page[p].waiting # NoTask,
         NEW w \in {"agent", "fallback", "error"}
  PROVE  /\ Entry(w, page[p].waiting) \in EntryRecord
         /\ Append(shown[p], Entry(w, page[p].waiting)) \in Seq(EntryRecord)
         /\ shown[p] \o <<Entry(w, page[p].waiting)>>
              = Append(shown[p], Entry(w, page[p].waiting))
  <1> DEFINE e == Entry(w, page[p].waiting)
  <1>1. e \in EntryRecord /\ shown[p] \in Seq(EntryRecord)
    BY DEF Shapes, Entry, EntryRecord, PageRecord, NoTask
  <1> HIDE DEF e
  <1>2. shown[p] \o <<e>> = Append(shown[p], e)
    BY <1>1
  <1> QED
    BY <1>1, <1>2 DEF e

LEMMA GiveUpEffect ==
  ASSUME Shapes, NEW ps \in SUBSET {p \in Page : page[p].waiting # NoTask}, GiveUp(ps)
  PROVE  Replied(ps, "error")
  <1>1. shown \in [Page -> Seq(EntryRecord)]
    BY DEF Shapes
  <1>2. \A p \in ps : shown'[p] = Append(shown[p], Entry("error", page[p].waiting))
    BY OneMoreEntry DEF GiveUp, Apology
  <1>3. \A p \in Page \ ps : shown'[p] = shown[p]
    BY DEF GiveUp
  <1>4. shown' \in [Page -> Seq(EntryRecord)]
    <2>1. \A p \in Page : shown'[p] \in Seq(EntryRecord)
      BY <1>1, <1>2, <1>3, OneMoreEntry
    <2> QED
      BY <2>1 DEF GiveUp
  <1> QED
    BY <1>2, <1>3, <1>4, ReplyEffect DEF GiveUp

LEMMA RespondEffect ==
  ASSUME Shapes, NEW k \in DOMAIN task, Respond(k)
  PROVE  /\ Replied({p \in Page : page[p].waiting = k}, ShownFor[task[k].phase])
         /\ ShownFor[task[k].phase] \in {"agent", "fallback", "error"}
         /\ ShownFor[task[k].phase] = "agent" => task[k].phase = "answered"
         /\ IsChat(k) /\ Becomes(k, "done") /\ UNCHANGED <<session, restarts>>
  <1> DEFINE ps == {p \in Page : page[p].waiting = k}
             w  == ShownFor[task[k].phase]
  <1>1. w \in {"agent", "fallback", "error"} /\ (w = "agent" => task[k].phase = "answered")
    BY DEF Respond, InPhase, ShownFor
  <1>2. IsChat(k) /\ Becomes(k, "done") /\ UNCHANGED <<session, restarts>>
    BY DEF Respond, IsChat
  <1>3. shown \in [Page -> Seq(EntryRecord)] /\ k # NoTask
    BY DEF Shapes, NoTask
  <1> HIDE DEF w
  <1>4. ps \in SUBSET {p \in Page : page[p].waiting # NoTask}
    BY <1>3
  <1>5. shown' = [p \in Page |-> IF p \in ps THEN Append(shown[p], Entry(w, k)) ELSE shown[p]]
    BY DEF Respond, w
  <1>6. \A p \in ps : shown'[p] = Append(shown[p], Entry(w, page[p].waiting))
    BY <1>5
  <1>7. shown' \in [Page -> Seq(EntryRecord)]
    <2>1. \A p \in Page : shown'[p] \in Seq(EntryRecord)
      BY <1>1, <1>3, <1>4, <1>5, <1>6, OneMoreEntry
    <2> QED
      BY <1>5, <2>1
  <1>8. page' = [p \in Page |-> IF p \in ps THEN [page[p] EXCEPT !.waiting = NoTask]
                                ELSE page[p]]
    BY DEF Respond
  <1>9. Replied(ps, w)
    BY <1>1, <1>4, <1>5, <1>6, <1>7, <1>8, ReplyEffect
  <1> QED
    BY <1>1, <1>2, <1>9 DEF w

\* Page p sends a message.
LEMMA SendEffect ==
  ASSUME Shapes, NamesExist, NEW p \in Page, SendMessage(p)
  PROVE  LET k == Len(task) + 1
         IN  /\ page' \in [Page -> PageRecord] /\ shown' \in [Page -> Seq(EntryRecord)]
             /\ task' \in Seq(TaskRecord) /\ Len(task') = k
             /\ \A j \in DOMAIN task : task'[j] = task[j]
             /\ task'[k] = Chat(page[p].session)
             /\ \A q \in Page : page'[q].session = page[q].session
                                  /\ page'[q].loaded = page[q].loaded
             /\ page'[p].waiting = k
             /\ Len(shown'[p]) = Len(shown[p]) + 1
             /\ shown'[p][Len(shown[p]) + 1] = Entry("user", k)
             /\ \A i \in DOMAIN shown[p] : i \in DOMAIN shown'[p] /\ shown'[p][i] = shown[p][i]
             /\ \A q \in Page \ {p} : page'[q].waiting = page[q].waiting
                                        /\ shown'[q] = shown[q]
  <1> DEFINE k == Len(task) + 1
             t == Chat(page[p].session)
             e == Entry("user", k)
  <1>1. /\ page \in [Page -> PageRecord] /\ shown \in [Page -> Seq(EntryRecord)]
        /\ task \in Seq(TaskRecord) /\ k \in Nat \ {0}
    BY DEF Shapes
  <1>2. t \in TaskRecord /\ e \in EntryRecord
    BY <1>1 DEF SendMessage, CanSend, NoSession, Chat, TaskRecord, PageRecord, Entry,
                EntryRecord
  <1>3. /\ task' = Append(task, t) /\ page' = [page EXCEPT ![p].waiting = k]
        /\ shown' = [shown EXCEPT ![p] = Append(shown[p], e)]
    BY DEF SendMessage
  <1> HIDE DEF t, e
  <1>4. /\ task' \in Seq(TaskRecord) /\ Len(task') = k /\ task'[k] = t
        /\ \A j \in DOMAIN task : task'[j] = task[j]
    BY <1>1, <1>2, <1>3
  <1>5. /\ shown' \in [Page -> Seq(EntryRecord)] /\ shown'[p] = Append(shown[p], e)
        /\ \A q \in Page \ {p} : shown'[q] = shown[q]
    BY <1>1, <1>2, <1>3
  <1>6. /\ Len(shown'[p]) = Len(shown[p]) + 1 /\ shown'[p][Len(shown[p]) + 1] = e
        /\ \A i \in DOMAIN shown[p] : i \in DOMAIN shown'[p] /\ shown'[p][i] = shown[p][i]
    BY <1>1, <1>2, <1>5
  <1>7. /\ page' \in [Page -> PageRecord] /\ page'[p].waiting = k
        /\ \A q \in Page : page'[q].session = page[q].session
                             /\ page'[q].loaded = page[q].loaded
        /\ \A q \in Page \ {p} : page'[q].waiting = page[q].waiting
    BY <1>1, <1>3 DEF PageRecord
  <1> QED
    BY <1>4, <1>5, <1>6, <1>7 DEF t, e

\* A session id is minted.
LEMMA MintEffect ==
  ASSUME Shapes, NEW active \in BOOLEAN, session' = Append(session, NewSession(active))
  PROVE  /\ session' \in Seq(SessionRecord) /\ Len(session') = Len(session) + 1
         /\ \A s \in DOMAIN session : session'[s] = session[s]
         /\ session'[Len(session) + 1].journal = <<>>
         /\ session'[Len(session) + 1].stored = FALSE
  <1> DEFINE r == NewSession(active)
  <1>1. r \in SessionRecord /\ r.journal = <<>> /\ r.stored = FALSE
    BY DEF NewSession, SessionRecord
  <1>2. session \in Seq(SessionRecord) /\ session' = Append(session, r)
    BY DEF Shapes
  <1> HIDE DEF r
  <1>3. /\ session' \in Seq(SessionRecord) /\ Len(session') = Len(session) + 1
        /\ session'[Len(session) + 1] = r
        /\ \A s \in DOMAIN session : session'[s] = session[s]
    BY <1>1, <1>2
  <1> QED
    BY <1>1, <1>3

\* A call begins.
LEMMA CallEffect ==
  ASSUME Shapes, NEW s \in Nat \ {0}, task' = Append(task, Call(s))
  PROVE  /\ task' \in Seq(TaskRecord) /\ Len(task') = Len(task) + 1
         /\ \A j \in DOMAIN task : task'[j] = task[j]
         /\ task'[Len(task) + 1] = Call(s)
  <1> DEFINE t == Call(s)
  <1>1. t \in TaskRecord /\ task \in Seq(TaskRecord)
    BY DEF Call, TaskRecord, Shapes
  <1> HIDE DEF t
  <1>2. task' = Append(task, t)
    BY DEF t
  <1>3. /\ task' \in Seq(TaskRecord) /\ Len(task') = Len(task) + 1
        /\ \A j \in DOMAIN task : task'[j] = task[j]
        /\ task'[Len(task) + 1] = t
    BY <1>1, <1>2
  <1> QED
    BY <1>3 DEF t
-----------------------------------------------------------------------------
(* Shapes, and what no step takes back                                      *)

TaskStep(k) == GetSession(k) \/ CreateStored(k) \/ Fail(k) \/ LogMessage(k)
                 \/ LogAnswer(k) \/ NoAnswer(k) \/ HangUp(k)

\* What a task does changes its phase, and adds to the session it belongs to.
LEMMA TaskStepEffect ==
  ASSUME Shapes, NamesExist, NEW k \in DOMAIN task, TaskStep(k)
  PROVE  /\ \E ph \in Phases : Becomes(k, ph)
         /\ UNCHANGED <<page, shown, restarts>>
         /\ session' \in Seq(SessionRecord) /\ Len(session') = Len(session)
         /\ \A s \in DOMAIN session :
              /\ session[s].stored => session'[s].stored
              /\ s # task[k].session => session'[s] = session[s]
         /\ \/ \A s \in DOMAIN session : session'[s].journal = session[s].journal
            \/ /\ \E e \in EventRecord : e.task = k /\ Log(k, e)
               /\ InPhase(k, {"run", "asked"})
               /\ \A s \in DOMAIN session : session'[s].stored = session[s].stored
         /\ \/ \A s \in DOMAIN session : session'[s].stored = session[s].stored
            \/ InPhase(k, {"create"}) /\ CreateStored(k)
         /\ ~InPhase(k, {"done"})
  <1>0. session \in Seq(SessionRecord) /\ k \in Nat \ {0} /\ task[k] \in TaskRecord
    BY DEF Shapes
  <1>1. CASE GetSession(k) \/ Fail(k) \/ NoAnswer(k) \/ HangUp(k)
    <2>1. \E ph \in Phases : Becomes(k, ph)
      BY <1>1 DEF GetSession, Fail, NoAnswer, HangUp, Phases
    <2>2. UNCHANGED <<page, shown, restarts, session>> /\ ~InPhase(k, {"done"})
      BY <1>1 DEF GetSession, Fail, NoAnswer, HangUp, InPhase
    <2> QED
      BY <1>0, <2>1, <2>2
  <1>2. CASE CreateStored(k)
    <2> DEFINE t == task[k].session
               r == [session[t] EXCEPT !.stored = TRUE]
    <2>1. t \in DOMAIN session /\ session[t] \in SessionRecord
      BY <1>0 DEF NamesExist, TaskRecord
    <2>2. r \in SessionRecord /\ r.stored /\ r.journal = session[t].journal
      BY <2>1 DEF SessionRecord
    <2>3. session' = session \/ session' = [session EXCEPT ![t] = r]
      BY <1>2 DEF CreateStored
    <2> HIDE DEF r, t
    <2>4. /\ session' \in Seq(SessionRecord) /\ Len(session') = Len(session)
          /\ session'[t] \in {session[t], r}
          /\ \A s \in DOMAIN session : s # t => session'[s] = session[s]
      BY <1>0, <2>1, <2>2, <2>3
    <2>5. \A s \in DOMAIN session : /\ session'[s].journal = session[s].journal
                                    /\ session[s].stored => session'[s].stored
      BY <2>2, <2>4
    <2>6. \E ph \in Phases : Becomes(k, ph)
      BY <1>2 DEF CreateStored, Phases
    <2>7. UNCHANGED <<page, shown, restarts>> /\ InPhase(k, {"create"})
      BY <1>2 DEF CreateStored
    <2> QED
      BY <1>2, <2>4, <2>5, <2>6, <2>7 DEF InPhase, t
  <1>3. CASE LogMessage(k) \/ LogAnswer(k)
    <2>1. PICK e \in EventRecord : e.task = k /\ Log(k, e)
      BY <1>0, <1>3 DEF LogMessage, LogAnswer, Message, Answer, EventRecord
    <2>2. \E ph \in Phases : Becomes(k, ph)
      BY <1>3 DEF LogMessage, LogAnswer, Phases
    <2>3. UNCHANGED <<page, shown, restarts>> /\ InPhase(k, {"run", "asked"})
      BY <1>3 DEF LogMessage, LogAnswer, InPhase
    <2>4. /\ session' \in Seq(SessionRecord) /\ Len(session') = Len(session)
          /\ \A s \in DOMAIN session : /\ session'[s].stored = session[s].stored
                                       /\ s # task[k].session => session'[s] = session[s]
      BY <2>1, LogEffect
    <2> QED
      BY <2>1, <2>2, <2>3, <2>4 DEF InPhase
  <1> QED
    BY <1>1, <1>2, <1>3 DEF TaskStep

LEMMA TaskStepGrows ==
  ASSUME Shapes, NamesExist, NEW k \in DOMAIN task, TaskStep(k)
  PROVE  Shapes' /\ Grows
  <1>1. PICK ph \in Phases : Becomes(k, ph)
    BY TaskStepEffect
  <1>2. /\ task' \in Seq(TaskRecord) /\ DOMAIN task' = DOMAIN task
        /\ \A j \in DOMAIN task :
             /\ task'[j].kind = task[j].kind /\ task'[j].session = task[j].session
             /\ task[j].phase = "done" => task'[j].phase = "done"
    <2>1. task[k].phase # "done"
      BY TaskStepEffect DEF InPhase
    <2>2. task \in Seq(TaskRecord)
      BY DEF Shapes
    <2> QED
      BY <1>1, <2>1, <2>2, PhaseEffect
  <1>3. \A s \in DOMAIN session : \A i \in DOMAIN session[s].journal :
          i \in DOMAIN session'[s].journal
            /\ session'[s].journal[i] = session[s].journal[i]
    <2>1. CASE \A s \in DOMAIN session : session'[s].journal = session[s].journal
      BY <2>1
    <2>2. CASE \E e \in EventRecord : e.task = k /\ Log(k, e)
      <3>1. PICK e \in EventRecord : Log(k, e)
        BY <2>2
      <3> DEFINE t == task[k].session
                 j == session[t].journal
      <3>2. /\ \A s \in DOMAIN session : s # t => session'[s] = session[s]
            /\ session'[t].journal = Append(j, e) /\ j \in Seq(EventRecord)
        BY <3>1, LogEffect
      <3> HIDE DEF j
      <3>3. \A i \in DOMAIN j : /\ i \in DOMAIN session'[t].journal
                                /\ session'[t].journal[i] = j[i]
        BY <3>2
      <3> HIDE DEF t
      <3> QED
        BY <3>2, <3>3 DEF j
    <2> QED
      BY <2>1, <2>2, TaskStepEffect
  <1>4. /\ session' \in Seq(SessionRecord) /\ DOMAIN session' = DOMAIN session
        /\ \A s \in DOMAIN session : session[s].stored => session'[s].stored
        /\ UNCHANGED <<page, shown, restarts>>
    BY TaskStepEffect DEF Shapes
  <1>5. Shapes'
    BY <1>2, <1>4 DEF Shapes
  <1>6. Grows
    BY <1>2, <1>3, <1>4 DEF Grows
  <1> QED
    BY <1>5, <1>6

\* A restart.
LEMMA RestartEffect ==
  ASSUME Shapes, Restart
  PROVE  /\ Replied({p \in Page : page[p].waiting # NoTask}, "error")
         /\ task' \in Seq(TaskRecord) /\ Len(task') = Len(task)
         /\ \A j \in DOMAIN task :
              /\ task'[j].kind = task[j].kind /\ task'[j].session = task[j].session
              /\ task'[j].phase = "done"
         /\ session' \in Seq(SessionRecord) /\ Len(session') = Len(session)
         /\ \A s \in DOMAIN session : /\ session'[s].stored = session[s].stored
                                      /\ session'[s].journal = session[s].journal
         /\ restarts' = restarts + 1
  <1>1. Replied({p \in Page : page[p].waiting # NoTask}, "error")
    BY GiveUpEffect DEF Restart
  <1>2. /\ task \in Seq(TaskRecord) /\ session \in Seq(SessionRecord)
        /\ task' = [k \in DOMAIN task |-> [task[k] EXCEPT !.phase = "done"]]
        /\ session' = [s \in DOMAIN session |-> [session[s] EXCEPT !.active = FALSE]]
    BY DEF Shapes, Restart, Restarted
  <1>3. \A j \in DOMAIN task :
          /\ task'[j] \in TaskRecord
          /\ task'[j].kind = task[j].kind /\ task'[j].session = task[j].session
          /\ task'[j].phase = "done"
    <2> SUFFICES ASSUME NEW j \in DOMAIN task
                 PROVE  /\ task'[j] \in TaskRecord
                        /\ task'[j].kind = task[j].kind /\ task'[j].session = task[j].session
                        /\ task'[j].phase = "done"
      OBVIOUS
    <2>1. task[j] \in TaskRecord /\ task'[j] = [task[j] EXCEPT !.phase = "done"]
      BY <1>2
    <2> QED
      BY <2>1 DEF TaskRecord
  <1>4. \A s \in DOMAIN session :
          /\ session'[s] \in SessionRecord
          /\ session'[s].stored = session[s].stored
          /\ session'[s].journal = session[s].journal
    <2> SUFFICES ASSUME NEW s \in DOMAIN session
                 PROVE  /\ session'[s] \in SessionRecord
                        /\ session'[s].stored = session[s].stored
                        /\ session'[s].journal = session[s].journal
      OBVIOUS
    <2>1. session[s] \in SessionRecord /\ session'[s] = [session[s] EXCEPT !.active = FALSE]
      BY <1>2
    <2> QED
      BY <2>1 DEF SessionRecord
  <1>5. /\ task' \in Seq(TaskRecord) /\ Len(task') = Len(task)
        /\ session' \in Seq(SessionRecord) /\ Len(session') = Len(session)
    <2>1. /\ Len(task) \in Nat /\ DOMAIN task = 1 .. Len(task)
          /\ Len(session) \in Nat /\ DOMAIN session = 1 .. Len(session)
      BY <1>2
    <2>2. /\ task' \in [1 .. Len(task) -> TaskRecord]
          /\ session' \in [1 .. Len(session) -> SessionRecord]
      BY <1>2, <1>3, <1>4, <2>1
    <2> QED
      BY <2>1, <2>2
  <1> QED
    BY <1>1, <1>3, <1>4, <1>5 DEF Restart

LEMMA NextGrows ==
  ASSUME Shapes, NamesExist, [Next]_vars
  PROVE  Shapes' /\ Grows
  <1>0. /\ page \in [Page -> PageRecord] /\ shown \in [Page -> Seq(EntryRecord)]
        /\ task \in Seq(TaskRecord) /\ session \in Seq(SessionRecord) /\ restarts \in Nat
    BY DEF Shapes
  <1>1. ASSUME NEW k \in DOMAIN task, TaskStep(k)
        PROVE  Shapes' /\ Grows
    BY <1>1, TaskStepGrows
  <1>2. ASSUME NEW k \in DOMAIN task, Respond(k)
        PROVE  Shapes' /\ Grows
    <2>1. /\ page' \in [Page -> PageRecord] /\ shown' \in [Page -> Seq(EntryRecord)]
          /\ \A p \in Page : \A i \in DOMAIN shown[p] :
               i \in DOMAIN shown'[p] /\ shown'[p][i] = shown[p][i]
          /\ UNCHANGED <<session, restarts>> /\ Becomes(k, "done")
      BY <1>2, RespondEffect DEF Replied
    <2>2. /\ task' \in Seq(TaskRecord) /\ Len(task') = Len(task)
          /\ \A j \in DOMAIN task :
               /\ task'[j].kind = task[j].kind /\ task'[j].session = task[j].session
               /\ task[j].phase = "done" => task'[j].phase = "done"
      BY <2>1, PhaseEffect DEF Phases
    <2> QED
      BY <1>0, <2>1, <2>2 DEF Shapes, Grows
  <1>3. ASSUME NEW p \in Page, SendMessage(p)
        PROVE  Shapes' /\ Grows
    <2>1. /\ page' \in [Page -> PageRecord] /\ shown' \in [Page -> Seq(EntryRecord)]
          /\ task' \in Seq(TaskRecord) /\ Len(task') = Len(task) + 1
          /\ \A j \in DOMAIN task : task'[j] = task[j]
          /\ \A i \in DOMAIN shown[p] : i \in DOMAIN shown'[p] /\ shown'[p][i] = shown[p][i]
          /\ \A q \in Page \ {p} : shown'[q] = shown[q]
      BY <1>3, SendEffect
    <2>2. UNCHANGED <<session, restarts>>
      BY <1>3 DEF SendMessage
    <2>3. \A q \in Page : \A i \in DOMAIN shown[q] :
            i \in DOMAIN shown'[q] /\ shown'[q][i] = shown[q][i]
      BY <2>1
    <2>4. \A j \in DOMAIN task : j \in DOMAIN task'
      BY <1>0, <2>1
    <2> QED
      BY <1>0, <2>1, <2>2, <2>3, <2>4 DEF Shapes, Grows
  <1>4. ASSUME NEW p \in Page, CreateSession(p)
        PROVE  Shapes' /\ Grows
    <2>1. /\ session' \in Seq(SessionRecord) /\ Len(session') = Len(session) + 1
          /\ \A s \in DOMAIN session : session'[s] = session[s]
      BY <1>4, MintEffect DEF CreateSession
    <2> DEFINE r == [page[p] EXCEPT !.loaded = TRUE, !.session = Len(session) + 1]
    <2>2. page' \in [Page -> PageRecord] /\ UNCHANGED <<shown, task, restarts>>
      <3>1. page[p] \in PageRecord /\ Len(session) + 1 \in Nat
        BY <1>0
      <3>2. r \in PageRecord
        BY <3>1 DEF PageRecord
      <3>3. page' = [page EXCEPT ![p] = r]
        BY <1>0, <1>4, <3>1 DEF CreateSession, PageRecord
      <3> QED
        BY <1>0, <1>4, <3>2, <3>3 DEF CreateSession
    <2> QED
      BY <1>0, <2>1, <2>2 DEF Shapes, Grows
  <1>5. ASSUME NEW p \in Page, CreateSessionFails(p)
        PROVE  Shapes' /\ Grows
    <2>1. page' \in [Page -> PageRecord] /\ UNCHANGED <<shown, task, session, restarts>>
      BY <1>0, <1>5 DEF CreateSessionFails, PageRecord
    <2> QED
      BY <1>0, <2>1 DEF Shapes, Grows
  <1>6. ASSUME NEW p \in Page, FetchRejected(p)
        PROVE  Shapes' /\ Grows
    <2>1. Replied({p}, "error")
      BY <1>6, GiveUpEffect DEF FetchRejected
    <2>2. UNCHANGED <<task, session, restarts>>
      BY <1>6 DEF FetchRejected
    <2> QED
      BY <1>0, <2>1, <2>2 DEF Shapes, Grows, Replied
  <1>7. CASE Restart
    <2>1. /\ task' \in Seq(TaskRecord) /\ Len(task') = Len(task)
          /\ \A j \in DOMAIN task :
               /\ task'[j].kind = task[j].kind /\ task'[j].session = task[j].session
               /\ task'[j].phase = "done"
          /\ session' \in Seq(SessionRecord) /\ Len(session') = Len(session)
          /\ \A s \in DOMAIN session : /\ session'[s].stored = session[s].stored
                                       /\ session'[s].journal = session[s].journal
          /\ restarts' = restarts + 1
          /\ Replied({p \in Page : page[p].waiting # NoTask}, "error")
      BY <1>7, RestartEffect
    <2> QED
      BY <1>0, <2>1 DEF Shapes, Grows, Replied
  <1>8. CASE Offer
    <2>1. /\ session' \in Seq(SessionRecord) /\ Len(session') = Len(session) + 1
          /\ \A s \in DOMAIN session : session'[s] = session[s]
      BY <1>8, MintEffect DEF Offer
    <2>2. /\ task' \in Seq(TaskRecord) /\ Len(task') = Len(task) + 1
          /\ \A j \in DOMAIN task : task'[j] = task[j]
      BY <1>0, <1>8, CallEffect DEF Offer
    <2>3. UNCHANGED <<page, shown, restarts>>
      BY <1>8 DEF Offer
    <2> QED
      BY <1>0, <2>1, <2>2, <2>3 DEF Shapes, Grows
  <1>9. ASSUME NEW s \in DOMAIN session, OfferTo(s)
        PROVE  Shapes' /\ Grows
    <2>1. /\ task' \in Seq(TaskRecord) /\ Len(task') = Len(task) + 1
          /\ \A j \in DOMAIN task : task'[j] = task[j]
      BY <1>0, <1>9, CallEffect DEF OfferTo
    <2>2. UNCHANGED <<page, shown, session, restarts>>
      BY <1>9 DEF OfferTo
    <2> QED
      BY <1>0, <2>1, <2>2 DEF Shapes, Grows
  <1>10. CASE UNCHANGED vars
    BY <1>10 DEF vars, Shapes, Grows
  <1> QED
    BY <1>1, <1>2, <1>3, <1>4, <1>5, <1>6, <1>7, <1>8, <1>9, <1>10
    DEF Next, Browser, Caller, Work, TaskStep, Quiescent

\* What was given up, settled, logged or raced for stays so.
LEMMA FactsStay ==
  ASSUME Shapes, Shapes', NamesExist, Grows, NEW k \in DOMAIN task
  PROVE  /\ GivenUp(k) => GivenUp(k)'
         /\ Settled(k) => Settled(k)'
         /\ \A e : Logged(k, e) => Logged(k, e)'
         /\ Raced(k) => Raced(k)'
         /\ k \in DOMAIN task' /\ (IsChat(k)' <=> IsChat(k))
  <1>1. k \in DOMAIN task' /\ (IsChat(k)' <=> IsChat(k))
    BY DEF Grows, IsChat
  <1>2. \A j : GivenUp(j) => GivenUp(j)'
    BY DEF GivenUp, Grows, Entry
  <1>3. Settled(k) => Settled(k)'
    BY <1>2 DEF Settled, InPhase, Grows
  <1>4. \A e : Logged(k, e) => Logged(k, e)'
    <2>1. task[k].session \in DOMAIN session /\ task'[k].session = task[k].session
      <3>1. task[k] \in TaskRecord /\ session \in Seq(SessionRecord)
        BY DEF Shapes
      <3> QED
        BY <3>1 DEF NamesExist, TaskRecord, Grows
    <2> QED
      BY <2>1 DEF Logged, SessionOf, Grows
  <1>5. Raced(k) => Raced(k)'
    BY <1>2 DEF Raced, Grows
  <1> QED
    BY <1>1, <1>2, <1>3, <1>4, <1>5
-----------------------------------------------------------------------------
(* The invariant is inductive: the steps of a task                          *)

\* A task that is not done, and was begun before or after another of its session,
\* has a reason to meet it.
LEMMA ReasonToMeet ==
  ASSUME SessionsInv, NEW j \in DOMAIN task, NEW k \in DOMAIN task, j # k,
         task[j].session = task[k].session,
         ~InPhase(j, {"done"}), ~InPhase(k, {"done"})
  PROVE  /\ "call" \in {task[j].kind, task[k].kind} \/ GivenUp(j) \/ GivenUp(k)
         /\ (IsChat(j) /\ IsChat(k) /\ k < j) => GivenUp(k)
  <1>1. /\ j \in Nat /\ k \in Nat /\ task[j].kind \in {"chat", "call"}
        /\ task[k].kind \in {"chat", "call"}
    BY TaskFields DEF SessionsInv, Shapes
  <1>2. IsChat(j) /\ IsChat(k) /\ j < k => GivenUp(j)
    BY DEF SessionsInv, InTurn, Settled
  <1>3. IsChat(j) /\ IsChat(k) /\ k < j => GivenUp(k)
    BY DEF SessionsInv, InTurn, Settled
  <1> QED
    BY <1>1, <1>2, <1>3 DEF IsChat

LEMMA TaskStepNames ==
  ASSUME SessionsInv, NEW k \in DOMAIN task, TaskStep(k)
  PROVE  NamesExist' /\ LoggedInTurn'
  <1>0. /\ Shapes /\ NamesExist /\ Shapes' /\ Grows /\ task \in Seq(TaskRecord)
        /\ k \in Nat /\ ~InPhase(k, {"done"})
    BY TaskStepGrows, TaskStepEffect DEF SessionsInv, Shapes
  <1>1. PICK ph \in Phases : Becomes(k, ph)
    BY <1>0, TaskStepEffect
  <1>2. /\ Len(task') = Len(task) /\ DOMAIN task' = DOMAIN task
        /\ \A j \in DOMAIN task : task'[j].kind = task[j].kind
                                    /\ task'[j].session = task[j].session
    BY <1>0, <1>1, PhaseEffect
  <1>3. /\ UNCHANGED <<page, shown>> /\ Len(session') = Len(session)
        /\ DOMAIN session' = DOMAIN session
        /\ session \in Seq(SessionRecord)
        /\ \A j \in DOMAIN task : GivenUp(j) => GivenUp(j)'
    BY <1>0, TaskStepEffect, FactsStay DEF Shapes
  <1>4. CASE \A s \in DOMAIN session : session'[s].journal = session[s].journal
    <2>1. NamesExist'
      <3>1. \A s \in DOMAIN session : \A i \in DOMAIN session'[s].journal :
              /\ session'[s].journal[i].task <= Len(task)
              /\ task'[session'[s].journal[i].task].session = s
        <4> SUFFICES ASSUME NEW s \in DOMAIN session, NEW i \in DOMAIN session[s].journal
                     PROVE  /\ session[s].journal[i].task <= Len(task)
                            /\ task'[session[s].journal[i].task].session = s
          BY <1>4
        <4>1. /\ session[s].journal[i].task <= Len(task)
              /\ task[session[s].journal[i].task].session = s
          BY <1>0 DEF NamesExist
        <4>2. session[s].journal[i].task \in DOMAIN task
          BY <1>0, NamesInDomain
        <4> QED
          BY <1>2, <4>1, <4>2
      <3> QED
        BY <1>0, <1>2, <1>3, <3>1 DEF NamesExist
    <2>2. LoggedInTurn'
      <3> SUFFICES ASSUME NEW s \in DOMAIN session,
                          NEW a \in DOMAIN session[s].journal,
                          NEW b \in DOMAIN session[s].journal,
                          NEW j, j = session[s].journal[a].task,
                          NEW l, l = session[s].journal[b].task,
                          a < b, IsChat(j)', IsChat(l)', l < j
                   PROVE  GivenUp(l)'
        BY <1>3, <1>4 DEF LoggedInTurn, IsChat, GivenUp
      <3>1. j \in DOMAIN task /\ l \in DOMAIN task
        BY <1>0, NamesInDomain
      <3>2. IsChat(j) /\ IsChat(l)
        BY <1>2, <3>1 DEF IsChat
      <3>3. GivenUp(l)
        BY <3>2 DEF SessionsInv, LoggedInTurn, IsChat
      <3> QED
        BY <1>3, <3>1, <3>3
    <2> QED
      BY <2>1, <2>2
  <1>5. CASE \E e \in EventRecord : e.task = k /\ Log(k, e)
    <2>1. PICK e \in EventRecord : e.task = k /\ Log(k, e)
      BY <1>5
    <2> DEFINE t == task[k].session
               old == session[t].journal
               new == session'[t].journal
    <2>2. /\ t \in DOMAIN session /\ old \in Seq(EventRecord) /\ new = Append(old, e)
          /\ \A s \in DOMAIN session : s # t => session'[s] = session[s]
      BY <1>0, <2>1, LogEffect
    <2> HIDE DEF old, new
    <2>3. /\ \A i \in DOMAIN new : \/ i \in DOMAIN old /\ new[i] = old[i]
                                   \/ i = Len(old) + 1 /\ new[i] = e
          /\ DOMAIN old = 1 .. Len(old) /\ Len(old) \in Nat
      BY <2>2
    <2>4. \A i \in DOMAIN old : /\ old[i].task \in DOMAIN task
                                /\ task[old[i].task].session = t
      BY <1>0, <2>2, NamesInDomain DEF NamesExist, old
    <2>5. \A i \in DOMAIN new : new[i].task <= Len(task) /\ task[new[i].task].session = t
      <3>1. k <= Len(task)
        BY <1>0
      <3>2. \A i \in DOMAIN old : old[i].task <= Len(task)
        BY <1>0, <2>2 DEF NamesExist, old
      <3> QED
        BY <2>1, <2>3, <2>4, <3>1, <3>2
    <2>6. ASSUME NEW s \in DOMAIN session', NEW i \in DOMAIN session'[s].journal
          PROVE  /\ session'[s].journal[i].task <= Len(task')
                 /\ task'[session'[s].journal[i].task].session = s
      <3>1. CASE s = t
        <4>1. /\ new[i].task <= Len(task) /\ task[new[i].task].session = t
              /\ new[i].task \in DOMAIN task
          BY <2>1, <2>3, <2>4, <2>5, <2>6, <3>1 DEF new
        <4> QED
          BY <1>2, <3>1, <4>1 DEF new
      <3>2. CASE s # t
        <4>1. session'[s] = session[s] /\ s \in DOMAIN session
          BY <1>3, <2>2, <2>6, <3>2
        <4>2. /\ session[s].journal[i].task <= Len(task)
              /\ task[session[s].journal[i].task].session = s
          BY <1>0, <2>6, <4>1 DEF NamesExist
        <4>3. session[s].journal[i].task \in DOMAIN task
          BY <1>0, <2>6, <4>1, NamesInDomain
        <4> QED
          BY <1>2, <4>1, <4>2, <4>3
      <3> QED
        BY <3>1, <3>2
    <2>7. NamesExist'
      BY <1>0, <1>2, <1>3, <2>6 DEF NamesExist
    <2>8. ASSUME NEW s \in DOMAIN session', NEW a \in DOMAIN session'[s].journal,
                 NEW b \in DOMAIN session'[s].journal, a < b,
                 NEW u, u = session'[s].journal[a].task,
                 NEW v, v = session'[s].journal[b].task,
                 IsChat(u)', IsChat(v)', v < u
          PROVE  GivenUp(v)'
      <3>1. /\ u \in DOMAIN task /\ v \in DOMAIN task /\ IsChat(u) /\ IsChat(v)
            /\ task[u].session = s /\ task[v].session = s
        <4>1. u \in Nat \ {0} /\ v \in Nat \ {0}
          BY <1>0, <2>8, JournalFields DEF Shapes
        <4>2. u <= Len(task) /\ v <= Len(task)
          BY <1>2, <2>6, <2>8
        <4>3. u \in DOMAIN task /\ v \in DOMAIN task
          BY <1>0, <4>1, <4>2
        <4> QED
          BY <1>2, <2>6, <2>8, <4>3 DEF IsChat
      <3>2. CASE s # t
        <4>1. session'[s] = session[s] /\ s \in DOMAIN session
          BY <1>3, <2>2, <2>8, <3>2
        <4>2. GivenUp(v)
          BY <2>8, <3>1, <4>1 DEF SessionsInv, LoggedInTurn
        <4> QED
          BY <1>3, <3>1, <4>2
      <3>3. CASE s = t /\ b \in DOMAIN old
        <4>1. a \in DOMAIN old
          BY <2>3, <2>8, <3>3 DEF new
        <4>2. new[a] = old[a] /\ new[b] = old[b]
          BY <2>3, <2>8, <3>3, <4>1 DEF new
        <4>3. u = old[a].task /\ v = old[b].task
          BY <2>8, <3>3, <4>2 DEF new
        <4>4. GivenUp(v)
          BY <2>2, <2>8, <3>1, <3>3, <4>1, <4>3 DEF SessionsInv, LoggedInTurn, old
        <4> QED
          BY <1>3, <3>1, <4>4
      <3>4. CASE s = t /\ b \notin DOMAIN old
        <4>1. v = k
          BY <2>1, <2>3, <2>8, <3>4 DEF new
        <4>2. Settled(k)
          BY <2>8, <3>1, <3>4, <4>1 DEF SessionsInv, InTurn
        <4>3. GivenUp(k)
          BY <1>0, <4>2 DEF Settled
        <4> QED
          BY <1>3, <4>1, <4>3
      <3> QED
        BY <3>2, <3>3, <3>4
    <2>9. LoggedInTurn'
      BY <2>8 DEF LoggedInTurn, GivenUp, IsChat
    <2> QED
      BY <2>7, <2>9
  <1> QED
    BY <1>0, <1>4, <1>5, TaskStepEffect

\* What task k itself is known to have done.
LEMMA TaskStepOwn ==
  ASSUME SessionsInv, NEW k \in DOMAIN task, TaskStep(k), Shapes', Grows
  PROVE  /\ InPhase(k, {"run", "asked", "answered", "silent"})' => SessionOf(k).stored'
         /\ InPhase(k, {"asked", "answered"})' => Logged(k, Message(k))'
         /\ InPhase(k, {"answered"})' => Logged(k, Answer(k))'
         /\ InPhase(k, {"create"})' => ~SessionOf(k).stored'
         /\ InPhase(k, {"conflict"})' => Raced(k)
  <1> DEFINE t == task[k].session
  <1>0. /\ Shapes /\ NamesExist /\ task[k] \in TaskRecord /\ task'[k].session = t
        /\ t \in DOMAIN session /\ session[t] \in SessionRecord
        /\ session[t].stored => session'[t].stored
    <2>1. Shapes /\ NamesExist /\ task[k] \in TaskRecord /\ session \in Seq(SessionRecord)
      BY DEF SessionsInv, Shapes
    <2>2. t \in DOMAIN session
      BY <2>1 DEF NamesExist, TaskRecord
    <2> QED
      BY <2>1, <2>2 DEF Grows
  <1>1. \A ph \in Phases : Becomes(k, ph) => task'[k].phase = ph
    BY <1>0, PhaseEffect
  <1>2. ASSUME NEW e \in EventRecord, Log(k, e)
        PROVE  Logged(k, e)'
    <2>1. /\ session'[t].journal = Append(session[t].journal, e)
          /\ session[t].journal \in Seq(EventRecord)
      BY <1>0, <1>2, LogEffect
    <2>2. \E i \in DOMAIN session'[t].journal : session'[t].journal[i] = e
      <3> DEFINE old == session[t].journal
                 new == session'[t].journal
      <3>1. old \in Seq(EventRecord) /\ new = Append(old, e)
        BY <2>1
      <3> HIDE DEF old, new
      <3>2. Len(old) + 1 \in DOMAIN new /\ new[Len(old) + 1] = e
        BY <3>1
      <3> QED
        BY <3>2 DEF new
    <2> QED
      BY <1>0, <2>2 DEF Logged, SessionOf
  <1>3. Message(k) \in EventRecord /\ Answer(k) \in EventRecord
    BY <1>0 DEF Message, Answer, EventRecord, SessionsInv, Shapes
  <1>4. CASE GetSession(k)
    <2>1. session' = session /\ task'[k].phase \in {"create", "run"}
      BY <1>1, <1>4 DEF GetSession, Phases
    <2>2. task'[k].phase = "create" <=> ~session[t].stored
      BY <1>1, <1>4 DEF GetSession, Missing, SessionOf, Phases
    <2> QED
      BY <1>0, <2>1, <2>2 DEF InPhase, SessionOf
  <1>5. CASE CreateStored(k)
    <2>1. CASE session[t].stored
      <3>1. task'[k].phase = "conflict"
        BY <1>1, <1>5, <2>1 DEF CreateStored, SessionOf, Phases
      <3>2. Raced(k)
        BY <1>5, <2>1 DEF CreateStored, SessionsInv, CreatedByRace, SessionOf
      <3> QED
        BY <3>1, <3>2 DEF InPhase
    <2>2. CASE ~session[t].stored
      <3>1. task'[k].phase = "run"
        BY <1>1, <1>5, <2>2 DEF CreateStored, SessionOf, Phases
      <3>2. session'[t].stored
        <4>1. session' = [session EXCEPT ![t].stored = TRUE]
          BY <1>5, <2>2 DEF CreateStored, SessionOf
        <4> QED
          BY <1>0, <4>1 DEF SessionRecord
      <3> QED
        BY <1>0, <3>1, <3>2 DEF InPhase, SessionOf
    <2> QED
      BY <2>1, <2>2
  <1>6. CASE Fail(k) \/ HangUp(k)
    <2>1. task'[k].phase \in {"failed", "done"}
      BY <1>1, <1>6 DEF Fail, HangUp, Phases
    <2> QED
      BY <2>1 DEF InPhase
  <1>7. CASE LogMessage(k)
    <2>1. task'[k].phase = "asked" /\ session[t].stored
      BY <1>1, <1>7 DEF LogMessage, Phases, SessionsInv, RunsAreStored, InPhase, SessionOf
    <2>2. Logged(k, Message(k))'
      BY <1>2, <1>3, <1>7 DEF LogMessage
    <2> QED
      BY <1>0, <2>1, <2>2 DEF InPhase, SessionOf
  <1>8. CASE LogAnswer(k)
    <2>1. task'[k].phase \in {"answered", "run"} /\ session[t].stored
      BY <1>1, <1>8 DEF LogAnswer, Phases, SessionsInv, RunsAreStored, InPhase, SessionOf
    <2>2. Logged(k, Answer(k))'
      BY <1>2, <1>3, <1>8 DEF LogAnswer
    <2>3. Logged(k, Message(k))'
      <3>1. Logged(k, Message(k))
        BY <1>8 DEF LogAnswer, SessionsInv, PhasesAreLogged, InPhase
      <3> QED
        BY <1>0, <3>1, FactsStay
    <2> QED
      BY <1>0, <2>1, <2>2, <2>3 DEF InPhase, SessionOf
  <1>9. CASE NoAnswer(k)
    <2>1. task'[k].phase \in {"silent", "run"} /\ session[t].stored
      BY <1>1, <1>9 DEF NoAnswer, Phases, SessionsInv, RunsAreStored, InPhase, SessionOf
    <2> QED
      BY <1>0, <2>1 DEF InPhase, SessionOf
  <1> QED
    BY <1>4, <1>5, <1>6, <1>7, <1>8, <1>9 DEF TaskStep

\* The invariant of the next state, with the tasks of the entries named.
LEMMA ShownAfter ==
  ASSUME \A p \in Page : \A i \in DOMAIN shown'[p] : shown'[p][i].who = "agent" =>
           \A k : k = shown'[p][i].task =>
             Logged(k, Message(k))' /\ Logged(k, Answer(k))'
  PROVE  ShownIsLogged'
  <1>1. ASSUME NEW p \in Page, NEW i \in DOMAIN shown'[p], shown'[p][i].who = "agent"
        PROVE  LET j == session'[task'[shown'[p][i].task].session].journal
               IN  /\ \E a \in DOMAIN j : j[a] = [kind |-> "user", task |-> shown'[p][i].task]
                   /\ \E a \in DOMAIN j : j[a] = [kind |-> "model", task |-> shown'[p][i].task]
    <2>1. PICK k : k = shown'[p][i].task
      OBVIOUS
    <2>2. Logged(k, Message(k))' /\ Logged(k, Answer(k))'
      BY <1>1, <2>1
    <2> QED
      BY <2>1, <2>2 DEF Logged, SessionOf, Message, Answer
  <1> QED
    BY <1>1, Zenon DEF ShownIsLogged, Logged, SessionOf, Message, Answer

LEMMA TaskStepKeeps ==
  ASSUME SessionsInv, NEW k \in DOMAIN task, TaskStep(k)
  PROVE  SessionsInv'
  <1>0. /\ Shapes /\ NamesExist /\ Shapes' /\ Grows /\ NamesExist' /\ LoggedInTurn'
        /\ ~InPhase(k, {"done"}) /\ UNCHANGED <<page, shown>>
    BY TaskStepGrows, TaskStepEffect, TaskStepNames DEF SessionsInv
  <1>1. PICK ph \in Phases : Becomes(k, ph)
    BY <1>0, TaskStepEffect
  <1>2. /\ DOMAIN task' = DOMAIN task
        /\ \A j \in DOMAIN task :
             /\ task'[j].kind = task[j].kind /\ task'[j].session = task[j].session
             /\ j # k => task'[j].phase = task[j].phase
    BY <1>0, <1>1, PhaseEffect DEF Shapes
  <1>3. \A j \in DOMAIN task : /\ Settled(j) => Settled(j)'
                               /\ \A e : Logged(j, e) => Logged(j, e)'
                               /\ Raced(j) => Raced(j)'
    BY <1>0, FactsStay
  <1>4. \A j \in DOMAIN task : /\ task[j].session \in DOMAIN session
                               /\ SessionOf(j).stored => SessionOf(j).stored'
    BY <1>0, <1>2, NamesInDomain DEF SessionOf, Grows
  <1>5. RunsAreStored'
    BY <1>0, <1>2, <1>4, TaskStepOwn DEF SessionsInv, RunsAreStored, InPhase
  <1>6. OnePage'
    BY <1>0, <1>2, NamesInDomain DEF SessionsInv, OnePage, IsChat
  <1>7. InTurn'
    BY <1>0, <1>2, <1>3 DEF SessionsInv, InTurn, IsChat, Waits
  <1>8. LastAwaited' /\ RepliesPaired'
    BY <1>0 DEF SessionsInv, LastAwaited, RepliesPaired
  <1>9. PhasesAreLogged'
    <2> SUFFICES ASSUME NEW j \in DOMAIN task
                 PROVE  /\ InPhase(j, {"asked", "answered"})' => Logged(j, Message(j))'
                        /\ InPhase(j, {"answered"})' => Logged(j, Answer(j))'
      BY <1>2 DEF PhasesAreLogged, Logged, Message, Answer, SessionOf
    <2>1. CASE j = k
      BY <1>0, <2>1, TaskStepOwn
    <2>2. CASE j # k
      BY <1>2, <1>3, <2>2 DEF SessionsInv, PhasesAreLogged, InPhase
    <2> QED
      BY <2>1, <2>2
  <1>10. ShownIsLogged'
    <2> SUFFICES ASSUME NEW p \in Page, NEW i \in DOMAIN shown[p], shown[p][i].who = "agent",
                        NEW j, j = shown[p][i].task
                 PROVE  Logged(j, Message(j))' /\ Logged(j, Answer(j))'
      BY <1>0, ShownAfter
    <2>1. j \in DOMAIN task
      BY <1>0, NamesInDomain
    <2>2. Logged(j, Message(j)) /\ Logged(j, Answer(j))
      BY DEF SessionsInv, ShownIsLogged
    <2> QED
      BY <1>3, <2>1, <2>2
  <1>11. CreatedByRace'
    <2> SUFFICES ASSUME NEW j \in DOMAIN task
                 PROVE  /\ InPhase(j, {"create"})' /\ SessionOf(j).stored' => Raced(j)'
                        /\ InPhase(j, {"conflict"})' => Raced(j)'
      BY <1>2 DEF CreatedByRace, SessionOf
    <2>1. CASE j = k
      BY <1>0, <1>3, <2>1, TaskStepOwn
    <2>2. ASSUME j # k, InPhase(j, {"create"})', SessionOf(j).stored', ~SessionOf(j).stored
          PROVE  Raced(j)'
      <3>1. InPhase(j, {"create"})
        BY <1>2, <2>2 DEF InPhase
      <3>2. task[j].session = task[k].session
        BY <1>0, <1>2, <1>4, <2>2, TaskStepEffect DEF SessionOf
      <3>3. InPhase(k, {"create"})
        BY <1>0, <1>2, <1>4, <2>2, TaskStepEffect DEF SessionOf
      <3>4. "call" \in {task[j].kind, task[k].kind} \/ GivenUp(j) \/ GivenUp(k)
        BY <2>2, <3>1, <3>2, <3>3, ReasonToMeet DEF InPhase
      <3>5. Raced(j)
        BY <2>2, <3>2, <3>4 DEF Raced
      <3> QED
        BY <1>3, <3>5
    <2>3. CASE j # k
      <3>1. InPhase(j, {"create"})' => InPhase(j, {"create"})
        BY <1>2, <2>3 DEF InPhase
      <3>2. InPhase(j, {"conflict"})' => InPhase(j, {"conflict"})
        BY <1>2, <2>3 DEF InPhase
      <3> QED
        BY <1>3, <2>2, <2>3, <3>1, <3>2 DEF SessionsInv, CreatedByRace
    <2> QED
      BY <2>1, <2>3
  <1> QED
    BY <1>0, <1>5, <1>6, <1>7, <1>8, <1>9, <1>10, <1>11 DEF SessionsInv
-----------------------------------------------------------------------------
(* The invariant is inductive: the steps of pages and callers               *)

\* Nothing is logged or stored, and a task either goes nowhere, is done, or has
\* just begun.
Quiet ==
  /\ \A k \in DOMAIN task' :
       \/ k \in DOMAIN task /\ task'[k].phase \in {task[k].phase, "done"}
       \/ k \notin DOMAIN task /\ task'[k].phase = "lookup"
  /\ \A s \in DOMAIN session' :
       \/ /\ s \in DOMAIN session /\ session'[s].stored = session[s].stored
          /\ session'[s].journal = session[s].journal
       \/ s \notin DOMAIN session /\ session'[s].journal = <<>>

LEMMA QuietKeeps ==
  ASSUME SessionsInv, Shapes', Grows, Quiet
  PROVE  /\ RunsAreStored' /\ PhasesAreLogged' /\ CreatedByRace' /\ LoggedInTurn'
         /\ \A s \in DOMAIN session' : \A i \in DOMAIN session'[s].journal :
              /\ session'[s].journal[i].task <= Len(task')
              /\ task'[session'[s].journal[i].task].session = s
         /\ \A p \in Page : \A i \in DOMAIN shown[p] : shown[p][i].who = "agent" =>
              \A k : k = shown[p][i].task =>
                Logged(k, Message(k))' /\ Logged(k, Answer(k))'
         /\ Len(task) <= Len(task') /\ Len(session) <= Len(session')
  <1>0. /\ Shapes /\ NamesExist
        /\ task \in Seq(TaskRecord) /\ task' \in Seq(TaskRecord)
        /\ session \in Seq(SessionRecord) /\ session' \in Seq(SessionRecord)
    BY DEF SessionsInv, Shapes
  <1>1. \A k \in DOMAIN task : /\ GivenUp(k) => GivenUp(k)'
                               /\ \A e : Logged(k, e) => Logged(k, e)'
                               /\ Raced(k) => Raced(k)'
    BY <1>0, FactsStay
  <1>2. ASSUME NEW k \in DOMAIN task', NEW ph, ph \notin {"lookup", "done"},
               task'[k].phase = ph
        PROVE  /\ k \in DOMAIN task /\ task[k].phase = ph
               /\ task'[k].session = task[k].session /\ task[k].session \in DOMAIN session
               /\ session'[task[k].session].stored = session[task[k].session].stored
    <2>1. k \in DOMAIN task /\ task[k].phase = ph
      BY <1>2 DEF Quiet
    <2>2. task'[k].session = task[k].session /\ task[k].session \in DOMAIN session
      BY <1>0, <2>1, NamesInDomain DEF Grows
    <2>3. task[k].session \in DOMAIN session'
      BY <2>2 DEF Grows
    <2> QED
      BY <2>1, <2>2, <2>3 DEF Quiet
  <1>3. RunsAreStored'
    BY <1>2 DEF SessionsInv, RunsAreStored, InPhase, SessionOf
  <1>4. PhasesAreLogged'
    <2> SUFFICES ASSUME NEW k \in DOMAIN task'
                 PROVE  /\ InPhase(k, {"asked", "answered"})' => Logged(k, Message(k))'
                        /\ InPhase(k, {"answered"})' => Logged(k, Answer(k))'
      BY DEF PhasesAreLogged, Logged, SessionOf, Message, Answer
    <2> QED
      BY <1>1, <1>2 DEF SessionsInv, PhasesAreLogged, InPhase
  <1>5. CreatedByRace'
    BY <1>1, <1>2 DEF SessionsInv, CreatedByRace, InPhase, SessionOf
  <1>6. ASSUME NEW s \in DOMAIN session', NEW i \in DOMAIN session'[s].journal
        PROVE  /\ s \in DOMAIN session /\ session'[s].journal = session[s].journal
               /\ session[s].journal[i].task \in DOMAIN task
               /\ session[s].journal[i].task \in DOMAIN task'
               /\ task'[session[s].journal[i].task].kind = task[session[s].journal[i].task].kind
               /\ task'[session[s].journal[i].task].session = s
    <2>1. s \in DOMAIN session /\ session'[s].journal = session[s].journal
      BY <1>6 DEF Quiet
    <2>2. session[s].journal[i].task \in DOMAIN task
      BY <1>0, <1>6, <2>1, NamesInDomain
    <2> QED
      BY <1>0, <1>6, <2>1, <2>2 DEF Grows, NamesExist
  <1>7. LoggedInTurn'
    <2> SUFFICES ASSUME NEW s \in DOMAIN session', NEW a \in DOMAIN session'[s].journal,
                        NEW b \in DOMAIN session'[s].journal, a < b,
                        NEW u, u = session'[s].journal[a].task,
                        NEW v, v = session'[s].journal[b].task,
                        IsChat(u)', IsChat(v)', v < u
                 PROVE  GivenUp(v)'
      BY DEF LoggedInTurn, GivenUp, IsChat
    <2>1. /\ s \in DOMAIN session /\ session'[s].journal = session[s].journal
          /\ u = session[s].journal[a].task /\ v = session[s].journal[b].task
          /\ v \in DOMAIN task /\ IsChat(u) /\ IsChat(v)
      BY <1>6 DEF IsChat
    <2>2. GivenUp(v)
      BY <2>1 DEF SessionsInv, LoggedInTurn
    <2> QED
      BY <1>1, <2>1, <2>2
  <1>8. \A s \in DOMAIN session' : \A i \in DOMAIN session'[s].journal :
          /\ session'[s].journal[i].task <= Len(task')
          /\ task'[session'[s].journal[i].task].session = s
    <2>1. \A k \in DOMAIN task' : k <= Len(task')
      BY <1>0
    <2> QED
      BY <1>6, <2>1
  <1>9. ASSUME NEW p \in Page, NEW i \in DOMAIN shown[p], shown[p][i].who = "agent",
               NEW k, k = shown[p][i].task
        PROVE  Logged(k, Message(k))' /\ Logged(k, Answer(k))'
    BY <1>0, <1>1, <1>9, NamesInDomain DEF SessionsInv, ShownIsLogged
  <1>10. Len(task) <= Len(task') /\ Len(session) <= Len(session')
    <2>1. Len(task) # 0 => Len(task) \in DOMAIN task'
      BY <1>0 DEF Grows
    <2>2. Len(session) # 0 => Len(session) \in DOMAIN session'
      BY <1>0 DEF Grows
    <2> QED
      BY <1>0, <2>1, <2>2
  <1> QED
    BY <1>3, <1>4, <1>5, <1>7, <1>8, <1>9, <1>10

\* Every list of messages goes on in pairs.
LEMMA PairsGoOn ==
  ASSUME NEW n \in Nat
  PROVE  \A m : m = n + 1 => (n % 2 = 0 => m % 2 = 1) /\ (n % 2 = 1 => m % 2 = 0 /\ n # 0)
  OBVIOUS

\* A reply, and a request given up.
LEMMA ReplyKeeps ==
  ASSUME SessionsInv, Shapes', Grows, Quiet,
         Len(task') = Len(task), Len(session') = Len(session),
         NEW ps \in SUBSET {p \in Page : page[p].waiting # NoTask},
         NEW w \in {"agent", "fallback", "error"}, Replied(ps, w),
         w = "agent" => \A p \in ps : task[page[p].waiting].phase = "answered",
         \A k \in DOMAIN task : \A p \in ps : page[p].waiting = k => Settled(k)'
  PROVE  SessionsInv'
  <1>0. /\ Shapes /\ NamesExist /\ DOMAIN task' = DOMAIN task
        /\ DOMAIN session' = DOMAIN session
        /\ \A p \in Page : shown[p] \in Seq(EntryRecord) /\ shown'[p] \in Seq(EntryRecord)
        /\ \A p \in Page : page[p].waiting # NoTask => page[p].waiting \in DOMAIN task
    BY NamesInDomain DEF SessionsInv, Shapes
  <1>1. /\ RunsAreStored' /\ PhasesAreLogged' /\ CreatedByRace' /\ LoggedInTurn'
        /\ \A k \in DOMAIN task : /\ Settled(k) => Settled(k)'
                                  /\ \A e : Logged(k, e) => Logged(k, e)'
                                  /\ task'[k].kind = task[k].kind
                                  /\ task'[k].session = task[k].session
    BY <1>0, QuietKeeps, FactsStay DEF Grows
  <1>2. ASSUME NEW p \in Page
        PROVE  /\ page'[p].session = page[p].session /\ page'[p].loaded = page[p].loaded
               /\ page'[p].waiting \in {page[p].waiting, NoTask}
               /\ p \in ps => /\ page'[p].waiting = NoTask /\ page[p].waiting # NoTask
                              /\ Len(shown'[p]) = Len(shown[p]) + 1
                              /\ shown'[p][Len(shown[p]) + 1] = Entry(w, page[p].waiting)
               /\ p \notin ps => page'[p].waiting = page[p].waiting /\ shown'[p] = shown[p]
               /\ \A i \in DOMAIN shown[p] :
                    i \in DOMAIN shown'[p] /\ shown'[p][i] = shown[p][i]
    BY DEF Replied
  <1>3. ASSUME NEW p \in ps, NEW i \in DOMAIN shown'[p]
        PROVE  \/ i \in DOMAIN shown[p] /\ shown'[p][i] = shown[p][i]
               \/ i = Len(shown[p]) + 1 /\ shown'[p][i] = Entry(w, page[p].waiting)
    BY <1>0, <1>2
  <1>4. NamesExist'
    <2>1. ASSUME NEW p \in Page
          PROVE  page'[p].session <= Len(session') /\ page'[p].waiting <= Len(task')
      <3>1. page[p].session <= Len(session) /\ page[p].waiting <= Len(task)
        BY <1>0 DEF NamesExist
      <3>2. NoTask <= Len(task)
        BY <1>0 DEF Shapes, NoTask
      <3> QED
        BY <1>2, <3>1, <3>2
    <2>2. ASSUME NEW p \in Page, NEW i \in DOMAIN shown'[p]
          PROVE  shown'[p][i].task <= Len(task')
      <3>1. CASE p \in ps
        <4>1. page[p].waiting <= Len(task)
          BY <1>0 DEF NamesExist
        <4> QED
          <5>1. CASE i \in DOMAIN shown[p] /\ shown'[p][i] = shown[p][i]
            BY <1>0, <5>1 DEF NamesExist
          <5>2. CASE shown'[p][i] = Entry(w, page[p].waiting)
            BY <4>1, <5>2 DEF Entry
          <5> QED
            BY <1>3, <2>2, <3>1, <5>1, <5>2
      <3>2. CASE p \notin ps
        BY <1>0, <1>2, <2>2, <3>2 DEF NamesExist
      <3> QED
        BY <3>1, <3>2
    <2>3. \A k \in DOMAIN task' : task'[k].session <= Len(session')
      BY <1>0, <1>1 DEF NamesExist
    <2> QED
      BY <2>1, <2>2, <2>3, QuietKeeps DEF NamesExist
  <1>5. OnePage'
    BY <1>0, <1>1, <1>2 DEF SessionsInv, OnePage, IsChat
  <1>6. InTurn'
    <2>1. ASSUME NEW k \in DOMAIN task', IsChat(k)'
          PROVE  Settled(k)' \/ \E p \in Page : Waits(p, k)'
      <3>1. IsChat(k) /\ k \in DOMAIN task
        BY <1>0, <1>1, <2>1 DEF IsChat
      <3>2. CASE Settled(k)
        BY <1>1, <3>1, <3>2
      <3>3. CASE \E p \in Page : Waits(p, k)
        BY <1>2, <3>1, <3>3 DEF Waits
      <3> QED
        BY <3>1, <3>2, <3>3 DEF SessionsInv, InTurn
    <2>2. ASSUME NEW j \in DOMAIN task', NEW k \in DOMAIN task', IsChat(j)', IsChat(k)',
                 task'[j].session = task'[k].session, j < k
          PROVE  Settled(j)'
      BY <1>0, <1>1, <2>2 DEF SessionsInv, InTurn, IsChat
    <2> QED
      BY <2>1, <2>2 DEF InTurn
  <1>61. ASSUME NEW p \in ps
         PROVE  /\ Len(shown[p]) \in Nat /\ Len(shown[p]) % 2 = 1
                /\ shown[p][Len(shown[p])] = Entry("user", page[p].waiting)
                /\ DOMAIN shown[p] = 1 .. Len(shown[p])
    <2>1. p \in Page /\ page[p].waiting # NoTask
      OBVIOUS
    <2>2. IF page[p].waiting = NoTask THEN Len(shown[p]) % 2 = 0
          ELSE /\ Len(shown[p]) % 2 = 1
               /\ shown[p][Len(shown[p])] = Entry("user", page[p].waiting)
      BY <2>1 DEF SessionsInv, LastAwaited
    <2>3. Len(shown[p]) \in Nat /\ DOMAIN shown[p] = 1 .. Len(shown[p])
      BY <1>0, <2>1
    <2> QED
      BY <2>1, <2>2, <2>3
  <1>7. LastAwaited'
    <2> SUFFICES ASSUME NEW p \in Page
                 PROVE  IF page'[p].waiting = NoTask THEN Len(shown'[p]) % 2 = 0
                        ELSE /\ Len(shown'[p]) % 2 = 1
                             /\ shown'[p][Len(shown'[p])] = Entry("user", page'[p].waiting)
      BY DEF LastAwaited, Entry
    <2>1. CASE p \in ps
      <3>1. Len(shown[p]) \in Nat /\ Len(shown[p]) % 2 = 1
        BY <1>61, <2>1
      <3>2. (Len(shown[p]) + 1) % 2 = 0
        BY <3>1, PairsGoOn
      <3> QED
        BY <1>2, <2>1, <3>2
    <2>2. CASE p \notin ps
      <3>1. shown'[p] = shown[p] /\ page'[p].waiting = page[p].waiting
        BY <1>2, <2>2
      <3>2. IF page[p].waiting = NoTask THEN Len(shown[p]) % 2 = 0
            ELSE /\ Len(shown[p]) % 2 = 1
                 /\ shown[p][Len(shown[p])] = Entry("user", page[p].waiting)
        BY DEF SessionsInv, LastAwaited
      <3> QED
        BY <3>1, <3>2
    <2> QED
      BY <2>1, <2>2
  <1>8. RepliesPaired'
    <2> SUFFICES ASSUME NEW p \in Page, NEW i \in DOMAIN shown'[p]
                 PROVE  IF i % 2 = 1
                        THEN /\ shown'[p][i].who = "user"
                             /\ i = Len(shown'[p]) => page'[p].waiting = shown'[p][i].task
                        ELSE /\ shown'[p][i].who # "user"
                             /\ shown'[p][i].task = shown'[p][i - 1].task
      BY DEF RepliesPaired
    <2>1. CASE p \in ps
      <3> DEFINE n == Len(shown[p])
      <3>1. /\ n \in Nat /\ n % 2 = 1 /\ shown[p][n] = Entry("user", page[p].waiting)
            /\ DOMAIN shown[p] = 1 .. n
        BY <1>61, <2>1
      <3> HIDE DEF n
      <3>2. n \in DOMAIN shown[p] /\ shown'[p][n] = shown[p][n]
        <4>1. n # 0
          BY <3>1
        <4>2. n \in DOMAIN shown[p]
          BY <3>1, <4>1
        <4> QED
          BY <1>2, <4>2
      <3>21. Len(shown'[p]) = n + 1 /\ shown'[p][n + 1] = Entry(w, page[p].waiting)
        BY <1>2, <2>1 DEF n
      <3>3. CASE i \in DOMAIN shown[p]
        <4>1. /\ shown'[p][i] = shown[p][i] /\ i # Len(shown'[p])
              /\ i % 2 # 1 => i - 1 \in DOMAIN shown[p]
          BY SMTT(20), <1>2, <3>1, <3>21, <3>3
        <4>2. i % 2 # 1 => shown'[p][i - 1] = shown[p][i - 1]
          BY <1>2, <4>1
        <4> QED
          BY <3>3, <4>1, <4>2 DEF SessionsInv, RepliesPaired
      <3>4. CASE i = n + 1
        <4>1. i % 2 = 0 /\ i - 1 = n
          BY <3>1, <3>4, PairsGoOn
        <4>2. shown'[p][i] = Entry(w, page[p].waiting)
          BY <3>21, <3>4
        <4> QED
          BY <3>1, <3>2, <4>1, <4>2 DEF Entry
      <3> QED
        BY <1>3, <2>1, <3>3, <3>4 DEF n
    <2>2. CASE p \notin ps
      BY <1>2, <2>2 DEF SessionsInv, RepliesPaired
    <2> QED
      BY <2>1, <2>2
  <1>9. ShownIsLogged'
    <2> SUFFICES ASSUME NEW p \in Page, NEW i \in DOMAIN shown'[p],
                        shown'[p][i].who = "agent", NEW k, k = shown'[p][i].task
                 PROVE  Logged(k, Message(k))' /\ Logged(k, Answer(k))'
      BY ShownAfter
    <2>1. CASE i \in DOMAIN shown[p]
      BY <1>2, <2>1, QuietKeeps
    <2>2. CASE i \notin DOMAIN shown[p]
      <3>1. p \in ps /\ shown'[p][i] = Entry(w, page[p].waiting)
        BY <1>2, <1>3, <2>2
      <3>2. w = "agent" /\ k = page[p].waiting /\ k \in DOMAIN task
        BY <1>0, <3>1 DEF Entry
      <3>3. Logged(k, Message(k)) /\ Logged(k, Answer(k))
        BY <3>1, <3>2 DEF SessionsInv, PhasesAreLogged, InPhase
      <3> QED
        BY <1>1, <3>2, <3>3
    <2> QED
      BY <2>1, <2>2
  <1> QED
    BY <1>1, <1>4, <1>5, <1>6, <1>7, <1>8, <1>9 DEF SessionsInv

LEMMA RespondKeeps ==
  ASSUME SessionsInv, NEW k \in DOMAIN task, Respond(k), Shapes', Grows
  PROVE  SessionsInv'
  <1> DEFINE ps == {p \in Page : page[p].waiting = k}
             w  == ShownFor[task[k].phase]
  <1>1. /\ Replied(ps, w) /\ w \in {"agent", "fallback", "error"}
        /\ w = "agent" => task[k].phase = "answered"
        /\ Becomes(k, "done") /\ UNCHANGED <<session, restarts>>
    BY RespondEffect DEF SessionsInv
  <1> HIDE DEF w
  <1>2. /\ Len(task') = Len(task) /\ task'[k].phase = "done"
        /\ DOMAIN task' = DOMAIN task /\ k # NoTask
        /\ \A j \in DOMAIN task : j # k => task'[j].phase = task[j].phase
    BY <1>1, PhaseEffect DEF SessionsInv, Shapes, Phases, NoTask
  <1>3. Quiet
    BY <1>1, <1>2 DEF Quiet
  <1>4. \A j \in DOMAIN task : \A p \in ps : page[p].waiting = j => Settled(j)'
    BY <1>2 DEF Settled, InPhase
  <1>5. ps \in SUBSET {p \in Page : page[p].waiting # NoTask}
    BY <1>2
  <1>6. w = "agent" => \A p \in ps : task[page[p].waiting].phase = "answered"
    BY <1>1
  <1> HIDE DEF ps
  <1> QED
    BY <1>1, <1>2, <1>3, <1>4, <1>5, <1>6, ReplyKeeps

LEMMA RejectKeeps ==
  ASSUME SessionsInv, NEW p \in Page, FetchRejected(p), Shapes', Grows
  PROVE  SessionsInv'
  <1>1. /\ UNCHANGED <<task, session, restarts>> /\ page[p].waiting # NoTask
        /\ Replied({p}, "error")
    BY GiveUpEffect DEF SessionsInv, FetchRejected
  <1>2. Quiet
    BY <1>1 DEF Quiet
  <1>3. \A k \in DOMAIN task : page[p].waiting = k => Settled(k)'
    <2> SUFFICES ASSUME NEW k \in DOMAIN task, page[p].waiting = k
                 PROVE  GivenUp(k)'
      BY DEF Settled
    <2>1. shown' \in [Page -> Seq(EntryRecord)] /\ shown \in [Page -> Seq(EntryRecord)]
      BY DEF Shapes, SessionsInv
    <2>2. Len(shown[p]) + 1 \in DOMAIN shown'[p]
      BY <1>1, <2>1 DEF Replied
    <2>3. shown'[p][Len(shown[p]) + 1] = Entry("error", k)
      BY <1>1 DEF Replied
    <2> QED
      BY <2>2, <2>3 DEF GivenUp, Entry
  <1> QED
    BY <1>1, <1>2, <1>3, ReplyKeeps

LEMMA RestartKeeps ==
  ASSUME SessionsInv, Restart, Shapes', Grows
  PROVE  SessionsInv'
  <1>1. /\ Replied({p \in Page : page[p].waiting # NoTask}, "error")
        /\ Len(task') = Len(task) /\ Len(session') = Len(session)
        /\ \A j \in DOMAIN task : task'[j].phase = "done"
        /\ \A s \in DOMAIN session : /\ session'[s].stored = session[s].stored
                                     /\ session'[s].journal = session[s].journal
    BY RestartEffect DEF SessionsInv
  <1>2. DOMAIN task' = DOMAIN task /\ DOMAIN session' = DOMAIN session
    BY <1>1 DEF SessionsInv, Shapes
  <1>3. Quiet
    BY <1>1, <1>2 DEF Quiet
  <1>4. \A k \in DOMAIN task : Settled(k)'
    BY <1>1 DEF Settled, InPhase
  <1> QED
    BY <1>1, <1>3, <1>4, ReplyKeeps

\* Page p sends a message: its earlier ones are settled.
LEMMA SendKeeps ==
  ASSUME SessionsInv, NEW p \in Page, SendMessage(p), Shapes', Grows
  PROVE  SessionsInv'
  <1> DEFINE k == Len(task) + 1
             n == Len(shown[p])
  <1>0. /\ Shapes /\ NamesExist /\ k \in Nat \ {0} /\ n \in Nat
        /\ DOMAIN task = 1 .. Len(task) /\ DOMAIN task' = 1 .. k
        /\ DOMAIN shown[p] = 1 .. n /\ DOMAIN shown'[p] = 1 .. (n + 1)
        /\ page[p].session # 0 /\ page[p].waiting = NoTask /\ session' = session
        /\ \A q \in Page : shown[q] \in Seq(EntryRecord) /\ page[q] \in PageRecord
    <2>1. Len(task') = k /\ Len(shown'[p]) = n + 1
      BY SendEffect DEF SessionsInv
    <2> QED
      BY <2>1 DEF SessionsInv, Shapes, SendMessage, CanSend, NoSession
  <1>1. /\ task'[k].kind = "chat" /\ task'[k].phase = "lookup"
        /\ task'[k].session = page[p].session /\ Len(task') = k
        /\ \A j \in DOMAIN task : task'[j] = task[j]
        /\ \A q \in Page : page'[q].session = page[q].session
                             /\ page'[q].loaded = page[q].loaded
        /\ page'[p].waiting = k /\ Len(shown'[p]) = n + 1
        /\ shown'[p][n + 1] = Entry("user", k)
        /\ \A i \in DOMAIN shown[p] : i \in DOMAIN shown'[p] /\ shown'[p][i] = shown[p][i]
        /\ \A q \in Page : q # p => page'[q].waiting = page[q].waiting /\ shown'[q] = shown[q]
    <2>1. task'[k] = Chat(page[p].session)
      BY <1>0, SendEffect
    <2>2. \A q \in Page : q # p => page'[q].waiting = page[q].waiting /\ shown'[q] = shown[q]
      BY <1>0, SendEffect
    <2> QED
      BY <1>0, <2>1, <2>2, SendEffect DEF Chat
  <1> HIDE DEF k, n
  <1>2. Len(task) \in Nat /\ k = Len(task) + 1
    BY <1>0 DEF k, Shapes
  <1>3. Quiet
    <2>1. ASSUME NEW j \in DOMAIN task'
          PROVE  \/ j \in DOMAIN task /\ task'[j].phase \in {task[j].phase, "done"}
                 \/ j \notin DOMAIN task /\ task'[j].phase = "lookup"
      BY <1>0, <1>1, <1>2
    <2> QED
      BY <1>0, <2>1 DEF Quiet
  <1>4. /\ RunsAreStored' /\ PhasesAreLogged' /\ CreatedByRace' /\ LoggedInTurn'
        /\ \A j \in DOMAIN task : Settled(j) => Settled(j)'
    BY <1>0, <1>3, QuietKeeps, FactsStay
  <1>5. \A i \in DOMAIN shown'[p] :
          \/ i \in DOMAIN shown[p] /\ shown'[p][i] = shown[p][i]
          \/ i = n + 1 /\ shown'[p][i] = Entry("user", k)
    BY <1>0, <1>1
  <1>6. NamesExist'
    <2>1. \A q \in Page : page'[q].session <= Len(session') /\ page'[q].waiting <= Len(task')
      BY <1>0, <1>1, <1>2 DEF NamesExist, PageRecord
    <2>2. ASSUME NEW q \in Page, NEW i \in DOMAIN shown'[q]
          PROVE  shown'[q][i].task <= Len(task')
      <3>1. ASSUME NEW h \in DOMAIN shown[q]
            PROVE  shown[q][h].task <= Len(task')
        <4>1. shown[q][h].task \in Nat /\ shown[q][h].task <= Len(task)
          BY <1>0, EntryFields DEF NamesExist
        <4> QED
          BY <1>1, <1>2, <4>1
      <3>2. CASE q = p
        <4>1. CASE i \in DOMAIN shown[p] /\ shown'[p][i] = shown[p][i]
          BY <3>1, <3>2, <4>1
        <4>2. CASE shown'[p][i] = Entry("user", k)
          BY <1>0, <1>1, <3>2, <4>2 DEF Entry
        <4> QED
          BY <1>5, <2>2, <3>2, <4>1, <4>2
      <3>3. CASE q # p
        BY <1>1, <2>2, <3>1, <3>3
      <3> QED
        BY <3>2, <3>3
    <2>3. \A j \in DOMAIN task' : task'[j].session <= Len(session')
      BY <1>0, <1>1, <1>2 DEF NamesExist
    <2> QED
      BY <1>3, <2>1, <2>2, <2>3, QuietKeeps DEF NamesExist
  <1>7. \A q \in Page : page[q].waiting # NoTask => page[q].waiting \in DOMAIN task
    BY <1>0, NamesInDomain
  <1>8. OnePage'
    <2>1. \A q, r \in Page :
            page'[q].session = page'[r].session => q = r \/ page'[q].session = 0
      BY <1>1 DEF SessionsInv, OnePage
    <2>2. \A q \in Page : page'[q].session # 0 => page'[q].loaded
      BY <1>1 DEF SessionsInv, OnePage
    <2>3. ASSUME NEW q \in Page, page'[q].waiting # NoTask, NEW j, j = page'[q].waiting
          PROVE  IsChat(j)' /\ task'[j].session = page'[q].session
      <3>1. CASE q = p
        BY <1>1, <2>3, <3>1 DEF IsChat
      <3>2. CASE q # p
        <4>1. j = page[q].waiting /\ j \in DOMAIN task
          BY <1>1, <1>7, <2>3, <3>2
        <4>2. IsChat(j) /\ task[j].session = page[q].session
          BY <2>3, <4>1 DEF SessionsInv, OnePage
        <4> QED
          BY <1>1, <4>1, <4>2 DEF IsChat
      <3> QED
        BY <3>1, <3>2
    <2>4. ASSUME NEW j \in DOMAIN task', IsChat(j)'
          PROVE  \E q \in Page : page'[q].session = task'[j].session
      <3>1. CASE j = k
        BY <1>1, <3>1
      <3>2. CASE j # k
        <4>1. j \in DOMAIN task /\ IsChat(j)
          BY <1>0, <1>1, <1>2, <2>4, <3>2 DEF IsChat
        <4> QED
          BY <1>1, <4>1 DEF SessionsInv, OnePage
      <3> QED
        BY <3>1, <3>2
    <2> QED
      BY <2>1, <2>2, <2>3, <2>4 DEF OnePage, IsChat
  <1>9. ASSUME NEW j \in DOMAIN task, IsChat(j), ~Settled(j)
        PROVE  \E q \in Page : q # p /\ Waits(q, j) /\ task[j].session = page[q].session
    <2>1. PICK q \in Page : Waits(q, j)
      BY <1>9 DEF SessionsInv, InTurn
    <2>2. page[q].waiting # NoTask
      BY <1>0, <1>9, <2>1 DEF Waits, NoTask
    <2> QED
      BY <1>0, <2>1, <2>2 DEF SessionsInv, OnePage, Waits
  <1>10. InTurn'
    <2>1. ASSUME NEW j \in DOMAIN task', IsChat(j)'
          PROVE  Settled(j)' \/ \E q \in Page : Waits(q, j)'
      <3>1. CASE j = k
        BY <1>1, <3>1 DEF Waits
      <3>2. CASE j # k
        <4>1. j \in DOMAIN task /\ IsChat(j)
          BY <1>0, <1>1, <1>2, <2>1, <3>2 DEF IsChat
        <4>2. CASE Settled(j)
          BY <1>4, <4>1, <4>2
        <4>3. CASE ~Settled(j)
          BY <1>1, <1>9, <4>1, <4>3 DEF Waits
        <4> QED
          BY <4>2, <4>3
      <3> QED
        BY <3>1, <3>2
    <2>2. ASSUME NEW i \in DOMAIN task', NEW j \in DOMAIN task', IsChat(i)', IsChat(j)',
                 task'[i].session = task'[j].session, i < j
          PROVE  Settled(i)'
      <3>1. i \in DOMAIN task /\ IsChat(i) /\ task[i].session = task'[i].session
        BY <1>0, <1>1, <1>2, <2>2 DEF IsChat
      <3>2. CASE j = k
        <4>1. Settled(i)
          <5> SUFFICES ASSUME ~Settled(i)
                       PROVE  FALSE
            OBVIOUS
          <5>1. PICK q \in Page : q # p /\ task[i].session = page[q].session
            BY <1>9, <3>1
          <5>2. page[q].session = page[p].session
            BY <1>1, <2>2, <3>1, <3>2, <5>1
          <5> QED
            BY <1>0, <5>1, <5>2 DEF SessionsInv, OnePage
        <4> QED
          BY <1>4, <3>1, <4>1
      <3>3. CASE j # k
        <4>1. j \in DOMAIN task /\ IsChat(j) /\ task[j].session = task'[j].session
          BY <1>0, <1>1, <1>2, <2>2, <3>3 DEF IsChat
        <4>2. Settled(i)
          BY <2>2, <3>1, <4>1 DEF SessionsInv, InTurn
        <4> QED
          BY <1>4, <3>1, <4>2
      <3> QED
        BY <3>2, <3>3
    <2> QED
      BY <2>1, <2>2 DEF InTurn
  <1>11. n % 2 = 0 /\ (n + 1) % 2 = 1
    <2>1. n % 2 = 0
      BY <1>0 DEF SessionsInv, LastAwaited, n
    <2> QED
      BY <1>0, <2>1, PairsGoOn
  <1>12. LastAwaited'
    <2> SUFFICES ASSUME NEW q \in Page
                 PROVE  IF page'[q].waiting = NoTask THEN Len(shown'[q]) % 2 = 0
                        ELSE /\ Len(shown'[q]) % 2 = 1
                             /\ shown'[q][Len(shown'[q])] = Entry("user", page'[q].waiting)
      BY DEF LastAwaited, Entry
    <2>1. CASE q = p
      BY <1>0, <1>1, <1>11, <2>1 DEF NoTask
    <2>2. CASE q # p
      BY <1>1, <2>2 DEF SessionsInv, LastAwaited
    <2> QED
      BY <2>1, <2>2
  <1>13. RepliesPaired'
    <2> SUFFICES ASSUME NEW q \in Page, NEW i \in DOMAIN shown'[q]
                 PROVE  IF i % 2 = 1
                        THEN /\ shown'[q][i].who = "user"
                             /\ i = Len(shown'[q]) => page'[q].waiting = shown'[q][i].task
                        ELSE /\ shown'[q][i].who # "user"
                             /\ shown'[q][i].task = shown'[q][i - 1].task
      BY DEF RepliesPaired
    <2>1. CASE q = p /\ i \in DOMAIN shown[p]
      <3>1. /\ shown'[p][i] = shown[p][i] /\ i # Len(shown'[p])
            /\ i % 2 # 1 => i - 1 \in DOMAIN shown[p]
        <4>1. i \in 1 .. n /\ n \in Nat
          BY <1>0, <2>1
        <4>2. i % 2 # 1 => i - 1 \in 1 .. n
          <5>1. CASE i = 1
            BY <5>1
          <5>2. CASE i # 1
            BY <4>1, <5>2
          <5> QED
            BY <5>1, <5>2
        <4> QED
          BY <1>0, <1>1, <2>1, <4>1, <4>2
      <3>2. i % 2 # 1 => shown'[p][i - 1] = shown[p][i - 1]
        BY <1>1, <3>1
      <3> QED
        BY <2>1, <3>1, <3>2 DEF SessionsInv, RepliesPaired
    <2>2. CASE q = p /\ i = n + 1
      BY <1>1, <1>11, <2>2 DEF Entry
    <2>3. CASE q # p
      BY <1>1, <2>3 DEF SessionsInv, RepliesPaired
    <2> QED
      BY <1>5, <2>1, <2>2, <2>3
  <1>14. ShownIsLogged'
    <2> SUFFICES ASSUME NEW q \in Page, NEW i \in DOMAIN shown'[q],
                        shown'[q][i].who = "agent", NEW j, j = shown'[q][i].task
                 PROVE  Logged(j, Message(j))' /\ Logged(j, Answer(j))'
      BY ShownAfter
    <2>1. i \in DOMAIN shown[q] /\ shown'[q][i] = shown[q][i]
      BY <1>1, <1>5 DEF Entry
    <2> QED
      BY <1>3, <2>1, QuietKeeps
  <1> QED
    BY <1>4, <1>6, <1>8, <1>10, <1>12, <1>13, <1>14 DEF SessionsInv

\* Sessions and calls are added, and the pages show what they did.
LEMMA AddedKeeps ==
  ASSUME SessionsInv, Shapes', Grows, OnePage', shown' = shown,
         \A p \in Page : /\ page'[p].waiting = page[p].waiting
                         /\ page'[p].session <= Len(session'),
         \A k \in DOMAIN task : task'[k] = task[k],
         \A k \in DOMAIN task' : k \notin DOMAIN task =>
           /\ task'[k].kind = "call" /\ task'[k].phase = "lookup"
           /\ task'[k].session <= Len(session'),
         \A s \in DOMAIN session : session'[s] = session[s],
         \A s \in DOMAIN session' : s \notin DOMAIN session => session'[s].journal = <<>>
  PROVE  SessionsInv'
  <1>0. /\ Shapes /\ NamesExist /\ Quiet
        /\ task \in Seq(TaskRecord) /\ task' \in Seq(TaskRecord)
        /\ session \in Seq(SessionRecord) /\ session' \in Seq(SessionRecord)
        /\ \A p \in Page : shown[p] \in Seq(EntryRecord) /\ page[p] \in PageRecord
    BY DEF SessionsInv, Shapes, Quiet
  <1>1. /\ RunsAreStored' /\ PhasesAreLogged' /\ CreatedByRace' /\ LoggedInTurn'
        /\ \A k \in DOMAIN task : Settled(k) => Settled(k)'
        /\ Len(task) \in Nat /\ Len(task') \in Nat /\ Len(task) <= Len(task')
        /\ Len(session) \in Nat /\ Len(session') \in Nat /\ Len(session) <= Len(session')
    BY <1>0, QuietKeeps, FactsStay
  <1>2. \A k \in DOMAIN task' : IsChat(k)' => k \in DOMAIN task /\ IsChat(k)
    BY DEF IsChat
  <1>3. NamesExist'
    <2>1. \A p \in Page : page'[p].session <= Len(session') /\ page'[p].waiting <= Len(task')
      BY <1>0, <1>1 DEF NamesExist, PageRecord
    <2>2. \A p \in Page : \A i \in DOMAIN shown'[p] : shown'[p][i].task <= Len(task')
      BY <1>0, <1>1, EntryFields DEF NamesExist
    <2>3. ASSUME NEW k \in DOMAIN task'
          PROVE  task'[k].session <= Len(session')
      <3>1. CASE k \in DOMAIN task
        <4>1. task[k].session \in Nat /\ task[k].session <= Len(session)
          BY <1>0, <3>1, TaskFields DEF NamesExist
        <4> QED
          BY <1>1, <3>1, <4>1
      <3> QED
        BY <3>1
    <2> QED
      BY <1>0, <2>1, <2>2, <2>3, QuietKeeps DEF NamesExist
  <1>4. InTurn'
    <2>1. ASSUME NEW k \in DOMAIN task', IsChat(k)'
          PROVE  Settled(k)' \/ \E p \in Page : Waits(p, k)'
      BY <1>1, <1>2, <2>1 DEF SessionsInv, InTurn, Waits
    <2>2. ASSUME NEW j \in DOMAIN task', NEW k \in DOMAIN task', IsChat(j)', IsChat(k)',
                 task'[j].session = task'[k].session, j < k
          PROVE  Settled(j)'
      BY <1>1, <1>2, <2>2 DEF SessionsInv, InTurn
    <2> QED
      BY <2>1, <2>2 DEF InTurn
  <1>5. LastAwaited' /\ RepliesPaired'
    <2>1. LastAwaited'
      BY DEF SessionsInv, LastAwaited, Entry
    <2>2. RepliesPaired'
      BY DEF SessionsInv, RepliesPaired
    <2> QED
      BY <2>1, <2>2
  <1>6. ShownIsLogged'
    <2> SUFFICES ASSUME NEW p \in Page, NEW i \in DOMAIN shown'[p],
                        shown'[p][i].who = "agent", NEW k, k = shown'[p][i].task
                 PROVE  Logged(k, Message(k))' /\ Logged(k, Answer(k))'
      BY ShownAfter
    <2> QED
      BY <1>0, QuietKeeps
  <1> QED
    BY <1>1, <1>3, <1>4, <1>5, <1>6 DEF SessionsInv

\* A call begins.
LEMMA CallKeeps ==
  ASSUME SessionsInv, Offer \/ \E s \in DOMAIN session : OfferTo(s), Shapes', Grows
  PROVE  SessionsInv'
  <1>0. /\ Shapes /\ NamesExist /\ UNCHANGED <<page, shown>>
        /\ task \in Seq(TaskRecord) /\ task' \in Seq(TaskRecord)
        /\ session \in Seq(SessionRecord) /\ session' \in Seq(SessionRecord)
        /\ \A p \in Page : page[p] \in PageRecord
    BY DEF SessionsInv, Shapes, Offer, OfferTo
  <1>1. /\ \A s \in DOMAIN session : session'[s] = session[s]
        /\ \A s \in DOMAIN session' : s \notin DOMAIN session => session'[s].journal = <<>>
        /\ Len(session) <= Len(session')
    <2>1. CASE Offer
      <3>1. /\ Len(session') = Len(session) + 1
            /\ \A s \in DOMAIN session : session'[s] = session[s]
            /\ session'[Len(session) + 1].journal = <<>>
        BY <1>0, <2>1, MintEffect DEF Offer
      <3>2. \A s \in DOMAIN session' : s \notin DOMAIN session => s = Len(session) + 1
        BY <1>0, <3>1
      <3>3. Len(session) <= Len(session')
        BY <1>0, <3>1
      <3> QED
        BY <3>1, <3>2, <3>3
    <2>2. CASE \E s \in DOMAIN session : OfferTo(s)
      BY <1>0, <2>2 DEF OfferTo
    <2> QED
      BY <2>1, <2>2
  <1>2. PICK t \in Nat \ {0} : task' = Append(task, Call(t)) /\ t <= Len(session')
    <2>1. CASE Offer
      <3>1. /\ Len(session) + 1 \in Nat \ {0} /\ Len(session') = Len(session) + 1
            /\ task' = Append(task, Call(Len(session) + 1))
        BY <1>0, <2>1, MintEffect DEF Offer
      <3> QED
        BY <3>1
    <2>2. CASE \E s \in DOMAIN session : OfferTo(s)
      BY <1>0, <2>2 DEF OfferTo
    <2> QED
      BY <2>1, <2>2
  <1>3. /\ Len(task') = Len(task) + 1 /\ task'[Len(task) + 1] = Call(t)
        /\ \A k \in DOMAIN task : task'[k] = task[k]
    BY <1>0, <1>2, CallEffect
  <1>4. \A k \in DOMAIN task' : k \notin DOMAIN task =>
          /\ task'[k].kind = "call" /\ task'[k].phase = "lookup"
          /\ task'[k].session <= Len(session')
    <2>1. \A k \in DOMAIN task' : k \notin DOMAIN task => k = Len(task) + 1
      BY <1>0, <1>3
    <2> QED
      BY <1>2, <1>3, <2>1 DEF Call
  <1>5. \A p \in Page : page'[p].session <= Len(session')
    BY <1>0, <1>1 DEF NamesExist, PageRecord
  <1>6. OnePage'
    <2>1. \A k \in DOMAIN task' : IsChat(k)' => k \in DOMAIN task /\ IsChat(k)
      BY <1>3, <1>4 DEF IsChat
    <2>2. ASSUME NEW p \in Page, page[p].waiting # NoTask, NEW k, k = page[p].waiting
          PROVE  IsChat(k)' /\ task'[k].session = page[p].session
      BY <1>0, <1>3, <2>2, NamesInDomain DEF SessionsInv, OnePage, IsChat
    <2> QED
      BY <1>0, <1>3, <2>1, <2>2 DEF SessionsInv, OnePage, IsChat
  <1> QED
    BY <1>0, <1>1, <1>3, <1>4, <1>5, <1>6, AddedKeeps

\* The page learns its session.
LEMMA CreateKeeps ==
  ASSUME SessionsInv, NEW p \in Page, CreateSession(p), Shapes', Grows
  PROVE  SessionsInv'
  <1> DEFINE m == Len(session) + 1
  <1>0. /\ Shapes /\ NamesExist /\ task' = task /\ shown' = shown
        /\ page \in [Page -> PageRecord] /\ m \in Nat \ {0}
        /\ task \in Seq(TaskRecord) /\ session \in Seq(SessionRecord)
        /\ ~page[p].loaded
    BY DEF SessionsInv, Shapes, CreateSession
  <1>1. /\ page'[p].session = m /\ page'[p].loaded /\ page'[p].waiting = page[p].waiting
        /\ \A q \in Page : q # p => page'[q] = page[q]
    <2>1. page' = [page EXCEPT ![p] = [page[p] EXCEPT !.loaded = TRUE, !.session = m]]
      BY <1>0 DEF CreateSession
    <2> QED
      BY <1>0, <2>1 DEF PageRecord
  <1>2. /\ session' \in Seq(SessionRecord) /\ Len(session') = m
        /\ \A s \in DOMAIN session : session'[s] = session[s]
        /\ session'[m].journal = <<>>
    BY MintEffect DEF SessionsInv, CreateSession
  <1> HIDE DEF m
  <1>3. /\ Len(session) \in Nat /\ m = Len(session) + 1
        /\ \A s \in DOMAIN session' : s \notin DOMAIN session => s = m
    BY <1>0, <1>2 DEF m
  <1>4. page[p].session = 0
    BY <1>0 DEF SessionsInv, OnePage
  <1>5. page[p].waiting = NoTask
    <2> SUFFICES ASSUME page[p].waiting # NoTask
                 PROVE  FALSE
      OBVIOUS
    <2>1. page[p].waiting \in DOMAIN task /\ task[page[p].waiting].session = 0
      BY <1>0, <1>4, NamesInDomain DEF SessionsInv, OnePage
    <2> QED
      BY <1>0, <2>1, TaskFields
  <1>6. \A q \in Page : page[q].session \in Nat /\ page[q].session <= Len(session)
    BY <1>0 DEF NamesExist, PageRecord
  <1>7. OnePage'
    <2>1. ASSUME NEW q \in Page, NEW r \in Page, page'[q].session = page'[r].session
          PROVE  q = r \/ page'[q].session = 0
      <3>1. page[q].session # m /\ page[r].session # m
        BY <1>3, <1>6
      <3>2. CASE q # p /\ r # p
        BY <1>1, <2>1, <3>2 DEF SessionsInv, OnePage
      <3> QED
        BY <1>1, <2>1, <3>1, <3>2
    <2>2. \A q \in Page : page'[q].session # 0 => page'[q].loaded
      BY <1>1 DEF SessionsInv, OnePage
    <2>3. ASSUME NEW q \in Page, page'[q].waiting # NoTask, NEW k, k = page'[q].waiting
          PROVE  IsChat(k)' /\ task'[k].session = page'[q].session
      <3>1. q # p /\ page'[q] = page[q]
        BY <1>1, <1>5, <2>3
      <3> QED
        BY <1>0, <2>3, <3>1 DEF SessionsInv, OnePage, IsChat
    <2>4. ASSUME NEW k \in DOMAIN task', IsChat(k)'
          PROVE  \E q \in Page : page'[q].session = task'[k].session
      <3>1. PICK q \in Page : page[q].session = task[k].session
        BY <1>0, <2>4 DEF SessionsInv, OnePage, IsChat
      <3>2. q # p
        BY <1>0, <1>4, <2>4, <3>1, TaskFields
      <3> QED
        BY <1>0, <1>1, <3>1, <3>2
    <2> QED
      BY <2>1, <2>2, <2>3, <2>4 DEF OnePage, IsChat
  <1>8. \A q \in Page : page'[q].waiting = page[q].waiting /\ page'[q].session <= Len(session')
    BY <1>1, <1>2, <1>3, <1>6
  <1>9. \A s \in DOMAIN session' : s \notin DOMAIN session => session'[s].journal = <<>>
    BY <1>2, <1>3
  <1> QED
    BY <1>0, <1>2, <1>7, <1>8, <1>9, AddedKeeps

LEMMA CreateFailsKeeps ==
  ASSUME SessionsInv, NEW p \in Page, CreateSessionFails(p), Shapes', Grows
  PROVE  SessionsInv'
  <1>0. /\ UNCHANGED <<task, shown, session>> /\ page \in [Page -> PageRecord]
        /\ NamesExist
    BY DEF SessionsInv, Shapes, CreateSessionFails
  <1>1. /\ page'[p].loaded
        /\ \A q \in Page : /\ page'[q].session = page[q].session
                           /\ page'[q].waiting = page[q].waiting
                           /\ q # p => page'[q].loaded = page[q].loaded
    BY <1>0 DEF CreateSessionFails, PageRecord
  <1>2. OnePage'
    BY <1>0, <1>1 DEF SessionsInv, OnePage, IsChat
  <1>3. \A q \in Page : page'[q].waiting = page[q].waiting /\ page'[q].session <= Len(session')
    BY <1>0, <1>1 DEF NamesExist
  <1> QED
    BY <1>0, <1>2, <1>3, AddedKeeps
-----------------------------------------------------------------------------
(* The theorems                                                             *)

LEMMA InitSessions == Init => SessionsInv
  <1> SUFFICES ASSUME Init
               PROVE  SessionsInv
    OBVIOUS
  <1>1. /\ task = <<>> /\ session = <<>> /\ DOMAIN task = {} /\ DOMAIN session = {}
        /\ restarts = 0 /\ Len(task) = 0 /\ Len(session) = 0
    BY DEF Init
  <1>2. \A p \in Page : /\ page[p].session = 0 /\ page[p].waiting = 0 /\ page[p].loaded = FALSE
                        /\ shown[p] = <<>> /\ Len(shown[p]) = 0 /\ DOMAIN shown[p] = {}
    BY DEF Init, NoSession, NoTask
  <1>3. Shapes
    <2>1. /\ task \in Seq(TaskRecord) /\ session \in Seq(SessionRecord) /\ restarts \in Nat
      BY <1>1
    <2>2. page \in [Page -> PageRecord] /\ shown \in [Page -> Seq(EntryRecord)]
      BY DEF Init, PageRecord, NoSession, NoTask
    <2> QED
      BY <2>1, <2>2 DEF Shapes
  <1>4. NamesExist /\ RunsAreStored /\ OnePage /\ InTurn
    BY <1>1, <1>2 DEF NamesExist, RunsAreStored, OnePage, InTurn, NoTask
  <1>5. LastAwaited /\ RepliesPaired
    <2>1. 0 % 2 = 0
      OBVIOUS
    <2>2. LastAwaited
      BY <1>2, <2>1 DEF LastAwaited, NoTask
    <2>3. RepliesPaired
      BY <1>2 DEF RepliesPaired
    <2> QED
      BY <2>2, <2>3
  <1>6. PhasesAreLogged /\ ShownIsLogged /\ CreatedByRace /\ LoggedInTurn
    BY <1>1, <1>2 DEF PhasesAreLogged, ShownIsLogged, CreatedByRace, LoggedInTurn
  <1> QED
    BY <1>3, <1>4, <1>5, <1>6 DEF SessionsInv

\* Nothing happens.
LEMMA StutterKeeps ==
  ASSUME SessionsInv, UNCHANGED vars
  PROVE  SessionsInv'
  <1> USE DEF vars
  <1>1. Shapes' /\ NamesExist' /\ RunsAreStored'
    BY DEF SessionsInv, Shapes, NamesExist, RunsAreStored, InPhase, SessionOf
  <1>2. OnePage' /\ InTurn'
    BY DEF SessionsInv, OnePage, InTurn, Settled, GivenUp, Waits, IsChat, InPhase, Entry
  <1>3. LastAwaited' /\ RepliesPaired'
    BY DEF SessionsInv, LastAwaited, RepliesPaired, Entry
  <1>4. PhasesAreLogged' /\ ShownIsLogged'
    BY DEF SessionsInv, PhasesAreLogged, ShownIsLogged, Logged, InPhase, SessionOf,
           Message, Answer
  <1>5. CreatedByRace' /\ LoggedInTurn'
    BY DEF SessionsInv, CreatedByRace, LoggedInTurn, Raced, GivenUp, IsChat, InPhase,
           SessionOf, Entry
  <1> QED
    BY <1>1, <1>2, <1>3, <1>4, <1>5 DEF SessionsInv

LEMMA NextKeeps == SessionsInv /\ [Next]_vars => SessionsInv'
  <1> SUFFICES ASSUME SessionsInv, [Next]_vars
               PROVE  SessionsInv'
    OBVIOUS
  <1>0. Shapes' /\ Grows
    BY NextGrows DEF SessionsInv
  <1>1. CASE Browser
    BY <1>0, <1>1, SendKeeps, RejectKeeps, CreateKeeps, CreateFailsKeeps DEF Browser
  <1>2. ASSUME NEW k \in DOMAIN task, TaskStep(k)
        PROVE  SessionsInv'
    BY <1>2, TaskStepKeeps
  <1>3. ASSUME NEW k \in DOMAIN task, Respond(k)
        PROVE  SessionsInv'
    BY <1>0, <1>3, RespondKeeps
  <1>4. CASE Caller
    BY <1>0, <1>2, <1>4, CallKeeps DEF Caller, TaskStep
  <1>5. CASE Restart
    BY <1>0, <1>5, RestartKeeps
  <1>6. CASE \E k \in DOMAIN task : Work(k) \/ Fail(k)
    BY <1>2, <1>3, <1>6 DEF Work, TaskStep
  <1>7. CASE UNCHANGED vars
    BY <1>7, StutterKeeps
  <1> QED
    BY <1>1, <1>4, <1>5, <1>6, <1>7 DEF Next, Quiescent

LEMMA SessionsInvHolds == Spec => []SessionsInv
  BY InitSessions, NextKeeps, PTL DEF Spec

\* Whatever a page, a list of messages or a journal names exists, what is under
\* way has its session in the database, and every record has its fields: what
\* main.js, routes.py and bot.py keep about one another is never out of range.
THEOREM TypeCorrect == Spec => []TypeOK
  <1>1. SessionsInv => TypeOK
    <2> SUFFICES ASSUME SessionsInv
                 PROVE  TypeOK
      OBVIOUS
    <2>0. /\ Shapes /\ NamesExist /\ task \in Seq(TaskRecord)
          /\ session \in Seq(SessionRecord)
          /\ page \in [Page -> PageRecord] /\ shown \in [Page -> Seq(EntryRecord)]
          /\ Len(task) \in Nat /\ Len(session) \in Nat
      BY DEF SessionsInv, Shapes
    <2>1. page \in [Page -> [session : 0 .. Len(session), waiting : 0 .. Len(task),
                             loaded : BOOLEAN]]
      <3>1. \A p \in Page : page[p] \in [session : 0 .. Len(session),
                                         waiting : 0 .. Len(task), loaded : BOOLEAN]
        <4> TAKE p \in Page
        <4>1. page[p] \in PageRecord
          BY <2>0
        <4>2. page[p].session <= Len(session) /\ page[p].waiting <= Len(task)
          BY <2>0 DEF NamesExist
        <4> QED
          BY <2>0, <4>1, <4>2 DEF PageRecord
      <3> QED
        BY <2>0, <3>1
    <2>2. \A p \in Page : \A i \in DOMAIN shown[p] :
            shown[p][i] \in [who : {"user", "agent", "fallback", "error"},
                             task : DOMAIN task]
      <3> TAKE p \in Page
      <3> TAKE i \in DOMAIN shown[p]
      <3>1. shown[p][i] \in EntryRecord
        BY <2>0
      <3>2. shown[p][i].task \in DOMAIN task
        BY <2>0, NamesInDomain
      <3> QED
        BY <3>1, <3>2 DEF EntryRecord
    <2>3. \A k \in DOMAIN task :
            task[k] \in [kind : {"chat", "call"}, session : DOMAIN session,
                         phase : {"lookup", "create", "conflict", "failed", "run",
                                  "asked", "answered", "silent", "done"}]
      <3> TAKE k \in DOMAIN task
      <3>1. task[k] \in TaskRecord /\ task[k].session \in DOMAIN session
        BY <2>0, NamesInDomain
      <3> QED
        BY <3>1 DEF TaskRecord
    <2>4. \A s \in DOMAIN session :
            session[s].journal \in Seq([kind : {"user", "model"}, task : DOMAIN task])
      <3> TAKE s \in DOMAIN session
      <3> DEFINE j == session[s].journal
                 E == [kind : {"user", "model"}, task : DOMAIN task]
      <3>1. j \in Seq(EventRecord) /\ \A i \in DOMAIN j : j[i].task \in DOMAIN task
        BY <2>0, JournalFields, NamesInDomain
      <3> HIDE DEF j
      <3>2. \A i \in 1 .. Len(j) : j[i] \in E
        <4> TAKE i \in 1 .. Len(j)
        <4>1. j[i] \in EventRecord /\ j[i].task \in DOMAIN task
          BY <3>1
        <4> QED
          BY <4>1 DEF EventRecord
      <3> HIDE DEF E
      <3>3. j \in Seq(E)
        BY <3>1, <3>2
      <3> QED
        BY <3>3 DEF j, E
    <2> QED
      BY <2>1, <2>2, <2>3, <2>4 DEF TypeOK, SessionsInv, RunsAreStored
  <1> QED
    BY <1>1, SessionsInvHolds, PTL

\* Every message that sendMessage puts on the page is followed by exactly one
\* reply, its own, before the next: a response that comes after the catch block
\* gave its request up never ends up under a later message.
THEOREM RepliesArePaired == Spec => []RepliesPaired
  <1>1. SessionsInv => RepliesPaired
    BY DEF SessionsInv
  <1> QED
    BY <1>1, SessionsInvHolds, PTL

\* What the page shows as said by the agent is in the journal of the ADK database
\* together with the message it answers, however often the server was restarted.
THEOREM ShownInJournal == Spec => []ShownIsLogged
  <1>1. SessionsInv => ShownIsLogged
    BY DEF SessionsInv
  <1> QED
    BY <1>1, SessionsInvHolds, PTL

\* create_session of _ensure_adk_session and run_bot fails only if another task
\* raced for the session, with a call or after the page gave a request up.
THEOREM ConflictNeedsRace == Spec => []ConflictOnlyByRace
  <1>1. SessionsInv => ConflictOnlyByRace
    BY DEF SessionsInv, CreatedByRace, ConflictOnlyByRace, Raced
  <1> QED
    BY <1>1, SessionsInvHolds, PTL

\* The runner's events of two chat requests of a page mix in the journal only if
\* the page gave one of the two up.
THEOREM MixedNeedsError == Spec => []MixedOnlyAfterError
  <1>1. SessionsInv => MixedOnlyAfterError
    <2> SUFFICES ASSUME SessionsInv, NEW s \in DOMAIN session,
                        NEW a \in DOMAIN session[s].journal,
                        NEW b \in DOMAIN session[s].journal,
                        NEW c \in DOMAIN session[s].journal, a < b, b < c,
                        NEW u, u = session[s].journal[a].task,
                        session[s].journal[c].task = u,
                        NEW v, v = session[s].journal[b].task,
                        v # u, IsChat(u), IsChat(v)
                 PROVE  GivenUp(u) \/ GivenUp(v)
      BY DEF MixedOnlyAfterError, IsChat
    <2>1. u \in Nat /\ v \in Nat
      BY JournalFields DEF SessionsInv, Shapes
    <2>2. CASE v < u
      BY <2>2 DEF SessionsInv, LoggedInTurn
    <2>3. CASE u < v
      BY <2>3 DEF SessionsInv, LoggedInTurn
    <2> QED
      BY <2>1, <2>2, <2>3
  <1> QED
    BY <1>1, SessionsInvHolds, PTL

=============================================================================
