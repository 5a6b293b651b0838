----------------------------- MODULE AgentSessions -----------------------------
(***************************************************************************)
(* The voice agent application: the dashboard page (main.js), the server's *)
(* routes (routes.py) and the tasks that work for them (bot.py), around    *)
(* two stores of sessions: active_sessions, which a restart of the server  *)
(* empties, and the ADK database, which it does not.                       *)
(*                                                                         *)
(* A task is a chat request or a call.  Both look their ADK session up and *)
(* create it if it is missing, in two awaits, and then let the runner log  *)
(* messages and answers in its journal.  The database and the runner are   *)
(* not in the repository: their actions are what the code relies on.       *)
(***************************************************************************)
EXTENDS Naturals, Sequences, FiniteSets

CONSTANTS
  Page,         \* dashboard pages that are open
  MaxTasks,     \* chat requests and calls (a bound for model checking)
  MaxCallTurns, \* things said in one call (a bound)
  MaxRestarts   \* restarts of the server (a bound)

ASSUME SessionsAssumption ==
  MaxTasks \in Nat /\ MaxCallTurns \in Nat /\ MaxRestarts \in Nat

VARIABLES
  page,      \* page[p]: its session id, and the request sendMessage waits for
  shown,     \* shown[p]: the messages the page shows
  task,      \* the chat requests and calls begun so far
  session,   \* session[s]: what there is under the s-th session id minted
  restarts   \* restarts of the server so far

vars == <<page, shown, task, session, restarts>>

-----------------------------------------------------------------------------
NoSession == 0
NoTask    == 0
Chat(s) == [kind |-> "chat", session |-> s, phase |-> "lookup"]
Call(s) == [kind |-> "call", session |-> s, phase |-> "lookup"]

\* A session id just minted: /start notes it as active, /api/offer does not.
NewSession(active) == [active |-> active, stored |-> FALSE, journal |-> <<>>]

Message(k) == [kind |-> "user", task |-> k]
Answer(k)  == [kind |-> "model", task |-> k]

Entry(who, k) == [who |-> who, task |-> k]

InPhase(k, phases) == task[k].phase \in phases
SessionOf(k)       == session[task[k].session]
Becomes(k, phase)  == task' = [task EXCEPT ![k].phase = phase]

Init ==
  /\ page = [p \in Page |-> [session |-> NoSession, waiting |-> NoTask,
                             loaded |-> FALSE]]
  /\ shown = [p \in Page |-> <<>>]
  /\ task = <<>> /\ session = <<>> /\ restarts = 0

-----------------------------------------------------------------------------
(* The page                                                                 *)

\* createSession: /start mints an id and the page learns it.
CreateSession(p) ==
  /\ ~page[p].loaded
  /\ session' = Append(session, NewSession(TRUE))
  /\ page' = [page EXCEPT ![p].loaded = TRUE, ![p].session = Len(session) + 1]
  /\ UNCHANGED <<shown, task, restarts>>

\* The request fails: the page never enables its button.
CreateSessionFails(p) ==
  /\ ~page[p].loaded
  /\ page' = [page EXCEPT ![p].loaded = TRUE]
  /\ UNCHANGED <<shown, task, session, restarts>>

\* The button is enabled once the session is known, and disabled while a request
\* is under way.  (The operators *_M are what a bug would make of the
\* definition that follows them.)
CanSend_M(p) == page[p].session # NoSession
CanSend(p)   == page[p].session # NoSession /\ page[p].waiting = NoTask

\* sendMessage up to its fetch, and the chat route up to its first await.
SendMessage(p) ==
  /\ CanSend(p) /\ Len(task) < MaxTasks
  /\ task' = Append(task, Chat(page[p].session))
  /\ page' = [page EXCEPT ![p].waiting = Len(task) + 1]
  /\ shown' = [shown EXCEPT ![p] = Append(@, Entry("user", Len(task) + 1))]
  /\ UNCHANGED <<session, restarts>>

\* What sendMessage's catch block leaves in the list of messages.
Apology_M1(p) == <<>>
Apology_M2(p) == <<Entry("fallback", page[p].waiting)>>
Apology(p)    == <<Entry("error", page[p].waiting)>>

\* The catch and finally blocks, in the pages ps whose fetch was rejected.
GiveUp(ps) ==
  /\ page' = [p \in Page |->
                IF p \in ps THEN [page[p] EXCEPT !.waiting = NoTask] ELSE page[p]]
  /\ shown' = [p \in Page |->
                 IF p \in ps THEN shown[p] \o Apology(p) ELSE shown[p]]

\* The connection to the server is lost while the request is under way: the
\* page is told, the request is not.  (One lost on its way to the server is a
\* task that then fails.)
FetchRejected(p) ==
  /\ page[p].waiting # NoTask
  /\ GiveUp({p})
  /\ UNCHANGED <<task, session, restarts>>

-----------------------------------------------------------------------------
(* The routes for calls                                                     *)

\* proxy_session for an offer: a call begins, or the id is not active: 404.
OfferTo(s) ==
  /\ session[s].active /\ Len(task) < MaxTasks
  /\ task' = Append(task, Call(s))
  /\ UNCHANGED <<page, shown, session, restarts>>

\* /api/offer: the call gets an id of its own.
Offer ==
  /\ Len(task) < MaxTasks
  /\ session' = Append(session, NewSession(FALSE))
  /\ task' = Append(task, Call(Len(session) + 1))
  /\ UNCHANGED <<page, shown, restarts>>

-----------------------------------------------------------------------------
(* _ensure_adk_session, and the same in run_bot                             *)

\* Does get_session find nothing?
Missing_M1(k) == TRUE
Missing_M2(k) == FALSE
Missing(k)    == ~SessionOf(k).stored

GetSession(k) ==
  /\ InPhase(k, {"lookup"})
  /\ Becomes(k, IF Missing(k) THEN "create" ELSE "run")
  /\ UNCHANGED <<page, shown, session, restarts>>

\* create_session; the database raises if the session exists by now.
CreateStored(k) ==
  /\ InPhase(k, {"create"})
  /\ IF SessionOf(k).stored
     THEN Becomes(k, "conflict") /\ session' = session
     ELSE /\ Becomes(k, "run")
          /\ session' = [session EXCEPT ![task[k].session].stored = TRUE]
  /\ UNCHANGED <<page, shown, restarts>>

\* The settings are refused, the database or the LLM fails.
Fail(k) ==
  /\ InPhase(k, {"lookup", "create", "run", "asked", "answered"})
  /\ Becomes(k, "failed")
  /\ UNCHANGED <<page, shown, session, restarts>>

-----------------------------------------------------------------------------
(* The runner                                                               *)

Log(k, event) ==
  session' = [session EXCEPT ![task[k].session].journal = Append(@, event)]

Said(k) == {i \in DOMAIN SessionOf(k).journal : SessionOf(k).journal[i] = Message(k)}

\* run_async logs the new message: the request's, or what the caller said.
LogMessage(k) ==
  /\ InPhase(k, {"run"})
  /\ task[k].kind = "call" => Cardinality(Said(k)) < MaxCallTurns
  /\ Becomes(k, "asked")
  /\ Log(k, Message(k))
  /\ UNCHANGED <<page, shown, restarts>>

\* The answer is logged; a call goes on.
LogAnswer(k) ==
  /\ InPhase(k, {"asked"})
  /\ Becomes(k, IF task[k].kind = "chat" THEN "answered" ELSE "run")
  /\ Log(k, Answer(k))
  /\ UNCHANGED <<page, shown, restarts>>

\* No text comes of it: the LLM is silent, or the caller interrupts.
NoAnswer(k) ==
  /\ InPhase(k, {"asked"})
  /\ Becomes(k, IF task[k].kind = "chat" THEN "silent" ELSE "run")
  /\ UNCHANGED <<page, shown, session, restarts>>

\* The caller leaves: on_client_disconnected cancels the pipeline.
HangUp(k) ==
  /\ task[k].kind = "call" /\ InPhase(k, {"run", "asked"})
  /\ Becomes(k, "done")
  /\ UNCHANGED <<page, shown, session, restarts>>

\* What the page shows for a response of the chat route, by how it came about.
ShownFor_M == [answered |-> "agent"]
ShownFor ==
  [answered |-> "agent", silent |-> "fallback", failed |-> "error",
   conflict |-> "error"]

\* The chat route responds; the page may have given up waiting.
Respond(k) ==
  /\ task[k].kind = "chat" /\ InPhase(k, DOMAIN ShownFor)
  /\ Becomes(k, "done")
  /\ LET ps == {p \in Page : page[p].waiting = k}
     IN  /\ page' = [p \in Page |-> IF p \in ps
                                    THEN [page[p] EXCEPT !.waiting = NoTask]
                                    ELSE page[p]]
         /\ shown' = [p \in Page |-> IF p \in ps
                       THEN Append(shown[p], Entry(ShownFor[task[k].phase], k))
                       ELSE shown[p]]
  /\ UNCHANGED <<session, restarts>>

\* What a restart leaves of a session.
Restarted_M(s) == [s EXCEPT !.active = FALSE, !.stored = FALSE, !.journal = <<>>]
Restarted(s)   == [s EXCEPT !.active = FALSE]

\* The server dies and is started again: its tasks and its connections end.
Restart ==
  /\ restarts < MaxRestarts
  /\ restarts' = restarts + 1
  /\ task' = [k \in DOMAIN task |-> [task[k] EXCEPT !.phase = "done"]]
  /\ session' = [s \in DOMAIN session |-> Restarted(session[s])]
  /\ GiveUp({p \in Page : page[p].waiting # NoTask})

-----------------------------------------------------------------------------
Work(k) == GetSession(k) \/ CreateStored(k) \/ LogMessage(k) \/ LogAnswer(k)
             \/ NoAnswer(k) \/ Respond(k)

Browser ==
  \E p \in Page : CreateSession(p) \/ CreateSessionFails(p) \/ SendMessage(p)
                    \/ FetchRejected(p)

Caller == Offer \/ \E s \in DOMAIN session : OfferTo(s)
            \/ \E k \in DOMAIN task : HangUp(k)

\* Everybody has done what the bounds allow.
Quiescent ==
  /\ \A p \in Page : page[p].loaded /\ page[p].waiting = NoTask
  /\ \A k \in DOMAIN task : InPhase(k, {"conflict", "failed", "done"})
  /\ UNCHANGED vars

Next == \/ Browser \/ Caller \/ Restart
        \/ \E k \in DOMAIN task : Work(k) \/ Fail(k)
        \/ Quiescent

\* The server's event loop runs every task, and the runner's answer comes or
\* fails to.  Nothing is assumed of pages, callers, failures and restarts.
Spec == Init /\ [][Next]_vars
          /\ \A k \in 1 .. MaxTasks : WF_vars(k \in DOMAIN task /\ Work(k))

-----------------------------------------------------------------------------
(* Properties                                                               *)

TypeOK ==
  /\ page \in [Page -> [session : 0 .. Len(session), waiting : 0 .. Len(task),
                        loaded : BOOLEAN]]
  /\ \A p \in Page : \A i \in DOMAIN shown[p] :
       shown[p][i] \in [who : {"user", "agent", "fallback", "error"},
                        task : DOMAIN task]
  /\ \A k \in DOMAIN task :
       /\ task[k] \in [kind : {"chat", "call"}, session : DOMAIN session,
                       phase : {"lookup", "create", "conflict", "failed", "run",
                                "asked", "answered", "silent", "done"}]
       /\ InPhase(k, {"run", "asked", "answered", "silent"}) => SessionOf(k).stored
  /\ \A s \in DOMAIN session :
       session[s].journal \in Seq([kind : {"user", "model"}, task : DOMAIN task])

Logged(k, event) ==
  \E i \in DOMAIN SessionOf(k).journal : SessionOf(k).journal[i] = event

\* The page gave up on request k: it showed an error in its place.
GivenUp(k) ==
  \E p \in Page : \E i \in DOMAIN shown[p] : shown[p][i] = Entry("error", k)

\* Every message on the page is followed by exactly one reply, its own, before
\* the next: a late response to a request the page has given up, by then
\* followed by another, never ends up under the wrong message.
RepliesPaired ==
  \A p \in Page : \A i \in DOMAIN shown[p] :
    IF i % 2 = 1
    THEN /\ shown[p][i].who = "user"
         /\ i = Len(shown[p]) => page[p].waiting = shown[p][i].task
    ELSE shown[p][i].who # "user" /\ shown[p][i].task = shown[p][i - 1].task

\* What the page showed as said is in the conversation the LLM will be given:
\* message and answer are in the journal, whatever was restarted since.
ShownIsLogged ==
  \A p \in Page : \A i \in DOMAIN shown[p] :
    shown[p][i].who = "agent" =>
      Logged(shown[p][i].task, Message(shown[p][i].task))
        /\ Logged(shown[p][i].task, Answer(shown[p][i].task))

\* In a page's conversation another request's message or answer comes between a
\* message and its answer only if the page gave one of the two up: the server
\* goes on with a request whose connection is lost while the user asks again.
MixedOnlyAfterError ==
  \A s \in DOMAIN session :
    LET j == session[s].journal
    IN  \A a, b, c \in DOMAIN j :
          (/\ a < b /\ b < c
           /\ j[a].task = j[c].task /\ j[b].task # j[a].task
           /\ task[j[a].task].kind = "chat" /\ task[j[b].task].kind = "chat")
          => GivenUp(j[a].task) \/ GivenUp(j[b].task)

\* Creating a session fails only if another task raced for it, and that takes a
\* call, or a request the page gave up: a page by itself never races for its
\* session, and coming back to a conversation never creates it again.
ConflictOnlyByRace ==
  \A k \in DOMAIN task : InPhase(k, {"conflict"}) =>
    \E j \in DOMAIN task \ {k} :
      /\ task[j].session = task[k].session
      /\ "call" \in {task[j].kind, task[k].kind} \/ GivenUp(j) \/ GivenUp(k)

\* The page is never left "Thinking...": every request comes to an end for it,
\* by an answer, an error response or a lost connection.
Answered ==
  \A p \in Page : page[p].waiting # NoTask ~> page[p].waiting = NoTask

=============================================================================
