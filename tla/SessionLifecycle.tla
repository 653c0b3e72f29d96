-------------------------- MODULE SessionLifecycle --------------------------
(***************************************************************************)
(* The life of the server's client sessions: CLoggerInterface's session    *)
(* map and its mutex (ServerLib/LoggerIf.cpp) and CSession with its        *)
(* expiration thread and destructor (ServerLib/Session.cpp).               *)
(*                                                                         *)
(* Three kinds of threads act: HTTP workers, which run the request         *)
(* handlers; one expiration thread per session; and the main thread, which *)
(* runs Shutdown.  A thread is identified by its worker, by its session    *)
(* id, or by Main.  Each has a program counter pc and the session cur it   *)
(* works on; one action is what a thread does between two points where     *)
(* another thread can interfere.                                           *)
(*                                                                         *)
(* Time.  The unit is one decrement of CSession::m_nRemainingS (one per    *)
(* Sleep(1000)).  decs[w] counts the decrements of the session since       *)
(* worker w's request refreshed it; as a poll waits at most                *)
(* ABK_LONGPOLL_MAXRESPONSE_MS, a request is answered within RequestTicks  *)
(* decrements, and an expiration thread does not run ahead of that; once   *)
(* it has been told to stop it makes one more decrement at most.           *)
(***************************************************************************)
EXTENDS Integers, FiniteSets

CONSTANTS
    Workers,          \* the threads of the HTTP server
    Main,             \* the thread that calls CLoggerInterface::Shutdown
    NoThread,         \* owner of a free mutex
    MaxSession,       \* bound: sessions created in a behaviour
    Lifetime,         \* ABK_SESSION_LIFETIME, in decrements
    RequestTicks,     \* most decrements during one request
    LateRequests,     \* may a request name a session whose lifetime is over?
    OverlappingPolls, \* may a client poll again before its poll is answered?
    CallbackFires,    \* does OnSessionEventPollEstablished fire an event?
    ShutdownPossible  \* may Shutdown run while the server is serving?

Sessions == 1..MaxSession \* ids count up from ABK_SESSION_ID_FIRST
Threads == Workers \cup {Main}
Agents == Threads \cup Sessions

ASSUME SessionAssumption ==
    /\ MaxSession \in Nat
    /\ Lifetime \in Nat /\ RequestTicks \in Nat
    /\ RequestTicks + 1 < Lifetime \* 2 s of long polling against 120 s
    /\ Main \notin Workers
    /\ NoThread \notin Agents
    /\ Threads \cap Sessions = {}
    /\ 0 \notin Agents
    /\ LateRequests \in BOOLEAN /\ OverlappingPolls \in BOOLEAN
    /\ CallbackFires \in BOOLEAN /\ ShutdownPossible \in BOOLEAN

VARIABLES
    listOwner,   \* owner of m_mutexSessionList
    registered,  \* the keys of m_mapSessions
    nextId,      \* m_nNextSessionId
    heap,        \* heap[s]: is the CSession allocated ("none","live","freed")
    sessOwner,   \* sessOwner[s]: owner of CSession::m_mutex
    remaining,   \* CSession::m_nRemainingS
    inProgress,  \* CSession::m_bRequestInProgress
    firstPoll,   \* CSession::m_bFirstPoll
    stop,        \* CSession::m_eventSleep is set
    expRunning,  \* CSession::m_bExpThreadInProgress
    notified,    \* notified[s]: calls of OnSessionEventPollEstablished
    known,       \* ids a client has been told
    pc, cur,     \* of each agent
    decs         \* decs[w]: decrements since w's request refreshed cur[w]

vars == <<listOwner, registered, nextId, heap, sessOwner, remaining,
          inProgress, firstPoll, stop, expRunning, notified, known, pc, cur,
          decs>>

locks == <<listOwner, sessOwner>>
registry == <<registered, nextId, known>>
sessionFlags == <<inProgress, firstPoll, stop, expRunning>>
history == <<notified>>

-----------------------------------------------------------------------------
(* Program counters *)

PollPcs == {"pollFirst", "pollFirstYes", "pollFirstNo", "pollNotify",
            "pollWait", "pollLock", "pollFormat"}
RequestPcs == PollPcs \cup {"postConnect", "pollUnlock", "deleteTry"}
DtorPcs == {"dtorUnregister", "dtorFree"}
WorkerPcs == RequestPcs \cup DtorPcs \cup {"idle", "postLost"}
MainPcs == {"running", "shutdownLoop", "deleteTry", "shutdownWait",
            "shutdownOk", "shutdownFailed"} \cup DtorPcs
ExpPcs == {"none", "tick", "sleep", "exit", "expired", "done"} \cup DtorPcs
Pcs == WorkerPcs \cup MainPcs \cup ExpPcs

\* Worker w is in the middle of a request on session s.
InRequest(w, s) == cur[w] = s /\ pc[w] \in RequestPcs

\* Worker w polls session s and has not yet cleared m_bRequestInProgress, the
\* flag that keeps s alive; "pollUnlock" comes after that.
Polling(w, s) == cur[w] = s /\ pc[w] \in PollPcs

Goto(t, label) == pc' = [pc EXCEPT ![t] = label]

-----------------------------------------------------------------------------
Init ==
    /\ listOwner = NoThread
    /\ registered = {}
    /\ nextId = 1
    /\ heap = [s \in Sessions |-> "none"]
    /\ sessOwner = [s \in Sessions |-> NoThread]
    /\ remaining = [s \in Sessions |-> Lifetime]
    /\ inProgress = [s \in Sessions |-> FALSE]
    /\ firstPoll = [s \in Sessions |-> TRUE]
    /\ stop = [s \in Sessions |-> FALSE]
    /\ expRunning = [s \in Sessions |-> FALSE]
    /\ notified = [s \in Sessions |-> 0]
    /\ known = {}
    /\ pc = [t \in Agents |-> IF t \in Workers THEN "idle"
                              ELSE IF t = Main THEN "running" ELSE "none"]
    /\ cur = [t \in Agents |-> IF t \in Sessions THEN t ELSE 0]
    /\ decs = [w \in Workers |-> 0]

-----------------------------------------------------------------------------
(* Requests.  A handler that looks a session up takes m_mutexSessionList   *)
(* first; GetSession then refreshes the session under its own mutex.  A    *)
(* request naming a session that is not in the map is answered 400 and     *)
(* changes nothing.                                                        *)

\* The environment: clients name ids they were told, and, unless
\* LateRequests, before the lifetime of the session is over.
Arrives(w, s) ==
    /\ pc[w] = "idle"
    /\ s \in known
    /\ LateRequests \/ remaining[s] > 0

\* Mutant of GetSession: the session is not refreshed.
GetSessionStale(s) ==
    /\ s \in registered
    /\ sessOwner[s] = NoThread
    /\ UNCHANGED remaining

\* GetSession: the lookup under the list mutex, with its Refresh().
GetSession(s) ==
    /\ s \in registered
    /\ sessOwner[s] = NoThread
    /\ remaining' = [remaining EXCEPT ![s] = Lifetime]

\* POST /session, first half: GenerateSession constructs the session, starts
\* its expiration thread and inserts it, all under the list mutex.
PostSession(w) ==
    /\ pc[w] = "idle"
    /\ listOwner = NoThread
    /\ nextId <= MaxSession
    /\ heap' = [heap EXCEPT ![nextId] = "live"]
    /\ remaining' = [remaining EXCEPT ![nextId] = Lifetime]
    /\ inProgress' = [inProgress EXCEPT ![nextId] = FALSE]
    /\ firstPoll' = [firstPoll EXCEPT ![nextId] = TRUE]
    /\ expRunning' = [expRunning EXCEPT ![nextId] = TRUE]
    /\ registered' = registered \cup {nextId}
    /\ nextId' = nextId + 1
    /\ pc' = [pc EXCEPT ![w] = "postConnect", ![nextId] = "tick"]
    /\ cur' = [cur EXCEPT ![w] = nextId]
    /\ decs' = [decs EXCEPT ![w] = 0]
    /\ UNCHANGED <<locks, stop, notified, known>>

\* POST /session, second half, after OnClientConnected has returned: the
\* session is looked up again and its id is sent.
PostReply(w) ==
    /\ pc[w] = "postConnect"
    /\ listOwner = NoThread
    /\ \/ /\ GetSession(cur[w])
          /\ known' = known \cup {cur[w]}
          /\ Goto(w, "idle")
       \/ /\ cur[w] \notin registered
          /\ Goto(w, "postLost")
          /\ UNCHANGED <<remaining, known>>
    /\ UNCHANGED <<locks, registered, nextId, heap, sessionFlags, history, cur,
                   decs>>

\* Without the assertion the id of the vanished session is sent all the same.
PostLostReply(w) ==
    /\ pc[w] = "postLost"
    /\ known' = known \cup {cur[w]}
    /\ Goto(w, "idle")
    /\ UNCHANGED <<locks, registered, nextId, heap, remaining, sessionFlags,
                   history, cur, decs>>

\* A request that keeps the list mutex from its lookup to its end (the DAQ
\* list and trend handlers, a private client event): here only its Refresh.
ShortRequest(w, s) ==
    /\ Arrives(w, s)
    /\ listOwner = NoThread
    /\ GetSession(s)
    /\ UNCHANGED <<locks, registry, heap, sessionFlags, history, pc, cur,
                   decs>>

\* GET /event: lookup, raise m_bRequestInProgress, release the list mutex.
PollBegin(w, s) ==
    /\ Arrives(w, s)
    /\ OverlappingPolls \/ \A v \in Workers : ~InRequest(v, s)
    /\ listOwner = NoThread
    /\ GetSession(s)
    /\ inProgress' = [inProgress EXCEPT ![s] = TRUE]
    /\ Goto(w, "pollFirst")
    /\ cur' = [cur EXCEPT ![w] = s]
    /\ decs' = [decs EXCEPT ![w] = 0]
    /\ UNCHANGED <<locks, registry, heap, firstPoll, stop, expRunning,
                   history>>

\* IsFirstPoll() reads m_bFirstPoll and clears it without a lock.
PollFirstRead(w) ==
    /\ pc[w] = "pollFirst"
    /\ Goto(w, IF firstPoll[cur[w]] THEN "pollFirstYes" ELSE "pollFirstNo")
    /\ UNCHANGED <<locks, registry, heap, remaining, sessionFlags, history,
                   cur, decs>>

PollFirstClear(w) ==
    /\ pc[w] \in {"pollFirstYes", "pollFirstNo"}
    /\ firstPoll' = [firstPoll EXCEPT ![cur[w]] = FALSE]
    /\ Goto(w, IF pc[w] = "pollFirstYes" THEN "pollNotify" ELSE "pollWait")
    /\ UNCHANGED <<locks, registry, heap, remaining, inProgress, stop,
                   expRunning, history, cur, decs>>

\* The OnSessionEventPollEstablished callback.  An application that fires an
\* event from it needs the list mutex (FireEventToAllClients).
PollNotify(w) ==
    /\ pc[w] = "pollNotify"
    /\ CallbackFires => listOwner = NoThread
    /\ notified' = [notified EXCEPT ![cur[w]] = @ + 1]
    /\ Goto(w, "pollWait")
    /\ UNCHANGED <<locks, registry, heap, remaining, sessionFlags, cur, decs>>

\* WaitEvent returns, by an event or by its timeout; both go on alike.
PollWait(w) ==
    /\ pc[w] = "pollWait"
    /\ Goto(w, "pollLock")
    /\ UNCHANGED <<locks, registry, heap, remaining, sessionFlags, history,
                   cur, decs>>

\* The session is locked and the answer is formatted.
PollLock(w) ==
    /\ pc[w] = "pollLock"
    /\ sessOwner[cur[w]] = NoThread
    /\ sessOwner' = [sessOwner EXCEPT ![cur[w]] = w]
    /\ Goto(w, "pollFormat")
    /\ UNCHANGED <<listOwner, registry, heap, remaining, sessionFlags, history,
                   cur, decs>>

\* The flag falls first ...
PollClear(w) ==
    /\ pc[w] = "pollFormat"
    /\ inProgress' = [inProgress EXCEPT ![cur[w]] = FALSE]
    /\ Goto(w, "pollUnlock")
    /\ UNCHANGED <<locks, registry, heap, remaining, firstPoll, stop,
                   expRunning, history, cur, decs>>

\* ... and then the session's mutex is released.
PollUnlock(w) ==
    /\ pc[w] = "pollUnlock"
    /\ sessOwner' = [sessOwner EXCEPT ![cur[w]] = NoThread]
    /\ Goto(w, "idle")
    /\ UNCHANGED <<listOwner, registry, heap, remaining, sessionFlags, history,
                   cur, decs>>

\* DELETE /session: the list mutex is kept until the handler returns.
DeleteBegin(w, s) ==
    /\ Arrives(w, s)
    /\ listOwner = NoThread
    /\ GetSession(s)
    /\ listOwner' = w
    /\ Goto(w, "deleteTry")
    /\ cur' = [cur EXCEPT ![w] = s]
    /\ decs' = [decs EXCEPT ![w] = 0]
    /\ UNCHANGED <<sessOwner, registry, heap, sessionFlags, history>>

-----------------------------------------------------------------------------
(* DeleteSession and the destructor, run by workers, by Main and, for the  *)
(* destructor, by the expiration thread of the session itself.             *)

\* Mutant of RequestOver: a request in progress is not waited for.
RequestOverUnchecked(s) == TRUE

\* What DeleteSession and its callers wait for.
RequestOver(s) == ~inProgress[s]

\* DeleteSession(pSession): as soon as no request is in progress the object
\* is deleted; ~CSession first tells the expiration thread to stop.  Until
\* then each retry fires the session's event (which ends a poll's wait) and
\* sleeps, which changes nothing here.
DeleteTry(t) ==
    /\ pc[t] = "deleteTry"
    /\ RequestOver(cur[t])
    /\ stop' = [stop EXCEPT ![cur[t]] = TRUE]
    /\ Goto(t, "dtorUnregister")
    /\ UNCHANGED <<locks, registry, heap, remaining, inProgress, firstPoll,
                   expRunning, history, cur, decs>>

\* Mutant of ListAvailable: the mutex is not recursive.
ListAvailableOnce(t) == listOwner = NoThread

\* CAbkMutex is recursive.
ListAvailable(t) == listOwner \in {NoThread, t}

\* Mutant of DtorUnregister: the session stays in the map.
DtorUnregisterForgets(t) ==
    /\ pc[t] = "dtorUnregister"
    /\ ListAvailable(t)
    /\ Goto(t, "dtorFree")
    /\ UNCHANGED <<locks, registry, heap, remaining, sessionFlags, history,
                   cur, decs>>

\* ~CSession leaves the map under the list mutex, which a handler owns
\* already and the expiration thread waits for.
DtorUnregister(t) ==
    /\ pc[t] = "dtorUnregister"
    /\ ListAvailable(t)
    /\ registered' = registered \ {cur[t]}
    /\ Goto(t, "dtorFree")
    /\ UNCHANGED <<locks, nextId, known, heap, remaining, sessionFlags,
                   history, cur, decs>>

\* Mutant of ThreadGone: the expiration thread is not waited for.
ThreadGoneUnchecked(s) == TRUE

\* What ~CSession waits for.
ThreadGone(s) == ~expRunning[s]

\* ~CSession waits for the expiration thread, deletes the DAQs and releases
\* the memory; the caller then carries on.
DtorFree(t) ==
    /\ pc[t] = "dtorFree"
    /\ ThreadGone(cur[t])
    /\ heap' = [heap EXCEPT ![cur[t]] = "freed"]
    /\ Goto(t, IF t \in Workers THEN "idle"
               ELSE IF t = Main THEN "shutdownLoop" ELSE "done")
    /\ listOwner' = IF t \in Workers THEN NoThread ELSE listOwner
    /\ UNCHANGED <<sessOwner, registry, remaining, sessionFlags, history, cur,
                   decs>>

-----------------------------------------------------------------------------
(* MaintainExpirationThread *)

\* The decrement that ends the lifetime.
LastDecrement(s) == remaining[s] = 1

\* One decrement, under the session's mutex.
ExpTick(s) ==
    /\ pc[s] = "tick"
    /\ sessOwner[s] = NoThread
    /\ stop[s] \/ \A w \in Workers : InRequest(w, s) => decs[w] < RequestTicks
    /\ remaining' = [remaining EXCEPT ![s] = @ - 1]
    /\ decs' = [w \in Workers |-> IF InRequest(w, s) THEN decs[w] + 1
                                                     ELSE decs[w]]
    /\ Goto(s, IF LastDecrement(s) THEN "expired"
               ELSE IF stop[s] THEN "exit" ELSE "sleep")
    /\ UNCHANGED <<locks, registry, heap, sessionFlags, history, cur>>

\* Sleep(1000) times out, possibly at the moment the event is set.
ExpTimeout(s) ==
    /\ pc[s] = "sleep"
    /\ Goto(s, "tick")
    /\ UNCHANGED <<locks, registry, heap, remaining, sessionFlags, history,
                   cur, decs>>

\* Mutant of ExpExit: the thread leaves without a word.
ExpExitSilent(s) ==
    /\ pc[s] = "exit" \/ (pc[s] = "sleep" /\ stop[s])
    /\ Goto(s, "done")
    /\ UNCHANGED <<locks, registry, heap, remaining, sessionFlags, history,
                   cur, decs>>

\* Sleep() was interrupted: the thread reports that it is gone.
ExpExit(s) ==
    /\ pc[s] = "exit" \/ (pc[s] = "sleep" /\ stop[s])
    /\ expRunning' = [expRunning EXCEPT ![s] = FALSE]
    /\ Goto(s, "done")
    /\ UNCHANGED <<locks, registry, heap, remaining, inProgress, firstPoll,
                   stop, history, cur, decs>>

\* Mutant of ExpExpire: m_bExpThreadInProgress is still up during delete.
ExpExpireInProgress(s) ==
    /\ pc[s] = "expired"
    /\ stop' = [stop EXCEPT ![s] = TRUE]
    /\ Goto(s, "dtorUnregister")
    /\ UNCHANGED <<locks, registry, heap, remaining, inProgress, firstPoll,
                   expRunning, history, cur, decs>>

\* The lifetime is over: the thread reports that it is gone, then deletes
\* the session, whose destructor sets the sleep event.
ExpExpire(s) ==
    /\ pc[s] = "expired"
    /\ expRunning' = [expRunning EXCEPT ![s] = FALSE]
    /\ stop' = [stop EXCEPT ![s] = TRUE]
    /\ Goto(s, "dtorUnregister")
    /\ UNCHANGED <<locks, registry, heap, remaining, inProgress, firstPoll,
                   history, cur, decs>>

-----------------------------------------------------------------------------
(* Shutdown *)

ShutdownBegin ==
    /\ ShutdownPossible
    /\ pc[Main] = "running"
    /\ listOwner = NoThread
    /\ listOwner' = Main
    /\ Goto(Main, "shutdownLoop")
    /\ UNCHANGED <<sessOwner, registry, heap, remaining, sessionFlags, history,
                   cur, decs>>

\* DeleteAllSessions: the first session of the map, or the end of the loop.
\* Nothing refreshes the session here.
ShutdownLoop ==
    /\ pc[Main] = "shutdownLoop"
    /\ \/ /\ registered = {}
          /\ listOwner' = NoThread
          /\ Goto(Main, "shutdownWait")
          /\ UNCHANGED cur
       \/ \E s \in registered :
            /\ \A r \in registered : s <= r
            /\ cur' = [cur EXCEPT ![Main] = s]
            /\ Goto(Main, "deleteTry")
            /\ UNCHANGED listOwner
    /\ UNCHANGED <<sessOwner, registry, heap, remaining, sessionFlags, history,
                   decs>>

\* DeleteSession returns false after 20 retries with a request in progress;
\* DeleteAllSessions and Shutdown give up.
ShutdownGiveUp ==
    /\ pc[Main] = "deleteTry"
    /\ ~RequestOver(cur[Main])
    /\ listOwner' = NoThread
    /\ Goto(Main, "shutdownFailed")
    /\ UNCHANGED <<sessOwner, registry, heap, remaining, sessionFlags, history,
                   cur, decs>>

\* Shutdown polls for an empty map for SHUTDOWN_TIMEOUT.
ShutdownWait ==
    /\ pc[Main] = "shutdownWait"
    /\ listOwner = NoThread
    /\ Goto(Main, IF registered = {} THEN "shutdownOk" ELSE "shutdownFailed")
    /\ UNCHANGED <<locks, registry, heap, remaining, sessionFlags, history,
                   cur, decs>>

-----------------------------------------------------------------------------
\* What a worker does without a new request, and what it may start.
WorkerStep(w) ==
    \/ PostReply(w) \/ PostLostReply(w)
    \/ PollFirstRead(w) \/ PollFirstClear(w) \/ PollNotify(w) \/ PollWait(w)
    \/ PollLock(w) \/ PollClear(w) \/ PollUnlock(w)
    \/ DeleteTry(w) \/ DtorUnregister(w) \/ DtorFree(w)

Request(w) ==
    \/ PostSession(w)
    \/ \E s \in Sessions : ShortRequest(w, s) \/ PollBegin(w, s)
                           \/ DeleteBegin(w, s)

ExpStep(s) ==
    \/ ExpTick(s) \/ ExpTimeout(s) \/ ExpExit(s) \/ ExpExpire(s)
    \/ DtorUnregister(s) \/ DtorFree(s)

MainStep ==
    \/ ShutdownLoop \/ ShutdownGiveUp \/ ShutdownWait
    \/ DeleteTry(Main) \/ DtorUnregister(Main) \/ DtorFree(Main)

Next ==
    \/ \E w \in Workers : Request(w) \/ WorkerStep(w)
    \/ \E s \in Sessions : ExpStep(s)
    \/ ShutdownBegin
    \/ MainStep

Spec == Init /\ [][Next]_vars

\* A thread that can go on does: the operating system schedules it.  Nobody
\* is obliged to send a request or to shut the server down.
Fairness ==
    /\ \A w \in Workers : WF_vars(WorkerStep(w))
    /\ \A s \in Sessions : WF_vars(ExpStep(s))
    /\ WF_vars(MainStep)

FairSpec == Spec /\ Fairness

-----------------------------------------------------------------------------
(* Properties *)

\* Types of the state of CLoggerInterface, CSession and the threads.
TypeOK ==
    /\ listOwner \in Threads \cup {NoThread}
    /\ registered \subseteq Sessions
    /\ nextId \in 1..(MaxSession + 1)
    /\ heap \in [Sessions -> {"none", "live", "freed"}]
    /\ sessOwner \in [Sessions -> Workers \cup {NoThread}]
    /\ remaining \in [Sessions -> 0..Lifetime]
    /\ inProgress \in [Sessions -> BOOLEAN]
    /\ firstPoll \in [Sessions -> BOOLEAN]
    /\ stop \in [Sessions -> BOOLEAN]
    /\ expRunning \in [Sessions -> BOOLEAN]
    /\ notified \in [Sessions -> Nat]
    /\ known \subseteq Sessions
    /\ pc \in [Agents -> Pcs]
    /\ cur \in [Agents -> Sessions \cup {0}]
    /\ decs \in [Workers -> 0..(RequestTicks + 1)]

\* A session pointer found in the map points to an allocated object: the
\* destructor always unregisters before the memory is released
\* (~CSession, Session.cpp).
RegisteredAlive == \A s \in registered : heap[s] = "live"

\* From its lookup until it lowers its flag a poll's session is allocated,
\* although the poll holds no lock: m_bRequestInProgress must "invoke an error
\* if somone wants to delete the session" (LoggerIf.cpp, Handle_EventPolling).
\* The Unlock that follows is MutexFreeWhenDestroyed's.
FlagKeepsSession ==
    \A w \in Workers : pc[w] \in PollPcs => heap[cur[w]] = "live"

\* "When a request is in progress, the session cant expire by design"
\* (assertion in MaintainExpirationThread, Session.cpp): from the end of the
\* lifetime until the expiration thread has released the session no worker is
\* within a request on it, the Unlock at the end of a poll included.
ExpirySparesRequests ==
    \A s \in Sessions : pc[s] \in {"expired"} \cup DtorPcs =>
        /\ ~inProgress[s]
        /\ \A w \in Workers : ~InRequest(w, s)

\* A session that is released is not locked (assert(m_nCount==0) in
\* ~CAbkMutex, CrossPlatform.cpp): a poll has unlocked it before a DELETE that
\* waited for the poll destroys it.
MutexFreeWhenDestroyed ==
    \A s \in Sessions : heap[s] = "freed" => sessOwner[s] = NoThread

\* Whoever runs a session's destructor, or its expiration thread, works on
\* allocated memory: no second destructor runs, and the destructor outlives
\* the expiration thread (m_bExpThreadInProgress, Session.cpp).
DestructorOwnsSession ==
    /\ \A t \in Agents : pc[t] \in DtorPcs => heap[cur[t]] = "live"
    /\ \A s \in Sessions :
          pc[s] \in {"tick", "sleep", "exit", "expired"} => heap[s] = "live"

\* OnSessionEventPollEstablished is called at most once for a session: of all
\* polls one is told that it made "the first call to this function"
\* (IsFirstPoll, Session.cpp:298).
NotifiedOnce == \A s \in Sessions : notified[s] <= 1

\* UnregisterSession finds the session (assert(bUnregisterSuccess) in
\* ~CSession, Session.cpp).
UnregisterSucceeds ==
    \A t \in Agents : pc[t] = "dtorUnregister" => cur[t] \in registered

\* What must happen once to a session does: it is announced, taken out of the
\* map and destroyed, by whichever of its threads comes first.
OncePerSession == DestructorOwnsSession /\ NotifiedOnce /\ UnregisterSucceeds

\* A DELETE is answered: the poll it waits for ends, and so does the
\* expiration thread the destructor waits for (Handle_DeleteSession).
DeleteCompletes ==
    \A w \in Workers : pc[w] = "deleteTry" ~> pc[w] = "idle"

\* A session nobody refreshes any more is released in the end
\* (MaintainExpirationThread).
AbandonedReclaimed ==
    \A s \in Sessions :
        \/ []<><<GetSession(s)>>_vars
        \/ heap[s] = "live" ~> heap[s] = "freed"

\* Shutdown returns, with or without success.
ShutdownReturns ==
    pc[Main] = "shutdownLoop" ~> pc[Main] \in {"shutdownOk", "shutdownFailed"}

\* Ids are handed out in order, and only those handed out are in use
\* (m_nNextSessionId, LoggerIf.cpp).
IdsInOrder ==
    /\ \A s \in registered \cup known : s < nextId
    /\ \A t \in Threads : cur[t] < nextId
    /\ \A w \in Workers :
          pc[w] \in RequestPcs \cup DtorPcs \cup {"postLost"} => cur[w] # 0
    /\ \A s \in Sessions : cur[s] = s /\ (pc[s] # "none" => s < nextId)
    /\ \A s \in Sessions : pc[s] \in ExpPcs

\* An expiration thread that counts has something left to count, and has not
\* run ahead of the requests of its session (MaintainExpirationThread).
Counting ==
    \A s \in Sessions : pc[s] \in {"tick", "sleep"} =>
        /\ remaining[s] > 0
        /\ \A w \in Workers : InRequest(w, s) => decs[w] <= RequestTicks

\* Whoever is about to release a session has taken it out of the map, and it
\* never comes back (~CSession).
FreedUnregistered ==
    \A t \in Agents : pc[t] = "dtorFree" => cur[t] \notin registered

\* What holds in every environment, however late, overlapping or concurrent
\* with Shutdown requests are: the state stays within its types, and what the
\* map leads to is allocated (~CSession, GetSession); inductive with the parts
\* in between.
SafeInv ==
    TypeOK /\ IdsInOrder /\ Counting /\ FreedUnregistered /\ RegisteredAlive

\* The environment the code is written for: a client is heard from before
\* its session's lifetime is over and waits for the answer to its poll, and
\* the server is not shut down while it serves.
PromptClients == ~LateRequests /\ ~OverlappingPolls /\ ~ShutdownPossible

\* With PromptClients, a worker that deletes a session owns the list mutex
\* throughout, and destroys only a session without a poll
\* (Handle_DeleteSession).
DeleterExcludes ==
    /\ pc[Main] = "running"
    /\ \A w \in Workers :
          /\ pc[w] \in {"deleteTry"} \cup DtorPcs => listOwner = w
          /\ pc[w] \in DtorPcs => ~inProgress[cur[w]]

\* With PromptClients, the flag m_bRequestInProgress is up exactly while the
\* one poll of the session runs (Handle_EventPolling).
FlagMeansPoll ==
    /\ \A w \in Workers, s \in Sessions :
          Polling(w, s) => /\ inProgress[s]
                           /\ \A v \in Workers : Polling(v, s) => v = w
    /\ \A s \in Sessions : inProgress[s] => \E w \in Workers : Polling(w, s)

\* With PromptClients, a session loses its lifetime one decrement at a time
\* from the request that refreshed it, and an expired one stays expired
\* (Refresh, MaintainExpirationThread).
LifetimeLeft ==
    /\ \A w \in Workers, s \in Sessions :
          InRequest(w, s) => remaining[s] + decs[w] >= Lifetime
    /\ \A s \in Sessions :
          pc[s] \in {"expired"} \cup DtorPcs => remaining[s] = 0

\* The abstract view: a poll is served from the moment the flag is raised
\* until it falls.
Contract == INSTANCE SessionContract WITH
    phase <- heap,
    serving <- [w \in Workers |-> IF pc[w] \in PollPcs THEN cur[w] ELSE 0]

\* Sessions are created once, destroyed once, and never under a poll
\* (SessionContract).
ContractHolds == Contract!Spec
=============================================================================
