---------------------------- MODULE EventDelivery ----------------------------
(***************************************************************************)
(* How an event fired in the server reaches the clients:                   *)
(* FireEventToAllClients, Handle_PutClientEvent and IdentifyClient           *)
(* (ServerLib/LoggerIf.cpp) put it into the queue of each session they     *)
(* address (CSession::FireEventToClient, CEventQueue) and fire the         *)
(* session's CAbkEvent, for which the client's long poll                   *)
(* (Handle_EventPolling) waits.                                            *)
(*                                                                         *)
(* Senders are the threads that fire events.  A client polls again only    *)
(* after the answer; what happens with overlapping polls, and to sessions  *)
(* being destroyed, is the subject of SessionLifecycle.                    *)
(***************************************************************************)
EXTENDS Integers, Sequences, FiniteSets

CONSTANTS
    Senders,     \* threads that fire events
    Nobody,      \* owner of a free mutex
    MaxSession,  \* bound: sessions 1..MaxSession, in the order of creation
    ClassOf,     \* ClassOf[s]: device class of the client of session s
    MaxEvents,   \* bound: events fired in a behaviour
    Lossy,       \* may the connection break while an answer is sent?
    Leave        \* may sessions be deleted?

Sessions == 1..MaxSession
EventIds == 1..MaxEvents
Classes == {ClassOf[s] : s \in Sessions}
Roles == {"primary", "nospecial"} \* ABK_CLIENTROLE_...
\* To all clients; a client's own, to itself; or IdentifyClient's, to one.
Kinds == {"broadcast", "private", "identify"}
Events == [id : EventIds, role : Roles, kind : Kinds]

ASSUME DeliveryAssumption ==
    /\ MaxSession \in Nat /\ MaxEvents \in Nat
    /\ DOMAIN ClassOf = Sessions
    /\ Senders \cap Sessions = {}
    /\ Nobody \notin Senders \cup Sessions
    /\ Lossy \in BOOLEAN /\ Leave \in BOOLEAN

VARIABLES
    listOwner,  \* owner of m_mutexSessionList, a sender
    sessOwner,  \* sessOwner[s]: owner of CSession::m_mutex, sender or poll
    nextId,     \* m_nNextSessionId
    alive,      \* the keys of m_mapSessions
    queue,      \* queue[s]: CSession::m_queueEvents
    eventSet,   \* eventSet[s]: m_eventCond of CSession::m_event
    poll,       \* poll[s]: where s's poll is
    response,   \* response[s]: the events in the answer being composed or sent
    inbox,      \* inbox[s]: what the client has received
    sender,     \* sender[t]: what sender t is doing
    nextEvent,  \* the id of the next event
    queued,     \* history: queued[s], everything ever queued for s
    missed      \* history: missed[s], length of the queue when the wait began

vars == <<listOwner, sessOwner, nextId, alive, queue, eventSet, poll, response,
          inbox, sender, nextEvent, queued, missed>>
mapVars == <<nextId, alive>>
pollVars == <<poll, response, inbox, missed>>
senderVars == <<sender, nextEvent, listOwner>>

PollPcs == {"idle", "ready", "waiting", "awake", "locked", "copied", "sending"}

\* A sender fires event id to the sessions in todo.
IdleSender == [pc |-> "idle", id |-> 0, todo |-> {}, kind |-> "broadcast"]
SenderStates == [pc : {"idle", "next", "set", "reset"}, id : 0..MaxEvents,
                 todo : SUBSET Sessions, kind : Kinds]

\* The session a sender serves next: map order is id order.
Target(t) == CHOOSE s \in sender[t].todo : \A r \in sender[t].todo : s <= r

\* Mutant of GetClientRole: an off-by-one in the order.
GetClientRoleAlone(s) ==
    IF \E r \in alive : ClassOf[r] = ClassOf[s] /\ r # s THEN "nospecial"
    ELSE "primary"

\* OnGetClientRole: the first session of its class in the map is primary.
GetClientRole(s) ==
    IF \E r \in alive : ClassOf[r] = ClassOf[s] /\ r < s THEN "nospecial"
    ELSE "primary"

-----------------------------------------------------------------------------
Init ==
    /\ listOwner = Nobody
    /\ sessOwner = [s \in Sessions |-> Nobody]
    /\ nextId = 1
    /\ alive = {}
    /\ queue = [s \in Sessions |-> <<>>]
    /\ eventSet = [s \in Sessions |-> FALSE]
    /\ poll = [s \in Sessions |-> "idle"]
    /\ response = [s \in Sessions |-> <<>>]
    /\ inbox = [s \in Sessions |-> <<>>]
    /\ sender = [t \in Senders |-> IdleSender]
    /\ nextEvent = 1
    /\ queued = [s \in Sessions |-> <<>>]
    /\ missed = [s \in Sessions |-> 0]

-----------------------------------------------------------------------------
(* The session map changes under the list mutex only. *)

NewSession ==
    /\ listOwner = Nobody
    /\ nextId \in Sessions
    /\ alive' = alive \cup {nextId}
    /\ nextId' = nextId + 1
    /\ UNCHANGED <<sessOwner, queue, eventSet, pollVars, senderVars, queued>>

\* A session is deleted while no poll is in progress.
DropSession(s) ==
    /\ Leave
    /\ listOwner = Nobody
    /\ s \in alive
    /\ poll[s] \in {"idle", "sending"}
    /\ alive' = alive \ {s}
    /\ queue' = [queue EXCEPT ![s] = <<>>]
    /\ UNCHANGED <<sessOwner, nextId, eventSet, pollVars, senderVars, queued>>

-----------------------------------------------------------------------------
(* Senders *)

\* Mutant of Broadcast: the list mutex is released before the loop.
BroadcastUnlocked(t) ==
    /\ sender[t].pc = "idle"
    /\ listOwner = Nobody
    /\ nextEvent \in EventIds
    /\ sender' = [sender EXCEPT ![t] = [pc |-> "next", id |-> nextEvent,
                                        todo |-> alive, kind |-> "broadcast"]]
    /\ nextEvent' = nextEvent + 1
    /\ UNCHANGED <<sessOwner, mapVars, queue, eventSet, pollVars, listOwner,
                   queued>>

\* FireEventToAllClients takes the list mutex and keeps it for the loop.
Broadcast(t) ==
    /\ sender[t].pc = "idle"
    /\ listOwner = Nobody
    /\ nextEvent \in EventIds
    /\ listOwner' = t
    /\ sender' = [sender EXCEPT ![t] = [pc |-> "next", id |-> nextEvent,
                                        todo |-> alive, kind |-> "broadcast"]]
    /\ nextEvent' = nextEvent + 1
    /\ UNCHANGED <<sessOwner, mapVars, queue, eventSet, pollVars, queued>>

\* An event for one session, found by GetSession, which refreshes it.
FireToOne(t, s, kind) ==
    /\ sender[t].pc = "idle"
    /\ listOwner = Nobody
    /\ nextEvent \in EventIds
    /\ s \in alive
    /\ sessOwner[s] = Nobody
    /\ listOwner' = t
    /\ sender' = [sender EXCEPT ![t] = [pc |-> "next", id |-> nextEvent,
                                        todo |-> {s}, kind |-> kind]]
    /\ nextEvent' = nextEvent + 1
    /\ UNCHANGED <<sessOwner, mapVars, queue, eventSet, pollVars, queued>>

\* Handle_PutClientEvent with a private event: to the sending session alone.
PrivateEvent(t, s) == FireToOne(t, s, "private")

\* IdentifyClient: the application asks one client to identify itself.
IdentifyOne(t, s) == FireToOne(t, s, "identify")

\* FireEventToClient: lock the session and write the event into its queue;
\* only a private event has bForcePrimaryRole.
FireQueue(t) ==
    /\ sender[t].pc = "next"
    /\ sender[t].todo # {}
    /\ LET s == Target(t)
           e == [id |-> sender[t].id,
                 role |-> IF sender[t].kind = "private" THEN "primary"
                          ELSE GetClientRole(s),
                 kind |-> sender[t].kind]
       IN /\ sessOwner[s] = Nobody
          /\ sessOwner' = [sessOwner EXCEPT ![s] = t]
          /\ queue' = [queue EXCEPT ![s] = Append(@, e)]
          /\ queued' = [queued EXCEPT ![s] = Append(@, e)]
    /\ sender' = [sender EXCEPT ![t].pc = "set"]
    /\ UNCHANGED <<mapVars, eventSet, pollVars, nextEvent, listOwner>>

\* Mutant of FireSet: nobody is notified.
FireSetSilent(t) ==
    /\ sender[t].pc = "set"
    /\ eventSet' = [eventSet EXCEPT ![Target(t)] = TRUE]
    /\ sender' = [sender EXCEPT ![t].pc = "reset"]
    /\ UNCHANGED <<sessOwner, mapVars, queue, pollVars, nextEvent, listOwner,
                   queued>>

\* FireEvent, first half: CAbkEvent::Set wakes whoever waits.
FireSet(t) ==
    /\ sender[t].pc = "set"
    /\ LET s == Target(t)
       IN /\ eventSet' = [eventSet EXCEPT ![s] = TRUE]
          /\ poll' = [poll EXCEPT ![s] = IF @ = "waiting" THEN "awake" ELSE @]
    /\ sender' = [sender EXCEPT ![t].pc = "reset"]
    /\ UNCHANGED <<sessOwner, mapVars, queue, response, inbox, missed,
                   nextEvent, listOwner, queued>>

\* FireEvent, second half, and the return from FireEventToClient.
FireReset(t) ==
    /\ sender[t].pc = "reset"
    /\ LET s == Target(t)
       IN /\ eventSet' = [eventSet EXCEPT ![s] = FALSE]
          /\ sessOwner' = [sessOwner EXCEPT ![s] = Nobody]
          /\ sender' = [sender EXCEPT ![t].pc = "next", ![t].todo = @ \ {s}]
    /\ UNCHANGED <<mapVars, queue, pollVars, nextEvent, listOwner, queued>>

\* The loop ends and the list mutex is released.
FireDone(t) ==
    /\ sender[t].pc = "next"
    /\ sender[t].todo = {}
    /\ listOwner' = Nobody
    /\ sender' = [sender EXCEPT ![t] = IdleSender]
    /\ UNCHANGED <<sessOwner, mapVars, queue, eventSet, pollVars, nextEvent,
                   queued>>

-----------------------------------------------------------------------------
(* Handle_EventPolling of session s *)

\* GetSession under the list mutex, with its Refresh.
PollBegin(s) ==
    /\ poll[s] = "idle"
    /\ listOwner = Nobody
    /\ s \in alive
    /\ sessOwner[s] = Nobody
    /\ poll' = [poll EXCEPT ![s] = "ready"]
    /\ UNCHANGED <<sessOwner, mapVars, queue, eventSet, response, inbox,
                   missed, senderVars, queued>>

\* CAbkEvent::Wait returns at once if the event is set, else it blocks.
PollEnterWait(s) ==
    /\ poll[s] = "ready"
    /\ poll' = [poll EXCEPT ![s] = IF eventSet[s] THEN "awake" ELSE "waiting"]
    /\ missed' = [missed EXCEPT ![s] = Len(queue[s])]
    /\ UNCHANGED <<sessOwner, mapVars, queue, eventSet, response, inbox,
                   senderVars, queued>>

\* Mutant of PollTimeout: WaitEvent without a timeout.
PollTimeoutNever(s) ==
    /\ poll[s] = "waiting"
    /\ eventSet[s]
    /\ poll' = [poll EXCEPT ![s] = "awake"]
    /\ UNCHANGED <<sessOwner, mapVars, queue, eventSet, response, inbox,
                   missed, senderVars, queued>>

\* ABK_LONGPOLL_MAXRESPONSE_MS have passed.
PollTimeout(s) ==
    /\ poll[s] = "waiting"
    /\ poll' = [poll EXCEPT ![s] = "awake"]
    /\ UNCHANGED <<sessOwner, mapVars, queue, eventSet, response, inbox,
                   missed, senderVars, queued>>

PollLock(s) ==
    /\ poll[s] = "awake"
    /\ sessOwner[s] = Nobody
    /\ sessOwner' = [sessOwner EXCEPT ![s] = s]
    /\ poll' = [poll EXCEPT ![s] = "locked"]
    /\ UNCHANGED <<mapVars, queue, eventSet, response, inbox, missed,
                   senderVars, queued>>

\* The queue is copied into the answer ...
PollCopy(s) ==
    /\ poll[s] = "locked"
    /\ response' = [response EXCEPT ![s] = queue[s]]
    /\ poll' = [poll EXCEPT ![s] = "copied"]
    /\ UNCHANGED <<sessOwner, mapVars, queue, eventSet, inbox, missed,
                   senderVars, queued>>

\* Mutant of PollFlush: the queue is kept.
PollFlushForgets(s) ==
    /\ poll[s] = "copied"
    /\ sessOwner' = [sessOwner EXCEPT ![s] = Nobody]
    /\ poll' = [poll EXCEPT ![s] = "sending"]
    /\ UNCHANGED <<mapVars, queue, eventSet, response, inbox, missed,
                   senderVars, queued>>

\* ... and flushed; then the session is unlocked.
PollFlush(s) ==
    /\ poll[s] = "copied"
    /\ queue' = [queue EXCEPT ![s] = <<>>]
    /\ sessOwner' = [sessOwner EXCEPT ![s] = Nobody]
    /\ poll' = [poll EXCEPT ![s] = "sending"]
    /\ UNCHANGED <<mapVars, eventSet, response, inbox, missed, senderVars,
                   queued>>

\* The client gets the answer, or the connection breaks.
PollAnswered(s) ==
    /\ poll[s] = "sending"
    /\ \/ inbox' = [inbox EXCEPT ![s] = @ \o response[s]]
       \/ Lossy /\ UNCHANGED inbox
    /\ response' = [response EXCEPT ![s] = <<>>]
    /\ poll' = [poll EXCEPT ![s] = "idle"]
    /\ UNCHANGED <<sessOwner, mapVars, queue, eventSet, missed, senderVars,
                   queued>>

-----------------------------------------------------------------------------
Fire(t) == FireQueue(t) \/ FireSet(t) \/ FireReset(t) \/ FireDone(t)

\* PollBegin is here because a client polls again after every answer.
PollStep(s) == PollBegin(s) \/ PollEnterWait(s) \/ PollTimeout(s)
               \/ PollLock(s) \/ PollCopy(s) \/ PollFlush(s) \/ PollAnswered(s)

Next ==
    \/ NewSession
    \/ \E s \in Sessions : DropSession(s) \/ PollStep(s)
    \/ \E t \in Senders : Broadcast(t) \/ Fire(t)
                          \/ \E s \in Sessions : PrivateEvent(t, s)
                                               \/ IdentifyOne(t, s)

Spec == Init /\ [][Next]_vars

\* Threads are scheduled, waits time out, and the client keeps polling.  Weak
\* fairness is enough for the poll to get the mutexes because only MaxEvents
\* events compete with it.
Fairness ==
    /\ \A t \in Senders : WF_vars(Fire(t))
    /\ \A s \in Sessions : WF_vars(PollStep(s))

FairSpec == Spec /\ Fairness

-----------------------------------------------------------------------------
(* Properties *)

\* Types of the state of the event service, its queues and its clients.
TypeOK ==
    /\ listOwner \in Senders \cup {Nobody}
    /\ sessOwner \in [Sessions -> Senders \cup Sessions \cup {Nobody}]
    /\ nextId \in 1..(MaxSession + 1)
    /\ alive \subseteq Sessions
    /\ queue \in [Sessions -> Seq(Events)]
    /\ eventSet \in [Sessions -> BOOLEAN]
    /\ poll \in [Sessions -> PollPcs]
    /\ response \in [Sessions -> Seq(Events)]
    /\ inbox \in [Sessions -> Seq(Events)]
    /\ sender \in [Senders -> SenderStates]
    /\ nextEvent \in 1..(MaxEvents + 1)
    /\ queued \in [Sessions -> Seq(Events)]
    /\ missed \in [Sessions -> Nat]

\* The events of a sequence, by id.
Ids(q) == {q[i].id : i \in DOMAIN q}
Position(q, id) == CHOOSE i \in DOMAIN q : q[i].id = id

\* All clients see the events they have in common in the same order: a
\* broadcast is not overtaken by another (FireEventToAllClients holds the
\* list mutex for its loop).
SameOrderEverywhere ==
    \A r, s \in Sessions : \A a, b \in Ids(queued[r]) \cap Ids(queued[s]) :
        Position(queued[r], a) < Position(queued[r], b)
            => Position(queued[s], a) < Position(queued[s], b)

\* The sessions of class c that were sent event id, what each was sent, and
\* those sent it as primary.
Recipients(id, c) == {s \in Sessions : ClassOf[s] = c /\ id \in Ids(queued[s])}
SentTo(s, id) == queued[s][Position(queued[s], id)]
Primaries(id, c) == {s \in Recipients(id, c) : SentTo(s, id).role = "primary"}

\* No event has two primaries among the clients of a class, and an event that
\* was fired to all clients, or by a client to itself, has one among those of
\* the class it went to, although sessions come and go between and during
\* broadcasts (OnGetClientRole).  IdentifyClient computes the role of its one
\* recipient among all clients of the class, so its event may have none.
OnePrimaryPerClass ==
    \A id \in 1..(nextEvent - 1), c \in Classes :
        /\ Cardinality(Primaries(id, c)) <= 1
        /\ /\ \A t \in Senders : sender[t].id # id
           /\ \E s \in Recipients(id, c) : SentTo(s, id).kind # "identify"
           => Cardinality(Primaries(id, c)) = 1

\* An event that is fired while the poll waits ends the wait: a poll that is
\* still waiting has seen no event since it began to wait.
FiringEndsWait ==
    \A s \in Sessions :
        poll[s] = "waiting" /\ sessOwner[s] = Nobody /\ s \in alive
            => Len(queue[s]) = missed[s]

Busy(t) == sender[t].pc # "idle"
Serving(t) == sender[t].pc \in {"set", "reset"}

\* A sender that is busy holds the list mutex: its event is no longer the next
\* one, and its sessions are alive.  While it serves one it holds its mutex.
OneSender ==
    \A t \in Senders :
        /\ Busy(t) => /\ listOwner = t
                      /\ sender[t].id \in 1..(nextEvent - 1)
                      /\ sender[t].todo \subseteq alive
        /\ Serving(t) => sender[t].todo # {} /\ sessOwner[Target(t)] = t

\* Sessions are created once, and one that is not alive has no queue.
Lives ==
    /\ alive \subseteq 1..(nextId - 1)
    /\ \A s \in Sessions : s \notin alive => queue[s] = <<>>

\* A poll locks its session while it copies and flushes the queue, needs it
\* until its answer is sent, and has no answer before it copies.
PollSteps ==
    \A s \in Sessions :
        /\ poll[s] \in {"locked", "copied"} => sessOwner[s] = s
        /\ poll[s] \notin {"idle", "sending"} => s \in alive
        /\ poll[s] \notin {"copied", "sending"} => response[s] = <<>>

\* The ids of a session's events increase, and an event that is on its way to
\* a session is newer than all it was sent.
IdsIncrease ==
    \A s \in Sessions :
        /\ \A i \in DOMAIN queued[s] : queued[s][i].id < nextEvent
        /\ \A i, j \in DOMAIN queued[s] :
              i < j => queued[s][i].id < queued[s][j].id
IdsFresh ==
    \A t \in Senders :
        Busy(t) =>
            \A s \in sender[t].todo :
                \/ Serving(t) /\ s = Target(t)
                \/ \A i \in DOMAIN queued[s] : queued[s][i].id < sender[t].id

\* Between CAbkEvent's Set and Reset nobody waits.
NobodyWaits ==
    \A t \in Senders :
        sender[t].pc = "reset" => /\ eventSet[Target(t)]
                                  /\ poll[Target(t)] # "waiting"

\* Inductive: one sender at a time, which owns what it works on, fresh ids, and
\* no poll that sleeps through a Set (FireEventToAllClients,
\* CSession::FireEventToClient, Handle_EventPolling).
DeliveryInv ==
    /\ TypeOK /\ OneSender /\ Lives /\ PollSteps /\ IdsIncrease /\ IdsFresh
    /\ NobodyWaits /\ FiringEndsWait

\* The events of s on their way: queued, or in the answer being sent.
OnTheWay(s) ==
    IF poll[s] = "copied" \/ s \notin alive THEN response[s]
    ELSE response[s] \o queue[s]

\* The abstract view: an event is pending from the moment it is queued until
\* the answer that carries it arrives.
Channel == INSTANCE EventChannel WITH
    pending <- [s \in Sessions |-> OnTheWay(s)]

\* What a client receives is what was queued for it, in order and once, and
\* nothing is lost but with a lost answer or a deleted session (EventChannel).
ChannelHolds == Channel!Spec

\* Every event queued for a client that keeps polling leaves the server: it is
\* received, lost with its answer, or dropped with its session
\* (Handle_EventPolling; FireEvent may miss a poll that does not wait yet).
EventsLeave ==
    \A s \in Sessions, n \in EventIds :
        Len(queued[s]) >= n ~> Len(queued[s]) - Len(OnTheWay(s)) >= n
=============================================================================
