--------------------------- MODULE ClientPolling ---------------------------
(***************************************************************************)
(* The client: CAbkClient with its long-poll thread, its DAQ map and its   *)
(* event slot, in the portable (ClientBoost) and the Windows (ClientLib/   *)
(* atl) version; `platform' tells them apart where their code differs.     *)
(*                                                                         *)
(* Threads: the application (main), the long-poll thread each Create       *)
(* starts, and a reader of the event slot.  The server is what the client  *)
(* sees of it: sessions, their DAQs, and a network that fails and comes    *)
(* back.  Every HTTP request ends (5 s with libsoup, 1.5 poll periods with *)
(* ATL), before TidyUp's 10 s for the thread are over; a wait for the      *)
(* thread therefore has no timeout here.  How long errors have lasted when *)
(* the thread gives up (LONGPOLL_FAILURE_TOLERANCE_MS) is left open.       *)
(***************************************************************************)
EXTENDS Integers, Sequences, FiniteSets

CONSTANTS
    Platforms,  \* "boost", "atl"
    Lives,      \* bound: Lives[p] calls of Create on platform p
    Daqs,       \* names of the application's DAQs
    None,       \* no thread
    MaxEvents,  \* bound: events of the server
    MaxFail     \* bound: failures of the network

ASSUME ClientAssumption ==
    /\ Platforms \subseteq {"boost", "atl"}
    /\ Lives \in [Platforms -> Nat \ {0}]
    /\ MaxEvents \in Nat /\ MaxFail \in Nat
    /\ None \notin Daqs \cup (1..2)

VARIABLES
    platform,   \* which of the two clients
    main,       \* the application thread
    life,       \* calls of Create so far
    hasPort,    \* m_nPort > 0
    sid,        \* m_nSessionId: the life that obtained it, 0 for -1
    aux, event, \* m_pClientAux, m_pClientEvent: "none", "open" or "closed"
    enable,     \* m_evLongPollEnable
    done,       \* m_evLongPollDone
    terminate,  \* m_bTerminateLongPoll
    tidy,       \* locals of TidyUp: self-terminated, lost; create afterwards
    handle,     \* m_hLongPollThread (atl)
    poll,       \* poll[l]: the long-poll thread of life l
    mapDaq,     \* m_mapDaq
    daqLock,    \* who holds m_mutexDaq
    counted,    \* DAQs with m_nVarCountAtServer > 0
    slot,       \* the CAbkServerEvent: the event in it, and m_evIsEmpty
    copy,       \* the reader's copy during GetEvent, 0 when there is none
    got,        \* history: events the reader got
    sessions,   \* sessions alive at the server
    served,     \* DAQs of the session at the server
    sent,       \* events the server has sent
    net, fails  \* does the network work? how often has it failed?

appVars == <<main, life, hasPort, sid, aux, event, tidy>>
syncVars == <<enable, done, terminate, handle>>
daqVars == <<mapDaq, daqLock, counted>>
slotVars == <<slot, copy, got>>
server == <<sessions, served, sent>>
world == <<net, fails, platform>>
vars == <<appVars, syncVars, poll, daqVars, slotVars, server, world>>

AllLives == 1..2
NoThread == [pc |-> "none", daqs |-> {}, daq |-> None, events |-> <<>>,
             refused |-> FALSE]
NoTidy == [self |-> FALSE, lost |-> FALSE, create |-> FALSE]

Init ==
    /\ platform \in Platforms
    /\ main = "off" /\ life = 0 /\ hasPort = FALSE /\ sid = 0
    /\ aux = "none" /\ event = "none"
    /\ enable = FALSE /\ done = FALSE /\ terminate = FALSE /\ handle = FALSE
    /\ tidy = NoTidy
    /\ poll = [l \in AllLives |-> NoThread]
    /\ mapDaq = {} /\ daqLock = None /\ counted = {}
    /\ slot = [data |-> 0, empty |-> TRUE] /\ copy = 0 /\ got = <<>>
    /\ sessions = {} /\ served = {} /\ sent = 0
    /\ net = TRUE /\ fails = 0

\* A request of the session reaches a server which still knows it.
Reaches(client) ==
    net /\ client = "open" /\ sid \in sessions /\ ~tidy.lost

-----------------------------------------------------------------------------
(* The application: Create, DAQs, suspend and resume. *)

\* The portable Create: the events keep their state, nothing is tidied up.
CreateBoost ==
    /\ platform = "boost" /\ main \in {"off", "on"}
    /\ life < Lives[platform]
    /\ life' = life + 1 /\ hasPort' = TRUE
    /\ aux' = "open" /\ event' = "open"
    /\ IF net
       THEN /\ sid' = life' /\ sessions' = sessions \cup {life'}
            /\ poll' = [poll EXCEPT ![life'] =
                          [NoThread EXCEPT !.pc = "loop"]]
            /\ served' = {}
            /\ UNCHANGED done
       ELSE /\ sid' = 0 /\ done' = TRUE
            /\ UNCHANGED <<sessions, served, poll>>
    /\ main' = "on"
    /\ UNCHANGED <<tidy, enable, terminate, handle, daqVars, slotVars, sent,
                   world>>

\* The Windows Create, after its TidyUp: the events are reset.
CreateAtl ==
    /\ platform = "atl" /\ main = "off" /\ tidy.create
    /\ life' = life + 1 /\ hasPort' = TRUE
    /\ aux' = "open" /\ event' = "open"
    /\ IF net
       THEN /\ sid' = life' /\ sessions' = sessions \cup {life'}
            /\ enable' = FALSE /\ done' = FALSE /\ terminate' = FALSE
            /\ handle' = TRUE
            /\ poll' = [poll EXCEPT ![life'] = [NoThread EXCEPT !.pc = "loop"]]
            /\ served' = {}
       ELSE sid' = 0 /\ UNCHANGED <<sessions, served, poll, syncVars>>
    /\ main' = "on" /\ tidy' = NoTidy
    /\ UNCHANGED <<daqVars, slotVars, sent, world>>

\* AddDaq: a DAQ of that name is added once.
AddDaq(d) ==
    /\ main = "on" /\ sid # 0 /\ daqLock = None
    /\ d \notin mapDaq
    /\ mapDaq' = mapDaq \cup {d}
    /\ UNCHANGED <<appVars, syncVars, poll, daqLock, counted, slotVars, server,
                   world>>

\* CAbkClientDaq::Update: PUT, and on success the count.
UpdateDaq(d) ==
    /\ main = "on" /\ d \in mapDaq
    /\ Reaches(aux)
    /\ served' = served \cup {d} /\ counted' = counted \cup {d}
    /\ UNCHANGED <<appVars, syncVars, poll, mapDaq, daqLock, slotVars,
                   sessions, sent, world>>

\* ~CAbkClientDaq: DELETE, unless the DAQ is not at the server or has lost
\* its owner.
DestroyDaq(d, owned) ==
    /\ served' = IF owned /\ d \in counted /\ Reaches(aux)
                 THEN served \ {d} ELSE served
    /\ mapDaq' = mapDaq \ {d} /\ counted' = counted \ {d}

\* Mutant of DeleteDaq: the map is not locked.
DeleteDaqUnlocked(d) ==
    /\ platform = "atl" /\ main = "on"
    /\ d \in mapDaq
    /\ DestroyDaq(d, TRUE)
    /\ UNCHANGED <<appVars, syncVars, poll, daqLock, slotVars, sessions, sent,
                   world>>

\* DeleteDaq (atl) holds the map's mutex during the request.
DeleteDaq(d) ==
    /\ platform = "atl" /\ main = "on"
    /\ d \in mapDaq /\ daqLock = None
    /\ DestroyDaq(d, TRUE)
    /\ UNCHANGED <<appVars, syncVars, poll, daqLock, slotVars, sessions, sent,
                   world>>

SuspendResume(on) ==
    /\ main = "on" /\ (platform = "atl" => handle)
    /\ enable' = on
    /\ UNCHANGED <<appVars, done, terminate, handle, poll, daqVars, slotVars,
                   server, world>>

-----------------------------------------------------------------------------
(* TidyUp, called by the destructor, by the application and by Create. *)

\* Mutant of TidyUpBegin: a stalled thread is not woken.
TidyUpBeginAsleep ==
    /\ \/ main = "on"
       \/ platform = "atl" /\ main = "off" /\ ~tidy.create
    /\ \E lost, create \in BOOLEAN :
          /\ create => platform = "atl" /\ ~lost /\ life < Lives[platform]
          /\ main = "off" => create
          /\ tidy' = [self |-> terminate, lost |-> lost, create |-> create]
    /\ IF event = "none"
       THEN main' = "daqs" /\ UNCHANGED terminate
       ELSE main' = "waitDone" /\ terminate' = TRUE
    /\ UNCHANGED <<life, hasPort, sid, aux, event, enable, done, handle, poll,
                   daqVars, slotVars, server, world>>

\* The thread is told to terminate, and woken should it be stalled.
TidyUpBegin ==
    /\ \/ main = "on"
       \/ platform = "atl" /\ main = "off" /\ ~tidy.create
    /\ \E lost, create \in BOOLEAN :
          /\ create => platform = "atl" /\ ~lost /\ life < Lives[platform]
          /\ main = "off" => create
          /\ tidy' = [self |-> terminate, lost |-> lost, create |-> create]
    /\ IF event = "none"
       THEN main' = "daqs" /\ UNCHANGED <<terminate, enable>>
       ELSE main' = "waitDone" /\ terminate' = TRUE /\ enable' = TRUE
    /\ UNCHANGED <<life, hasPort, sid, aux, event, done, handle, poll, daqVars,
                   slotVars, server, world>>

\* The end of the thread is waited for, and its client is closed.  The
\* Windows client waits only while it has a handle; its event resets itself.
WaitForPollThread ==
    /\ main = "waitDone"
    /\ done \/ (platform = "atl" /\ ~handle)
    /\ done' = (done /\ (platform = "boost" \/ ~handle))
    /\ event' = "closed"
    /\ terminate' = FALSE
    /\ main' = "daqs"
    /\ UNCHANGED <<life, hasPort, sid, aux, tidy, enable, handle, poll, daqVars,
                   slotVars, server, world>>

\* The DAQs are deleted one by one, without the mutex of the map; then the
\* session, if the client IsConnected.
IsConnected ==
    /\ hasPort /\ aux # "none" /\ event # "none"
    /\ IF platform = "boost" THEN aux = "open" /\ event = "open"
                             ELSE sid > 0 /\ ~tidy.lost

TidyUpDaq(d) ==
    /\ main = "daqs" /\ d \in mapDaq
    /\ DestroyDaq(d, ~tidy.self)
    /\ UNCHANGED <<appVars, syncVars, poll, daqLock, slotVars, sessions, sent,
                   world>>

\* Mutant of TidyUpSession: the session is forgotten.
TidyUpSessionForgotten ==
    /\ main = "daqs" /\ mapDaq = {}
    /\ aux' = IF aux = "none" THEN "none" ELSE "closed"
    /\ main' = "delete"
    /\ UNCHANGED <<life, hasPort, sid, event, tidy, syncVars, poll, daqVars,
                   slotVars, server, world>>

TidyUpSession ==
    /\ main = "daqs" /\ mapDaq = {}
    /\ sessions' = IF IsConnected /\ ~tidy.self /\ Reaches(aux)
                   THEN sessions \ {sid} ELSE sessions
    /\ aux' = IF aux = "none" THEN "none" ELSE "closed"
    /\ main' = "delete"
    /\ UNCHANGED <<life, hasPort, sid, event, tidy, syncVars, poll, daqVars,
                   slotVars, served, sent, world>>

\* The long-poll thread holds a reference of the event client while it asks
\* and dispatches.
Polling(l) == poll[l].pc \in {"request", "lists", "data", "events", "failed",
                              "stalled"}

\* CClientPtr::Delete waits for the last reference and gives up after 3 s.
DeleteClients ==
    /\ main = "delete"
    /\ event' = IF \E l \in AllLives : Polling(l) THEN event ELSE "none"
    /\ aux' = "none"
    /\ hasPort' = FALSE /\ sid' = 0
    /\ tidy' = [NoTidy EXCEPT !.create = tidy.create]
    /\ main' = "off"
    /\ UNCHANGED <<life, syncVars, poll, daqVars, slotVars, server, world>>

-----------------------------------------------------------------------------
(* LongPollThread. *)

Step(l, label) == poll' = [poll EXCEPT ![l].pc = label]

PollLoop(l) ==
    /\ poll[l].pc = "loop"
    /\ Step(l, IF terminate THEN "ending" ELSE "wait")
    /\ UNCHANGED <<appVars, syncVars, daqVars, slotVars, server, world>>

PollWait(l) ==
    /\ poll[l].pc = "wait" /\ enable
    /\ Step(l, IF event = "none" THEN "ending" ELSE "request")
    /\ UNCHANGED <<appVars, syncVars, daqVars, slotVars, server, world>>

\* The answer: data and events; an error status (400: session unknown), which
\* NavigateGet of the portable client turns into no response; or nothing.
\* The Windows TidyUp closes the socket of a request in progress.
PollAnswer(l) ==
    /\ poll[l].pc = "request"
    /\ \/ /\ Reaches(event)
          /\ \E k \in 0..(MaxEvents - sent) :
                /\ sent' = sent + k
                /\ poll' = [poll EXCEPT ![l] =
                     [@ EXCEPT !.pc = "lists", !.daqs = served,
                               !.events = [i \in 1..k |-> sent + i]]]
       \/ /\ ~Reaches(event) \/ (platform = "atl" /\ terminate)
          /\ poll' = [poll EXCEPT ![l] =
               [@ EXCEPT !.pc = "failed",
                         !.refused = /\ platform = "atl" /\ net
                                     /\ ~Reaches(event)]]
          /\ UNCHANGED sent
    /\ UNCHANGED <<appVars, syncVars, daqVars, slotVars, sessions, served,
                   world>>

\* Each data list goes to its DAQ, looked up and used under the map's mutex.
DispatchList(l) ==
    /\ poll[l].pc = "lists"
    /\ IF poll[l].daqs = {}
       THEN Step(l, "events") /\ UNCHANGED daqLock
       ELSE /\ daqLock = None
            /\ \E d \in poll[l].daqs :
                 IF d \in mapDaq
                 THEN /\ daqLock' = l
                      /\ poll' = [poll EXCEPT ![l] =
                           [@ EXCEPT !.pc = "data", !.daq = d,
                                     !.daqs = poll[l].daqs \ {d}]]
                 ELSE /\ poll' = [poll EXCEPT ![l].daqs = @ \ {d}]
                      /\ UNCHANGED daqLock
    /\ UNCHANGED <<appVars, syncVars, mapDaq, counted, slotVars, server, world>>

DispatchEnd(l) ==
    /\ poll[l].pc = "data"
    /\ daqLock' = None
    /\ poll' = [poll EXCEPT ![l] = [@ EXCEPT !.pc = "lists", !.daq = None]]
    /\ UNCHANGED <<appVars, syncVars, mapDaq, counted, slotVars, server, world>>

\* Mutant of SetEvent: it does not wait until the slot is empty.
SetEventAtOnce(l) ==
    /\ poll[l].pc = "events"
    /\ IF poll[l].events = <<>>
       THEN Step(l, "loop") /\ UNCHANGED slot
       ELSE /\ slot' = [data |-> Head(poll[l].events), empty |-> FALSE]
            /\ poll' = [poll EXCEPT ![l].events = Tail(@)]
    /\ UNCHANGED <<appVars, syncVars, daqVars, copy, got, server, world>>

\* SetEvent waits for an empty slot; after 1 s the rest of the answer is
\* dropped.
SetEvent(l) ==
    /\ poll[l].pc = "events"
    /\ IF poll[l].events = <<>> \/ ~slot.empty
       THEN /\ poll' = [poll EXCEPT ![l] =
                          [@ EXCEPT !.pc = "loop", !.events = <<>>]]
            /\ UNCHANGED slot
       ELSE /\ slot' = [data |-> Head(poll[l].events), empty |-> FALSE]
            /\ poll' = [poll EXCEPT ![l].events = Tail(@)]
    /\ UNCHANGED <<appVars, syncVars, daqVars, copy, got, server, world>>

\* No response: the thread terminates itself when errors last; an error
\* status stalls it (OnLongPollErrorResponse) until it shall terminate.
PollFailed(l) ==
    /\ poll[l].pc = "failed"
    /\ IF poll[l].refused
       THEN Step(l, "stalled") /\ UNCHANGED terminate
       ELSE /\ terminate' \in {terminate, TRUE}
            /\ Step(l, "loop")
    /\ UNCHANGED <<appVars, enable, done, handle, daqVars, slotVars, server,
                   world>>

PollStalled(l) ==
    /\ poll[l].pc = "stalled" /\ terminate
    /\ Step(l, "loop")
    /\ UNCHANGED <<appVars, syncVars, daqVars, slotVars, server, world>>

\* The Windows thread forgets its handle before it sets the event.
PollEnding(l) ==
    /\ poll[l].pc = "ending"
    /\ Step(l, "setDone")
    /\ handle' = FALSE
    /\ UNCHANGED <<appVars, enable, done, terminate, daqVars, slotVars, server,
                   world>>

PollDone(l) ==
    /\ poll[l].pc = "setDone"
    /\ Step(l, "over")
    /\ done' = TRUE
    /\ UNCHANGED <<appVars, enable, terminate, handle, daqVars, slotVars,
                   server, world>>

-----------------------------------------------------------------------------
(* GetEvent: copies the data, then marks the slot empty. *)

GetEvent ==
    /\ copy = 0 /\ ~slot.empty
    /\ copy' = slot.data
    /\ UNCHANGED <<appVars, syncVars, poll, daqVars, slot, got, server, world>>

GetEventEnd ==
    /\ copy # 0
    /\ slot' = [slot EXCEPT !.empty = TRUE]
    /\ got' = Append(got, copy) /\ copy' = 0
    /\ UNCHANGED <<appVars, syncVars, poll, daqVars, server, world>>

-----------------------------------------------------------------------------
(* The server drops sessions that do not poll; the network fails. *)

ExpireSession ==
    /\ \E s \in sessions : /\ poll[s].pc # "request" \/ ~net
                           /\ sessions' = sessions \ {s}
    /\ UNCHANGED <<appVars, syncVars, poll, daqVars, slotVars, served, sent,
                   world>>

Network ==
    /\ net => fails < MaxFail
    /\ net' = ~net
    /\ fails' = IF net THEN fails + 1 ELSE fails
    /\ UNCHANGED <<appVars, syncVars, poll, daqVars, slotVars, server,
                   platform>>

TidyUp ==
    \/ WaitForPollThread \/ TidyUpSession \/ DeleteClients
    \/ \E d \in Daqs : TidyUpDaq(d)

PollThread(l) ==
    \/ PollLoop(l) \/ PollWait(l) \/ PollAnswer(l)
    \/ DispatchList(l) \/ DispatchEnd(l) \/ SetEvent(l)
    \/ PollFailed(l) \/ PollStalled(l) \/ PollEnding(l) \/ PollDone(l)

Next ==
    \/ CreateBoost \/ CreateAtl \/ TidyUpBegin \/ TidyUp
    \/ \E d \in Daqs : AddDaq(d) \/ UpdateDaq(d) \/ DeleteDaq(d)
    \/ \E on \in BOOLEAN : SuspendResume(on)
    \/ \E l \in AllLives : PollThread(l)
    \/ GetEvent \/ GetEventEnd
    \/ ExpireSession \/ Network

Spec == Init /\ [][Next]_vars

\* Threads that can go on do; requests end.
FairSpec ==
    /\ Spec
    /\ WF_vars(TidyUp)
    /\ \A l \in AllLives : WF_vars(PollThread(l))

-----------------------------------------------------------------------------
(* Properties *)

\* Every variable has a value of its type.
TypeOK ==
    /\ main \in {"off", "on", "waitDone", "daqs", "delete"}
    /\ life \in 0..2 /\ sid \in 0..2
    /\ {hasPort, enable, done, terminate, handle, net} \subseteq BOOLEAN
    /\ {aux, event} \subseteq {"none", "open", "closed"}
    /\ tidy \in [self : BOOLEAN, lost : BOOLEAN, create : BOOLEAN]
    /\ \A l \in AllLives :
          /\ poll[l].pc \in {"none", "loop", "wait", "request", "lists",
                             "data", "events", "failed", "stalled", "ending",
                             "setDone", "over"}
          /\ poll[l].daqs \subseteq Daqs /\ poll[l].daq \in Daqs \cup {None}
    /\ mapDaq \subseteq Daqs /\ counted \subseteq mapDaq
    /\ daqLock \in AllLives \cup {None}
    /\ slot \in [data : 0..MaxEvents, empty : BOOLEAN]
    /\ sessions \subseteq AllLives /\ served \subseteq Daqs

\* After TidyUp the long-poll thread has left its loop: the event buffer may
\* be changed and the client deleted.
PollThreadStopped ==
    main \in {"daqs", "delete", "off"} =>
        \A l \in AllLives : poll[l].pc \in {"none", "ending", "setDone", "over"}

\* Data is dispatched only to a DAQ that has not been deleted, by the
\* application or by TidyUp, which takes no lock.
DispatchesToLiveDaq ==
    \A l \in AllLives : poll[l].pc = "data" => poll[l].daq \in mapDaq

\* What the long-poll thread touches exists: TidyUp waits for the thread, and
\* a DAQ in use is not deleted.
ClientInv == TypeOK /\ PollThreadStopped /\ DispatchesToLiveDaq

\* The reader gets events in the order the server sent them, none twice, and
\* never half of one and half of the next: the slot is not overwritten while
\* it is read.
EventsInOrder ==
    /\ \A i \in 1..(Len(got) - 1) : got[i] < got[i + 1]
    /\ copy # 0 => slot = [data |-> copy, empty |-> FALSE]

LeavesSession ==
    /\ main = "daqs" /\ main' = "delete"
    /\ net /\ ~tidy.lost /\ ~tidy.self
    /\ sid \in sessions'

\* TidyUp of the Windows client over a working connection leaves no session
\* behind at the server.  (The portable client does not ask it to delete any.)
AtlTidyUpDeletesSession == [][platform = "atl" => ~LeavesSession]_vars

\* TidyUp comes to an end, whatever the thread is doing.
TidyUpEnds == main = "waitDone" ~> main = "off"

=============================================================================
