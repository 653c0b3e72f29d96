------------------------------ MODULE DaqCycle ------------------------------
(***************************************************************************)
(* The data acquisitions (DAQs) of one session: CDaq with its cycle thread *)
(* (ServerLib/Daq.cpp), the session's DAQ map (ServerLib/Session.cpp), the *)
(* handlers that put and delete DAQs, and the part of Handle_EventPolling  *)
(* that transfers their data (ServerLib/LoggerIf.cpp).                     *)
(*                                                                         *)
(* Handlers keep the session list mutex from begin to end, so one handler  *)
(* runs at a time; it is the process h.  Besides it there are the cycle    *)
(* thread of each DAQ object and the client's long poll.  Objects are      *)
(* numbered in the order of construction and never reused.                 *)
(***************************************************************************)
EXTENDS Integers, Sequences

CONSTANTS
    Names,         \* DAQ names clients use
    Trend,         \* the kind CDaqTrend; its data are not modelled here
    List,          \* the kind CDaqValues
    VarLists,      \* variable lists a PUT may ask for (sequences)
    NoList,        \* a PUT of a list that names no variables, or of a trend
    Unknown,       \* the name of no variable
    Cycles,        \* update cycles a PUT may ask for
    DefaultCycle,  \* ABK_DAQ_CYCLE_DEFAULT
    MaxObject,     \* bound: DAQ objects constructed in a behaviour
    MaxPut,        \* bound: PUT requests in a behaviour
    NameClashes,   \* may a PUT name an existing DAQ of the other kind?
    ExternalTimer  \* may OnDAQCreate ask for an external timer?

Objects == 1..MaxObject
Default == DefaultCycle
AllCycles == Cycles \cup {DefaultCycle}
Kinds == {List, Trend}
ListNames == UNION {{l[i] : i \in DOMAIN l} : l \in VarLists}

ASSUME DaqAssumption ==
    /\ MaxObject \in Nat /\ MaxPut \in Nat
    /\ 0 \notin Cycles /\ DefaultCycle # 0
    /\ VarLists \subseteq Seq(ListNames)
    /\ NoList \notin VarLists /\ List # Trend
    /\ NameClashes \in BOOLEAN /\ ExternalTimer \in BOOLEAN

VARIABLES
    sessionAlive, \* the CSession is allocated
    sessOwner,    \* owner of CSession::m_mutex: "none", "h" or "poll"
    daqMap,       \* CSession::m_mapDaq: from names to objects, 0 if absent
    nextObject,   \* the object the next "new" returns
    allocated,    \* objects that are allocated
    kind,         \* kind[o]: its class
    vars_,        \* vars_[o]: CDaqValues::m_lstVars
    cycle,        \* cycle[o]: CDaq::m_nCycleMs
    pending,      \* pending[o]: CDaq::m_bTransferPending
    terminate,    \* terminate[o]: CDaq::m_bTerminate
    active,       \* active[o]: CDaq::m_bMaintainCycleActive
    wake,         \* wake[o]: CDaq::m_eventSleep is set
    daqOwner,     \* daqOwner[o]: owner of CDaq::m_mutex: 0 or the cycle thread
    thread,       \* thread[o]: program counter of MaintainCycle
    sleeping,     \* sleeping[o]: the cycle the thread read for its next sleep
    h,            \* the running handler
    poll,         \* the long poll: its program counter
    todo,         \* objects the poll has yet to look at
    requested,    \* history: requested[o], the list the last PUT asks for
    puts          \* number of PUT requests so far

objVars == <<kind, vars_, cycle, pending, terminate, active, wake, daqOwner>>
mapVars == <<daqMap, nextObject, allocated>>
threadVars == <<thread, sleeping>>
pollVars == <<poll, todo>>
histVars == <<requested, puts>>
vars == <<sessionAlive, sessOwner, mapVars, objVars, threadVars, h, pollVars,
          histVars>>

ThreadPcs == {"none", "read", "enter", "sleep", "woken", "tic", "ticFire",
              "done"}
HandlerPcs == {"idle", "clear", "add", "cycle", "set", "reset", "fireSet",
               "fireReset", "signal", "join", "next"}
Handler == [pc : HandlerPcs, obj : Objects \cup {0}, list : Seq(ListNames),
            cycle : AllCycles \cup {0}, ending : BOOLEAN]
IdleHandler == [pc |-> "idle", obj |-> 0, list |-> <<>>, cycle |-> 0,
                ending |-> FALSE]

Mapped == {daqMap[n] : n \in Names} \ {0}

\* CAbkEvent::Set on m_eventSleep of o: the flag, and whoever sleeps wakes up.
SetWake(o) ==
    /\ wake' = [wake EXCEPT ![o] = TRUE]
    /\ thread' = [thread EXCEPT ![o] = IF @ = "sleep" THEN "woken" ELSE @]

\* CSession::m_mutex can be locked.
SessionUnlocked == sessOwner = "none"

-----------------------------------------------------------------------------
Init ==
    /\ sessionAlive = TRUE
    /\ sessOwner = "none"
    /\ daqMap = [n \in Names |-> 0]
    /\ nextObject = 1
    /\ allocated = {}
    /\ kind = [o \in Objects |-> List]
    /\ vars_ = [o \in Objects |-> <<>>]
    /\ cycle = [o \in Objects |-> Default]
    /\ pending = [o \in Objects |-> FALSE]
    /\ terminate = [o \in Objects |-> FALSE]
    /\ active = [o \in Objects |-> FALSE]
    /\ wake = [o \in Objects |-> FALSE]
    /\ daqOwner = [o \in Objects |-> 0]
    /\ thread = [o \in Objects |-> "none"]
    /\ sleeping = [o \in Objects |-> 0]
    /\ h = IdleHandler
    /\ poll = "idle"
    /\ todo = {}
    /\ requested = [o \in Objects |-> <<>>]
    /\ puts = 0

-----------------------------------------------------------------------------
(* PUT of a DAQ: Handle_PutDaqList and Handle_PutDaqTrend *)

\* The existing DAQ of that name and kind, 0 if there is none.
Existing(n, k) ==
    IF daqMap[n] # 0 /\ kind[daqMap[n]] = k THEN daqMap[n] ELSE 0

\* What the handler does with object o once it has it: the variables, if the
\* request lists any, then the cycle, if it has one (c # 0), then Fire.
Update(o, list, c) ==
    /\ h' = [pc |-> IF list # NoList THEN "clear"
                    ELSE IF c # 0 THEN "cycle" ELSE "fireSet",
             obj |-> o, list |-> IF list = NoList THEN <<>> ELSE list,
             cycle |-> c, ending |-> FALSE]
    /\ requested' = [requested EXCEPT ![o] = IF list = NoList THEN @ ELSE list]
    /\ puts' = puts + 1

PutAllowed(k, list) ==
    /\ h.pc = "idle" /\ sessionAlive /\ puts < MaxPut
    /\ SessionUnlocked
    /\ k = Trend => list = NoList

\* CSession::PutDaqList/PutDaqTrend, under the session's mutex: an existing
\* DAQ is updated.
PutExisting(n, k, list, c) ==
    /\ PutAllowed(k, list)
    /\ Existing(n, k) # 0
    /\ Update(Existing(n, k), list, c)
    /\ UNCHANGED <<sessionAlive, sessOwner, mapVars, objVars, threadVars,
                   pollVars>>

\* Otherwise a new one is constructed and inserted (an insert under a name
\* that is taken changes nothing), and Create starts its cycle thread unless
\* the application brings its own timer.
PutNew(n, k, list, c) ==
    /\ PutAllowed(k, list)
    /\ Existing(n, k) = 0
    /\ NameClashes \/ daqMap[n] = 0
    /\ nextObject \in Objects
    /\ allocated' = allocated \cup {nextObject}
    /\ daqMap' = [daqMap EXCEPT ![n] = IF @ = 0 THEN nextObject ELSE @]
    /\ kind' = [kind EXCEPT ![nextObject] = k]
    /\ \E external \in {FALSE, ExternalTimer} :
          /\ active' = [active EXCEPT ![nextObject] = ~external]
          /\ thread' = [thread EXCEPT ![nextObject] =
                                            IF external THEN "none" ELSE "read"]
    /\ nextObject' = nextObject + 1
    /\ Update(nextObject, list, c)
    /\ UNCHANGED <<sessionAlive, sessOwner, vars_, cycle, pending, terminate,
                   wake, daqOwner, sleeping, pollVars>>

\* Mutant of PutClear: the old list stays.
PutClearForgets ==
    /\ h.pc = "clear"
    /\ daqOwner[h.obj] = 0
    /\ h' = [h EXCEPT !.pc = "add"]
    /\ UNCHANGED <<sessionAlive, sessOwner, mapVars, objVars, threadVars,
                   pollVars, histVars>>

\* ClearList, under the DAQ's mutex.
PutClear ==
    /\ h.pc = "clear"
    /\ daqOwner[h.obj] = 0
    /\ vars_' = [vars_ EXCEPT ![h.obj] = <<>>]
    /\ h' = [h EXCEPT !.pc = "add"]
    /\ UNCHANGED <<sessionAlive, sessOwner, mapVars, kind, cycle, pending,
                   terminate, active, wake, daqOwner, threadVars, pollVars,
                   histVars>>

\* AddVar, under the DAQ's mutex, variable by variable; the first unknown
\* variable ends the list, and the request still succeeds.
PutAdd ==
    /\ h.pc = "add"
    /\ daqOwner[h.obj] = 0
    /\ h.list # <<>>
    /\ IF Head(h.list) = Unknown
       THEN /\ h' = [h EXCEPT !.list = <<>>]
            /\ UNCHANGED vars_
       ELSE /\ h' = [h EXCEPT !.list = Tail(@)]
            /\ vars_' = [vars_ EXCEPT ![h.obj] = Append(@, Head(h.list))]
    /\ UNCHANGED <<sessionAlive, sessOwner, mapVars, kind, cycle, pending,
                   terminate, active, wake, daqOwner, threadVars, pollVars,
                   histVars>>

PutListDone ==
    /\ h.pc = "add"
    /\ h.list = <<>>
    /\ h' = [h EXCEPT !.pc = IF h.cycle = 0 THEN "fireSet" ELSE "cycle"]
    /\ UNCHANGED <<sessionAlive, sessOwner, mapVars, objVars, threadVars,
                   pollVars, histVars>>

\* SetCycle: the new cycle under the DAQ's mutex, then Fire.
SetCycle ==
    /\ h.pc = "cycle"
    /\ daqOwner[h.obj] = 0
    /\ cycle' = [cycle EXCEPT ![h.obj] = h.cycle]
    /\ h' = [h EXCEPT !.pc = "set"]
    /\ UNCHANGED <<sessionAlive, sessOwner, mapVars, kind, vars_, pending,
                   terminate, active, wake, daqOwner, threadVars, pollVars,
                   histVars>>

\* Fire: Set, then Reset; once from SetCycle, once from the handler.
FireSet ==
    /\ h.pc \in {"set", "fireSet"}
    /\ SetWake(h.obj)
    /\ h' = [h EXCEPT !.pc = IF @ = "set" THEN "reset" ELSE "fireReset"]
    /\ UNCHANGED <<sessionAlive, sessOwner, mapVars, kind, vars_, cycle,
                   pending, terminate, active, daqOwner, sleeping, pollVars,
                   histVars>>

FireReset ==
    /\ h.pc \in {"reset", "fireReset"}
    /\ wake' = [wake EXCEPT ![h.obj] = FALSE]
    /\ h' = IF h.pc = "reset" THEN [h EXCEPT !.pc = "fireSet"] ELSE IdleHandler
    /\ UNCHANGED <<sessionAlive, sessOwner, mapVars, kind, vars_, cycle,
                   pending, terminate, active, daqOwner, threadVars, pollVars,
                   histVars>>

-----------------------------------------------------------------------------
(* Deleting: a DAQ, or the session with all of them *)

\* DeleteDaqList keeps the session's mutex while it destroys the DAQ;
\* ~CDaq raises m_bTerminate.
DeleteDaq(n) ==
    /\ h.pc = "idle" /\ sessionAlive
    /\ SessionUnlocked
    /\ daqMap[n] # 0
    /\ sessOwner' = "h"
    /\ terminate' = [terminate EXCEPT ![daqMap[n]] = TRUE]
    /\ h' = [IdleHandler EXCEPT !.pc = "signal", !.obj = daqMap[n]]
    /\ daqMap' = [daqMap EXCEPT ![n] = 0]
    /\ UNCHANGED <<sessionAlive, nextObject, allocated, kind, vars_, cycle,
                   pending, active, wake, daqOwner, threadVars, pollVars,
                   histVars>>

\* ~CSession, which runs while no poll is in progress; no handler finds the
\* session any more.
EndSession ==
    /\ h.pc = "idle" /\ sessionAlive
    /\ poll = "idle"
    /\ h' = [IdleHandler EXCEPT !.pc = "next", !.ending = TRUE]
    /\ UNCHANGED <<sessionAlive, sessOwner, mapVars, objVars, threadVars,
                   pollVars, histVars>>

\* ~CDaq wakes the thread if there is one ...
DtorSignal ==
    /\ h.pc = "signal"
    /\ IF active[h.obj] THEN SetWake(h.obj) ELSE UNCHANGED <<wake, thread>>
    /\ h' = [h EXCEPT !.pc = "join"]
    /\ UNCHANGED <<sessionAlive, sessOwner, mapVars, kind, vars_, cycle,
                   pending, terminate, active, daqOwner, sleeping, pollVars,
                   histVars>>

\* Mutant of DtorJoin: the thread is not waited for.
DtorJoinAtOnce ==
    /\ h.pc = "join"
    /\ allocated' = allocated \ {h.obj}
    /\ sessOwner' = "none"
    /\ h' = IF h.ending THEN [h EXCEPT !.pc = "next"] ELSE IdleHandler
    /\ UNCHANGED <<sessionAlive, daqMap, nextObject, objVars, threadVars,
                   pollVars, histVars>>

\* ... waits until it is gone, and the memory is released.
DtorJoin ==
    /\ h.pc = "join"
    /\ ~active[h.obj]
    /\ allocated' = allocated \ {h.obj}
    /\ sessOwner' = "none"
    /\ h' = IF h.ending THEN [h EXCEPT !.pc = "next"] ELSE IdleHandler
    /\ UNCHANGED <<sessionAlive, daqMap, nextObject, objVars, threadVars,
                   pollVars, histVars>>

\* ~CSession destroys one DAQ after the other; what is left of the map is
\* released with the session.
NextDaq ==
    /\ h.pc = "next"
    /\ \/ /\ Mapped = {}
          /\ sessionAlive' = FALSE
          /\ h' = IdleHandler
          /\ UNCHANGED <<daqMap, terminate>>
       \/ \E n \in Names :
            /\ daqMap[n] # 0
            /\ terminate' = [terminate EXCEPT ![daqMap[n]] = TRUE]
            /\ h' = [h EXCEPT !.pc = "signal", !.obj = daqMap[n]]
            /\ daqMap' = [daqMap EXCEPT ![n] = 0]
            /\ UNCHANGED sessionAlive
    /\ UNCHANGED <<sessOwner, nextObject, allocated, kind, vars_, cycle,
                   pending, active, wake, daqOwner, threadVars, pollVars,
                   histVars>>

-----------------------------------------------------------------------------
(* MaintainCycle of object o *)

\* The thread reads the cycle under the DAQ's mutex ...
CycleRead(o) ==
    /\ thread[o] = "read"
    /\ daqOwner[o] = 0
    /\ sleeping' = [sleeping EXCEPT ![o] = cycle[o]]
    /\ thread' = [thread EXCEPT ![o] = "enter"]
    /\ UNCHANGED <<sessionAlive, sessOwner, mapVars, objVars, h, pollVars,
                   histVars>>

\* ... and sleeps that long, unless m_eventSleep is set already.
CycleEnterSleep(o) ==
    /\ thread[o] = "enter"
    /\ thread' = [thread EXCEPT ![o] = IF wake[o] THEN "woken" ELSE "sleep"]
    /\ UNCHANGED <<sessionAlive, sessOwner, mapVars, objVars, sleeping, h,
                   pollVars, histVars>>

CycleTimeout(o) ==
    /\ thread[o] = "sleep"
    /\ thread' = [thread EXCEPT ![o] = "tic"]
    /\ UNCHANGED <<sessionAlive, sessOwner, mapVars, objVars, sleeping, h,
                   pollVars, histVars>>

\* Mutant of CycleWoken: m_bTerminate is not looked at.
CycleWokenUnchecked(o) ==
    /\ thread[o] = "woken"
    /\ thread' = [thread EXCEPT ![o] = "tic"]
    /\ UNCHANGED <<sessionAlive, sessOwner, mapVars, objVars, sleeping, h,
                   pollVars, histVars>>

\* An interrupted sleep is the only place where m_bTerminate is looked at.
CycleWoken(o) ==
    /\ thread[o] = "woken"
    /\ thread' = [thread EXCEPT ![o] = IF terminate[o] THEN "done" ELSE "tic"]
    /\ active' = [active EXCEPT ![o] = ~terminate[o]]
    /\ UNCHANGED <<sessionAlive, sessOwner, mapVars, kind, vars_, cycle,
                   pending, terminate, wake, daqOwner, sleeping, h, pollVars,
                   histVars>>

\* TimerTic: flag and event under the DAQ's mutex.
TimerTic(o) ==
    /\ thread[o] = "tic"
    /\ daqOwner[o] = 0
    /\ daqOwner' = [daqOwner EXCEPT ![o] = o]
    /\ pending' = [pending EXCEPT ![o] = TRUE]
    /\ thread' = [thread EXCEPT ![o] = "ticFire"]
    /\ UNCHANGED <<sessionAlive, sessOwner, mapVars, kind, vars_, cycle,
                   terminate, active, wake, sleeping, h, pollVars, histVars>>

\* The session's event wakes the poll, if it waits.
TimerTicFire(o) ==
    /\ thread[o] = "ticFire"
    /\ daqOwner' = [daqOwner EXCEPT ![o] = 0]
    /\ poll' = IF poll = "waiting" THEN "awake" ELSE poll
    /\ thread' = [thread EXCEPT ![o] = "read"]
    /\ UNCHANGED <<sessionAlive, sessOwner, mapVars, kind, vars_, cycle,
                   pending, terminate, active, wake, sleeping, h, todo,
                   histVars>>

\* TimerTic called by the application's own timer.
ExternalTic(o) ==
    /\ o \in Mapped
    /\ thread[o] = "none"
    /\ daqOwner[o] = 0
    /\ pending' = [pending EXCEPT ![o] = TRUE]
    /\ poll' = IF poll = "waiting" THEN "awake" ELSE poll
    /\ UNCHANGED <<sessionAlive, sessOwner, mapVars, kind, vars_, cycle,
                   terminate, active, wake, daqOwner, threadVars, h, todo,
                   histVars>>

-----------------------------------------------------------------------------
(* The long poll *)

PollBegin ==
    /\ poll = "idle" /\ sessionAlive
    /\ h.pc = "idle" \* the list mutex
    /\ poll' = "waiting"
    /\ UNCHANGED <<sessionAlive, sessOwner, mapVars, objVars, threadVars, h,
                   todo, histVars>>

PollTimeout ==
    /\ poll = "waiting"
    /\ poll' = "awake"
    /\ UNCHANGED <<sessionAlive, sessOwner, mapVars, objVars, threadVars, h,
                   todo, histVars>>

PollLock ==
    /\ poll = "awake"
    /\ SessionUnlocked
    /\ sessOwner' = "poll"
    /\ todo' = Mapped
    /\ poll' = "format"
    /\ UNCHANGED <<sessionAlive, mapVars, objVars, threadVars, h, histVars>>

\* Mutant of PollDaq: ClearTransferPendingStatus is not called.
PollDaqForgets(o) ==
    /\ poll = "format"
    /\ o \in todo
    /\ daqOwner[o] = 0
    /\ todo' = todo \ {o}
    /\ UNCHANGED <<sessionAlive, sessOwner, mapVars, objVars, threadVars, h,
                   poll, histVars>>

\* Under the DAQ's mutex: data that are pending, vars_[o], go into the answer.
PollDaq(o) ==
    /\ poll = "format"
    /\ o \in todo
    /\ daqOwner[o] = 0
    /\ pending' = [pending EXCEPT ![o] = FALSE]
    /\ todo' = todo \ {o}
    /\ UNCHANGED <<sessionAlive, sessOwner, mapVars, kind, vars_, cycle,
                   terminate, active, wake, daqOwner, threadVars, h, poll,
                   histVars>>

PollUnlock ==
    /\ poll = "format"
    /\ todo = {}
    /\ sessOwner' = "none"
    /\ poll' = "idle"
    /\ UNCHANGED <<sessionAlive, mapVars, objVars, threadVars, h, todo,
                   histVars>>

-----------------------------------------------------------------------------
HandlerStep == PutClear \/ PutAdd \/ PutListDone \/ SetCycle \/ FireSet
               \/ FireReset \/ DtorSignal \/ DtorJoin \/ NextDaq

CycleStep(o) == CycleRead(o) \/ CycleEnterSleep(o) \/ CycleTimeout(o)
                \/ CycleWoken(o) \/ TimerTic(o) \/ TimerTicFire(o)

PollStep == PollBegin \/ PollTimeout \/ PollLock \/ PollUnlock
            \/ \E o \in Objects : PollDaq(o)

Request ==
    \/ \E n \in Names, k \in Kinds, l \in VarLists \cup {NoList},
          c \in Cycles \cup {0} :
          PutExisting(n, k, l, c) \/ PutNew(n, k, l, c)
    \/ \E n \in Names : DeleteDaq(n)
    \/ EndSession

Next == \/ Request \/ HandlerStep \/ PollStep
        \/ \E o \in Objects : CycleStep(o) \/ ExternalTic(o)

Spec == Init /\ [][Next]_vars

\* Threads are scheduled, sleeps and waits end, and the client polls again
\* after every answer.  The cycle threads of the finitely many objects and
\* the poll compete for the mutexes again and again, so getting one in the
\* end takes strong fairness.
Fairness ==
    /\ SF_vars(HandlerStep)
    /\ SF_vars(PollStep)
    /\ \A o \in Objects : SF_vars(CycleStep(o))

FairSpec == Spec /\ Fairness

-----------------------------------------------------------------------------
(* Properties *)

\* Types of the state of CSession, CDaq and the threads.
TypeOK ==
    /\ sessionAlive \in BOOLEAN
    /\ sessOwner \in {"none", "h", "poll"}
    /\ daqMap \in [Names -> Objects \cup {0}]
    /\ nextObject \in 1..(MaxObject + 1)
    /\ allocated \subseteq Objects
    /\ kind \in [Objects -> Kinds]
    /\ vars_ \in [Objects -> Seq(ListNames \ {Unknown})]
    /\ cycle \in [Objects -> AllCycles]
    /\ pending \in [Objects -> BOOLEAN]
    /\ terminate \in [Objects -> BOOLEAN]
    /\ active \in [Objects -> BOOLEAN]
    /\ wake \in [Objects -> BOOLEAN]
    /\ daqOwner \in [Objects -> Objects \cup {0}]
    /\ thread \in [Objects -> ThreadPcs]
    /\ sleeping \in [Objects -> AllCycles \cup {0}]
    /\ h \in Handler
    /\ poll \in {"idle", "waiting", "awake", "format"}
    /\ todo \subseteq Objects
    /\ requested \in [Objects -> VarLists \cup {<<>>}]
    /\ puts \in 0..MaxPut

\* A cycle thread works on an allocated DAQ of a living session: ~CDaq
\* outlives it (m_bMaintainCycleActive, Daq.cpp), and ~CSession all DAQs.
ThreadOwnsLiveObject ==
    \A o \in Objects : thread[o] \notin {"none", "done"} =>
        o \in allocated /\ sessionAlive

\* The list mutex keeps a poll from starting on a session that is being
\* destroyed, and the session's mutex keeps a DAQ whose data are being
\* formatted from being destroyed (DeleteDaqList, Handle_EventPolling).
FormattedDaqsAlive == poll = "format" => todo \subseteq allocated

\* What a list request resolves to: its variables up to an unknown one.
Resolved(list) ==
    LET bad == {i \in DOMAIN list : list[i] = Unknown}
        n == IF bad = {} THEN Len(list)
             ELSE (CHOOSE i \in bad : \A j \in bad : i <= j) - 1
    IN  SubSeq(list, 1, n)

\* A poll may format a DAQ between any two steps of a PUT.  What it sends never
\* mixes the old list with the new one: once the PUT has cleared the list it is
\* an initial part of what the PUT asks for, and all of it when no PUT is
\* working on the DAQ (ClearList, AddVar and FormatAllData, Daq.cpp).
AnswersMatchRequest ==
    [][\A o \in Objects : PollDaq(o) /\ pending[o] =>
           LET all == Resolved(requested[o])
           IN  /\ h.obj # o => vars_[o] = all
               /\ h.obj = o /\ h.pc # "clear" =>
                     /\ Len(vars_[o]) <= Len(all)
                     /\ vars_[o] = SubSeq(all, 1, Len(vars_[o]))]_vars

\* Every allocated DAQ can be found under a name, or is in the hands of a
\* handler: a name is never "already used" by a DAQ of the other kind
\* (PutDaqList, PutDaqTrend: "null if existing daq is not of type ...").
DaqsReachable == h.pc = "idle" => allocated = Mapped

\* Nobody sleeps while the event is set, on whichever side of Set the thread
\* went to sleep: that is all that makes a new cycle heard before the old one
\* has passed, and the end of the DAQ at all (CDaq::Fire, ~CDaq, Daq.cpp).
NobodySleepsThroughSet ==
    \A o \in Objects : wake[o] => thread[o] # "sleep"

\* Whoever works on a DAQ finds it allocated, and whoever looks for one or
\* waits for it finds it: threads, polls and handlers, among PUTs and DELETEs.
DaqInv ==
    /\ TypeOK /\ ThreadOwnsLiveObject /\ FormattedDaqsAlive /\ DaqsReachable
    /\ NobodySleepsThroughSet

\* DELETE of a DAQ returns although it holds the session's mutex while it
\* waits for the cycle thread, and so does the end of the session, with all
\* DAQs deleted (DeleteDaqList and ~CSession, Session.cpp).
DeleteReturns ==
    /\ h.pc = "signal" /\ ~h.ending ~> h.pc = "idle"
    /\ h.ending ~> ~sessionAlive /\ allocated = {}

\* What a cycle recorded is transferred to the client, or the DAQ or its
\* session is deleted (TimerTic, Handle_EventPolling).
TransferReaches ==
    \A o \in Objects :
        pending[o] ~> ~pending[o] \/ o \notin allocated \/ h.ending
=============================================================================
