----------------------------- MODULE VarTrends -----------------------------
(***************************************************************************)
(* The variable list and the trends recorded from it: the lazily built     *)
(* list of CVarRef objects (ServerLib/LoggerIf.cpp), their trend lists     *)
(* (ServerLib/VarRef.cpp), CDaqTrend (ServerLib/Daq.cpp), and the demo     *)
(* logger whose pace thread feeds them (ServerExample).                    *)
(*                                                                         *)
(* Threads: HTTP workers, the logger's pace thread, and the main thread,   *)
(* which announces changes of the list and shuts the server down.          *)
(* Variables are named 1..NumVars, as the logger walks them in that order; *)
(* every time the list is built each name gets a new object.  The value    *)
(* of a variable stands for the tick that produced it.  The trends of one  *)
(* session are modelled; when their cycles elapse is left open (see        *)
(* DaqCycle).  The build is one without assertions (NDEBUG).  When the     *)
(* list is built again requests go on reading it, a data race: here an     *)
(* object is in the list as a whole or not at all.                         *)
(***************************************************************************)
EXTENDS Integers, Sequences, FiniteSets

CONSTANTS
    Workers,          \* the threads of the HTTP server
    None,             \* no thread, no object
    NumVars,          \* number of variables of the logger
    MaxTrend,         \* bound: trends created in a behaviour
    MaxTick,          \* bound: pace ticks
    MaxBuild,         \* bound: times the variable list is built; one more than
                      \* the changes of it that are announced
    DaqNames,         \* names a client gives to its trends
    SwitchesVar,      \* may a client PUT a trend again with another variable?
    ServerStopsFirst  \* is the HTTP server stopped before the interface?

Names == 1..NumVars
Vars == Names \X (1..MaxBuild)    \* the CVarRef objects
Trends == 1..MaxTrend             \* the CDaqTrend objects

ASSUME TrendAssumption ==
    /\ NumVars \in Nat \ {0} /\ MaxTrend \in Nat
    /\ MaxTick \in Nat /\ MaxBuild \in Nat \ {0}
    /\ None \notin Workers \cup Vars \cup Trends /\ None # "pace"
    /\ SwitchesVar \in BOOLEAN /\ ServerStopsFirst \in BOOLEAN

VARIABLES
    firstRequest, \* m_bFirstRequest
    built,        \* how often the list has been built
    changes,      \* how often a change of it has been announced
    measVars,     \* m_lstMeasVars
    allocated,    \* the CVarRef objects that exist
    link,         \* link[n]: FAKEVAR::pVarInterface
    trendsOf,     \* trendsOf[v]: CVarRef::m_lstTrends
    varOwner,     \* varOwner[v]: who holds CVarRef::m_mutex
    daqs,         \* daqs[d]: the session's m_mapDaq
    life,         \* life[t] of a trend: "none", "live", "dying" or "freed"
    traced,       \* CDaqTrend::m_pVar
    array,        \* array[t]: which m_pJaData t has; 0 when it is deleted
    queue,        \* values in the array
    sent,         \* history: values put into answers
    since,        \* history: the value when the trend was registered
    pace,         \* the pace thread: its locals, and where it is
    value,        \* value[n]: the tick that produced the value
    pc,           \* of each worker
    arg,          \* what its request is about
    main          \* the main thread

vars == <<firstRequest, built, changes, measVars, allocated, link, trendsOf,
          varOwner, daqs, life, traced, array, queue, sent, since, pace, value,
          pc, arg, main>>
list == <<firstRequest, built, changes, measVars, link>>
heap == <<allocated, life>>
records == <<array, queue, sent>>
registry == <<trendsOf, since>>
thePace == <<pace, value>>

Pace == "pace"
Main == "main"
NoArg == [var |-> None, trend |-> None, n |-> 0]
Asleep == [pc |-> "sleep", n |-> 0, var |-> None, left |-> {}, trend |-> None,
           array |-> 0]

Init ==
    /\ firstRequest = TRUE
    /\ built = 0
    /\ changes = 0
    /\ measVars = <<>>
    /\ allocated = {}
    /\ link = [n \in Names |-> None]
    /\ trendsOf = [v \in Vars |-> {}]
    /\ varOwner = [v \in Vars |-> None]
    /\ daqs = [d \in DaqNames |-> None]
    /\ life = [t \in Trends |-> "none"]
    /\ traced = [t \in Trends |-> None]
    /\ array = [t \in Trends |-> 0]
    /\ queue = [t \in Trends |-> <<>>]
    /\ sent = [t \in Trends |-> <<>>]
    /\ since = [t \in Trends |-> 0]
    /\ pace = Asleep
    /\ value = [n \in Names |-> 0]
    /\ pc = [w \in Workers |-> "idle"]
    /\ arg = [w \in Workers |-> NoArg]
    /\ main = "serving"

Goto(w, label) == pc' = [pc EXCEPT ![w] = label]

-----------------------------------------------------------------------------
(* The lazily built list.  Every request passes m_mutexFirstRequest; the   *)
(* one that finds the flag set builds the list while it holds it.          *)

Building == \E w \in Workers : pc[w] = "build"

\* The server accepts requests until it is told to stop.
Serving == main = "serving" \/ ~ServerStopsFirst

\* HandleHttpRequest up to the dispatch.
Arrive(w) ==
    /\ pc[w] = "idle" /\ Serving
    /\ ~Building
    /\ IF firstRequest
       THEN /\ firstRequest' = FALSE
            /\ built' = built + 1
            /\ Goto(w, "build")
       ELSE Goto(w, "dispatch") /\ UNCHANGED <<firstRequest, built>>
    /\ UNCHANGED <<changes, measVars, allocated, link, registry, varOwner,
                   daqs, life, traced, records, thePace, arg, main>>

\* OnGetVariableList of the demo: a new object per variable, known to the
\* logger before it is in the list.
OnGetVariableList(w) ==
    /\ pc[w] = "build"
    /\ LET n == arg[w].n + 1
           v == <<n, built>>
       IN  /\ allocated' = allocated \cup {v}
           /\ link' = [link EXCEPT ![n] = v]
           /\ measVars' = Append(measVars, v)
           /\ IF n < NumVars
              THEN arg' = [arg EXCEPT ![w].n = n] /\ UNCHANGED pc
              ELSE arg' = [arg EXCEPT ![w] = NoArg] /\ Goto(w, "dispatch")
    /\ UNCHANGED <<firstRequest, built, changes, registry, varOwner, daqs,
                   life, traced, records, thePace, main>>

\* FireEventToAllClientsVarlistChanged, a key of the demo: the next request
\* builds the list again, behind the one that is there.  The flag is set
\* without m_mutexFirstRequest.
VarlistChanged ==
    /\ main = "serving" /\ changes < MaxBuild - 1
    /\ changes' = changes + 1
    /\ firstRequest' = TRUE
    /\ UNCHANGED <<built, measVars, allocated, link, registry, varOwner, daqs,
                   life, traced, records, thePace, pc, arg, main>>

\* FindVariable: the first object of that name; None when there is none.
FindVariable(n) ==
    LET hits == {i \in DOMAIN measVars : measVars[i][1] = n}
    IN  IF hits = {} THEN None
        ELSE measVars[CHOOSE i \in hits : \A j \in hits : i <= j]

-----------------------------------------------------------------------------
(* Requests.  PUT and DELETE of a trend hold m_mutexSessionList.           *)

ListHeld == \/ \E w \in Workers : pc[w] \in {"found", "setVar", "remove"}
            \/ main = "destroy"

Answer(w) == Goto(w, "idle") /\ arg' = [arg EXCEPT ![w] = NoArg]

\* A request that names a variable: it is looked up under m_mutexVarList and
\* used afterwards.  Without one, or for an unknown name, the answer is 400.
UseVariable(w) ==
    /\ pc[w] = "dispatch"
    /\ \E n \in Names :
          LET v == FindVariable(n)
          IN  IF v = None THEN Answer(w)
              ELSE arg' = [arg EXCEPT ![w].var = v] /\ Goto(w, "use")
    /\ UNCHANGED <<list, heap, registry, varOwner, daqs, traced, records,
                   thePace, main>>

UsedVariable(w) ==
    /\ pc[w] = "use"
    /\ Answer(w)
    /\ UNCHANGED <<list, heap, registry, varOwner, daqs, traced, records,
                   thePace, main>>

\* Handle_PutDaqTrend up to PutDaqTrend: an existing trend is returned, a new
\* one is inserted with an empty array.
PutDaqTrend(w) ==
    /\ pc[w] = "dispatch" /\ ~ListHeld
    /\ \E d \in DaqNames, n \in Names :
          LET v == FindVariable(n)
              t == daqs[d]
              new == CHOOSE u \in Trends : life[u] = "none"
          IN  \/ /\ v = None
                 /\ Answer(w)
                 /\ UNCHANGED <<daqs, life, array>>
              \/ /\ v # None /\ t # None
                 /\ SwitchesVar \/ traced[t] = v
                 /\ arg' = [arg EXCEPT ![w] = [@ EXCEPT !.var = v, !.trend = t]]
                 /\ Goto(w, "found")
                 /\ UNCHANGED <<daqs, life, array>>
              \/ /\ v # None /\ t = None
                 /\ \E u \in Trends : life[u] = "none"
                 /\ daqs' = [daqs EXCEPT ![d] = new]
                 /\ life' = [life EXCEPT ![new] = "live"]
                 /\ array' = [array EXCEPT ![new] = 1]
                 /\ arg' = [arg EXCEPT ![w] =
                              [@ EXCEPT !.var = v, !.trend = new]]
                 /\ Goto(w, "found")
    /\ UNCHANGED <<list, allocated, registry, varOwner, traced, queue, sent,
                   thePace, main>>

\* SetVar: the pointer first, ...
SetVar(w) ==
    /\ pc[w] = "found"
    /\ traced' = [traced EXCEPT ![arg[w].trend] = arg[w].var]
    /\ Goto(w, "setVar")
    /\ UNCHANGED <<list, heap, registry, varOwner, daqs, records, thePace, arg,
                   main>>

\* ... then AddTrend under the variable's mutex; a second registration is
\* refused.  The rest of the handler only changes the cycle.
AddTrend(w) ==
    /\ pc[w] = "setVar"
    /\ varOwner[arg[w].var] = None
    /\ trendsOf' = [trendsOf EXCEPT ![arg[w].var] = @ \cup {arg[w].trend}]
    /\ since' = IF arg[w].trend \in trendsOf[arg[w].var] THEN since
                ELSE [since EXCEPT ![arg[w].trend] = value[arg[w].var[1]]]
    /\ Answer(w)
    /\ UNCHANGED <<list, heap, varOwner, daqs, traced, records, thePace, main>>

\* ~CDaqTrend, its first half: the array is deleted, no mutex is held.
DeleteArray(t) ==
    /\ life' = [life EXCEPT ![t] = "dying"]
    /\ array' = [array EXCEPT ![t] = 0]

\* Mutant of RemoveTrend: the variable's mutex is not taken.
RemoveTrendUnlocked(t) ==
    /\ trendsOf' = [trendsOf EXCEPT ![traced[t]] = @ \ {t}]
    /\ life' = [life EXCEPT ![t] = "freed"]

\* The second half: RemoveTrend under the mutex of the variable traced last;
\* then the object goes.
RemoveTrend(t) ==
    /\ varOwner[traced[t]] = None
    /\ trendsOf' = [trendsOf EXCEPT ![traced[t]] = @ \ {t}]
    /\ life' = [life EXCEPT ![t] = "freed"]

\* Handle_DeleteDaqList: unknown names are answered 400.
DeleteDaq(w) ==
    /\ pc[w] = "dispatch" /\ ~ListHeld
    /\ \E d \in DaqNames :
          IF daqs[d] = None
          THEN Answer(w) /\ UNCHANGED <<daqs, life, array>>
          ELSE /\ daqs' = [daqs EXCEPT ![d] = None]
               /\ DeleteArray(daqs[d])
               /\ arg' = [arg EXCEPT ![w].trend = daqs[d]]
               /\ Goto(w, "remove")
    /\ UNCHANGED <<list, allocated, registry, varOwner, traced, queue, sent,
                   thePace, main>>

DeleteDaqEnd(w) ==
    /\ pc[w] = "remove"
    /\ RemoveTrend(arg[w].trend)
    /\ Answer(w)
    /\ UNCHANGED <<list, allocated, since, varOwner, daqs, traced, records,
                   thePace, main>>

TrendLocked(t) == pace.pc = "write" /\ pace.trend = t

\* Mutant of FormatAllData: the poll does not lock the trend.
FormatAllDataUnlocked(t) ==
    /\ sent' = [sent EXCEPT ![t] = @ \o queue[t]]
    /\ queue' = [queue EXCEPT ![t] = <<>>]
    /\ array' = [array EXCEPT ![t] = @ + 1]

\* A poll formats a trend with the session and the trend locked, and Flush
\* gives it a new array.
FormatAllData(t) ==
    /\ ~TrendLocked(t)
    /\ sent' = [sent EXCEPT ![t] = @ \o queue[t]]
    /\ queue' = [queue EXCEPT ![t] = <<>>]
    /\ array' = [array EXCEPT ![t] = @ + 1]

PollTrend(w) ==
    /\ pc[w] = "dispatch"
    /\ \A u \in Workers : pc[u] # "remove"  \* DeleteDaqList locks the session
    /\ \E d \in DaqNames : /\ daqs[d] # None
                           /\ queue[daqs[d]] # <<>>  \* else nothing changes
                           /\ FormatAllData(daqs[d])
    /\ Answer(w)
    /\ UNCHANGED <<list, heap, registry, varOwner, daqs, traced, thePace, main>>

-----------------------------------------------------------------------------
(* The pace thread: per tick, each variable gets a new value and feeds the *)
(* trends registered with its object.                                      *)

PaceOnly ==
    UNCHANGED <<list, heap, registry, daqs, traced, sent, pc, arg, main>>

NextVar == IF pace.n < NumVars
           THEN [Asleep EXCEPT !.pc = "var", !.n = pace.n + 1]
           ELSE Asleep

Tick ==
    /\ pace.pc = "sleep"
    /\ main = "serving"
    /\ value[NumVars] < MaxTick
    /\ pace' = [Asleep EXCEPT !.pc = "var", !.n = 1]
    /\ UNCHANGED <<value, varOwner, array, queue>> /\ PaceOnly

\* FeedTrend locks the variable and walks its trends.
FeedTrend ==
    /\ pace.pc = "var"
    /\ value' = [value EXCEPT ![pace.n] = @ + 1]
    /\ LET v == link[pace.n]
       IN  IF v = None
           THEN pace' = NextVar /\ UNCHANGED varOwner
           ELSE /\ varOwner[v] = None
                /\ varOwner' = [varOwner EXCEPT ![v] = Pace]
                /\ pace' = [pace EXCEPT !.pc = "feed", !.var = v,
                                        !.left = trendsOf[v]]
    /\ UNCHANGED <<array, queue>> /\ PaceOnly

\* It locks a trend and fetches its array (a dangling pointer when the trend
\* is dying), ...
FeedLock ==
    /\ pace.pc = "feed"
    /\ \E t \in pace.left :
          pace' = [pace EXCEPT !.pc = "write", !.left = @ \ {t},
                               !.trend = t, !.array = array[t]]
    /\ UNCHANGED <<value, varOwner, array, queue>> /\ PaceOnly

\* ... writes the value into that array and unlocks the trend.  A write into
\* an array that is deleted is undefined (FeedsOnlyAnArray): it may still
\* reach the formatter, a member of the trend, or it does not; what else the
\* memory is used for by then is not modelled.
FeedWrite ==
    /\ pace.pc = "write"
    /\ LET t == pace.trend
           fed == [queue EXCEPT ![t] = Append(@, value[pace.n])]
       IN  IF life[t] = "live" /\ array[t] = pace.array
           THEN queue' = fed
           ELSE queue' \in {queue, fed}
    /\ pace' = [pace EXCEPT !.pc = "feed", !.trend = None]
    /\ UNCHANGED <<value, varOwner, array>> /\ PaceOnly

\* Mutant of FeedEnd: the variable is not unlocked.
FeedEndLocked ==
    /\ pace.pc = "feed" /\ pace.left = {}
    /\ pace' = NextVar
    /\ UNCHANGED <<value, varOwner, array, queue>> /\ PaceOnly

FeedEnd ==
    /\ pace.pc = "feed" /\ pace.left = {}
    /\ varOwner' = [varOwner EXCEPT ![pace.var] = None]
    /\ pace' = NextVar
    /\ UNCHANGED <<value, array, queue>> /\ PaceOnly

PaceStep == Tick \/ FeedTrend \/ FeedLock \/ FeedWrite \/ FeedEnd

-----------------------------------------------------------------------------
(* The end: main stops the HTTP server (ServerStopsFirst), waits for the   *)
(* pace thread, deletes the session, then the variables.                   *)

MainOnly == UNCHANGED <<firstRequest, built, changes, link, varOwner, traced,
                        queue, sent, thePace, pc, arg>>

\* The HTTP server ends when its requests are answered.
StopServer ==
    /\ main = "serving"
    /\ ServerStopsFirst => \A w \in Workers : pc[w] = "idle"
    /\ main' = "stopPace"
    /\ UNCHANGED <<measVars, heap, registry, daqs, array>> /\ MainOnly

\* StopPaceThread, then DeleteAllSessions: the destructors of the trends.
DestroyTrend ==
    /\ main \in {"stopPace", "clear"} /\ pace.pc = "sleep" /\ ~ListHeld
    /\ \E d \in DaqNames :
          /\ daqs[d] # None
          /\ daqs' = [daqs EXCEPT ![d] = None]
          /\ DeleteArray(daqs[d])
    /\ main' = "destroy"
    /\ UNCHANGED <<measVars, allocated, registry>> /\ MainOnly

DestroyTrendEnd ==
    /\ main = "destroy"
    /\ \E t \in Trends : life[t] = "dying" /\ RemoveTrend(t)
    /\ main' = "clear"
    /\ UNCHANGED <<measVars, allocated, since, daqs, array>> /\ MainOnly

\* ClearVars takes no mutex of the list.
ClearVars ==
    /\ main \in {"stopPace", "clear"} /\ pace.pc = "sleep" /\ ~ListHeld
    /\ \A d \in DaqNames : daqs[d] = None
    /\ allocated' = allocated \ {measVars[i] : i \in DOMAIN measVars}
    /\ trendsOf' = [v \in Vars |-> IF v \in allocated' THEN trendsOf[v] ELSE {}]
    /\ measVars' = <<>>
    /\ main' = "done"
    /\ UNCHANGED <<life, since, daqs, array>> /\ MainOnly

MainStep == DestroyTrend \/ DestroyTrendEnd \/ ClearVars

WorkerStep(w) ==
    \/ OnGetVariableList(w) \/ UseVariable(w) \/ UsedVariable(w)
    \/ PutDaqTrend(w) \/ SetVar(w) \/ AddTrend(w)
    \/ DeleteDaq(w) \/ DeleteDaqEnd(w) \/ PollTrend(w)

Next ==
    \/ \E w \in Workers : Arrive(w) \/ WorkerStep(w)
    \/ PaceStep
    \/ VarlistChanged \/ StopServer \/ MainStep

Spec == Init /\ [][Next]_vars

\* Threads that can go on do; no request has to arrive.
FairSpec ==
    /\ Spec
    /\ \A w \in Workers : WF_vars(WorkerStep(w))
    /\ WF_vars(PaceStep) /\ WF_vars(MainStep)

-----------------------------------------------------------------------------
(* Properties *)

\* Every variable has a value of its type.
TypeOK ==
    /\ firstRequest \in BOOLEAN
    /\ changes \in 0..(MaxBuild - 1) /\ built \in 0..(changes + 1)
    /\ measVars \in Seq(Vars) /\ allocated \subseteq Vars
    /\ link \in [Names -> Vars \cup {None}]
    /\ trendsOf \in [Vars -> SUBSET Trends]
    /\ varOwner \in [Vars -> {None, Pace}]
    /\ daqs \in [DaqNames -> Trends \cup {None}]
    /\ life \in [Trends -> {"none", "live", "dying", "freed"}]
    /\ traced \in [Trends -> Vars \cup {None}]
    /\ array \in [Trends -> Nat]
    /\ queue \in [Trends -> Seq(Nat)] /\ sent \in [Trends -> Seq(Nat)]
    /\ since \in [Trends -> 0..MaxTick]
    /\ pace \in [pc : {"sleep", "var", "feed", "write"}, n : 0..NumVars,
                 var : Vars \cup {None}, left : SUBSET Trends,
                 trend : Trends \cup {None}, array : Nat]
    /\ value \in [Names -> 0..MaxTick]
    /\ pc \in [Workers -> {"idle", "build", "dispatch", "use", "found",
                           "setVar", "remove"}]
    /\ arg \in [Workers -> [var : Vars \cup {None},
                            trend : Trends \cup {None}, n : 0..NumVars]]
    /\ main \in {"serving", "stopPace", "destroy", "clear", "done"}

\* The pace thread walks the trend list of an existing variable, and every
\* trend it still has to feed exists: RemoveTrend waits for FeedTrend.  The
\* array it writes to is the one of the trend, unless the trend is being
\* deleted.
FeedsWhatExists ==
    pace.pc \in {"feed", "write"} =>
        /\ pace.var \in allocated
        /\ \A t \in pace.left \cup ({pace.trend} \ {None}) :
              life[t] \in {"live", "dying"}
        /\ pace.pc = "write" /\ life[pace.trend] = "live" =>
              array[pace.trend] = pace.array

\* What FeedTrend's "lock the trend" (VarRef.cpp:681) is for, with CDaq's
\* mutex "protecting members" (Daq.h:48): the array it writes to exists.
\* ~CDaqTrend deletes the array without that mutex, and before it takes the
\* trend from the variable's list.
FeedsOnlyAnArray ==
    pace.pc = "write" => pace.array # 0 /\ array[pace.trend] = pace.array

\* Every value since a trend was registered is sent once, in order and without
\* a gap: a poll does not take the array away while a value is written.  As
\* long as the logger feeds the trend's variable nothing is missing at the end
\* either.  (A trend that is being deleted may lose a value, with its array.)
TransferInOrder ==
    \A t \in Trends : life[t] = "live" =>
        LET s == sent[t] \o queue[t]
        IN  /\ \A i \in DOMAIN s : s[i] = since[t] + i
            /\ \A v \in Vars :
                  t \in trendsOf[v] /\ link[v[1]] = v /\ pace.pc = "sleep"
                      => Len(s) = value[v[1]] - since[t]

\* Requests read the list only when it is complete, although the builder
\* does not hold the mutex readers use; but a change of the list that has
\* been announced has it built under the eyes of its readers.
NoReaderWhileBuilding ==
    changes = 0 /\ Building => \A w \in Workers : pc[w] \in {"idle", "build"}

\* A variable a request has looked up exists until it is answered.
RequestVarAlive ==
    \A w \in Workers : arg[w].var # None => arg[w].var \in allocated

\* The object a trend is registered with is the one the logger feeds, until a
\* change of the list is announced: a list that is built again leaves the
\* trends of the first one without data.
TrendsAreFed ==
    changes = 0 => \A v \in Vars : trendsOf[v] # {} => link[v[1]] = v

\* Whoever uses a variable or a trend, the pace thread, a request or a poll,
\* finds the object allocated, the list whole, and the trend where it is fed.
\* Of the array of a trend that is being deleted nothing is said: see
\* FeedsOnlyAnArray.
TrendsInv ==
    /\ TypeOK /\ FeedsWhatExists /\ NoReaderWhileBuilding /\ RequestVarAlive
    /\ TrendsAreFed

\* The end of the server: main waits for the pace thread, which finishes its
\* round and needs the mutex of every variable for it, and comes to an end.
ShutdownReturns == main = "stopPace" ~> main = "done"

=============================================================================
