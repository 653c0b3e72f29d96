# A TLA+ verification of libABK

libABK connects measurement loggers ("servers") with displays and input
devices ("clients"). A client opens a session by `POST /session`, learns of
events and of recorded data by long polling `GET /event`, and asks for data
acquisitions (DAQs) by `PUT`. This directory holds TLA+ specifications of the
parts of the library in which threads, timers and requests meet, the
configurations with which TLC checks them, and TLAPS proofs about them.
Everything is translated from the C++ source under `src/`; `PROJECT.json`
gives the lines each definition stands for.

## 1. Inventory

For each part: the state it keeps, its operations and threads, what is hard
about it, and what makes it correct.

### Server library (`src/ServerLib`)

**Sessions** (`LoggerIf.cpp`, `Session.cpp`). State: the map `m_mapSessions`
with its recursive mutex `m_mutexSessionList` and the counter
`m_nNextSessionId`; in each `CSession` the mutex `m_mutex`, the lifetime
`m_nRemainingS`, the flags `m_bRequestInProgress`, `m_bFirstPoll` and
`m_bExpThreadInProgress`, and the event `m_eventSleep`. Operations: create
(`Handle_PostSession`), look up and refresh (`GetSession`), poll
(`Handle_EventPolling`), delete (`Handle_DeleteSession`), expire
(`MaintainExpirationThread`), delete all (`Shutdown`). Threads: the workers of
the HTTP server, one expiration thread per session, the main thread. Hard: a
poll keeps a bare pointer for two seconds without a lock; the expiration
thread deletes its own session; a destructor waits for that thread; three
kinds of threads may want to destroy the same object. Correct means: nobody
uses a released session, a session is destroyed once and is unregistered
before, deletion and shutdown terminate, an abandoned session is reclaimed, no
session expires under a request.

**Event delivery** (`FireEventToAllClients`, `Handle_PutClientEvent`,
`CSession::FireEventToClient`, `EventQueue.cpp`, `CAbkEvent`). State: one queue
and one event per session. Hard: several threads fire at once, the event is
`Set` and `Reset` in one go, the queue is flushed before the answer is sent,
sessions come and go during broadcasts, the "primary" client of a class is
worked out anew for each recipient. Correct means: all clients see events in
one order, each at most once, and sooner or later; no event has two primary
clients of one class, and one that all clients get has one.

**What events mean** (the functions of `LoggerIf.cpp` that fire, those of
`ClientLib/AbkServerEvent.cpp` that recognise). No state; three functions share
one event type, members of an alert are optional. Correct means: every event is
recognised by the function meant for it, with what the application said.

**Data acquisitions** (`Daq.cpp`, `Session.cpp`, the DAQ handlers). State: the
map `m_mapDaq` of each session; in each `CDaq` the mutex, the cycle, the flags
`m_bTransferPending`, `m_bTerminate`, `m_bMaintainCycleActive`, the sleep
event, and a variable list or a trend. Threads: the handlers, one cycle thread
per DAQ, the long poll. Hard: a list is replaced variable by variable while a
poll may format it; a destructor waits for the cycle thread with the session's
mutex held while that thread needs other mutexes. Correct means: no thread
works on a released DAQ, deletion terminates, the data sent are those last
asked for, recorded data reach the client, every DAQ has a name that leads to
it.

**Variables and trends** (`LoggerIf.cpp`, `VarRef.cpp`, `CDaqTrend`). The list
of variables is built by the first request, and again after a change of it has
been announced. A variable keeps the trends that record it; the application's
pace thread feeds them (`FeedTrend`). Hard: trend and variable are registered
with each other under two mutexes, the list is read without the mutex it is
built under, main releases everything at the end. Correct means: nobody reads
half a list or uses a released variable, every value is recorded once and in
order, the trends are those the application feeds.

**Routing** (`LoggerIf.cpp`): a table of handlers, sorted in the constructor
and searched by bisection for URL and method. Correct means: every URL and
method reaches its own handler. The **value, meta, mailbox, firmware,
configuration, form and audio handlers** serve one request each and call the
application back, whose state they change. Correct means, together with the
client: what a client is told it has done has been done, once and in order.

**Discovery** (`DiscoveryServer.cpp`): a pool of UDP responders, each with a
thread, that are stopped and deleted "deferred" by their own threads. Hard:
removal while the pool is walked and the threads run. Correct means: each is
deleted once, by its thread, and `RemoveAndDeleteAll` returns.

### Common (`src/Common`, `src/AfxWrapper`)

**Mutexes, events, threads** (`CrossPlatform.cpp`): `CAbkMutex` is recursive,
and locking it always succeeds in the Boost build; `CAbkEvent` is a flag with a
condition variable. They are modelled inside the modules that use them.
**JSON** (`JsonFormatter.cpp`, `JsonParser.cpp`, `JsonParserAtl.cpp`): streams
that open and close each other, and a parser that isolates one item after the
other. Hard: two different sets of escaped characters, names inside names,
skipping what is not understood. Correct means: what is written is what is
read. **Log queue** (`LogQueue.cpp`): a list under a mutex. **Strings, variants
and threads** of the Windows world (`AfxWrapper`).

### Clients

**Portable client** (`ClientBoost`) and **Windows client** (`ClientLib/atl`):
the long-poll thread with suspend, resume and a tolerance for errors, the map
of DAQs, the session, and the functions by which the application asks the
server for something. Hard: tidying up while the thread polls; threads of one
application that share a connection; answers that are lost, cut off or late;
requests sent twice. **Client helpers** (`ClientLib`): the slot for one server
event, DAQs, meta data, the server finder. **Browser client**
(`ClientWithBrowser/Abk.js`): the same requests from a script.
**Forms** (`ClientForms`, and the handlers of forms): a dialog built from what
the server describes, sent back when it is closed. Hard: modal dialogs nest,
timers close them, reloads meet what the user has entered, elements and controls
are connected by counters. Correct means: every element comes back under its
name with what its control showed.

### Programs

`HttpServerLib` is the HTTP server of the Windows example: an accept thread
and a thread per connection over non-blocking sockets. Hard: requests arrive
in parts, responses leave in parts, Stop waits for threads. `ServerExample`
holds the two demonstration servers (drogon with four HTTP threads, and
Windows), whose callbacks, pace thread and order of shutdown are part of the
modules. `ClientExample`, `FindServerDemo` and `Tests` use the client in
sequence.

### How the parts interact

    HTTP worker --lookup, refresh--> session map --> CSession <--expire-- thread
         |                                            |    |
         |--PUT/DELETE DAQ--> DAQ map of the session -+    +-- event queue <--+
         |                        |                               |          |
         |                     CDaq <-- cycle thread              |     senders
         +--long poll--- waits for the session's event, formats queue and DAQs

The long poll is where all three server components meet: it keeps the session
alive by a flag (SessionLifecycle), drains its queue (EventDelivery) and
transfers its DAQs (DaqCycle). Each module models the poll as far as its own
component can tell and names what it leaves to the others. At the other end of
it is the client's long-poll thread (ClientPolling), which hands an event to
the application (FormsClient, with ServerEvents and Forms) and data to its
DAQs. All other requests (RemoteCalls) run on the client's second connection,
through the HTTP server (HttpServer) and the table (UrlDispatch) to a handler
(LoggerHandlers), in a syntax of their own (JsonText).

## 2. Modules

| module | what of the code it stands for | role |
|---|---|---|
| `SessionContract` | - | abstract: a session's life and who may be served on it |
| `SessionLifecycle` | session map, `CSession`, its thread and destructor, Shutdown | implements `SessionContract` |
| `SessionLifecycleProofs` | - | proofs about it |
| `EventChannel` | - | abstract: one lossy, ordered, duplicate-free channel per session |
| `EventDelivery` | firing, queues, roles, the poll's wait and flush | implements `EventChannel` |
| `EventDeliveryProofs` | - | proofs about it, with the step simulation |
| `ServerEvents` | functions that fire events, functions that recognise them | operators |
| `Forms` | `FormWrite...`, `CFormElement`, `CDlgAbkForm`'s data exchange, `SendForm` | operators |
| `FormsClient` | `CAbkFormsDlg`, `CMyAbkClient`, `CDlgAbkForm` | extends `Forms` and `ServerEvents` |
| `DaqCycle` | `CDaq`, its cycle thread, the session's DAQ map, PUT and DELETE of DAQs | |
| `DaqCycleProofs` | - | proofs about it |
| `VarTrends` | the variable list, `CVarRef`'s trends, `CDaqTrend`, the pace thread, shutdown | |
| `VarTrendsProofs` | - | proofs about it |
| `ClientPolling` | `CAbkClient` (both): Create, long poll, DAQs, event slot, TidyUp | |
| `ClientProofs` | - | proofs about it and about `FormsClient` |
| `UrlDispatch` | the sort and the search of the handler table | operators |
| `LoggerHandlers` | `Handle_...` without sessions' threads, the example's callbacks, file requests | extends `UrlDispatch` |
| `RemoteCalls` | every function of the three clients that sends a request | extends `LoggerHandlers` |
| `RemoteCallsProofs` | - | proofs about it, the handlers and the sort and search of their table |
| `HttpServer` | `CHttpServer`: accept, receive, options, send, Stop | |
| `HttpServerProofs` | - | proofs about it |
| `JsonText` | formatter, streams, parser, meta data | |
| `Discovery` | the pool, its threads, the example's sockets, `AbkFindServers` | |
| `TextItems` | - | a text as its items, and the inductive invariant, for the proofs about `JsonText` |
| `MessageProofs` | - | proofs about the pool, the finder and the texts |
| `MC...` | - | instances for TLC |

Conventions. A thread has a program counter (`pc`, `sender[t].pc`, `poll`,
`thread`, `h.pc`); an action is what it does between two points at which
another thread can interfere: a lock, a wait, or the use of shared memory
outside any lock. Mutexes are variables that hold their owner. A `Set` of a
`CAbkEvent` moves whoever waits out of the wait; whoever is not waiting sees
only the flag, which the following `Reset` lowers.

A definition whose comment begins with "Mutant of" is a wrong variant of the
definition that follows it, with a dropped guard, a missing reset or an
off-by-one. `Next` uses none of them. Substituting one for the original must
make TLC report the property that `PROJECT.json` pairs it with, which shows
that the property is able to fail.

### SessionLifecycle

Agents are the workers, the expiration threads (named by their session) and
`Main`. `heap[s]` says whether the object is allocated; `remaining`,
`inProgress`, `firstPoll`, `stop` and `expRunning` are the members of
`CSession`. What depends on a deployment is a constant:

* `LateRequests`: may a request arrive when the lifetime has run out;
* `OverlappingPolls`: may a client poll again before it was answered;
* `CallbackFires`: does `OnSessionEventPollEstablished` fire an event;
* `ShutdownPossible`: may `Shutdown` be called while requests are served.

Time is counted in decrements of `m_nRemainingS`: `decs[w]` counts those since
`w`'s request refreshed its session, and an expiration thread does not exceed
`RequestTicks` of them during one request, because a poll waits two seconds
(`ABK_LONGPOLL_MAXRESPONSE_MS`) and a decrement takes one. The lifetime is 120
of them, so `RequestTicks + 1 < Lifetime` is a very weak assumption. A thread
that has been told to stop is not bound by it for its last decrement.

A poll ends in two steps: `PollClear` lowers the flag that keeps a DELETE
waiting, `PollUnlock` then unlocks the session's mutex and answers. Between the
two the flag protects the session no longer, and `FlagKeepsSession` says
nothing; `MutexFreeWhenDestroyed` and section 4 do.

Handlers that keep the list mutex from begin to end (DAQ handlers, events from
clients) appear as `ShortRequest`: here only their refresh matters.

### EventDelivery

`Broadcast` takes the list mutex, then, for each session in the order of ids,
`FireQueue`, `FireSet` and `FireReset` do what `FireEventToClient` does under
the session's mutex. Two senders address one session (`FireToOne`):
`PrivateEvent` is a client's private event, which names its client as the
primary, and `IdentifyOne` is `IdentifyClient`, which works the role out among
all clients of the class, so that its event may name no primary. The poll goes
through `ready` (looked up, not waiting yet), `waiting`, `awake`, `locked`,
`copied`, `sending`. `queued` and `missed` are history variables.

### DaqCycle

One session. Handlers keep the list mutex, so one of them, `h`, runs at a time;
`thread[o]` is the cycle thread of object `o`. `PutNew` and `PutExisting` are
`PutDaqList` and `PutDaqTrend`; what a `PUT` does afterwards (clear, add
variable by variable, set the cycle, fire) is one action each. As in a release
build, assertions are off. A trend differs from a list only in having no
variables here; its data are the subject of `VarTrends`.
`CSession::DeleteDaqLists` has no caller and is not modelled.

### VarTrends

Workers serve requests (`Arrive`, then `UseVariable`, `PutDaqTrend`, `SetVar`,
`AddTrend`, `DeleteDaq`, `PollTrend`), the pace thread feeds (`Tick`,
`FeedTrend`, `FeedLock`, `FeedWrite`, `FeedEnd`), main announces a change of
the list (`VarlistChanged`) and ends everything (`StopServer`, `DestroyTrend`,
`ClearVars`). An object of the list is a pair of its name and the build that
made it. A value is the tick that produced it, so that `since[t]`, the value at
registration, tells which ones a trend has to record. `DeleteArray` is the
first half of `~CDaqTrend`: the array of values is gone while the trend is
still in the variable's list, and what `FeedWrite` does with it then is
undefined (the value may be lost or not). Two constants are about
deployments: `SwitchesVar` (a client puts a trend again with another variable)
and `ServerStopsFirst` (`main_drogon.cpp` stops the HTTP server before the
interface, `main.cpp` afterwards).

### ClientPolling

The long-poll thread is `PollLoop`, `PollWait` (suspended), `PollAnswer`,
`DispatchList`, `SetEvent`, `PollFailed`, `PollStalled`, `PollEnding`,
`PollDone`; `platform` selects the portable or the Windows client in the few
places where they differ. The application calls `Create`, `AddDaq`,
`UpdateDaq`, `DeleteDaq`, `SuspendResume` and `TidyUp`, the last in its steps;
`GetEvent` is the reader of the event slot. The server is reduced to the
sessions and DAQs that it has; `Network` fails and comes back,
`ExpireSession` ends the session. Usage counts (`CClientPtr`) are taken
together with the pointer; see the hazards for the window between the two.

### UrlDispatch, LoggerHandlers, RemoteCalls

`LoggerHandlers` has an operator per handler from a store and a request to a
new store, a status and an answer; a handler runs alone on the data it touches,
up to the races named in the hazards. The example's callbacks are included.
The table of handlers is the code's own, in the order it is written down;
`UrlDispatch` sorts it and finds every request in it, step by step as the code
does. `RemoteCalls` puts clients before it: a function forms its request
(`Call`), the request is on the wire, a handler takes it (`Serve`), the answer
arrives whole, cut off, late or not at all, and the function tries again, gives
up, or decodes what it got. `platform` is `"atl"`, `"boost"` or `"js"`; they
differ in what counts as success, in retries, and in whose memory the answer
lies.

### HttpServer

A thread of a connection waits for network events (`Wake`), handles a complete
request (`Handle`), sends in granules (`SendGranule`, `SendWouldBlock`) and ends
(`CloseSocket`, `ThreadEnds`). The events are posted as Winsock does, one of a
kind at a time; that, and the sockets, are external. URLs are short sequences
of numbered characters, which is enough for escapes, prefixes and order.
`RequestOption` is a table of what `FindUrlOption` yields for each request: the
options do not change once the server runs, and TLC computes it once.

### JsonText

A machine in two halves. The writer performs up to four calls of any stream
that is open, or the calls that `CMeta::FormatAsJson` makes for a variable; a
close of an outer stream closes the inner ones. Then the parser is constructed
on the text and read in one of its loops: item by item, skipping what is
opened, or decoding meta data. A text is a sequence of lexemes in which strings
are spelt out, since escaping is about single characters; `Values` says what
they are made of: no string holds the zero that ends a text, or the lexeme that
stands for a whole date, and a number is none of the words and punctuation.
`PushNesting` counts the parser's stack against `JSONPARSER_MAXNESTING`; beyond
it, where the code has an assertion only, the parser's state is undefined.
`JsonAssumption` keeps the texts below it. An entity of a value table keeps the
member `bTextValid` as the client leaves it (`valid`).

### ServerEvents, Forms, FormsClient

`ServerEvents` has what each firing function writes and what each recognising
function reads. `Forms` has the elements of a form at each place: written,
decoded, as controls with their Windows identifiers, exchanged with the dialog
(`ToControls`, `ToData`), sent back. `FormsClient` runs them: the poll thread
notes the name of the form and posts a message, the window thread opens
dialogs, which nest, and the user, timers and reloads act on any of them.
`shown` and `opened` are history variables. `Reload` is `UpdateContent`, which
has no caller in the repository; nothing of the focus is modelled but which
button has it.

### Discovery

Main adds the servers, then walks the pool (`RemoveAndDeleteAll`, `Walk`,
`WalkEnds`) and waits (`GetCount`). A server's thread receives, decodes,
answers and sleeps until it is told to stop, tidies up, and unregisters and
deletes its server. `AbkFindServers` sends requests and collects answers;
datagrams are lost and overtake each other. `Platform` is `"win"` or `"boost"`.

## 3. What TLC checks

All configurations say `CHECK_DEADLOCK FALSE`: a behaviour may end, as nobody
is obliged to send a request, ids and events are bounded, and a server that has
been shut down does nothing more. That threads do not wait for each other for
ever is the business of the liveness properties.

The safety properties of a module that belong together are the named parts of
one conjunction, whose name ends in "Inv" (`SafeInv`, `DaqInv`, `TrendsInv`...)
or says what they are about (`OncePerSession`, `PoolSafe`, `ResultsAreTrue`,
`EventsAreUnderstood`); each part has its own comment, and its type invariant is
the first of them. `SafeInv` and `DeliveryInv` are the inductive invariants of
section 5.

| run | bounds | states | shows |
|---|---|---|---|
| `SessionPrompt` | 2 workers, 2 sessions, lifetime 4, 2 decrements per request; prompt clients; worker symmetry | 140 073 | until it lowers its flag a poll's session is allocated, no destructor works on a released session, no session expires under a request, `OnSessionEventPollEstablished` is called once, `UnregisterSession` finds its session, and `SessionContract` is implemented |
| `SessionProgress` | 2 workers, 1 session, lifetime 3; late requests, overlapping polls and Shutdown | 34 616 | `SafeInv`: the map holds no released session; a DELETE is answered, an abandoned session is released, Shutdown returns |
| `Events` | delivery: 2 senders, 2 sessions of one class, 2 events, connections break, sessions end, events go to all or to one; forms: 2 forms, 2 requests for one or 1 event of another kind, 3 changes by the user or reloads | 297 289 | `DeliveryInv` and with it that firing ends a wait; one order for all, one primary per class for events to all and never two, `EventChannel` is implemented, every queued event leaves the server; events and alerts are told apart, dialogs show what was said and come back whole, the last request is shown |
| `DaqSafety` | 2 names, 2 objects, 2 PUTs, 2 variable lists (one with an unknown variable), 2 cycles, external timers | 3 433 494 | no thread and no poll works on a released DAQ, every DAQ is reachable, nobody sleeps through `Set`, the data sent are those last asked for or an initial part of them, and never a mixture |
| `DaqProgress` | 2 names, 2 objects, 2 PUTs, no lists | 56 018 | DELETE of a DAQ and the end of the session return, recorded data are transferred |
| `Trends` | 2 workers, 2 variables, 2 trends under 2 names, 2 ticks, the list built twice; the HTTP server stops first | 1 560 554 | feeding meets only variables and trends that exist, each value of a live trend is sent once and in order, nobody reads half a list or a released variable, trends are fed, shutdown returns |
| `Client` | both platforms, one `Create`, 2 DAQs, 2 events, 2 failures of the network | 302 443 | TidyUp ends and leaves no thread polling, data go to live DAQs, events are read whole and in order, the Windows client leaves no session behind |
| `Requests` | calls: 2 threads, up to 3 calls (those whose order matters weigh 1, others more), 1 request nobody waits for; server: 2 connections with 2 and 1 requests of up to 2 segments, responses of up to 2 granules, buffers of 2 | 396 309 | `RemoteCalls`: success means accepted, answers belong to their calls, every request has a handler, recordings are in order, what was set stays; `HttpServer`: responses arrive in order and whole, requests are handled whole and by the longest path and answered, Stop waits for threads and returns |
| `Messages` | texts: up to 4 calls of a writer, 3 levels, up to 2 of 6 variables' meta data; discovery: 2 servers, Windows, 3 requests, 3 rounds | 898 953 | `JsonText`: what is written is what is read, names and types are told apart, skipping stops where it should, meta data arrive (a table's values and texts); `Discovery`: no thread without its server, a valid iterator, everything deleted at the end, `RemoveAndDeleteAll` returns, each server listed once, an unambiguous suggestion |
| `SessionUnlock` | 2 workers, 1 session; prompt clients | (violation) | section 4 |
| `TrendArray` | as `Trends` | (violation) | section 4 |
| `DiscoveryBoost` | discovery as in `Messages`, in the Boost build | (violation) | section 4 |

The runs `Events`, `Requests` and `Messages` hold two machines each that share no
state; a behaviour belongs to one of them (`part`), and the other stands still.

Why these bounds are enough to be interesting. Two workers can hold a poll and
a DELETE of one session at once while a third party, the expiration thread or
`Main`, wants the same mutexes; with two sessions the list mutex couples
unrelated requests. A lifetime of 4 with 2 decrements per request has every
order of refresh, decrement and expiry, and shows the last tick before
zero. Two events and two senders are the least with which broadcasts can
overtake each other; two forms the least with which dialogs nest, and a third
dialog would repeat what the second does. Two DAQs are the least with which a
poll formats one while the other is destroyed, and two PUTs the least with
which a list is replaced. Two ticks let a value be written before and after a
registration, two builds let a request meet the second list. Two failures let
the client's thread fail, recover and fail again; a second `Create` starts
from the state after TidyUp, which the properties describe. Three calls are
header, chunk and footer of a recording, or a call between two of another
thread. Four calls of a writer open, name, fill and close; the texts and names
hold every kind of character that is treated differently. Two segments and two
granules are the least that can be cut. Two discovery servers are the least
with which an iterator can be invalidated and a suggestion be ambiguous, and
the proofs in section 5 are for any number. Ids are never reused in the code
either (`m_nNextSessionId` counts up), so a bound on them limits the length of
a history, not its kind. Worker symmetry is used only where no liveness
property is checked.

### Fairness

Every thread that can go on does (`WF`): the operating system schedules it, a
sleep, a timed wait and a request end. No fairness is given to arriving
requests, to `Shutdown`, to `Stop`, to the application's timers, to its calls,
or to the network's failing and recovering. Where threads compete for a mutex
again and again without end (`DaqCycle`: cycle threads and polls) getting it in
the end takes `SF`; in the other modules only finitely many rivals can come in
between. What clients do is assumed in three places, each time because their
code does it: `Events` and `DaqProgress` have a client poll again after each
answer (the long-poll thread), `HttpServer` has a client send the rest of a
request it has begun and read what it is sent.

## 4. Where the code and its own words differ

Three runs check each one thing that a comment or an assertion says and the
code does not keep; TLC shows how.

* `SessionUnlock`: `~CAbkMutex` asserts `m_nCount==0`
  (`src/Common/CrossPlatform.cpp:317`). The poll lowers `m_bRequestInProgress`
  and unlocks the session afterwards (`LoggerIf.cpp:1152`, 1153); a DELETE that
  waited for the flag destroys the locked mutex in between, and the poll
  unlocks what is no more. Clients are prompt here; one DELETE during a poll
  is enough.
* `TrendArray`: `FeedTrend` takes the DAQ's mutex to "lock the trend"
  (`VarRef.cpp:681`), a mutex "protecting members" (`Daq.h:48`). `~CDaqTrend`
  deletes the array without it, and before the trend leaves the variable's
  list, so that the pace thread may write to it (`Daq.cpp:383`).
* `DiscoveryBoost`: "removes and deletes all discovery servers, blocks until
  all done" (`src/ServerLib/DiscoveryServer.cpp:107`). On Linux the example's
  `OnSocketRxRequest` gives `recvmsg` no buffers, so that the first request
  ends the server's thread. Its handle stays `joinable()`, which is what
  `IsRunning` asks for; `RemoveAndDeleteServer` therefore leaves the deletion to
  the thread, which has ended, and `RemoveAndDeleteAll` waits for ever.

Other places where the code does not do what it or its comments say were met
while modelling. The modules contain these behaviours or name what they leave
out; properties that would fail in them are stated with the condition under
which they hold, and the conditions are in the comments of the properties and
in the "hazards" of `PROJECT.json`.

Server.

* The flag is to "invoke an error if somone wants to delete the session"
  (`LoggerIf.cpp:1113`). Two polls of a session share it: the first to end lowers
  it for both, and a DELETE releases the session under the second
  (`OverlappingPolls`).
* `IsFirstPoll` "returns whether this is the first call to this function"
  (`Session.cpp:298`) without a lock: two polls at once are both told so
  (`OverlappingPolls`).
* "When a request is in progress, the session cant expire by design"
  (`Session.cpp:257`): a poll that comes between the last decrement and the
  destructor is served while the session is deleted (`LateRequests`).
* Shutdown destroys a session whose expiration thread waits in the destructor
  for the list mutex (`Session.cpp:71`, `ShutdownPossible`).
* If `OnSessionEventPollEstablished` fires an event during a DELETE of the
  session, both wait for ever (`CallbackFires`).
* A cycle thread about to sleep for the old cycle misses `Set` and `Reset` of
  the new one (`Daq.cpp:169`); `NobodySleepsThroughSet`, a part of `DaqInv`,
  says what holds.
* A name used for a list and for a trend leaves a DAQ that is never found again
  (`Session.cpp:106`, `NameClashes`).
* `OnGetVariableList` is promised a "pointer to an empty variable list"
  (`LoggerIf.cpp:466`). After an announced change (2224) it is called with the
  old list still there, which grows while it is read, and the trends of the old
  one are fed no more.
* An event of `IdentifyClient` to a client that is not the first of its class has
  no primary (`LoggerIf.cpp:418`).
* A trend that is put again with another variable stays registered with the
  first (`Daq.cpp:413`, `SwitchesVar`).
* `main.cpp:435` shuts the interface down while its HTTP server still serves
  (`ServerStopsFirst`).
* `GetButtonFilter` joins with `&&` what its comment (186) joins otherwise.
* In `CHttpServer` a thread is counted only by itself (379), bytes behind a
  complete request are dropped (495), `m_evShutdown` is never reset (218) and
  `Connection: close` is read into a copy (630).
* Four drogon threads and blocking polls: four polling clients keep others
  waiting (`main_drogon.cpp:405`).
* `SkipItem` does not end on a text that is cut off inside the item
  (`JsonParser.cpp:549`).

Clients.

* `bTextValid` is "false if the text is not valid" (`AbkClientVar.h:43`).
  `ExtractFromJson` of a table's entity sets a local variable of that name
  (`AbkClientVar.cpp:64`), so that the member stays false for every text that
  arrives; the model has it so (`ExtractEntity`), and `MetaArrives` says nothing
  of it.
* `GetAudioRecTimeLimit` "returns audio recording time limit the server put in
  its request" (`AbkServerEvent.cpp:408`), but casts it to `int`: a limit below a
  second arrives as 0, "no limit" (`LoggerIf.cpp:2463`).
* Over a connection that is "apparently avilable" the remote objects "shall be
  tidied up via http" (`ClientBoost/AbkClient.cpp:1246`). The portable TidyUp
  closes the event connection before it asks whether it is connected (1265,
  1291), and never deletes its session.
* The portable client never calls `OnLongPollErrorResponse`.
* The Windows client measures the tolerated time of errors from tick 0
  (`atl/AbkClient.cpp:1633`, 1706) and sends failed requests twice (2105);
  libsoup may repeat a POST (`AbkClientSoup.cpp:179`).
* An event that cannot be stored makes the portable client drop those that
  follow it (`ClientBoost/AbkClient.cpp:990`).
* Threads that share a client share its last status, and on Windows its last
  answer. `GetVarValue(CTime *)` never assigns (`atl/AbkClient.cpp:671`).
  `SetServerAddr` tests the inverse of what it means
  (`ClientBoost/AbkClient.cpp:1311`), and `NULL` is returned as a string (215,
  1114).
* The browser's poller stops after its first failure (`Abk.js:60`), and
  `AbkGetSession` does not look whether there is an answer (276).
* `AbkServerFinder.cpp` reads the preference from the member of the name (156)
  and hands a local structure to a thread that outlives it (240).
* Forms: a form that its timer closes is answered (`AbkFormsDlg.cpp:391`
  against `DlgAbkForm.cpp:709`), `MESSAGE_FORM_CLOSE` only asserts (397), two
  submit buttons share `IDOK` (`DlgAbkForm.cpp:537`), and the maximal length of
  an input is never applied (`atl/AbkClient.cpp:2809`).

`Handle_PostSession` looks its new session up a second time and asserts that it
is there. A Shutdown in between removes it; the model has this branch
(`PostLostReply`), but states no property of it.

## 5. What is proved

Everything here holds for every value of the constants that the modules'
assumptions allow. These assumptions (`SessionAssumption`,
`DeliveryAssumption`, `DaqAssumption`, `TrendAssumption`, `ClientAssumption`,
`FormsAssumption`, `CallsAssumption`, `WriterAssumption`, `HttpAssumption`,
`SizeAssumption`, `DiscoveryAssumption`, `JsonAssumption`, `MetaAssumption`) are
the only ones, and TLC evaluates them in the runs. Where a theorem has a
hypothesis about the deployment, it stands in the theorem and is named here; the
runs check the property under the same condition.

### Sessions

`SessionLifecycleProofs` proves, for any number of workers and sessions and any
lifetime:

* `Safe`: `Spec => []SafeInv`, in every environment: however late or overlapping
  requests are and whenever Shutdown comes. Its parts of most interest have
  theorems of their own:
* `TypeCorrect`: `Spec => []TypeOK`; this includes that the lifetime counter
  never runs below zero.
* `MapHoldsLiveSessions`: `Spec => []RegisteredAlive`: a session found in the map
  is allocated.
* `FlaggedPollsAreSafe`: with `PromptClients`, `Spec => []FlagKeepsSession`: a
  poll's session is allocated from the lookup until the poll lowers its flag.
  It does not cover the Unlock behind that, which comes too late (run
  `SessionUnlock`).
* `ExpiryIsSafe`: with `PromptClients`, `Spec => []ExpirySparesRequests`, which
  covers whole requests, the last Unlock included. The hypothesis of the two
  cannot simply be dropped: see the flag and the expiry in section 4.
* `OnceIsSafe`: with `PromptClients`, `Spec => []OncePerSession`.
* `LifecycleImplementsContract`: with `PromptClients`, `Spec => ContractHolds`,
  the refinement of `SessionContract`.

The argument. `SafeInv` is inductive in every environment. It joins the types
with `IdsInOrder` (ids in use are below `m_nNextSessionId`, so a new session is
not mistaken for an old one), `Counting` (a thread that still counts has
something left to count; without it the decrement could leave the type),
`FreedUnregistered` (who is about to release a session has taken it out of the
map, and it never returns: ids are not reused) and `RegisteredAlive`.
`PromptInv` adds what needs prompt clients: `DeleterExcludes` (a worker that
deletes owns the list mutex throughout, so no poll can begin, and it destroys
only when no poll runs), `FlagMeansPoll` (the flag is up exactly while the one
poll of the session runs), and `LifetimeLeft` (the lifetime left plus the
decrements since the refresh is at least `Lifetime`; as a request sees at most
`RequestTicks + 1` of them, a session under a request has lifetime left, and
whoever expires has none). One lemma per part shows that every action preserves
it, with one step per action; `SafeStep` and `PromptStep` put them together.

`OnceInv` goes on from `PromptInv`. `ThreadTells` says where an expiration
thread can be, by whether its session is in the map and whether it was told to
stop: a thread that was told so never makes its last decrement, because the
DELETE that stops it has refreshed the session first. Hence `OneDestroyer`:
from the moment a DELETE has taken the session out, the thread runs no
destructor of its own. `AnnouncedOnce` says that whoever announces a session
is the first. From these, `DestructorOwnsSession` is kept, and the destructor
finds the session it unregisters. In the refinement (`ContractStep`)
`PostSession` is the contract's `Create`, `PollBegin` its `Serve`, `PollClear`
its `Answer` and `DtorFree` its `Destroy`; every other step stutters, and
`OnceInv` gives the guards of the contract's actions.

### Event delivery

`EventDeliveryProofs` proves, for any number of senders, sessions and events:

* `DeliveryInvariant` and `DeliveryTypes`: `DeliveryInv` and with it `TypeOK`.
* `FiringWakesPolls`: no poll goes on waiting past an event that was fired
  while it waited.
* `EventsInOneOrder`: any two clients see the events they have in common in the
  same order.
* `DeliveryImplementsChannel`: `Spec => ChannelHolds`, the refinement.
* `OnePrimaryHolds`: no event has two primaries among the clients of a class,
  and one that was fired to all clients, or by a client to itself, has one
  among those it was sent to. Of an event of `IdentifyClient` only the first
  is true.

The argument. `OneSender` says that a sender that is busy holds the list mutex,
that the sessions it still has to serve are alive (they leave only with that
mutex held), and that it holds the mutex of the one it is serving; hence two
are never busy at once. `Lives` ties queues to living sessions, `PollSteps`
says what a poll owns at each of its steps, so that it does not copy a queue
while a sender appends to it. `IdsIncrease` and `IdsFresh` are about order: the
ids in the history of a session increase, and an event still on its way to a
session is newer than everything there. From the two follows the common order,
since a position in a history is determined by the id. `NobodyWaits` says that
between `Set` and `Reset` no poll waits, which is what makes `FiringEndsWait`
survive the `Reset`. None of these is inductive alone: the order needs the
mutual exclusion, this needs to know who is alive.

The refinement maps a channel's content to what the poll has copied followed by
the queue (`OnTheWay`). `FireQueue` is the channel's send, `DropSession` its
close, and `PollAnswered` its receive when the answer holds something; copying
and flushing together leave `OnTheWay` as it is, and all other steps stutter.
There is a lemma per step.

For the roles, `RolesInv` is inductive together with `DeliveryInv`.
`FollowsMap` says that a broadcast has reached exactly the living sessions it
has no longer ahead of it, and that these have smaller ids than those ahead;
so the first of a class that it meets is the primary, and it meets no other
one later, although sessions are created between the broadcasts and dropped
during one. A private event goes to one session, which is the primary for it;
one of `IdentifyClient` goes to one session, so that two primaries are out of
the question.

### Data acquisitions

`DaqCycleProofs` proves, for any names, lists, cycles and number of objects:

* `AnswersMatch`: `Spec => AnswersMatchRequest`: data sent for a DAQ are the
  values of the variables last asked for, all of them or, while a PUT is
  adding them, an initial part; from `ClearList` on none of the list before.
* `DaqsAreSafe`: with `~NameClashes` (no PUT names an existing DAQ of the other
  kind), `Spec => []DaqInv`. Section 4 says what happens otherwise.

The first rests on `ListsInv`: the list of a DAQ is what its last PUT asked for
or, while one is being worked on, what has been added and what has still to be
added make it up together. The second rests on `SafeInv`: the handler that
removes a DAQ holds the session's mutex, so that no poll formats meanwhile
(`Working`); the DAQs of the map and the one being destroyed are all that are
allocated, and the map reaches each by one name (`Allocated`); a cycle thread
is active exactly while it belongs to an allocated DAQ (`Threads`). `DaqInv`
follows from its own parts and these.

### Variables and trends

`VarTrendsProofs` proves, for any number of workers, variables, trends and
builds, under `Orderly`: clients keep the variable of a trend (`~SwitchesVar`)
and the HTTP server is stopped before the interface is destroyed
(`ServerStopsFirst`).

* `TrendsAreSafe`: `Spec => []TrendsInv`: the pace thread, requests and polls
  find the objects of their variables and trends allocated, the array that is
  fed is the trend's own unless the trend is being deleted, nobody reads a
  list half built, and a registered trend is fed, the last two until a change
  of the list is announced. The array of a trend that is being deleted may be
  gone (run `TrendArray`).
* `TransferIsOrdered`: `Spec => []TransferInOrder`: of a trend that is not being
  deleted each value since the registration is sent once, in order and without
  a gap.

The argument. `ControlInv` says what workers, lists and the pace thread agree
on: who holds the session list is alone with a trend between its two halves;
one request at a time builds the list, object by object; a trend on a
variable's list traces that variable; the pace thread holds the mutex of the
variable it feeds, so that the trends it has still to write to cannot leave
that list. `Values` fixes how far the variables are apart within a round.
`RecordInv` then counts: what a trend has sent and recorded is the values from
its registration on, and as many as its variable has taken since, or one less
while the newest one is still to be written. The count needs `ControlInv`: were
the list of trends to change under the pace thread, a value would be written
twice or not at all.

### The clients' long poll

`ClientProofs` proves, for any DAQs, events and failures:

* `ClientIsSafe` and `EventsAreOrdered`: with `CreatesOnce` (the application
  calls `Create` once), `Spec => []ClientInv` and `Spec => []EventsInOrder`.
* `SessionIsDeleted`: `Spec => AtlTidyUpDeletesSession`, without that
  hypothesis: `TidyUp` of the Windows client over a working connection deletes
  the session at the server.

`ThreadFits` ties what `TidyUp` waits for to where the thread is: `done` or a
closed handle mean that it has left its loop. `LockFits` says that data are
dispatched under the mutex of the DAQ map. `OrderFits` orders the events on
their way: those the reader has, the one in the slot, those in the answer.
`SessionFits` says that a client with a session has the means to delete it.

`CreatesOnce` cannot be dropped. With two lives TLC violates
`PollThreadStopped`, `DispatchesToLiveDaq` and `EventsInOrder` in the portable
client, since a second `Create` without `TidyUp` leaves the first thread
running beside the second; in the Windows client, where `Create` tidies up
first, the first two fail, because a thread that is late in setting `done`
sets the flag of the second life, and the order still holds.

### Events' meaning and forms

`ClientProofs` also proves, for forms, reloads, calls and alerts within
`FormsAssumption` (below):

* `FormsAreWhole`: `FormsSpec => []FormsInv`: a dialog shows of each of its
  elements what the application or the user said last, and a form comes back
  with what each control showed.
* `LastRequestShown`: `FormsSpec => []LastRequestIsShown`, which speaks of the
  time before the server first asks to close a form: that request overwrites the
  name too, and nothing is claimed afterwards.
* `EventsUnderstood`: `FormsSpec => []EventsAreUnderstood`: a client takes each
  event for what it was fired for and reads its arguments, the time limit of a
  recording if it is in whole seconds (section 4 has what becomes of others).

A control's way. `Only` and `Without` say which members a text has and which it
has not; from them `ControlArrives` follows for the four kinds: the element
the client decodes is the control the server wrote, with its value. A dialog is
`Built` of them: `ControlIsFound` and `NoOtherIsFound` say that `GetDlgItem`
finds for an element its own control, although two buttons have taken the
numbers of OK and Cancel. `DialogFits` is the invariant of one dialog: it is
built of the elements of its form, what its controls show is `shown`, and what
has not been offered to the user is still what the data hold. `FormsIInv` joins
it for all dialogs, however nested, with `RequestsFit`: until a form is to be
closed, the name noted is that of the form requested last, and with no message
left it is the one the window thread has asked for last.

An alert's way. `MembersOfAlert` says where in the text an alert's own members
are; `MessageIsNoAlert` is what tells a message box from one.

`FormsAssumption` is what the code needs of an application, and TLC showed that
each part is needed: controls of a form have different names and at most one
takes the place of OK and one that of Cancel (else `GetDlgItem` finds the
first); a reload has all the form's updateable controls (`UpdateContent` reads
all of them from its data, also those a reload leaves out, and would put back
what the user has overwritten); what an alert has in addition is not named
like a member of its own.

### The remote calls

`RemoteCallsProofs` proves, for any threads that share a client of any of the
three kinds, any functions they call, and whatever the network does:

* `SearchFindsItsRow`: of any table of handlers, once sorted, the bisection
  finds the row of every key that is in it, and none for another one.
* `ReportsAreTrue`: `Spec => []ResultsAreTrue`: every call has a handler; what
  the portable and the Windows client report as done was accepted (`Abk.js` does
  not look); what a call decodes is its own answer, on Windows if no other
  thread called a function of the same client object meanwhile.
* `RecordingsAreInOrder`, `SetValuesStick`: `Spec => []RecordsInOrder` and
  `Spec => []SetValueSticks`.

Numbers. The library's induction takes an operator that the provers here cannot
instantiate. `Least` says instead that a set of numbers has a least element, and
`Climb` follows: what holds at one number and goes on to the next holds from
there on. `RecursionExists` gives the function that a recursion on an interval
describes, without which nothing could be said of a recursive function. From
these: `SortTableIs` (each pass of the sort leaves the rows before it in order
and rearranges the rest), `LookupIs` (a key that is in the sorted table is
always within the range the search has left, and the range shrinks), and, for
the table as it is written down, `RequestsAreFound` and `RequestIsServed`.

Handlers. `Belongs`, `KeepsRecordings`, `KeepsMailboxes` and `Records` say what a
handler's answer may be and what it leaves alone; a lemma per handler shows it,
and `AnswersAre` joins them for whatever the table leads to. `Shows` says that
the store holds what a request has set; `PutOneValue` shows it of what
`PutVarValue` does with a request of one entry, as the clients send them.

Functions. `CallsAre` goes through all functions of the three clients once: each
sends one of the requests of `Sends`, and reports success only if it is
`Justified`. From there on the three clients are one.

The invariant `CallsInv`: a thread holds an answer to its own call, and a
success was accepted (`ThreadFits`); on Windows one thread at a time is between
its request and its answer, and one that nobody came after finds its own answer
in the connection (`Connected`); what is on the wire was sent by a function of
its thread (`WireFits`), which waits for it until a call is given up
(`Prompt`). Recordings are in order and end before the writer's call, strictly
so while it is not recorded yet, which is what makes a repeated request
harmless (`RecordFits`). What was reported as set shows, and so does what is
about to be reported (`ToldFits`). The last two are not inductive without the
others.

`WriterAssumption` (one thread records and sets mailboxes) is used for the last
two theorems only. Two threads that send chunks of one recording are not
ordered by anything but the connection.

On the way: the only request that this server answers with 403 is `HEAD`, so
that the quirk of the portable client, which takes 403 for an accepted
recording, makes no refused recording look like a success here.

### The HTTP server

`HttpServerProofs` proves, for any connections, requests, segments, options and
buffer sizes:

* `ServerIsSafe`: `Spec => []ServerInv`: a request is handled only when it is
  whole, it is served by the option with the longest path that fits, and the
  counter of connections is the number of threads at work.
* `ResponsesAreOrdered`: `Spec => []ResponsesInOrder`.

The longest path. `FindUrlOption` takes the option at or after the URL in
the order of the map and walks back to the first that is a left part of the
URL. That this one is the longest (`FindsLongest`) follows because the
order, compared character by character, is total (`LexTotal`, `LexTrans`,
`LexAnti`), a left part comes before what it is part of, and of two left
parts of one URL the longer comes later.

The order of responses. As long as the loop of a thread has not been left
(`Serving`), a connection is in one of two states (`Exchange`): the last request
of the client has been `Asked` and nothing of an answer to it is under way, so
that what was sent before ends with the whole answer to the request before; or
it has been `Answered`, and the last granule on its way is the one that
`nSendAdvance` counts. A `Send` that has written everything but has not yet
returned belongs to both, as the client may already have the answer and ask
again. `InOrder` speaks of what the client has together with what is in the
socket, so that moving granules from one to the other changes nothing. There
is one lemma per action.

### Discovery

`MessageProofs` proves, for any number of servers and both builds,
`PoolIsSafe`: `Spec => []PoolSafe`, which is `ThreadHasItsServer`,
`IteratorStaysValid` and `AllDeletedAtTheEnd`. The invariant `PoolInv`
joins the facts that a server is in the pool as long as it is alive, that it is
told to stop and to delete itself in one and only by the walk, and that a
server still to be visited runs. The last needs, for Windows, that no thread
ends before it is told to, and for Boost, that a thread that was started stays
joinable. So the walk itself deletes nothing, and the thread that deletes a
server is its own. That `RemoveAndDeleteAll` also returns is not a consequence:
in the Boost build it does not.

`FinderIsRight` is `Spec => []FinderInv`, for any number of servers, attempts
and rounds: no server answers more often than it was asked, `AbkFindServers`
lists a server once, and suggests none of several. `AnswersWereAskedFor` counts
for each server the answers under way and given, the one its thread is about to
send, and the requests in its socket: together they are never more than the
requests sent out. `ListIsPlain` says what the list holds.

### Texts

`MessageProofs` also proves, for any calls of the formatter, any names, strings
and values and any meta data, in texts nested less deep than
`JSONPARSER_MAXNESTING`, in the terms of `TextItems`:

* `TextsArrive`: `TextSpec => []TextInv`: the parser gets out the items that
  were put in, with their types, names and values, and tells names apart.
* `SkipsEndWhereTheyShould`: `TextSpec => SkipStopsAtItsEnd`, for whole texts as
  the formatter finishes them; truncated ones are not modelled.
* `MetaDataArrives`: `TextSpec => []MetaArrives`: a client learns of each of up
  to two variables what the server's `CMeta` holds, of a table the values and
  texts before the first entity without a text, and not that they are valid
  (section 4).

Recursion. The parser's loops and `UnescapeString` are recursive functions on
positions, which move on by one lexeme or by several. `JumpsExist` (as
`RecursionExists` for the remote calls) says that there is such a function if
the recursion stops behind a bound; what it yields follows by `Climb`, from the
bound downwards or along the characters of a string.

Strings. `Encodes(raw, s)` says that `raw` is `s` with some of its characters
escaped, every quote and backslash among them. What either writer makes of a
string is of that kind, `UnescapeString` takes it back (`UnescapeIs`), and
`SearchStringEnd` does not stop inside of it, since a quote in it stands behind
a backslash that is not itself escaped.

Items. `Written` ties a text to its items: the position where each ends, and
the stack of what is open there. Each item follows the one before it with a
comma or without; `MayFollow` says where a comma must stand. `IterateReads` is
then one turn of the parser: if it stands behind an item, `Iterate` leaves it
behind the next with what `IsRead` says of it. On the writer's side, every
method of the streams keeps `Formats`: the dump is `Written` with the open
streams on the stack; that includes a formatter within a formatter and members
taken over from another.

Levels. `LevelIs`: what `WrittenLevel` counts is the height of the stack, and
`LevelFalls`: one turn lowers it by one at most, at an end only. So `SkipItem`
stops at its own end.

Meta data. `InLoop` says what each loop of the client makes of an item, and
`IsRun` that such turns follow each other over the items. `Leads` says it of
calls of the server that are still to be made: `MetaLeads` goes through
`FormatMetaAsJson` member by member (`RowsMake`, and the arrays of thresholds
and of the table with the rule that no entity is taken after one that failed).
`LearnedIsExpected` compares the outcome with `Expected`.

The invariant `TextIInv`: while the text is written, it is `Formats`, and the
calls made so far have led the client to where those still to be made go on
(`AnswerSoFar`); when it is finished, its items are the run of a whole answer;
and the parser stands behind item `passed`, the client in the loop and with the
data that the run has there (`IsParsing`, `IsDecoding`). Without the run
nothing would keep a client from being in another loop than the item is for.

`MetaAssumption` says what a `CMeta` can hold: one text or none where a text may
be missing, five thresholds. The strings are any.

### What is only model-checked

* All liveness properties: they rest on fairness and `ENABLED`, which the proof
  system does not support.
* What the lexemes of a text stand for: the digits of a number and of a date are
  one lexeme each in the model, so neither checked nor proved.

## 6. What is not modelled

* The public `CLoggerInterface::DeleteSession(id)` and
  `CSession::DeleteDaqLists`, which nothing in the repository calls.
* Locks that time out: the Boost build ignores the timeout; what a Windows
  build does after `ABK_SESSIONLOCK_TIMEOUT` is not modelled, nor are the Windows
  variants of `CrossPlatform.cpp`.
* Torn values: a data race on a string or a list is reduced to whole values
  and whole elements.
* Parsing of HTTP headers and query strings, MIME types, wording and formatting,
  conversion between code pages, the digits of numbers, dates beyond their shape.
* Truncated JSON texts, which the library never writes, and texts nested deeper
  than the parser's stack, of which the model says only that the outcome is
  undefined.
* Clients that send a request before the answer to the last one has come.
* The persistence of client settings, logging, `SetServerAddr`, layout and fonts
  of dialogs, the browser's poller and pages.
* The log queue (a list under one mutex), the thread that creates traffic
  (`CTempConnection` with `CThreadLauncher`), the string, variant and list
  classes of `AfxWrapper`, the demonstration clients and `Tests`.
* What Winsock, MFC, libsoup, drogon and the sockets do is modelled from how
  the code uses it and marked external.

`PROJECT.json` gives the status of each component with the reason.

## 7. Plan

Done: all modules of section 2, with the runs of section 3 and the proofs of
section 5, which state every safety property of sessions, event delivery, data
acquisitions, trends, the long poll, forms, the remote calls, the HTTP server,
discovery and the texts.

Left, in order of importance:

1. A composition of `ClientPolling` with `EventDelivery`, for order from the
   firing thread to the application.
2. `DecodeUriValue`, truncated texts, the browser's poller.
