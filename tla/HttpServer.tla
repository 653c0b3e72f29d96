----------------------------- MODULE HttpServer -----------------------------
(***************************************************************************)
(* CHttpServer (HttpServerLib), the HTTP server of the Windows example:    *)
(* main starts and stops it, an accept thread takes connections from the   *)
(* listening socket, and each connection has a thread that collects a      *)
(* request, handles it and sends the response in granules as the socket    *)
(* takes them.                                                             *)
(*                                                                         *)
(* A connection is a TCP socket: segments arrive in order, a send takes as *)
(* many granules as the send buffer has room for, and Windows posts        *)
(* FD_READ, FD_WRITE (after a send that would have blocked) and FD_CLOSE.  *)
(* Clients wait for a response before the next request, as the clients of  *)
(* this repository do (CAtlHttpClient, libsoup, XMLHttpRequest).           *)
(* A URL is a sequence of characters, ordered as std::string orders them.  *)
(***************************************************************************)
EXTENDS Integers, Sequences, FiniteSets, SequencesExt

CONSTANTS
    Conns,       \* connections
    Request,     \* Request[c]: the requests the client of c sends, in order:
                 \*   [url, head, parts], its header ends with segment `head'
    OptionUrls,  \* the URLs AddUrlOption is called for
    Size(_),     \* granules of the response of an option, NoOption: of a 404
    NoOption,    \* FindUrlOption returned NULL
    SendBuffer,  \* granules a socket takes before a send would block
    RxBuffer,    \* segments one WSARecv returns at most
    Slash, Plus, Space,  \* the characters / + and blank
    Escape       \* a character x is written as Escape + x to stand for %xx

ASSUME HttpAssumption ==
    /\ IsFiniteSet(Conns)
    /\ SendBuffer \in Nat \ {0} /\ RxBuffer \in Nat \ {0}
    /\ \A c \in Conns :
          /\ Request[c] \in Seq([url : Seq(Int), head : Nat, parts : Nat])
          /\ \A i \in DOMAIN Request[c] :
                Request[c][i].head \in 1 .. Request[c][i].parts
    /\ IsFiniteSet(OptionUrls) /\ OptionUrls \subseteq Seq(Int) \ {<<>>}
    /\ Slash \in Int /\ Plus \in Int /\ Space \in Int /\ Escape \in Int

VARIABLES
    main,       \* the thread that calls Run and Stop
    shutdown,   \* m_evShutdown
    accept,     \* the accept thread
    count,      \* m_statistics.nClientsConnected
    thread,     \* thread[c]: where the thread of connection c is
    taken,      \* taken[c]: FD_CLOSE is among the events it enumerated last
    strRequest, \* strRequest[c]: segments collected
    response,   \* response[c]: vectResponse, [of, option, size]
    advance,    \* advance[c]: nSendAdvance
    keepAlive,  \* keepAlive[c]: bKeepAlive
    client,     \* client[c]: "off", "open" or "closed"
    request,    \* request[c]: number of requests the client has begun
    segment,    \* segment[c]: segments of the last one it has sent
    got,        \* got[c]: granules it has received
    arrived,    \* arrived[c]: segments in the server's socket
    out,        \* out[c]: granules in the server's send buffer
    blocked,    \* blocked[c]: a send would have blocked
    events      \* events[c]: network events posted

serverVars == <<main, shutdown, accept, count>>
localVars == <<strRequest, response, advance, keepAlive>>
clientVars == <<client, request, segment, got>>
socketVars == <<arrived, out, blocked, events>>
httpVars == <<serverVars, thread, taken, localVars, clientVars, socketVars>>

-----------------------------------------------------------------------------
(* URLs and their options. *)

\* AddUrlOption: an option's URL ends with a delimiter.
AddUrlOption(u) == IF u[Len(u)] = Slash THEN u ELSE Append(u, Slash)

\* The order of the keys of m_mapUrlOptions.
LexLeq(u, v) ==
    \/ IsPrefix(u, v)
    \/ \E i \in DOMAIN u \cap DOMAIN v :
          u[i] < v[i] /\ \A j \in 1 .. i - 1 : u[j] = v[j]
m_mapUrlOptions == {AddUrlOption(u) : u \in OptionUrls}
FirstOf(S) == CHOOSE u \in S : \A v \in S : LexLeq(u, v)
LastOf(S) == CHOOSE u \in S : \A v \in S : LexLeq(v, u)

UnescapeString(u) ==
    [i \in DOMAIN u |-> IF u[i] >= Escape THEN u[i] - Escape
                        ELSE IF u[i] = Plus THEN Space ELSE u[i]]

\* lower_bound, or the last option when there is none.
StartOfSearch(u) ==
    LET after == {o \in m_mapUrlOptions : LexLeq(u, o)}
    IN  IF after = {} THEN LastOf(m_mapUrlOptions) ELSE FirstOf(after)

\* FindUrlOption walks back from lower_bound to the first left part of the URL.
FindUrlOption(u) ==
    LET start == StartOfSearch(u)
        m == {o \in m_mapUrlOptions : LexLeq(o, start) /\ IsPrefix(o, u)}
    IN  IF m = {} THEN NoOption ELSE LastOf(m)

-----------------------------------------------------------------------------
(* Requests and responses. *)

Current(c) == Request[c][request[c]]

\* TestRequestCompleteness: -1 no end of headers, 0 body missing.
TestRequestCompleteness(c, buf) ==
    LET q == Request[c][buf[1][1]]
    IN  CASE Len(buf) < q.head  -> -1
          [] Len(buf) >= q.parts -> q.head
          [] OTHER               -> 0

\* The options that serve each request: those its unescaped URL leads to.
RequestOption ==
    [c \in Conns |-> [n \in DOMAIN Request[c] |->
        FindUrlOption(UnescapeString(Request[c][n].url))]]

\* ParseAndHandleRequest: the handler of the option, or 404 without one.
ParseAndHandleRequest(c, buf) ==
    LET o == RequestOption[c][buf[1][1]]
    IN  [of |-> buf[1][1], option |-> o, size |-> Size(o)]

\* No response is empty: it has a header.
ASSUME SizeAssumption ==
    \A o \in m_mapUrlOptions \cup {NoOption} : Size(o) \in Nat \ {0}

\* A response is sent in granules, each naming its request and its option.
Granules(r) ==
    [i \in 1 .. r.size |-> [of |-> r.of, i |-> i, option |-> r.option]]
NoResponse == [of |-> 0, option |-> NoOption, size |-> 0]

\* The client has the whole response to its last request (Content-Length).
HasResponse(c) ==
    \/ request[c] = 0
    \/ got[c] # <<>> /\ LET g == got[c][Len(got[c])]
                        IN  g.of = request[c] /\ g.i = Size(g.option)

-----------------------------------------------------------------------------
(* The server and its accept thread. *)

\* m_bRunning is set: Run has created the accept thread.
Run ==
    /\ main = "idle" /\ main' = "running"
    /\ accept' = "listening"
    /\ UNCHANGED <<shutdown, count, thread, taken, localVars, clientVars,
                   socketVars>>

Stop ==
    /\ main = "running" /\ main' = "stopping"
    /\ shutdown' = TRUE
    /\ UNCHANGED <<accept, count, thread, taken, localVars, clientVars,
                   socketVars>>

\* The accept thread has ended, or is killed after THREADKILL_TIMEOUT_MS.
StopWaits ==
    /\ main = "stopping" /\ main' = "counting"
    /\ accept = "ended"
    /\ UNCHANGED <<shutdown, accept, count, thread, taken, localVars,
                   clientVars, socketVars>>
StopKills ==
    /\ main = "stopping" /\ main' = "counting"
    /\ accept = "listening" /\ accept' = "killed"
    /\ UNCHANGED <<shutdown, count, thread, taken, localVars, clientVars,
                   socketVars>>

\* No thread is counted any more, or 100 polls have passed.
StopCounted ==
    /\ main = "counting" /\ main' = "stopped"
    /\ count = 0
    /\ UNCHANGED <<shutdown, accept, count, thread, taken, localVars,
                   clientVars, socketVars>>
StopGivesUp ==
    /\ main = "counting" /\ main' = "gave up"
    /\ count # 0
    /\ UNCHANGED <<shutdown, accept, count, thread, taken, localVars,
                   clientVars, socketVars>>

\* The shutdown event has the lower index: it is seen first.  Closing the
\* listening socket resets the connections nobody has accepted.
AcceptEnds ==
    /\ accept = "listening" /\ shutdown /\ accept' = "ended"
    /\ client' = [c \in Conns |->
          IF thread[c] = "none" /\ client[c] = "open" THEN "closed"
          ELSE client[c]]
    /\ UNCHANGED <<main, shutdown, count, thread, taken, localVars, request,
                   segment, got, socketVars>>

\* AddConnection: the connection's thread is created.  It counts itself.
AddConnection(c) ==
    /\ accept = "listening" /\ ~shutdown
    /\ client[c] # "off" /\ thread[c] = "none"
    /\ thread' = [thread EXCEPT ![c] = "created"]
    /\ UNCHANGED <<serverVars, taken, localVars, clientVars, socketVars>>

-----------------------------------------------------------------------------
(* The thread of a connection. *)

ConnectionThreadS(c) ==
    /\ thread[c] = "created"
    /\ thread' = [thread EXCEPT ![c] = "waiting"]
    /\ count' = count + 1
    /\ UNCHANGED <<main, shutdown, accept, taken, localVars, clientVars,
                   socketVars>>

InLoop(c) == keepAlive[c] \/ advance[c] > 0

\* What follows the READ branch: the WRITE and the CLOSE branch.
AfterRead(c, ev) ==
    IF "write" \in ev /\ advance[c] > 0 THEN "resending"
    ELSE IF "close" \in ev THEN "leaving" ELSE "waiting"

\* Mutant of Wake: a complete header is taken for a complete request.
WakeHeader(c) ==
    LET ev == events[c]
        n == IF "read" \in ev THEN Min({RxBuffer, Len(arrived[c])}) ELSE 0
        buf == strRequest[c] \o SubSeq(arrived[c], 1, n)
    IN  /\ thread[c] = "waiting" /\ InLoop(c) /\ ev # {}
        /\ taken' = [taken EXCEPT ![c] = "close" \in ev]
        /\ events' = [events EXCEPT ![c] =
                         IF n < Len(arrived[c]) THEN {"read"} ELSE {}]
        /\ arrived' = [arrived EXCEPT ![c] = SubSeq(@, n + 1, Len(@))]
        /\ strRequest' = [strRequest EXCEPT ![c] = buf]
        /\ thread' = [thread EXCEPT ![c] =
              IF n > 0 /\ TestRequestCompleteness(c, buf) >= 0
              THEN "handling" ELSE AfterRead(c, ev)]
        /\ UNCHANGED <<serverVars, response, advance, keepAlive, clientVars,
                       out, blocked>>

\* A network event, which goes before the shutdown event: READ receives what
\* has arrived and tests whether the request is complete.
Wake(c) ==
    LET ev == events[c]
        n == IF "read" \in ev THEN Min({RxBuffer, Len(arrived[c])}) ELSE 0
        buf == strRequest[c] \o SubSeq(arrived[c], 1, n)
    IN  /\ thread[c] = "waiting" /\ InLoop(c) /\ ev # {}
        /\ taken' = [taken EXCEPT ![c] = "close" \in ev]
        /\ events' = [events EXCEPT ![c] =
                         IF n < Len(arrived[c]) THEN {"read"} ELSE {}]
        /\ arrived' = [arrived EXCEPT ![c] = SubSeq(@, n + 1, Len(@))]
        /\ strRequest' = [strRequest EXCEPT ![c] = buf]
        /\ thread' = [thread EXCEPT ![c] =
              IF n > 0 /\ TestRequestCompleteness(c, buf) > 0
              THEN "handling" ELSE AfterRead(c, ev)]
        /\ UNCHANGED <<serverVars, response, advance, keepAlive, clientVars,
                       out, blocked>>

\* The request is handled; sending starts at the beginning of the response.
Handle(c) ==
    /\ thread[c] = "handling"
    /\ response' = [response EXCEPT ![c] =
                       ParseAndHandleRequest(c, strRequest[c])]
    /\ advance' = [advance EXCEPT ![c] = 0]
    /\ thread' = [thread EXCEPT ![c] = "sending"]
    /\ UNCHANGED <<serverVars, taken, strRequest, keepAlive, clientVars,
                   socketVars>>

\* Send returns in the READ branch or in the WRITE branch; both clear the
\* request, and only a failure ends the loop.
SendReturns(c, adv, ok) ==
    /\ advance' = [advance EXCEPT ![c] = adv]
    /\ strRequest' = [strRequest EXCEPT ![c] = <<>>]
    /\ keepAlive' = [keepAlive EXCEPT ![c] = @ /\ ok]
    /\ thread' = [thread EXCEPT ![c] =
          IF taken[c] THEN "leaving" ELSE "waiting"]

Sends(c) == thread[c] \in {"sending", "resending"}

\* Send: one granule.
SendGranule(c) ==
    /\ Sends(c) /\ client[c] = "open"
    /\ advance[c] < response[c].size /\ Len(out[c]) < SendBuffer
    /\ out' = [out EXCEPT ![c] =
                  Append(@, Granules(response[c])[advance[c] + 1])]
    /\ advance' = [advance EXCEPT ![c] = @ + 1]
    /\ UNCHANGED <<serverVars, thread, taken, strRequest, response, keepAlive,
                   clientVars, arrived, blocked, events>>

SendDone(c) ==
    /\ Sends(c) /\ advance[c] = response[c].size
    /\ SendReturns(c, 0, TRUE)
    /\ UNCHANGED <<serverVars, taken, response, clientVars, socketVars>>

\* Mutant of SendWouldBlock: the rest of the response is forgotten.
SendWouldBlockForgets(c) ==
    /\ Sends(c) /\ client[c] = "open"
    /\ advance[c] < response[c].size /\ Len(out[c]) = SendBuffer
    /\ blocked' = [blocked EXCEPT ![c] = TRUE]
    /\ SendReturns(c, 0, TRUE)
    /\ UNCHANGED <<serverVars, taken, response, clientVars, arrived, out,
                   events>>

\* Mutant of SendWouldBlock: the last granule that did fit is sent again.
SendWouldBlockRepeats(c) ==
    /\ Sends(c) /\ client[c] = "open"
    /\ advance[c] < response[c].size /\ Len(out[c]) = SendBuffer
    /\ blocked' = [blocked EXCEPT ![c] = TRUE]
    /\ SendReturns(c, advance[c] - 1, TRUE)
    /\ UNCHANGED <<serverVars, taken, response, clientVars, arrived, out,
                   events>>

\* WSAEWOULDBLOCK: Send returns TRUE, and FD_WRITE will tell when to go on.
SendWouldBlock(c) ==
    /\ Sends(c) /\ client[c] = "open"
    /\ advance[c] < response[c].size /\ Len(out[c]) = SendBuffer
    /\ blocked' = [blocked EXCEPT ![c] = TRUE]
    /\ SendReturns(c, advance[c], TRUE)
    /\ UNCHANGED <<serverVars, taken, response, clientVars, arrived, out,
                   events>>

SendFails(c) ==
    /\ Sends(c) /\ client[c] = "closed"
    /\ advance[c] < response[c].size
    /\ SendReturns(c, 0, FALSE)
    /\ UNCHANGED <<serverVars, taken, response, clientVars, socketVars>>

Break(c) ==
    /\ thread[c] = "waiting" /\ thread' = [thread EXCEPT ![c] = "leaving"]
    /\ UNCHANGED <<serverVars, taken, localVars, clientVars, socketVars>>

\* Mutant of LeavesLoop: the shutdown event is not waited for.
LeavesLoopOnly(c) == ~InLoop(c) /\ Break(c)

\* The loop's condition fails, or the shutdown event is the only one set.
LeavesLoop(c) == (~InLoop(c) \/ (shutdown /\ events[c] = {})) /\ Break(c)

\* PERSISTENCE_TIMEOUT: nothing happened on the connection for 10 s.
TimesOut(c) == InLoop(c) /\ events[c] = {} /\ Break(c)

\* closesocket; what is in the send buffer still reaches the client.
CloseSocket(c) ==
    /\ thread[c] = "leaving" /\ thread' = [thread EXCEPT ![c] = "closed"]
    /\ UNCHANGED <<serverVars, taken, localVars, clientVars, socketVars>>

ThreadEnds(c) ==
    /\ thread[c] = "closed" /\ thread' = [thread EXCEPT ![c] = "ended"]
    /\ count' = count - 1
    /\ UNCHANGED <<main, shutdown, accept, taken, localVars, clientVars,
                   socketVars>>

-----------------------------------------------------------------------------
(* Clients (external). *)

\* FD_WRITE is posted for a new connection.
Connect(c) ==
    /\ client[c] = "off" /\ accept \in {"listening", "killed"}
    /\ client' = [client EXCEPT ![c] = "open"]
    /\ events' = [events EXCEPT ![c] = {"write"}]
    /\ UNCHANGED <<serverVars, thread, taken, localVars, request, segment, got,
                   arrived, out, blocked>>

\* A client begins the next request when it has the last response.
Sent(c, n, s) ==
    /\ client[c] = "open"
    /\ request' = [request EXCEPT ![c] = n]
    /\ segment' = [segment EXCEPT ![c] = s]
    /\ arrived' = [arrived EXCEPT ![c] = Append(@, <<n, s>>)]
    /\ events' = [events EXCEPT ![c] = @ \cup {"read"}]
    /\ UNCHANGED <<serverVars, thread, taken, localVars, client, got, out,
                   blocked>>
BeginRequest(c) ==
    /\ HasResponse(c) /\ request[c] < Len(Request[c])
    /\ Sent(c, request[c] + 1, 1)
SendRest(c) ==
    /\ request[c] > 0 /\ segment[c] < Current(c).parts
    /\ Sent(c, request[c], segment[c] + 1)

Receive(c) ==
    /\ client[c] = "open" /\ out[c] # <<>>
    /\ got' = [got EXCEPT ![c] = Append(@, Head(out[c]))]
    /\ out' = [out EXCEPT ![c] = Tail(@)]
    /\ blocked' = [blocked EXCEPT ![c] = FALSE]
    /\ events' = [events EXCEPT ![c] =
                     IF blocked[c] THEN @ \cup {"write"} ELSE @]
    /\ UNCHANGED <<serverVars, thread, taken, localVars, client, request,
                   segment, arrived>>

\* The client closes, or has read all there is of a closed connection.
ClientCloses(c) ==
    /\ client[c] = "open"
    /\ client' = [client EXCEPT ![c] = "closed"]
    /\ events' = [events EXCEPT ![c] = @ \cup {"close"}]
    /\ UNCHANGED <<serverVars, thread, taken, localVars, request, segment, got,
                   arrived, out, blocked>>
SeesEnd(c) ==
    thread[c] \in {"closed", "ended"} /\ out[c] = <<>> /\ ClientCloses(c)

-----------------------------------------------------------------------------

HttpInit ==
    /\ main = "idle" /\ shutdown = FALSE /\ accept = "none" /\ count = 0
    /\ thread = [c \in Conns |-> "none"]
    /\ taken = [c \in Conns |-> FALSE]
    /\ strRequest = [c \in Conns |-> <<>>]
    /\ response = [c \in Conns |-> NoResponse]
    /\ advance = [c \in Conns |-> 0]
    /\ keepAlive = [c \in Conns |-> TRUE]
    /\ client = [c \in Conns |-> "off"]
    /\ request = [c \in Conns |-> 0] /\ segment = [c \in Conns |-> 0]
    /\ got = [c \in Conns |-> <<>>]
    /\ arrived = [c \in Conns |-> <<>>] /\ out = [c \in Conns |-> <<>>]
    /\ blocked = [c \in Conns |-> FALSE] /\ events = [c \in Conns |-> {}]

ThreadStep(c) ==
    \/ ConnectionThreadS(c) \/ Wake(c) \/ Handle(c) \/ LeavesLoop(c)
    \/ SendGranule(c) \/ SendDone(c) \/ SendWouldBlock(c) \/ SendFails(c)
    \/ CloseSocket(c) \/ ThreadEnds(c)

HttpNext ==
    \/ Run \/ Stop \/ StopWaits \/ StopKills \/ StopCounted \/ StopGivesUp
    \/ AcceptEnds
    \/ \E c \in Conns :
          \/ AddConnection(c) \/ ThreadStep(c) \/ TimesOut(c)
          \/ Connect(c) \/ BeginRequest(c) \/ SendRest(c) \/ Receive(c)
          \/ ClientCloses(c) \/ SeesEnd(c)

HttpSpec == HttpInit /\ [][HttpNext]_httpVars

\* Threads are scheduled, and a client with a connection sends the rest of a
\* request it has begun and reads what it is sent.  Nobody has to call Stop,
\* open or close a connection; no time-out is needed.
HttpFairSpec ==
    /\ HttpSpec
    /\ WF_httpVars(StopWaits) /\ WF_httpVars(StopCounted)
    /\ WF_httpVars(AcceptEnds)
    /\ \A c \in Conns :
          /\ WF_httpVars(AddConnection(c)) /\ WF_httpVars(ThreadStep(c))
          /\ WF_httpVars(Receive(c)) /\ WF_httpVars(SeesEnd(c))
          /\ WF_httpVars(SendRest(c))

-----------------------------------------------------------------------------
(* Properties. *)

Counted(c) == thread[c] \notin {"none", "created", "ended"}

\* Every variable has a value of its type, and nClientsConnected is the number
\* of threads between their first and their last statement.
HttpTypeOK ==
    /\ main \in {"idle", "running", "stopping", "counting", "stopped",
                 "gave up"}
    /\ shutdown \in BOOLEAN
    /\ accept \in {"none", "listening", "ended", "killed"}
    /\ count = Cardinality({c \in Conns : Counted(c)})
    /\ \A c \in Conns :
          /\ thread[c] \in {"none", "created", "waiting", "handling", "sending",
                            "resending", "leaving", "closed", "ended"}
          /\ taken[c] \in BOOLEAN
          /\ events[c] \subseteq {"read", "write", "close"}
          /\ response[c].of \in 0 .. Len(Request[c])
          /\ advance[c] \in 0 .. response[c].size
          /\ client[c] \in {"off", "open", "closed"}
          /\ request[c] \in 0 .. Len(Request[c])
          /\ Len(out[c]) <= SendBuffer

\* Whatever granules a socket took at a time, and however a request was cut
\* into segments, what a client has received is the responses to its requests,
\* in order, each without a gap: Send, nSendAdvance and the WRITE branch
\* (ConnectionThread).
ResponsesInOrder ==
    \A c \in Conns :
        \A k \in DOMAIN got[c] :
            LET g == got[c][k]
            IN  IF k = 1 THEN g.of = 1 /\ g.i = 1
                ELSE LET p == got[c][k - 1]
                     IN  IF p.i < Size(p.option)
                         THEN g = [p EXCEPT !.i = @ + 1]
                         ELSE g.of = p.of + 1 /\ g.i = 1

\* A request is handled only when every segment of it has arrived: headers and
\* body (TestRequestCompleteness).
HandlesWholeRequests ==
    \A c \in Conns :
        thread[c] = "handling" =>
            strRequest[c] = [i \in 1 .. Current(c).parts |-> <<request[c], i>>]

\* A request is served by the options of the longest path that is a left part
\* of its URL (remarks at AddUrlOption and FindUrlOption).
LongestPathServes ==
    \A c \in Conns :
        response[c].of > 0 =>
            LET u == UnescapeString(Request[c][response[c].of].url)
                o == response[c].option
                fits == {p \in {AddUrlOption(v) : v \in OptionUrls} :
                            IsPrefix(p, u)}
            IN  IF fits = {} THEN o = NoOption
                ELSE o \in fits /\ \A p \in fits : Len(p) <= Len(o)

\* A request is served once it is complete, and by the right options, with
\* every working thread counted.
ServerInv == HttpTypeOK /\ HandlesWholeRequests /\ LongestPathServes

\* A request whose segments have all been sent is answered in full unless the
\* connection ends: no response is left half sent in the WRITE branch.
EveryRequestIsAnswered ==
    \A c \in Conns : \A n \in DOMAIN Request[c] :
        (request[c] = n /\ segment[c] = Request[c][n].parts)
            ~> (HasResponse(c) \/ client[c] = "closed" \/ accept = "killed")

\* Stop returns although clients keep their connections open and no time-out
\* expires, and when it has found no connection, no thread that it could count
\* is at work.
StopReturns ==
    /\ main = "stopping" ~> main \in {"stopped", "gave up"}
    /\ [][main' = "stopped" /\ main # "stopped" =>
              \A c \in Conns : ~Counted(c)]_httpVars
=============================================================================
