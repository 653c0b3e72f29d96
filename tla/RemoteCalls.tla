---------------------------- MODULE RemoteCalls ----------------------------
(***************************************************************************)
(* The calls of a client's application: each function of CAbkClient and of *)
(* Abk.js that sends a request and turns the answer into its result.       *)
(*                                                                         *)
(* Threads of one application share the client object, and with it the     *)
(* HTTP connection m_pClientAux: its last status and, on Windows, the body *)
(* of its last answer.  The client is one of three: "atl" (ClientLib),     *)
(* "boost" (ClientBoost, libsoup) and "js" (Abk.js, which has one thread). *)
(* The network loses requests and answers, cuts answers off, and delivers  *)
(* late what the client no longer waits for.  Sessions do not expire here  *)
(* (module SessionLifecycle), and DAQs, polls and events have modules of   *)
(* their own.                                                              *)
(***************************************************************************)
EXTENDS LoggerHandlers

CONSTANTS
    Threads,    \* threads of the application
    Uses,       \* Uses[t]: the functions thread t calls
    Writer,     \* the thread that sets values and records
    None,       \* no thread
    MaxCalls,   \* bound: calls of all threads, each counted with
    Weight,     \* bound: the weight of its function
    MaxLate     \* bound: requests on the wire nobody waits for

ASSUME CallsAssumption ==
    /\ Writer \in Threads /\ None \notin Threads
    /\ DOMAIN Uses = Threads /\ MaxCalls \in Nat /\ MaxLate \in Nat
    /\ \A op \in UNION {Uses[u] : u \in Threads} :
         Weight[op] \in Nat \ {0}

\* What is recorded and what is in the mailboxes comes from one thread.
OnlyWriter ==
    \A t \in Threads \ {Writer} :
      Uses[t] \cap {"SetMailboxValue", "SendAudioRecHeader",
                    "SendAudioRecData", "SendAudioRecFooter"} = {}

ASSUME WriterAssumption == OnlyWriter

VARIABLES
    platform,   \* which of the clients
    store,      \* the server
    th,         \* the threads
    nav,        \* who is in m_csNavigate, or runs the script
    aux,        \* m_pClientAux: its last answer, while it may be looked at
    sid,        \* m_nSessionId, g_nSessionId
    wire,       \* requests on their way
    calls,      \* the number of the last call
    accepted,   \* history: the threads' last calls, if the server took them
    told,       \* history: the entry last reported as set
    late        \* history: has a call been given up?

vars == <<platform, store, th, nav, aux, sid, wire, calls, accepted, told,
          late>>

\* An answer, of the request of that call; whole unless it was cut off.
Reply(code, data, whole, call) ==
    [code |-> code, data |-> data, whole |-> whole, call |-> call]
NoReply == Reply(0, <<>>, FALSE, 0)
NoRequest == [m |-> "", url |-> "", body |-> <<>>, as |-> 0, call |-> 0]
Idle == [pc |-> "idle", op |-> "", q |-> NoRequest, try |-> 0, r |-> NoReply,
         ok |-> FALSE, own |-> TRUE, alone |-> TRUE]

Init ==
    /\ platform \in {"atl", "boost", "js"}
    /\ store = InitStore
    /\ th = [t \in Threads |-> Idle]
    /\ nav = None /\ aux = NoReply /\ sid = 0 /\ wire = {} /\ calls = 0
    /\ accepted = {} /\ told = <<>> /\ late = FALSE

-----------------------------------------------------------------------------
(* One request and its answer. *)

\* Did the request succeed, for the function that sent it?
AtlOk(r) == r.code = 200 \/ (r.whole /\ r.code \in 200..299)

SoupOk(r) == r.whole /\ r.code = 200
AbkXhrAnswerSuccess(r) == r.whole /\ r.code = 200

Success(t) ==
    CASE platform = "atl"   -> AtlOk(th[t].r)
      [] platform = "boost" -> SoupOk(th[t].r)
      [] platform = "js"    -> AbkXhrAnswerSuccess(th[t].r)

\* Mutant of Answer: every client keeps the text in its connection.
AnswerInConnection(t) == aux

\* The text that is decoded: on Windows a pointer into the connection's body,
\* followed after the critical section has been left.
Answer(t) == IF platform = "atl" THEN aux ELSE th[t].r
Decodes(t, names) == Success(t) /\ \A n \in names : Has(Answer(t).data, n)

\* A URL has to be there, and an MD5 unless the URL is empty.
ConfigDecodes(t) ==
    /\ Decodes(t, {"Url"})
    /\ Field(Answer(t).data, "Url").x # 0 => Has(Answer(t).data, "MD5")

\* Each entry of the list needs its URL and its MD5; the walk over the list
\* does not tell an empty one from an entry without either.
FirmwareDecodes(t) ==
    /\ Success(t)
    /\ Has(Answer(t).data, "Images") => Decodes(t, {"Url", "MD5"})

Message(t, q, try) == [t |-> t, q |-> q, try |-> try]

Navigate(t, op, m, url, body) ==
    LET q == [m |-> m, url |-> url, body |-> body, as |-> sid,
              call |-> calls + Weight[op]]
    IN  /\ th[t].pc = "idle" /\ nav = None /\ op \in Uses[t]
        /\ calls' = q.call /\ calls' <= MaxCalls
        /\ nav' = IF platform = "boost" THEN None ELSE t
        /\ th' = [u \in Threads |->
                    IF u = t THEN [Idle EXCEPT !.pc = "wait", !.op = op,
                                               !.q = q, !.try = 1]
                    ELSE [th[u] EXCEPT !.alone = @ /\ th[u].pc = "idle"]]
        /\ wire' = wire \cup {Message(t, q, 1)}
        /\ told' = IF t = Writer /\ m = "PUT" THEN <<>> ELSE told
        /\ accepted' = accepted \ {th[t].q.call}
        /\ UNCHANGED <<platform, store, aux, sid, late>>

Waiting(m) ==
    /\ th[m.t].pc = "wait"
    /\ th[m.t].q.call = m.q.call /\ th[m.t].try = m.try

\* The server handles a request; its answer arrives whole or is cut off behind
\* the status line.  One that is lost is that of a request handled late.
Serve(m, how) ==
    LET rsp == HandleHttpRequest(store, m.q)
        whole == Reply(rsp.code, rsp.data, TRUE, m.q.call)
        answer == IF how = "whole" THEN whole
                  ELSE [whole EXCEPT !.data = <<>>, !.whole = FALSE]
    IN  /\ m \in wire /\ wire' = wire \ {m}
        /\ store' = rsp.store
        /\ accepted' = IF rsp.code \in 200..299 /\ th[m.t].q.call = m.q.call
                       THEN accepted \cup {m.q.call} ELSE accepted
        /\ IF Waiting(m)
           THEN th' = [th EXCEPT ![m.t].pc = "answered", ![m.t].r = answer]
           ELSE how = "whole" /\ th' = th
        /\ UNCHANGED <<platform, nav, aux, sid, calls, told, late>>

\* The connection breaks, or the time is over.  The request may still arrive,
\* unless it is one too many of those; one that stays on the wire is lost.
GiveUp(t) ==
    LET lateOnes == {m \in wire : ~Waiting(m)}
    IN  /\ th[t].pc = "wait"
        /\ th' = [th EXCEPT ![t].pc = "answered", ![t].r = NoReply]
        /\ late' = TRUE
        /\ wire' = IF Cardinality(lateOnes) < MaxLate THEN wire
                   ELSE wire \ {Message(t, th[t].q, th[t].try)}
        /\ UNCHANGED <<platform, store, nav, aux, sid, calls, accepted, told>>

Received(t) ==
    /\ th' = [th EXCEPT ![t].pc = "decode"]
    /\ aux' = th[t].r
    /\ nav' = IF platform = "atl" THEN None ELSE nav
    /\ UNCHANGED wire

Resend(t) ==
    /\ th' = [th EXCEPT ![t].pc = "wait", ![t].try = @ + 1]
    /\ wire' = wire \cup {Message(t, th[t].q, th[t].try + 1)}
    /\ UNCHANGED <<aux, nav>>

\* Mutant of NavigateX: an answer that breaks off is no success.
NavigateXCut(t) ==
    /\ platform = "atl" /\ th[t].pc = "answered"
    /\ IF th[t].try = 2 \/ (th[t].r.whole /\ AtlOk(th[t].r))
       THEN Received(t) ELSE Resend(t)
    /\ UNCHANGED <<platform, store, sid, calls, accepted, told, late>>

\* The Windows client sends a request that fails a second time, whatever the
\* status; a status of 200 is a success even if the body is missing.
NavigateX(t) ==
    /\ platform = "atl" /\ th[t].pc = "answered"
    /\ IF th[t].try = 2 \/ AtlOk(th[t].r) THEN Received(t) ELSE Resend(t)
    /\ UNCHANGED <<platform, store, sid, calls, accepted, told, late>>

\* libsoup and the browser send a request once.
SoupSend(t) ==
    /\ platform # "atl" /\ th[t].pc = "answered"
    /\ Received(t)
    /\ UNCHANGED <<platform, store, sid, calls, accepted, told, late>>

\* Is the body of the answer looked at after the critical section?
FollowsBody(m, op) == m \in {"GET", "POST"} /\ op # "DownloadFile"

\* The function returns its result to the application.
Return(t, op, ok) ==
    /\ th[t].pc = "decode" /\ th[t].op = op
    /\ th' = [th EXCEPT ![t] = [Idle EXCEPT
                !.ok = ok, !.q.call = th[t].q.call, !.alone = th[t].alone,
                !.own = \/ Answer(t).call = th[t].q.call \/ ~ok
                        \/ ~FollowsBody(th[t].q.m, op)]]
    /\ nav' = IF nav = t THEN None ELSE nav
    /\ aux' = IF \E u \in Threads \ {t} : th[u].pc = "decode"
              THEN aux ELSE NoReply
    /\ sid' = CASE op = "ObtainSessionId" /\ ok ->
                     Field(Answer(t).data, "SessionId").x
                [] op = "DeleteSession" -> 0
                [] OTHER -> sid
    /\ told' = IF ok /\ t = Writer /\ op \in {"SetVarValue", "SetMailboxValue"}
               THEN th[t].q.body ELSE told
    /\ UNCHANGED <<platform, store, wire, calls, accepted, late>>

\* A function: it sends one request, and ok is its result.
Call(t, p, op, m, url, bodies, ok) ==
    \/ platform = p /\ \E body \in bodies : Navigate(t, op, m, url, body)
    \/ platform = p /\ Return(t, op, ok)

NoBody == {<<>>}
ClientInfo == {<<Member("Class", "str", 1), Member("Type", "str", n),
                 Member("Serial", "str", 1)>> : n \in {0, 1}}
Names(set) == {<<Member(n, "get", 0)>> : n \in set}
Entries == {<<Member("route", "num", x)>> : x \in {1, 2}}
Speeds == {<<Member("speed", t, 1)>> : t \in {"num", "bool", "str"}}
Event(type) == {<<Member("Sender", "num", sid), Member("Type", type, 0)>>}
Header == {<<Member("ID", "num", 1), Member("SampleRate", "num", 1),
             Member("Channels", "num", 1), Member("Bits", "num", 8)>>}
Chunk == {<<Member("ID", "num", 1), Member("Data", "arr", 1)>>}
Footer == {<<Member("ID", "num", 1)>>}
Form == {<<Member("Input", "str", 1)>>}
File == {<<Member("", "file", 1)>>}

-----------------------------------------------------------------------------
(* CAbkClient on Windows.  Overloads that differ by type are one function, *)
(* as are the two ways of each to name the receiver of the result.         *)

AtlObtainSessionId(t) ==
    Call(t, "atl", "ObtainSessionId", "POST", "session_id", ClientInfo,
         Decodes(t, {"SessionId"}))

AtlDeleteSession(t) ==
    Call(t, "atl", "DeleteSession", "DELETE", "session_id", NoBody, Success(t))

AtlGetCurrentServerTime(t) ==
    Call(t, "atl", "GetCurrentServerTime", "GET", "current_time", NoBody,
         Decodes(t, {"CurrentTime"}))

AtlGetStorageInfo(t) ==
    Call(t, "atl", "GetStorageInfo", "GET", "storage_info", NoBody,
         Decodes(t, {"Total", "Free"}))

\* HEAD of a file: an answer without a body is what is expected, and it has
\* to bear a date.
AtlGetLastModified(t) ==
    Call(t, "atl", "GetLastModified", "HEAD", "client_states", NoBody,
         th[t].r.code # 0 /\ Has(th[t].r.data, "Last-Modified"))

AtlSendEvent(t) ==
    Call(t, "atl", "SendEvent", "PUT", "client_event",
         Event("StartDataTransfer"), Success(t))

AtlSendButtonEvent(t) ==
    Call(t, "atl", "SendButtonEvent", "PUT", "client_event", Event("Button"),
         Success(t))

AtlSendAlertConfirmEvent(t) ==
    Call(t, "atl", "SendAlertConfirmEvent", "PUT", "client_event",
         Event("AlertConfirm"), Success(t))

AtlSendAudioRecRejectEvent(t) ==
    Call(t, "atl", "SendAudioRecRejectEvent", "PUT", "client_event",
         Event("AudioRecReject"), Success(t))

\* The value is reported as read whatever its type is.
AtlGetVarValue(t) ==
    Call(t, "atl", "GetVarValue", "POST", "var_value",
         Names({"speed", "unknown"}), Decodes(t, {"Data"}))

AtlGetMailboxValue(t) ==
    Call(t, "atl", "GetMailboxValue", "POST", "mailbox_value",
         Names({"route"}), Decodes(t, {"Data"}))

AtlSetVarValue(t) ==
    Call(t, "atl", "SetVarValue", "PUT", "var_value",
         Speeds, Success(t))

AtlSetMailboxValue(t) ==
    Call(t, "atl", "SetMailboxValue", "PUT", "mailbox_value", Entries,
         Success(t))

AtlGetVarMeta(t) ==
    Call(t, "atl", "GetVarMeta", "POST", "var_meta", Names({"speed"}),
         Success(t))

AtlGetMailboxMeta(t) ==
    Call(t, "atl", "GetMailboxMeta", "POST", "mailbox_meta",
         Names({"route", "unknown"}), Success(t))

AtlGetVarList(t) ==
    Call(t, "atl", "GetVarList", "GET", "var_list", NoBody,
         Decodes(t, {"VarList"}))

AtlGetMailboxList(t) ==
    Call(t, "atl", "GetMailboxList", "GET", "mailbox_list", NoBody,
         Decodes(t, {"VarList"}))

AtlGetForm(t) ==
    Call(t, "atl", "GetForm", "GET", "forms", NoBody, Decodes(t, {"Caption"}))

AtlSendForm(t) ==
    Call(t, "atl", "SendForm", "PUT", "forms", Form, Success(t))

\* The status is the connection's, not that of the call's own answer.
AtlGetClientState(t) ==
    Call(t, "atl", "GetClientState", "GET", "client_states", NoBody,
         Success(t) /\ aux.code = 200)

\* The variable that gets the result hides the one that is returned.
AtlSetClientState(t) ==
    Call(t, "atl", "SetClientState", "PUT", "client_states", File, FALSE)

AtlGetClientConfigInfo(t) ==
    Call(t, "atl", "GetClientConfigInfo", "POST", "client_config/info",
         ClientInfo, ConfigDecodes(t))

AtlGetClientFirmwareInfo(t) ==
    Call(t, "atl", "GetClientFirmwareInfo", "POST", "client_firmware",
         ClientInfo, FirmwareDecodes(t))

\* The local file is deleted again unless the download succeeds.
AtlDownloadFile(t) ==
    Call(t, "atl", "DownloadFile", "GET", "client_states", NoBody, Success(t))

AtlGetServerInfo(t) ==
    Call(t, "atl", "GetServerInfo", "GET", "server_info", NoBody, Success(t))

AtlSendAudioRecHeader(t) ==
    Call(t, "atl", "SendAudioRecHeader", "PUT", "audio_rec/header", Header,
         Success(t))

AtlSendAudioRecData(t) ==
    Call(t, "atl", "SendAudioRecData", "PUT", "audio_rec/data", Chunk,
         Success(t))

AtlSendAudioRecFooter(t) ==
    Call(t, "atl", "SendAudioRecFooter", "PUT", "audio_rec/footer", Footer,
         Success(t))

AtlGetInterfaceStatistics(t) ==
    Call(t, "atl", "GetInterfaceStatistics", "GET", "interface_statistic",
         NoBody, Success(t))

AtlCall(t) ==
    \/ AtlObtainSessionId(t)       \/ AtlDeleteSession(t)
    \/ AtlGetCurrentServerTime(t)  \/ AtlGetStorageInfo(t)
    \/ AtlGetLastModified(t)       \/ AtlSendEvent(t)
    \/ AtlSendButtonEvent(t)       \/ AtlSendAlertConfirmEvent(t)
    \/ AtlSendAudioRecRejectEvent(t) \/ AtlGetVarValue(t)
    \/ AtlGetMailboxValue(t)       \/ AtlSetVarValue(t)
    \/ AtlSetMailboxValue(t)       \/ AtlGetVarMeta(t)
    \/ AtlGetMailboxMeta(t)        \/ AtlGetVarList(t)
    \/ AtlGetMailboxList(t)        \/ AtlGetForm(t)
    \/ AtlSendForm(t)              \/ AtlGetClientState(t)
    \/ AtlSetClientState(t)        \/ AtlGetClientConfigInfo(t)
    \/ AtlGetClientFirmwareInfo(t) \/ AtlDownloadFile(t)
    \/ AtlGetServerInfo(t)         \/ AtlSendAudioRecHeader(t)
    \/ AtlSendAudioRecData(t)      \/ AtlSendAudioRecFooter(t)
    \/ AtlGetInterfaceStatistics(t)

-----------------------------------------------------------------------------
(* CAbkClient of ClientBoost, with the HTTP client of libsoup. *)

BoostObtainSessionId(t) ==
    Call(t, "boost", "ObtainSessionId", "POST", "session_id", ClientInfo,
         Decodes(t, {"SessionId"}))

BoostDeleteSession(t) ==
    Call(t, "boost", "DeleteSession", "DELETE", "session_id", NoBody,
         Success(t))

BoostGetServerInfo(t) ==
    Call(t, "boost", "GetServerInfo", "GET", "server_info", NoBody, Success(t))

BoostGetInterfaceStatistics(t) ==
    Call(t, "boost", "GetInterfaceStatistics", "GET", "interface_statistic",
         NoBody, Success(t))

BoostSendEvent(t) ==
    Call(t, "boost", "SendEvent", "PUT", "client_event",
         Event("StartDataTransfer"), Success(t))

BoostSendAlertConfirmEvent(t) ==
    Call(t, "boost", "SendAlertConfirmEvent", "PUT", "client_event",
         Event("AlertConfirm"), Success(t))

BoostSendAudioRecRejectEvent(t) ==
    Call(t, "boost", "SendAudioRecRejectEvent", "PUT", "client_event",
         Event("AudioRecReject"), Success(t))

BoostSendButtonEvent(t) ==
    Call(t, "boost", "SendButtonEvent", "PUT", "client_event", Event("Button"),
         Success(t))

BoostDownloadFile(t) ==
    Call(t, "boost", "DownloadFile", "GET", "client_states", NoBody,
         Success(t))

BoostSetVarValue(t) ==
    Call(t, "boost", "SetVarValue", "PUT", "var_value",
         Speeds, Success(t))

BoostSetMailboxValue(t) ==
    Call(t, "boost", "SetMailboxValue", "PUT", "mailbox_value", Entries,
         Success(t))

BoostGetCurrentServerTime(t) ==
    Call(t, "boost", "GetCurrentServerTime", "GET", "current_time", NoBody,
         Decodes(t, {"CurrentTime"}))

BoostGetVarList(t) ==
    Call(t, "boost", "GetVarList", "GET", "var_list", NoBody,
         Decodes(t, {"VarList"}))

BoostGetMailboxList(t) ==
    Call(t, "boost", "GetMailboxList", "GET", "mailbox_list", NoBody,
         Decodes(t, {"VarList"}))

BoostGetVarMeta(t) ==
    Call(t, "boost", "GetVarMeta", "POST", "var_meta", Names({"speed"}),
         Success(t))

BoostGetMailboxMeta(t) ==
    Call(t, "boost", "GetMailboxMeta", "POST", "mailbox_meta",
         Names({"route", "unknown"}), Success(t))

BoostSendForm(t) ==
    Call(t, "boost", "SendForm", "PUT", "forms", Form, Success(t))

BoostGetForm(t) ==
    Call(t, "boost", "GetForm", "GET", "forms", NoBody,
         Decodes(t, {"Caption"}))

\* LOGGER_QUIRK: a status of 403 counts as a success.
Recorded(t) == Success(t) \/ aux.code = 403

BoostSendAudioRecHeader(t) ==
    Call(t, "boost", "SendAudioRecHeader", "PUT", "audio_rec/header", Header,
         Recorded(t))

BoostSendAudioRecData(t) ==
    Call(t, "boost", "SendAudioRecData", "PUT", "audio_rec/data", Chunk,
         Recorded(t))

BoostSendAudioRecFooter(t) ==
    Call(t, "boost", "SendAudioRecFooter", "PUT", "audio_rec/footer", Footer,
         Recorded(t))

BoostGetClientState(t) ==
    Call(t, "boost", "GetClientState", "GET", "client_states", NoBody,
         Success(t) /\ aux.code = 200)

BoostSetClientState(t) ==
    Call(t, "boost", "SetClientState", "PUT", "client_states", File, FALSE)

BoostGetClientConfigInfo(t) ==
    Call(t, "boost", "GetClientConfigInfo", "POST", "client_config/info",
         ClientInfo, ConfigDecodes(t))

BoostGetClientFirmwareInfo(t) ==
    Call(t, "boost", "GetClientFirmwareInfo", "POST", "client_firmware",
         ClientInfo, FirmwareDecodes(t))

BoostCall(t) ==
    \/ BoostObtainSessionId(t)        \/ BoostDeleteSession(t)
    \/ BoostGetServerInfo(t)          \/ BoostGetInterfaceStatistics(t)
    \/ BoostSendEvent(t)              \/ BoostSendAlertConfirmEvent(t)
    \/ BoostSendAudioRecRejectEvent(t) \/ BoostSendButtonEvent(t)
    \/ BoostDownloadFile(t)           \/ BoostSetVarValue(t)
    \/ BoostSetMailboxValue(t)        \/ BoostGetCurrentServerTime(t)
    \/ BoostGetVarList(t)             \/ BoostGetMailboxList(t)
    \/ BoostGetVarMeta(t)             \/ BoostGetMailboxMeta(t)
    \/ BoostSendForm(t)               \/ BoostGetForm(t)
    \/ BoostSendAudioRecHeader(t)     \/ BoostSendAudioRecData(t)
    \/ BoostSendAudioRecFooter(t)     \/ BoostGetClientState(t)
    \/ BoostSetClientState(t)         \/ BoostGetClientConfigInfo(t)
    \/ BoostGetClientFirmwareInfo(t)

-----------------------------------------------------------------------------
(* Abk.js, whose requests are synchronous: what it sends with PUT and      *)
(* DELETE has no result.  A function that uses an answer it did not get    *)
(* throws, which is FALSE here.                                            *)

JsGetSession(t) ==
    Call(t, "js", "ObtainSessionId", "POST", "session_id", ClientInfo,
         Decodes(t, {"SessionId"}))

JsSendEvent(t) ==
    Call(t, "js", "SendEvent", "PUT", "client_event",
         Event("StartDataTransfer"), TRUE)

JsDeleteSession(t) ==
    Call(t, "js", "DeleteSession", "DELETE", "session_id", NoBody, TRUE)

JsGetClientAddress(t) ==
    Call(t, "js", "GetClientAddress", "GET", "client_address", NoBody,
         Decodes(t, {"ClientAddress"}))

JsGetVarValue(t) ==
    Call(t, "js", "GetVarValue", "POST", "var_value",
         Names({"speed", "unknown"}), Decodes(t, {"Data"}))

JsSetVarValue(t) ==
    Call(t, "js", "SetVarValue", "PUT", "var_value",
         Speeds, TRUE)

JsGetMailboxValue(t) ==
    Call(t, "js", "GetMailboxValue", "POST", "mailbox_value", Names({"route"}),
         Decodes(t, {"Data"}))

JsSetMailboxValue(t) ==
    Call(t, "js", "SetMailboxValue", "PUT", "mailbox_value", Entries, TRUE)

JsGetVarMeta(t) ==
    Call(t, "js", "GetVarMeta", "POST", "var_meta", Names({"speed"}),
         Success(t))

JsGetServerTime(t) ==
    Call(t, "js", "GetCurrentServerTime", "GET", "current_time", NoBody,
         Success(t))

JsPutClientState(t) ==
    Call(t, "js", "SetClientState", "PUT", "client_states", File, TRUE)

JsGetClientState(t) ==
    Call(t, "js", "GetClientState", "GET", "client_states", NoBody, Success(t))

JsGetFormAsHtml(t) ==
    Call(t, "js", "GetForm", "GET", "forms", NoBody, Decodes(t, {"Caption"}))

JsSendForm(t) ==
    Call(t, "js", "SendForm", "PUT", "forms", Form, TRUE)

JsCall(t) ==
    \/ JsGetSession(t)                \/ JsSendEvent(t)
    \/ JsDeleteSession(t)             \/ JsGetClientAddress(t)
    \/ JsGetVarValue(t)               \/ JsSetVarValue(t)
    \/ JsGetMailboxValue(t)           \/ JsSetMailboxValue(t)
    \/ JsGetVarMeta(t)                \/ JsGetServerTime(t)
    \/ JsPutClientState(t)            \/ JsGetClientState(t)
    \/ JsGetFormAsHtml(t)             \/ JsSendForm(t)

-----------------------------------------------------------------------------
(* Everything. *)

\* FakePace runs on.
Tick ==
    /\ store' = Pace(store) /\ store' # store
    /\ UNCHANGED <<platform, th, nav, aux, sid, wire, calls, accepted, told,
                   late>>

Next ==
    \/ \E t \in Threads : AtlCall(t) \/ BoostCall(t) \/ JsCall(t)
    \/ \E t \in Threads : GiveUp(t) \/ NavigateX(t) \/ SoupSend(t)
    \/ \E m \in wire : \E how \in {"whole", "cut"} : Serve(m, how)
    \/ Tick

Spec == Init /\ [][Next]_vars

-----------------------------------------------------------------------------
(* Properties. *)

\* Every variable has a value of its type; nobody holds the answer to a call
\* other than its own.
TypeOK ==
    /\ platform \in {"atl", "boost", "js"}
    /\ \A t \in Threads :
         /\ th[t].pc \in {"idle", "wait", "answered", "decode"}
         /\ th[t].try \in 0..2 /\ th[t].q.call \in 0..calls
         /\ th[t].r.call \in {0, th[t].q.call}
    /\ nav \in Threads \cup {None}
    /\ sid \in {0} \cup 1..(store.nextId - 1)
    /\ store.sessions \subseteq 1..(store.nextId - 1)
    /\ \A m \in wire : m.q.call \in 1..calls /\ m.try \in 1..2
    /\ accepted \subseteq 1..calls /\ late \in BOOLEAN

\* What a function reports as done has been accepted by the server, be it the
\* first or the second try; only Abk.js does not look (AbkClientSoup.cpp,
\* NavigatePut; atl/AbkClient.cpp, NavigateX).
TrueMeansAccepted ==
    \A t \in Threads :
      th[t].ok /\ platform # "js" => th[t].q.call \in accepted

\* A function decodes the answer to its own request, as long as no other
\* thread uses the same client object on Windows in the meantime
\* (atl/AbkClient.cpp, NavigateGet returns a pointer to the body).
DecodesOwnAnswer ==
    \A t \in Threads :
      th[t].ok /\ (platform = "atl" => th[t].alone) => th[t].own

\* Every request the clients can send has a handler: the search finds each row
\* of the sorted table (LoggerIf.cpp, HandleHttpRequest).
EveryCallIsHandled == \A t \in Threads : th[t].r.code # 501

\* The functions report the truth: success means that the request was accepted
\* (Abk.js excepted), every request has its handler, and what is decoded is the
\* answer to the call itself, on Windows for calls alone on their client object.
ResultsAreTrue ==
    TypeOK /\ TrueMeansAccepted /\ DecodesOwnAnswer /\ EveryCallIsHandled

\* A recording consists of the chunks its client sent, each once and in the
\* order of the calls, unless the client has given one up: a second try does
\* not repeat what was accepted (NavigateX, MyFakeLogger.cpp OnAudioRecData).
RecordsInOrder ==
    ~late => \A rec \in {store.rec} \cup store.done :
      \A i, j \in DOMAIN rec : i < j => rec[i] < rec[j]

\* A mailbox holds the number or text its only writer was last told it had
\* set, unless the client has given a request up (LoggerIf.cpp, PutVarValue).
SetValueSticks ==
    ~late /\ platform # "js" =>
      \A i \in DOMAIN told :
        told[i].n \in {"route", "text"} =>
          store.val[told[i].n] = [t |-> told[i].t, x |-> told[i].x]
=============================================================================
