--------------------------- MODULE LoggerHandlers ---------------------------
(***************************************************************************)
(* The request handlers of the server that keep no session thread waiting: *)
(* CLoggerInterface::Handle_..., the callbacks of the example server       *)
(* (CMyLoggerInterface, CMyFakeLogger), and the file requests of           *)
(* CHttpServer.  A handler is an operator on the store s and the request q *)
(* and yields the new store, the status code and the answer.  A body and   *)
(* an answer are sequences of members [n |-> name, t |-> type, x |-> value]*)
(* in the order of the JSON text; its syntax is the subject of module      *)
(* JsonText.                                                             *)
(***************************************************************************)
EXTENDS Integers, Sequences, FiniteSets, SequencesExt, UrlDispatch

CONSTANTS
    Wrap,           \* bound: variable 0 counts modulo Wrap (100 in the code)
    TransferEnd     \* bound: progress at the end of a transfer (101)

ASSUME HandlersAssumption == Wrap \in Nat \ {0} /\ TransferEnd \in Nat \ {0}

Member(n, t, x) == [n |-> n, t |-> t, x |-> x]
Has(body, n) == \E i \in DOMAIN body : body[i].n = n /\ body[i].t # "none"
Field(body, n) == body[CHOOSE i \in DOMAIN body : body[i].n = n]

\* The value of a number that is not one: JSON null.
NaN == -9

-----------------------------------------------------------------------------
(* The store: what outlives a request. *)

Variables == {"speed"}
Mailboxes == {"route", "text", "busy", "progress"}

\* The values CMyFakeLogger starts with: a number, a text, a switch, and the
\* progress of a transfer, -1 when there is none.
InitStore ==
    [val |-> [speed |-> [t |-> "num", x |-> 0],
              route |-> [t |-> "num", x |-> 0],
              text |-> [t |-> "str", x |-> 0],
              busy |-> [t |-> "bool", x |-> 0],
              progress |-> [t |-> "num", x |-> -1]],
     sessions |-> {}, nextId |-> 1,
     rec |-> <<>>, file |-> {}, done |-> {}]

Rsp(s, code, data) == [store |-> s, code |-> code, data |-> data]
Refuse(s, code) == Rsp(s, code, <<>>)

FindVariable(names, n) == n \in names

\* OnSetValue.  A number turns a mailbox into a number for good; a text is
\* kept only by a text mailbox.
OnSetNumber(s, n, x) == [s EXCEPT !.val[n] = [t |-> "num", x |-> x]]

OnSetString(s, n, x) ==
    IF s.val[n].t = "str" THEN [s EXCEPT !.val[n].x = x] ELSE s

\* OnFormatValue: null for NaN.
OnFormatValue(s, n) ==
    IF s.val[n].x = NaN THEN Member("Data", "null", 0)
    ELSE Member("Data", s.val[n].t, s.val[n].x)

OnFormatMAM(s, n) == <<OnFormatValue(s, n), OnFormatValue(s, n),
                       OnFormatValue(s, n)>>

-----------------------------------------------------------------------------
(* Values. *)

\* Every name of the list must be known; values come in its order.
PostVarValue(s, q, names) ==
    IF q.body = <<>> \/ \E i \in DOMAIN q.body : q.body[i].n \notin names
    THEN Refuse(s, 400)
    ELSE Rsp(s, 200, [i \in DOMAIN q.body |-> OnFormatValue(s, q.body[i].n)])

PostMamValues(s, q) ==
    IF q.body = <<>> \/ \E i \in DOMAIN q.body : q.body[i].n \notin Variables
    THEN Refuse(s, 400)
    ELSE Rsp(s, 200, FlattenSeq([i \in DOMAIN q.body |->
                                   OnFormatMAM(s, q.body[i].n)]))

\* A number or null is set as a number, a text as a text.  true and false are
\* neither to ExtractValue: such an entry is left out as an incomplete one is.
Complete(e) == e.n # "" /\ e.t \in {"num", "null", "str"}
SetEntry(s, e) ==
    IF ~Complete(e) THEN s
    ELSE CASE e.t = "num"  -> OnSetNumber(s, e.n, e.x)
           [] e.t = "null" -> OnSetNumber(s, e.n, NaN)
           [] OTHER        -> OnSetString(s, e.n, e.x)

\* Mutant of PutVarValue: a list is taken to be one entry shorter.
PutVarValueShort(s, q, names) ==
    LET after == FoldLeft(SetEntry, s, SubSeq(q.body, 1, Len(q.body) - 1))
    IN  IF q.body = <<>> \/ \E i \in DOMAIN q.body : q.body[i].n \notin names
        THEN Refuse(after, 400) ELSE Rsp(after, 200, <<>>)

\* Entries are set one by one until the first unknown name.
PutVarValue(s, q, names) ==
    LET Unknown(i) == Complete(q.body[i]) /\ ~FindVariable(names, q.body[i].n)
        good == {i \in DOMAIN q.body : \A j \in 1..i : ~Unknown(j)}
        after == FoldLeft(SetEntry, s, SubSeq(q.body, 1, Cardinality(good)))
    IN  IF q.body = <<>> \/ Cardinality(good) < Len(q.body)
        THEN Refuse(after, 400) ELSE Rsp(after, 200, <<>>)

\* The list of names, and the meta data of the names asked for; no list at
\* all gets no meta data, and no error.
GetVarList(s, names) ==
    Rsp(s, 200, <<Member("VarList", "arr", Cardinality(names))>>)

PostVarMeta(s, q, names) ==
    IF \E i \in DOMAIN q.body : ~FindVariable(names, q.body[i].n)
    THEN Refuse(s, 400)
    ELSE Rsp(s, 200, [i \in DOMAIN q.body |-> Member("MetaData", "obj", 0)])

-----------------------------------------------------------------------------
(* Sessions and events. *)

\* Every POST makes a session, one that repeats an earlier one as well.
PostSession(s, q) ==
    IF ~Has(q.body, "Class") \/ ~Has(q.body, "Type") THEN Refuse(s, 400)
    ELSE Rsp([s EXCEPT !.sessions = @ \cup {s.nextId}, !.nextId = @ + 1], 200,
             <<Member("SessionId", "num", s.nextId)>>)

DeleteSession(s, q) ==
    IF q.as \notin s.sessions THEN Refuse(s, 400)
    ELSE Rsp([s EXCEPT !.sessions = @ \ {q.as}], 200, <<>>)

\* OnClientEvent of the example: a transfer starts again; it handles no event
\* itself, so that each is fired to the clients (module EventDelivery).
OnClientEvent(s, type) ==
    IF type = "StartDataTransfer" THEN [s EXCEPT !.val["progress"].x = 0]
                                  ELSE s

PutClientEvent(s, q) ==
    IF ~Has(q.body, "Sender") \/ ~Has(q.body, "Type") THEN Refuse(s, 400)
    ELSE Rsp(OnClientEvent(s, Field(q.body, "Type").t), 200, <<>>)

-----------------------------------------------------------------------------
(* Information about the server. *)

Info(s, names) ==
    Rsp(s, 200, [i \in DOMAIN names |-> Member(names[i], "str", 1)])

GetServerInfo(s)      == Info(s, <<"Protocol", "IfVersion", "FwVersion", "Name",
                                   "Type", "DescUrl">>)
GetStorageInfo(s)     == Info(s, <<"Total", "Free">>)
GetCurrentTime(s)     == Info(s, <<"CurrentTime">>)
GetClientAddress(s)   == Info(s, <<"ClientAddress">>)
InterfaceStatistic(s) == Info(s, <<"Statistics">>)

\* The images of the client's class and type that the example has: none or
\* one.  The URL, and the MD5 of a file that can be read, go with each.
OnGetClientFirmwareInfo(type) ==
    IF type = 1 THEN <<Member("Url", "str", 1), Member("Version", "str", 1),
                       Member("MD5", "str", 1)>> ELSE <<>>

PostFirmwareInfo(s, q) ==
    IF ~Has(q.body, "Class") \/ ~Has(q.body, "Type") THEN Refuse(s, 400)
    ELSE Rsp(s, 200, <<Member("Images", "arr", 0)>>
                     \o OnGetClientFirmwareInfo(Field(q.body, "Type").x))

\* The URL is empty when there is no file; then there is no MD5 either.
OnGetClientConfigInfo(type) ==
    IF type = 1 THEN <<Member("Url", "str", 1), Member("MD5", "str", 1)>>
                ELSE <<Member("Url", "str", 0)>>

PostClientConfigInfo(s, q) ==
    IF \E f \in {"Class", "Type", "Serial"} : ~Has(q.body, f)
    THEN Refuse(s, 400)
    ELSE Rsp(s, 200, OnGetClientConfigInfo(Field(q.body, "Type").x))

-----------------------------------------------------------------------------
(* Forms: the demo form is the same for every name; what comes back is     *)
(* printed.                                                                *)

OnFormGet ==
    <<Member("Caption", "str", 1), Member("Persistence", "num", 5),
      Member("Input", "str", 1), Member("Input", "str", 2),
      Member("Checkbox", "bool", 1), Member("List", "num", 0),
      Member("Button", "none", 0)>>

GetForm(s) == Rsp(s, 200, OnFormGet)
OnFormPut == TRUE
PutForm(s) == IF OnFormPut THEN Rsp(s, 200, <<>>) ELSE Refuse(s, 400)

-----------------------------------------------------------------------------
(* Audio recordings.  s.rec is the recording in progress with the client's *)
(* id, <<>> when there is none; its first element is the header.  A chunk  *)
(* and a header are told by the call that sends them.                      *)

\* A recording with the id that runs is closed first, even when the new file
\* cannot be created; the file of that id is written anew.
OnAudioRecHeader(s, call, fits) ==
    [s EXCEPT !.rec = IF fits THEN <<call>> ELSE <<>>]

PutAudioRecHeader(s, q) ==
    IF \E f \in {"ID", "SampleRate", "Channels", "Bits"} : ~Has(q.body, f)
    THEN Refuse(s, 400)
    ELSE LET fits == Field(q.body, "Bits").x \in {8, 16}
         IN  Rsp(OnAudioRecHeader(s, q.call, fits),
                 IF fits THEN 200 ELSE 507, <<>>)

OnAudioRecData(s, call) == [s EXCEPT !.rec = Append(@, call)]

\* Data without samples are accepted unseen.
PutAudioRecData(s, q) ==
    IF ~Has(q.body, "ID") THEN Refuse(s, 400)
    ELSE IF ~Has(q.body, "Data") THEN Rsp(s, 200, <<>>)
    ELSE IF s.rec = <<>> THEN Refuse(s, 507)
    ELSE Rsp(OnAudioRecData(s, q.call), 200, <<>>)

OnAudioRecFooter(s) == [s EXCEPT !.done = @ \cup {s.rec}, !.rec = <<>>]

PutAudioRecFooter(s, q) ==
    IF ~Has(q.body, "ID") THEN Refuse(s, 400)
    ELSE IF s.rec = <<>> THEN Refuse(s, 507)
    ELSE Rsp(OnAudioRecFooter(s), 200, <<>>)

-----------------------------------------------------------------------------
(* Files: the state of a client, which it may read and write. *)

HandleFileRequest(s, q) ==
    CASE q.m = "GET"  -> IF s.file = {} THEN Refuse(s, 404)
                         ELSE Rsp(s, 200, <<Member("", "file", 1)>>)
      [] q.m = "PUT"  -> Rsp([s EXCEPT !.file = {q.call}], 201, <<>>)
      [] q.m = "POST" -> Refuse(s, 501)
      [] OTHER        -> Refuse(s, 403)

-----------------------------------------------------------------------------
(* Dispatch. *)

\* The URLs of the table in the order of strcmp, and the methods.
Urls == <<"audio_rec/data", "audio_rec/footer", "audio_rec/header",
          "client_config/info", "client_event", "server_event",
          "client_address", "client_firmware", "current_time",
          "interface_statistic", "server_info", "session_id", "storage_info",
          "daq_list", "daq_trend", "mailbox_daq_list", "mailbox_list",
          "mailbox_meta", "mailbox_value", "mam_daq_list", "mam_values",
          "var_list", "var_meta", "var_value">>
Methods == <<"GET", "POST", "PUT", "DELETE">>

Key(url, m) ==
    4 * (CHOOSE i \in DOMAIN Urls : Urls[i] = url)
      + (CHOOSE i \in DOMAIN Methods : Methods[i] = m)

\* The table as it is written down, by subject.
ResponseTable == <<
    Key("client_address", "GET"),     Key("client_event", "PUT"),
    Key("daq_list", "PUT"),           Key("mailbox_daq_list", "PUT"),
    Key("mam_daq_list", "PUT"),       Key("daq_list", "DELETE"),
    Key("mailbox_daq_list", "DELETE"), Key("mam_daq_list", "DELETE"),
    Key("daq_trend", "PUT"),          Key("daq_trend", "DELETE"),
    Key("server_event", "GET"),       Key("session_id", "POST"),
    Key("session_id", "DELETE"),      Key("var_list", "GET"),
    Key("mailbox_list", "GET"),       Key("var_meta", "POST"),
    Key("mailbox_meta", "POST"),      Key("interface_statistic", "GET"),
    Key("server_info", "GET"),        Key("current_time", "GET"),
    Key("storage_info", "GET"),       Key("var_value", "POST"),
    Key("var_value", "PUT"),          Key("mam_values", "POST"),
    Key("mailbox_value", "POST"),     Key("mailbox_value", "PUT"),
    Key("client_firmware", "POST"),   Key("client_config/info", "POST"),
    Key("audio_rec/header", "PUT"),   Key("audio_rec/data", "PUT"),
    Key("audio_rec/footer", "PUT")>>

SortedTable == SortTable(ResponseTable)

\* The row of each request, 0 when it is not implemented.
Row == [key \in 1..(4 * Len(Urls) + 4) |-> Lookup(SortedTable, key)]

\* The handlers of the rows; those of DAQs and of polls are in other modules.
Handler(s, q) ==
    CASE q.url = "client_address"       -> GetClientAddress(s)
      [] q.url = "client_event"         -> PutClientEvent(s, q)
      [] q.url = "session_id"           -> IF q.m = "POST" THEN PostSession(s, q)
                                           ELSE DeleteSession(s, q)
      [] q.url = "var_list"             -> GetVarList(s, Variables)
      [] q.url = "mailbox_list"         -> GetVarList(s, Mailboxes)
      [] q.url = "var_meta"             -> PostVarMeta(s, q, Variables)
      [] q.url = "mailbox_meta"         -> PostVarMeta(s, q, Mailboxes)
      [] q.url = "interface_statistic"  -> InterfaceStatistic(s)
      [] q.url = "server_info"          -> GetServerInfo(s)
      [] q.url = "current_time"         -> GetCurrentTime(s)
      [] q.url = "storage_info"         -> GetStorageInfo(s)
      [] q.url = "var_value"            -> IF q.m = "POST"
                                           THEN PostVarValue(s, q, Variables)
                                           ELSE PutVarValue(s, q, Variables)
      [] q.url = "mam_values"           -> PostMamValues(s, q)
      [] q.url = "mailbox_value"        -> IF q.m = "POST"
                                           THEN PostVarValue(s, q, Mailboxes)
                                           ELSE PutVarValue(s, q, Mailboxes)
      [] q.url = "client_firmware"      -> PostFirmwareInfo(s, q)
      [] q.url = "client_config/info"   -> PostClientConfigInfo(s, q)
      [] q.url = "audio_rec/header"     -> PutAudioRecHeader(s, q)
      [] q.url = "audio_rec/data"       -> PutAudioRecData(s, q)
      [] q.url = "audio_rec/footer"     -> PutAudioRecFooter(s, q)

\* The forms service and the files of clients are served before the table.
HandleHttpRequest(s, q) ==
    IF q.url = "client_states" THEN HandleFileRequest(s, q)
    ELSE IF q.url = "forms" /\ q.m = "GET" THEN GetForm(s)
    ELSE IF q.url = "forms" /\ q.m = "PUT" THEN PutForm(s)
    ELSE IF Row[Key(q.url, q.m)] = 0 THEN Refuse(s, 501)
    ELSE Handler(s, q)

\* FakePace: the variable counts, and so does a transfer until its end.
Pace(s) ==
    [s EXCEPT
       !.val["speed"].x = IF @ = NaN THEN NaN ELSE (@ + 1) % Wrap,
       !.val["progress"].x = IF @ < 0 THEN @
                             ELSE IF @ + 1 >= TransferEnd THEN -1 ELSE @ + 1]
=============================================================================
