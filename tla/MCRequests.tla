----------------------------- MODULE MCRequests -----------------------------
(* The instance for TLC of RemoteCalls, the requests of an application and  *)
(* what becomes of them, and of HttpServer, which carries requests of any   *)
(* kind.  The two machines share no state: a behaviour is one of either.    *)
EXTENDS RemoteCalls, HttpServer

CONSTANTS t1, t2, c1, c2

VARIABLE part  \* the machine that runs: "calls" or "server"

InCalls(A)  == part = "calls" /\ A /\ UNCHANGED <<part, httpVars>>
InServer(A) == part = "server" /\ A /\ UNCHANGED <<part, vars>>

\* The machine that does not run stands still in one of its initial states.
MCInit ==
    /\ part \in {"calls", "server"} /\ Init /\ HttpInit
    /\ part = "server" => platform = "js"
MCNext == InCalls(Next) \/ InServer(HttpNext)

\* The fairness is that of HttpFairSpec.
MCSpec ==
    /\ MCInit /\ [][MCNext]_<<part, vars, httpVars>>
    /\ WF_httpVars(InServer(StopWaits)) /\ WF_httpVars(InServer(StopCounted))
    /\ WF_httpVars(InServer(AcceptEnds))
    /\ \A c \in Conns :
          /\ WF_httpVars(InServer(AddConnection(c)))
          /\ WF_httpVars(InServer(ThreadStep(c)))
          /\ WF_httpVars(InServer(Receive(c)))
          /\ WF_httpVars(InServer(SeesEnd(c)))
          /\ WF_httpVars(InServer(SendRest(c)))

\* The first thread uses everything; the second asks for the variables.
AllFunctions ==
    {"ObtainSessionId", "DeleteSession", "GetCurrentServerTime",
     "GetStorageInfo", "GetLastModified", "SendEvent", "SendButtonEvent",
     "SendAlertConfirmEvent", "SendAudioRecRejectEvent", "GetVarValue",
     "GetMailboxValue", "SetVarValue", "SetMailboxValue", "GetVarMeta",
     "GetMailboxMeta", "GetVarList", "GetMailboxList", "GetForm", "SendForm",
     "GetClientState", "SetClientState", "GetClientConfigInfo",
     "GetClientFirmwareInfo", "DownloadFile", "GetServerInfo",
     "SendAudioRecHeader", "SendAudioRecData", "SendAudioRecFooter",
     "GetInterfaceStatistics", "GetClientAddress"}
OneWriter == t1 :> AllFunctions @@ t2 :> {"GetVarList"}

\* Three calls of those whose order matters, two of which one changes the
\* store, or one that only asks for something.
Weights == [op \in AllFunctions |->
              CASE op \in {"SendAudioRecHeader", "SendAudioRecData",
                           "SendAudioRecFooter", "SetMailboxValue",
                           "GetVarList", "DeleteSession"} -> 1
                [] op \in {"ObtainSessionId", "SetClientState", "SetVarValue",
                           "SendEvent", "GetMailboxValue"} -> 2
                [] OTHER -> 3]

\* "/l/" and "/l/v" have options; "/" has none.
TheOptions == {<<0, 1, 0>>, <<0, 1, 0, 2>>}

\* "/l/%76/x", whose longest option is "/l/v/", then "/l/vv"; and "/m".
TheRequests ==
    c1 :> <<[url |-> <<0, 1, 0, 102, 0, 3>>, head |-> 1, parts |-> 2],
            [url |-> <<0, 1, 0, 2, 2>>, head |-> 1, parts |-> 1]>>
    @@ c2 :> <<[url |-> <<0, 4>>, head |-> 1, parts |-> 1]>>

TheSizes(o) == IF o = NoOption THEN 1 ELSE Len(o) - 2
=============================================================================
