----------------------------- MODULE Discovery ------------------------------
(***************************************************************************)
(* Server discovery: CDiscoveryServerPool and its CDiscoveryServers        *)
(* (ServerLib), each with a thread that answers UDP requests through the   *)
(* sockets of CMyDiscoveryServer (ServerExample), and AbkFindServers       *)
(* (ClientLib), which broadcasts requests and collects the answers.        *)
(*                                                                         *)
(* A datagram may be lost, and answers overtake one another.  `Platform'   *)
(* says where the code differs: on "boost" IsRunning asks for joinable()   *)
(* and OnSocketRxRequest gives recvmsg() no buffers, so that it fails on   *)
(* every request; on "win" it returns the request.  (The Windows branch    *)
(* names two variables it does not declare, where it extracts the local    *)
(* address; it is modelled as what it is there for.)                       *)
(***************************************************************************)
EXTENDS Integers, Sequences, FiniteSets

CONSTANTS
    Servers,     \* the discovery servers of the pool
    Preferred,   \* those OnGetConnectionPreference returns true for
    Platform,    \* "win" or "boost"
    Attempts,    \* ABK_DISCOVERY_ATTEMPTS
    Rounds,      \* rounds of DELAY_PER_RX in nTimeoutMs
    None         \* nobody, nothing

ASSUME DiscoveryAssumption ==
    /\ Preferred \subseteq Servers /\ Platform \in {"win", "boost"}
    /\ Attempts \in Nat /\ Rounds \in Nat
    /\ None \notin Servers \cup {"main"}

VARIABLES
    main,       \* the thread that owns the pool
    walk,       \* the walk of RemoveAndDeleteAll: servers still to visit
    here,       \* itServer, None before the first
    object,     \* object[s]: "none", "alive" or "deleted"
    setPool,    \* m_setPool
    mutexPool,  \* who holds m_mutexPool (recursive for the walk), or None
    handle,     \* handle[s]: m_hThread is valid (win), joinable (boost)
    owner,      \* owner[s]: m_pOwningPool is set
    evSleep,    \* evSleep[s]: m_evSleep
    thread,     \* thread[s]: where the thread of s is
    rx,         \* rx[s]: cRxBuf holds a valid request
    inbox,      \* inbox[s]: datagrams in the socket of s
    finder,     \* AbkFindServers
    tries,      \* requests it has broadcast
    rounds,     \* rounds of its receive loop
    answers,    \* answers[s]: answers of s under way
    lstResult,  \* the servers found
    nPreferred  \* -1, -2 or an index of lstResult (from 0)

poolVars == <<main, walk, here, object, setPool, mutexPool>>
svrVars == <<handle, owner, evSleep, thread, rx>>
findVars == <<finder, tries, rounds, lstResult, nPreferred>>
vars == <<poolVars, svrVars, inbox, findVars, answers>>

Alive(s) == object[s] = "alive"
IsRunning(s) == handle[s]

-----------------------------------------------------------------------------
(* The pool. *)

\* AddAndStartServer and Start: the events are reset, the thread begins.
AddAndStartServer(s) ==
    /\ main = "adding" /\ object[s] = "none" /\ mutexPool = None
    /\ object' = [object EXCEPT ![s] = "alive"]
    /\ setPool' = setPool \cup {s}
    /\ evSleep' = [evSleep EXCEPT ![s] = FALSE]
    /\ handle' = [handle EXCEPT ![s] = TRUE]
    /\ thread' = [thread EXCEPT ![s] = "bind"]
    /\ UNCHANGED <<main, walk, here, mutexPool, owner, rx, inbox, findVars,
                   answers>>

\* StopAndDeleteDeferred: the thread shall unregister and delete itself.
\* OnSocketShutdown wakes it; so does its receive timeout.
StopAndDeleteDeferred(s) ==
    /\ owner' = [owner EXCEPT ![s] = TRUE]
    /\ evSleep' = [evSleep EXCEPT ![s] = TRUE]
    /\ UNCHANGED <<object, setPool>>

\* UnregisterAndDelete, with the pool locked.
UnregisterAndDelete(s) ==
    /\ setPool' = setPool \ {s}
    /\ object' = IF s \in setPool THEN [object EXCEPT ![s] = "deleted"]
                 ELSE object

\* Mutant of RemoveAndDeleteServer: deletes a server that is still running.
RemoveAndDeleteServerAtOnce(s) ==
    IF s \notin setPool THEN UNCHANGED <<owner, evSleep, object, setPool>>
    ELSE /\ UnregisterAndDelete(s)
         /\ UNCHANGED owner /\ evSleep' = [evSleep EXCEPT ![s] = TRUE]

\* Mutant of RemoveAndDeleteServer: the thread is told to stop before it is
\* told to delete itself, and misses the latter.
RemoveAndDeleteServerStops(s) ==
    /\ evSleep' = [evSleep EXCEPT ![s] = TRUE]
    /\ UNCHANGED <<owner, object, setPool>>

\* RemoveAndDeleteServer, with the pool locked.
RemoveAndDeleteServer(s) ==
    IF s \notin setPool THEN UNCHANGED <<owner, evSleep, object, setPool>>
    ELSE IF IsRunning(s) THEN StopAndDeleteDeferred(s)
    ELSE UnregisterAndDelete(s) /\ UNCHANGED <<owner, evSleep>>

\* RemoveAndDeleteAll locks the pool and walks it ...
RemoveAndDeleteAll ==
    /\ main = "adding" /\ mutexPool = None
    /\ main' = "walking" /\ mutexPool' = "main"
    /\ walk' = setPool
    /\ UNCHANGED <<here, object, setPool, svrVars, inbox, findVars, answers>>
Walk(s) ==
    /\ main = "walking" /\ s \in walk
    /\ walk' = walk \ {s} /\ here' = s
    /\ RemoveAndDeleteServer(s)
    /\ UNCHANGED <<main, mutexPool, handle, thread, rx, inbox, findVars,
                   answers>>
WalkEnds ==
    /\ main = "walking" /\ walk = {}
    /\ main' = "waiting" /\ here' = None /\ mutexPool' = None
    /\ UNCHANGED <<walk, object, setPool, svrVars, inbox, findVars, answers>>

\* ... and then waits until GetCount is zero.
GetCount ==
    /\ main = "waiting" /\ mutexPool = None /\ setPool = {}
    /\ main' = "done"
    /\ UNCHANGED <<walk, here, object, setPool, mutexPool, svrVars, inbox,
                   findVars, answers>>

-----------------------------------------------------------------------------
(* The thread of a discovery server. *)

To(s, from, to) == thread[s] = from /\ thread' = [thread EXCEPT ![s] = to]

\* OnGetStaticServerInfo and OnSocketBind.
Bind(s) ==
    /\ To(s, "bind", "receiving")
    /\ UNCHANGED <<poolVars, handle, owner, evSleep, rx, inbox, findVars,
                   answers>>

\* OnSocketRxRequest: a datagram, or none within the time-out.
RxRequest(s) ==
    /\ inbox[s] # <<>>
    /\ inbox' = [inbox EXCEPT ![s] = Tail(@)]
    /\ IF Platform = "boost"
       THEN To(s, "receiving", "tidying") /\ UNCHANGED rx
       ELSE /\ To(s, "receiving", "decoding")
            /\ rx' = [rx EXCEPT ![s] = (Head(inbox[s]) = "request")]
    /\ UNCHANGED <<poolVars, handle, owner, evSleep, findVars, answers>>
RxTimeout(s) ==
    /\ inbox[s] = <<>>
    /\ To(s, "receiving", "sleeping") /\ rx' = [rx EXCEPT ![s] = FALSE]
    /\ UNCHANGED <<poolVars, handle, owner, evSleep, inbox, findVars, answers>>

\* Decode wants the key, class, type and serial of a request.
DecodeRequest(s) ==
    /\ To(s, "decoding", IF rx[s] THEN "answering" ELSE "sleeping")
    /\ UNCHANGED <<poolVars, handle, owner, evSleep, rx, inbox, findVars,
                   answers>>

\* FormatAnswer and OnSocketTxResponse: sent, or lost on its way.
Answer(s) ==
    /\ To(s, "answering", "sleeping")
    /\ answers' = [answers EXCEPT ![s] = @ + 1] \/ UNCHANGED answers
    /\ UNCHANGED <<poolVars, handle, owner, evSleep, rx, inbox, findVars>>

\* m_evSleep.Wait(1)
Sleep(s) ==
    /\ To(s, "sleeping", IF evSleep[s] THEN "tidying" ELSE "receiving")
    /\ UNCHANGED <<poolVars, handle, owner, evSleep, rx, inbox, findVars,
                   answers>>

\* OnSocketTidyUp; m_evDone.Set; on Windows the handle is invalidated.
Done(s) ==
    /\ To(s, "tidying", "unregistering")
    /\ handle' = [handle EXCEPT ![s] = @ /\ Platform = "boost"]
    /\ UNCHANGED <<poolVars, owner, evSleep, rx, inbox, findVars, answers>>

\* The end of ThreadWrapperS.
Unregister(s) ==
    /\ To(s, "unregistering", "ended")
    /\ IF owner[s] THEN mutexPool = None /\ UnregisterAndDelete(s)
       ELSE UNCHANGED <<setPool, object>>
    /\ UNCHANGED <<main, walk, here, mutexPool, handle, owner, evSleep, rx,
                   inbox, findVars, answers>>

-----------------------------------------------------------------------------
(* AbkFindServers. *)

\* Broadcast a request; every server gets it or not.
SendRequest ==
    /\ finder = "sending" /\ tries < Attempts
    /\ tries' = tries + 1
    /\ \E reached \in SUBSET {s \in Servers : thread[s] = "receiving"} :
          inbox' = [s \in Servers |-> IF s \in reached
                                      THEN Append(inbox[s], "request")
                                      ELSE inbox[s]]
    /\ UNCHANGED <<poolVars, svrVars, finder, rounds, lstResult, nPreferred,
                   answers>>

Collect ==
    /\ finder = "sending" /\ tries = Attempts
    /\ finder' = "collecting"
    /\ UNCHANGED <<poolVars, svrVars, inbox, tries, rounds, lstResult,
                   nPreferred, answers>>

\* Some other datagram reaches the port (external).
Stray(s) ==
    /\ thread[s] = "receiving" /\ inbox[s] = <<>> /\ tries = 1
    /\ inbox' = [inbox EXCEPT ![s] = <<"other">>]
    /\ UNCHANGED <<poolVars, svrVars, findVars, answers>>

\* The decoded answer of s.  m_bPreferred is extracted with the key of the
\* name, whose value is a string, and stays false.
DecodeAnswer(s) == [server |-> s, preferred |-> FALSE]

\* Mutant of Found: duplicates are not looked for.
FoundAgain(d) ==
    /\ lstResult' = Append(lstResult, d)
    /\ nPreferred' = IF ~d.preferred THEN nPreferred
                     ELSE IF nPreferred = -1 THEN Len(lstResult) ELSE -2

\* A new server is added to the list; the first preferred one is remembered,
\* a second makes the preference ambiguous.
Found(d) ==
    IF \E i \in DOMAIN lstResult : lstResult[i] = d
    THEN UNCHANGED <<lstResult, nPreferred>>
    ELSE /\ lstResult' = Append(lstResult, d)
         /\ nPreferred' = IF ~d.preferred THEN nPreferred
                          ELSE IF nPreferred = -1 THEN Len(lstResult) ELSE -2

\* A round of the loop: an answer, or none within DELAY_PER_RX.
Receive ==
    /\ finder = "collecting" /\ rounds < Rounds
    /\ rounds' = rounds + 1
    /\ \/ \E s \in Servers : /\ answers[s] > 0
                             /\ answers' = [answers EXCEPT ![s] = @ - 1]
                             /\ Found(DecodeAnswer(s))
       \/ UNCHANGED <<answers, lstResult, nPreferred>>
    /\ UNCHANGED <<poolVars, svrVars, inbox, finder, tries>>

FindEnds ==
    /\ finder = "collecting" /\ rounds = Rounds
    /\ finder' = "done"
    /\ UNCHANGED <<poolVars, svrVars, inbox, tries, rounds, lstResult,
                   nPreferred, answers>>

\* What AbkFindServers returns.
Suggestion(list, preferred) ==
    IF Len(list) = 1 THEN 0 ELSE IF preferred >= 0 THEN preferred ELSE -1

-----------------------------------------------------------------------------

Init ==
    /\ main = "adding" /\ walk = {} /\ here = None
    /\ object = [s \in Servers |-> "none"]
    /\ setPool = {} /\ mutexPool = None
    /\ handle = [s \in Servers |-> FALSE]
    /\ owner = [s \in Servers |-> FALSE]
    /\ evSleep = [s \in Servers |-> FALSE]
    /\ thread = [s \in Servers |-> "none"]
    /\ rx = [s \in Servers |-> FALSE]
    /\ inbox = [s \in Servers |-> <<>>]
    /\ finder = "sending" /\ tries = 0 /\ rounds = 0
    /\ answers = [s \in Servers |-> 0]
    /\ lstResult = <<>> /\ nPreferred = -1

ThreadStep(s) ==
    \/ Bind(s) \/ RxRequest(s) \/ RxTimeout(s) \/ DecodeRequest(s) \/ Answer(s)
    \/ Sleep(s) \/ Done(s) \/ Unregister(s)

Next ==
    \/ RemoveAndDeleteAll \/ WalkEnds \/ GetCount
    \/ SendRequest \/ Collect \/ Receive \/ FindEnds
    \/ \E s \in Servers :
          \/ AddAndStartServer(s) \/ Walk(s) \/ Stray(s)
          \/ ThreadStep(s)

Spec == Init /\ [][Next]_vars

\* The owner of the pool goes on once it has begun to remove; threads run.
\* Nobody has to look for servers.
FairSpec ==
    /\ Spec /\ WF_vars(WalkEnds) /\ WF_vars(GetCount)
    /\ \A s \in Servers : WF_vars(Walk(s)) /\ WF_vars(ThreadStep(s))

-----------------------------------------------------------------------------
(* Properties. *)

\* Every variable has a value of its type; the pool holds what is alive.
TypeOK ==
    /\ main \in {"adding", "walking", "waiting", "done"}
    /\ walk \subseteq Servers /\ here \in Servers \cup {None}
    /\ object \in [Servers -> {"none", "alive", "deleted"}]
    /\ setPool = {s \in Servers : Alive(s)}
    /\ mutexPool \in {None, "main"}
    /\ handle \in [Servers -> BOOLEAN] /\ owner \in [Servers -> BOOLEAN]
    /\ evSleep \in [Servers -> BOOLEAN]
    /\ \A s \in Servers :
          /\ thread[s] \in {"none", "bind", "receiving", "decoding",
                            "answering", "sleeping", "tidying",
                            "unregistering", "ended"}
          /\ \A i \in DOMAIN inbox[s] : inbox[s][i] \in {"request", "other"}
    /\ answers \in [Servers -> 0 .. Attempts]
    /\ nPreferred \in -2 .. Len(lstResult) - 1

\* A discovery server's thread never runs on a deleted server: it deletes
\* itself at its end (ThreadWrapperS), whoever removes it.
ThreadHasItsServer ==
    \A s \in Servers : thread[s] \notin {"none", "ended"} => Alive(s)

\* RemoveAndDeleteAll advances an iterator after RemoveAndDeleteServer: the
\* element it stands on is still in the pool.
IteratorStaysValid == here # None => here \in setPool

\* When the pool's destructor is through, no server is left and no thread of
\* one runs: "blocks until all done".
AllDeletedAtTheEnd ==
    main = "done" => \A s \in Servers :
                        ~Alive(s) /\ thread[s] \in {"none", "ended"}

\* Removing the servers while their threads run is safe.
PoolSafe == ThreadHasItsServer /\ IteratorStaysValid /\ AllDeletedAtTheEnd

\* However often a request is sent and answered, a server is listed once.
ListsServerOnce ==
    \A i, j \in DOMAIN lstResult :
        lstResult[i].server = lstResult[j].server => i = j

\* A suggestion is never ambiguous: it names a server of the list that is the
\* only one, or the only preferred one.
SuggestionIsUnique ==
    finder = "done" /\ Suggestion(lstResult, nPreferred) >= 0 =>
        LET i == Suggestion(lstResult, nPreferred) + 1
        IN  /\ i \in DOMAIN lstResult
            /\ \A j \in DOMAIN lstResult :
                  j # i => lstResult[i].preferred /\ ~lstResult[j].preferred

\* What AbkFindServers makes of lost, repeated and overtaken answers, with
\* everything within its type.
FinderInv == TypeOK /\ ListsServerOnce /\ SuggestionIsUnique

\* RemoveAndDeleteAll returns, whatever requests the servers receive.
RemoveAllReturns == (main = "walking") ~> (main = "done")
=============================================================================
