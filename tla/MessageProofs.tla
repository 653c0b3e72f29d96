--------------------------- MODULE MessageProofs ---------------------------
(***************************************************************************)
(* Proofs about Discovery and JsonText: who is announced in the network,   *)
(* and what the texts say that go through it.                              *)
(*                                                                         *)
(* Discovery, for any number of servers, on both platforms.                *)
(* The pool: PoolInv is inductive.  A server is told to stop and to delete *)
(* itself in one, by the walk alone, and the walk visits each once; so     *)
(* what the walk has not reached yet still runs, and what ends by itself   *)
(* has been reached.  AbkFindServers and the datagrams have no part in it. *)
(* AbkFindServers: a server answers no more often than it was asked, and   *)
(* is listed once (AnswersWereAskedFor, ListIsPlain).                      *)
(*                                                                         *)
(* JsonText, for any calls of the formatter, any strings, and any meta     *)
(* data, in the terms of TextItems.                                        *)
(* TextIInv is inductive: the text is the items that were written,         *)
(* one behind the other (Written: where each ends, and what is open        *)
(* there), the parser stands behind one of them and says what it is        *)
(* (IsRead); and the loops of a client that decodes an answer are a run    *)
(* over its items (IsRun), which the calls of the server foretell (Leads). *)
(* The order: recursion on numbers; strings and where the parser finds     *)
(* them; the items of a text and what Iterate makes of each; what each     *)
(* method of the formatter does to a text; what the calls for the meta     *)
(* data of a variable lead to, and that it is what Expected says; then the *)
(* invariant, step by step, and the properties.                            *)
(***************************************************************************)
EXTENDS Discovery, TextItems, TLAPS, SequenceTheorems, WellFoundedInduction,
        FiniteSetTheorems

ThreadPcs == {"none", "bind", "receiving", "decoding", "answering", "sleeping",
              "tidying", "unregistering", "ended"}

\* The types of the pool and of the servers' threads.
PoolTypes ==
    /\ main \in {"adding", "walking", "waiting", "done"}
    /\ walk \subseteq Servers
    /\ object \in [Servers -> {"none", "alive", "deleted"}]
    /\ setPool \subseteq Servers
    /\ mutexPool \in {None, "main"}
    /\ handle \in [Servers -> BOOLEAN]
    /\ owner \in [Servers -> BOOLEAN]
    /\ evSleep \in [Servers -> BOOLEAN]
    /\ thread \in [Servers -> ThreadPcs]

\* The pool holds the servers that exist.
PoolIsAlive == \A s \in Servers : s \in setPool <=> Alive(s)

\* A server gets its thread with its object.
ThreadWithObject ==
    \A s \in Servers : thread[s] = "none" <=> object[s] = "none"

\* A thread that is not through with its work is joinable, its handle valid.
WorkingIsRunning ==
    \A s \in Servers :
        thread[s] \notin {"none", "unregistering", "ended"} => handle[s]

\* A server is told to stop and to delete itself at once, and by the walk.
StopMeansDelete ==
    /\ \A s \in Servers : owner[s] <=> evSleep[s]
    /\ \A s \in Servers : owner[s] => thread[s] # "none"

\* On Windows a thread ends because it was told to.
EndsWhenTold ==
    Platform = "win" =>
        \A s \in Servers :
            thread[s] \in {"tidying", "unregistering", "ended"} => evSleep[s]

\* Servers still to be visited are in the pool, run, and know nothing yet.
WalkFindsThemRunning ==
    /\ \A s \in walk : s \in setPool /\ handle[s] /\ ~owner[s]
    /\ walk # {} => main = "walking"

\* On boost a thread that was started stays joinable.
JoinableForEver ==
    Platform = "boost" => \A s \in Servers : thread[s] # "none" => handle[s]

\* Nobody has been told to stop before the walk.
NobodyToldBefore == main = "adding" => \A s \in Servers : ~owner[s]

\* The walk holds the mutex, and what it stands on has been told to delete
\* itself; when the pool is gone, all have.
WalkIsLocked ==
    /\ main = "walking" => mutexPool = "main"
    /\ here # None => main = "walking" /\ here \in setPool
    /\ main = "done" => setPool = {}

PoolInv ==
    /\ PoolTypes /\ PoolIsAlive /\ ThreadWithObject /\ WorkingIsRunning
    /\ ThreadHasItsServer /\ StopMeansDelete /\ EndsWhenTold
    /\ WalkFindsThemRunning /\ JoinableForEver /\ NobodyToldBefore
    /\ WalkIsLocked

-----------------------------------------------------------------------------

\* PoolInv holds at first ...
LEMMA PoolInit == Init => PoolInv
  BY DiscoveryAssumption
  DEF Init, PoolInv, PoolTypes, PoolIsAlive, ThreadWithObject,
      WorkingIsRunning, ThreadHasItsServer, StopMeansDelete, EndsWhenTold,
      WalkFindsThemRunning, JoinableForEver, NobodyToldBefore, WalkIsLocked,
      ThreadPcs, Alive

\* Whatever leaves the pool and its servers alone keeps the invariant.
LEMMA PoolUntouched ==
    ASSUME PoolInv, UNCHANGED <<poolVars, handle, owner, evSleep, thread>>
    PROVE  PoolInv'
  BY DEF poolVars, PoolInv, PoolTypes, PoolIsAlive, ThreadWithObject,
         WorkingIsRunning, ThreadHasItsServer, StopMeansDelete, EndsWhenTold,
         WalkFindsThemRunning, JoinableForEver, NobodyToldBefore,
         WalkIsLocked, Alive

\* A server that is added is told nothing yet.
LEMMA AddStep ==
    ASSUME PoolInv, NEW s \in Servers, AddAndStartServer(s)
    PROVE  PoolInv'
  BY DiscoveryAssumption
  DEF AddAndStartServer, PoolInv, PoolTypes, PoolIsAlive, ThreadWithObject,
      WorkingIsRunning, ThreadHasItsServer, StopMeansDelete, EndsWhenTold,
      WalkFindsThemRunning, JoinableForEver, NobodyToldBefore, WalkIsLocked,
      ThreadPcs, Alive

\* The walk begins when every server of the pool runs and was told nothing.
LEMMA WalkBegins ==
    ASSUME PoolInv, RemoveAndDeleteAll
    PROVE  PoolInv'
  BY DiscoveryAssumption
  DEF RemoveAndDeleteAll, svrVars, PoolInv, PoolTypes, PoolIsAlive,
      ThreadWithObject, WorkingIsRunning, ThreadHasItsServer, StopMeansDelete,
      EndsWhenTold, WalkFindsThemRunning, JoinableForEver, NobodyToldBefore,
      WalkIsLocked, ThreadPcs, Alive

\* The walk finds each server running, and deletes none itself.
LEMMA WalkStep ==
    ASSUME PoolInv, NEW s \in Servers, Walk(s)
    PROVE  PoolInv'
<1>1. s \in setPool /\ IsRunning(s)
  BY DEF Walk, PoolInv, WalkFindsThemRunning, IsRunning
<1>2. StopAndDeleteDeferred(s)
  BY <1>1 DEF Walk, RemoveAndDeleteServer
<1>3. thread[s] # "none"
  BY <1>1 DEF PoolInv, PoolIsAlive, ThreadWithObject, Alive
<1>4. QED
  BY <1>1, <1>2, <1>3, DiscoveryAssumption
  DEF Walk, StopAndDeleteDeferred, PoolInv, PoolTypes, PoolIsAlive,
      ThreadWithObject, WorkingIsRunning, ThreadHasItsServer, StopMeansDelete,
      EndsWhenTold, WalkFindsThemRunning, JoinableForEver, NobodyToldBefore,
      WalkIsLocked, ThreadPcs, Alive

\* The walk ends, and so does the wait for an empty pool.
LEMMA WalkOver ==
    ASSUME PoolInv, WalkEnds \/ GetCount
    PROVE  PoolInv'
  BY DiscoveryAssumption
  DEF WalkEnds, GetCount, svrVars, PoolInv, PoolTypes, PoolIsAlive,
      ThreadWithObject, WorkingIsRunning, ThreadHasItsServer, StopMeansDelete,
      EndsWhenTold, WalkFindsThemRunning, JoinableForEver, NobodyToldBefore,
      WalkIsLocked, ThreadPcs, Alive

\* A thread at work goes on; it only leaves its loop when it was told to, or
\* on boost.
LEMMA ThreadGoesOn ==
    ASSUME PoolInv, NEW s \in Servers,
           Bind(s) \/ RxRequest(s) \/ RxTimeout(s) \/ DecodeRequest(s)
           \/ Answer(s) \/ Sleep(s)
    PROVE  PoolInv'
<1>1. PICK to \in {"receiving", "decoding", "answering", "sleeping",
                   "tidying"} :
        /\ thread' = [thread EXCEPT ![s] = to]
        /\ to = "tidying" => evSleep[s] \/ Platform = "boost"
  BY DEF Bind, RxRequest, RxTimeout, DecodeRequest, Answer, Sleep, To
<1>2. thread[s] \in {"bind", "receiving", "decoding", "answering", "sleeping"}
  BY DEF Bind, RxRequest, RxTimeout, DecodeRequest, Answer, Sleep, To
<1>3. UNCHANGED <<poolVars, handle, owner, evSleep>>
  BY DEF Bind, RxRequest, RxTimeout, DecodeRequest, Answer, Sleep
<1>4. QED
  BY <1>1, <1>2, <1>3, DiscoveryAssumption
  DEF poolVars, PoolInv, PoolTypes, PoolIsAlive, ThreadWithObject,
      WorkingIsRunning, ThreadHasItsServer, StopMeansDelete, EndsWhenTold,
      WalkFindsThemRunning, JoinableForEver, NobodyToldBefore, WalkIsLocked,
      ThreadPcs, Alive

\* The handle is given up by a thread that the walk has reached.
LEMMA DoneStep ==
    ASSUME PoolInv, NEW s \in Servers, Done(s)
    PROVE  PoolInv'
<1>1. s \in walk => Platform = "boost"
  BY DiscoveryAssumption
  DEF Done, To, PoolInv, EndsWhenTold, StopMeansDelete, WalkFindsThemRunning
<1>2. QED
  BY <1>1, DiscoveryAssumption
  DEF Done, To, poolVars, PoolInv, PoolTypes, PoolIsAlive, ThreadWithObject,
      WorkingIsRunning, ThreadHasItsServer, StopMeansDelete, EndsWhenTold,
      WalkFindsThemRunning, JoinableForEver, NobodyToldBefore, WalkIsLocked,
      ThreadPcs, Alive

\* A thread deletes its server when the walk is over, as its last act.
LEMMA UnregisterStep ==
    ASSUME PoolInv, NEW s \in Servers, Unregister(s)
    PROVE  PoolInv'
<1>1. CASE owner[s]
  <2>1. main # "walking" /\ walk = {} /\ here = None
    BY <1>1, DiscoveryAssumption
    DEF Unregister, PoolInv, WalkIsLocked, WalkFindsThemRunning
  <2>2. setPool' = setPool \ {s}
    BY <1>1 DEF Unregister, UnregisterAndDelete
  <2>3. object' = [object EXCEPT ![s] = "deleted"]
    BY <1>1 DEF Unregister, UnregisterAndDelete, To, PoolInv, PoolIsAlive,
                ThreadHasItsServer
  <2>4. QED
    BY <2>1, <2>2, <2>3, DiscoveryAssumption
    DEF Unregister, To, PoolInv, PoolTypes, PoolIsAlive, ThreadWithObject,
        WorkingIsRunning, ThreadHasItsServer, StopMeansDelete, EndsWhenTold,
        WalkFindsThemRunning, JoinableForEver, NobodyToldBefore, WalkIsLocked,
        ThreadPcs, Alive
<1>2. CASE ~owner[s]
  BY <1>2, DiscoveryAssumption
  DEF Unregister, To, PoolInv, PoolTypes, PoolIsAlive, ThreadWithObject,
      WorkingIsRunning, ThreadHasItsServer, StopMeansDelete, EndsWhenTold,
      WalkFindsThemRunning, JoinableForEver, NobodyToldBefore, WalkIsLocked,
      ThreadPcs, Alive
<1>3. QED
  BY <1>1, <1>2

\* ... every step preserves it ...
LEMMA PoolStep == PoolInv /\ [Next]_vars => PoolInv'
<1> SUFFICES ASSUME PoolInv, [Next]_vars PROVE PoolInv'
  OBVIOUS
<1>1. CASE RemoveAndDeleteAll
  BY <1>1, WalkBegins
<1>2. CASE WalkEnds \/ GetCount
  BY <1>2, WalkOver
<1>3. CASE SendRequest \/ Collect \/ Receive \/ FindEnds
  BY <1>3, PoolUntouched
  DEF SendRequest, Collect, Receive, FindEnds, svrVars
<1>4. ASSUME NEW s \in Servers, AddAndStartServer(s)
      PROVE  PoolInv'
  BY <1>4, AddStep
<1>5. ASSUME NEW s \in Servers, Walk(s)
      PROVE  PoolInv'
  BY <1>5, WalkStep
<1>6. ASSUME NEW s \in Servers, Stray(s)
      PROVE  PoolInv'
  BY <1>6, PoolUntouched DEF Stray, svrVars
<1>7. ASSUME NEW s \in Servers, ThreadStep(s)
      PROVE  PoolInv'
  BY <1>7, ThreadGoesOn, DoneStep, UnregisterStep DEF ThreadStep
<1>8. CASE UNCHANGED vars
  BY <1>8, PoolUntouched DEF vars, svrVars
<1>9. QED
  BY <1>1, <1>2, <1>3, <1>4, <1>5, <1>6, <1>7, <1>8 DEF Next

\* ... and so it holds always.
LEMMA PoolAlways == Spec => []PoolInv
  BY PoolInit, PoolStep, PTL DEF Spec

\* For any number of servers, on Windows and with boost: no server is deleted
\* under its own thread (ThreadWrapperS); the iterator of RemoveAndDeleteAll
\* never stands on an element that has left the set, since the walk deletes
\* only what does not run, which it does not meet; and when RemoveAndDeleteAll
\* returns, all servers are deleted and none of their threads is at work:
\* "blocks until all done" (DiscoveryServer.cpp).
THEOREM PoolIsSafe == Spec => []PoolSafe
<1>1. PoolInv => ThreadHasItsServer
  BY DEF PoolInv
<1>2. PoolInv => IteratorStaysValid
  BY DEF PoolInv, WalkIsLocked, IteratorStaysValid
<1>3. PoolInv => AllDeletedAtTheEnd
  BY DEF PoolInv, WalkIsLocked, PoolIsAlive, ThreadHasItsServer, PoolTypes,
         AllDeletedAtTheEnd
<1>4. PoolInv => PoolSafe
  BY <1>1, <1>2, <1>3 DEF PoolSafe
<1>5. QED
  BY <1>4, PoolAlways, PTL

-----------------------------------------------------------------------------
(* The datagrams, and what AbkFindServers makes of them. *)

Datagrams == {"request", "other"}

\* Requests of AbkFindServers in the socket of s: a stray datagram is alone in
\* it when it comes, and at its head from then on.
Requests(s) ==
    IF inbox[s] = <<>> \/ inbox[s][1] = "request" THEN Len(inbox[s])
    ELSE Len(inbox[s]) - 1

\* The one that the thread of s is about to answer.
Pending(s) ==
    IF thread[s] \in {"decoding", "answering"} /\ rx[s] THEN 1 ELSE 0

\* An answer has a request before it: a server never answers more often than
\* it was asked.
Asked(s) ==
    /\ \A i \in 2..Len(inbox[s]) : inbox[s][i] = "request"
    /\ thread[s] = "answering" => rx[s]
    /\ answers[s] + Pending(s) + Requests(s) <= tries

AnswersWereAskedFor ==
    /\ tries \in 0..Attempts
    /\ rx \in [Servers -> BOOLEAN]
    /\ inbox \in [Servers -> Seq(Datagrams)]
    /\ answers \in [Servers -> Nat]
    /\ thread \in [Servers -> ThreadPcs]
    /\ \A s \in Servers : Asked(s)

\* The list has every server once, and none is preferred.
ListIsPlain ==
    /\ lstResult \in Seq([server : Servers, preferred : {FALSE}])
    /\ ListsServerOnce
    /\ nPreferred = -1
    /\ here \in Servers \cup {None}

\* The numbers are natural.
LEMMA AskedNumbers ==
    ASSUME AnswersWereAskedFor, NEW s \in Servers
    PROVE  /\ Pending(s) \in 0..1 /\ Requests(s) \in Nat
           /\ Len(inbox[s]) \in Nat /\ Requests(s) <= Len(inbox[s])
           /\ inbox[s] \in Seq(Datagrams) /\ answers[s] \in Nat
           /\ inbox[s] # <<>> => Len(inbox[s]) > 0
           /\ tries \in Nat /\ Attempts \in Nat
           /\ answers[s] + Pending(s) + Requests(s) <= tries
<1>1. inbox[s] \in Seq(Datagrams) /\ answers[s] \in Nat
  BY DEF AnswersWereAskedFor
<1>2. inbox[s] # <<>> => Len(inbox[s]) > 0
  BY <1>1
<1>3. QED
  BY <1>1, <1>2, DiscoveryAssumption
  DEF AnswersWereAskedFor, Asked, Pending, Requests

\* What concerns no datagram keeps the count.
LEMMA AskedUntouched ==
    ASSUME AnswersWereAskedFor,
           UNCHANGED <<thread, rx, inbox, answers, tries>>
    PROVE  AnswersWereAskedFor'
  BY DEF AnswersWereAskedFor, Asked, Pending, Requests

\* A step of one server that does not answer more, owe more, nor have been
\* asked more.
LEMMA AskedOne ==
    ASSUME AnswersWereAskedFor, NEW s \in Servers,
           NEW to \in ThreadPcs, thread' = [thread EXCEPT ![s] = to],
           NEW r \in BOOLEAN, rx' = [rx EXCEPT ![s] = r],
           NEW in \in Seq(Datagrams), inbox' = [inbox EXCEPT ![s] = in],
           NEW n \in Nat, answers' = [answers EXCEPT ![s] = n],
           tries' = tries, Asked(s)'
    PROVE  AnswersWereAskedFor'
<1>1. ASSUME NEW x \in Servers PROVE Asked(x)'
  <2>1. CASE x = s
    BY <2>1
  <2>2. CASE x # s
    <3>1. /\ thread'[x] = thread[x] /\ rx'[x] = rx[x] /\ inbox'[x] = inbox[x]
          /\ answers'[x] = answers[x]
      BY <2>2 DEF AnswersWereAskedFor
    <3>2. QED
      BY <3>1 DEF AnswersWereAskedFor, Asked, Pending, Requests
  <2>3. QED
    BY <2>1, <2>2
<1>2. QED
  BY <1>1 DEF AnswersWereAskedFor

\* A server whose socket holds what it held, and that does not owe more.
LEMMA AskedKept ==
    ASSUME AnswersWereAskedFor, NEW s \in Servers, inbox'[s] = inbox[s],
           thread'[s] = "answering" => rx'[s],
           tries' \in Nat, tries <= tries', answers'[s] \in Nat,
           answers'[s] + Pending(s)' <= answers[s] + Pending(s)
    PROVE  Asked(s)'
<1>1. Requests(s)' = Requests(s)
  BY DEF Requests
<1>2. \A i \in 2..Len(inbox'[s]) : inbox'[s][i] = "request"
  BY Zenon DEF AnswersWereAskedFor, Asked
<1>3. Pending(s)' \in Nat
  BY DEF Pending
<1>4. answers'[s] + Pending(s)' + Requests(s)' <= tries'
  BY <1>1, <1>3, AskedNumbers, SMTT(30)
<1>5. QED
  BY <1>2, <1>4, Zenon DEF Asked

\* The thread of a server that has no request before it goes on.
LEMMA AskedIdle ==
    ASSUME AnswersWereAskedFor, NEW s \in Servers, NEW to \in ThreadPcs,
           to \notin {"decoding", "answering"},
           thread' = [thread EXCEPT ![s] = to],
           UNCHANGED <<inbox, answers, tries>>,
           rx' \in {rx, [rx EXCEPT ![s] = FALSE]}
    PROVE  AnswersWereAskedFor'
<1>1. PICK r \in BOOLEAN : rx' = [rx EXCEPT ![s] = r]
  <2>1. rx = [rx EXCEPT ![s] = rx[s]] /\ rx[s] \in BOOLEAN
    BY DEF AnswersWereAskedFor
  <2>2. QED
    BY <2>1
<1>2. /\ inbox' = [inbox EXCEPT ![s] = inbox[s]] /\ inbox[s] \in Seq(Datagrams)
      /\ answers' = [answers EXCEPT ![s] = answers[s]] /\ answers[s] \in Nat
  BY DEF AnswersWereAskedFor
<1>3. Asked(s)'
  <2>1. thread'[s] = to
    BY DEF AnswersWereAskedFor
  <2>2. Pending(s)' = 0
    BY <2>1 DEF Pending
  <2>3. QED
    BY <1>2, <2>1, <2>2, AskedNumbers, AskedKept
<1>4. QED
  BY <1>1, <1>2, <1>3, AskedOne

\* A datagram is taken from the socket.
LEMMA AskedRx ==
    ASSUME AnswersWereAskedFor, NEW s \in Servers, RxRequest(s)
    PROVE  AnswersWereAskedFor'
<1> DEFINE q == inbox[s]
<1>1. /\ q # <<>> /\ inbox' = [inbox EXCEPT ![s] = Tail(q)]
      /\ UNCHANGED <<answers, tries>> /\ thread[s] = "receiving"
  BY DEF RxRequest, findVars, To
<1>2. PICK to \in {"tidying", "decoding"}, r \in BOOLEAN :
         /\ thread' = [thread EXCEPT ![s] = to]
         /\ rx' = [rx EXCEPT ![s] = r]
         /\ to = "decoding" => (r <=> Head(q) = "request")
  <2>1. rx = [rx EXCEPT ![s] = rx[s]] /\ rx[s] \in BOOLEAN
    BY DEF AnswersWereAskedFor
  <2>2. (Head(q) = "request") \in BOOLEAN
    OBVIOUS
  <2>3. CASE Platform = "boost"
    BY <2>1, <2>3 DEF RxRequest, To
  <2>4. CASE Platform # "boost"
    BY <2>2, <2>4 DEF RxRequest, To
  <2>5. QED
    BY <2>3, <2>4
<1>3. /\ Tail(q) \in Seq(Datagrams) /\ Len(Tail(q)) = Len(q) - 1
      /\ \A i \in 1..Len(Tail(q)) : Tail(q)[i] = q[i + 1]
      /\ Len(q) \in Nat \ {0} /\ Head(q) = q[1]
  <2>1. q \in Seq(Datagrams) /\ q # <<>>
    BY <1>1, AskedNumbers
  <2>2. \A z : z \in Seq(Datagrams) /\ z # <<>> =>
           /\ Tail(z) \in Seq(Datagrams) /\ Len(Tail(z)) = Len(z) - 1
           /\ \A i \in 1..Len(Tail(z)) : Tail(z)[i] = z[i + 1]
    BY HeadTailProperties
  <2>3. Len(q) \in Nat \ {0} /\ Head(q) = q[1]
    BY <2>1
  <2>4. QED
    BY <2>1, <2>2, <2>3
<1>4. \A i \in 1..Len(Tail(q)) : Tail(q)[i] = "request"
  <2>1. \A i \in 2..Len(q) : q[i] = "request"
    BY DEF AnswersWereAskedFor, Asked
  <2>2. QED
    BY <1>3, <2>1
<1>5. /\ answers' = [answers EXCEPT ![s] = answers[s]] /\ answers[s] \in Nat
      /\ thread'[s] = to /\ rx'[s] = r /\ inbox'[s] = Tail(q)
  BY <1>1, <1>2 DEF AnswersWereAskedFor
<1>6. Asked(s)'
  <2>1. Requests(s)' = Len(q) - 1
    <3>1. Len(Tail(q)) \in Nat /\ (Tail(q) # <<>> => Len(Tail(q)) # 0)
      <4>1. \A z \in Seq(Datagrams) :
               Len(z) \in Nat /\ (z # <<>> => Len(z) # 0)
        OBVIOUS
      <4> HIDE DEF q
      <4>2. QED
        BY <1>3, <4>1
    <3>2. Tail(q) = <<>> \/ Tail(q)[1] = "request"
      <4>1. Tail(q) # <<>> => 1 \in 1..Len(Tail(q))
        BY <3>1
      <4> HIDE DEF q
      <4>2. QED
        BY <1>4, <4>1
    <3>3. QED
      BY <1>3, <1>5, <3>2 DEF Requests
  <2>2. Pending(s)' <= IF q[1] = "request" THEN 1 ELSE 0
    BY <1>2, <1>3, <1>5 DEF Pending
  <2>3. /\ Pending(s) = 0
        /\ Requests(s) = IF q[1] = "request" THEN Len(q) ELSE Len(q) - 1
    BY <1>1 DEF Pending, Requests
  <2>4. Pending(s)' \in 0..1
    BY DEF Pending
  <2>5. answers[s]' + Pending(s)' + Requests(s)' <= tries'
    BY <1>1, <1>3, <1>5, <2>1, <2>2, <2>3, <2>4, AskedNumbers
  <2>6. QED
    BY <1>2, <1>3, <1>4, <1>5, <2>5 DEF Asked
<1>7. to \in ThreadPcs
  BY <1>2 DEF ThreadPcs
<1>8. QED
  BY <1>1, <1>2, <1>3, <1>5, <1>6, <1>7, AskedOne

\* Only a request is answered, and once.
LEMMA AskedAnswer ==
    ASSUME AnswersWereAskedFor, NEW s \in Servers,
           DecodeRequest(s) \/ Answer(s)
    PROVE  AnswersWereAskedFor'
<1>1. /\ rx' = [rx EXCEPT ![s] = rx[s]] /\ rx[s] \in BOOLEAN
      /\ inbox' = [inbox EXCEPT ![s] = inbox[s]] /\ inbox[s] \in Seq(Datagrams)
      /\ inbox' = inbox /\ tries' = tries /\ rx' = rx
  BY DEF AnswersWereAskedFor, DecodeRequest, Answer, findVars
<1>2. CASE DecodeRequest(s)
  <2>1. /\ answers' = [answers EXCEPT ![s] = answers[s]] /\ answers[s] \in Nat
        /\ answers' = answers
    BY <1>2 DEF AnswersWereAskedFor, DecodeRequest
  <2>2. PICK to \in {"answering", "sleeping"} :
           /\ thread' = [thread EXCEPT ![s] = to] /\ thread[s] = "decoding"
           /\ to = "answering" => rx[s]
    BY <1>1, <1>2 DEF DecodeRequest, To
  <2>3. thread'[s] = to /\ to \in ThreadPcs
    BY <2>2 DEF AnswersWereAskedFor, ThreadPcs
  <2>4. Asked(s)'
    <3>1. Pending(s)' <= Pending(s) /\ Pending(s)' \in 0..1
      BY <1>1, <2>2, <2>3 DEF Pending
    <3>2. thread'[s] = "answering" => rx'[s]
      BY <1>1, <2>2, <2>3
    <3>3. QED
      BY <1>1, <2>1, <3>1, <3>2, AskedNumbers, AskedKept
  <2>5. QED
    BY <1>1, <2>1, <2>2, <2>3, <2>4, AskedOne
<1>3. CASE Answer(s)
  <2>1. /\ thread' = [thread EXCEPT ![s] = "sleeping"]
        /\ thread[s] = "answering" /\ rx[s]
    BY <1>3 DEF Answer, To, AnswersWereAskedFor, Asked
  <2>2. PICK n \in {answers[s], answers[s] + 1} :
           answers' = [answers EXCEPT ![s] = n]
    <3>1. answers = [answers EXCEPT ![s] = answers[s]]
      BY DEF AnswersWereAskedFor
    <3>2. QED
      BY <1>3, <3>1 DEF Answer
  <2>3. /\ n \in Nat /\ n <= answers[s] + 1 /\ answers'[s] = n
        /\ thread'[s] = "sleeping" /\ "sleeping" \in ThreadPcs
    BY <2>1, <2>2, AskedNumbers DEF AnswersWereAskedFor, ThreadPcs
  <2>4. Asked(s)'
    <3>1. Pending(s)' = 0 /\ Pending(s) = 1
      BY <1>1, <2>1, <2>3 DEF Pending
    <3>2. QED
      BY <1>1, <2>3, <3>1, AskedNumbers, AskedKept
  <2>5. QED
    BY <1>1, <2>1, <2>2, <2>3, <2>4, AskedOne
<1>4. QED
  BY <1>2, <1>3

\* A broadcast asks each server once more at most.
LEMMA AskedSend ==
    ASSUME AnswersWereAskedFor, SendRequest
    PROVE  AnswersWereAskedFor'
<1>1. PICK reached \in SUBSET Servers :
         inbox' = [s \in Servers |-> IF s \in reached
                                     THEN Append(inbox[s], "request")
                                     ELSE inbox[s]]
  BY DEF SendRequest
<1>2. /\ tries' = tries + 1 /\ tries' \in 0..Attempts
      /\ UNCHANGED <<thread, rx, answers>>
  BY DiscoveryAssumption DEF SendRequest, svrVars, AnswersWereAskedFor
<1>3. ASSUME NEW s \in Servers
      PROVE  inbox'[s] \in Seq(Datagrams) /\ Asked(s)'
  <2>1. CASE inbox'[s] = inbox[s]
    <3>1. Pending(s)' = Pending(s)
      BY <1>2 DEF Pending
    <3>2. thread'[s] = "answering" => rx'[s]
      BY <1>2 DEF Asked, AnswersWereAskedFor
    <3>3. QED
      BY <1>2, <2>1, <3>1, <3>2, AskedNumbers, AskedKept
  <2>2. CASE inbox'[s] = Append(inbox[s], "request")
    <3> DEFINE q == inbox[s]
    <3>1. /\ q \in Seq(Datagrams) /\ Len(q) \in Nat
          /\ \A i \in 2..Len(q) : q[i] = "request"
      BY AskedNumbers DEF AnswersWereAskedFor, Asked
    <3>2. /\ Append(q, "request") \in Seq(Datagrams)
          /\ Len(Append(q, "request")) = Len(q) + 1
          /\ \A i \in 1..Len(q) : Append(q, "request")[i] = q[i]
          /\ Append(q, "request")[Len(q) + 1] = "request"
          /\ Append(q, "request") # <<>> /\ (q = <<>> <=> Len(q) = 0)
      <4>1. \A z, b : z \in Seq(Datagrams) /\ b \in Datagrams =>
               /\ Append(z, b) \in Seq(Datagrams) /\ Append(z, b) # <<>>
               /\ Len(Append(z, b)) = Len(z) + 1
               /\ \A i \in 1..Len(z) : Append(z, b)[i] = z[i]
               /\ Append(z, b)[Len(z) + 1] = b
        BY AppendProperties
      <4>2. q = <<>> <=> Len(q) = 0
        BY <3>1
      <4>3. "request" \in Datagrams
        BY DEF Datagrams
      <4>4. QED
        BY <3>1, <4>1, <4>2, <4>3
    <3>3. \A i \in 2..(Len(q) + 1) : Append(q, "request")[i] = "request"
      BY <3>1, <3>2
    <3>4. Requests(s)' <= Requests(s) + 1 /\ Requests(s)' \in Nat
      <4>1. CASE q = <<>>
        <5>1. /\ Append(q, "request")[1] = "request"
              /\ Len(Append(q, "request")) = 1
          BY <3>2, <4>1
        <5>2. QED
          BY <2>2, <3>1, <3>2, <4>1, <5>1 DEF Requests
      <4>2. CASE q # <<>>
        <5>1. Append(q, "request")[1] = q[1]
          BY <3>1, <3>2, <4>2
        <5>2. QED
          BY <2>2, <3>1, <3>2, <4>2, <5>1 DEF Requests
      <4>3. QED
        BY <4>1, <4>2
    <3>5. Pending(s)' = Pending(s)
      BY <1>2 DEF Pending
    <3>6. answers'[s] + Pending(s)' + Requests(s)' <= tries'
      BY <1>2, <3>4, <3>5, AskedNumbers
    <3>7. thread'[s] = "answering" => rx'[s]
      BY <1>2 DEF Asked, AnswersWereAskedFor
    <3>8. \A i \in 2..Len(inbox'[s]) : inbox'[s][i] = "request"
      BY <2>2, <3>2, <3>3
    <3>9. QED
      BY <2>2, <3>2, <3>6, <3>7, <3>8 DEF Asked
  <2>3. QED
    BY <1>1, <2>1, <2>2
<1>4. inbox' \in [Servers -> Seq(Datagrams)]
  BY <1>1, <1>3
<1>5. QED
  BY <1>2, <1>3, <1>4 DEF AnswersWereAskedFor

\* A stray datagram is no request.
LEMMA AskedStray ==
    ASSUME AnswersWereAskedFor, NEW s \in Servers, Stray(s)
    PROVE  AnswersWereAskedFor'
<1>1. /\ inbox[s] = <<>> /\ inbox' = [inbox EXCEPT ![s] = <<"other">>]
      /\ UNCHANGED <<thread, rx, answers, tries>> /\ thread[s] = "receiving"
  BY DEF Stray, svrVars, findVars
<1>2. /\ <<"other">> \in Seq(Datagrams) /\ Len(<<"other">>) = 1
      /\ <<"other">>[1] = "other" /\ <<"other">> # <<>>
  BY DEF Datagrams
<1>3. inbox'[s] = <<"other">>
  BY <1>1 DEF AnswersWereAskedFor
<1>4. Asked(s)'
  <2>1. Requests(s)' = 0 /\ Pending(s)' = Pending(s)
    BY <1>1, <1>2, <1>3 DEF Requests, Pending
  <2>2. QED
    BY <1>1, <1>2, <1>3, <2>1, AskedNumbers DEF Asked
<1>5. /\ thread' = [thread EXCEPT ![s] = thread[s]] /\ thread[s] \in ThreadPcs
      /\ rx' = [rx EXCEPT ![s] = rx[s]] /\ rx[s] \in BOOLEAN
      /\ answers' = [answers EXCEPT ![s] = answers[s]] /\ answers[s] \in Nat
  BY <1>1 DEF AnswersWereAskedFor
<1>6. QED
  BY <1>1, <1>2, <1>4, <1>5, AskedOne

\* An answer is received.
LEMMA AskedReceive ==
    ASSUME AnswersWereAskedFor, Receive
    PROVE  AnswersWereAskedFor'
<1>1. UNCHANGED <<thread, rx, inbox, tries>>
  BY DEF Receive, svrVars
<1>2. CASE UNCHANGED answers
  BY <1>1, <1>2, AskedUntouched
<1>3. ASSUME NEW s \in Servers, answers[s] > 0,
             answers' = [answers EXCEPT ![s] = @ - 1]
      PROVE  AnswersWereAskedFor'
  <2>1. answers[s] - 1 \in Nat /\ answers'[s] = answers[s] - 1
    BY <1>3, AskedNumbers DEF AnswersWereAskedFor
  <2>2. Asked(s)'
    <3>1. Pending(s)' = Pending(s)
      BY <1>1 DEF Pending
    <3>2. thread'[s] = "answering" => rx'[s]
      BY <1>1 DEF Asked, AnswersWereAskedFor
    <3>3. QED
      BY <1>1, <2>1, <3>1, <3>2, AskedNumbers, AskedKept
  <2>3. /\ thread[s] \in ThreadPcs
        /\ thread' = [thread EXCEPT ![s] = thread[s]]
        /\ rx' = [rx EXCEPT ![s] = rx[s]] /\ rx[s] \in BOOLEAN
        /\ inbox[s] \in Seq(Datagrams)
        /\ inbox' = [inbox EXCEPT ![s] = inbox[s]]
    BY <1>1 DEF AnswersWereAskedFor
  <2>4. QED
    BY <1>1, <1>3, <2>1, <2>2, <2>3, AskedOne
<1>4. QED
  BY <1>2, <1>3 DEF Receive

\* No step answers what was not asked.
LEMMA AskedStep ==
    ASSUME AnswersWereAskedFor, [Next]_vars
    PROVE  AnswersWereAskedFor'
<1>1. ASSUME NEW s \in Servers,
             AddAndStartServer(s) \/ Bind(s) \/ RxTimeout(s) \/ Sleep(s)
             \/ Done(s) \/ Unregister(s)
      PROVE  AnswersWereAskedFor'
  <2>1. PICK to \in {"bind", "receiving", "sleeping", "tidying",
                     "unregistering", "ended"} :
           thread' = [thread EXCEPT ![s] = to]
    BY <1>1 DEF AddAndStartServer, Bind, RxTimeout, Sleep, Done, Unregister, To
  <2>2. UNCHANGED <<inbox, answers, tries>>
        /\ rx' \in {rx, [rx EXCEPT ![s] = FALSE]}
    BY <1>1 DEF AddAndStartServer, Bind, RxTimeout, Sleep, Done, Unregister,
                findVars
  <2>3. to \in ThreadPcs
    BY DEF ThreadPcs
  <2>4. QED
    BY <2>1, <2>2, <2>3, AskedIdle
<1>2. ASSUME NEW s \in Servers, RxRequest(s) \/ DecodeRequest(s) \/ Answer(s)
                                \/ Stray(s)
      PROVE  AnswersWereAskedFor'
  BY <1>2, AskedRx, AskedAnswer, AskedStray
<1>3. CASE SendRequest \/ Receive
  BY <1>3, AskedSend, AskedReceive
<1>4. ASSUME NEW s \in Servers, Walk(s) PROVE AnswersWereAskedFor'
  BY <1>4, AskedUntouched DEF Walk, findVars
<1>5. CASE RemoveAndDeleteAll \/ WalkEnds \/ GetCount \/ Collect \/ FindEnds
           \/ UNCHANGED vars
  BY <1>5, AskedUntouched
  DEF RemoveAndDeleteAll, WalkEnds, GetCount, Collect, FindEnds, vars, svrVars,
      findVars
<1>6. QED
  BY <1>1, <1>2, <1>3, <1>4, <1>5 DEF Next, ThreadStep

\* A server is added to the list when it is not in it.
LEMMA ListStep ==
    ASSUME ListIsPlain, [Next]_vars
    PROVE  ListIsPlain'
<1> DEFINE L == [server : Servers, preferred : {FALSE}]
<1>1. CASE UNCHANGED <<lstResult, nPreferred>>
  <2>1. here' \in Servers \cup {None}
    BY DEF ListIsPlain, Next, AddAndStartServer, RemoveAndDeleteAll, Walk,
           WalkEnds, GetCount, SendRequest, Collect, Receive, FindEnds, Stray,
           ThreadStep, Bind, RxRequest, RxTimeout, DecodeRequest, Answer,
           Sleep, Done, Unregister, vars, poolVars
  <2>2. QED
    BY <1>1, <2>1 DEF ListIsPlain, ListsServerOnce
<1>2. ASSUME Receive, NEW s \in Servers, Found(DecodeAnswer(s))
      PROVE  ListIsPlain'
  <2> DEFINE d == DecodeAnswer(s)
  <2>1. d \in L /\ d.server = s /\ d.preferred = FALSE
    BY DEF DecodeAnswer
  <2>2. here' = here
    BY <1>2 DEF Receive, poolVars
  <2>3. CASE \E i \in DOMAIN lstResult : lstResult[i] = d
    BY <1>1, <1>2, <2>3 DEF Found
  <2>4. CASE ~\E i \in DOMAIN lstResult : lstResult[i] = d
    <3>1. lstResult' = Append(lstResult, d) /\ nPreferred' = nPreferred
      BY <1>2, <2>1, <2>4 DEF Found
    <3> HIDE DEF d
    <3>2. /\ lstResult \in Seq(L) /\ Len(lstResult) \in Nat
          /\ DOMAIN lstResult = 1..Len(lstResult)
      BY DEF ListIsPlain
    <3>3. /\ lstResult' \in Seq(L)
          /\ DOMAIN lstResult' = 1..(Len(lstResult) + 1)
          /\ \A i \in 1..Len(lstResult) : lstResult'[i] = lstResult[i]
          /\ lstResult'[Len(lstResult) + 1] = d
      <4> HIDE DEF L
      <4>1. \A z \in Seq(L), e \in L :
               /\ Append(z, e) \in Seq(L) /\ Len(Append(z, e)) = Len(z) + 1
               /\ DOMAIN Append(z, e) = 1..(Len(z) + 1)
               /\ \A i \in 1..Len(z) : Append(z, e)[i] = z[i]
               /\ Append(z, e)[Len(z) + 1] = e
        OBVIOUS
      <4>2. QED
        BY <2>1, <3>1, <3>2, <4>1
    <3>4. \A i \in 1..Len(lstResult) : lstResult[i].server # s
      <4>1. \A e \in L : e.server = s => e = DecodeAnswer(s)
        <5>1. ASSUME NEW e \in L, e.server = s
              PROVE  e = [server |-> s, preferred |-> FALSE]
          <6>1. e = [server |-> e.server, preferred |-> e.preferred]
            OBVIOUS
          <6>2. e.preferred = FALSE
            OBVIOUS
          <6>3. QED
            BY <5>1, <6>1, <6>2, Zenon
        <5>2. QED
          BY <5>1 DEF DecodeAnswer
      <4>2. \A i \in 1..Len(lstResult) : lstResult[i] \in L
        <5> HIDE DEF L
        <5>1. QED
          BY <3>2
      <4> USE DEF d
      <4>3. QED
        BY <2>4, <3>2, <4>1, <4>2
    <3>5. \A i \in 1..(Len(lstResult) + 1) :
             i \in 1..Len(lstResult) \/ i = Len(lstResult) + 1
      BY <3>2
    <3>6. ListsServerOnce'
      BY <2>1, <3>2, <3>3, <3>4, <3>5 DEF ListIsPlain, ListsServerOnce
    <3>7. QED
      BY <2>2, <3>1, <3>3, <3>6 DEF ListIsPlain
  <2>5. QED
    BY <2>3, <2>4
<1>3. UNCHANGED <<lstResult, nPreferred>> \/ Receive
  BY DEF Next, AddAndStartServer, RemoveAndDeleteAll, Walk, WalkEnds, GetCount,
         SendRequest, Collect, FindEnds, Stray, ThreadStep, Bind, RxRequest,
         RxTimeout, DecodeRequest, Answer, Sleep, Done, Unregister, vars,
         findVars
<1>4. QED
  BY <1>1, <1>2, <1>3 DEF Receive

\* Nothing has been asked at first, and nothing found.
LEMMA FinderInit == Init => AnswersWereAskedFor /\ ListIsPlain
<1> SUFFICES ASSUME Init PROVE AnswersWereAskedFor /\ ListIsPlain
  OBVIOUS
<1>1. ASSUME NEW s \in Servers PROVE Asked(s)
  <2>1. inbox[s] = <<>> /\ Len(<<>>) = 0 /\ answers[s] = 0 /\ tries = 0
        /\ thread[s] = "none"
    BY DEF Init
  <2>2. QED
    BY <2>1 DEF Asked, Pending, Requests
<1>2. AnswersWereAskedFor
  BY <1>1, DiscoveryAssumption DEF Init, AnswersWereAskedFor, ThreadPcs
<1>3. ListIsPlain
  BY DEF Init, ListIsPlain, ListsServerOnce
<1>4. QED
  BY <1>2, <1>3

\* What the run checks follows: there is an answer for a request at most, and
\* a single server is the only thing to suggest.
LEMMA FinderSuffices ==
    ASSUME PoolInv, AnswersWereAskedFor, ListIsPlain
    PROVE  FinderInv
<1>1. Len(lstResult) \in Nat /\ DOMAIN lstResult = 1..Len(lstResult)
  BY DEF ListIsPlain
<1>2. \A s \in Servers : answers[s] \in 0..Attempts
  <2>1. tries <= Attempts /\ tries \in Nat
    BY DiscoveryAssumption DEF AnswersWereAskedFor
  <2>2. QED
    BY <2>1, AskedNumbers, DiscoveryAssumption
<1>3. answers \in [Servers -> 0..Attempts]
  BY <1>2 DEF AnswersWereAskedFor
<1>4. \A s \in Servers : \A i \in DOMAIN inbox[s] :
         inbox[s][i] \in {"request", "other"}
  BY DEF AnswersWereAskedFor, Datagrams
<1>5. setPool = {s \in Servers : Alive(s)}
  BY DEF PoolInv, PoolTypes, PoolIsAlive
<1>6. nPreferred \in -2..(Len(lstResult) - 1)
  BY <1>1 DEF ListIsPlain
<1>7. TypeOK
  BY <1>3, <1>4, <1>5, <1>6
  DEF TypeOK, PoolInv, PoolTypes, ListIsPlain, ThreadPcs
<1>8. SuggestionIsUnique
  BY <1>1 DEF SuggestionIsUnique, Suggestion, ListIsPlain
<1>9. QED
  BY <1>7, <1>8 DEF FinderInv, ListIsPlain

\* For any number of servers, attempts and rounds, whatever is lost, repeated
\* or overtaken: AbkFindServers lists a server once, and suggests one only when
\* it is the only one.
THEOREM FinderIsRight == Spec => []FinderInv
<1>1. AnswersWereAskedFor /\ [Next]_vars => AnswersWereAskedFor'
  BY AskedStep
<1>2. ListIsPlain /\ [Next]_vars => ListIsPlain'
  BY ListStep
<1>3. PoolInv /\ AnswersWereAskedFor /\ ListIsPlain => FinderInv
  BY FinderSuffices
<1>4. QED
  BY <1>1, <1>2, <1>3, FinderInit, PoolAlways, PTL DEF Spec

-----------------------------------------------------------------------------
(* Numbers, and functions defined by recursion on them. *)

\* A set of numbers has a least element.
LEMMA Least ==
    ASSUME NEW T, T \subseteq Nat, T # {}
    PROVE  \E x \in T : \A y \in T : x <= y
<1> DEFINE R == OpToRel(<, Nat)
<1>1. IsWellFoundedOn(R, Nat)
  BY NatLessThanWellFounded
<1>2. PICK x \in T : \A y \in T : <<y, x>> \notin R
  <2> HIDE DEF R
  <2>1. QED
    BY <1>1, WFMin
<1>3. ASSUME NEW y \in T PROVE x <= y
  <2>1. <<y, x>> \notin {ss \in Nat \X Nat : ss[1] < ss[2]}
    BY <1>2 DEF OpToRel
  <2>2. x \in Nat /\ y \in Nat
    OBVIOUS
  <2>3. QED
    BY <2>1, <2>2
<1>4. QED
  BY <1>3

\* Induction from lo to hi, for what the numbers of a set have in common.
LEMMA Climb ==
    ASSUME NEW S, NEW lo \in Int, NEW hi \in Int, lo \in S,
           \A k \in lo..(hi - 1) : k \in S => k + 1 \in S
    PROVE  \A k \in lo..hi : k \in S
<1> DEFINE T == {n \in Nat : lo + n <= hi /\ lo + n \notin S}
<1> SUFFICES ASSUME NEW k \in lo..hi, k \notin S PROVE FALSE
  OBVIOUS
<1>1. k - lo \in T
  OBVIOUS
<1>2. PICK n \in T : \A y \in T : n <= y
  <2> HIDE DEF T
  <2>1. T \subseteq Nat
    BY DEF T
  <2>2. QED
    BY <1>1, <2>1, Least
<1>3. n # 0
  OBVIOUS
<1>4. n - 1 \notin T
  BY <1>2
<1>5. lo + (n - 1) \in S /\ lo + (n - 1) \in lo..(hi - 1)
  BY <1>3, <1>4
<1>6. (lo + (n - 1)) + 1 = lo + n
  OBVIOUS
<1>7. QED
  BY <1>5, <1>6

\* There is a function that a recursion describes.
LEMMA RecursionExists ==
    ASSUME NEW lo \in Int, NEW hi \in Int, lo <= hi, NEW V, NEW base \in V,
           NEW step, IsStep(step, lo, hi, V)
    PROVE  \E f : Unrolls(f, lo, hi, V, base, step)
<1> DEFINE Fits(f, k) ==
             \A j \in lo..k : f[j] = IF j = lo THEN base
                                     ELSE step[<<j, f[j - 1]>>]
           S == {k \in Int : \E f \in [lo..hi -> V] : Fits(f, k)}
<1>0. step \in [(lo..hi) \X V -> V]
  BY DEF IsStep
<1>1. lo \in S
  <2> DEFINE f == [j \in lo..hi |-> base]
  <2>1. f \in [lo..hi -> V] /\ Fits(f, lo)
    OBVIOUS
  <2>2. QED
    BY <2>1
<1>2. ASSUME NEW k \in lo..(hi - 1), k \in S PROVE k + 1 \in S
  <2>1. PICK f \in [lo..hi -> V] : Fits(f, k)
    BY <1>2
  <2> DEFINE g == [f EXCEPT ![k + 1] = step[<<k + 1, f[k]>>]]
  <2>2. k + 1 \in lo..hi /\ k \in lo..hi /\ k + 1 # lo
    OBVIOUS
  <2>3. step[<<k + 1, f[k]>>] \in V
    BY <2>2, <1>0
  <2>4. g \in [lo..hi -> V]
    BY <2>3
  <2>5. ASSUME NEW j \in lo..(k + 1)
        PROVE  g[j] = IF j = lo THEN base ELSE step[<<j, g[j - 1]>>]
    <3>1. j \in lo..hi
      OBVIOUS
    <3>2. j # lo => j - 1 \in lo..hi /\ j - 1 # k + 1
      OBVIOUS
    <3>3. CASE j = k + 1
      <4>1. g[j] = step[<<k + 1, f[k]>>] /\ g[j - 1] = f[k]
        BY <3>1, <3>3, <2>2
      <4>2. QED
        BY <4>1, <3>3, <2>2
    <3>4. CASE j # k + 1
      <4>1. j \in lo..k /\ g[j] = f[j]
        BY <3>1, <3>4
      <4>2. j # lo => g[j - 1] = f[j - 1]
        BY <3>2
      <4>3. QED
        BY <4>1, <4>2, <2>1
    <3>5. QED
      BY <3>3, <3>4
  <2>6. Fits(g, k + 1)
    BY <2>5
  <2> HIDE DEF g, Fits
  <2>7. QED
    BY <2>4, <2>6
<1>3. hi \in S
  <2> HIDE DEF S
  <2>1. \A k \in lo..(hi - 1) : k \in S => k + 1 \in S
    BY <1>2
  <2>2. \A k \in lo..hi : k \in S
    BY <1>1, <2>1, Climb
  <2>3. QED
    BY <2>2
<1>4. PICK f \in [lo..hi -> V] : Fits(f, hi)
  BY <1>3
<1>5. QED
  BY <1>4 DEF Unrolls
-----------------------------------------------------------------------------
(* Texts: strings, how they are written, and where the parser finds them.   *)

\* The quote is none of the others.
LEMMA QuoteIsNone ==
    Quote \notin {"eos", "white", "\\", ":", ",", "{", "[", "}", "]", "n",
                  "nl", "date", "/", "'"}
  BY Zenon DEF Quote

\* Behind its end a text reads as the terminating zero.
LEMMA BehindIsEnd ==
    ASSUME text \in Seq(Lexemes)
    PROVE  \A i \in Nat : i > Len(text) => At(i) = "eos"
<1>1. Len(text) \in Nat
  OBVIOUS
<1>2. \A i \in Nat : i > Len(text) => ~(i <= Len(text))
  BY <1>1
<1>3. QED
  BY <1>2 DEF At

\* There is one.
LEMMA JumpsExist ==
    ASSUME NEW bound, NEW V, NEW Stop, NEW base, NEW next, NEW step,
           IsJumping(bound, V, Stop, base, next, step)
    PROVE  \E f : Jumps(f, V, Stop, base, next, step)
<1> DEFINE Fits(f, k) ==
             \A i \in Nat : i >= k =>
               f[i] = IF i \in Stop THEN base[i] ELSE step[<<i, f[next[i]]>>]
           S == {k \in Int : \E f \in [Nat -> V] : Fits(f, bound + 1 - k)}
<1>0. /\ bound \in Nat /\ base \in [Nat -> V] /\ next \in [Nat -> Nat]
      /\ step \in [Nat \X V -> V]
      /\ \A i \in Nat : /\ i > bound => i \in Stop
                        /\ i \notin Stop => next[i] > i
  BY DEF IsJumping
<1>1. 0 \in S
  <2>1. \A i \in Nat : i >= bound + 1 => i > bound
    BY <1>0
  <2>2. Fits(base, bound + 1 - 0)
    BY <1>0, <2>1
  <2>3. QED
    BY <1>0, <2>2
<1>2. ASSUME NEW k \in 0..((bound + 1) - 1), k \in S PROVE k + 1 \in S
  <2>1. PICK f \in [Nat -> V] : Fits(f, bound + 1 - k)
    BY <1>2
  <2> DEFINE j == bound - k
             v == IF j \in Stop THEN base[j] ELSE step[<<j, f[next[j]]>>]
             g == [f EXCEPT ![j] = v]
  <2>2. j \in Nat /\ bound + 1 - (k + 1) = j /\ bound + 1 - k = j + 1
    BY <1>0
  <2>3. v \in V
    BY <1>0, <2>2
  <2>4. g \in [Nat -> V] /\ g[j] = v /\ \A i \in Nat : i # j => g[i] = f[i]
    BY <2>2, <2>3
  <2>5. ASSUME NEW i \in Nat, i >= j
        PROVE  g[i] = IF i \in Stop THEN base[i] ELSE step[<<i, g[next[i]]>>]
    <3>1. i \notin Stop => next[i] \in Nat /\ next[i] # j
      BY <1>0, <2>2, <2>5
    <3>2. CASE i = j
      BY <1>0, <3>1, <3>2, <2>4
    <3>3. CASE i # j
      <4>1. i >= j + 1
        BY <3>3, <2>2, <2>5
      <4>2. f[i] = IF i \in Stop THEN base[i] ELSE step[<<i, f[next[i]]>>]
        BY <4>1, <2>1, <2>2
      <4>3. QED
        BY <4>2, <3>1, <3>3, <2>4
    <3>4. QED
      BY <3>2, <3>3
  <2> HIDE DEF g, v
  <2>6. Fits(g, bound + 1 - (k + 1))
    BY <2>2, <2>5
  <2>7. QED
    BY <2>4, <2>6
<1> HIDE DEF S
<1>3. \A k \in 0..(bound + 1) : k \in S
  <2>1. 0 \in Int /\ bound + 1 \in Int
    BY <1>0
  <2>2. QED
    BY <1>1, <1>2, <2>1, Climb, Zenon
<1>4. bound + 1 \in S
  BY <1>0, <1>3
<1>5. PICK f \in [Nat -> V] : Fits(f, 0)
  <2>1. bound + 1 - (bound + 1) = 0
    BY <1>0
  <2> HIDE DEF Fits
  <2>2. QED
    BY <1>4, <2>1 DEF S
<1>6. QED
  BY <1>5 DEF Jumps

\* There is one.
LEMMA SkipsExist ==
    ASSUME text \in Seq(Lexemes), NEW Stop, NEW base, NEW next,
           IsSkipping(Stop, next)
    PROVE  \E f : /\ Skips(f, Stop, base, next)
                  /\ f = [i \in Nat |-> f[i]]
<1> DEFINE V == {base[i] : i \in Nat}
           base1 == [i \in Nat |-> base[i]]
           next1 == [i \in Nat |-> next[i]]
           step == [x \in Nat \X V |-> x[2]]
<1>1. base1 \in [Nat -> V] /\ \A i \in Nat : base1[i] = base[i]
  OBVIOUS
<1>2. step \in [Nat \X V -> V]
  OBVIOUS
<1>3. \A i \in Nat, v \in V : step[<<i, v>>] = v
  OBVIOUS
<1>4. Len(text) \in Nat
  OBVIOUS
<1>5. next1 \in [Nat -> Nat] /\ \A i \in Nat : next1[i] = next[i]
  BY DEF IsSkipping
<1>6. IsJumping(Len(text), V, Stop, base1, next1, step)
  <2> HIDE DEF V, base1, next1, step
  <2>1. QED
    BY <1>1, <1>2, <1>4, <1>5 DEF IsJumping, IsSkipping
<1>7. PICK f : Jumps(f, V, Stop, base1, next1, step)
  <2> HIDE DEF V, base1, next1, step
  <2>1. QED
    BY <1>6, JumpsExist
<1> HIDE DEF V, base1, next1, step
<1>8. f \in [Nat -> V]
  BY <1>7 DEF Jumps
<1>9. Skips(f, Stop, base, next)
  <2> SUFFICES ASSUME NEW i \in Nat
               PROVE  f[i] = IF i \in Stop THEN base[i] ELSE f[next[i]]
    BY DEF Skips
  <2>1. f[i] = IF i \in Stop THEN base1[i] ELSE step[<<i, f[next1[i]]>>]
    BY <1>7 DEF Jumps
  <2>2. next1[i] \in Nat /\ f[next1[i]] \in V
    BY <1>5, <1>8
  <2>3. step[<<i, f[next1[i]]>>] = f[next1[i]]
    BY <1>3, <2>2
  <2>4. base1[i] = base[i] /\ next1[i] = next[i]
    BY <1>1, <1>5
  <2>5. QED
    BY <2>1, <2>3, <2>4
<1>10. QED
  BY <1>8, <1>9

\* What SkipWhite does.
LEMMA SkipWhiteIs ==
    ASSUME text \in Seq(Lexemes)
    PROVE  \A i \in Nat : At(i) # "white" => SkipWhite[i] = i
<1> DEFINE Stop == {i \in Nat : At(i) # "white"}
           next == [i \in Nat |-> i + 1]
           base == [i \in Nat |-> i]
<1>1. IsSkipping(Stop, next)
  BY BehindIsEnd DEF IsSkipping
<1>2. PICK f : Skips(f, Stop, base, next) /\ f = [i \in Nat |-> f[i]]
  <2> HIDE DEF Stop, next, base
  <2>1. QED
    BY <1>1, SkipsExist
<1>3. \A i \in Nat : f[i] = IF At(i) = "white" THEN f[i + 1] ELSE i
  BY <1>2 DEF Skips
<1>4. f = [i \in Nat |-> IF At(i) = "white" THEN f[i + 1] ELSE i]
  <2> HIDE DEF Stop, next, base
  <2>1. QED
    BY <1>2, <1>3
<1>5. SkipWhite =
        [i \in Nat |-> IF At(i) = "white" THEN SkipWhite[i + 1] ELSE i]
  BY <1>4 DEF SkipWhite
<1>6. QED
  BY <1>5

\* What SearchStringEnd does.
LEMMA SearchStringEndIs ==
    ASSUME text \in Seq(Lexemes)
    PROVE  \A i \in Nat :
             SearchStringEnd[i] =
               IF At(i) \in {Quote, "eos"} THEN i
               ELSE IF At(i) = "\\" /\ At(i + 1) # "eos"
                    THEN SearchStringEnd[i + 2] ELSE SearchStringEnd[i + 1]
<1> DEFINE Stop == {i \in Nat : At(i) \in {Quote, "eos"}}
           next == [i \in Nat |-> IF At(i) = "\\" /\ At(i + 1) # "eos"
                                  THEN i + 2 ELSE i + 1]
           base == [i \in Nat |-> i]
<1>1. IsSkipping(Stop, next)
  <2>1. \A i \in Nat : next[i] \in Nat /\ next[i] > i
    OBVIOUS
  <2>2. \A i \in Nat : At(i) = "eos" => i \in Stop
    OBVIOUS
  <2> HIDE DEF Stop, next
  <2>3. QED
    BY <2>1, <2>2, BehindIsEnd DEF IsSkipping
<1>2. PICK f : Skips(f, Stop, base, next) /\ f = [i \in Nat |-> f[i]]
  <2> HIDE DEF Stop, next, base
  <2>1. QED
    BY <1>1, SkipsExist
<1>3. \A i \in Nat : f[i] = IF At(i) \in {Quote, "eos"} THEN i
                            ELSE IF At(i) = "\\" /\ At(i + 1) # "eos"
                                 THEN f[i + 2] ELSE f[i + 1]
  BY <1>2 DEF Skips
<1>4. f = [i \in Nat |-> IF At(i) \in {Quote, "eos"} THEN i
                         ELSE IF At(i) = "\\" /\ At(i + 1) # "eos"
                              THEN f[i + 2] ELSE f[i + 1]]
  <2> HIDE DEF Stop, next, base
  <2>1. QED
    BY <1>2, <1>3
<1>5. SearchStringEnd =
        [i \in Nat |-> IF At(i) \in {Quote, "eos"} THEN i
                       ELSE IF At(i) = "\\" /\ At(i + 1) # "eos"
                            THEN SearchStringEnd[i + 2]
                            ELSE SearchStringEnd[i + 1]]
  BY <1>4 DEF SearchStringEnd
<1>6. QED
  BY <1>5

\* What SearchNumericEnd does.
LEMMA SearchNumericEndIs ==
    ASSUME text \in Seq(Lexemes)
    PROVE  \A i \in Nat :
             SearchNumericEnd[i] = IF At(i) \in Delimiters THEN i
                                   ELSE SearchNumericEnd[i + 1]
<1> DEFINE Stop == {i \in Nat : At(i) \in Delimiters}
           next == [i \in Nat |-> i + 1]
           base == [i \in Nat |-> i]
<1>1. IsSkipping(Stop, next)
  <2>1. \A i \in Nat : next[i] \in Nat /\ next[i] > i
    OBVIOUS
  <2>2. \A i \in Nat : At(i) = "eos" => i \in Stop
    BY DEF Delimiters
  <2> HIDE DEF Stop, next
  <2>3. QED
    BY <2>1, <2>2, BehindIsEnd DEF IsSkipping
<1>2. PICK f : Skips(f, Stop, base, next) /\ f = [i \in Nat |-> f[i]]
  <2> HIDE DEF Stop, next, base
  <2>1. QED
    BY <1>1, SkipsExist
<1>3. \A i \in Nat : f[i] = IF At(i) \in Delimiters THEN i ELSE f[i + 1]
  BY <1>2 DEF Skips
<1>4. f = [i \in Nat |-> IF At(i) \in {",", "]", "}", "white", "eos"} THEN i
                         ELSE f[i + 1]]
  <2> HIDE DEF Stop, next, base
  <2>1. QED
    BY <1>2, <1>3 DEF Delimiters
<1>5. SearchNumericEnd =
        [i \in Nat |-> IF At(i) \in {",", "]", "}", "white", "eos"} THEN i
                       ELSE SearchNumericEnd[i + 1]]
  BY <1>4 DEF SearchNumericEnd
<1>6. QED
  BY <1>5 DEF Delimiters

\* A quoted name, with its colon, is isolated.
LEMMA IsolateNameIs ==
    ASSUME text \in Seq(Lexemes), NEW i \in Nat, At(i) = Quote,
           NEW e \in Nat, StringEnds(i + 1, e),
           At(e + 1) = ":", At(e + 2) # "white"
    PROVE  IsolateName[i] = [name |-> SubSeq(text, i + 1, e - 1),
                             pos  |-> e + 2]
<1> DEFINE There(j) == LET quoted == At(j) = Quote
                           first  == IF quoted THEN j + 1 ELSE j
                           last   == IF quoted THEN SearchStringEnd[first]
                                     ELSE BareNameEnd[first]
                           behind == SkipWhite[IF quoted THEN last + 1 ELSE last]
                       IN  [name |-> SubSeq(text, first, last - 1),
                            pos  |-> SkipWhite[IF At(behind) = ":"
                                               THEN behind + 1 ELSE behind]]
           Stop == {j \in Nat : At(j) # "white"}
           next == [j \in Nat |-> j + 1]
           base == [j \in Nat |-> There(j)]
<1>1. IsSkipping(Stop, next)
  <2> HIDE DEF There
  <2>1. \A j \in Nat : next[j] \in Nat /\ next[j] > j
    OBVIOUS
  <2>2. \A j \in Nat : At(j) = "eos" => j \in Stop
    OBVIOUS
  <2> HIDE DEF Stop, next
  <2>3. QED
    BY <2>1, <2>2, BehindIsEnd DEF IsSkipping
<1>2. PICK f : Skips(f, Stop, base, next) /\ f = [j \in Nat |-> f[j]]
  <2> HIDE DEF Stop, next, base
  <2>1. QED
    BY <1>1, SkipsExist, ZenonT(30)
<1> HIDE DEF There
<1>3. \A j \in Nat : f[j] = IF At(j) = "white" THEN f[j + 1] ELSE There(j)
  BY <1>2 DEF Skips
<1>4. f = [j \in Nat |-> IF At(j) = "white" THEN f[j + 1] ELSE There(j)]
  <2> HIDE DEF Stop, next, base
  <2>1. QED
    BY <1>2, <1>3
<1>5. IsolateName =
        [j \in Nat |-> IF At(j) = "white" THEN IsolateName[j + 1] ELSE There(j)]
  <2> HIDE DEF Stop, next, base
  <2>1. QED
    BY <1>4 DEF IsolateName, There
<1>6. IsolateName[i] = There(i)
  BY <1>5, QuoteIsNone
<1>7. SkipWhite[e + 1] = e + 1 /\ SkipWhite[e + 2] = e + 2
  <2>1. e + 1 \in Nat /\ e + 2 \in Nat
    OBVIOUS
  <2>2. QED
    BY <2>1, ":" # "white", SkipWhiteIs
<1>8. e + 1 + 1 = e + 2
  OBVIOUS
<1>9. QED
  BY <1>6, <1>7, <1>8 DEF There, StringEnds

\* What IsolateValue does.
LEMMA IsolateValueIs ==
    ASSUME text \in Seq(Lexemes)
    PROVE  \A i \in Nat : At(i) # "white" => IsolateValue[i] = ValueAt(i)
<1> DEFINE Stop == {i \in Nat : At(i) # "white"}
           next == [i \in Nat |-> i + 1]
           base == [i \in Nat |-> ValueAt(i)]
<1>1. IsSkipping(Stop, next)
  <2>1. \A i \in Nat : next[i] \in Nat /\ next[i] > i
    OBVIOUS
  <2>2. \A i \in Nat : At(i) = "eos" => i \in Stop
    OBVIOUS
  <2> HIDE DEF Stop, next
  <2>3. QED
    BY <2>1, <2>2, BehindIsEnd DEF IsSkipping
<1>2. PICK f : Skips(f, Stop, base, next) /\ f = [i \in Nat |-> f[i]]
  <2> HIDE DEF Stop, next, base
  <2>1. QED
    BY <1>1, SkipsExist
<1>3. \A i \in Nat : f[i] = IF At(i) = "white" THEN f[i + 1] ELSE ValueAt(i)
  BY <1>2 DEF Skips
<1>4. f = [i \in Nat |-> IF At(i) = "white" THEN f[i + 1] ELSE ValueAt(i)]
  <2> HIDE DEF Stop, next, base
  <2>1. QED
    BY <1>2, <1>3
<1>5. IsolateValue =
        [i \in Nat |-> IF At(i) = "white" THEN IsolateValue[i + 1]
                       ELSE ValueAt(i)]
  <2> HIDE DEF Stop, next, base
  <2>1. QED
    BY <1>4 DEF IsolateValue, ValueAt
<1>6. QED
  BY <1>5

\* A string is isolated.
LEMMA StringIsIsolated ==
    ASSUME text \in Seq(Lexemes), NEW i \in Nat, At(i) = Quote,
           NEW e \in Nat, StringEnds(i + 1, e)
    PROVE  IsolateValue[i] = [type |-> "STRING", pos |-> e + 1,
                              val |-> SubSeq(text, i + 1, e - 1)]
<1>1. IsolateValue[i] = ValueAt(i)
  BY IsolateValueIs, QuoteIsNone
<1>2. QED
  BY <1>1 DEF ValueAt, StringEnds

\* So is a word.
LEMMA WordIsIsolated ==
    ASSUME text \in Seq(Lexemes), NEW i \in Nat, At(i) # Quote,
           At(i) \notin Delimiters, At(i + 1) \in Delimiters
    PROVE  IsolateValue[i] = [type |-> "NUMERIC", pos |-> i + 1,
                              val |-> SubSeq(text, i, i)]
<1>1. IsolateValue[i] = ValueAt(i)
  BY IsolateValueIs DEF Delimiters
<1>2. SearchNumericEnd[i] = SearchNumericEnd[i + 1]
  BY SearchNumericEndIs
<1>3. i + 1 \in Nat /\ SearchNumericEnd[i + 1] = i + 1
  BY SearchNumericEndIs
<1>4. i + 1 - 1 = i /\ i + 1 # i
  OBVIOUS
<1>5. QED
  BY <1>1, <1>2, <1>3, <1>4 DEF ValueAt
\* Cuts rise up to the end.
LEMMA CutsRise ==
    ASSUME NEW raw \in Seq(Lexemes), NEW s \in Seq(Lexemes), NEW cut,
           IsCut(raw, s, cut)
    PROVE  /\ \A k \in 0..Len(s) : cut[k] \in Nat /\ cut[k] <= Len(raw)
           /\ \A k \in 1..Len(s) : cut[k] > cut[k - 1]
<1> DEFINE n == Len(s)
           m == Len(raw)
<1>1. n \in Nat /\ m \in Nat
  OBVIOUS
<1>2. /\ cut \in [0..n -> Nat] /\ cut[n] = m
      /\ \A k \in 1..n : cut[k] = cut[k - 1] + 1 \/ cut[k] = cut[k - 1] + 2
  BY DEF IsCut
<1>3. ASSUME NEW a \in 1..n
      PROVE  /\ cut[a] \in Nat /\ cut[a - 1] \in Nat
             /\ cut[a] > cut[a - 1]
  <2>1. a \in 0..n /\ a - 1 \in 0..n
    BY <1>1
  <2>2. cut[a] \in Nat /\ cut[a - 1] \in Nat
    BY <2>1, <1>2
  <2>3. QED
    BY <2>2, <1>2, SMTT(30)
<1> DEFINE S == {j \in Int : cut[n - j] <= m}
<1>4. 0 \in S
  BY <1>1, <1>2
<1>5. ASSUME NEW j \in 0..(n - 1), j \in S PROVE j + 1 \in S
  <2>1. n - j \in 1..n /\ n - (j + 1) = (n - j) - 1
    BY <1>1
  <2>2. /\ cut[n - j] \in Nat /\ cut[(n - j) - 1] \in Nat
        /\ cut[n - j] > cut[(n - j) - 1]
    BY <1>3, <2>1
  <2>3. QED
    BY <1>5, <2>1, <2>2, <1>1
<1>6. \A j \in 0..n : j \in S
  <2> HIDE DEF S, n
  <2>1. 0 \in Int /\ n \in Int
    BY <1>1
  <2>2. QED
    BY <1>4, <1>5, <2>1, Climb, Zenon
<1>7. ASSUME NEW k \in 0..n PROVE cut[k] <= m
  <2>1. n - k \in 0..n /\ n - (n - k) = k
    BY <1>1
  <2>2. QED
    BY <2>1, <1>6
<1>8. QED
  BY <1>2, <1>3, <1>7

\* Nothing stands for the empty string.
LEMMA EmptyEncodes == Encodes(<<>>, <<>>)
<1> DEFINE cut == [k \in 0..0 |-> 0]
<1>1. IsCut(<<>>, <<>>, cut)
  BY DEF IsCut
<1>2. QED
  BY <1>1 DEF Encodes

\* A string goes on with a character, which stands for itself or is escaped.
LEMMA AppendEncodes ==
    ASSUME NEW raw, NEW s, Encodes(raw, s), NEW c \in Lexemes,
           NEW more \in Seq(Lexemes),
           \/ more = <<c>> /\ c \notin {Quote, "\\", "eos"}
           \/ \E d \in Lexemes \ {"eos"} :
                more = <<"\\", d>> /\ EscapedChar(d) = c
    PROVE  Encodes(raw \o more, Append(s, c))
<1>1. PICK cut : IsCut(raw, s, cut)
  BY DEF Encodes
<1>2. raw \in Seq(Lexemes) /\ s \in Seq(Lexemes)
  BY DEF Encodes
<1> DEFINE n == Len(s)
           m == Len(raw)
           both == raw \o more
           s1 == Append(s, c)
           cut1 == [k \in 0..(n + 1) |-> IF k = n + 1 THEN m + Len(more)
                                         ELSE cut[k]]
<1>3. n \in Nat /\ m \in Nat /\ Len(more) \in {1, 2}
  BY <1>2
<1>4. both \in Seq(Lexemes) /\ Len(both) = m + Len(more)
  BY <1>2
<1>5. s1 \in Seq(Lexemes) /\ Len(s1) = n + 1 /\ s1[n + 1] = c
  BY <1>2
<1>6. \A k \in 1..n : s1[k] = s[k]
  BY <1>2
<1>7. /\ \A k \in 1..m : both[k] = raw[k]
      /\ \A k \in 1..Len(more) : both[m + k] = more[k]
  BY <1>2
<1>8. /\ cut \in [0..n -> Nat] /\ cut[0] = 0 /\ cut[n] = m
      /\ \A k \in 1..n :
           \/ /\ cut[k] = cut[k - 1] + 1 /\ raw[cut[k]] = s[k]
              /\ s[k] \notin {Quote, "\\", "eos"}
           \/ /\ cut[k] = cut[k - 1] + 2 /\ raw[cut[k - 1] + 1] = "\\"
              /\ EscapedChar(raw[cut[k]]) = s[k] /\ raw[cut[k]] # "eos"
  BY <1>1 DEF IsCut
<1>10. \A k \in 0..n : cut[k] <= m
  BY <1>1, <1>2, CutsRise
<1>11. cut1 \in [0..(n + 1) -> Nat] /\ cut1[0] = 0 /\ cut1[n + 1] = Len(both)
  BY <1>3, <1>4, <1>8
<1>12. \A k \in 0..n : cut1[k] = cut[k]
  BY <1>3
<1> HIDE DEF cut1, both, s1
<1>13. ASSUME NEW k \in 1..n
       PROVE  \/ /\ cut1[k] = cut1[k - 1] + 1 /\ both[cut1[k]] = s1[k]
                 /\ s1[k] \notin {Quote, "\\", "eos"}
              \/ /\ cut1[k] = cut1[k - 1] + 2 /\ both[cut1[k - 1] + 1] = "\\"
                 /\ EscapedChar(both[cut1[k]]) = s1[k]
                 /\ both[cut1[k]] # "eos"
  <2>1. k \in 0..n /\ k - 1 \in 0..n
    BY <1>3
  <2>2. cut[k] \in Nat /\ cut[k - 1] \in Nat /\ cut[k] <= m
    BY <2>1, <1>8, <1>10
  <2>3. cut1[k] = cut[k] /\ cut1[k - 1] = cut[k - 1] /\ s1[k] = s[k]
    BY <2>1, <1>6, <1>12
  <2>4. cut[k] > cut[k - 1]
    BY <1>8, <2>2, SMTT(30)
  <2>5. /\ both[cut[k]] = raw[cut[k]]
        /\ both[cut[k - 1] + 1] = raw[cut[k - 1] + 1]
    <3>1. cut[k] \in 1..m /\ cut[k - 1] + 1 \in 1..m
      BY <2>2, <2>4, <1>3, SMTT(30)
    <3>2. QED
      BY <1>7, <3>1
  <2>6. QED
    BY <1>8, <2>3, <2>5
<1>14. \/ /\ cut1[n + 1] = cut1[n] + 1 /\ both[cut1[n + 1]] = s1[n + 1]
          /\ s1[n + 1] \notin {Quote, "\\", "eos"}
       \/ /\ cut1[n + 1] = cut1[n] + 2 /\ both[cut1[n] + 1] = "\\"
          /\ EscapedChar(both[cut1[n + 1]]) = s1[n + 1]
          /\ both[cut1[n + 1]] # "eos"
  <2>1. cut1[n] = m
    BY <1>3, <1>8, <1>12
  <2>2. cut1[n + 1] = m + Len(more)
    BY <1>4, <1>11
  <2>3. CASE more = <<c>> /\ c \notin {Quote, "\\", "eos"}
    <3>1. Len(more) = 1 /\ more[1] = c
      BY <2>3
    <3>2. both[m + 1] = c
      BY <1>7, <3>1
    <3>3. QED
      BY <2>1, <2>2, <2>3, <3>1, <3>2, <1>5
  <2>4. CASE \E d \in Lexemes \ {"eos"} :
               more = <<"\\", d>> /\ EscapedChar(d) = c
    <3>1. PICK d \in Lexemes \ {"eos"} :
                 more = <<"\\", d>> /\ EscapedChar(d) = c
      BY <2>4
    <3>2. Len(more) = 2 /\ more[1] = "\\" /\ more[2] = d
      BY <3>1
    <3>3. both[m + 1] = "\\" /\ both[m + 2] = d
      BY <1>7, <3>2
    <3>4. QED
      BY <2>1, <2>2, <3>1, <3>2, <3>3, <1>5
  <2>5. QED
    BY <2>3, <2>4
<1>15. IsCut(both, s1, cut1)
  <2>1. \A k \in 1..(n + 1) : k \in 1..n \/ (k = n + 1 /\ k - 1 = n)
    BY <1>3
  <2> HIDE DEF n
  <2>2. QED
    BY <1>5, <1>11, <1>13, <1>14, <2>1 DEF IsCut
<1>16. QED
  BY <1>4, <1>5, <1>15 DEF Encodes, both, s1
\* What is a sequence over a set is one over a larger set.
LEMMA SeqWidens ==
    ASSUME NEW A, NEW B, NEW s \in Seq(A), \A x \in A : x \in B
    PROVE  s \in Seq(B)
<1>1. /\ Len(s) \in Nat /\ s = [i \in 1..Len(s) |-> s[i]]
      /\ \A i \in 1..Len(s) : s[i] \in A
  OBVIOUS
<1>2. \A i \in 1..Len(s) : s[i] \in B
  BY <1>1
<1>3. s \in [1..Len(s) -> B]
  BY <1>1, <1>2
<1>4. QED
  BY <1>1, <1>3

\* FlattenSeq puts the sequences one behind the other.
LEMMA FlattenIs ==
    ASSUME NEW V, NEW seqs \in Seq(Seq(V))
    PROVE  \E part \in [0..Len(seqs) -> Seq(V)] :
             /\ part[0] = <<>> /\ FlattenSeq(seqs) = part[Len(seqs)]
             /\ \A i \in 1..Len(seqs) : part[i] = part[i - 1] \o seqs[i]
<1> DEFINE n == Len(seqs)
<1>1. n \in Nat /\ \A i \in 1..n : seqs[i] \in Seq(V)
  OBVIOUS
<1>2. CASE n = 0
  <2> DEFINE part == [i \in 0..n |-> <<>>]
  <2>1. seqs = <<>> /\ FlattenSeq(seqs) = <<>>
    BY <1>2 DEF FlattenSeq
  <2>2. /\ part \in [0..n -> Seq(V)] /\ part[0] = <<>>
        /\ FlattenSeq(seqs) = part[n] /\ 1..n = {}
    BY <2>1, <1>2
  <2> HIDE DEF part
  <2>3. QED
    BY <2>2
<1>3. CASE n # 0
  <2> DEFINE step == [x \in (1..n) \X Seq(V) |-> x[2] \o seqs[x[1]]]
  <2>1. 1 \in Int /\ n \in Int /\ 1 <= n /\ seqs[1] \in Seq(V)
    BY <1>1, <1>3
  <2>2. IsStep(step, 1, n, Seq(V))
    <3>1. \A x \in (1..n) \X Seq(V) : x[2] \o seqs[x[1]] \in Seq(V)
      BY <1>1
    <3> HIDE DEF n
    <3>2. QED
      BY <3>1 DEF IsStep
  <2>3. PICK f : Unrolls(f, 1, n, Seq(V), seqs[1], step)
    <3> HIDE DEF n, step
    <3>1. QED
      BY <2>1, <2>2, RecursionExists
  <2>4. /\ f \in [1..n -> Seq(V)]
        /\ \A j \in 1..n : f[j] = IF j = 1 THEN seqs[1]
                                  ELSE step[<<j, f[j - 1]>>]
    BY <2>3 DEF Unrolls
  <2>5. \A j \in 1..n, v \in Seq(V) : step[<<j, v>>] = v \o seqs[j]
    OBVIOUS
  <2> HIDE DEF step
  <2>6. \A j \in 1..n : f[j] = IF j = 1 THEN seqs[j] ELSE f[j - 1] \o seqs[j]
    <3> SUFFICES ASSUME NEW j \in 1..n
                 PROVE  f[j] = IF j = 1 THEN seqs[j] ELSE f[j - 1] \o seqs[j]
      OBVIOUS
    <3>1. j # 1 => j - 1 \in 1..n
      BY <1>1
    <3>2. QED
      BY <3>1, <2>4, <2>5, ZenonT(30)
  <2>7. f = [j \in 1..n |-> IF j = 1 THEN seqs[j] ELSE f[j - 1] \o seqs[j]]
    BY <2>4, <2>6
  <2> DEFINE IsFlat(g) ==
               g = [j \in 1..n |-> IF j = 1 THEN seqs[j] ELSE g[j - 1] \o seqs[j]]
             h == CHOOSE g : IsFlat(g)
  <2>8. IsFlat(h)
    BY <2>7
  <2>9. FlattenSeq(seqs) = h[n]
    BY <1>3 DEF FlattenSeq
  <2> HIDE DEF h
  <2>10. \A j \in 1..n : h[j] = IF j = 1 THEN seqs[j] ELSE h[j - 1] \o seqs[j]
    <3> HIDE DEF n
    <3>1. QED
      BY <2>8
  <2> HIDE DEF IsFlat
  <2> DEFINE part == [j \in 0..n |-> IF j = 0 THEN <<>> ELSE h[j]]
  <2>11. \A j \in 1..n : h[j] \in Seq(V)
    <3> DEFINE S == {j \in Int : h[j] \in Seq(V)}
    <3>1. 1 \in S
      BY <2>1, <2>10
    <3>2. ASSUME NEW j \in 1..(n - 1), j \in S PROVE j + 1 \in S
      <4>1. j + 1 \in 1..n /\ j + 1 # 1 /\ j + 1 - 1 = j
        BY <1>1
      <4>2. \A i \in 1..n : i # 1 /\ i - 1 = j => h[i] = h[j] \o seqs[i]
        <5> HIDE DEF n
        <5>1. QED
          BY <2>10
      <4>3. h[j + 1] = h[j] \o seqs[j + 1]
        <5> HIDE DEF n
        <5>1. PICK i : i = j + 1
          OBVIOUS
        <5>2. i \in 1..n /\ i # 1 /\ i - 1 = j
          BY <4>1, <5>1
        <5>3. h[i] = h[j] \o seqs[i]
          BY <4>2, <5>2
        <5>4. QED
          BY <5>1, <5>3
      <4>4. h[j] \in Seq(V)
        BY <3>2
      <4>5. seqs[j + 1] \in Seq(V)
        <5> HIDE DEF n
        <5>1. QED
          BY <4>1, <1>1
      <4>6. h[j] \o seqs[j + 1] \in Seq(V)
        BY <4>4, <4>5, ConcatProperties
      <4>7. j + 1 \in Int
        OBVIOUS
      <4>8. QED
        BY <4>3, <4>6, <4>7
    <3>3. \A j \in 1..n : j \in S
      <4> HIDE DEF S, n
      <4>1. QED
        BY <2>1, <3>1, <3>2, Climb, Zenon
    <3>4. QED
      BY <3>3
  <2>12. part \in [0..n -> Seq(V)]
    <3>1. \A j \in 0..n : j # 0 => j \in 1..n
      BY <1>1
    <3>2. <<>> \in Seq(V)
      OBVIOUS
    <3> HIDE DEF n
    <3>3. QED
      BY <3>1, <3>2, <2>11
  <2>13. part[0] = <<>> /\ FlattenSeq(seqs) = part[n]
    BY <2>1, <2>9, <1>1
  <2>14. ASSUME NEW j \in 1..n PROVE part[j] = part[j - 1] \o seqs[j]
    <3>1. CASE j = 1
      <4>1. part[1] = seqs[1] /\ part[0] = <<>> /\ seqs[1] \in Seq(V)
        BY <2>1, <2>10, <1>1
      <4>2. part[j] = seqs[j] /\ part[j - 1] = <<>>
        BY <4>1, <3>1
      <4>3. <<>> \o seqs[1] = seqs[1]
        BY <2>1
      <4>4. QED
        BY <4>2, <4>3, <3>1
    <3>2. CASE j # 1
      <4>1. j - 1 \in 1..n /\ j \in 0..n /\ j - 1 \in 0..n
        BY <3>2, <1>1
      <4>2. part[j] = h[j] /\ part[j - 1] = h[j - 1]
        BY <4>1
      <4>3. QED
        BY <4>2, <3>2, <2>10
    <3>3. QED
      BY <3>1, <3>2
  <2> HIDE DEF part
  <2>15. QED
    BY <2>12, <2>13, <2>14
<1>4. QED
  BY <1>2, <1>3

\* A prefix grows by one.
LEMMA PrefixGrows ==
    ASSUME NEW V, NEW s \in Seq(V), NEW k \in 1..Len(s)
    PROVE  SubSeq(s, 1, k) = Append(SubSeq(s, 1, k - 1), s[k])
<1>1. k - 1 \in 0..Len(s) /\ k \in 0..Len(s) /\ Len(s) \in Nat
  OBVIOUS
<1>2. SubSeq(s, 1, k) \in Seq(V) /\ Len(SubSeq(s, 1, k)) = k
  BY <1>1
<1>3. SubSeq(s, 1, k - 1) \in Seq(V) /\ Len(SubSeq(s, 1, k - 1)) = k - 1
  BY <1>1
<1>4. s[k] \in V
  BY <1>1
<1>5. \A j \in 1..k : SubSeq(s, 1, k)[j] = s[j]
  BY <1>1
<1>6. \A j \in 1..(k - 1) : SubSeq(s, 1, k - 1)[j] = s[j]
  BY <1>1
<1> DEFINE a == SubSeq(s, 1, k)
           b == SubSeq(s, 1, k - 1)
<1> HIDE DEF a, b
<1>7. Append(b, s[k]) \in Seq(V) /\ Len(Append(b, s[k])) = k
  BY <1>1, <1>3, <1>4 DEF b
<1>8. \A j \in 1..k : Append(b, s[k])[j] = s[j]
  BY <1>1, <1>3, <1>4, <1>6 DEF b
<1>9. a = Append(b, s[k])
  BY <1>2, <1>5, <1>7, <1>8, SeqEqual DEF a
<1>10. QED
  BY <1>9 DEF a, b

\* Both writers encode a string.
LEMMA EscapeEncodes ==
    ASSUME NEW writer \in {"cstr", "str"}, NEW s \in Strings
    PROVE  Encodes(Escape(writer, s), s)
<1> DEFINE Sign(c) == IF c \in EscapedBy[writer] THEN <<"\\", c>>
                      ELSE IF c = "nl" THEN <<"\\", "n">> ELSE <<c>>
           pieces == [i \in DOMAIN s |-> Sign(s[i])]
           n == Len(s)
<1>1. s \in Seq(Lexemes) /\ \A i \in 1..n : s[i] \in Words \ {"eos", "date"}
  <2>1. \A x \in Words : x \in Lexemes
    BY DEF Lexemes
  <2>2. s \in Seq(Words \ {"eos", "date"})
    BY DEF Strings
  <2> HIDE DEF n
  <2>3. s \in Seq(Lexemes)
    BY <2>1, <2>2, SeqWidens
  <2>4. QED
    BY <2>2, <2>3 DEF n
<1>2. n \in Nat /\ DOMAIN s = 1..n
  BY <1>1
<1>3. /\ EscapedBy[writer] \subseteq Lexemes \ {"eos"}
      /\ Quote \in EscapedBy[writer] /\ "\\" \in EscapedBy[writer]
      /\ "n" \in Lexemes /\ "n" \notin EscapedBy[writer]
  <2>1. \/ EscapedBy[writer] = {Quote, "\\", "/"}
        \/ EscapedBy[writer] = {Quote, "\\", "'"}
    BY DEF EscapedBy
  <2>2. {Quote, "\\", "/", "'", "n"} \subseteq Lexemes
    BY DEF Lexemes
  <2>3. "n" \notin {"\\", "/", "'"} /\ "eos" \notin {"\\", "/", "'"}
    OBVIOUS
  <2>4. Quote # "eos" /\ Quote # "n"
    BY QuoteIsNone
  <2>5. QED
    BY <2>1, <2>2, <2>3, <2>4, Zenon
<1>4. \A c \in EscapedBy[writer] : c # "n"
  BY <1>3
<1>5. ASSUME NEW c \in Lexemes \ {"eos"}
      PROVE  /\ Sign(c) \in Seq(Lexemes)
             /\ \/ Sign(c) = <<c>> /\ c \notin {Quote, "\\", "eos"}
                \/ \E d \in Lexemes \ {"eos"} :
                     Sign(c) = <<"\\", d>> /\ EscapedChar(d) = c
  <2>1. CASE c \in EscapedBy[writer]
    <3>1. EscapedChar(c) = c
      BY <2>1, <1>4 DEF EscapedChar
    <3>2. QED
      BY <2>1, <3>1, <1>3
  <2>2. CASE c \notin EscapedBy[writer] /\ c = "nl"
    <3>1. EscapedChar("n") = c
      BY <2>2 DEF EscapedChar
    <3>2. "n" \in Lexemes \ {"eos"} /\ "\\" \in Lexemes
      BY <1>3 DEF Lexemes
    <3>3. QED
      BY <2>2, <3>1, <3>2
  <2>3. CASE c \notin EscapedBy[writer] /\ c # "nl"
    BY <2>3, <1>3
  <2>4. QED
    BY <2>1, <2>2, <2>3
<1> HIDE DEF Sign
<1>6. Escape(writer, s) = FlattenSeq(pieces)
  BY DEF Escape, Sign
<1>7. pieces \in Seq(Seq(Lexemes)) /\ Len(pieces) = n
  <2>1. \A i \in 1..n : Sign(s[i]) \in Seq(Lexemes)
    BY <1>1, <1>5 DEF Lexemes
  <2> HIDE DEF n
  <2>2. QED
    BY <2>1, <1>2
<1>8. \A i \in 1..n : pieces[i] = Sign(s[i])
  BY <1>2
<1> HIDE DEF pieces
<1>9. PICK part \in [0..n -> Seq(Lexemes)] :
        /\ part[0] = <<>> /\ FlattenSeq(pieces) = part[n]
        /\ \A i \in 1..n : part[i] = part[i - 1] \o pieces[i]
  <2> HIDE DEF n
  <2>1. QED
    BY <1>7, FlattenIs
<1> DEFINE S == {k \in Int : Encodes(part[k], SubSeq(s, 1, k))}
<1>10. 0 \in S
  <2>1. SubSeq(s, 1, 0) = <<>> /\ 0 \in Int
    BY <1>1
  <2>2. Encodes(part[0], SubSeq(s, 1, 0))
    BY <2>1, <1>9, EmptyEncodes, Zenon
  <2>3. QED
    BY <2>1, <2>2
<1>11. ASSUME NEW k \in 0..(n - 1), k \in S PROVE k + 1 \in S
  <2>1. k + 1 \in 1..n /\ k + 1 - 1 = k
    BY <1>2
  <2>2. part[k + 1] = part[k] \o Sign(s[k + 1])
    <3> HIDE DEF n
    <3>1. \A i \in 1..n : part[i] = part[i - 1] \o Sign(s[i])
      BY <1>8, <1>9
    <3>2. \A i \in 1..n : i - 1 = k => part[i] = part[k] \o Sign(s[i])
      BY <3>1
    <3>3. PICK i : i = k + 1
      OBVIOUS
    <3>4. i \in 1..n /\ i - 1 = k
      BY <2>1, <3>3
    <3>5. part[i] = part[k] \o Sign(s[i])
      BY <3>2, <3>4
    <3>6. QED
      BY <3>3, <3>5
  <2>3. SubSeq(s, 1, k + 1) = Append(SubSeq(s, 1, k), s[k + 1])
    BY <1>1, <2>1, PrefixGrows
  <2>4. s[k + 1] \in Lexemes /\ s[k + 1] # "eos"
    BY <1>1, <2>1 DEF Lexemes
  <2>5. Encodes(part[k], SubSeq(s, 1, k))
    BY <1>11
  <2>6. Encodes(part[k] \o Sign(s[k + 1]), Append(SubSeq(s, 1, k), s[k + 1]))
    BY <2>4, <2>5, <1>5, AppendEncodes
  <2>7. k + 1 \in Int
    OBVIOUS
  <2>8. Encodes(part[k + 1], SubSeq(s, 1, k + 1))
    BY <2>2, <2>3, <2>6, Zenon
  <2>9. QED
    BY <2>7, <2>8
<1>12. \A k \in 0..n : k \in S
  <2> HIDE DEF S, n
  <2>1. 0 \in Int /\ n \in Int
    BY <1>2
  <2>2. QED
    BY <1>10, <1>11, <2>1, Climb, Zenon
<1>13. Encodes(part[n], SubSeq(s, 1, n))
  BY <1>2, <1>12
<1>14. SubSeq(s, 1, n) = s
  BY <1>1, <1>2
<1>15. QED
  BY <1>6, <1>9, <1>13, <1>14
\* What UnescapeString does.
LEMMA UnescapeUnrolls ==
    ASSUME NEW raw, Len(raw) \in Nat
    PROVE  \E from :
             /\ UnescapeString(raw) = from[1]
             /\ \A i \in Nat :
                  from[i] =
                    IF i > Len(raw) THEN <<>>
                    ELSE IF raw[i] = "\\" /\ i < Len(raw)
                         THEN <<EscapedChar(raw[i + 1])>> \o from[i + 2]
                         ELSE <<raw[i]>> \o from[i + 1]
<1> DEFINE W == {raw[i] : i \in Nat} \cup {EscapedChar(raw[i]) : i \in Nat}
           n == Len(raw)
           Stop == {i \in Nat : i > n}
           base == [i \in Nat |-> <<>>]
           pair(i) == raw[i] = "\\" /\ i < n
           next == [i \in Nat |-> IF pair(i) THEN i + 2 ELSE i + 1]
           head(i) == IF pair(i) THEN EscapedChar(raw[i + 1]) ELSE raw[i]
           step == [x \in Nat \X Seq(W) |-> <<head(x[1])>> \o x[2]]
<1>1. \A i \in Nat : raw[i] \in W /\ EscapedChar(raw[i]) \in W
  OBVIOUS
<1>2. \A i \in Nat : head(i) \in W
  <2> HIDE DEF W
  <2>1. QED
    BY <1>1
<1> HIDE DEF head, W
<1>3. \A x \in Nat \X Seq(W) : <<head(x[1])>> \o x[2] \in Seq(W)
  BY <1>2
<1>4. step \in [Nat \X Seq(W) -> Seq(W)]
  BY <1>3
<1>5. base \in [Nat -> Seq(W)] /\ next \in [Nat -> Nat]
  OBVIOUS
<1>6. \A i \in Nat : i > n => i \in Stop
  OBVIOUS
<1>7. \A i \in Nat : next[i] > i
  OBVIOUS
<1>8. IsJumping(n, Seq(W), Stop, base, next, step)
  <2> HIDE DEF n, Stop, base, next, step
  <2>1. QED
    BY <1>4, <1>5, <1>6, <1>7 DEF IsJumping, n
<1>9. PICK f : Jumps(f, Seq(W), Stop, base, next, step)
  <2> HIDE DEF n, Stop, base, next, step
  <2>1. QED
    BY <1>8, JumpsExist
<1>10. f \in [Nat -> Seq(W)]
  BY <1>9 DEF Jumps
<1>11. \A i \in Nat, v \in Seq(W) : step[<<i, v>>] = <<head(i)>> \o v
  OBVIOUS
<1>12. \A i \in Nat : f[i] = IF i \in Stop THEN base[i]
                             ELSE step[<<i, f[next[i]]>>]
  BY <1>9 DEF Jumps
<1>13. \A i \in Nat : f[i] = IF i > n THEN <<>>
                             ELSE IF pair(i)
                             THEN <<EscapedChar(raw[i + 1])>> \o f[i + 2]
                             ELSE <<raw[i]>> \o f[i + 1]
  <2> SUFFICES ASSUME NEW i \in Nat
               PROVE  f[i] = IF i > n THEN <<>>
                             ELSE IF pair(i)
                             THEN <<EscapedChar(raw[i + 1])>> \o f[i + 2]
                             ELSE <<raw[i]>> \o f[i + 1]
    OBVIOUS
  <2> HIDE DEF n, step
  <2>1. /\ i \in Stop <=> i > n
        /\ base[i] = <<>>
        /\ next[i] = IF pair(i) THEN i + 2 ELSE i + 1
    OBVIOUS
  <2> HIDE DEF pair, next, Stop, base
  <2>2. step[<<i, f[next[i]]>>] = <<head(i)>> \o f[next[i]]
    BY <1>5, <1>10, <1>11
  <2>3. f[i] = IF i > n THEN <<>> ELSE <<head(i)>> \o f[next[i]]
    BY <1>12, <2>1, <2>2, Zenon
  <2>4. CASE pair(i)
    BY <2>4, <2>1, <2>3 DEF head
  <2>5. CASE ~pair(i)
    BY <2>5, <2>1, <2>3 DEF head
  <2>6. QED
    BY <2>4, <2>5
<1> DEFINE IsFrom(from) ==
             from = [i \in Nat |->
                       IF i > n THEN <<>>
                       ELSE IF pair(i)
                       THEN <<EscapedChar(raw[i + 1])>> \o from[i + 2]
                       ELSE <<raw[i]>> \o from[i + 1]]
           from1 == CHOOSE from : IsFrom(from)
<1>14. IsFrom(f)
  <2> HIDE DEF n, pair
  <2>1. QED
    BY <1>10, <1>13
<1>15. IsFrom(from1)
  <2> HIDE DEF IsFrom
  <2>1. QED
    BY <1>14
<1>16. UnescapeString(raw) = from1[1]
  BY DEF UnescapeString
<1> HIDE DEF from1
<1>17. QED
  BY <1>15, <1>16, ZenonT(30)

\* A suffix grows by one.
LEMMA SuffixGrows ==
    ASSUME NEW V, NEW s \in Seq(V), NEW k \in 1..Len(s)
    PROVE  SubSeq(s, k, Len(s)) = <<s[k]>> \o SubSeq(s, k + 1, Len(s))
<1> DEFINE n == Len(s)
           a == SubSeq(s, k, n)
           b == SubSeq(s, k + 1, n)
<1>1. n \in Nat /\ k \in Nat /\ k >= 1 /\ k <= n /\ s[k] \in V
  OBVIOUS
<1>2. a \in Seq(V) /\ Len(a) = n - k + 1 /\ \A j \in 1..(n - k + 1) : a[j] = s[k + j - 1]
  BY <1>1
<1>3. b \in Seq(V) /\ Len(b) = n - k /\ \A j \in 1..(n - k) : b[j] = s[k + 1 + j - 1]
  BY <1>1
<1> HIDE DEF a, b, n
<1>4. <<s[k]>> \o b \in Seq(V) /\ Len(<<s[k]>> \o b) = n - k + 1
  BY <1>1, <1>3
<1>5. ASSUME NEW j \in 1..(n - k + 1) PROVE (<<s[k]>> \o b)[j] = a[j]
  <2>1. CASE j = 1
    BY <2>1, <1>1, <1>2, <1>3
  <2>2. CASE j # 1
    <3>1. j - 1 \in 1..(n - k) /\ k + 1 + (j - 1) - 1 = k + j - 1
      BY <2>2, <1>1
    <3>2. b[j - 1] = s[k + j - 1]
      BY <3>1, <1>3
    <3>3. (<<s[k]>> \o b)[j] = b[j - 1]
      BY <2>2, <1>1, <1>3
    <3>4. QED
      BY <3>2, <3>3, <1>2
  <2>3. QED
    BY <2>1, <2>2
<1>6. a = <<s[k]>> \o b
  BY <1>2, <1>4, <1>5, SeqEqual
<1>7. QED
  BY <1>6 DEF a, b, n

\* Unescaping the raw characters of a string gives the string.
LEMMA UnescapeIs ==
    ASSUME NEW raw, NEW s, Encodes(raw, s)
    PROVE  UnescapeString(raw) = s
<1>1. PICK cut : IsCut(raw, s, cut)
  BY DEF Encodes
<1>2. raw \in Seq(Lexemes) /\ s \in Seq(Lexemes)
  BY DEF Encodes
<1> DEFINE n == Len(s)
           m == Len(raw)
<1>3. n \in Nat /\ m \in Nat
  BY <1>2
<1>4. PICK from :
        /\ UnescapeString(raw) = from[1]
        /\ \A i \in Nat :
             from[i] = IF i > m THEN <<>>
                       ELSE IF raw[i] = "\\" /\ i < m
                            THEN <<EscapedChar(raw[i + 1])>> \o from[i + 2]
                            ELSE <<raw[i]>> \o from[i + 1]
  BY <1>3, UnescapeUnrolls
<1>5. /\ \A k \in 0..n : cut[k] \in Nat /\ cut[k] <= m
      /\ \A k \in 1..n : cut[k] > cut[k - 1]
  BY <1>1, <1>2, CutsRise
<1>6. /\ cut[0] = 0 /\ cut[n] = m
      /\ \A k \in 1..n :
           \/ /\ cut[k] = cut[k - 1] + 1 /\ raw[cut[k]] = s[k]
              /\ s[k] \notin {Quote, "\\", "eos"}
           \/ /\ cut[k] = cut[k - 1] + 2 /\ raw[cut[k - 1] + 1] = "\\"
              /\ EscapedChar(raw[cut[k]]) = s[k] /\ raw[cut[k]] # "eos"
  BY <1>1 DEF IsCut
<1> DEFINE S == {j \in Int : from[cut[n - j] + 1] = SubSeq(s, n - j + 1, n)}
<1> HIDE DEF m
<1>7. 0 \in S
  <2>1. n - 0 = n /\ m + 1 \in Nat /\ m + 1 > m
    BY <1>3
  <2>2. from[m + 1] = <<>>
    BY <1>4, <2>1
  <2>3. SubSeq(s, n + 1, n) = <<>>
    BY <1>2, <1>3
  <2>4. from[cut[n - 0] + 1] = SubSeq(s, n - 0 + 1, n)
    BY <2>1, <2>2, <2>3, <1>6
  <2>5. 0 \in Int
    OBVIOUS
  <2>6. QED
    BY <2>4, <2>5
<1>8. ASSUME NEW j \in 0..(n - 1), j \in S PROVE j + 1 \in S
  <2>1. PICK k : k = n - j
    OBVIOUS
  <2>2. k \in 1..n /\ n - (j + 1) = k - 1 /\ k - 1 \in 0..n /\ k \in 0..n
    BY <2>1, <1>3
  <2>3. from[cut[k] + 1] = SubSeq(s, k + 1, n)
    BY <1>8, <2>1
  <2>4. SubSeq(s, k, n) = <<s[k]>> \o SubSeq(s, k + 1, n)
    BY <1>2, <2>2, SuffixGrows
  <2>5. PICK i : i = cut[k - 1] + 1
    OBVIOUS
  <2>6. i \in Nat /\ cut[k] \in Nat /\ cut[k] <= m /\ ~(i > m)
    BY <1>3, <1>5, <2>2, <2>5, SMTT(30)
  <2>7. from[i] = IF raw[i] = "\\" /\ i < m
                  THEN <<EscapedChar(raw[i + 1])>> \o from[i + 2]
                  ELSE <<raw[i]>> \o from[i + 1]
    BY <1>4, <2>6
  <2>8. from[i] = <<s[k]>> \o from[cut[k] + 1]
    <3>1. CASE /\ cut[k] = cut[k - 1] + 1 /\ raw[cut[k]] = s[k]
               /\ s[k] \notin {Quote, "\\", "eos"}
      BY <3>1, <2>5, <2>7
    <3>2. CASE /\ cut[k] = cut[k - 1] + 2 /\ raw[cut[k - 1] + 1] = "\\"
               /\ EscapedChar(raw[cut[k]]) = s[k] /\ raw[cut[k]] # "eos"
      <4>1. cut[k - 1] \in Nat
        BY <1>5, <2>2
      <4>2. cut[k] = i + 1 /\ i < m /\ i + 2 = cut[k] + 1
        BY <3>2, <4>1, <2>5, <2>6, <1>3, SMTT(30)
      <4>3. QED
        BY <3>2, <4>2, <2>5, <2>7
    <3>3. QED
      BY <1>6, <2>2, <3>1, <3>2
  <2>9. from[cut[k - 1] + 1] = SubSeq(s, k - 1 + 1, n) /\ j + 1 \in Int
    BY <2>3, <2>4, <2>5, <2>8, <2>2
  <2>10. from[cut[n - (j + 1)] + 1] = SubSeq(s, n - (j + 1) + 1, n)
    BY <2>2, <2>9
  <2>11. QED
    BY <2>9, <2>10
<1>9. \A j \in 0..n : j \in S
  <2> HIDE DEF S, n
  <2>1. 0 \in Int /\ n \in Int
    BY <1>3
  <2>2. QED
    BY <1>7, <1>8, <2>1, Climb, Zenon
<1>10. n \in S /\ n - n = 0 /\ 0 + 1 = 1
  BY <1>3, <1>9
<1>11. from[1] = SubSeq(s, 1, n)
  BY <1>6, <1>10
<1>12. SubSeq(s, 1, n) = s
  BY <1>2, <1>3
<1>13. QED
  BY <1>4, <1>11, <1>12
\* Of two pieces one stands behind the other.
LEMMA StandsBoth ==
    ASSUME NEW d \in Seq(Lexemes), NEW p \in Seq(Lexemes),
           NEW q \in Seq(Lexemes), NEW a \in Nat, Stands(d, p \o q, a)
    PROVE  Stands(d, p, a) /\ Stands(d, q, a + Len(p))
<1>1. /\ Len(p) \in Nat /\ Len(q) \in Nat /\ Len(d) \in Nat
      /\ Len(p \o q) = Len(p) + Len(q)
  OBVIOUS
<1>2. /\ \A j \in 1..Len(p) : (p \o q)[j] = p[j]
      /\ \A j \in 1..Len(q) : (p \o q)[Len(p) + j] = q[j]
  OBVIOUS
<1> DEFINE pq == p \o q
<1>3. a + Len(pq) <= Len(d) /\ \A j \in 1..Len(pq) : d[a + j] = pq[j]
  BY DEF Stands
<1> HIDE DEF pq
<1>4. Stands(d, p, a)
  <2>1. \A j \in 1..Len(p) : j \in 1..Len(pq) /\ pq[j] = p[j]
    BY <1>1, <1>2 DEF pq
  <2>2. a + Len(p) <= Len(d)
    BY <1>1, <1>3 DEF pq
  <2>3. QED
    BY <1>3, <2>1, <2>2 DEF Stands
<1>5. Stands(d, q, a + Len(p))
  <2>1. ASSUME NEW j \in 1..Len(q) PROVE d[(a + Len(p)) + j] = q[j]
    <3>1. Len(p) + j \in 1..Len(pq) /\ a + (Len(p) + j) = (a + Len(p)) + j
      BY <1>1 DEF pq
    <3>2. pq[Len(p) + j] = q[j]
      BY <1>2 DEF pq
    <3>3. QED
      BY <1>3, <3>1, <3>2
  <2>2. (a + Len(p)) + Len(q) <= Len(d)
    BY <1>1, <1>3 DEF pq
  <2>3. QED
    BY <2>1, <2>2 DEF Stands
<1>6. QED
  BY <1>4, <1>5

\* It stays where it is when the text goes on.
LEMMA StandsOn ==
    ASSUME NEW d \in Seq(Lexemes), NEW p \in Seq(Lexemes),
           NEW q \in Seq(Lexemes), NEW a \in Nat, Stands(d, p, a)
    PROVE  Stands(d \o q, p, a)
<1>1. /\ Len(p) \in Nat /\ Len(q) \in Nat /\ Len(d) \in Nat
      /\ Len(d \o q) = Len(d) + Len(q)
  OBVIOUS
<1>2. \A j \in 1..Len(d) : (d \o q)[j] = d[j]
  OBVIOUS
<1>3. ASSUME NEW j \in 1..Len(p) PROVE (d \o q)[a + j] = p[j]
  <2>1. a + j \in 1..Len(d) /\ d[a + j] = p[j]
    BY <1>1 DEF Stands
  <2>2. QED
    BY <2>1, <1>2
<1>4. a + Len(p) <= Len(d \o q)
  BY <1>1 DEF Stands
<1>5. QED
  BY <1>3, <1>4 DEF Stands

\* What is appended stands behind what was there.
LEMMA StandsBehind ==
    ASSUME NEW d \in Seq(Lexemes), NEW p \in Seq(Lexemes)
    PROVE  Stands(d \o p, p, Len(d))
  BY DEF Stands

\* The piece can be cut out of the text.
LEMMA StandsIs ==
    ASSUME NEW d \in Seq(Lexemes), NEW p \in Seq(Lexemes), NEW a \in Nat,
           Stands(d, p, a)
    PROVE  SubSeq(d, a + 1, a + Len(p)) = p
<1>1. Len(p) \in Nat /\ Len(d) \in Nat /\ a + Len(p) <= Len(d)
  BY DEF Stands
<1> DEFINE x == SubSeq(d, a + 1, a + Len(p))
<1>2. x \in Seq(Lexemes) /\ Len(x) = Len(p)
  BY <1>1
<1>3. ASSUME NEW j \in 1..Len(p) PROVE x[j] = p[j]
  <2>1. x[j] = d[a + 1 + j - 1] /\ a + 1 + j - 1 = a + j
    BY <1>1
  <2>2. QED
    BY <2>1 DEF Stands
<1> HIDE DEF x
<1>4. x = p
  BY <1>2, <1>3, SeqEqual
<1>5. QED
  BY <1>4 DEF x

\* The parser looks at it.
LEMMA StandsAt ==
    ASSUME text \in Seq(Lexemes), NEW p \in Seq(Lexemes), NEW a \in Nat,
           Stands(text, p, a)
    PROVE  \A j \in 1..Len(p) : At(a + j) = p[j]
<1>1. Len(p) \in Nat /\ Len(text) \in Nat /\ a + Len(p) <= Len(text)
  BY DEF Stands
<1>2. \A j \in 1..Len(p) : a + j <= Len(text)
  BY <1>1
<1>3. QED
  BY <1>2 DEF At, Stands

\* A string in quotes: its end is found, its raw characters are cut out.
LEMMA StringIsFound ==
    ASSUME text \in Seq(Lexemes), NEW raw, NEW s, Encodes(raw, s),
           NEW a \in Nat, Stands(text, <<Quote>> \o (raw \o <<Quote>>), a)
    PROVE  /\ At(a + 1) = Quote
           /\ StringEnds(a + 2, a + 2 + Len(raw))
           /\ SubSeq(text, a + 2, a + 1 + Len(raw)) = raw
<1> DEFINE m == Len(raw)
           n == Len(s)
<1>1. raw \in Seq(Lexemes) /\ s \in Seq(Lexemes) /\ Quote \in Lexemes
  BY DEF Encodes, Lexemes
<1>2. m \in Nat /\ n \in Nat
  BY <1>1
<1>3. <<Quote>> \in Seq(Lexemes) /\ raw \o <<Quote>> \in Seq(Lexemes)
  BY <1>1
<1>4. /\ Stands(text, <<Quote>>, a)
      /\ Stands(text, raw \o <<Quote>>, a + Len(<<Quote>>))
  BY <1>3, StandsBoth
<1>5. a + Len(<<Quote>>) = a + 1 /\ a + 1 \in Nat
  OBVIOUS
<1>6. /\ Stands(text, raw, a + 1)
      /\ Stands(text, <<Quote>>, a + 1 + m)
  BY <1>1, <1>3, <1>4, <1>5, StandsBoth
<1>7. At(a + 1) = Quote
  <2>1. \A j \in 1..Len(<<Quote>>) : At(a + j) = <<Quote>>[j]
    BY <1>3, <1>4, StandsAt
  <2>2. 1 \in 1..Len(<<Quote>>) /\ <<Quote>>[1] = Quote
    OBVIOUS
  <2>3. QED
    BY <2>1, <2>2
<1>8. At(a + 2 + m) = Quote
  <2>1. \A j \in 1..Len(<<Quote>>) : At((a + 1 + m) + j) = <<Quote>>[j]
    <3>1. a + 1 + m \in Nat
      BY <1>2
    <3>2. QED
      BY <3>1, <1>3, <1>6, StandsAt
  <2>2. 1 \in 1..Len(<<Quote>>) /\ <<Quote>>[1] = Quote
    OBVIOUS
  <2>3. (a + 1 + m) + 1 = a + 2 + m
    BY <1>2
  <2>4. QED
    BY <2>1, <2>2, <2>3
<1>9. \A j \in 1..m : At((a + 1) + j) = raw[j]
  BY <1>1, <1>5, <1>6, StandsAt
<1>10. SubSeq(text, a + 2, a + 1 + m) = raw
  <2>1. SubSeq(text, (a + 1) + 1, (a + 1) + m) = raw
    BY <1>1, <1>5, <1>6, StandsIs
  <2>2. (a + 1) + 1 = a + 2
    OBVIOUS
  <2>3. QED
    BY <2>1, <2>2
<1>11. PICK cut : IsCut(raw, s, cut)
  BY DEF Encodes
<1>12. /\ \A k \in 0..n : cut[k] \in Nat /\ cut[k] <= m
       /\ \A k \in 1..n : cut[k] > cut[k - 1]
  BY <1>1, <1>11, CutsRise
<1>13. /\ cut[0] = 0 /\ cut[n] = m
       /\ \A k \in 1..n :
            \/ /\ cut[k] = cut[k - 1] + 1 /\ raw[cut[k]] = s[k]
               /\ s[k] \notin {Quote, "\\", "eos"}
            \/ /\ cut[k] = cut[k - 1] + 2 /\ raw[cut[k - 1] + 1] = "\\"
               /\ EscapedChar(raw[cut[k]]) = s[k] /\ raw[cut[k]] # "eos"
  BY <1>11 DEF IsCut
<1> DEFINE e == a + 2 + m
           S == {j \in Int : SearchStringEnd[a + 2 + cut[n - j]] = e}
<1> HIDE DEF m
<1>14. 0 \in S
  <2>1. n - 0 = n /\ e \in Nat
    BY <1>2
  <2>2. SearchStringEnd[e] = e
    BY <2>1, <1>8, SearchStringEndIs
  <2>3. SearchStringEnd[a + 2 + cut[n - 0]] = e
    BY <2>1, <2>2, <1>13
  <2>4. 0 \in Int
    OBVIOUS
  <2>5. QED
    BY <2>3, <2>4
<1>15. ASSUME NEW j \in 0..(n - 1), j \in S PROVE j + 1 \in S
  <2>1. PICK k : k = n - j
    OBVIOUS
  <2>2. k \in 1..n /\ n - (j + 1) = k - 1 /\ k - 1 \in 0..n /\ k \in 0..n
    BY <2>1, <1>2
  <2>3. /\ cut[k] \in Nat /\ cut[k - 1] \in Nat /\ cut[k] <= m
        /\ cut[k] > cut[k - 1]
    BY <2>2, <1>12
  <2>4. PICK i : i = a + 2 + cut[k - 1]
    OBVIOUS
  <2>5. i \in Nat /\ i + 1 \in Nat
    BY <2>3, <2>4, SMTT(30)
  <2>6. At(i) = raw[cut[k - 1] + 1]
    <3>1. cut[k - 1] + 1 \in 1..m
      BY <2>3, <1>2
    <3>2. (a + 1) + (cut[k - 1] + 1) = i
      BY <2>3, <2>4, SMTT(30)
    <3>3. QED
      BY <3>1, <3>2, <1>9
  <2>7. SearchStringEnd[i] =
          IF At(i) \in {Quote, "eos"} THEN i
          ELSE IF At(i) = "\\" /\ At(i + 1) # "eos"
               THEN SearchStringEnd[i + 2] ELSE SearchStringEnd[i + 1]
    BY <2>5, SearchStringEndIs
  <2>8. SearchStringEnd[i] = SearchStringEnd[a + 2 + cut[k]]
    <3>1. CASE /\ cut[k] = cut[k - 1] + 1 /\ raw[cut[k]] = s[k]
               /\ s[k] \notin {Quote, "\\", "eos"}
      <4>1. i + 1 = a + 2 + cut[k]
        BY <3>1, <2>3, <2>4
      <4>2. QED
        BY <3>1, <4>1, <2>6, <2>7
    <3>2. CASE /\ cut[k] = cut[k - 1] + 2 /\ raw[cut[k - 1] + 1] = "\\"
               /\ EscapedChar(raw[cut[k]]) = s[k] /\ raw[cut[k]] # "eos"
      <4>0. PICK c \in Nat : c = cut[k - 1]
        BY <2>3
      <4>6. cut[k] = c + 2 /\ i = a + 2 + c
        BY <3>2, <2>4, <4>0
      <4>1. i + 2 = a + 2 + cut[k] /\ (a + 1) + cut[k] = i + 1
        BY <4>6
      <4>2. cut[k] \in 1..m
        BY <2>3, <1>2
      <4>3. At(i + 1) # "eos"
        BY <3>2, <4>1, <4>2, <1>9
      <4>4. At(i) = "\\"
        BY <3>2, <2>6
      <4>5. QED
        BY <4>1, <4>3, <4>4, <2>7, QuoteIsNone
    <3>3. QED
      BY <1>13, <2>2, <3>1, <3>2
  <2>9. SearchStringEnd[a + 2 + cut[k]] = e
    BY <1>15, <2>1
  <2>10. SearchStringEnd[a + 2 + cut[n - (j + 1)]] = e /\ j + 1 \in Int
    BY <2>2, <2>4, <2>8, <2>9, SMTT(30)
  <2>11. QED
    BY <2>10
<1>16. \A j \in 0..n : j \in S
  <2> HIDE DEF S, n
  <2>1. 0 \in Int /\ n \in Int
    BY <1>2
  <2>2. QED
    BY <1>14, <1>15, <2>1, Climb, Zenon
<1>17. n \in S /\ n - n = 0
  BY <1>2, <1>16
<1>18. a + 2 + cut[0] = a + 2
  BY <1>13
<1>19. SearchStringEnd[a + 2] = e /\ e \in Nat
  BY <1>2, <1>17, <1>18
<1>20. QED
  BY <1>7, <1>8, <1>10, <1>19 DEF StringEnds, m
-----------------------------------------------------------------------------
(* A text as the items in it.                                               *)

\* What is written is made of lexemes.
LEMMA QuotedIs ==
    ASSUME NEW writer \in {"cstr", "str"}, NEW s \in Strings
    PROVE  /\ Encodes(Escape(writer, s), s)
           /\ Escape(writer, s) \in Seq(Lexemes)
           /\ Quoted(writer, s) = <<Quote>> \o (Escape(writer, s) \o <<Quote>>)
           /\ Quoted(writer, s) \in Seq(Lexemes)
<1>1. Encodes(Escape(writer, s), s)
  BY EscapeEncodes
<1>2. Escape(writer, s) \in Seq(Lexemes) /\ <<Quote>> \in Seq(Lexemes)
  <2>1. Quote \in Lexemes
    BY DEF Lexemes
  <2>2. QED
    BY <1>1, <2>1 DEF Encodes
<1> DEFINE e == Escape(writer, s)
<1> HIDE DEF e
<1>3. /\ <<Quote>> \o e \o <<Quote>> = <<Quote>> \o (e \o <<Quote>>)
      /\ <<Quote>> \o (e \o <<Quote>>) \in Seq(Lexemes)
  BY <1>2 DEF e
<1>4. QED
  BY <1>1, <1>2, <1>3 DEF Quoted, e

\* A value is written with lexemes.
LEMMA WordIs ==
    ASSUME NEW v \in Values
    PROVE  Word(v) \in Seq(Lexemes)
<1>0. /\ v[1] \in {"cstr", "str"} => v[2] \in Strings
      /\ v[1] \notin {"cstr", "str", "date"} =>
           v[2] \in Words \cup {"true", "false", "5.5", "nan", "inf"}
      /\ v[1] = "date" => v[2] = "date"
  BY DEF Values, Whole
<1>1. CASE v[1] = "double" /\ v[2] \in {"nan", "inf"}
  <2>1. Word(v) = <<"null">> /\ "null" \in Lexemes
    BY <1>1 DEF Word, Lexemes
  <2>2. QED
    BY <2>1
<1>2. CASE v[1] \in {"cstr", "str"}
  <2>1. Word(v) = Quoted(v[1], v[2])
    BY <1>2 DEF Word
  <2>2. QED
    BY <2>1, <1>0, <1>2, QuotedIs
<1>3. CASE v[1] = "date"
  <2>1. Word(v) = <<Quote, "\\", Quote, "date", "\\", Quote, Quote>>
    BY <1>0, <1>3 DEF Word
  <2>2. Quote \in Lexemes /\ "\\" \in Lexemes /\ "date" \in Lexemes
    BY DEF Lexemes
  <2>3. QED
    BY <2>1, <2>2
<1>4. CASE /\ ~(v[1] = "double" /\ v[2] \in {"nan", "inf"})
           /\ v[1] \notin {"cstr", "str", "date"}
  <2>1. Word(v) = <<v[2]>>
    BY <1>4 DEF Word
  <2>2. v[2] \in Lexemes
    BY <1>0, <1>4 DEF Lexemes
  <2>3. QED
    BY <2>1, <2>2
<1>5. QED
  BY <1>1, <1>2, <1>3, <1>4

\* One lexeme is a text.
LEMMA SingleIs ==
    ASSUME NEW x \in Lexemes PROVE <<x>> \in Seq(Lexemes) /\ Len(<<x>>) = 1
  OBVIOUS

\* What an item adds to a text is made of lexemes, and is not empty.
LEMMA PieceIs ==
    ASSUME NEW item \in Items, NEW inObject \in BOOLEAN, NEW c \in BOOLEAN
    PROVE  /\ Label(item, inObject) \in Seq(Lexemes)
           /\ item.t # "END" => Body(item) \in Seq(Lexemes)
           /\ Piece(item, inObject) \in Seq(Lexemes)
           /\ Comma(c) \in Seq(Lexemes)
           /\ WithComma(c, item, inObject) \in Seq(Lexemes)
           /\ Len(WithComma(c, item, inObject)) >= 1
<1>0. /\ item.t \in ItemTypes /\ item.name \in Strings
      /\ item.t = "VALUE" => item.v \in Values
  BY DEF Items
<1>1. /\ ":" \in Lexemes /\ "[" \in Lexemes /\ "{" \in Lexemes
      /\ "}" \in Lexemes /\ "]" \in Lexemes /\ "," \in Lexemes
  BY DEF Lexemes
<1>2. /\ <<":">> \in Seq(Lexemes) /\ <<"[">> \in Seq(Lexemes)
      /\ <<"{">> \in Seq(Lexemes) /\ <<"}">> \in Seq(Lexemes)
      /\ <<"]">> \in Seq(Lexemes) /\ <<",">> \in Seq(Lexemes)
  BY <1>1, SingleIs, Zenon
<1>8. Comma(c) \in Seq(Lexemes)
  <2>1. Comma(c) = <<",">> \/ Comma(c) = <<>>
    BY DEF Comma
  <2>2. <<>> \in Seq(Lexemes)
    OBVIOUS
  <2>3. QED
    BY <2>1, <2>2, <1>2, Zenon
<1>3. Label(item, inObject) \in Seq(Lexemes)
  <2>1. Quoted("cstr", item.name) \in Seq(Lexemes)
    BY <1>0, QuotedIs
  <2>2. Label(item, inObject) = Quoted("cstr", item.name) \o <<":">>
        \/ Label(item, inObject) = <<>>
    BY DEF Label
  <2>3. Quoted("cstr", item.name) \o <<":">> \in Seq(Lexemes)
    BY <2>1, <1>2, ConcatProperties, Zenon
  <2>4. <<>> \in Seq(Lexemes)
    OBVIOUS
  <2>5. QED
    BY <2>2, <2>3, <2>4, Zenon
<1>4. item.t # "END" => Body(item) \in Seq(Lexemes)
  <2>1. CASE item.t = "ARRAY"
    BY <1>2, <2>1 DEF Body
  <2>2. CASE item.t = "OBJECT"
    BY <1>2, <2>2 DEF Body
  <2>3. CASE item.t = "VALUE"
    BY <1>0, <2>3, WordIs DEF Body
  <2>4. QED
    BY <1>0, <2>1, <2>2, <2>3 DEF ItemTypes
<1>5. Piece(item, inObject) \in Seq(Lexemes)
  <2>1. CASE item.t = "END" /\ inObject
    BY <1>2, <2>1 DEF Piece
  <2>2. CASE item.t = "END" /\ ~inObject
    BY <1>2, <2>2 DEF Piece
  <2>3. CASE item.t # "END"
    BY <1>3, <1>4, <2>3 DEF Piece
  <2>4. QED
    BY <2>1, <2>2, <2>3
<1>6. Len(Piece(item, inObject)) >= 1
  <2>1. CASE item.t = "END"
    BY <2>1 DEF Piece
  <2>2. CASE item.t # "END"
    <3>1. Len(Body(item)) >= 1
      <4>1. CASE item.t \in {"ARRAY", "OBJECT"}
        BY <4>1 DEF Body
      <4>2. CASE item.t = "VALUE"
        <5>1. Body(item) = Word(item.v) /\ item.v \in Values
          BY <1>0, <4>2 DEF Body
        <5>2. CASE item.v[1] \in {"cstr", "str"}
          <6>1. item.v[2] \in Strings
            BY <5>1, <5>2 DEF Values
          <6>2. Word(item.v) = Quoted(item.v[1], item.v[2])
            BY <5>2 DEF Word
          <6>3. QED
            BY <5>1, <5>2, <6>1, <6>2, QuotedIs
        <5>3. CASE item.v[1] \notin {"cstr", "str"}
          BY <5>1, <5>3 DEF Word
        <5>4. QED
          BY <5>2, <5>3
      <4>3. QED
        BY <1>0, <2>2, <4>1, <4>2 DEF ItemTypes
    <3>2. QED
      BY <2>2, <3>1, <1>3, <1>4 DEF Piece
  <2>3. QED
    BY <2>1, <2>2
<1>7. QED
  BY <1>3, <1>4, <1>5, <1>6, <1>8 DEF WithComma

\* The stack of what is open stays one, the object of the text at its bottom.
LEMMA NestingIs ==
    ASSUME NEW nst \in Seq(BOOLEAN), nst # <<>>, nst[1], NEW t \in ItemTypes
    PROVE  /\ Nesting(nst, t) \in Seq(BOOLEAN)
           /\ Nesting(nst, t) # <<>> => Nesting(nst, t)[1]
           /\ Last(nst) \in BOOLEAN
<1>1. Len(nst) \in Nat \ {0}
  BY EmptySeq
<1>2. Last(nst) \in BOOLEAN
  BY <1>1 DEF Last
<1>3. CASE t = "ARRAY"
  <2>1. Nesting(nst, t) = Append(nst, FALSE)
    BY <1>3 DEF Nesting
  <2>2. FALSE \in BOOLEAN /\ 1 \in 1..Len(nst)
    BY <1>1
  <2>3. Append(nst, FALSE) \in Seq(BOOLEAN) /\ Append(nst, FALSE)[1] = nst[1]
    BY <2>2, AppendProperties, ZenonT(30)
  <2>4. QED
    BY <1>2, <2>1, <2>3, Zenon
<1>4. CASE t = "OBJECT"
  <2>1. Nesting(nst, t) = Append(nst, TRUE)
    BY <1>4 DEF Nesting
  <2>2. TRUE \in BOOLEAN /\ 1 \in 1..Len(nst)
    BY <1>1
  <2>3. Append(nst, TRUE) \in Seq(BOOLEAN) /\ Append(nst, TRUE)[1] = nst[1]
    BY <2>2, AppendProperties
  <2>4. QED
    BY <1>2, <2>1, <2>3, Zenon
<1>5. CASE t = "END"
  <2>1. Nesting(nst, t) = SubSeq(nst, 1, Len(nst) - 1)
    BY <1>5 DEF Nesting, Front
  <2>2. SubSeq(nst, 1, Len(nst) - 1) \in Seq(BOOLEAN)
    BY <1>1
  <2>3. CASE Len(nst) = 1
    <3>1. SubSeq(nst, 1, Len(nst) - 1) = <<>>
      BY <2>3
    <3>2. QED
      BY <1>2, <2>1, <2>2, <3>1
  <2>4. CASE Len(nst) # 1
    <3>1. SubSeq(nst, 1, Len(nst) - 1)[1] = nst[1]
      <4>0. PICK m \in Nat : m = Len(nst)
        BY <1>1
      <4>4. m >= 2
        BY <1>1, <2>4, <4>0
      <4>1. 1 \in 1..(Len(nst) - 1)
        BY <4>0, <4>4
      <4>2. \A i \in 1..(Len(nst) - 1) :
              SubSeq(nst, 1, Len(nst) - 1)[i] = nst[1 + i - 1]
        BY <1>1, SubSeqProperties
      <4>5. SubSeq(nst, 1, Len(nst) - 1)[1] = nst[1 + 1 - 1]
        BY <4>1, <4>2, Zenon
      <4>6. 1 + 1 - 1 = 1
        OBVIOUS
      <4>3. QED
        BY <4>5, <4>6, Zenon
    <3>2. QED
      BY <1>2, <2>1, <2>2, <3>1
  <2>5. QED
    BY <2>3, <2>4
<1>6. CASE t = "VALUE"
  BY <1>2, <1>6 DEF Nesting
<1>7. QED
  BY <1>3, <1>4, <1>5, <1>6 DEF ItemTypes

\* An array or object adds a level, an end takes one away.
LEMMA NestingLen ==
    ASSUME NEW nst \in Seq(BOOLEAN), nst # <<>>, NEW t \in ItemTypes
    PROVE  Len(Nesting(nst, t)) =
             CASE t \in {"ARRAY", "OBJECT"} -> Len(nst) + 1
               [] t = "END" -> Len(nst) - 1
               [] OTHER -> Len(nst)
<1>1. Len(nst) \in Nat \ {0}
  BY EmptySeq
<1>2. \A b \in BOOLEAN : Len(Append(nst, b)) = Len(nst) + 1
  OBVIOUS
<1>3. Len(Front(nst)) = Len(nst) - 1
  <2>1. 1 - 1 <= Len(nst) - 1 /\ Len(nst) - 1 <= Len(nst)
    BY <1>1
  <2>2. PICK m \in Nat : m = Len(nst) - 1
    BY <1>1
  <2>3. \A i \in 1..m : i \in 1..Len(nst)
    BY <1>1, <2>2
  <2>4. Len(SubSeq(nst, 1, m)) = m
    BY <2>1, <2>2, <1>1
  <2>5. QED
    BY <2>2, <2>4 DEF Front
<1>4. CASE t = "ARRAY"
  BY <1>2, <1>4 DEF Nesting
<1>5. CASE t = "OBJECT"
  BY <1>2, <1>5 DEF Nesting
<1>6. CASE t = "END"
  BY <1>3, <1>6 DEF Nesting
<1>7. CASE t = "VALUE"
  BY <1>7 DEF Nesting
<1>8. QED
  BY <1>4, <1>5, <1>6, <1>7 DEF ItemTypes

\* One more item is written.
LEMMA PutItem ==
    ASSUME NEW d, NEW items, NEW nst, NEW depth \in Nat,
           Texts(d, items, nst, depth), NEW item \in Items, NEW c,
           MayFollow(items, item, c, nst), Len(Nesting(nst, item.t)) <= depth
    PROVE  Texts(d \o WithComma(c, item, Last(nst)), Append(items, item),
                 Nesting(nst, item.t), depth)
<1>1. PICK at, nest : Written(d, items, at, nest, depth)
                      /\ nst = nest[Len(items)]
  BY DEF Texts
<1>2. items \in Seq(Items)
  BY DEF Texts
<1> DEFINE n == Len(items)
           p == WithComma(c, item, Last(nst))
           d1 == d \o p
           items1 == Append(items, item)
           nst1 == Nesting(nst, item.t)
           at1 == [k \in 0..(n + 1) |-> IF k = n + 1 THEN Len(d) + Len(p)
                                        ELSE at[k]]
           nest1 == [k \in 0..(n + 1) |-> IF k = n + 1 THEN nst1 ELSE nest[k]]
<1>3. n \in Nat /\ n \in 0..n
  BY <1>2
<1>4. /\ d \in Seq(Lexemes) /\ Stands(d, <<"{">>, 0)
      /\ at \in [0..n -> Nat] /\ at[0] = 1 /\ at[n] = Len(d)
      /\ nest \in [0..n -> Seq(BOOLEAN)] /\ nest[0] = <<TRUE>>
      /\ \A k \in 0..n :
           Len(nest[k]) <= depth /\ (nest[k] # <<>> => nest[k][1])
      /\ \A k \in 1..n : \E c1 \in BOOLEAN :
           /\ MayFollow(SubSeq(items, 1, k - 1), items[k], c1, nest[k - 1])
           /\ Follows(d, items[k], c1, at[k - 1], at[k], nest[k - 1], nest[k])
  BY <1>1 DEF Written
<1>5. c \in BOOLEAN /\ nst # <<>>
  BY DEF MayFollow
<1>6. nst \in Seq(BOOLEAN) /\ nst[1]
  <2> HIDE DEF n
  <2>1. QED
    BY <1>1, <1>3, <1>4, <1>5 DEF n
<1>7. item.t \in ItemTypes
  BY DEF Items
<1>8. /\ nst1 \in Seq(BOOLEAN) /\ (nst1 # <<>> => nst1[1])
      /\ Last(nst) \in BOOLEAN
  BY <1>5, <1>6, <1>7, NestingIs
<1>9. p \in Seq(Lexemes)
  BY <1>5, <1>8, PieceIs
<1> HIDE DEF p, nst1
<1>10. d1 \in Seq(Lexemes) /\ Len(d1) = Len(d) + Len(p) /\ Len(d) \in Nat
  <2>1. d \in Seq(Lexemes)
    BY <1>4
  <2>2. QED
    BY <2>1, <1>9, ConcatProperties, LenProperties
<1>11. items1 \in Seq(Items) /\ Len(items1) = n + 1 /\ items1[n + 1] = item
  BY <1>2
<1>12. \A k \in 1..n : items1[k] = items[k]
  BY <1>2
<1>13. \A k \in 1..(n + 1) : SubSeq(items1, 1, k - 1) = SubSeq(items, 1, k - 1)
  <2> SUFFICES ASSUME NEW k \in 1..(n + 1)
               PROVE  SubSeq(items1, 1, k - 1) = SubSeq(items, 1, k - 1)
    OBVIOUS
  <2> DEFINE x == SubSeq(items1, 1, k - 1)
             y == SubSeq(items, 1, k - 1)
  <2> HIDE DEF items1
  <2>1. x \in Seq(Items) /\ Len(x) = k - 1 /\ \A j \in 1..(k - 1) : x[j] = items1[j]
    BY <1>3, <1>11
  <2>2. y \in Seq(Items) /\ Len(y) = k - 1 /\ \A j \in 1..(k - 1) : y[j] = items[j]
    BY <1>2, <1>3
  <2>3. \A j \in 1..(k - 1) : x[j] = y[j]
    BY <2>1, <2>2, <1>3, <1>12
  <2> HIDE DEF x, y
  <2>4. x = y
    BY <2>1, <2>2, <2>3, SeqEqual
  <2>5. QED
    BY <2>4 DEF x, y
<1>14. SubSeq(items, 1, n) = items
  BY <1>2
<1>15. /\ at1 \in [0..(n + 1) -> Nat] /\ at1[0] = 1 /\ at1[n + 1] = Len(d1)
       /\ \A k \in 0..n : at1[k] = at[k]
  <2>1. Len(p) \in Nat
    BY <1>9
  <2>2. at \in [0..n -> Nat] /\ at[0] = 1
    BY <1>4
  <2> HIDE DEF d1, n, nest1, items1
  <2>3. at1 \in [0..(n + 1) -> Nat] /\ \A k \in 0..n : at1[k] = at[k]
    BY <2>1, <2>2, <1>3, <1>10
  <2>4. at1[0] = at[0] /\ at1[n + 1] = Len(d) + Len(p)
    BY <2>1, <2>2, <1>3, <1>10
  <2>5. QED
    BY <2>2, <2>3, <2>4, <1>10
<1>16. /\ nest1 \in [0..(n + 1) -> Seq(BOOLEAN)] /\ nest1[0] = <<TRUE>>
       /\ nest1[n + 1] = nst1 /\ \A k \in 0..n : nest1[k] = nest[k]
  <2>1. nest \in [0..n -> Seq(BOOLEAN)] /\ nest[0] = <<TRUE>>
    BY <1>4
  <2>2. nst1 \in Seq(BOOLEAN)
    BY <1>8
  <2> HIDE DEF d1, n, at1, items1
  <2>3. nest1[n + 1] = nst1 /\ \A k \in 0..n : nest1[k] = nest[k]
    BY <1>3
  <2>4. nest1 \in [0..(n + 1) -> Seq(BOOLEAN)]
    BY <2>1, <2>2, <1>3
  <2>5. nest1[0] = nest[0]
    BY <1>3
  <2>6. QED
    BY <2>1, <2>3, <2>4, <2>5
<1> HIDE DEF at1, nest1, d1, items1
<1>17. Stands(d1, <<"{">>, 0)
  <2>1. <<"{">> \in Seq(Lexemes)
    BY DEF Lexemes
  <2>2. QED
    BY <2>1, <1>4, <1>9, StandsOn DEF d1
<1>18. ASSUME NEW k \in 0..(n + 1)
       PROVE  Len(nest1[k]) <= depth /\ (nest1[k] # <<>> => nest1[k][1])
  <2>1. CASE k = n + 1
    BY <2>1, <1>8, <1>16 DEF nst1
  <2>2. CASE k # n + 1
    <3>1. k \in 0..n
      BY <2>2, <1>3
    <3>2. QED
      BY <3>1, <1>4, <1>16
  <2>3. QED
    BY <2>1, <2>2
<1>19. ASSUME NEW k \in 1..(n + 1)
       PROVE  \E c1 \in BOOLEAN :
                /\ MayFollow(SubSeq(items1, 1, k - 1), items1[k], c1,
                             nest1[k - 1])
                /\ Follows(d1, items1[k], c1, at1[k - 1], at1[k], nest1[k - 1],
                           nest1[k])
  <2>1. CASE k = n + 1
    <3>1. k - 1 = n /\ n \in 0..n
      BY <2>1, <1>3
    <3>2. /\ items1[k] = item /\ nest1[k - 1] = nst /\ nest1[k] = nst1
          /\ at1[k - 1] = Len(d) /\ at1[k] = Len(d) + Len(p)
      BY <2>1, <3>1, <1>1, <1>4, <1>10, <1>11, <1>15, <1>16
    <3>3. SubSeq(items1, 1, k - 1) = items
      BY <3>1, <1>13, <1>14
    <3>4. Stands(d1, p, Len(d))
      BY <1>4, <1>9, StandsBehind DEF d1
    <3>5. Follows(d1, item, c, Len(d), Len(d) + Len(p), nst, nst1)
      BY <3>4 DEF Follows, p, nst1
    <3>6. QED
      BY <3>2, <3>3, <3>5, <1>5
  <2>2. CASE k # n + 1
    <3>1. k \in 1..n /\ k - 1 \in 0..n /\ k \in 0..n
      BY <2>2, <1>3
    <3>2. /\ items1[k] = items[k] /\ nest1[k - 1] = nest[k - 1]
          /\ nest1[k] = nest[k] /\ at1[k - 1] = at[k - 1] /\ at1[k] = at[k]
          /\ SubSeq(items1, 1, k - 1) = SubSeq(items, 1, k - 1)
      BY <3>1, <1>12, <1>13, <1>15, <1>16
    <3>3. PICK c1 \in BOOLEAN :
            /\ MayFollow(SubSeq(items, 1, k - 1), items[k], c1, nest[k - 1])
            /\ Follows(d, items[k], c1, at[k - 1], at[k], nest[k - 1], nest[k])
      BY <3>1, <1>4
    <3> DEFINE q == WithComma(c1, items[k], Last(nest[k - 1]))
    <3>4. q \in Seq(Lexemes)
      <4>1. items[k] \in Items
        BY <3>1, <1>2
      <4>2. nest[k - 1] # <<>>
        BY <3>3 DEF MayFollow
      <4>3. nest[k - 1] \in Seq(BOOLEAN) /\ nest[k - 1][1]
        BY <3>1, <4>2, <1>4
      <4>4. Last(nest[k - 1]) \in BOOLEAN
        BY <4>2, <4>3, <1>7, NestingIs
      <4>5. QED
        BY <4>1, <4>4, PieceIs
    <3>5. Stands(d, q, at[k - 1]) /\ at[k - 1] \in Nat
      BY <3>1, <3>3, <1>4 DEF Follows
    <3>6. Stands(d1, q, at[k - 1])
      <4> HIDE DEF q
      <4>1. QED
        BY <3>4, <3>5, <1>4, <1>9, StandsOn DEF d1
    <3>7. Follows(d1, items[k], c1, at[k - 1], at[k], nest[k - 1], nest[k])
      BY <3>3, <3>6 DEF Follows
    <3>8. QED
      BY <3>2, <3>3, <3>7
  <2>3. QED
    BY <2>1, <2>2
<1>20. Written(d1, items1, at1, nest1, depth)
  <2> HIDE DEF n
  <2>1. QED
    BY <1>10, <1>11, <1>15, <1>16, <1>17, <1>18, <1>19 DEF Written
<1>21. QED
  BY <1>11, <1>16, <1>20 DEF Texts, d1, items1, nst1, p
-----------------------------------------------------------------------------
(* The parser reads the items of a text one by one.                         *)

\* The date in its quotes, both escaped.
LEMMA DateEncodes ==
    Encodes(<<"\\", Quote, "date", "\\", Quote>>, <<Quote, "date", Quote>>)
<1>1. Quote \in Lexemes /\ "date" \in Lexemes /\ "\\" \in Lexemes
  BY DEF Lexemes
<1>2. EscapedChar(Quote) = Quote /\ Quote # "eos" /\ Quote # "date"
  BY QuoteIsNone DEF EscapedChar
<1>3. "date" \notin {Quote, "\\", "eos"}
  BY <1>2
<1> DEFINE raw == <<"\\", Quote, "date", "\\", Quote>>
           s == <<Quote, "date", Quote>>
           cut == [k \in 0..3 |-> IF k = 0 THEN 0 ELSE IF k = 1 THEN 2
                                  ELSE IF k = 2 THEN 3 ELSE 5]
<1>4. /\ Len(s) = 3 /\ Len(raw) = 5
      /\ s[1] = Quote /\ s[2] = "date" /\ s[3] = Quote
      /\ raw[1] = "\\" /\ raw[2] = Quote /\ raw[3] = "date"
      /\ raw[4] = "\\" /\ raw[5] = Quote
  OBVIOUS
<1>5. raw \in Seq(Lexemes) /\ s \in Seq(Lexemes)
  BY <1>1
<1>6. /\ cut \in [0..3 -> Nat]
      /\ cut[0] = 0 /\ cut[1] = 2 /\ cut[2] = 3 /\ cut[3] = 5
  OBVIOUS
<1> HIDE DEF raw, s, cut
<1>7. \A k \in 1..3 :
        \/ /\ cut[k] = cut[k - 1] + 1 /\ raw[cut[k]] = s[k]
           /\ s[k] \notin {Quote, "\\", "eos"}
        \/ /\ cut[k] = cut[k - 1] + 2 /\ raw[cut[k - 1] + 1] = "\\"
           /\ EscapedChar(raw[cut[k]]) = s[k] /\ raw[cut[k]] # "eos"
  <2> SUFFICES ASSUME NEW k \in 1..3
               PROVE
        \/ /\ cut[k] = cut[k - 1] + 1 /\ raw[cut[k]] = s[k]
           /\ s[k] \notin {Quote, "\\", "eos"}
        \/ /\ cut[k] = cut[k - 1] + 2 /\ raw[cut[k - 1] + 1] = "\\"
           /\ EscapedChar(raw[cut[k]]) = s[k] /\ raw[cut[k]] # "eos"
    OBVIOUS
  <2>1. CASE k = 1
    BY <2>1, <1>2, <1>4, <1>6
  <2>2. CASE k = 2
    BY <2>2, <1>3, <1>4, <1>6
  <2>3. CASE k = 3
    BY <2>3, <1>2, <1>4, <1>6
  <2>4. QED
    BY <2>1, <2>2, <2>3
<1>8. IsCut(raw, s, cut)
  BY <1>4, <1>6, <1>7 DEF IsCut
<1>9. Encodes(raw, s)
  BY <1>5, <1>8 DEF Encodes
<1>10. QED
  BY <1>9 DEF raw, s

\* A value is written in quotes, or as a single word.
LEMMA WordShape ==
    ASSUME NEW v \in Values
    PROVE  /\ IsString(v) =>
                /\ Word(v) = <<Quote>> \o (Raw(v) \o <<Quote>>)
                /\ \E s : Encodes(Raw(v), s)
                /\ v[1] # "date" => Encodes(Raw(v), v[2])
           /\ ~IsString(v) =>
                \E w \in Lexemes :
                  /\ Word(v) = <<w>>
                  /\ w \notin Delimiters \cup {Quote, "{", "["}
<1>0. /\ v[1] \in {"cstr", "str"} => v[2] \in Strings
      /\ v[1] = "date" => v[2] = "date"
      /\ ~IsString(v) => v[2] \in Whole \cup {"true", "false", "5.5", "nan", "inf"}
  BY DEF Values, IsString
<1>1. CASE v[1] \in {"cstr", "str"}
  <2>1. Word(v) = Quoted(v[1], v[2]) /\ Raw(v) = Escape(v[1], v[2])
    BY <1>1 DEF Word, Raw
  <2>2. /\ Encodes(Escape(v[1], v[2]), v[2])
        /\ Quoted(v[1], v[2]) = <<Quote>> \o (Escape(v[1], v[2]) \o <<Quote>>)
    BY <1>0, <1>1, QuotedIs
  <2>3. IsString(v) /\ v[1] # "date"
    BY <1>1 DEF IsString
  <2>4. QED
    BY <2>1, <2>2, <2>3
<1>2. CASE v[1] = "date"
  <2>1. Word(v) = <<Quote, "\\", Quote, "date", "\\", Quote, Quote>>
    BY <1>0, <1>2 DEF Word
  <2>2. Raw(v) = <<"\\", Quote, "date", "\\", Quote>>
    BY <1>2 DEF Raw
  <2>3. <<Quote, "\\", Quote, "date", "\\", Quote, Quote>>
          = <<Quote>> \o (<<"\\", Quote, "date", "\\", Quote>> \o <<Quote>>)
    OBVIOUS
  <2>4. IsString(v)
    BY <1>2 DEF IsString
  <2>5. QED
    BY <1>2, <2>1, <2>2, <2>3, <2>4, DateEncodes
<1>3. CASE ~IsString(v)
  <2>1. CASE v[1] = "double" /\ v[2] \in {"nan", "inf"}
    <3>1. Word(v) = <<"null">> /\ "null" \in Lexemes
      BY <2>1 DEF Word, Lexemes
    <3>2. "null" \notin Delimiters \cup {Quote, "{", "["}
      BY DEF Delimiters, Quote
    <3>3. QED
      BY <1>3, <3>1, <3>2
  <2>2. CASE ~(v[1] = "double" /\ v[2] \in {"nan", "inf"})
    <3>1. Word(v) = <<v[2]>>
      BY <1>3, <2>2 DEF Word, IsString
    <3>2. CASE v[2] \in Whole
      <4>1. v[2] \notin Delimiters \cup {Quote, "{", "["}
        BY <3>2 DEF Whole, Delimiters
      <4>2. v[2] \in Lexemes
        BY <3>2 DEF Whole, Lexemes
      <4>3. QED
        BY <1>3, <3>1, <4>1, <4>2
    <3>3. CASE v[2] \in {"true", "false", "5.5", "nan", "inf"}
      <4>1. v[2] \notin Delimiters \cup {Quote, "{", "["}
        BY <3>3 DEF Delimiters, Quote
      <4>2. v[2] \in Lexemes
        BY <3>3 DEF Lexemes
      <4>3. QED
        BY <1>3, <3>1, <4>1, <4>2
    <3>4. QED
      BY <1>0, <1>3, <3>2, <3>3
  <2>3. QED
    BY <2>1, <2>2
<1>4. QED
  BY <1>1, <1>2, <1>3 DEF IsString

\* What an item may begin with.
LEMMA FirstIs ==
    ASSUME NEW item \in Items, NEW inObject \in BOOLEAN, item.t # "END"
    PROVE  /\ Len(Body(item)) >= 1
           /\ Body(item)[1] \notin Delimiters
           /\ item.t = "VALUE" => Body(item)[1] \notin {"{", "["}
           /\ Len(Piece(item, inObject)) >= 1
           /\ Piece(item, inObject)[1] \notin Delimiters
<1>0. /\ item.t \in ItemTypes /\ item.name \in Strings
      /\ item.t = "VALUE" => item.v \in Values
  BY DEF Items
<1>1. Quote \notin Delimiters \cup {"{", "["}
  BY QuoteIsNone DEF Delimiters
<1>2. /\ Len(Body(item)) >= 1 /\ Body(item)[1] \notin Delimiters
      /\ item.t = "VALUE" => Body(item)[1] \notin {"{", "["}
  <2>1. CASE item.t = "ARRAY"
    BY <2>1 DEF Body, Delimiters
  <2>2. CASE item.t = "OBJECT"
    BY <2>2 DEF Body, Delimiters
  <2>3. CASE item.t = "VALUE"
    <3>1. Body(item) = Word(item.v) /\ item.v \in Values
      BY <1>0, <2>3 DEF Body
    <3>2. CASE IsString(item.v)
      <4>1. PICK s : Encodes(Raw(item.v), s)
        BY <3>1, <3>2, WordShape
      <4>2. Word(item.v) = <<Quote>> \o (Raw(item.v) \o <<Quote>>)
        BY <3>1, <3>2, WordShape
      <4>3. Raw(item.v) \in Seq(Lexemes) /\ Quote \in Lexemes
        BY <4>1 DEF Encodes, Lexemes
      <4> DEFINE r == Raw(item.v)
      <4> HIDE DEF r
      <4>4. /\ Len(<<Quote>> \o (r \o <<Quote>>)) >= 1
            /\ (<<Quote>> \o (r \o <<Quote>>))[1] = Quote
        BY <4>3 DEF r
      <4>5. QED
        BY <3>1, <4>2, <4>4, <1>1 DEF r
    <3>3. CASE ~IsString(item.v)
      <4>1. PICK w \in Lexemes :
              /\ Word(item.v) = <<w>>
              /\ w \notin Delimiters \cup {Quote, "{", "["}
        BY <3>1, <3>3, WordShape
      <4>2. Body(item) = <<w>>
        BY <3>1, <4>1
      <4>3. Len(Body(item)) = 1 /\ Body(item)[1] = w
        BY <4>2
      <4> HIDE DEF Delimiters
      <4>4. Body(item)[1] \notin Delimiters /\ Body(item)[1] \notin {"{", "["}
        BY <4>1, <4>3, Zenon
      <4>5. Len(Body(item)) >= 1
        BY <4>3
      <4>6. QED
        BY <4>4, <4>5, Zenon
    <3>4. QED
      BY <3>2, <3>3
  <2>4. QED
    BY <1>0, <2>1, <2>2, <2>3 DEF ItemTypes
<1>3. Piece(item, inObject) = Label(item, inObject) \o Body(item)
  BY DEF Piece
<1>4. Body(item) \in Seq(Lexemes) /\ Label(item, inObject) \in Seq(Lexemes)
  BY PieceIs
<1> DEFINE b == Body(item)
           l == Label(item, inObject)
<1>5. CASE inObject
  <2>1. l = Quoted("cstr", item.name) \o <<":">>
    BY <1>5 DEF Label
  <2>2. /\ Quoted("cstr", item.name)
             = <<Quote>> \o (Escape("cstr", item.name) \o <<Quote>>)
        /\ Escape("cstr", item.name) \in Seq(Lexemes)
    BY <1>0, QuotedIs
  <2> DEFINE r == Escape("cstr", item.name)
  <2>3. Quote \in Lexemes /\ ":" \in Lexemes
    BY DEF Lexemes
  <2> HIDE DEF r, b
  <2>4. (((<<Quote>> \o (r \o <<Quote>>)) \o <<":">>) \o b)[1] = Quote
    BY <1>4, <2>2, <2>3 DEF r, b
  <2>5. Len(((<<Quote>> \o (r \o <<Quote>>)) \o <<":">>) \o b) >= 1
    BY <1>4, <2>2, <2>3 DEF r, b
  <2>6. Piece(item, inObject)
          = ((<<Quote>> \o (r \o <<Quote>>)) \o <<":">>) \o b
    BY <1>3, <2>1, <2>2 DEF r, b
  <2>7. QED
    BY <1>1, <1>2, <2>4, <2>5, <2>6
<1>6. CASE ~inObject
  <2>1. l = <<>>
    BY <1>6 DEF Label
  <2>2. <<>> \o b = b
    BY <1>4
  <2>3. QED
    BY <1>2, <1>3, <2>1, <2>2
<1>7. QED
  BY <1>5, <1>6
\* A sequence begins with the first of two pieces.
LEMMA FirstOfBoth ==
    ASSUME NEW p \in Seq(Lexemes), NEW q \in Seq(Lexemes), Len(p) = 1
    PROVE  (p \o q)[1] = p[1]
<1>1. Len(p) + Len(q) \in Nat /\ 1 \in 1..(Len(p) + Len(q)) /\ 1 <= Len(p)
  OBVIOUS
<1>2. (p \o q)[1] = IF 1 <= Len(p) THEN p[1] ELSE q[1 - Len(p)]
  BY <1>1, ConcatProperties, ZenonT(30)
<1>3. QED
  BY <1>1, <1>2, Zenon

\* What stands behind an item in a text that is complete: no white space,
\* and an end to a number.
LEMMA BehindItem ==
    ASSUME NEW items \in Seq(Items), NEW at, NEW nest, NEW depth,
           Written(text, items, at, nest, depth), nest[Len(items)] = <<>>,
           NEW k \in 0..Len(items)
    PROVE  /\ at[k] \in Nat
           /\ At(at[k] + 1) # "white"
           /\ k # 0 /\ items[k].t = "VALUE" => At(at[k] + 1) \in Delimiters
<1> DEFINE n == Len(items)
<1>1. n \in Nat /\ k \in 0..n
  OBVIOUS
<1>2. /\ text \in Seq(Lexemes) /\ at[k] \in Nat /\ at[n] = Len(text)
  BY <1>1 DEF Written
<1>3. CASE k = n
  <2>1. At(at[k] + 1) = "eos"
    <3>1. at[k] + 1 \in Nat /\ at[k] + 1 > Len(text)
      BY <1>2, <1>3
    <3>2. QED
      BY <3>1, <1>2, BehindIsEnd
  <2>2. QED
    BY <2>1, <1>2 DEF Delimiters
<1>4. CASE k # n
  <2>1. PICK j : j = k + 1
    OBVIOUS
  <2>2. j \in 1..n /\ j - 1 = k /\ Len(SubSeq(items, 1, k)) = k
    BY <1>1, <1>4, <2>1
  <2>3. PICK c \in BOOLEAN :
          /\ MayFollow(SubSeq(items, 1, j - 1), items[j], c, nest[j - 1])
          /\ Follows(text, items[j], c, at[j - 1], at[j], nest[j - 1], nest[j])
    BY <2>2 DEF Written
  <2> DEFINE item == items[j]
             obj == Last(nest[k])
             p == WithComma(c, item, obj)
             before == SubSeq(items, 1, k)
  <2>4. /\ MayFollow(before, item, c, nest[k])
        /\ Stands(text, p, at[k])
    BY <2>2, <2>3 DEF Follows
  <2>5. /\ nest[k] # <<>> /\ nest[k] \in Seq(BOOLEAN) /\ nest[k][1]
    BY <1>1, <2>4 DEF Written, MayFollow
  <2>6. item \in Items /\ item.t \in ItemTypes
    BY <2>2 DEF Items
  <2>7. obj \in BOOLEAN
    BY <2>5, <2>6, NestingIs
  <2>8. p \in Seq(Lexemes) /\ Len(p) >= 1
    BY <2>6, <2>7, PieceIs
  <2>9. At(at[k] + 1) = p[1]
    <3> HIDE DEF p
    <3>1. 1 \in 1..Len(p)
      BY <2>8
    <3>2. QED
      BY <3>1, <2>4, <2>8, <1>2, StandsAt
  <2>10. k # 0 => before # <<>> /\ Last(before) = items[k]
    <3> SUFFICES ASSUME k # 0 PROVE before # <<>> /\ Last(before) = items[k]
      OBVIOUS
    <3>1. before \in Seq(Items) /\ Len(before) = k /\ before[k] = items[k]
      BY <1>1
    <3> HIDE DEF before
    <3>2. QED
      BY <3>1 DEF Last
  <2>11. CASE item.t = "END"
    <3>1. c = FALSE
      BY <2>4, <2>11 DEF MayFollow
    <3>2. /\ Piece(item, obj) = <<IF obj THEN "}" ELSE "]">>
          /\ Comma(c) = <<>>
      BY <2>11, <3>1 DEF Piece, Comma
    <3>3. p = <<>> \o Piece(item, obj) /\ Piece(item, obj) \in Seq(Lexemes)
      BY <3>2, <2>6, <2>7, PieceIs DEF WithComma
    <3>4. p = Piece(item, obj)
      BY <3>3
    <3>5. p[1] = "}" \/ p[1] = "]"
      <4>1. CASE obj
        <5>1. Piece(item, obj) = <<"}">>
          BY <3>2, <4>1
        <5>2. p = <<"}">>
          BY <3>4, <5>1, Zenon
        <5> HIDE DEF p
        <5>3. QED
          BY <5>2
      <4>2. CASE ~obj
        <5>1. Piece(item, obj) = <<"]">>
          BY <3>2, <4>2
        <5>2. p = <<"]">>
          BY <3>4, <5>1, Zenon
        <5> HIDE DEF p
        <5>3. QED
          BY <5>2
      <4>3. QED
        BY <4>1, <4>2
    <3>6. QED
      BY <3>5, <2>9, <1>2 DEF Delimiters
  <2>12. CASE item.t # "END" /\ c
    <3>1. p = <<",">> \o Piece(item, obj) /\ Piece(item, obj) \in Seq(Lexemes)
      BY <2>6, <2>7, <2>12, PieceIs DEF WithComma, Comma
    <3>2. <<",">> \in Seq(Lexemes) /\ Len(<<",">>) = 1
      BY SingleIs DEF Lexemes
    <3>3. p[1] = ","
      <4> DEFINE x == Piece(item, obj)
      <4>1. x \in Seq(Lexemes)
        BY <3>1
      <4> HIDE DEF x
      <4>2. (<<",">> \o x)[1] = <<",">>[1]
        BY <3>2, <4>1, FirstOfBoth
      <4>3. p = <<",">> \o x
        BY <3>1 DEF x
      <4> HIDE DEF p
      <4>4. QED
        BY <4>2, <4>3
    <3>4. QED
      BY <3>3, <2>9, <1>2 DEF Delimiters
  <2>13. CASE item.t # "END" /\ ~c
    <3>1. p = <<>> \o Piece(item, obj) /\ Piece(item, obj) \in Seq(Lexemes)
      BY <2>6, <2>7, <2>13, PieceIs DEF WithComma, Comma
    <3>2. p = Piece(item, obj)
      BY <3>1
    <3>3. p[1] \notin Delimiters
      BY <3>2, <2>6, <2>7, <2>13, FirstIs
    <3>4. k # 0 => items[k].t # "VALUE"
      BY <2>4, <2>10, <2>13 DEF MayFollow
    <3>5. QED
      BY <3>3, <3>4, <2>9, <1>2 DEF Delimiters
  <2>14. QED
    BY <2>11, <2>12, <2>13
<1>5. QED
  BY <1>3, <1>4

\* The label of an item in an object gives its name.
LEMMA NameIsRead ==
    ASSUME text \in Seq(Lexemes), NEW item \in Items, item.t # "END",
           NEW b \in Nat, Stands(text, Piece(item, TRUE), b)
    PROVE  /\ At(b + 1) = Quote
           /\ \E l \in Nat :
                /\ l = b + Len(Label(item, TRUE))
                /\ Stands(text, Body(item), l)
                /\ IsolateName[b + 1] = [name |-> Escape("cstr", item.name),
                                         pos |-> l + 1]
<1>0. item.name \in Strings
  BY DEF Items
<1> DEFINE r == Escape("cstr", item.name)
           x == <<Quote>> \o (r \o <<Quote>>)
           l == b + Len(Label(item, TRUE))
<1>1. /\ Encodes(r, item.name) /\ r \in Seq(Lexemes)
      /\ Quoted("cstr", item.name) = x
      /\ x \in Seq(Lexemes)
  BY <1>0, QuotedIs
<1>2. Label(item, TRUE) = x \o <<":">>
  BY <1>1 DEF Label
<1>3. Piece(item, TRUE) = Label(item, TRUE) \o Body(item)
  BY DEF Piece
<1>4. Label(item, TRUE) \in Seq(Lexemes) /\ Body(item) \in Seq(Lexemes)
  BY PieceIs
<1>5. Stands(text, Label(item, TRUE), b) /\ Stands(text, Body(item), l)
  BY <1>3, <1>4, StandsBoth
<1>6. <<":">> \in Seq(Lexemes) /\ Quote \in Lexemes
  BY SingleIs DEF Lexemes
<1> HIDE DEF r
<1>7. Stands(text, x, b) /\ Stands(text, <<":">>, b + Len(x))
  <2> HIDE DEF x
  <2>1. QED
    BY <1>1, <1>2, <1>5, <1>6, StandsBoth, ZenonT(30)
<1>8. Len(r) \in Nat /\ Len(x) = Len(r) + 2 /\ Len(x \o <<":">>) = Len(r) + 3
  BY <1>1, <1>6
<1>9. /\ At(b + 1) = Quote
      /\ StringEnds(b + 2, b + 2 + Len(r))
      /\ SubSeq(text, b + 2, b + 1 + Len(r)) = r
  BY <1>1, <1>7, StringIsFound
<1> HIDE DEF x
<1>10. l = b + Len(r) + 3 /\ l \in Nat
  <2>1. Len(Label(item, TRUE)) = Len(r) + 3
    BY <1>2, <1>8, Zenon
  <2>2. l = b + (Len(r) + 3)
    BY <2>1, Zenon
  <2> HIDE DEF l
  <2>3. QED
    BY <2>2, <1>8
<1>11. At(b + 3 + Len(r)) = ":"
  <2>1. b + Len(x) \in Nat
    BY <1>8
  <2>2. \A j \in 1..Len(<<":">>) : At((b + Len(x)) + j) = <<":">>[j]
    BY <2>1, <1>6, <1>7, StandsAt
  <2>3. 1 \in 1..Len(<<":">>) /\ <<":">>[1] = ":"
    OBVIOUS
  <2>4. (b + Len(x)) + 1 = b + 3 + Len(r)
    BY <1>8
  <2> HIDE DEF x
  <2>5. QED
    BY <2>2, <2>3, <2>4
<1>12. At(l + 1) # "white"
  <2>0. /\ Len(Body(item)) >= 1 /\ Body(item)[1] \notin Delimiters
    <3>1. TRUE \in BOOLEAN
      OBVIOUS
    <3>2. QED
      BY <3>1, FirstIs, Zenon
  <2>3. Len(Body(item)) \in Nat
    BY <1>4
  <2>1. 1 \in 1..Len(Body(item)) /\ Body(item)[1] \notin Delimiters
    BY <2>0, <2>3
  <2>2. At(l + 1) = Body(item)[1]
    BY <2>1, <1>4, <1>5, <1>10, StandsAt
  <2>4. QED
    BY <2>1, <2>2 DEF Delimiters
<1>13. IsolateName[b + 1] = [name |-> r, pos |-> l + 1]
  <2>1. PICK e \in Nat : e = b + 2 + Len(r)
    BY <1>8
  <2>2. /\ e - 1 = b + 1 + Len(r) /\ e + 1 = b + 3 + Len(r) /\ e + 2 = l + 1
        /\ (b + 1) + 1 = b + 2 /\ b + 1 \in Nat
    <3> HIDE DEF l
    <3>1. QED
      BY <2>1, <1>8, <1>10
  <2> HIDE DEF l, x
  <2>3. StringEnds((b + 1) + 1, e) /\ At(e + 1) = ":" /\ At(e + 2) # "white"
    BY <2>1, <2>2, <1>9, <1>11, <1>12
  <2>4. IsolateName[b + 1] = [name |-> SubSeq(text, (b + 1) + 1, e - 1),
                              pos |-> e + 2]
    BY <2>2, <2>3, <1>9, IsolateNameIs
  <2>5. QED
    BY <2>2, <2>4, <1>9
<1>14. QED
  BY <1>5, <1>9, <1>10, <1>13 DEF r

\* The body of a value gives its raw characters.
LEMMA ValueIsRead ==
    ASSUME text \in Seq(Lexemes), NEW v \in Values, NEW l \in Nat,
           Stands(text, Word(v), l), At(l + Len(Word(v)) + 1) \in Delimiters
    PROVE  IsolateValue[l + 1] =
             [type |-> IF IsString(v) THEN "STRING" ELSE "NUMERIC",
              pos  |-> l + Len(Word(v)) + 1,
              val  |-> IF IsString(v) THEN Raw(v) ELSE Word(v)]
<1>1. CASE IsString(v)
  <2>1. PICK s : Encodes(Raw(v), s)
    BY <1>1, WordShape
  <2> DEFINE r == Raw(v)
  <2>2. Word(v) = <<Quote>> \o (r \o <<Quote>>)
    BY <1>1, WordShape
  <2>3. r \in Seq(Lexemes) /\ Quote \in Lexemes
    BY <2>1 DEF Encodes, Lexemes
  <2> HIDE DEF r
  <2>4. Len(r) \in Nat /\ Len(Word(v)) = Len(r) + 2
    BY <2>2, <2>3
  <2>5. /\ At(l + 1) = Quote
        /\ StringEnds(l + 2, l + 2 + Len(r))
        /\ SubSeq(text, l + 2, l + 1 + Len(r)) = r
    BY <2>1, <2>2, StringIsFound DEF r
  <2>6. PICK e \in Nat : e = l + 2 + Len(r)
    BY <2>4
  <2>7. /\ (l + 1) + 1 = l + 2 /\ e - 1 = l + 1 + Len(r) /\ l + 1 \in Nat
        /\ e + 1 = l + Len(Word(v)) + 1
    BY <2>4, <2>6
  <2>8. IsolateValue[l + 1] =
          [type |-> "STRING", pos |-> e + 1,
           val |-> SubSeq(text, (l + 1) + 1, e - 1)]
    <3>1. StringEnds((l + 1) + 1, e)
      BY <2>5, <2>6, <2>7
    <3>2. QED
      BY <2>5, <2>7, <3>1, StringIsIsolated
  <2>9. QED
    BY <1>1, <2>5, <2>7, <2>8 DEF r
<1>2. CASE ~IsString(v)
  <2>1. PICK w \in Lexemes :
          /\ Word(v) = <<w>> /\ w \notin Delimiters \cup {Quote, "{", "["}
    BY <1>2, WordShape
  <2>2. Len(Word(v)) = 1 /\ Word(v)[1] = w /\ Word(v) \in Seq(Lexemes)
    <3>1. Len(<<w>>) = 1 /\ <<w>>[1] = w /\ <<w>> \in Seq(Lexemes)
      OBVIOUS
    <3>2. QED
      BY <2>1, <3>1
  <2>3. At(l + 1) = w
    <3>1. 1 \in 1..Len(Word(v))
      BY <2>2
    <3>2. QED
      BY <3>1, <2>2, StandsAt
  <2>4. At(l + 1) # Quote /\ At(l + 1) \notin Delimiters
    BY <2>1, <2>3, Zenon
  <2>5. l + Len(Word(v)) + 1 = (l + 1) + 1 /\ l + 1 \in Nat
    BY <2>2
  <2>6. IsolateValue[l + 1] =
          [type |-> "NUMERIC", pos |-> (l + 1) + 1,
           val |-> SubSeq(text, l + 1, l + 1)]
    BY <2>4, <2>5, WordIsIsolated
  <2>7. SubSeq(text, l + 1, l + 1) = Word(v)
    <3>1. SubSeq(text, l + 1, l + Len(Word(v))) = Word(v)
      BY <2>2, StandsIs
    <3>2. QED
      BY <3>1, <2>2
  <2>8. QED
    BY <1>2, <2>5, <2>6, <2>7
<1>3. QED
  BY <1>1, <1>2
\* What the parser is made of behind an item.
LEMMA IterateReads ==
    ASSUME NEW items \in Seq(Items), NEW at, NEW nest,
           NEW depth \in Nat, depth < MaxNesting,
           Written(text, items, at, nest, depth), nest[Len(items)] = <<>>,
           NEW k \in 1..Len(items), NEW q \in Parsers,
           q.pos = at[k - 1] + 1, q.nest = nest[k - 1]
    PROVE  /\ IsRead(Iterate(q), items[k])
           /\ Iterate(q).pos = at[k] + 1
           /\ Iterate(q).nest = nest[k]
<1> DEFINE n == Len(items)
           item == items[k]
           a == at[k - 1]
           obj == Last(nest[k - 1])
<1>0. n \in Nat /\ k \in 0..n /\ k - 1 \in 0..n
  OBVIOUS
<1>1. PICK c \in BOOLEAN :
        /\ MayFollow(SubSeq(items, 1, k - 1), item, c, nest[k - 1])
        /\ Follows(text, item, c, a, at[k], nest[k - 1], nest[k])
  BY DEF Written
<1> DEFINE p == WithComma(c, item, obj)
<1>2. /\ nest[k] = Nesting(nest[k - 1], item.t)
      /\ Stands(text, p, a) /\ at[k] = a + Len(p)
  BY <1>1 DEF Follows
<1>3. /\ nest[k - 1] # <<>>
      /\ item.t = "END" => ~c
      /\ item.t # "END" /\ ~obj => item.name = <<>>
  BY <1>1 DEF MayFollow
<1>4. /\ text \in Seq(Lexemes) /\ a \in Nat /\ at[k] \in Nat
      /\ nest[k - 1] \in Seq(BOOLEAN) /\ nest[k - 1][1]
      /\ nest[k] \in Seq(BOOLEAN)
  BY <1>0, <1>3 DEF Written
<1>5. item \in Items /\ item.t \in ItemTypes /\ item.name \in Strings
  BY <1>0 DEF Items
<1>6. obj \in BOOLEAN /\ IsObject(q) = obj
  <2>1. obj \in BOOLEAN
    BY <1>3, <1>4, <1>5, NestingIs
  <2>2. QED
    BY <2>1, <1>3 DEF IsObject
<1>7. At(at[k] + 1) # "white" /\ SkipWhite[at[k] + 1] = at[k] + 1
  <2>1. At(at[k] + 1) # "white" /\ at[k] + 1 \in Nat
    BY <1>0, <1>4, BehindItem, SMTT(30)
  <2>2. QED
    BY <2>1, <1>4, SkipWhiteIs
<1>8. q.type # "INVALID"
  BY DEF Parsers
<1>9. p \in Seq(Lexemes)
  BY <1>5, <1>6, PieceIs
<1>10. q.pos = a + 1
  OBVIOUS
<1>11. q = [pos |-> q.pos, type |-> q.type, name |-> q.name, val |-> q.val,
            nest |-> q.nest]
       /\ q.name \in Seq(Lexemes) /\ q.val \in Seq(Lexemes)
  BY DEF Parsers
<1> HIDE DEF item, a, obj, p
<1>12. CASE item.t = "END"
  <2> DEFINE close == IF obj THEN "}" ELSE "]"
  <2>1. Comma(c) = <<>> /\ Piece(item, obj) = <<close>>
    BY <1>3, <1>12 DEF Comma, Piece
  <2>2. close \in Lexemes /\ close # "eos"
    BY DEF Lexemes
  <2> HIDE DEF close
  <2>3. <<close>> \in Seq(Lexemes) /\ Len(<<close>>) = 1 /\ <<close>>[1] = close
    BY <2>2
  <2>4. p = <<close>>
    BY <2>1, <2>3, ConcatEmptySeq DEF p, WithComma
  <2>5. At(a + 1) = close
    <3>1. 1 \in 1..Len(<<close>>)
      BY <2>3, SMTT(30)
    <3>2. QED
      BY <3>1, <2>3, <2>4, <1>2, <1>4, StandsAt, ZenonT(30)
  <2>6. Iterate(q) = PopNesting(q)
    BY <2>2, <2>5, <1>6, <1>8, <1>10 DEF Iterate, close
  <2>7. at[k] = a + 1 /\ q.pos + 1 = at[k] + 1
    BY <2>3, <2>4, <1>2, <1>10
  <2> DEFINE q1 == [q EXCEPT !.type = "END", !.pos = at[k] + 1,
                             !.nest = Front(@),
                             !.name = IF obj THEN @ ELSE <<>>]
  <2>8. Iterate(q) = q1
    BY <2>6, <2>7, <1>6, <1>7 DEF PopNesting
  <2>9. nest[k] = Front(nest[k - 1])
    BY <1>2, <1>12 DEF Nesting
  <2>10. /\ q1.type = "END" /\ q1.pos = at[k] + 1 /\ q1.nest = nest[k]
         /\ q1.val = q.val /\ q1.name = IF obj THEN q.name ELSE <<>>
    BY <2>9, <1>11
  <2>11. (IF obj THEN q.name ELSE <<>>) \in Seq(Lexemes)
    <3>1. <<>> \in Seq(Lexemes)
      OBVIOUS
    <3>2. QED
      BY <3>1, <1>11
  <2>12. Front(q.nest) \in Seq(BOOLEAN) /\ at[k] + 1 \in Nat
    BY <2>9, <1>4
  <2>13. q1 \in Parsers
    BY <2>11, <2>12 DEF Parsers
  <2>14. QED
    BY <2>8, <2>10, <2>13, <1>12 DEF IsRead, item
<1>13. CASE item.t # "END"
  <2> DEFINE b == a + Len(Comma(c))
             x == Piece(item, obj)
  <2>1. Comma(c) \in Seq(Lexemes) /\ x \in Seq(Lexemes) /\ p = Comma(c) \o x
    BY <1>5, <1>6, PieceIs DEF p, WithComma
  <2>2. x[1] \notin Delimiters /\ Len(x) >= 1
    BY <1>5, <1>6, <1>13, FirstIs
  <2>3. Stands(text, x, b) /\ Stands(text, Comma(c), a)
    <3> HIDE DEF x
    <3>1. QED
      BY <2>1, <1>2, <1>4, StandsBoth
  <2>4. Len(Comma(c)) \in Nat /\ b \in Nat
    BY <2>1, <1>4
  <2>5. at[k] = b + Len(x)
    <3> HIDE DEF x
    <3>1. Len(p) = Len(Comma(c)) + Len(x)
      BY <2>1, ConcatProperties, Zenon
    <3>2. Len(x) \in Nat
      BY <2>1
    <3>3. QED
      BY <3>1, <3>2, <2>4, <1>2, <1>4
  <2>6. /\ At(a + 1) \notin {"}", "]", "eos"}
        /\ (IF At(q.pos) = "," THEN q.pos + 1 ELSE q.pos) = b + 1
    <3> HIDE DEF x
    <3>1. CASE c
      <4>1. Comma(c) = <<",">>
        BY <3>1 DEF Comma
      <4>2. Len(<<",">>) = 1 /\ <<",">>[1] = "," /\ 1 \in 1..Len(<<",">>)
        OBVIOUS
      <4>3. At(a + 1) = ","
        <5>1. \A j \in 1..Len(<<",">>) : At(a + j) = <<",">>[j]
          BY <4>1, <2>1, <2>3, <1>4, StandsAt, ZenonT(30)
        <5>2. QED
          BY <4>2, <5>1
      <4>4. b = a + 1
        BY <4>1, <4>2, Zenon
      <4>5. QED
        BY <4>3, <4>4, <1>10
    <3>2. CASE ~c
      <4>1. Comma(c) = <<>>
        BY <3>2 DEF Comma
      <4>2. b = a
        BY <4>1, <1>4
      <4>3. 1 \in 1..Len(x)
        BY <2>1, <2>2
      <4>4. At(a + 1) = x[1]
        BY <4>2, <4>3, <2>1, <2>3, <1>4, StandsAt
      <4>5. QED
        BY <4>2, <4>4, <2>2, <1>10 DEF Delimiters
    <3>3. QED
      BY <3>1, <3>2
  <2>7. \E l \in Nat, nm \in Seq(Lexemes) :
          /\ (IF obj THEN IsolateName[b + 1]
              ELSE [name |-> <<>>, pos |-> b + 1])
               = [name |-> nm, pos |-> l + 1]
          /\ Encodes(nm, item.name)
          /\ Stands(text, Body(item), l)
          /\ at[k] = l + Len(Body(item))
    <3>1. CASE obj
      <4>1. obj = TRUE
        BY <3>1, <1>6
      <4>2. PICK l \in Nat :
              /\ l = b + Len(Label(item, TRUE))
              /\ Stands(text, Body(item), l)
              /\ IsolateName[b + 1] = [name |-> Escape("cstr", item.name),
                                       pos |-> l + 1]
        <5> HIDE DEF b
        <5>1. Stands(text, Piece(item, TRUE), b)
          BY <4>1, <2>3
        <5>2. QED
          BY <5>1, <1>4, <1>5, <1>13, <2>4, NameIsRead
      <4>3. /\ Encodes(Escape("cstr", item.name), item.name)
            /\ Escape("cstr", item.name) \in Seq(Lexemes)
        BY <1>5, QuotedIs
      <4>4. Len(x) = Len(Label(item, TRUE)) + Len(Body(item))
        <5>1. x = Label(item, TRUE) \o Body(item)
          BY <4>1, <1>13 DEF Piece
        <5>2. Label(item, TRUE) \in Seq(Lexemes) /\ Body(item) \in Seq(Lexemes)
          BY <1>5, <1>13, PieceIs
        <5>3. QED
          BY <5>1, <5>2, ConcatProperties, ZenonT(30)
      <4>5. Len(Label(item, TRUE)) \in Nat /\ Len(Body(item)) \in Nat
        <5>1. Label(item, TRUE) \in Seq(Lexemes) /\ Body(item) \in Seq(Lexemes)
          BY <1>5, <1>13, PieceIs
        <5>2. QED
          BY <5>1, LenProperties
      <4> HIDE DEF b, x
      <4>6. at[k] = l + Len(Body(item))
        <5>1. l = b + Len(Label(item, TRUE)) /\ at[k] = b + Len(x)
          BY <4>2, <2>5
        <5>2. PICK u \in Nat : u = Len(Label(item, TRUE))
          BY <4>5
        <5>3. l = b + u /\ Len(x) = u + Len(Body(item))
          BY <5>1, <5>2, <4>4, Zenon
        <5>4. Len(Body(item)) \in Nat /\ at[k] = b + Len(x)
          BY <4>5, <5>1, Zenon
        <5>5. QED
          BY <5>3, <5>4, <2>4
      <4>7. QED
        BY <4>2, <4>3, <4>6, <3>1
    <3>2. CASE ~obj
      <4>1. x = Body(item)
        <5>1. Label(item, obj) = <<>> /\ x = Label(item, obj) \o Body(item)
          BY <3>2, <1>13 DEF Piece, Label
        <5>2. Body(item) \in Seq(Lexemes)
          BY <1>5, <1>13, PieceIs, SMTT(30)
        <5>3. QED
          BY <5>1, <5>2, ConcatEmptySeq
      <4>2. item.name = <<>> /\ Encodes(<<>>, item.name) /\ <<>> \in Seq(Lexemes)
        BY <3>2, <1>3, <1>13, EmptyEncodes
      <4> HIDE DEF b, x
      <4>3. QED
        BY <4>1, <4>2, <2>3, <2>4, <2>5, <3>2
    <3>3. QED
      BY <3>1, <3>2
  <2>8. PICK l \in Nat, nm \in Seq(Lexemes) :
          /\ (IF obj THEN IsolateName[b + 1]
              ELSE [name |-> <<>>, pos |-> b + 1])
               = [name |-> nm, pos |-> l + 1]
          /\ Encodes(nm, item.name)
          /\ Stands(text, Body(item), l)
          /\ at[k] = l + Len(Body(item))
    BY <2>7
  <2> DEFINE q2 == IF At(l + 1) \in {"{", "["}
                   THEN PushNesting(q, l + 1 + 1, nm, At(l + 1) = "{")
                   ELSE [q EXCEPT !.type = IsolateValue[l + 1].type, !.name = nm,
                                  !.val = IsolateValue[l + 1].val,
                                  !.pos = SkipWhite[IsolateValue[l + 1].pos]]
  <2>9. Iterate(q) = q2
    <3> HIDE DEF b, x
    <3>1. At(q.pos) # "eos" /\ At(q.pos) # "}" /\ At(q.pos) # "]"
      BY <2>6, <1>10
    <3>2. [name |-> nm, pos |-> l + 1].name = nm
          /\ [name |-> nm, pos |-> l + 1].pos = l + 1
      OBVIOUS
    <3>3. QED
      BY <3>1, <3>2, <2>6, <2>8, <1>6, <1>8 DEF Iterate
  <2>10. Body(item) \in Seq(Lexemes) /\ Len(Body(item)) >= 1
    <3>1. TRUE \in BOOLEAN
      OBVIOUS
    <3>2. QED
      BY <3>1, <1>5, <1>13, PieceIs, FirstIs
  <2>11. At(l + 1) = Body(item)[1]
    <3>1. 1 \in 1..Len(Body(item))
      BY <2>10
    <3>2. QED
      BY <3>1, <2>8, <2>10, <1>4, StandsAt
  <2>12. CASE item.t \in {"ARRAY", "OBJECT"}
    <3> DEFINE o == item.t = "OBJECT"
    <3>1. /\ Len(Body(item)) = 1
          /\ Body(item)[1] \in {"{", "["} /\ (Body(item)[1] = "{" <=> o)
      BY <2>12 DEF Body
    <3>2. l + 1 + 1 = at[k] + 1
      BY <3>1, <2>8
    <3> DEFINE q1 == [q EXCEPT !.type = item.t, !.name = nm, !.pos = at[k] + 1,
                               !.nest = Append(@, o)]
    <3>3. Iterate(q) = q1
      <4>1. Iterate(q) = PushNesting(q, at[k] + 1, nm, o)
        BY <3>1, <3>2, <2>9, <2>11
      <4>2. (IF o THEN "OBJECT" ELSE "ARRAY") = item.t
        BY <2>12
      <4>3. Level(q) < MaxNesting - 1
        <5>1. Len(nest[k]) <= depth /\ nest[k] = Append(nest[k - 1], o)
          BY <2>12, <1>0, <1>2 DEF Written, Nesting
        <5>2. QED
          BY <5>1, <1>4 DEF Level, MaxNesting
      <4>4. QED
        BY <4>1, <4>2, <4>3, <1>7 DEF PushNesting
    <3>4. nest[k] = Append(nest[k - 1], o)
      BY <2>12, <1>2 DEF Nesting
    <3>5. /\ q1.type = item.t /\ q1.pos = at[k] + 1 /\ q1.nest = nest[k]
          /\ q1.val = q.val /\ q1.name = nm
      BY <3>4, <1>11
    <3>6. Append(q.nest, o) \in Seq(BOOLEAN) /\ at[k] + 1 \in Nat
      BY <3>4, <1>4
    <3>7. q1 \in Parsers
      BY <3>6, <2>12 DEF Parsers
    <3> HIDE DEF q1
    <3>8. QED
      BY <3>3, <3>5, <3>7, <2>8, <2>12 DEF IsRead, item
  <2>13. CASE item.t = "VALUE"
    <3> DEFINE v == item.v
               w == [type |-> IF IsString(v) THEN "STRING" ELSE "NUMERIC",
                     pos  |-> l + Len(Word(v)) + 1,
                     val  |-> IF IsString(v) THEN Raw(v) ELSE Word(v)]
    <3>1. v \in Values /\ Body(item) = Word(v)
      BY <2>13, <1>5 DEF Items, Body
    <3>2. At(l + 1) \notin {"{", "["}
      <4>1. TRUE \in BOOLEAN
        OBVIOUS
      <4>2. QED
        BY <4>1, <2>11, <2>13, <1>5, <1>13, FirstIs
    <3>3. l + Len(Word(v)) + 1 = at[k] + 1
      BY <3>1, <2>8
    <3>4. At(at[k] + 1) \in Delimiters
      BY <2>13, <1>0, BehindItem DEF item
    <3>5. IsolateValue[l + 1] = w
      <4> HIDE DEF v
      <4>1. QED
        BY <3>1, <3>3, <3>4, <2>8, <1>4, ValueIsRead
    <3>6. w.type = (IF IsString(v) THEN "STRING" ELSE "NUMERIC")
          /\ w.pos = at[k] + 1 /\ w.val = IF IsString(v) THEN Raw(v) ELSE Word(v)
      BY <3>3
    <3> HIDE DEF w, v
    <3> DEFINE q1 == [q EXCEPT !.type = w.type, !.name = nm, !.val = w.val,
                               !.pos = at[k] + 1]
    <3>7. Iterate(q) = q1
      BY <3>2, <3>5, <3>6, <2>9, <1>7
    <3>8. /\ q1.type = w.type /\ q1.pos = at[k] + 1 /\ q1.nest = nest[k]
          /\ q1.val = w.val /\ q1.name = nm
      <4>1. nest[k] = nest[k - 1]
        BY <2>13, <1>2 DEF Nesting
      <4>2. QED
        BY <4>1, <1>11
    <3>10. w.val \in Seq(Lexemes) /\ w.type \in {"STRING", "NUMERIC"}
      <4>1. CASE IsString(v)
        <5>1. Raw(v) \in Seq(Lexemes)
          BY <4>1, <3>1, WordShape DEF Encodes
        <5>2. QED
          BY <4>1, <5>1, <3>6
      <4>2. CASE ~IsString(v)
        BY <4>2, <3>1, <3>6, WordIs
      <4>3. QED
        BY <4>1, <4>2
    <3>11. q1 \in Parsers
      <4>1. at[k] + 1 \in Nat
        BY <1>4
      <4>2. QED
        BY <4>1, <3>10 DEF Parsers
    <3> HIDE DEF q1
    <3>12. ReadsValue(q1, v)
      BY <3>6, <3>8 DEF ReadsValue
    <3>13. QED
      BY <3>7, <3>8, <3>11, <3>12, <2>8, <2>13 DEF IsRead, item, v
  <2>14. QED
    BY <2>12, <2>13, <1>5, <1>13 DEF ItemTypes
<1>14. QED
  BY <1>12, <1>13
\* The parser begins with the first item.
LEMMA RestartReads ==
    ASSUME NEW items \in Seq(Items), NEW at, NEW nest,
           NEW depth \in Nat, depth < MaxNesting,
           Written(text, items, at, nest, depth), nest[Len(items)] = <<>>
    PROVE  /\ 1 \in 1..Len(items)
           /\ IsRead(Restart, items[1])
           /\ Restart.pos = at[1] + 1
           /\ Restart.nest = nest[1]
<1>1. /\ text \in Seq(Lexemes) /\ Stands(text, <<"{">>, 0)
      /\ at[0] = 1 /\ nest[0] = <<TRUE>>
  BY DEF Written
<1>2. Len(items) \in Nat /\ Len(items) # 0
  <2>1. <<TRUE>> # <<>>
    OBVIOUS
  <2>2. Len(items) = 0 => nest[0] = <<>>
    OBVIOUS
  <2>3. Len(items) # 0
    BY <1>1, <2>1, <2>2, Zenon
  <2>4. QED
    BY <2>3
<1>3. 0 \in 0..Len(items) /\ 1 \in 1..Len(items) /\ 1 - 1 = 0
  BY <1>2
<1>11. 1 + 1 = 2
  OBVIOUS
<1>4. At(1) = "{"
  <2>1. Len(<<"{">>) = 1 /\ <<"{">>[1] = "{" /\ <<"{">> \in Seq(Lexemes)
    BY SingleIs DEF Lexemes
  <2>2. \A j \in 1..Len(<<"{">>) : At(0 + j) = <<"{">>[j]
    BY <1>1, <2>1, StandsAt
  <2>3. 1 \in 1..1 /\ 0 + 1 = 1
    OBVIOUS
  <2>4. At(0 + 1) = "{"
    BY <2>1, <2>2, <2>3, Zenon
  <2>5. QED
    BY <2>3, <2>4, Zenon
<1>5. SkipWhite[1] = 1
  BY <1>1, <1>4, SkipWhiteIs
<1>6. SkipWhite[2] = 2
  <2>1. At(at[0] + 1) # "white"
    BY <1>3, BehindItem
  <2>2. At(2) # "white"
    BY <1>1, <2>1, <1>11, Zenon
  <2>3. QED
    BY <1>1, <2>2, SkipWhiteIs
<1>12. PICK nst \in Seq(BOOLEAN) : nst = <<TRUE>> /\ nst = Append(<<>>, TRUE)
  <2>1. <<TRUE>> \in Seq(BOOLEAN)
    OBVIOUS
  <2>2. Append(<<>>, TRUE) = <<TRUE>>
    OBVIOUS
  <2>3. QED
    BY <2>1, <2>2, Zenon
<1> DEFINE root == [pos |-> 1, type |-> "INVALID", name |-> <<>>,
                    val |-> <<>>, nest |-> <<>>]
           q == [root EXCEPT !.type = "OBJECT", !.name = <<>>,
                             !.pos = 2, !.nest = nst]
<1>7. Restart = Iterate(q)
  <2>1. PushNesting(root, 2, <<>>, TRUE)
          = [root EXCEPT !.type = "OBJECT", !.name = <<>>,
                         !.pos = SkipWhite[2], !.nest = Append(@, TRUE)]
    BY DEF PushNesting, Level, MaxNesting
  <2>2. root.nest = <<>>
    OBVIOUS
  <2> HIDE DEF root
  <2>3. PushNesting(root, 2, <<>>, TRUE) = q
    BY <1>6, <1>12, <2>1, <2>2
  <2>4. At(SkipWhite[1]) = "{" /\ SkipWhite[1] + 1 = 2
    BY <1>4, <1>5, <1>11, Zenon
  <2> HIDE DEF q
  <2>5. (At(SkipWhite[1]) = "{") = TRUE
    BY <2>4
  <2>6. QED
    BY <2>3, <2>4, <2>5 DEF Restart, root
<1>8. q \in Parsers
  <2>1. <<>> \in Seq(Lexemes)
    OBVIOUS
  <2>2. QED
    BY <2>1 DEF Parsers
<1>9. q.pos = at[1 - 1] + 1 /\ q.nest = nest[1 - 1]
  <2>1. q.pos = 2 /\ q.nest = nst
    OBVIOUS
  <2> HIDE DEF q
  <2>2. QED
    BY <2>1, <1>1, <1>3, <1>11, <1>12, Zenon
<1> HIDE DEF q
<1>10. QED
  BY <1>3, <1>7, <1>8, <1>9, IterateReads

\* The level that a reader counts from the items is that of what is open.
LEMMA LevelIs ==
    ASSUME json.items \in Seq(Items), NEW d, NEW at, NEW nest, NEW depth,
           Written(d, json.items, at, nest, depth)
    PROVE  \A k \in 0..Len(json.items) : WrittenLevel(k) = Len(nest[k])
<1> DEFINE items == json.items
           n == Len(items)
           up(k) == {i \in 1..k : items[i].t \in {"ARRAY", "OBJECT"}}
           down(k) == {i \in 1..k : items[i].t = "END"}
           S == {k \in Int : WrittenLevel(k) = Len(nest[k])}
<1>1. n \in Nat
  OBVIOUS
<1>2. \A k : WrittenLevel(k) = 1 + Cardinality(up(k)) - Cardinality(down(k))
  BY DEF WrittenLevel
<1>3. \A k \in 0..n : /\ IsFiniteSet(up(k)) /\ IsFiniteSet(down(k))
                      /\ Cardinality(up(k)) \in Nat
                      /\ Cardinality(down(k)) \in Nat
  <2> SUFFICES ASSUME NEW k \in 0..n
               PROVE  /\ IsFiniteSet(up(k)) /\ IsFiniteSet(down(k))
                      /\ Cardinality(up(k)) \in Nat
                      /\ Cardinality(down(k)) \in Nat
    OBVIOUS
  <2>1. IsFiniteSet(1..k)
    BY FS_Interval
  <2>2. up(k) \subseteq 1..k /\ down(k) \subseteq 1..k
    OBVIOUS
  <2> HIDE DEF up, down
  <2>3. QED
    BY <2>1, <2>2, FS_Subset, FS_CardinalityType
<1>4. /\ nest[0] = <<TRUE>>
      /\ \A k \in 0..n : nest[k] \in Seq(BOOLEAN)
      /\ \A k \in 1..n : /\ nest[k - 1] # <<>>
                         /\ nest[k] = Nesting(nest[k - 1], items[k].t)
  BY DEF Written, MayFollow, Follows
<1>5. 0 \in S
  <2>1. up(0) = {} /\ down(0) = {}
    OBVIOUS
  <2>2. Cardinality({}) = 0
    BY FS_EmptySet
  <2> HIDE DEF up, down
  <2>3. WrittenLevel(0) = 1 + 0 - 0
    BY <1>2, <2>1, <2>2, Zenon
  <2>4. Len(<<TRUE>>) = 1 /\ 1 + 0 - 0 = 1 /\ 0 \in Int
    OBVIOUS
  <2>5. WrittenLevel(0) = Len(nest[0])
    BY <2>3, <2>4, <1>4, Zenon
  <2>6. QED
    BY <2>4, <2>5
<1>6. ASSUME NEW k \in 0..(n - 1), k \in S PROVE k + 1 \in S
  <2>1. PICK j : j = k + 1
    OBVIOUS
  <2>2. j \in 1..n /\ j - 1 = k /\ j \in 0..n /\ k \in 0..n /\ j \in Int
    BY <2>1, <1>1
  <2>3. items[j] \in Items /\ items[j].t \in ItemTypes
    BY <2>2 DEF Items
  <2>4. nest[k] # <<>> /\ nest[k] \in Seq(BOOLEAN)
        /\ nest[j] = Nesting(nest[k], items[j].t)
    <3> HIDE DEF items, n
    <3>1. QED
      BY <2>2, <1>4
  <2>5. /\ up(j) = IF items[j].t \in {"ARRAY", "OBJECT"} THEN up(k) \cup {j}
                   ELSE up(k)
        /\ down(j) = IF items[j].t = "END" THEN down(k) \cup {j} ELSE down(k)
        /\ j \notin up(k) /\ j \notin down(k)
    <3>1. \A i : i \in 1..j <=> i \in 1..k \/ i = j
      BY <2>1, <2>2
    <3>2. j \notin 1..k
      BY <2>1, <2>2
    <3> HIDE DEF items
    <3>3. QED
      BY <3>1, <3>2
  <2>6. /\ Cardinality(up(j)) = IF items[j].t \in {"ARRAY", "OBJECT"}
                                THEN Cardinality(up(k)) + 1
                                ELSE Cardinality(up(k))
        /\ Cardinality(down(j)) = IF items[j].t = "END"
                                  THEN Cardinality(down(k)) + 1
                                  ELSE Cardinality(down(k))
    <3> HIDE DEF up, down
    <3>1. /\ Cardinality(up(k) \cup {j}) = Cardinality(up(k)) + 1
          /\ Cardinality(down(k) \cup {j}) = Cardinality(down(k)) + 1
      BY <2>2, <2>5, <1>3, FS_AddElement
    <3>2. QED
      BY <3>1, <2>5
  <2>7. WrittenLevel(k) = Len(nest[k])
    BY <1>6
  <2>8. Len(nest[k]) \in Nat \ {0}
    BY <2>4, EmptySeq
  <2>9. Len(nest[j]) = CASE items[j].t \in {"ARRAY", "OBJECT"} -> Len(nest[k]) + 1
                         [] items[j].t = "END" -> Len(nest[k]) - 1
                         [] OTHER -> Len(nest[k])
    BY <2>3, <2>4, <2>8, NestingLen
  <2> HIDE DEF up, down
  <2>10. WrittenLevel(j) = Len(nest[j])
    <3>1. /\ WrittenLevel(k) = 1 + Cardinality(up(k)) - Cardinality(down(k))
          /\ WrittenLevel(j) = 1 + Cardinality(up(j)) - Cardinality(down(j))
      BY <1>2
    <3>2. Cardinality(up(k)) \in Nat /\ Cardinality(down(k)) \in Nat
      BY <1>3, <2>2
    <3>3. CASE items[j].t \in {"ARRAY", "OBJECT"}
      <4>1. /\ Cardinality(up(j)) = Cardinality(up(k)) + 1
            /\ Cardinality(down(j)) = Cardinality(down(k))
            /\ Len(nest[j]) = Len(nest[k]) + 1
        BY <3>3, <2>6, <2>9
      <4>2. QED
        BY <3>1, <3>2, <4>1, <2>7, <2>8
    <3>4. CASE items[j].t = "END"
      BY <3>1, <3>2, <3>4, <2>6, <2>7, <2>8, <2>9
    <3>5. CASE items[j].t = "VALUE"
      BY <3>1, <3>2, <3>5, <2>6, <2>7, <2>8, <2>9
    <3>6. QED
      BY <3>3, <3>4, <3>5, <2>3 DEF ItemTypes
  <2>11. QED
    BY <2>1, <2>2, <2>10
<1>7. \A k \in 0..n : k \in S
  <2> HIDE DEF S, n
  <2>1. 0 \in Int /\ n \in Int
    BY <1>1
  <2>2. QED
    BY <1>5, <1>6, <2>1, Climb, Zenon
<1>8. QED
  BY <1>7
-----------------------------------------------------------------------------
(* The formatter writes a text of items.                                    *)

\* The stack as booleans.
LEMMA NestOfIs ==
    ASSUME NEW open \in Seq(Streams)
    PROVE  /\ NestOf(open) \in Seq(BOOLEAN) /\ Len(NestOf(open)) = Len(open)
           /\ open # <<>> => /\ NestOf(open) # <<>>
                             /\ Last(NestOf(open)) = (Last(open).close = "}")
<1>1. Len(open) \in Nat
  OBVIOUS
<1>2. NestOf(open) \in Seq(BOOLEAN) /\ Len(NestOf(open)) = Len(open)
  BY <1>1 DEF NestOf
<1>3. CASE open # <<>>
  <2>1. Len(open) \in 1..Len(open)
    BY <1>1, <1>3, EmptySeq
  <2>2. NestOf(open)[Len(open)] = (open[Len(open)].close = "}")
    BY <2>1 DEF NestOf
  <2>3. NestOf(open) # <<>>
    BY <1>1, <1>2, <2>1
  <2>4. QED
    BY <1>2, <2>2, <2>3 DEF Last
<1>4. QED
  BY <1>2, <1>3

\* One stream more, or fewer.
LEMMA NestOfPush ==
    ASSUME NEW open \in Seq(Streams), NEW x \in Streams
    PROVE  NestOf(Append(open, x)) = Append(NestOf(open), x.close = "}")
<1> DEFINE n == Len(open)
           o == Append(open, x)
           b == x.close = "}"
           l == NestOf(o)
           r == Append(NestOf(open), b)
<1>1. n \in Nat /\ o \in Seq(Streams) /\ Len(o) = n + 1
  OBVIOUS
<1>2. NestOf(open) \in Seq(BOOLEAN) /\ Len(NestOf(open)) = n
  BY NestOfIs
<1>3. l \in Seq(BOOLEAN) /\ Len(l) = n + 1
  BY <1>1, NestOfIs
<1>4. b \in BOOLEAN
  OBVIOUS
<1>5. r \in Seq(BOOLEAN) /\ Len(r) = n + 1
  <2> HIDE DEF b
  <2>1. QED
    BY <1>2, <1>4, AppendProperties
<1>6. ASSUME NEW i \in 1..(n + 1) PROVE l[i] = r[i]
  <2>1. l[i] = (o[i].close = "}")
    BY <1>1 DEF NestOf
  <2>2. CASE i = n + 1
    <3>1. o[i] = x
      BY <2>2
    <3>2. r[i] = b
      <4> HIDE DEF b, n
      <4>1. r[Len(NestOf(open)) + 1] = b
        BY <1>2, <1>4, AppendProperties
      <4>2. QED
        BY <2>2, <4>1, <1>2
    <3> HIDE DEF l, r, o
    <3>3. QED
      BY <2>1, <3>1, <3>2
  <2>3. CASE i # n + 1
    <3>1. i \in 1..n
      BY <2>3, <1>1
    <3>2. o[i] = open[i]
      BY <3>1
    <3>3. r[i] = NestOf(open)[i]
      <4> HIDE DEF b, n
      <4>1. i \in 1..Len(NestOf(open))
        BY <3>1, <1>2
      <4>2. QED
        BY <4>1, <1>2, <1>4, AppendProperties
    <3>4. NestOf(open)[i] = (open[i].close = "}")
      BY <3>1 DEF NestOf
    <3> HIDE DEF l, r, o
    <3>5. QED
      BY <2>1, <3>2, <3>3, <3>4
  <2>4. QED
    BY <2>2, <2>3
<1> HIDE DEF l, r, n, b
<1>7. l = r
  BY <1>3, <1>5, <1>6, SeqEqual
<1>8. QED
  BY <1>7 DEF l, r, b

\* Counting a member leaves the stack as it is.
LEMMA NestOfCount ==
    ASSUME NEW open \in Seq(Streams), open # <<>>, NEW o \in Seq(Streams),
           o = [open EXCEPT ![Len(open)].members = @ + 1]
    PROVE  /\ NestOf(o) = NestOf(open) /\ Len(o) = Len(open) /\ o # <<>>
           /\ Last(o).members > 0
<1>1. Len(open) \in Nat \ {0} /\ Len(open) \in 1..Len(open)
  BY EmptySeq
<1>2. open[Len(open)] \in Streams
  BY <1>1
<1>3. Len(o) = Len(open)
  BY <1>1
<1>8. \A i \in 1..Len(open) : i # Len(open) => o[i] = open[i]
  OBVIOUS
<1>9. o[Len(open)] = [open[Len(open)] EXCEPT !.members = @ + 1]
  BY <1>1
<1>10. /\ o[Len(open)].close = open[Len(open)].close
       /\ o[Len(open)].members = open[Len(open)].members + 1
       /\ open[Len(open)].members \in Nat
  BY <1>2, <1>9 DEF Streams
<1>4. \A i \in 1..Len(open) : o[i].close = open[i].close
  BY <1>8, <1>10
<1>5. o[Len(open)].members > 0
  BY <1>10
<1>6. NestOf(o) = NestOf(open)
  BY <1>3, <1>4 DEF NestOf
<1>7. QED
  BY <1>1, <1>3, <1>5, <1>6, EmptySeq DEF Last

\* A formatter writes one more item.
LEMMA FormatterPuts ==
    ASSUME NEW s, NEW depth \in Nat, Formats(s, depth), s.open # <<>>,
           NEW item \in Items, NEW c \in BOOLEAN,
           item.t = "END" => ~c, InObject(s) \/ item.t = "END" \/ item.name = <<>>,
           item.t # "END" => c = (Last(s.open).members > 0),
           NEW s1 \in Formatters,
           s1.dump = s.dump \o WithComma(c, item, InObject(s)),
           s1.items = Append(s.items, item),
           NestOf(s1.open) = Nesting(NestOf(s.open), item.t),
           Len(s1.open) <= depth,
           item.t = "VALUE" => Last(s1.open).members > 0
    PROVE  Formats(s1, depth)
<1>1. s \in Formatters /\ s.open \in Seq(Streams) /\ s.items \in Seq(Items)
  BY DEF Formats, Formatters
<1> DEFINE nst == NestOf(s.open)
<1>2. /\ nst \in Seq(BOOLEAN) /\ nst # <<>>
      /\ Last(nst) = (Last(s.open).close = "}")
  BY <1>1, NestOfIs
<1>3. Last(nst) = InObject(s)
  BY <1>2 DEF InObject
<1>4. MayFollow(s.items, item, c, nst)
  <2>1. s.items # <<>> /\ Last(s.items).t = "VALUE" => Last(s.open).members > 0
    BY DEF Formats
  <2> HIDE DEF nst
  <2>2. QED
    BY <2>1, <1>2, <1>3 DEF MayFollow
<1>5. s1.open \in Seq(Streams)
  BY DEF Formatters
<1>6. Len(Nesting(nst, item.t)) <= depth
  BY <1>5, NestOfIs
<1>7. Texts(s.dump \o WithComma(c, item, Last(nst)), Append(s.items, item),
            Nesting(nst, item.t), depth)
  <2>1. Texts(s.dump, s.items, nst, depth)
    BY DEF Formats
  <2> HIDE DEF nst
  <2>2. QED
    BY <2>1, <1>4, <1>6, PutItem
<1>8. Texts(s1.dump, s1.items, NestOf(s1.open), depth)
  <2> HIDE DEF nst
  <2>1. s1.dump = s.dump \o WithComma(c, item, Last(nst))
    BY <1>3
  <2>2. QED
    BY <2>1, <1>7 DEF nst
<1>9. Last(s1.items) = item
  BY <1>1 DEF Last
<1>10. QED
  BY <1>8, <1>9 DEF Formats

\* Pieces are put one behind the other in any order of the operators.
LEMMA ConcatAgain ==
    ASSUME NEW V, NEW x \in Seq(V), NEW y \in Seq(V), NEW z \in Seq(V)
    PROVE  (x \o y) \o z = x \o (y \o z)
  OBVIOUS

\* Where the parentheses stand does not matter.
LEMMA ConcatAll ==
    \A w, x, y, z \in Seq(Lexemes) :
      w \o ((x \o y) \o z) = (w \o (x \o y)) \o z
<1> SUFFICES ASSUME NEW w \in Seq(Lexemes), NEW x \in Seq(Lexemes),
                    NEW y \in Seq(Lexemes), NEW z \in Seq(Lexemes)
             PROVE  w \o ((x \o y) \o z) = (w \o (x \o y)) \o z
  OBVIOUS
<1>1. PICK u \in Seq(Lexemes) : u = x \o y
  BY ConcatProperties, Zenon
<1>2. (w \o u) \o z = w \o (u \o z)
  BY <1>1, ConcatAgain, SMTT(30)
<1>3. QED
  BY <1>1, <1>2

\* A stream has one member more.
LEMMA MemberCounted ==
    ASSUME NEW x \in Streams
    PROVE  [x EXCEPT !.members = @ + 1] \in Streams
<1>1. x.members \in Nat
  BY DEF Streams
<1>2. PICK y \in Nat : y = x.members + 1
  BY <1>1
<1>3. [x EXCEPT !.members = y] \in Streams
  BY <1>2 DEF Streams
<1>4. QED
  BY <1>2, <1>3

\* There are never more streams open than the depth that is told.
LEMMA FormatsLevel ==
    ASSUME NEW s, NEW depth \in Nat, Formats(s, depth)
    PROVE  /\ s \in Formatters /\ s.open \in Seq(Streams)
           /\ s.items \in Seq(Items) /\ s.dump \in Seq(Lexemes)
           /\ Len(s.open) <= depth /\ Len(s.open) \in Nat
<1>1. /\ s \in Formatters /\ s.open \in Seq(Streams)
      /\ s.items \in Seq(Items) /\ s.dump \in Seq(Lexemes)
  BY DEF Formats, Formatters
<1>2. Texts(s.dump, s.items, NestOf(s.open), depth)
  BY DEF Formats
<1>3. Len(NestOf(s.open)) = Len(s.open)
  BY <1>1, NestOfIs
<1> DEFINE nst == NestOf(s.open)
           n == Len(s.items)
<1>4. n \in 0..n
  BY <1>1
<1>5. PICK at, nest : Written(s.dump, s.items, at, nest, depth) /\ nst = nest[n]
  <2> HIDE DEF nst
  <2>1. QED
    BY <1>2 DEF Texts, nst
<1> HIDE DEF nst
<1>6. Len(nst) <= depth
  <2> HIDE DEF n
  <2>1. QED
    BY <1>4, <1>5, ZenonT(30) DEF Written, n
<1>7. QED
  BY <1>1, <1>3, <1>6 DEF nst

\* What BeginMember makes of a formatter.
LEMMA BeginIs ==
    ASSUME NEW s \in Formatters, s.open # <<>>, NEW name \in Strings,
           NEW b, b \in {StreamBeginMember(s), BeginMember(s, name)}
    PROVE  /\ b \in Formatters
           /\ b.items = s.items
           /\ b.open = [s.open EXCEPT ![Len(s.open)].members = @ + 1]
           /\ NestOf(b.open) = NestOf(s.open)
           /\ Len(b.open) = Len(s.open) /\ b.open # <<>>
           /\ Last(b.open).members > 0
           /\ StreamBeginMember(s).dump
                = s.dump \o Comma(Last(s.open).members > 0)
           /\ BeginMember(s, name).dump =
                s.dump \o (Comma(Last(s.open).members > 0)
                           \o (IF InObject(s)
                               THEN Quoted("cstr", name) \o <<":">>
                               ELSE <<>>))
           /\ ~InObject(s) => BeginMember(s, name) = StreamBeginMember(s)
<1> DEFINE comma == Comma(Last(s.open).members > 0)
           label == Quoted("cstr", name) \o <<":">>
           o == [s.open EXCEPT ![Len(s.open)].members = @ + 1]
           b1 == StreamBeginMember(s)
           b2 == BeginMember(s, name)
<1>1. /\ s.open \in Seq(Streams) /\ s.items \in Seq(Items)
      /\ s.dump \in Seq(Lexemes)
      /\ s = [dump |-> s.dump, open |-> s.open, items |-> s.items]
  BY DEF Formatters
<1>2. comma \in Seq(Lexemes) /\ label \in Seq(Lexemes) /\ <<>> \in Seq(Lexemes)
  <2>1. <<",">> \in Seq(Lexemes) /\ <<":">> \in Seq(Lexemes)
    BY SingleIs DEF Lexemes
  <2>2. Quoted("cstr", name) \in Seq(Lexemes)
    BY QuotedIs
  <2>3. <<>> \in Seq(Lexemes)
    OBVIOUS
  <2>4. comma = <<",">> \/ comma = <<>>
    BY DEF Comma
  <2>5. label \in Seq(Lexemes)
    BY <2>1, <2>2, ConcatProperties, Zenon
  <2>6. QED
    BY <2>1, <2>3, <2>4, <2>5, Zenon
<1>3. o \in Seq(Streams)
  <2>1. Len(s.open) \in 1..Len(s.open)
    BY <1>1, EmptySeq
  <2>2. s.open[Len(s.open)] \in Streams
    BY <1>1, <2>1
  <2>3. [s.open[Len(s.open)] EXCEPT !.members = @ + 1] \in Streams
    BY <2>2, MemberCounted
  <2>4. QED
    BY <1>1, <2>1, <2>3
<1>4. /\ NestOf(o) = NestOf(s.open) /\ Len(o) = Len(s.open) /\ o # <<>>
      /\ Last(o).members > 0
  <2> HIDE DEF o
  <2>1. QED
    BY <1>1, <1>3, NestOfCount DEF o
<1> HIDE DEF o
<1>5. b1 = [dump |-> s.dump \o comma, open |-> o, items |-> s.items]
  <2>1. (IF Last(s.open).members > 0 THEN <<",">> ELSE <<>>) = comma
    BY DEF Comma
  <2>2. b1 = [Dump(s, comma) EXCEPT !.open[Len(s.open)].members = @ + 1]
    BY <2>1 DEF StreamBeginMember
  <2>3. b1 = [Dump(s, comma) EXCEPT !.open = o]
    <3>1. Dump(s, comma).open = s.open
      BY <1>1 DEF Dump
    <3> HIDE DEF comma
    <3>2. QED
      BY <2>2, <3>1, <1>1 DEF o, Dump
  <2> HIDE DEF comma, b1
  <2>4. QED
    BY <2>3, <1>1 DEF Dump
<1> HIDE DEF comma
<1>6. b2 = IF InObject(s) THEN Dump(b1, label) ELSE b1
  BY DEF BeginMember
<1> HIDE DEF b1, label
<1>7. b2 = [dump |-> s.dump \o (comma \o (IF InObject(s) THEN label ELSE <<>>)),
            open |-> o, items |-> s.items]
  <2>1. CASE InObject(s)
    <3>1. b2 = [dump |-> (s.dump \o comma) \o label, open |-> o,
                items |-> s.items]
      BY <2>1, <1>5, <1>6 DEF Dump
    <3>2. (s.dump \o comma) \o label = s.dump \o (comma \o label)
      BY <1>1, <1>2, ConcatAgain, SMTT(30)
    <3> HIDE DEF b2
    <3>3. QED
      BY <2>1, <3>1, <3>2
  <2>2. CASE ~InObject(s)
    <3>1. comma \o <<>> = comma
      BY <1>2
    <3> HIDE DEF b2
    <3>2. QED
      BY <2>2, <3>1, <1>5, <1>6
  <2>3. QED
    BY <2>1, <2>2
<1> HIDE DEF b2
<1>8. /\ s.dump \o comma \in Seq(Lexemes)
      /\ s.dump \o (comma \o (IF InObject(s) THEN label ELSE <<>>))
           \in Seq(Lexemes)
  <2>1. (IF InObject(s) THEN label ELSE <<>>) \in Seq(Lexemes)
    BY <1>2
  <2>2. comma \o (IF InObject(s) THEN label ELSE <<>>) \in Seq(Lexemes)
    BY <2>1, <1>2, ConcatProperties, Zenon
  <2>3. QED
    BY <2>2, <1>1, <1>2, ConcatProperties, Zenon
<1>9. b1 \in Formatters /\ b2 \in Formatters
  BY <1>1, <1>3, <1>5, <1>7, <1>8 DEF Formatters
<1>10. /\ b1.items = s.items /\ b1.open = o /\ b1.dump = s.dump \o comma
       /\ b2.items = s.items /\ b2.open = o
       /\ b2.dump = s.dump \o (comma \o (IF InObject(s) THEN label ELSE <<>>))
  BY <1>5, <1>7
<1>11. b = b1 \/ b = b2
  BY DEF b1, b2
<1>12. b \in Formatters /\ b.items = s.items /\ b.open = o
  BY <1>9, <1>10, <1>11
<1>13. ~InObject(s) => b2 = b1
  BY <1>6
<1>14. QED
  BY <1>4, <1>10, <1>12, <1>13 DEF b1, b2, comma, label, o

\* The name of an item in an array.
LEMMA StringsHaveEmpty == <<>> \in Strings
  BY SMTT(30) DEF Strings

\* What is put behind BeginMember is the item, with its comma.
LEMMA PutDump ==
    ASSUME NEW s \in Formatters, s.open # <<>>, NEW name \in Strings,
           NEW item \in Items, item.t # "END", item.name = NameIn(s, name)
    PROVE  BeginMember(s, name).dump \o Body(item)
             = s.dump \o WithComma(Last(s.open).members > 0, item, InObject(s))
<1> DEFINE b == BeginMember(s, name)
           c == Last(s.open).members > 0
           label == IF InObject(s) THEN Quoted("cstr", name) \o <<":">> ELSE <<>>
<1>1. b.dump = s.dump \o (Comma(c) \o label)
  <2>1. b \in {StreamBeginMember(s), b}
    OBVIOUS
  <2>2. QED
    BY <2>1, BeginIs
<1>2. c \in BOOLEAN /\ InObject(s) \in BOOLEAN
  BY DEF InObject
<1>3. Label(item, InObject(s)) = label
  BY DEF Label, NameIn
<1>4. WithComma(c, item, InObject(s)) = Comma(c) \o (label \o Body(item))
  BY <1>3 DEF WithComma, Piece
<1>5. /\ Comma(c) \in Seq(Lexemes) /\ label \in Seq(Lexemes)
      /\ Body(item) \in Seq(Lexemes)
  BY <1>2, <1>3, PieceIs
<1> HIDE DEF c, label, b
<1>6. Comma(c) \o (label \o Body(item)) = (Comma(c) \o label) \o Body(item)
  BY <1>5, ConcatAgain, SMTT(30)
<1>7. s.dump \o ((Comma(c) \o label) \o Body(item))
        = (s.dump \o (Comma(c) \o label)) \o Body(item)
  <2>1. s.dump \in Seq(Lexemes)
    BY DEF Formatters
  <2>2. PICK m \in Seq(Lexemes) : m = Comma(c) \o label
    BY <1>5, ConcatProperties, Zenon
  <2>3. PICK d \in Seq(Lexemes), w \in Seq(Lexemes) : d = s.dump /\ w = Body(item)
    BY <2>1, <1>5
  <2>4. d \o (m \o w) = (d \o m) \o w
    BY ConcatAgain, SMTT(30)
  <2>5. QED
    BY <2>2, <2>3, <2>4
<1>8. QED
  BY <1>1, <1>4, <1>6, <1>7 DEF b, c

\* A value keeps the text well-formed.
LEMMA StreamValueIs ==
    ASSUME NEW s, NEW depth \in Nat, Formats(s, depth), s.open # <<>>,
           NEW name \in Strings, NEW v \in Values,
           NEW s1, s1 = StreamValue(s, name, v)
    PROVE  /\ Formats(s1, depth)
           /\ Putting(s1, s, name, v)
<1> DEFINE b == BeginMember(s, name)
           c == Last(s.open).members > 0
           item == Item("VALUE", NameIn(s, name), v)
           label == IF InObject(s) THEN Quoted("cstr", name) \o <<":">> ELSE <<>>
<1>1. /\ s \in Formatters /\ s.open \in Seq(Streams)
      /\ s.items \in Seq(Items) /\ s.dump \in Seq(Lexemes)
      /\ Len(s.open) <= depth
  BY FormatsLevel
<1>2. /\ b \in Formatters /\ b.items = s.items
      /\ NestOf(b.open) = NestOf(s.open)
      /\ Len(b.open) = Len(s.open) /\ b.open # <<>>
      /\ Last(b.open).members > 0
      /\ b.dump = s.dump \o (Comma(c) \o label)
      /\ ~InObject(s) => b = StreamBeginMember(s)
  <2>1. b \in {StreamBeginMember(s), b}
    OBVIOUS
  <2>2. QED
    BY <1>1, <2>1, BeginIs
<1>3. s1 = Noted(Dump(b, Word(v)), item)
  BY <1>2 DEF StreamValue, ObjectWriteValue, ArrayWriteValue, NameIn
<1>4. NameIn(s, name) \in Strings
  BY StringsHaveEmpty DEF NameIn
<1>5. /\ item \in Items /\ item.t = "VALUE" /\ item.name = NameIn(s, name)
      /\ item.v = v
  BY <1>4 DEF Item, Items, ItemTypes
<1>6. Word(v) \in Seq(Lexemes)
  BY WordIs, SMTT(30)
<1>7. /\ s1.dump = b.dump \o Word(v) /\ s1.items = Append(s.items, item)
      /\ s1.open = b.open /\ s1 \in Formatters
  <2> HIDE DEF b, item
  <2>1. /\ s1.dump = b.dump \o Word(v) /\ s1.items = Append(s.items, item)
        /\ s1.open = b.open
        /\ s1 = [dump |-> s1.dump, open |-> s1.open, items |-> s1.items]
    BY <1>2, <1>3 DEF Noted, Dump, Formatters
  <2>2. b.dump \in Seq(Lexemes) /\ b.open \in Seq(Streams)
    BY <1>2 DEF Formatters
  <2>3. b.dump \o Word(v) \in Seq(Lexemes) /\ Append(s.items, item) \in Seq(Items)
    BY <2>2, <1>1, <1>5, <1>6
  <2>4. QED
    BY <2>1, <2>2, <2>3 DEF Formatters
<1>8. c \in BOOLEAN /\ InObject(s) \in BOOLEAN
  BY DEF InObject
<1>9. s1.dump = s.dump \o WithComma(c, item, InObject(s))
  <2>1. Body(item) = Word(v)
    BY <1>5 DEF Body
  <2>2. b.dump \o Body(item) = s.dump \o WithComma(c, item, InObject(s))
    BY <1>1, <1>5, PutDump
  <2> HIDE DEF c, item, b
  <2>3. QED
    BY <2>1, <2>2, <1>7
<1>10. NestOf(s1.open) = Nesting(NestOf(s.open), item.t)
  BY <1>2, <1>5, <1>7 DEF Nesting
<1> HIDE DEF c, item, b
<1>11. Formats(s1, depth)
  <2>1. InObject(s) \/ item.t = "END" \/ item.name = <<>>
    BY <1>5 DEF NameIn
  <2>2. c = (Last(s.open).members > 0)
    BY DEF c
  <2>3. QED
    BY <1>1, <1>2, <1>5, <1>7, <1>8, <1>9, <1>10, <2>1, <2>2, FormatterPuts
<1>12. QED
  BY <1>2, <1>7, <1>11 DEF item, b, Putting
\* So does an array or object that is opened while a level is left.
LEMMA OpenedIs ==
    ASSUME NEW s, NEW depth \in Nat, Formats(s, depth), s.open # <<>>,
           Len(s.open) \in 0..(depth - 1), NEW name \in Strings, NEW t, NEW first, NEW last,
           Brackets(t, first, last),
           NEW s1, s1 = Opened(s, t, name, first, last)
    PROVE  Formats(s1, depth) /\ Opening(s1, s, t, name, first, last)
<1> DEFINE b == BeginMember(s, name)
           c == Last(s.open).members > 0
           item == Item(t, NameIn(s, name), <<>>)
           x == [close |-> last, members |-> 0]
<1>1. /\ s \in Formatters /\ s.open \in Seq(Streams)
      /\ s.items \in Seq(Items) /\ s.dump \in Seq(Lexemes)
  BY FormatsLevel
<1>2. /\ b \in Formatters /\ b.items = s.items
      /\ NestOf(b.open) = NestOf(s.open)
      /\ Len(b.open) = Len(s.open) /\ b.open # <<>>
      /\ Last(b.open).members > 0
  <2>1. b \in {StreamBeginMember(s), b}
    OBVIOUS
  <2>2. QED
    BY <1>1, <2>1, BeginIs
<1>3. s1 = [Noted(Dump(b, <<first>>), item) EXCEPT !.open = Append(@, x)]
  BY DEF Opened, NameIn
<1>4. NameIn(s, name) \in Strings
  BY StringsHaveEmpty DEF NameIn
<1>5. /\ item \in Items /\ item.t = t /\ item.name = NameIn(s, name)
  <2>1. t \in ItemTypes /\ t # "VALUE"
    BY DEF Brackets, ItemTypes
  <2>2. QED
    BY <1>4, <2>1 DEF Item, Items, ItemTypes
<1>6. x \in Streams /\ x.close = last /\ x.members = 0
  <2>1. last \in {"}", "]"}
    BY DEF Brackets
  <2>2. QED
    BY <2>1 DEF Streams
<1>7. first \in Lexemes
  BY DEF Lexemes, Brackets
<1>8. /\ s1.dump = b.dump \o <<first>> /\ s1.items = Append(s.items, item)
      /\ s1.open = Append(b.open, x) /\ s1 \in Formatters
  <2> HIDE DEF b, item, x
  <2>1. /\ s1.dump = b.dump \o <<first>> /\ s1.items = Append(s.items, item)
        /\ s1.open = Append(b.open, x)
        /\ s1 = [dump |-> s1.dump, open |-> s1.open, items |-> s1.items]
    BY <1>2, <1>3 DEF Noted, Dump, Formatters
  <2>2. b.dump \in Seq(Lexemes) /\ b.open \in Seq(Streams)
    BY <1>2 DEF Formatters
  <2>3. /\ b.dump \o <<first>> \in Seq(Lexemes)
        /\ Append(s.items, item) \in Seq(Items)
        /\ Append(b.open, x) \in Seq(Streams)
    <3>1. b.dump \o <<first>> \in Seq(Lexemes)
      BY <2>2, <1>7
    <3>2. Append(s.items, item) \in Seq(Items)
      BY <1>1, <1>5, AppendProperties
    <3>3. Append(b.open, x) \in Seq(Streams)
      BY <2>2, <1>6, AppendProperties
    <3>4. QED
      BY <3>1, <3>2, <3>3
  <2>4. QED
    BY <2>1, <2>2, <2>3 DEF Formatters
<1>9. c \in BOOLEAN /\ InObject(s) \in BOOLEAN
  <2>1. InObject(s) \in BOOLEAN
    BY Zenon DEF InObject
  <2>2. c \in BOOLEAN
    OBVIOUS
  <2>3. QED
    BY <2>1, <2>2
<1>10. s1.dump = s.dump \o WithComma(c, item, InObject(s))
  <2>1. Body(item) = <<first>>
    BY <1>5 DEF Body, Brackets
  <2>2. b.dump \o Body(item) = s.dump \o WithComma(c, item, InObject(s))
    <3>1. item.t # "END"
      BY <1>5 DEF Brackets
    <3>2. QED
      BY <3>1, <1>1, <1>5, PutDump
  <2> HIDE DEF c, item, b
  <2>3. QED
    BY <2>1, <2>2, <1>8
<1>11. b.open \in Seq(Streams)
  BY <1>2 DEF Formatters
<1>12. NestOf(s1.open) = Append(NestOf(s.open), last = "}")
  <2> HIDE DEF b, x
  <2>1. NestOf(Append(b.open, x)) = Append(NestOf(b.open), x.close = "}")
    BY <1>6, <1>11, NestOfPush
  <2>2. QED
    BY <2>1, <1>2, <1>6, <1>8
<1>13. NestOf(s1.open) = Nesting(NestOf(s.open), item.t)
  <2> HIDE DEF item
  <2>1. CASE t = "ARRAY"
    <3>1. (last = "}") = FALSE
      BY <2>1 DEF Brackets
    <3>2. Nesting(NestOf(s.open), item.t) = Append(NestOf(s.open), FALSE)
      BY <2>1, <1>5, Zenon DEF Nesting
    <3>3. QED
      BY <3>1, <3>2, <1>12, Zenon
  <2>2. CASE t = "OBJECT"
    <3>1. (last = "}") = TRUE
      BY <2>2 DEF Brackets
    <3>2. Nesting(NestOf(s.open), item.t) = Append(NestOf(s.open), TRUE)
      <4>1. item.t # "ARRAY"
        BY <1>5, <2>2
      <4>2. QED
        BY <2>2, <1>5, <4>1, Zenon DEF Nesting
    <3>3. QED
      BY <3>1, <3>2, <1>12, Zenon
  <2>3. QED
    BY <2>1, <2>2 DEF Brackets
<1>14. Len(s1.open) = Len(s.open) + 1 /\ Last(s1.open) = x /\ s1.open # <<>>
  <2> HIDE DEF b, x
  <2>1. PICK o \in Seq(Streams) : o = b.open
    BY <1>11
  <2>2. Len(Append(o, x)) = Len(o) + 1 /\ Append(o, x)[Len(o) + 1] = x
    BY <2>1, <1>6, AppendProperties
  <2>3. Len(o) \in Nat
    BY <2>1
  <2>4. Last(Append(o, x)) = x /\ Append(o, x) # <<>>
    BY <2>2, <2>3 DEF Last
  <2>5. QED
    BY <1>2, <1>8, <2>1, <2>2, <2>4
<1>15. (last = "}") = (t = "OBJECT")
  BY DEF Brackets
<1> HIDE DEF c, item, b, x
<1>16. Formats(s1, depth)
  <2>1. InObject(s) \/ item.t = "END" \/ item.name = <<>>
    BY <1>5 DEF NameIn
  <2>2. c = (Last(s.open).members > 0)
    BY DEF c
  <2>3. item.t # "END" /\ item.t # "VALUE"
    BY <1>5 DEF Brackets
  <2>4. Len(s1.open) <= depth
    <3>1. Len(s.open) \in Nat
      BY <1>1
    <3>2. QED
      BY <3>1, <1>14
  <2>5. QED
    BY <1>1, <1>2, <1>5, <1>8, <1>9, <1>10, <1>13, <2>1, <2>2, <2>3, <2>4,
       FormatterPuts
<1>17. InObject(s1) = (t = "OBJECT") /\ Last(s1.open).members = 0
  BY <1>6, <1>14, <1>15 DEF InObject
<1>18. NestOf(s1.open) = Append(NestOf(s.open), t = "OBJECT")
  BY <1>12, <1>15, Zenon
<1>19. QED
  BY <1>8, <1>14, <1>16, <1>17, <1>18 DEF item, x, b, Opening
\* An end has neither a name nor a value.
LEMMA EndItemIs ==
    /\ EndItem \in Items /\ EndItem.t = "END" /\ EndItem.name = <<>>
    /\ EndItem.v = <<>>
  BY StringsHaveEmpty DEF EndItem, Item, Items, ItemTypes

\* What the innermost stream writes at its end.
LEMMA EndIs ==
    ASSUME NEW inObject \in BOOLEAN
    PROVE  WithComma(FALSE, EndItem, inObject) = <<IF inObject THEN "}" ELSE "]">>
<1>1. Comma(FALSE) = <<>>
  BY Zenon DEF Comma
<1>2. Piece(EndItem, inObject) = <<IF inObject THEN "}" ELSE "]">>
  BY EndItemIs DEF Piece
<1>3. WithComma(FALSE, EndItem, inObject) = <<>> \o Piece(EndItem, inObject)
  BY <1>1, Zenon DEF WithComma
<1>4. Piece(EndItem, inObject) \in Seq(Lexemes)
  BY EndItemIs, PieceIs
<1>5. <<>> \o Piece(EndItem, inObject) = Piece(EndItem, inObject)
  BY <1>4, ConcatEmptySeq
<1>6. QED
  BY <1>2, <1>3, <1>5

\* The innermost stream is closed.
LEMMA NestOfFront ==
    ASSUME NEW open \in Seq(Streams), open # <<>>
    PROVE  /\ Front(open) \in Seq(Streams)
           /\ Len(Front(open)) = Len(open) - 1
           /\ NestOf(Front(open)) = Front(NestOf(open))
<1>1. PICK n \in Nat \ {0} : n = Len(open)
  BY EmptySeq
<1>2. /\ Front(open) \in Seq(Streams) /\ Len(Front(open)) = n - 1
      /\ \A i \in 1..(n - 1) : Front(open)[i] = open[i]
  BY <1>1 DEF Front
<1>3. NestOf(open) \in Seq(BOOLEAN) /\ Len(NestOf(open)) = n
  BY <1>1, NestOfIs
<1>4. PICK p \in Seq(BOOLEAN) : p = NestOf(open)
  BY <1>3
<1>5. /\ Front(p) \in Seq(BOOLEAN) /\ Len(Front(p)) = n - 1
      /\ \A i \in 1..(n - 1) : Front(p)[i] = p[i]
  BY <1>1, <1>3, <1>4 DEF Front
<1>6. NestOf(Front(open)) \in Seq(BOOLEAN) /\ Len(NestOf(Front(open))) = n - 1
  BY <1>2, NestOfIs
<1>7. ASSUME NEW i \in 1..(n - 1)
      PROVE  NestOf(Front(open))[i] = Front(p)[i]
  <2>1. NestOf(Front(open))[i] = (Front(open)[i].close = "}")
    BY <1>2 DEF NestOf
  <2>2. i \in 1..n
    BY <1>1
  <2>3. NestOf(open)[i] = (open[i].close = "}")
    BY <1>1, <2>2 DEF NestOf
  <2>4. Front(open)[i] = open[i] /\ Front(p)[i] = p[i]
    BY <1>2, <1>5
  <2>5. QED
    BY <2>1, <2>3, <2>4, <1>4
<1>8. NestOf(Front(open)) = Front(p)
  BY <1>5, <1>6, <1>7, SeqEqual
<1>9. QED
  BY <1>1, <1>2, <1>4, <1>8

\* The innermost stream is closed.
LEMMA EndFormats ==
    ASSUME NEW s, NEW depth \in Nat, Formats(s, depth), s.open # <<>>,
           NEW s1 \in [dump : Seq(Lexemes), open : Seq(Streams), items : Seq(Items)],
           s1.dump = s.dump \o <<Last(s.open).close>>,
           s1.items = Append(s.items, EndItem),
           s1.open = Front(s.open)
    PROVE  Formats(s1, depth)
<1>1. /\ s \in Formatters /\ s.open \in Seq(Streams)
      /\ s.items \in Seq(Items) /\ s.dump \in Seq(Lexemes)
      /\ Len(s.open) <= depth /\ Len(s.open) \in Nat
  BY FormatsLevel
<1>2. s1 \in Formatters
  BY DEF Formatters
<1>3. InObject(s) \in BOOLEAN
  BY Zenon DEF InObject
<1>4. Last(s.open).close = IF InObject(s) THEN "}" ELSE "]"
  <2>1. Len(s.open) \in 1..Len(s.open)
    BY <1>1, EmptySeq
  <2>2. Last(s.open) \in Streams
    BY <1>1, <2>1 DEF Last
  <2>3. Last(s.open).close \in {"}", "]"}
    BY <2>2 DEF Streams
  <2>4. QED
    BY <2>3 DEF InObject
<1>5. s1.dump = s.dump \o WithComma(FALSE, EndItem, InObject(s))
  BY <1>3, <1>4, EndIs
<1>6. /\ NestOf(s1.open) = Front(NestOf(s.open))
      /\ Len(s1.open) = Len(s.open) - 1
  BY <1>1, NestOfFront
<1>7. Nesting(NestOf(s.open), EndItem.t) = Front(NestOf(s.open))
  <2>1. EndItem.t # "ARRAY" /\ EndItem.t # "OBJECT" /\ EndItem.t = "END"
    BY EndItemIs
  <2>2. QED
    BY <2>1, Zenon DEF Nesting
<1>8. Len(s1.open) <= depth
  <2>1. PICK n \in Nat : n = Len(s.open)
    BY <1>1
  <2>2. n <= depth
    BY <1>1, <2>1
  <2>3. QED
    BY <2>1, <2>2, <1>6
<1>9. FALSE \in BOOLEAN
  OBVIOUS
<1>10. EndItem \in Items /\ EndItem.t = "END" /\ EndItem.t # "VALUE"
  BY EndItemIs
<1>11. QED
  BY <1>2, <1>5, <1>6, <1>7, <1>8, <1>9, <1>10, FormatterPuts
\* Counting down what is open.
LEMMA CountDown ==
    \A n \in Nat : \A m \in 0..n :
      /\ m \in Nat
      /\ m < n => /\ m < m + 1 /\ m + 1 \in 1..n
                  /\ n + 1 - (m + 1) = n - m
      /\ \A i \in 1..m : /\ (m - i) + 1 \in 1..m
                         /\ (n + 1 - m) + ((m - i) + 1) - 1 = n + 1 - i
  OBVIOUS

\* Append behind a concatenation, for texts and for items.
LEMMA ConcatAppend ==
    ASSUME NEW V, NEW p \in Seq(V), NEW q \in Seq(V), NEW x \in V
    PROVE  /\ p \o Append(q, x) = (p \o q) \o <<x>>
           /\ p \o Append(q, x) = Append(p \o q, x)
<1>1. /\ Append(q, x) \in Seq(V) /\ Len(Append(q, x)) = Len(q) + 1
      /\ <<x>> \in Seq(V) /\ p \o q \in Seq(V) /\ Len(p \o q) = Len(p) + Len(q)
  OBVIOUS
<1> DEFINE l == p \o Append(q, x)
           r1 == (p \o q) \o <<x>>
           r2 == Append(p \o q, x)
<1>2. /\ l \in Seq(V) /\ r1 \in Seq(V) /\ r2 \in Seq(V)
      /\ Len(l) = Len(p) + Len(q) + 1 /\ Len(r1) = Len(p) + Len(q) + 1
      /\ Len(r2) = Len(p) + Len(q) + 1
  BY <1>1
<1>3. \A i \in 1..(Len(p) + Len(q) + 1) : l[i] = r1[i] /\ l[i] = r2[i]
  BY <1>1
<1> HIDE DEF l, r1, r2
<1>4. l = r1 /\ l = r2
  BY <1>2, <1>3, SeqEqual
<1>5. QED
  BY <1>4 DEF l, r1, r2

\* The same for texts, to be cited as it stands.
LEMMA AppendToText ==
    \A p, q \in Seq(Lexemes), x \in Lexemes :
      p \o Append(q, x) = (p \o q) \o <<x>>
  BY ConcatAppend

\* The same for items.
LEMMA AppendToItems ==
    \A p, q \in Seq(Items), x \in Items :
      p \o Append(q, x) = Append(p \o q, x)
  BY ConcatAppend

\* What Close writes for the m innermost streams, one more at a time.
LEMMA ClosingIs ==
    ASSUME NEW s \in Formatters, NEW n \in Nat, n = Len(s.open), NEW m \in 0..n
    PROVE  /\ Closing(s, m) \in Seq(Lexemes) /\ Ends(m) \in Seq(Items)
           /\ m < n => /\ Closing(s, m + 1) =
                            Append(Closing(s, m), s.open[n - m].close)
                       /\ Ends(m + 1) = Append(Ends(m), EndItem)
<1>1. s.open \in Seq(Streams)
  BY DEF Formatters
<1>2. ASSUME NEW i \in 1..n
      PROVE  s.open[i] \in Streams /\ s.open[i].close \in Lexemes
  <2>1. s.open[i] \in Streams
    BY <1>1
  <2>2. s.open[i].close \in {"}", "]"}
    BY <2>1 DEF Streams
  <2>3. QED
    BY <2>1, <2>2 DEF Lexemes
<1>3. \A i \in 1..m : n + 1 - i \in 1..n
  OBVIOUS
<1>4. Closing(s, m) \in [1..m -> Lexemes]
  <2>1. \A i \in 1..m : s.open[n + 1 - i].close \in Lexemes
    BY <1>2, <1>3
  <2>2. QED
    BY <2>1 DEF Closing
<1>5. Ends(m) \in [1..m -> Items]
  BY EndItemIs DEF Ends
<1>6. Closing(s, m) \in Seq(Lexemes) /\ Ends(m) \in Seq(Items)
  BY <1>4, <1>5
<1>7. ASSUME m < n
      PROVE  /\ Closing(s, m + 1) = Append(Closing(s, m), s.open[n - m].close)
             /\ Ends(m + 1) = Append(Ends(m), EndItem)
  <2> DEFINE x == s.open[n - m].close
             l == Closing(s, m + 1)
             r == Append(Closing(s, m), x)
             l2 == Ends(m + 1)
             r2 == Append(Ends(m), EndItem)
  <2>1. PICK k \in Nat : k = m + 1
    OBVIOUS
  <2>2. m \in Nat /\ m < k /\ k \in 1..n /\ n + 1 - k = n - m /\ k = m + 1
    BY <1>7, <2>1, CountDown
  <2>3. x \in Lexemes
    BY <1>2, <2>2
  <2>4. Len(Closing(s, m)) = m /\ Len(Ends(m)) = m
    BY <1>4, <1>5, LenProperties
  <2> HIDE DEF x
  <2>5. /\ r \in Seq(Lexemes) /\ Len(r) = k /\ r[k] = x
        /\ \A i \in 1..m : r[i] = Closing(s, m)[i]
    BY <1>6, <2>2, <2>3, <2>4, AppendProperties
  <2>6. /\ r2 \in Seq(Items) /\ Len(r2) = k /\ r2[k] = EndItem
        /\ \A i \in 1..m : r2[i] = Ends(m)[i]
    BY <1>6, <2>2, <2>4, EndItemIs, AppendProperties
  <2>7. l = [i \in 1..k |-> s.open[n + 1 - i].close]
    BY <2>2 DEF Closing
  <2>8. l2 = [i \in 1..k |-> EndItem]
    BY <2>2 DEF Ends
  <2>9. r = [i \in 1..k |-> r[i]] /\ r2 = [i \in 1..k |-> r2[i]]
    <3> HIDE DEF r, r2
    <3>1. QED
      BY <2>5, <2>6
  <2>10. ASSUME NEW i \in 1..k
         PROVE  r[i] = s.open[n + 1 - i].close /\ r2[i] = EndItem
    <3>1. CASE i = k
      BY <3>1, <2>2, <2>5, <2>6 DEF x
    <3>2. CASE i # k
      <4>1. i \in 1..m
        BY <3>2, <2>2
      <4>2. Closing(s, m)[i] = s.open[n + 1 - i].close
        BY <4>1 DEF Closing
      <4>3. Ends(m)[i] = EndItem
        BY <4>1 DEF Ends
      <4>4. r[i] = Closing(s, m)[i] /\ r2[i] = Ends(m)[i]
        BY <4>1, <2>5, <2>6
      <4> HIDE DEF r, r2
      <4>5. QED
        BY <4>2, <4>3, <4>4
    <3>3. QED
      BY <3>1, <3>2
  <2> HIDE DEF l, l2, r, r2
  <2>11. l = r /\ l2 = r2
    BY <2>7, <2>8, <2>9, <2>10
  <2>12. QED
    BY <2>11 DEF l, r, l2, r2, x
<1>8. QED
  BY <1>6, <1>7

\* What Close makes of a formatter.
LEMMA CloseShape ==
    ASSUME NEW s \in Formatters, NEW n \in Nat, n = Len(s.open), NEW m \in 0..n
    PROVE  /\ Close(s, n + 1 - m) \in Formatters
           /\ Close(s, n + 1 - m).dump = s.dump \o Closing(s, m)
           /\ Close(s, n + 1 - m).items = s.items \o Ends(m)
           /\ Close(s, n + 1 - m).open = SubSeq(s.open, 1, n - m)
<1> DEFINE level == n + 1 - m
           sub == SubSeq(s.open, level, n)
           closed == Reverse(sub)
<1>1. /\ s.open \in Seq(Streams) /\ s.items \in Seq(Items)
      /\ s.dump \in Seq(Lexemes)
      /\ s = [dump |-> s.dump, open |-> s.open, items |-> s.items]
  BY DEF Formatters
<1>2. level \in 1..(n + 1) /\ n - level + 1 = m /\ level - 1 = n - m /\ m \in Nat
  OBVIOUS
<1>3. Len(sub) = m /\ \A i \in 1..m : sub[i] = s.open[level + i - 1]
  <2> HIDE DEF level
  <2>1. QED
    BY <1>1, <1>2, SMTT(30)
<1>4. closed = [i \in 1..m |-> s.open[n + 1 - i]]
  <2>1. closed = [i \in 1..m |-> sub[(m - i) + 1]]
    BY <1>3 DEF Reverse
  <2>2. ASSUME NEW i \in 1..m
        PROVE  sub[(m - i) + 1] = s.open[n + 1 - i]
    <3>1. (m - i) + 1 \in 1..m /\ level + ((m - i) + 1) - 1 = n + 1 - i
      BY CountDown
    <3>2. QED
      BY <3>1, <1>3
  <2> HIDE DEF sub
  <2>3. QED
    BY <2>1, <2>2
<1>5. DOMAIN closed = 1..m
  BY <1>4
<1>6. [i \in DOMAIN closed |-> closed[i].close] = Closing(s, m)
  <2>1. \A i \in 1..m : closed[i].close = s.open[n + 1 - i].close
    BY <1>4
  <2> HIDE DEF closed
  <2>2. QED
    BY <2>1, <1>5 DEF Closing
<1>7. [i \in DOMAIN closed |-> Item("END", <<>>, <<>>)] = Ends(m)
  BY <1>5, Zenon DEF Ends, EndItem
<1>8. Close(s, level) =
        [s EXCEPT !.open = SubSeq(s.open, 1, level - 1),
                  !.dump = s.dump \o [i \in DOMAIN closed |-> closed[i].close],
                  !.items = s.items \o [i \in DOMAIN closed |->
                                    Item("END", <<>>, <<>>)]]
  BY Zenon DEF Close
<1>9. Close(s, level) =
        [s EXCEPT !.open = SubSeq(s.open, 1, n - m),
                  !.dump = s.dump \o Closing(s, m),
                  !.items = s.items \o Ends(m)]
  BY <1>2, <1>6, <1>7, <1>8
<1> DEFINE c == Close(s, level)
<1>10. c = [open |-> SubSeq(s.open, 1, n - m), dump |-> s.dump \o Closing(s, m),
            items |-> s.items \o Ends(m)]
  <2> HIDE DEF c
  <2>1. c = [s EXCEPT !.open = SubSeq(s.open, 1, n - m),
                  !.dump = s.dump \o Closing(s, m),
                  !.items = s.items \o Ends(m)]
    BY <1>9 DEF c
  <2>2. QED
    BY <2>1, <1>1
<1>11. /\ SubSeq(s.open, 1, n - m) \in Seq(Streams)
       /\ s.dump \o Closing(s, m) \in Seq(Lexemes)
       /\ s.items \o Ends(m) \in Seq(Items)
  <2>1. SubSeq(s.open, 1, n - m) \in Seq(Streams)
    BY <1>1
  <2>2. Closing(s, m) \in Seq(Lexemes) /\ Ends(m) \in Seq(Items)
    BY ClosingIs
  <2>3. s.dump \o Closing(s, m) \in Seq(Lexemes)
    BY <1>1, <2>2, ConcatProperties
  <2>4. s.items \o Ends(m) \in Seq(Items)
    BY <1>1, <2>2, ConcatProperties
  <2>5. QED
    BY <2>1, <2>3, <2>4
<1>12. c \in Formatters
  <2> HIDE DEF c
  <2>1. QED
    BY <1>10, <1>11 DEF Formatters
<1>13. /\ c.dump = s.dump \o Closing(s, m) /\ c.items = s.items \o Ends(m)
       /\ c.open = SubSeq(s.open, 1, n - m)
  <2> HIDE DEF c
  <2>1. QED
    BY <1>10
<1>14. QED
  BY <1>12, <1>13

\* Closing writes the ends of all that is open down to the level.
LEMMA CloseIs ==
    ASSUME NEW s, NEW depth \in Nat, Formats(s, depth),
           NEW level \in 1..Len(s.open)
    PROVE  /\ Formats(Close(s, level), depth)
           /\ Close(s, level).open = SubSeq(s.open, 1, level - 1)
           /\ Close(s, level).items = s.items \o Ends(Len(s.open) + 1 - level)
<1>1. /\ s \in Formatters /\ s.open \in Seq(Streams)
      /\ s.items \in Seq(Items) /\ s.dump \in Seq(Lexemes)
  BY FormatsLevel
<1>2. PICK n \in Nat : n = Len(s.open)
  BY <1>1
<1> DEFINE C(m) == Close(s, n + 1 - m)
           S == {m \in Int : Formats(C(m), depth)}
<1>3. \A m \in 0..n : /\ C(m) \in Formatters
                      /\ C(m).dump = s.dump \o Closing(s, m)
                      /\ C(m).items = s.items \o Ends(m)
                      /\ C(m).open = SubSeq(s.open, 1, n - m)
  BY <1>1, <1>2, CloseShape
<1> HIDE DEF C
<1>4. 0 \in S
  <2>1. 0 \in 0..n /\ n - 0 = n
    OBVIOUS
  <2>2. Closing(s, 0) = <<>> /\ Ends(0) = <<>>
    BY DEF Closing, Ends
  <2>3. s.dump \o <<>> = s.dump /\ s.items \o <<>> = s.items
    BY <1>1, ConcatEmptySeq
  <2>4. SubSeq(s.open, 1, n) = s.open
    BY <1>1, <1>2
  <2>5. C(0).dump = s.dump /\ C(0).items = s.items /\ C(0).open = s.open
    BY <2>1, <2>2, <2>3, <2>4, <1>3
  <2>6. C(0) = s
    <3>1. C(0) \in Formatters
      BY <2>1, <1>3
    <3>2. PICK c \in Formatters : c = C(0)
      BY <3>1
    <3>3. QED
      BY <3>2, <2>5, <1>1 DEF Formatters
  <2>7. 0 \in Int
    OBVIOUS
  <2>8. QED
    BY <2>6, <2>7
<1>5. ASSUME NEW m \in 0..(n - 1), m \in S PROVE m + 1 \in S
  <2>1. PICK k \in 1..n : k = m + 1
    OBVIOUS
  <2>2. m \in 0..n /\ k \in 0..n /\ m < n /\ n - m \in 1..n
        /\ n - k = (n - m) - 1
    BY <2>1
  <2>3. PICK a : a = C(m)
    OBVIOUS
  <2>4. PICK b : b = C(k)
    OBVIOUS
  <2>5. PICK h \in 1..n : h = n - m
    BY <2>2
  <2>6. /\ a \in Formatters /\ b \in Formatters
        /\ a.dump = s.dump \o Closing(s, m) /\ a.items = s.items \o Ends(m)
        /\ a.open = SubSeq(s.open, 1, h)
        /\ b.dump = s.dump \o Closing(s, k) /\ b.items = s.items \o Ends(k)
        /\ b.open = SubSeq(s.open, 1, h - 1)
    BY <1>3, <2>2, <2>3, <2>4, <2>5
  <2>7. /\ Closing(s, m) \in Seq(Lexemes) /\ Ends(m) \in Seq(Items)
        /\ Closing(s, k) = Append(Closing(s, m), s.open[h].close)
        /\ Ends(k) = Append(Ends(m), EndItem)
    BY <1>1, <1>2, <2>1, <2>2, <2>5, ClosingIs
  <2>8. /\ a.open \in Seq(Streams) /\ Len(a.open) = h
        /\ a.open # <<>> /\ Last(a.open) = s.open[h]
        /\ Front(a.open) = b.open
    <3>1. PICK o : o = SubSeq(s.open, 1, h)
      OBVIOUS
    <3>2. /\ o \in Seq(Streams) /\ Len(o) = h
          /\ \A i \in 1..h : o[i] = s.open[i]
      BY <3>1, <1>1, <1>2, <2>5, SMTT(30)
    <3>3. o # <<>> /\ Last(o) = s.open[h]
      BY <3>2, <2>5 DEF Last
    <3>4. Front(o) = SubSeq(s.open, 1, h - 1)
      <4>1. h - 1 \in 0..n
        BY <2>5
      <4>2. Front(o) = SubSeq(o, 1, h - 1)
        BY <3>2 DEF Front
      <4>3. SubSeq(o, 1, h - 1) = SubSeq(s.open, 1, h - 1)
        BY <3>2, <1>1, <1>2, <2>5, <4>1, SMTT(30)
      <4>4. QED
        BY <4>2, <4>3
    <3>5. QED
      BY <2>6, <3>1, <3>2, <3>3, <3>4
  <2>9. s.open[h].close \in Lexemes
    <3>1. s.open[h] \in Streams
      BY <1>1, <1>2, <2>5
    <3>2. s.open[h].close \in {"}", "]"}
      BY <3>1 DEF Streams
    <3>3. QED
      BY <3>2 DEF Lexemes
  <2>10. b.dump = a.dump \o <<Last(a.open).close>>
    <3>1. PICK x \in Lexemes : x = s.open[h].close
      BY <2>9
    <3>2. PICK p \in Seq(Lexemes) : p = s.dump
      BY <1>1
    <3>3. PICK q \in Seq(Lexemes) : q = Closing(s, m)
      BY <2>7
    <3>4. p \o Append(q, x) = (p \o q) \o <<x>>
      BY <3>1, <3>2, <3>3, AppendToText, Zenon
    <3>5. QED
      BY <3>1, <3>2, <3>3, <3>4, <2>6, <2>7, <2>8
  <2>11. b.items = Append(a.items, EndItem)
    <3>1. PICK x \in Items : x = EndItem
      BY EndItemIs
    <3>2. PICK p \in Seq(Items) : p = s.items
      BY <1>1
    <3>3. PICK q \in Seq(Items) : q = Ends(m)
      BY <2>7
    <3>4. p \o Append(q, x) = Append(p \o q, x)
      BY <3>1, <3>2, <3>3, AppendToItems, Zenon
    <3>5. QED
      BY <3>1, <3>2, <3>3, <3>4, <2>6, <2>7
  <2>12. Formats(a, depth)
    BY <1>5, <2>3
  <2>13. Formats(b, depth)
    BY <2>6, <2>8, <2>10, <2>11, <2>12, EndFormats DEF Formatters
  <2>14. QED
    BY <2>1, <2>4, <2>13
<1>6. \A m \in 0..n : m \in S
  <2> HIDE DEF S
  <2>1. 0 \in Int /\ n \in Int
    OBVIOUS
  <2>2. QED
    BY <2>1, <1>4, <1>5, Climb
<1>7. PICK m \in 0..n : m = n + 1 - level
  <2>1. level \in 1..n
    BY <1>2
  <2>2. n + 1 - level \in 0..n
    BY <2>1
  <2>3. QED
    BY <2>2
<1>8. n + 1 - m = level /\ n - m = level - 1
  BY <1>2, <1>7
<1>9. Formats(C(m), depth) /\ C(m) = Close(s, level)
  BY <1>6, <1>8 DEF C
<1>10. C(m).open = SubSeq(s.open, 1, level - 1) /\ C(m).items = s.items \o Ends(m)
  BY <1>3, <1>8
<1>11. QED
  BY <1>2, <1>7, <1>9, <1>10
\* Texts in any order of the operators.
LEMMA TextConcat ==
    \A x, y \in Seq(Lexemes) : x \o y \in Seq(Lexemes)
  BY ConcatProperties

\* A member with an array of one value, behind what is there.
LEMMA ThreeTexts ==
    ASSUME NEW d \in Seq(Lexemes), NEW x \in Seq(Lexemes), NEW y \in Seq(Lexemes)
    PROVE  /\ x \o y \in Seq(Lexemes)
           /\ (d \o x) \o y = d \o (x \o y)
  BY ConcatAgain

\* The text of a member, seen as a whole behind the text before it.
LEMMA MemberText ==
    ASSUME NEW d \in Seq(Lexemes), NEW q \in Seq(Lexemes),
           NEW k \in Seq(Lexemes), NEW a \in Seq(Lexemes),
           NEW w \in Seq(Lexemes), NEW e \in Seq(Lexemes)
    PROVE  /\ ((q \o (k \o a)) \o w) \o e \in Seq(Lexemes)
           /\ Same((((d \o (q \o k)) \o a) \o w) \o e,
                   d \o (((q \o (k \o a)) \o w) \o e))
<1>1. PICK x \in Seq(Lexemes) : /\ x = (q \o (k \o a)) \o w
                                /\ ((d \o (q \o k)) \o a) \o w = d \o x
  <2>1. PICK qk \in Seq(Lexemes) : qk = q \o k
    BY TextConcat, Zenon
  <2>2. PICK m \in Seq(Lexemes) : m = q \o (k \o a)
    <3>1. k \o a \in Seq(Lexemes)
      OBVIOUS
    <3>2. QED
      BY <3>1, TextConcat, Zenon
  <2>3. (d \o qk) \o a = d \o (qk \o a)
    BY SMTT(30)
  <2>4. qk \o a = m
    <3>1. (q \o k) \o a = q \o (k \o a)
      BY SMTT(30)
    <3>2. QED
      BY <3>1, <2>1, <2>2
  <2>5. (d \o m) \o w = d \o (m \o w) /\ m \o w \in Seq(Lexemes)
    BY SMTT(30)
  <2>6. ((d \o (q \o k)) \o a) \o w = d \o (m \o w)
    BY <2>1, <2>3, <2>4, <2>5
  <2>7. QED
    BY <2>2, <2>5, <2>6
<1>2. (d \o x) \o e = d \o (x \o e) /\ x \o e \in Seq(Lexemes)
  BY SMTT(30)
<1>3. QED
  BY <1>1, <1>2 DEF Same

\* Cat is associative.
LEMMA CatIs ==
    ASSUME NEW x \in Seq(Lexemes), NEW y \in Seq(Lexemes), NEW z \in Seq(Lexemes)
    PROVE  /\ Cat(x, y) \in Seq(Lexemes)
           /\ Cat(Cat(x, y), z) = Cat(x, Cat(y, z))
  BY ThreeTexts, SMTT(30) DEF Cat

\* The text of a member that is a formatter, seen as a whole.
LEMMA ObjectCat ==
    ASSUME NEW o \in Seq(Lexemes), NEW q \in Seq(Lexemes),
           NEW c \in Seq(Lexemes), NEW w \in Seq(Lexemes),
           NEW e \in Seq(Lexemes), NEW g \in Seq(Lexemes)
    PROVE  Same(Cat(Cat(Cat(Cat(o, q), c), w), Cat(e, g)),
                Cat(Cat(o, Cat(Cat(Cat(q, c), w), e)), g))
<1>1. PICK m \in Seq(Lexemes) : m = Cat(q, c)
  BY CatIs
<1>2. Cat(Cat(o, q), c) = Cat(o, m)
  BY <1>1, CatIs
<1>3. PICK x \in Seq(Lexemes) : x = Cat(m, w)
  BY CatIs
<1>4. Cat(Cat(o, m), w) = Cat(o, x)
  BY <1>3, CatIs
<1>5. PICK z \in Seq(Lexemes) : z = Cat(o, x)
  BY CatIs
<1>6. Cat(z, Cat(e, g)) = Cat(Cat(z, e), g)
  BY CatIs
<1>7. Cat(z, e) = Cat(o, Cat(x, e))
  BY <1>5, CatIs
<1>8. QED
  BY <1>1, <1>2, <1>3, <1>4, <1>5, <1>6, <1>7 DEF Same

\* The same for a text that was put together of these parts.
LEMMA PartsText ==
    ASSUME NEW d, NEW q, NEW k, NEW a, NEW w, NEW e, NEW g,
           Parts(d, q, k, a, w, e, g)
    PROVE  /\ ((q \o (k \o a)) \o w) \o e \in Seq(Lexemes)
           /\ Same((((d \o (q \o k)) \o a) \o w) \o e,
                   d \o (((q \o (k \o a)) \o w) \o e))
           /\ Same((((d \o q) \o (k \o a)) \o w) \o (e \o g),
                   (d \o (((q \o (k \o a)) \o w) \o e)) \o g)
<1>1. /\ d \in Seq(Lexemes) /\ q \in Seq(Lexemes) /\ k \in Seq(Lexemes)
      /\ a \in Seq(Lexemes) /\ w \in Seq(Lexemes) /\ e \in Seq(Lexemes)
      /\ g \in Seq(Lexemes)
  BY DEF Parts
<1>2. /\ ((q \o (k \o a)) \o w) \o e \in Seq(Lexemes)
      /\ Same((((d \o (q \o k)) \o a) \o w) \o e,
              d \o (((q \o (k \o a)) \o w) \o e))
  BY <1>1, MemberText, Zenon
<1>3. PICK c \in Seq(Lexemes) : c = k \o a
  BY <1>1, TextConcat, Zenon
<1>4. Same(Cat(Cat(Cat(Cat(d, q), c), w), Cat(e, g)),
           Cat(Cat(d, Cat(Cat(Cat(q, c), w), e)), g))
  <2>1. c \in Seq(Lexemes)
    BY <1>3
  <2>2. QED
    BY <1>1, <2>1, ObjectCat, Zenon
<1>5. Same((((d \o q) \o c) \o w) \o (e \o g), (d \o (((q \o c) \o w) \o e)) \o g)
  BY <1>4, Zenon DEF Cat
<1>6. QED
  BY <1>2, <1>3, <1>5, Zenon

\* The leading and the trailing brace are taken off.
LEMMA BareText ==
    ASSUME NEW o \in Lexemes, NEW m \in Seq(Lexemes), NEW g \in Lexemes
    PROVE  Tail(Front((<<o>> \o m) \o <<g>>)) = m
<1> DEFINE om == <<o>> \o m
           all == om \o <<g>>
           n == Len(m)
<1>1. n \in Nat /\ om \in Seq(Lexemes) /\ Len(om) = n + 1
      /\ \A i \in 1..n : om[i + 1] = m[i]
  OBVIOUS
<1> HIDE DEF om
<1>2. /\ all \in Seq(Lexemes) /\ Len(all) = n + 2
      /\ \A i \in 1..(n + 1) : all[i] = om[i]
  BY <1>1
<1> HIDE DEF all
<1>3. /\ Front(all) \in Seq(Lexemes) /\ Len(Front(all)) = n + 1
      /\ \A i \in 1..(n + 1) : Front(all)[i] = om[i]
  BY <1>1, <1>2 DEF Front
<1>4. PICK f \in Seq(Lexemes) : f = Front(all)
  BY <1>3
<1>5. /\ Tail(f) \in Seq(Lexemes) /\ Len(Tail(f)) = n
      /\ \A i \in 1..n : Tail(f)[i] = f[i + 1]
  <2>1. f # <<>>
    BY <1>1, <1>3, <1>4
  <2>2. QED
    BY <2>1, <1>1, <1>3, <1>4
<1>6. \A i \in 1..n : Tail(f)[i] = m[i]
  BY <1>1, <1>3, <1>4, <1>5
<1>7. Tail(f) = m
  BY <1>5, <1>6, SeqEqual
<1>8. QED
  BY <1>4, <1>7 DEF all, om
\* Several items at a time.
LEMMA ThreeItems ==
    ASSUME NEW s \in Seq(Items), NEW x \in Items, NEW y \in Items, NEW z \in Items
    PROVE  /\ s \o <<x, y, z>> = Append(Append(Append(s, x), y), z)
           /\ Append(Append(Append(s, x), y), z) \in Seq(Items)
<1> DEFINE l == s \o <<x, y, z>>
           s1 == Append(s, x)
           s2 == Append(s1, y)
           r == Append(s2, z)
           n == Len(s)
<1>1. n \in Nat
  OBVIOUS
<1>2. /\ l \in Seq(Items) /\ Len(l) = n + 3
      /\ \A i \in 1..n : l[i] = s[i]
      /\ l[n + 1] = x /\ l[n + 2] = y /\ l[n + 3] = z
  OBVIOUS
<1>3. /\ s1 \in Seq(Items) /\ Len(s1) = n + 1
      /\ \A i \in 1..n : s1[i] = s[i]
      /\ s1[n + 1] = x
  OBVIOUS
<1> HIDE DEF s1
<1>4. /\ s2 \in Seq(Items) /\ Len(s2) = n + 2
      /\ \A i \in 1..n : s2[i] = s[i]
      /\ s2[n + 1] = x /\ s2[n + 2] = y
  BY <1>1, <1>3
<1> HIDE DEF s2
<1>5. /\ r \in Seq(Items) /\ Len(r) = n + 3
      /\ \A i \in 1..n : r[i] = s[i]
      /\ r[n + 1] = x /\ r[n + 2] = y /\ r[n + 3] = z
  BY <1>1, <1>4
<1> HIDE DEF l, r, n
<1>6. \A i \in 1..(n + 3) : l[i] = r[i]
  <2>1. \A i \in 1..(n + 3) : i \in 1..n \/ i = n + 1 \/ i = n + 2 \/ i = n + 3
    BY <1>1
  <2>2. QED
    BY <2>1, <1>2, <1>5
<1>7. l = r
  BY <1>2, <1>5, <1>6, SeqEqual
<1>8. QED
  BY <1>5, <1>7 DEF l, r, s1, s2

\* Five items added one by one.
LEMMA FiveItems ==
    ASSUME NEW s \in Seq(Items), NEW w \in Items, NEW x \in Items,
           NEW y \in Items, NEW z \in Items
    PROVE  Same((s \o <<w>>) \o <<x, y, z, z>>,
                Append(Append(Append(Append(Append(s, w), x), y), z), z))
<1>1. s \o <<w>> = Append(s, w) /\ Append(s, w) \in Seq(Items)
  OBVIOUS
<1>2. PICK t \in Seq(Items) : t = Append(s, w)
  BY <1>1
<1>3. t \o <<x, y, z>> = Append(Append(Append(t, x), y), z)
  BY ThreeItems
<1>4. <<x, y, z, z>> = Append(<<x, y, z>>, z) /\ <<x, y, z>> \in Seq(Items)
  OBVIOUS
<1>5. PICK u \in Seq(Items) : u = <<x, y, z>>
  BY <1>4
<1>6. t \o Append(u, z) = Append(t \o u, z)
  BY <1>5, AppendToItems, Zenon
<1>7. QED
  BY <1>1, <1>2, <1>3, <1>4, <1>5, <1>6 DEF Same

\* The items of the other formatter without the last.
LEMMA FrontOfFour ==
    ASSUME NEW x \in Items, NEW y \in Items, NEW z \in Items
    PROVE  Same(Front(<<x, y, z, z>>), <<x, y, z>>)
<1>1. /\ <<x, y, z, z>> \in Seq(Items) /\ Len(<<x, y, z, z>>) = 4
      /\ <<x, y, z, z>>[1] = x /\ <<x, y, z, z>>[2] = y
      /\ <<x, y, z, z>>[3] = z
  OBVIOUS
<1>2. /\ <<x, y, z>> \in Seq(Items) /\ Len(<<x, y, z>>) = 3
      /\ <<x, y, z>>[1] = x /\ <<x, y, z>>[2] = y /\ <<x, y, z>>[3] = z
  OBVIOUS
<1>3. PICK l : l = <<x, y, z, z>>
  OBVIOUS
<1>4. PICK r : r = <<x, y, z>>
  OBVIOUS
<1>5. /\ l \in Seq(Items) /\ Len(l) = 4
      /\ l[1] = x /\ l[2] = y /\ l[3] = z
  BY <1>1, <1>3, Zenon
<1>6. /\ r \in Seq(Items) /\ Len(r) = 3
      /\ r[1] = x /\ r[2] = y /\ r[3] = z
  BY <1>2, <1>4, Zenon
<1>7. /\ Front(l) \in Seq(Items) /\ Len(Front(l)) = 3
      /\ \A i \in 1..3 : Front(l)[i] = l[i]
  BY <1>5 DEF Front
<1>8. \A i \in 1..3 : i = 1 \/ i = 2 \/ i = 3
  OBVIOUS
<1>9. Front(l) = r
  BY <1>5, <1>6, <1>7, <1>8, SeqEqual
<1>10. QED
  BY <1>3, <1>4, <1>9, Zenon DEF Same

\* Lexemes and items are added to a formatter.
LEMMA DumpIs ==
    ASSUME NEW b \in Formatters, NEW t, NEW j
    PROVE  /\ Same([Dump(b, t) EXCEPT !.items = j],
                   [dump |-> b.dump \o t, open |-> b.open, items |-> j])
           /\ Same(Dump(b, t).items, b.items)
<1>1. b = [dump |-> b.dump, open |-> b.open, items |-> b.items]
  BY DEF Formatters
<1>2. PICK d : d = b.dump \o t
  OBVIOUS
<1>3. Dump(b, t) = [b EXCEPT !.dump = d]
  BY <1>2, Zenon DEF Dump
<1>4. PICK c : c = [b EXCEPT !.dump = d]
  OBVIOUS
<1>5. c = [dump |-> d, open |-> b.open, items |-> b.items]
  BY <1>1, <1>4
<1>6. [c EXCEPT !.items = j] = [dump |-> d, open |-> b.open, items |-> j]
  BY <1>5
<1>7. c.items = b.items
  BY <1>5
<1>8. QED
  BY <1>2, <1>3, <1>4, <1>6, <1>7, Zenon DEF Same

\* The parts of a formatter.
LEMMA RecordIs ==
    ASSUME NEW r, NEW d, NEW o, NEW i, r = [dump |-> d, open |-> o, items |-> i]
    PROVE  Same(r.dump, d) /\ Same(r.open, o) /\ Same(r.items, i)
  BY DEF Same

\* The punctuation is made of lexemes.
LEMMA Braces ==
    /\ "{" \in Lexemes /\ "}" \in Lexemes /\ "[" \in Lexemes
    /\ "]" \in Lexemes /\ ":" \in Lexemes
    /\ <<"{">> \in Seq(Lexemes) /\ <<"}">> \in Seq(Lexemes)
    /\ <<"[">> \in Seq(Lexemes) /\ <<"]">> \in Seq(Lexemes)
    /\ <<":">> \in Seq(Lexemes)
<1>1. /\ "{" \in Lexemes /\ "}" \in Lexemes /\ "[" \in Lexemes
      /\ "]" \in Lexemes /\ ":" \in Lexemes
  BY DEF Lexemes
<1>2. QED
  BY <1>1, SingleIs, Zenon

\* Two lexemes at once or one after the other.
LEMMA TwoLexemes ==
    ASSUME NEW x \in Lexemes, NEW y \in Lexemes
    PROVE  <<x, y>> = <<x>> \o <<y>>
<1>0. /\ <<x, y>> \in Seq(Lexemes) /\ Len(<<x, y>>) = 2
      /\ <<x, y>>[1] = x /\ <<x, y>>[2] = y
      /\ <<x>> \in Seq(Lexemes) /\ Len(<<x>>) = 1 /\ <<x>>[1] = x
      /\ <<y>> \in Seq(Lexemes) /\ Len(<<y>>) = 1 /\ <<y>>[1] = y
  OBVIOUS
<1>1. PICK l \in Seq(Lexemes) : l = <<x, y>>
  BY <1>0, Zenon
<1>2. PICK p \in Seq(Lexemes) : p = <<x>> /\ Len(p) = 1 /\ p[1] = x
  BY <1>0, Zenon
<1>3. PICK q \in Seq(Lexemes) : q = <<y>> /\ Len(q) = 1 /\ q[1] = y
  BY <1>0, Zenon
<1>4. Len(l) = 2 /\ l[1] = x /\ l[2] = y
  BY <1>0, <1>1, Zenon
<1>5. /\ p \o q \in Seq(Lexemes) /\ Len(p \o q) = 2
      /\ (p \o q)[1] = x /\ (p \o q)[2] = y
  BY <1>2, <1>3
<1>6. \A i \in 1..2 : i = 1 \/ i = 2
  OBVIOUS
<1>7. l = p \o q
  BY <1>4, <1>5, <1>6, SeqEqual
<1>8. QED
  BY <1>1, <1>2, <1>3, <1>7

\* What the other formatter holds, with and without its braces.
LEMMA OtherIs ==
    ASSUME NEW name \in Strings, NEW v \in Values, NEW f,
           f = OtherFormatter(name, v)
    PROVE  /\ OtherText(name, v) \in Seq(Lexemes)
           /\ f.dump = (<<"{">> \o OtherText(name, v)) \o <<"}">>
           /\ Tail(Front(f.dump)) = OtherText(name, v)
           /\ f.items = <<Item("ARRAY", name, <<>>), Item("VALUE", <<>>, v),
                          EndItem, EndItem>>
           /\ Item("ARRAY", name, <<>>) \in Items
           /\ Item("VALUE", <<>>, v) \in Items
<1>0. <<":", "[">> = <<":">> \o <<"[">> /\ <<"]", "}">> = <<"]">> \o <<"}">>
  BY Braces, TwoLexemes, Zenon
<1>1. PICK q \in Seq(Lexemes) : q = Quoted("cstr", name)
  BY QuotedIs
<1>2. PICK w \in Seq(Lexemes) : w = Word(v)
  BY WordIs
<1>3. PICK k \in Seq(Lexemes) : k = <<":">>
  BY Braces, Zenon
<1>4. PICK a \in Seq(Lexemes) : a = <<"[">>
  BY Braces, Zenon
<1>5. PICK e \in Seq(Lexemes) : e = <<"]">>
  BY Braces, Zenon
<1>6. PICK o \in Seq(Lexemes) : o = <<"{">>
  BY Braces, Zenon
<1>7. PICK g \in Seq(Lexemes) : g = <<"}">>
  BY Braces, Zenon
<1>8. <<":", "[">> = k \o a
  BY <1>0, <1>3, <1>4, Zenon
<1>9. <<"]", "}">> = e \o g
  BY <1>0, <1>5, <1>7, Zenon
<1>10. f.dump = (((o \o q) \o (k \o a)) \o w) \o (e \o g)
  <2>1. f.dump = (((<<"{">> \o Quoted("cstr", name)) \o <<":", "[">>) \o Word(v))
                   \o <<"]", "}">>
    BY DEF OtherFormatter
  <2>2. QED
    BY <2>1, <1>1, <1>2, <1>6, <1>8, <1>9, Zenon
<1>11. OtherText(name, v) = ((q \o (k \o a)) \o w) \o e
  BY <1>1, <1>2, <1>3, <1>4, <1>5, Zenon DEF OtherText
<1> DEFINE m == OtherText(name, v)
<1>12. /\ ((q \o (k \o a)) \o w) \o e \in Seq(Lexemes)
       /\ Same((((o \o q) \o (k \o a)) \o w) \o (e \o g),
               (o \o (((q \o (k \o a)) \o w) \o e)) \o g)
  <2>1. Parts(o, q, k, a, w, e, g)
    BY DEF Parts
  <2>2. QED
    BY <2>1, PartsText, Zenon
<1>13. m \in Seq(Lexemes) /\ f.dump = (o \o m) \o g
  BY <1>10, <1>11, <1>12, Zenon DEF Same
<1> HIDE DEF m
<1>14. Tail(Front((<<"{">> \o m) \o <<"}">>)) = m
  BY <1>13, Braces, BareText, Zenon
<1>15. f.items = <<Item("ARRAY", name, <<>>), Item("VALUE", <<>>, v),
                   EndItem, EndItem>>
  BY DEF OtherFormatter, EndItem
<1>16. Item("ARRAY", name, <<>>) \in Items /\ Item("VALUE", <<>>, v) \in Items
  BY StringsHaveEmpty DEF Item, Items, ItemTypes
<1>17. QED
  BY <1>6, <1>7, <1>13, <1>14, <1>15, <1>16, Zenon DEF m

\* A member is counted in the innermost stream only.
LEMMA FrontOfBegun ==
    ASSUME NEW o \in Seq(Streams), NEW x \in Streams, NEW p, p = Append(o, x),
           NEW r, r = [p EXCEPT ![Len(p)].members = @ + 1]
    PROVE  Begun(r, o, x)
<1>1. PICK n \in Nat : n = Len(o) /\ \A i \in 1..n : o[i] \in Streams
  OBVIOUS
<1>2. /\ p \in Seq(Streams) /\ Len(p) = n + 1
      /\ \A i \in 1..n : p[i] = o[i]
      /\ p[n + 1] = x
  BY <1>1
<1>3. PICK y \in Streams : y = [x EXCEPT !.members = @ + 1]
  BY MemberCounted
<1>4. r = [p EXCEPT ![n + 1] = y]
  BY <1>2, <1>3
<1>5. /\ r \in Seq(Streams) /\ Len(r) = n + 1
      /\ \A i \in 1..n : r[i] = o[i]
      /\ r[n + 1] = y
  <2>1. n + 1 \in 1..(n + 1) /\ \A i \in 1..n : i # n + 1
    OBVIOUS
  <2>2. DOMAIN p = 1..(n + 1)
    BY <1>2
  <2>3. r[n + 1] = y /\ \A i \in 1..n : r[i] = p[i]
    <3>1. r[n + 1] = y
      BY <2>1, <2>2, <1>4
    <3>2. \A i \in 1..n : i \in DOMAIN p
      BY <2>2
    <3>3. QED
      BY <2>1, <3>1, <3>2, <1>4
  <2>4. r \in Seq(Streams) /\ Len(r) = n + 1
    BY <1>1, <1>2, <1>4
  <2>5. QED
    BY <2>3, <2>4, <1>2
<1>6. /\ Front(r) \in Seq(Streams) /\ Len(Front(r)) = n
      /\ \A i \in 1..n : Front(r)[i] = o[i]
  BY <1>1, <1>5 DEF Front
<1>7. Front(r) = o
  BY <1>1, <1>6, SeqEqual
<1>8. y.close = x.close
  BY <1>3 DEF Streams
<1>9. Last(r) = y /\ r # <<>>
  BY <1>1, <1>5 DEF Last
<1>10. QED
  BY <1>5, <1>7, <1>8, <1>9 DEF Begun
\* A member with an array of one value, as the formatter of a trend writes it.
LEMMA MemberPut ==
    ASSUME NEW s, NEW depth \in Nat, Formats(s, depth), s.open # <<>>,
           Len(s.open) \in 0..(depth - 1), InObject(s),
           NEW name \in Strings, NEW v \in Values,
           NEW s4 \in Formatters, NEW t \in Seq(Lexemes),
           t = s.dump \o Comma(Last(s.open).members > 0),
           s4.dump = t \o OtherText(name, v),
           s4.open = BeginMember(s, name).open,
           s4.items = Append(Append(Append(s.items, Item("ARRAY", name, <<>>)),
                                    Item("VALUE", <<>>, v)), EndItem)
    PROVE  Formats(s4, depth)
<1>0. PICK type, first, last : type = "ARRAY" /\ first = "[" /\ last = "]"
  OBVIOUS
<1>b. PICK s1 : s1 = Opened(s, type, name, first, last)
  OBVIOUS
<1>c. PICK none \in Strings : none = <<>>
  BY StringsHaveEmpty
<1>d. PICK s2 : s2 = StreamValue(s1, none, v)
  OBVIOUS
<1> DEFINE b == BeginMember(s, name)
           b1 == BeginMember(s1, none)
           x == [close |-> "]", members |-> 0]
           label == Quoted("cstr", name) \o <<":">>
           c == Last(s.open).members > 0
<1>1. /\ s \in Formatters /\ s.open \in Seq(Streams)
      /\ s.items \in Seq(Items) /\ s.dump \in Seq(Lexemes)
  BY FormatsLevel
<1>2. /\ Formats(s1, depth)
      /\ s1.dump = b.dump \o <<"[">>
      /\ s1.items = Append(s.items, Item("ARRAY", name, <<>>))
      /\ s1.open = Append(b.open, x)
      /\ InObject(s1) = FALSE
      /\ Last(s1.open).members = 0
      /\ s1.open # <<>>
  <2>1. Brackets(type, first, last)
    BY <1>0 DEF Brackets
  <2>2. NameIn(s, name) = name
    BY DEF NameIn
  <2>3. (type = "OBJECT") = FALSE
    BY <1>0
  <2> HIDE DEF b
  <2>4. Formats(s1, depth) /\ Opening(s1, s, type, name, first, last)
    BY <2>1, <1>b, OpenedIs, Zenon
  <2>5. QED
    BY <2>2, <2>3, <2>4, <1>0, Zenon DEF b, Opening
<1> HIDE DEF x
<1>3. s1 \in Formatters /\ s1.open \in Seq(Streams)
  BY <1>2, FormatsLevel
<1>4. /\ Formats(s2, depth)
      /\ NestOf(s2.open) = NestOf(s1.open) /\ s2.open # <<>>
      /\ s2.items = Append(s1.items, Item("VALUE", NameIn(s1, none), v))
      /\ s2.dump = b1.dump \o Word(v)
      /\ s2.open = b1.open
  <2>1. Formats(s2, depth) /\ Putting(s2, s1, none, v)
    BY <1>2, <1>d, StreamValueIs, Zenon
  <2>2. QED
    BY <2>1, Zenon DEF Putting
<1>5. NameIn(s1, none) = <<>>
  BY <1>2 DEF NameIn
<1>6. /\ b1.open = [s1.open EXCEPT ![Len(s1.open)].members = @ + 1]
      /\ b1.dump = s1.dump \o (Comma(Last(s1.open).members > 0) \o <<>>)
  <2>1. b1 \in {StreamBeginMember(s1), b1}
    OBVIOUS
  <2>2. /\ b1.open = [s1.open EXCEPT ![Len(s1.open)].members = @ + 1]
        /\ b1.dump = s1.dump \o (Comma(Last(s1.open).members > 0)
                                 \o (IF InObject(s1)
                                     THEN Quoted("cstr", none) \o <<":">>
                                     ELSE <<>>))
    BY <2>1, <1>2, <1>3, BeginIs, ZenonT(30)
  <2>3. (IF InObject(s1) THEN Quoted("cstr", none) \o <<":">> ELSE <<>>) = <<>>
    BY <1>2
  <2>4. QED
    BY <2>2, <2>3, Zenon
<1> HIDE DEF b1
<1>7. b1.dump = s1.dump
  <2>1. Comma(Last(s1.open).members > 0) = <<>>
    <3>1. ~(Last(s1.open).members > 0)
      BY <1>2
    <3>2. QED
      BY <3>1, Zenon DEF Comma
  <2>2. <<>> \o <<>> = <<>>
    OBVIOUS
  <2>3. s1.dump \in Seq(Lexemes)
    BY <1>3 DEF Formatters
  <2>4. s1.dump \o <<>> = s1.dump
    BY <2>3, ConcatEmptySeq
  <2>5. QED
    BY <2>1, <2>2, <2>4, <1>6, Zenon
<1>8. /\ b \in Formatters
      /\ b.dump = s.dump \o (Comma(c) \o label)
  <2>1. b \in {StreamBeginMember(s), b}
    OBVIOUS
  <2>2. /\ b \in Formatters
        /\ b.dump = s.dump \o (Comma(c) \o (IF InObject(s) THEN label ELSE <<>>))
    BY <2>1, <1>1, BeginIs, Zenon
  <2>3. QED
    BY <2>2, Zenon
<1> HIDE DEF b
<1>9. /\ Front(s2.open) = b.open /\ Last(s2.open).close = "]"
  <2>1. b.open \in Seq(Streams)
    BY <1>8 DEF Formatters
  <2>2. x \in Streams /\ x.close = "]"
    BY DEF x, Streams
  <2>3. s2.open = [s1.open EXCEPT ![Len(s1.open)].members = @ + 1]
    BY <1>4, <1>6
  <2>4. Front(s2.open) = b.open /\ Last(s2.open).close = x.close
    <3>1. PICK o \in Seq(Streams) : o = b.open
      BY <2>1
    <3>2. PICK y \in Streams : y = x
      BY <2>2
    <3>3. PICK p : p = s1.open
      OBVIOUS
    <3>4. PICK r : r = s2.open
      OBVIOUS
    <3>5. p = Append(o, y) /\ r = [p EXCEPT ![Len(p)].members = @ + 1]
      BY <3>1, <3>2, <3>3, <3>4, <2>3, <1>2, Zenon
    <3>6. Begun(r, o, y)
      BY <3>5, FrontOfBegun, Zenon
    <3>7. QED
      BY <3>1, <3>2, <3>4, <3>6, Zenon DEF Begun
  <2>5. QED
    BY <2>2, <2>4
<1>10. s4.dump = s2.dump \o <<"]">>
  <2>1. /\ Quoted("cstr", name) \in Seq(Lexemes) /\ Word(v) \in Seq(Lexemes)
        /\ Comma(c) \in Seq(Lexemes)
    <3>1. Quoted("cstr", name) \in Seq(Lexemes)
      BY QuotedIs
    <3>2. <<",">> \in Seq(Lexemes) /\ <<>> \in Seq(Lexemes)
      <4>1. "," \in Lexemes
        BY DEF Lexemes
      <4>2. <<>> \in Seq(Lexemes)
        OBVIOUS
      <4>3. QED
        BY <4>1, <4>2, SingleIs, Zenon
    <3>3. Comma(c) = <<",">> \/ Comma(c) = <<>>
      BY DEF Comma
    <3>4. Comma(c) \in Seq(Lexemes)
      BY <3>2, <3>3, Zenon
    <3>5. QED
      BY <3>1, <3>4, WordIs
  <2>2. Parts(t, Quoted("cstr", name), <<":">>, <<"[">>, Word(v), <<"]">>, <<"]">>)
    BY <2>1, Braces, Zenon DEF Parts
  <2>3. Same((((t \o label) \o <<"[">>) \o Word(v)) \o <<"]">>,
             t \o OtherText(name, v))
    BY <2>2, PartsText, Zenon DEF OtherText
  <2>4. b.dump = t \o label
    <3>1. label \in Seq(Lexemes)
      BY <2>1, Braces, TextConcat, Zenon
    <3>2. PICK p \in Seq(Lexemes) : p = s.dump
      BY <1>1
    <3>3. PICK k \in Seq(Lexemes) : k = Comma(c)
      BY <2>1
    <3>4. PICK l \in Seq(Lexemes) : l = label
      BY <3>1
    <3>5. (p \o k) \o l = p \o (k \o l)
      BY ThreeTexts, SMTT(40)
    <3>6. t = p \o k
      BY <3>2, <3>3, Zenon
    <3>7. QED
      BY <3>2, <3>3, <3>4, <3>5, <3>6, <1>8, Zenon
  <2>5. s2.dump = ((t \o label) \o <<"[">>) \o Word(v)
    BY <2>4, <1>2, <1>4, <1>7, Zenon
  <2>6. QED
    BY <2>3, <2>5, Zenon DEF Same
<1>11. s4.items = Append(s2.items, EndItem)
  BY <1>2, <1>4, <1>5
<1>12. s4.dump = s2.dump \o <<Last(s2.open).close>>
  BY <1>9, <1>10, Zenon
<1>13. s4.open = Front(s2.open)
  BY <1>9 DEF b
<1>14. s4 \in [dump : Seq(Lexemes), open : Seq(Streams), items : Seq(Items)]
  BY DEF Formatters
<1>15. QED
  BY <1>4, <1>11, <1>12, <1>13, <1>14, EndFormats, Zenon
\* Another formatter's members are written as members of an object.
LEMMA WriteMembersIs ==
    ASSUME NEW s, NEW depth \in Nat, Formats(s, depth), s.open # <<>>,
           Len(s.open) \in 0..(depth - 1), InObject(s),
           NEW name \in Strings, NEW v \in Values,
           NEW s1, s1 = WriteMembers(s, OtherFormatter(name, v))
    PROVE  /\ Formats(s1, depth)
           /\ NestOf(s1.open) = NestOf(s.open) /\ Len(s1.open) = Len(s.open)
<1> DEFINE b == StreamBeginMember(s)
           c == Last(s.open).members > 0
           x == Item("ARRAY", name, <<>>)
           y == Item("VALUE", <<>>, v)
<1>1. /\ s \in Formatters /\ s.open \in Seq(Streams)
      /\ s.items \in Seq(Items) /\ s.dump \in Seq(Lexemes)
  BY FormatsLevel
<1>2. PICK f : f = OtherFormatter(name, v)
  OBVIOUS
<1>3. /\ OtherText(name, v) \in Seq(Lexemes)
      /\ Tail(Front(f.dump)) = OtherText(name, v)
      /\ f.items = <<x, y, EndItem, EndItem>>
      /\ x \in Items /\ y \in Items
  BY <1>2, OtherIs
<1> HIDE DEF x, y
<1>4. /\ b \in Formatters /\ b.items = s.items
      /\ b.open = BeginMember(s, name).open
      /\ NestOf(b.open) = NestOf(s.open) /\ Len(b.open) = Len(s.open)
      /\ b.dump = s.dump \o Comma(c)
  <2> DEFINE b2 == BeginMember(s, name)
  <2>1. b \in {b, b2} /\ b2 \in {b, b2}
    OBVIOUS
  <2>2. /\ b \in Formatters /\ b.items = s.items
        /\ b.open = [s.open EXCEPT ![Len(s.open)].members = @ + 1]
        /\ NestOf(b.open) = NestOf(s.open) /\ Len(b.open) = Len(s.open)
        /\ b.dump = s.dump \o Comma(c)
    BY <2>1, <1>1, BeginIs
  <2>3. b2.open = [s.open EXCEPT ![Len(s.open)].members = @ + 1]
    BY <2>1, <1>1, BeginIs
  <2>4. QED
    BY <2>2, <2>3, Zenon
<1> HIDE DEF b
<1>5. Front(f.items) = <<x, y, EndItem>>
  <2>1. PICK z \in Items : z = EndItem
    BY EndItemIs
  <2>2. Same(Front(<<x, y, z, z>>), <<x, y, z>>)
    BY <1>3, <2>1, FrontOfFour, Zenon
  <2>3. QED
    BY <2>1, <2>2, <1>3, Zenon DEF Same
<1>6. PICK t \in Seq(Lexemes) : t = b.dump
  BY <1>4 DEF Formatters
<1>7. PICK i \in Seq(Items) : i = Append(Append(Append(s.items, x), y), EndItem)
                             /\ s.items \o <<x, y, EndItem>> = i
  <2>1. PICK z \in Items : z = EndItem
    BY EndItemIs
  <2>2. PICK l \in Seq(Items) : l = s.items
    BY <1>1
  <2>3. /\ l \o <<x, y, z>> = Append(Append(Append(l, x), y), z)
        /\ Append(Append(Append(l, x), y), z) \in Seq(Items)
    BY <1>3, ThreeItems
  <2>4. QED
    BY <2>1, <2>2, <2>3, Zenon
<1>8. s1 = [dump |-> t \o OtherText(name, v), open |-> b.open, items |-> i]
  <2>1. s1 = [Dump(b, OtherText(name, v)) EXCEPT
                !.items = b.items \o <<x, y, EndItem>>]
    <3>1. s1 = [Dump(b, Tail(Front(f.dump))) EXCEPT !.items = @ \o Front(f.items)]
      BY <1>2, Zenon DEF WriteMembers, b
    <3>2. Dump(b, OtherText(name, v)).items = b.items
      BY <1>4, DumpIs, Zenon DEF Same
    <3>3. s1 = [Dump(b, OtherText(name, v)) EXCEPT !.items = @ \o <<x, y, EndItem>>]
      BY <3>1, <1>3, <1>5, Zenon
    <3>4. QED
      BY <3>2, <3>3
  <2>2. s1 = [Dump(b, OtherText(name, v)) EXCEPT !.items = i]
    BY <2>1, <1>4, <1>7, Zenon
  <2>3. Same([Dump(b, OtherText(name, v)) EXCEPT !.items = i],
             [dump |-> b.dump \o OtherText(name, v), open |-> b.open,
              items |-> i])
    BY <1>4, DumpIs, Zenon
  <2>4. QED
    BY <2>2, <2>3, <1>6, Zenon DEF Same
<1>9. t \o OtherText(name, v) \in Seq(Lexemes) /\ b.open \in Seq(Streams)
  <2>1. t \in Seq(Lexemes)
    OBVIOUS
  <2>2. t \o OtherText(name, v) \in Seq(Lexemes)
    BY <2>1, <1>3, TextConcat, Zenon
  <2>3. QED
    BY <2>2, <1>4 DEF Formatters
<1>10. s1 \in Formatters
  BY <1>8, <1>9 DEF Formatters
<1>11. /\ s1.dump = t \o OtherText(name, v)
       /\ s1.open = BeginMember(s, name).open
       /\ s1.items = Append(Append(Append(s.items, x), y), EndItem)
  BY <1>4, <1>7, <1>8, SMTT(30)
<1>12. t \in Seq(Lexemes) /\ t = s.dump \o Comma(Last(s.open).members > 0)
  BY <1>4, <1>6
<1>13. Formats(s1, depth)
  BY <1>10, <1>11, <1>12, MemberPut, Zenon DEF x, y
<1>14. s1.open = b.open
  BY <1>4, <1>11
<1>15. QED
  BY <1>4, <1>13, <1>14, Zenon

\* Another formatter is written as the value of a member.
LEMMA ObjectPut ==
    ASSUME NEW d \in Seq(Lexemes), NEW o \in Seq(Lexemes),
           NEW m \in Seq(Lexemes), NEW g \in Seq(Lexemes)
    PROVE  Same(Cat(Cat(Cat(d, o), m), g), Cat(d, Cat(Cat(o, m), g)))
<1>1. PICK x \in Seq(Lexemes) : x = Cat(o, m)
  BY CatIs
<1>2. Cat(Cat(d, o), m) = Cat(d, x)
  BY <1>1, CatIs
<1>3. Cat(Cat(d, x), g) = Cat(d, Cat(x, g))
  BY CatIs
<1>4. QED
  BY <1>1, <1>2, <1>3 DEF Same

\* A formatter as a value keeps the text well-formed.
LEMMA WriteFormatterIs ==
    ASSUME NEW s, NEW depth \in Nat, Formats(s, depth), s.open # <<>>,
           Len(s.open) \in 0..(depth - 2), NEW name \in Strings, NEW v \in Values,
           NEW s1, s1 = WriteFormatter(s, name, OtherFormatter(name, v))
    PROVE  /\ Formats(s1, depth)
           /\ NestOf(s1.open) = NestOf(s.open) /\ Len(s1.open) = Len(s.open)
<1>0. PICK type, first, last : type = "OBJECT" /\ first = "{" /\ last = "}"
  OBVIOUS
<1>b. PICK q : q = Opened(s, type, name, first, last)
  OBVIOUS
<1> DEFINE b == BeginMember(s, name)
           x == Item("ARRAY", name, <<>>)
           y == Item("VALUE", <<>>, v)
           w == Item(type, NameIn(s, name), <<>>)
           top == [close |-> last, members |-> 0]
           mid == OtherText(name, v)
           items == Append(Append(Append(q.items, x), y), EndItem)
           m == [dump |-> q.dump \o mid, open |-> BeginMember(q, name).open,
                 items |-> items]
<1>1. /\ s \in Formatters /\ s.open \in Seq(Streams)
      /\ s.items \in Seq(Items) /\ s.dump \in Seq(Lexemes)
  BY FormatsLevel
<1>2. PICK f : f = OtherFormatter(name, v)
  OBVIOUS
<1>3. /\ mid \in Seq(Lexemes)
      /\ f.dump = (<<"{">> \o mid) \o <<"}">>
      /\ f.items = <<x, y, EndItem, EndItem>>
      /\ x \in Items /\ y \in Items
  BY <1>2, OtherIs
<1> HIDE DEF x, y, mid, top, w
<1>4. /\ b \in Formatters /\ b.items = s.items
      /\ NestOf(b.open) = NestOf(s.open) /\ Len(b.open) = Len(s.open)
      /\ b.open \in Seq(Streams) /\ b.dump \in Seq(Lexemes)
      /\ b = [dump |-> b.dump, open |-> b.open, items |-> b.items]
  <2>1. b \in {StreamBeginMember(s), b}
    OBVIOUS
  <2>2. /\ b \in Formatters /\ b.items = s.items
        /\ NestOf(b.open) = NestOf(s.open) /\ Len(b.open) = Len(s.open)
    BY <2>1, <1>1, BeginIs
  <2> HIDE DEF b
  <2>3. QED
    BY <2>2 DEF Formatters
<1>5. /\ Formats(q, depth)
      /\ q.dump = b.dump \o <<first>>
      /\ q.items = Append(s.items, w)
      /\ q.open = Append(b.open, top)
      /\ InObject(q) = (type = "OBJECT")
      /\ Last(q.open).members = 0
      /\ q.open # <<>> /\ Len(q.open) = Len(s.open) + 1
  <2>1. Brackets(type, first, last)
    BY <1>0 DEF Brackets
  <2>2. Len(s.open) \in 0..(depth - 1)
    OBVIOUS
  <2>3. Formats(q, depth) /\ Opening(q, s, type, name, first, last)
    BY <2>1, <2>2, <1>b, OpenedIs, Zenon
  <2>4. QED
    BY <2>3, Zenon DEF Opening, top, w
<1>6. InObject(q) /\ Len(q.open) \in 0..(depth - 1)
  <2>1. InObject(q)
    BY <1>0, <1>5, Zenon
  <2>2. PICK n \in 0..(depth - 2) : n = Len(s.open)
    OBVIOUS
  <2>3. n + 1 \in 0..(depth - 1)
    OBVIOUS
  <2>4. QED
    BY <2>1, <2>2, <2>3, <1>5
<1>7. /\ q \in Formatters /\ q.open \in Seq(Streams)
      /\ q.items \in Seq(Items) /\ q.dump \in Seq(Lexemes)
  BY <1>5, FormatsLevel
<1>8. items \in Seq(Items) /\ q.dump \o mid \in Seq(Lexemes)
  <2>1. PICK l \in Seq(Items) : l = q.items
    BY <1>7
  <2>2. PICK z \in Items : z = EndItem
    BY EndItemIs
  <2>3. Append(Append(Append(l, x), y), z) \in Seq(Items)
    BY <1>3, ThreeItems
  <2>4. items \in Seq(Items)
    BY <2>1, <2>2, <2>3
  <2>5. QED
    BY <2>4, <1>3, <1>7, TextConcat, Zenon
<1>9. /\ BeginMember(q, name) \in Formatters
      /\ BeginMember(q, name).open
            = [q.open EXCEPT ![Len(q.open)].members = @ + 1]
  <2>1. BeginMember(q, name) \in {StreamBeginMember(q), BeginMember(q, name)}
    OBVIOUS
  <2>2. QED
    BY <2>1, <1>5, <1>7, BeginIs, Zenon
<1> HIDE DEF items, b
<1>10. /\ m \in Formatters /\ m.dump = q.dump \o mid /\ m.items = items
       /\ m.open = BeginMember(q, name).open
  BY <1>8, <1>9 DEF Formatters
<1> HIDE DEF m
<1>11. Formats(m, depth)
  <2>1. q.dump \in Seq(Lexemes) /\ q.dump = q.dump \o Comma(Last(q.open).members > 0)
    <3>1. ~(Last(q.open).members > 0)
      BY <1>5
    <3>2. Comma(Last(q.open).members > 0) = <<>>
      BY <3>1, Zenon DEF Comma
    <3>3. q.dump \o <<>> = q.dump
      BY <1>7, ConcatEmptySeq
    <3>4. QED
      BY <1>7, <3>2, <3>3, Zenon
  <2>2. QED
    BY <2>1, <1>5, <1>6, <1>10, MemberPut, Zenon DEF items, x, y, mid
<1>12. Begun(m.open, b.open, top)
  <2>1. top \in Streams
    BY <1>0 DEF top, Streams
  <2>2. m.open = [q.open EXCEPT ![Len(q.open)].members = @ + 1]
    BY <1>9, <1>10, Zenon
  <2>3. QED
    BY <2>1, <2>2, <1>4, <1>5, FrontOfBegun, Zenon
<1>13. m.open # <<>> /\ b.open = Front(m.open) /\ Last(m.open).close = last
  BY <1>12 DEF Begun, top
<1>14. s1 = [dump |-> b.dump \o f.dump, open |-> b.open,
             items |-> (s.items \o <<w>>) \o f.items]
  <2>1. Item("OBJECT", IF InObject(s) THEN name ELSE <<>>, <<>>) = w
    BY <1>0, Zenon DEF w, NameIn
  <2>2. s1 = [Dump(b, f.dump) EXCEPT !.items =
                (@ \o <<Item("OBJECT", IF InObject(s) THEN name ELSE <<>>, <<>>)>>)
                  \o f.items]
    BY <1>2, Zenon DEF WriteFormatter, b
  <2>3. s1 = [Dump(b, f.dump) EXCEPT !.items = (@ \o <<w>>) \o f.items]
    BY <2>1, <2>2, Zenon
  <2>4. Same(Dump(b, f.dump).items, b.items)
    BY <1>4, DumpIs, Zenon
  <2>5. s1 = [Dump(b, f.dump) EXCEPT !.items = (s.items \o <<w>>) \o f.items]
    BY <2>3, <2>4, <1>4 DEF Same
  <2>6. Same([Dump(b, f.dump) EXCEPT !.items = (s.items \o <<w>>) \o f.items],
             [dump |-> b.dump \o f.dump, open |-> b.open,
              items |-> (s.items \o <<w>>) \o f.items])
    BY <1>4, DumpIs, Zenon
  <2>7. QED
    BY <2>5, <2>6, Zenon DEF Same
<1>s. /\ s1.dump = b.dump \o f.dump /\ s1.open = b.open
      /\ s1.items = (s.items \o <<w>>) \o f.items
  <2>1. /\ Same(s1.dump, b.dump \o f.dump) /\ Same(s1.open, b.open)
        /\ Same(s1.items, (s.items \o <<w>>) \o f.items)
    BY <1>14, RecordIs, Zenon
  <2>2. QED
    BY <2>1, Zenon DEF Same
<1>15. s1.items = Append(m.items, EndItem) /\ Append(m.items, EndItem) \in Seq(Items)
  <2>1. w \in Items
    <3>1. NameIn(s, name) \in Strings
      BY StringsHaveEmpty DEF NameIn
    <3>2. QED
      BY <3>1, <1>0 DEF w, Item, Items, ItemTypes
  <2>2. PICK l \in Seq(Items) : l = s.items
    BY <1>1
  <2>3. PICK z \in Items : z = EndItem
    BY EndItemIs
  <2>4. Same((l \o <<w>>) \o <<x, y, z, z>>,
             Append(Append(Append(Append(Append(l, w), x), y), z), z))
    BY <2>1, <2>2, <2>3, <1>3, FiveItems, Zenon
  <2>5. s1.items = (l \o <<w>>) \o <<x, y, z, z>>
    <3>1. s1.items = (s.items \o <<w>>) \o f.items
      BY <1>s, Zenon
    <3>2. QED
      BY <3>1, <2>2, <2>3, <1>3, Zenon
  <2>6. m.items = Append(Append(Append(Append(l, w), x), y), z)
    BY <2>2, <2>3, <1>5, <1>10, Zenon DEF items
  <2>7. Append(m.items, z) \in Seq(Items)
    BY <1>10 DEF Formatters
  <2>8. QED
    BY <2>3, <2>4, <2>5, <2>6, <2>7, Zenon DEF Same
<1>16. s1.dump = m.dump \o <<last>> /\ m.dump \o <<last>> \in Seq(Lexemes)
  <2>1. Same(Cat(Cat(Cat(b.dump, <<"{">>), mid), <<"}">>),
             Cat(b.dump, Cat(Cat(<<"{">>, mid), <<"}">>)))
    BY <1>3, <1>4, Braces, ObjectPut, Zenon
  <2>2. ((b.dump \o <<"{">>) \o mid) \o <<"}">>
           = b.dump \o ((<<"{">> \o mid) \o <<"}">>)
    BY <2>1, Zenon DEF Same, Cat
  <2>3. s1.dump = b.dump \o f.dump
    BY <1>s, Zenon
  <2>4. s1.dump = m.dump \o <<last>>
    BY <2>2, <2>3, <1>3, <1>5, <1>10, <1>0, Zenon
  <2>5. m.dump \in Seq(Lexemes) /\ <<last>> \in Seq(Lexemes)
    <3>1. m.dump \in Seq(Lexemes)
      BY <1>8, <1>10
    <3>2. QED
      BY <3>1, <1>0, Braces, Zenon
  <2>6. QED
    BY <2>4, <2>5, TextConcat, Zenon
<1>17. s1.open = b.open
  BY <1>s, Zenon
<1>18. s1 \in [dump : Seq(Lexemes), open : Seq(Streams), items : Seq(Items)]
  <2>1. s1 = [dump |-> s1.dump, open |-> s1.open, items |-> s1.items]
    BY <1>14
  <2>2. s1.dump \in Seq(Lexemes) /\ s1.items \in Seq(Items)
    BY <1>15, <1>16, Zenon
  <2>3. QED
    BY <2>1, <2>2, <1>4, <1>17
<1>19. Formats(s1, depth)
  <2>1. s1.dump = m.dump \o <<Last(m.open).close>>
    BY <1>13, <1>16, Zenon
  <2>2. s1.items = Append(m.items, EndItem) /\ s1.open = Front(m.open)
    BY <1>13, <1>15, <1>17, Zenon
  <2>3. QED
    BY <2>1, <2>2, <1>11, <1>13, <1>18, EndFormats, Zenon
<1>20. QED
  BY <1>4, <1>17, <1>19, Zenon
-----------------------------------------------------------------------------
(* What a client makes of the items of an answer, one by one.               *)

\* A loop is left, another one entered, or neither.
LEMMA LoopsNest ==
    ASSUME NEW l, NEW g, NEW item, NEW k, NEW h, InLoop(l, g, item, k, h)
    PROVE  /\ l \in Loops /\ k \in Loops
           /\ item.t \in {"ARRAY", "OBJECT"} => LoopLevel(k) = LoopLevel(l) + 1
           /\ item.t = "END" => LoopLevel(k) = LoopLevel(l) - 1
           /\ item.t \notin {"ARRAY", "OBJECT", "END"} =>
                LoopLevel(k) = LoopLevel(l)
           /\ LoopLevel(l) \in 1..5 /\ LoopLevel(k) \in 1..5
<1>1. /\ LoopLevel("answer") = 1 /\ LoopLevel("list") = 2
      /\ LoopLevel("meta") = 3 /\ LoopLevel("thresholds") = 4
      /\ LoopLevel("table") = 4 /\ LoopLevel("entity") = 5
  BY DEF LoopLevel
<1>2. \/ l = "answer" /\ item.t = "ARRAY" /\ k = "list"
      \/ l = "list" /\ item.t = "OBJECT" /\ k = "meta"
      \/ l = "list" /\ item.t = "END" /\ k = "answer"
      \/ l = "meta" /\ item.t = "VALUE" /\ k = "meta"
      \/ l = "meta" /\ item.t = "ARRAY" /\ k = "thresholds"
      \/ l = "meta" /\ item.t = "ARRAY" /\ k = "table"
      \/ l = "meta" /\ item.t = "END" /\ k = "list"
      \/ l = "thresholds" /\ item.t = "VALUE" /\ k = "thresholds"
      \/ l = "thresholds" /\ item.t = "END" /\ k = "meta"
      \/ l = "table" /\ item.t = "OBJECT" /\ k = "entity"
      \/ l = "table" /\ item.t = "END" /\ k = "meta"
      \/ l = "entity" /\ item.t = "VALUE" /\ k = "entity"
      \/ l = "entity" /\ item.t = "END" /\ k = "table"
  BY Zenon DEF InLoop
<1>3. QED
  BY <1>1, <1>2 DEF Loops

-----------------------------------------------------------------------------
(* Calls of the formatter that such a client understands.                   *)

\* No call, no turn.
LEMMA LeadsNowhere ==
    ASSUME NEW s PROVE Leads(<<>>, s, s)
<1>1. PICK run : run = [k \in {0} |-> s]
  OBVIOUS
<1>2. run[0] = s
  BY <1>1
<1>3. Len(<<>>) = 0 /\ \A k \in 1..0 : FALSE
  OBVIOUS
<1>4. CallRun(<<>>, run)
  BY <1>3 DEF CallRun
<1>5. <<>> \in Seq(Calls4Meta)
  OBVIOUS
<1>6. QED
  BY <1>2, <1>3, <1>4, <1>5, Zenon DEF Leads

\* One call leads one turn further.
LEMMA LeadsByOne ==
    ASSUME NEW s, NEW z, NEW c, CallDecodes(s, c, z)
    PROVE  Leads(<<c>>, s, z)
<1>1. PICK run : run = [k \in {0, 1} |-> IF k = 0 THEN s ELSE z]
  OBVIOUS
<1>2. run[0] = s /\ run[1] = z
  BY <1>1
<1>3. c \in Calls4Meta
  BY DEF CallDecodes
<1>4. <<c>> \in Seq(Calls4Meta) /\ Len(<<c>>) = 1 /\ <<c>>[1] = c
  BY <1>3
<1>5. PICK calls : calls = <<c>>
  OBVIOUS
<1>6. CallRun(calls, run)
  <2> SUFFICES ASSUME NEW k \in 1..Len(calls)
               PROVE  CallDecodes(run[k - 1], calls[k], run[k])
    BY DEF CallRun
  <2>1. Len(calls) = 1 /\ calls[1] = c
    BY <1>4, <1>5, Zenon
  <2>2. k = 1 /\ k - 1 = 0
    BY <2>1
  <2>3. QED
    BY <1>2, <2>1, <2>2
<1>7. QED
  BY <1>2, <1>4, <1>5, <1>6, Zenon DEF Leads

\* Calls and then further calls.
LEMMA LeadsOn ==
    ASSUME NEW a, NEW b, NEW s, NEW y, NEW z, Leads(a, s, y), Leads(b, y, z)
    PROVE  Leads(a \o b, s, z)
<1>1. PICK ra : ra[0] = s /\ ra[Len(a)] = y /\ CallRun(a, ra)
  BY DEF Leads
<1>2. PICK rb : rb[0] = y /\ rb[Len(b)] = z /\ CallRun(b, rb)
  BY DEF Leads
<1>3. /\ a \in Seq(Calls4Meta) /\ b \in Seq(Calls4Meta)
      /\ Len(a) \in Nat /\ Len(b) \in Nat
  BY DEF Leads
<1>4. PICK m \in Nat : m = Len(a)
  BY <1>3
<1>5. PICK n \in Nat : n = Len(b)
  BY <1>3
<1> DEFINE run == [k \in 0..(m + n) |-> IF k <= m THEN ra[k] ELSE rb[k - m]]
           ab == a \o b
<1>6. /\ ab \in Seq(Calls4Meta) /\ Len(ab) = m + n
      /\ \A k \in 1..m : ab[k] = a[k]
      /\ \A k \in 1..n : ab[m + k] = b[k]
  <2>1. /\ ab \in Seq(Calls4Meta) /\ Len(ab) = Len(a) + Len(b)
        /\ \A i \in 1..(Len(a) + Len(b)) :
             ab[i] = IF i <= Len(a) THEN a[i] ELSE b[i - Len(a)]
    BY <1>3, ConcatProperties
  <2> HIDE DEF ab
  <2>2. \A k \in 1..m : k \in 1..(m + n) /\ k <= m
    OBVIOUS
  <2>3. \A k \in 1..n : m + k \in 1..(m + n) /\ ~(m + k <= m) /\ (m + k) - m = k
    OBVIOUS
  <2>4. Len(ab) = m + n
    BY <2>1, <1>4, <1>5
  <2>5. ASSUME NEW k \in 1..m PROVE ab[k] = a[k]
    <3>1. ab[k] = IF k <= Len(a) THEN a[k] ELSE b[k - Len(a)]
      BY <2>1, <2>2, <1>4, <1>5
    <3>2. QED
      BY <3>1, <2>2, <1>4
  <2>6. ASSUME NEW k \in 1..n PROVE ab[m + k] = b[k]
    <3>1. m + k \in 1..(m + n) /\ ~(m + k <= m) /\ (m + k) - m = k
      BY <2>3
    <3>2. ab[m + k] = IF m + k <= Len(a) THEN a[m + k] ELSE b[(m + k) - Len(a)]
      BY <2>1, <3>1, <1>4, <1>5
    <3>3. QED
      BY <3>1, <3>2, <1>4
  <2>7. QED
    BY <2>1, <2>4, <2>5, <2>6
<1>7. /\ \A k \in 0..m : run[k] = ra[k]
      /\ \A k \in 0..n : run[m + k] = rb[k]
  <2>1. \A k \in 0..m : k \in 0..(m + n) /\ k <= m
    OBVIOUS
  <2>2. ASSUME NEW k \in 0..n PROVE run[m + k] = rb[k]
    <3>1. m + k \in 0..(m + n) /\ (m + k) - m = k
      OBVIOUS
    <3>2. CASE k = 0
      <4>1. m + k = m /\ m <= m
        BY <3>2
      <4>2. run[m + k] = ra[m]
        BY <3>1, <4>1
      <4> HIDE DEF run
      <4>3. QED
        BY <3>2, <4>2, <1>1, <1>2, <1>4
    <3>3. CASE k # 0
      <4>1. ~(m + k <= m)
        BY <3>3
      <4>2. QED
        BY <3>1, <4>1
    <3>4. QED
      BY <3>2, <3>3
  <2>3. QED
    BY <2>1, <2>2
<1> HIDE DEF run, ab
<1>8. CallRun(ab, run)
  <2> SUFFICES ASSUME NEW k \in 1..Len(ab)
               PROVE  CallDecodes(run[k - 1], ab[k], run[k])
    BY DEF CallRun
  <2>1. k \in 1..(m + n)
    BY <1>6
  <2>2. CASE k <= m
    <3>1. k \in 1..m /\ k \in 0..m /\ k - 1 \in 0..m
      BY <2>1, <2>2
    <3>2. CallDecodes(ra[k - 1], a[k], ra[k])
      BY <3>1, <1>1, <1>4 DEF CallRun
    <3>3. QED
      BY <3>1, <3>2, <1>6, <1>7
  <2>3. CASE ~(k <= m)
    <3>1. PICK i \in 1..n : i = k - m
      BY <2>1, <2>3
    <3>2. k = m + i /\ k - 1 = m + (i - 1) /\ i \in 0..n /\ i - 1 \in 0..n
      BY <3>1
    <3>3. CallDecodes(rb[i - 1], b[i], rb[i])
      BY <1>2, <1>5 DEF CallRun
    <3>4. run[k] = rb[i] /\ run[k - 1] = rb[i - 1] /\ ab[k] = b[i]
      BY <3>1, <3>2, <1>6, <1>7
    <3>5. QED
      BY <3>3, <3>4
  <2>4. QED
    BY <2>2, <2>3
<1>9. run[0] = s /\ run[Len(ab)] = z
  <2>1. 0 \in 0..m /\ n \in 0..n
    OBVIOUS
  <2>2. QED
    BY <2>1, <1>1, <1>2, <1>5, <1>6, <1>7
<1>10. Leads(ab, s, z)
  BY <1>6, <1>8, <1>9 DEF Leads
<1>11. QED
  BY <1>10 DEF ab
\* Many sequences of calls, one behind the other.
LEMMA LeadsFlat ==
    ASSUME NEW seqs \in Seq(Seq(Calls4Meta)), NEW st,
           \A i \in 1..Len(seqs) : Leads(seqs[i], st[i - 1], st[i])
    PROVE  Leads(FlattenSeq(seqs), st[0], st[Len(seqs)])
<1>1. PICK part \in [0..Len(seqs) -> Seq(Calls4Meta)] :
        /\ part[0] = <<>> /\ FlattenSeq(seqs) = part[Len(seqs)]
        /\ \A i \in 1..Len(seqs) : part[i] = part[i - 1] \o seqs[i]
  BY FlattenIs
<1>2. PICK n \in Nat : n = Len(seqs)
  OBVIOUS
<1> DEFINE S == {i \in Nat : Leads(part[i], st[0], st[i])}
<1>3. 0 \in S
  BY <1>1, LeadsNowhere
<1>4. \A k \in 0..(n - 1) : k \in S => k + 1 \in S
  <2> SUFFICES ASSUME NEW k \in 0..(n - 1), k \in S PROVE k + 1 \in S
    OBVIOUS
  <2>1. k + 1 \in 1..Len(seqs) /\ (k + 1) - 1 = k /\ k + 1 \in Nat
    BY <1>2
  <2>2. Leads(seqs[k + 1], st[k], st[k + 1])
    BY <2>1
  <2>3. part[k + 1] = part[k] \o seqs[k + 1]
    BY <1>1, <2>1
  <2>4. Leads(part[k] \o seqs[k + 1], st[0], st[k + 1])
    BY <2>2, LeadsOn
  <2>5. QED
    BY <2>1, <2>3, <2>4
<1> HIDE DEF S
<1>5. \A k \in 0..n : k \in S
  <2>1. 0 \in Int /\ n \in Int
    OBVIOUS
  <2>2. QED
    BY <1>3, <1>4, <2>1, Climb, Zenon
<1>6. n \in S
  BY <1>5
<1>7. QED
  BY <1>1, <1>2, <1>6 DEF S

\* The first call, and what the others lead to.
LEMMA LeadsTail ==
    ASSUME NEW calls, NEW s, NEW z, Leads(calls, s, z), calls # <<>>
    PROVE  \E y : CallDecodes(s, calls[1], y) /\ Leads(Tail(calls), y, z)
<1>1. PICK run : /\ run[0] = s /\ run[Len(calls)] = z /\ CallRun(calls, run)
  BY DEF Leads
<1>2. calls \in Seq(Calls4Meta)
  BY DEF Leads
<1>3. PICK n \in Nat : n = Len(calls)
  BY <1>2
<1>4. n # 0
  BY <1>2, <1>3
<1>5. /\ Tail(calls) \in Seq(Calls4Meta) /\ Len(Tail(calls)) = n - 1
      /\ \A k \in 1..(n - 1) : Tail(calls)[k] = calls[k + 1]
  BY <1>2, <1>3, <1>4
<1> DEFINE rest == [k \in 0..(n - 1) |-> run[k + 1]]
<1>6. CallDecodes(s, calls[1], run[1])
  <2>1. 1 \in 1..Len(calls) /\ 1 - 1 = 0
    BY <1>3, <1>4
  <2>2. CallDecodes(run[1 - 1], calls[1], run[1])
    BY <1>1, <2>1 DEF CallRun
  <2>3. QED
    BY <1>1, <2>1, <2>2
<1>7. rest[0] = run[1] /\ rest[Len(Tail(calls))] = z
  BY <1>1, <1>3, <1>4, <1>5
<1>8. CallRun(Tail(calls), rest)
  <2> SUFFICES ASSUME NEW k \in 1..Len(Tail(calls))
               PROVE  CallDecodes(rest[k - 1], Tail(calls)[k], rest[k])
    BY DEF CallRun
  <2>1. k \in 1..(n - 1) /\ k + 1 \in 1..Len(calls) /\ (k + 1) - 1 = k
        /\ (k - 1) + 1 = k /\ k \in 0..(n - 1) /\ k - 1 \in 0..(n - 1)
    BY <1>3, <1>4, <1>5
  <2>2. CallDecodes(run[(k + 1) - 1], calls[k + 1], run[k + 1])
    BY <1>1, <2>1 DEF CallRun
  <2>3. rest[k - 1] = run[k] /\ rest[k] = run[k + 1]
        /\ Tail(calls)[k] = calls[k + 1]
    BY <1>5, <2>1
  <2>4. QED
    BY <2>1, <2>2, <2>3
<1> HIDE DEF rest
<1>9. Leads(Tail(calls), run[1], z)
  BY <1>5, <1>7, <1>8 DEF Leads
<1>10. QED
  BY <1>6, <1>9

-----------------------------------------------------------------------------
(* What the calls for one variable lead to.                                 *)

\* The last of a sequence is replaced.
LEMMA LastReplaced ==
    ASSUME NEW V, NEW g \in Seq(V), NEW x, NEW y, NEW gx, gx = Append(g, x)
    PROVE  /\ Len(gx) = Len(g) + 1 /\ gx[Len(gx)] = x
           /\ Same([gx EXCEPT ![Len(gx)] = y], Append(g, y))
<1>1. PICK W : W = V \cup {x, y}
  OBVIOUS
<1>2. g \in Seq(W) /\ x \in W /\ y \in W
  <2>1. \A e \in V : e \in W
    BY <1>1
  <2>2. QED
    BY <1>1, <2>1, SeqWidens
<1>3. PICK n \in Nat : n = Len(g)
  OBVIOUS
<1>4. /\ gx \in Seq(W) /\ Len(gx) = n + 1 /\ gx[n + 1] = x
      /\ \A k \in 1..n : gx[k] = g[k]
  BY <1>2, <1>3
<1>5. PICK gy : gy = Append(g, y)
  OBVIOUS
<1>6. /\ gy \in Seq(W) /\ Len(gy) = n + 1 /\ gy[n + 1] = y
      /\ \A k \in 1..n : gy[k] = g[k]
  BY <1>2, <1>3, <1>5
<1>7. PICK ge : ge = [gx EXCEPT ![Len(gx)] = y]
  OBVIOUS
<1>8. /\ ge \in Seq(W) /\ Len(ge) = n + 1
      /\ \A k \in 1..(n + 1) : ge[k] = IF k = n + 1 THEN y ELSE gx[k]
  <2>1. DOMAIN gx = 1..(n + 1) /\ n + 1 \in Nat
    BY <1>4
  <2>2. ge = [k \in 1..(n + 1) |-> IF k = n + 1 THEN y ELSE gx[k]]
    BY <2>1, <1>4, <1>7
  <2>3. \A k \in 1..(n + 1) : (IF k = n + 1 THEN y ELSE gx[k]) \in W
    BY <1>2, <1>4
  <2>4. QED
    BY <2>1, <2>2, <2>3
<1>9. \A k \in 1..(n + 1) : ge[k] = gy[k]
  <2> SUFFICES ASSUME NEW k \in 1..(n + 1) PROVE ge[k] = gy[k]
    OBVIOUS
  <2>1. k = n + 1 \/ k \in 1..n
    OBVIOUS
  <2>2. k \in 1..n => k # n + 1
    OBVIOUS
  <2>3. QED
    BY <2>1, <2>2, <1>4, <1>6, <1>8
<1>10. ge = gy
  BY <1>6, <1>8, <1>9, SeqEqual
<1>11. QED
  BY <1>3, <1>4, <1>5, <1>7, <1>10 DEF Same
\* What a CAbkClientMeta is before anything has been extracted.
LEMMA NewMetaIs ==
    Same(NewMeta, Client(<<>>, <<>>, 0, 100, 1, 0, <<>>, <<>>, TRUE, <<>>, NoEntity))
  BY DEF NewMeta, Client, NoEntity, Entity, Same

\* One call, and what it makes of the variable that is being read.
LEMMA TurnMakes ==
    ASSUME NEW l, NEW m, NEW c, NEW k, NEW h, Turns(l, m, c, k, h)
    PROVE  Makes(l, m, <<c>>, k, h)
  BY LeadsByOne DEF Turns, Makes

\* No call makes no difference.
LEMMA MakesNothing ==
    ASSUME NEW l, NEW m PROVE Makes(l, m, <<>>, l, m)
  BY LeadsNowhere DEF Makes

\* What calls make of a variable, and further calls of that.
LEMMA MakesOn ==
    ASSUME NEW l, NEW m, NEW a, NEW k, NEW h, NEW b, NEW j, NEW i,
           Makes(l, m, a, k, h), Makes(k, h, b, j, i)
    PROVE  Makes(l, m, a \o b, j, i)
  <1> SUFFICES ASSUME NEW V, NEW g \in Seq(V)
               PROVE  Leads(a \o b, <<l, Append(g, m)>>, <<j, Append(g, i)>>)
    BY DEF Makes
  <1>1. Leads(a, <<l, Append(g, m)>>, <<k, Append(g, h)>>)
    BY DEF Makes
  <1>2. Leads(b, <<k, Append(g, h)>>, <<j, Append(g, i)>>)
    BY DEF Makes
  <1>3. QED
    BY <1>1, <1>2, LeadsOn

\* Many sequences of calls are one.
LEMMA FlatIsCalls ==
    ASSUME NEW seqs \in Seq(Seq(Calls4Meta))
    PROVE  FlattenSeq(seqs) \in Seq(Calls4Meta)
<1>1. PICK part \in [0..Len(seqs) -> Seq(Calls4Meta)] :
        FlattenSeq(seqs) = part[Len(seqs)]
  BY FlattenIs
<1>2. Len(seqs) \in 0..Len(seqs)
  OBVIOUS
<1>3. QED
  BY <1>1, <1>2

\* Several blocks of calls.
LEMMA MakesFlat ==
    ASSUME NEW seqs \in Seq(Seq(Calls4Meta)), NEW l, NEW st,
           \A i \in 1..Len(seqs) : Makes(l, st[i - 1], seqs[i], l, st[i])
    PROVE  Makes(l, st[0], FlattenSeq(seqs), l, st[Len(seqs)])
  <1> SUFFICES ASSUME NEW V, NEW g \in Seq(V)
               PROVE  Leads(FlattenSeq(seqs), <<l, Append(g, st[0])>>,
                            <<l, Append(g, st[Len(seqs)])>>)
    BY DEF Makes
  <1>1. PICK n \in Nat : n = Len(seqs)
    OBVIOUS
  <1>2. PICK at : at = [i \in 0..n |-> <<l, Append(g, st[i])>>]
    OBVIOUS
  <1>3. at[0] = <<l, Append(g, st[0])>> /\ at[n] = <<l, Append(g, st[n])>>
    BY <1>2
  <1>4. \A i \in 1..Len(seqs) : Leads(seqs[i], at[i - 1], at[i])
    <2> SUFFICES ASSUME NEW i \in 1..Len(seqs)
                 PROVE  Leads(seqs[i], at[i - 1], at[i])
      OBVIOUS
    <2>1. i \in 0..n /\ i - 1 \in 0..n
      BY <1>1
    <2>2. /\ at[i] = <<l, Append(g, st[i])>>
          /\ at[i - 1] = <<l, Append(g, st[i - 1])>>
      BY <1>2, <2>1
    <2>3. Makes(l, st[i - 1], seqs[i], l, st[i])
      OBVIOUS
    <2>4. Leads(seqs[i], <<l, Append(g, st[i - 1])>>, <<l, Append(g, st[i])>>)
      BY <2>3 DEF Makes
    <2>5. QED
      BY <2>2, <2>4
  <1>5. Leads(FlattenSeq(seqs), at[0], at[Len(seqs)])
    BY <1>4, LeadsFlat
  <1>6. QED
    BY <1>1, <1>3, <1>5

\* Calls of the formatter in meta data, and the items they write.
LEMMA MetaValuesAre == MetaValues \subseteq Values
<1>1. Numbers \subseteq Whole
  <2>1. Quote \notin Numbers
    BY Zenon DEF Quote, Numbers
  <2> SUFFICES ASSUME NEW x \in Numbers PROVE x \in Whole
    OBVIOUS
  <2>2. x # Quote
    BY <2>1
  <2>3. x \in Words
    BY DEF Words
  <2>4. x \notin {"eos", "white", "{", "[", ",", "]", "}"}
    BY DEF Numbers
  <2>5. x \notin {"true", "false", "null", "nan", "inf", "5.5"}
    BY DEF Numbers
  <2>6. QED
    BY <2>2, <2>3, <2>4, <2>5, Zenon DEF Whole
<1>2. QED
  BY <1>1 DEF MetaValues, Values

\* The item that a call writes.
LEMMA CallItemIs ==
    ASSUME NEW c \in Calls4Meta, NEW inObject \in BOOLEAN
    PROVE  /\ CallItem(c, inObject) \in MetaItems
           /\ CallItem(c, inObject).t =
                CASE c[1] = "array" -> "ARRAY" [] c[1] = "object" -> "OBJECT"
                  [] c[1] = "value" -> "VALUE" [] OTHER -> "END"
           /\ c[1] # "close" =>
                CallItem(c, inObject).name = IF inObject THEN c[2] ELSE <<>>
           /\ c[1] = "value" => CallItem(c, inObject).v = c[3]
<1> DEFINE name == IF inObject THEN c[2] ELSE <<>>
<1>1. c[2] \in Strings /\ name \in Strings
  BY StringsHaveEmpty DEF Calls4Meta
<1>2. c[1] \in {"array", "object", "value", "close"}
      /\ (c[1] = "value" => c[3] \in MetaValues)
  BY DEF Calls4Meta
<1>3. \A t \in {"ARRAY", "OBJECT"} : Item(t, name, <<>>) \in MetaItems
  BY <1>1 DEF MetaItems, Items, ItemTypes, Item
<1>4. ASSUME NEW v \in MetaValues PROVE Item("VALUE", name, v) \in MetaItems
  BY <1>1, MetaValuesAre DEF MetaItems, Items, ItemTypes, Item
<1>5. EndItem \in MetaItems /\ EndItem.t = "END"
  BY EndItemIs DEF MetaItems
<1>6. QED
  BY <1>2, <1>3, <1>4, <1>5 DEF CallItem, Item
\* The name of a member is a string.
LEMMA MetaWordIs ==
    ASSUME NEW nm \in MetaWords PROVE <<nm>> \in Strings
<1>1. nm \in Words /\ nm # "eos" /\ nm # "date"
  BY DEF Words, MetaWords
<1>2. QED
  BY <1>1 DEF Strings

\* A scalar member of the meta data.
LEMMA ScalarTurns ==
    ASSUME NEW m, NEW nm \in MetaWords, NEW v \in MetaValues,
           NEW c, c = <<"value", <<nm>>, v>>
    PROVE  Turns("meta", m, c, "meta", ItemScalars(Item("VALUE", <<nm>>, v), m))
<1> DEFINE item == Item("VALUE", <<nm>>, v)
<1>1. <<nm>> \in Strings
  BY MetaWordIs
<1>2. c \in Calls4Meta
  BY <1>1 DEF Calls4Meta
<1>3. CallItem(c, TRUE) = item
  BY DEF CallItem
<1>4. item \in MetaItems
  <2>1. TRUE \in BOOLEAN
    OBVIOUS
  <2>2. QED
    BY <1>2, <1>3, <2>1, CallItemIs
<1>5. item.t = "VALUE"
  BY DEF Item
<1> HIDE DEF item
<1> SUFFICES ASSUME NEW V, NEW g \in Seq(V)
             PROVE  CallDecodes(<<"meta", Append(g, m)>>, c,
                                <<"meta", Append(g, ItemScalars(item, m))>>)
  BY DEF Turns, item
<1>6. PICK gx : gx = Append(g, m)
  OBVIOUS
<1>7. PICK y : y = ItemScalars(item, m)
  OBVIOUS
<1>8. gx[Len(gx)] = m /\ Same([gx EXCEPT ![Len(gx)] = y], Append(g, y))
  BY <1>6, LastReplaced
<1>9. Append(g, y) = [gx EXCEPT ![Len(gx)] = ItemScalars(item, @)]
  BY <1>7, <1>8 DEF Same
<1>10. InLoop("meta", gx, item, "meta", Append(g, y))
  BY <1>5, <1>9 DEF InLoop
<1>11. NamesIn("meta") = TRUE
  BY DEF NamesIn
<1>12. <<"meta", gx>>[1] = "meta" /\ <<"meta", gx>>[2] = gx
       /\ <<"meta", Append(g, y)>>[1] = "meta"
       /\ <<"meta", Append(g, y)>>[2] = Append(g, y)
  OBVIOUS
<1>13. CallDecodes(<<"meta", gx>>, c, <<"meta", Append(g, y)>>)
  BY <1>2, <1>3, <1>4, <1>10, <1>11, <1>12 DEF CallDecodes, Decodes
<1>14. QED
  BY <1>6, <1>7, <1>13
\* A part of the meta data, and one that is replaced.
LEMMA ClientSets ==
    ASSUME NEW n, NEW d, NEW lo, NEW hi, NEW f, NEW o, NEW th, NEW tb, NEW ok,
           NEW fb, NEW e, NEW m, m = Client(n, d, lo, hi, f, o, th, tb, ok, fb, e),
           NEW x
    PROVE  /\ Same(m.thresholds, th) /\ Same(m.table, tb) /\ Same(m.ok, ok)
           /\ Same(m.entity, e)
           /\ Same([m EXCEPT !.thresholds = x],
                   Client(n, d, lo, hi, f, o, x, tb, ok, fb, e))
           /\ Same([m EXCEPT !.table = x],
                   Client(n, d, lo, hi, f, o, th, x, ok, fb, e))
           /\ Same([m EXCEPT !.ok = x],
                   Client(n, d, lo, hi, f, o, th, tb, x, fb, e))
           /\ Same([m EXCEPT !.entity = x],
                   Client(n, d, lo, hi, f, o, th, tb, ok, fb, x))
  BY DEF Client, Same

\* An item in the loop over the members of one variable's meta data.
LEMMA ItemScalarsAre ==
    ASSUME NEW n, NEW d, NEW lo, NEW hi, NEW f, NEW o, NEW th, NEW tb, NEW ok,
           NEW fb, NEW e, NEW m, m = Client(n, d, lo, hi, f, o, th, tb, ok, fb, e),
           NEW item
    PROVE  ItemScalars(item, m)
             = Client(ItemText(item, "Name", n), ItemText(item, "DispName", d),
                      ItemNumeric(item, "RangeMin", lo),
                      ItemNumeric(item, "RangeMax", hi),
                      ItemNumeric(item, "Factor", f),
                      ItemNumeric(item, "Offset", o), th, tb, ok,
                      ItemOptional(item, "TextFallback", "str", fb), e)
<1> DEFINE Set(a, b, lo1, hi1, f1, o1, fb1) ==
             [m EXCEPT !.name = a, !.disp = b, !.min = lo1, !.max = hi1,
                       !.factor = f1, !.offset = o1, !.fallback = fb1]
<1>1. /\ m.name = n /\ m.disp = d /\ m.min = lo /\ m.max = hi /\ m.factor = f
      /\ m.offset = o /\ m.fallback = fb
  BY DEF Client
<1>2. ASSUME NEW a, NEW b, NEW lo1, NEW hi1, NEW f1, NEW o1, NEW fb1
      PROVE  Set(a, b, lo1, hi1, f1, o1, fb1)
               = Client(a, b, lo1, hi1, f1, o1, th, tb, ok, fb1, e)
  <2>1. PICK m1 : m1 = [m EXCEPT !.name = a]
    OBVIOUS
  <2>2. m1 = Client(a, d, lo, hi, f, o, th, tb, ok, fb, e)
    BY <2>1 DEF Client
  <2>3. PICK m2 : m2 = [m1 EXCEPT !.disp = b]
    OBVIOUS
  <2>4. m2 = Client(a, b, lo, hi, f, o, th, tb, ok, fb, e)
    BY <2>2, <2>3 DEF Client
  <2>5. PICK m3 : m3 = [m2 EXCEPT !.min = lo1]
    OBVIOUS
  <2>6. m3 = Client(a, b, lo1, hi, f, o, th, tb, ok, fb, e)
    BY <2>4, <2>5 DEF Client
  <2>7. PICK m4 : m4 = [m3 EXCEPT !.max = hi1]
    OBVIOUS
  <2>8. m4 = Client(a, b, lo1, hi1, f, o, th, tb, ok, fb, e)
    BY <2>6, <2>7 DEF Client
  <2>9. PICK m5 : m5 = [m4 EXCEPT !.factor = f1]
    OBVIOUS
  <2>10. m5 = Client(a, b, lo1, hi1, f1, o, th, tb, ok, fb, e)
    BY <2>8, <2>9 DEF Client
  <2>11. PICK m6 : m6 = [m5 EXCEPT !.offset = o1]
    OBVIOUS
  <2>12. m6 = Client(a, b, lo1, hi1, f1, o1, th, tb, ok, fb, e)
    BY <2>10, <2>11 DEF Client
  <2>13. [m6 EXCEPT !.fallback = fb1]
           = Client(a, b, lo1, hi1, f1, o1, th, tb, ok, fb1, e)
    BY <2>12 DEF Client
  <2>14. Set(a, b, lo1, hi1, f1, o1, fb1) = [m6 EXCEPT !.fallback = fb1]
    BY <2>1, <2>3, <2>5, <2>7, <2>9, <2>11
  <2>15. QED
    BY <2>13, <2>14
<1>3. ItemScalars(item, m)
        = Set(ItemText(item, "Name", m.name), ItemText(item, "DispName", m.disp),
              ItemNumeric(item, "RangeMin", m.min),
              ItemNumeric(item, "RangeMax", m.max),
              ItemNumeric(item, "Factor", m.factor),
              ItemNumeric(item, "Offset", m.offset),
              ItemOptional(item, "TextFallback", "str", m.fallback))
  BY DEF ItemScalars
<1> HIDE DEF Set
<1>4. QED
  BY <1>1, <1>2, <1>3, Zenon

\* A scalar member is written, and later read by ExtractScalars.
LEMMA ScalarMakes ==
    ASSUME NEW m, NEW nm \in MetaWords, NEW v \in MetaValues, NEW h,
           h = ItemScalars(Item("VALUE", <<nm>>, v), m)
    PROVE  Makes("meta", m, Value(<<nm>>, v), "meta", h)
<1>1. PICK c : c = <<"value", <<nm>>, v>>
  OBVIOUS
<1>2. Turns("meta", m, c, "meta", h)
  BY <1>1, ScalarTurns
<1>3. Value(<<nm>>, v) = <<c>>
  BY <1>1 DEF Value
<1>4. QED
  BY <1>2, <1>3, TurnMakes

\* Each of the scalar members replaces its part of the meta data.
LEMMA MembersMake ==
    ASSUME NEW n, NEW d, NEW lo, NEW hi, NEW f, NEW o, NEW th, NEW tb, NEW ok,
           NEW fb, NEW e, NEW x
    PROVE  /\ x \in Strings =>
                Makes("meta", Client(n, d, lo, hi, f, o, th, tb, ok, fb, e),
                      Value(<<"Name">>, <<"str", x>>), "meta",
                      Client(x, d, lo, hi, f, o, th, tb, ok, fb, e))
           /\ x \in Strings =>
                Makes("meta", Client(n, d, lo, hi, f, o, th, tb, ok, fb, e),
                      Value(<<"DispName">>, <<"str", x>>), "meta",
                      Client(n, x, lo, hi, f, o, th, tb, ok, fb, e))
           /\ x \in Strings =>
                Makes("meta", Client(n, d, lo, hi, f, o, th, tb, ok, fb, e),
                      Value(<<"TextFallback">>, <<"str", x>>), "meta",
                      Client(n, d, lo, hi, f, o, th, tb, ok, <<x>>, e))
           /\ x \in Numbers =>
                Makes("meta", Client(n, d, lo, hi, f, o, th, tb, ok, fb, e),
                      Value(<<"RangeMin">>, <<"double", x>>), "meta",
                      Client(n, d, Number[x], hi, f, o, th, tb, ok, fb, e))
           /\ x \in Numbers =>
                Makes("meta", Client(n, d, lo, hi, f, o, th, tb, ok, fb, e),
                      Value(<<"RangeMax">>, <<"double", x>>), "meta",
                      Client(n, d, lo, Number[x], f, o, th, tb, ok, fb, e))
           /\ x \in Numbers =>
                Makes("meta", Client(n, d, lo, hi, f, o, th, tb, ok, fb, e),
                      Value(<<"Factor">>, <<"double", x>>), "meta",
                      Client(n, d, lo, hi, Number[x], o, th, tb, ok, fb, e))
           /\ x \in Numbers =>
                Makes("meta", Client(n, d, lo, hi, f, o, th, tb, ok, fb, e),
                      Value(<<"Offset">>, <<"double", x>>), "meta",
                      Client(n, d, lo, hi, f, Number[x], th, tb, ok, fb, e))
<1>1. PICK m : m = Client(n, d, lo, hi, f, o, th, tb, ok, fb, e)
  OBVIOUS
<1>2. ASSUME NEW item
      PROVE  ItemScalars(item, m)
               = Client(ItemText(item, "Name", n), ItemText(item, "DispName", d),
                        ItemNumeric(item, "RangeMin", lo),
                        ItemNumeric(item, "RangeMax", hi),
                        ItemNumeric(item, "Factor", f),
                        ItemNumeric(item, "Offset", o), th, tb, ok,
                        ItemOptional(item, "TextFallback", "str", fb), e)
  BY <1>1, ItemScalarsAre
<1>3. {"Name", "DispName", "TextFallback", "RangeMin", "RangeMax", "Factor",
       "Offset"} \subseteq MetaWords
  BY DEF MetaWords
<1>4. ASSUME NEW nm \in MetaWords, x \in Strings
      PROVE  Makes("meta", m, Value(<<nm>>, <<"str", x>>), "meta",
                   Client(IF nm = "Name" THEN x ELSE n,
                          IF nm = "DispName" THEN x ELSE d, lo, hi, f, o, th, tb,
                          ok, IF nm = "TextFallback" THEN <<x>> ELSE fb, e))
  <2>1. PICK item : item = Item("VALUE", <<nm>>, <<"str", x>>)
    OBVIOUS
  <2>2. /\ item.t = "VALUE" /\ item.name = <<nm>>
        /\ item.v[1] = "str" /\ item.v[2] = x
    BY <2>1 DEF Item
  <2>3. \A w : (IsA(item, w, "str") <=> nm = w) /\ ~IsA(item, w, "double")
    BY <2>2 DEF IsA
  <2>4. /\ ItemText(item, "Name", n) = IF nm = "Name" THEN x ELSE n
        /\ ItemText(item, "DispName", d) = IF nm = "DispName" THEN x ELSE d
        /\ \A w, y : ItemNumeric(item, w, y) = y
        /\ ItemOptional(item, "TextFallback", "str", fb)
             = IF nm = "TextFallback" THEN <<x>> ELSE fb
    BY <2>2, <2>3 DEF ItemNumeric, ItemText, ItemOptional
  <2>5. <<"str", x>> \in MetaValues
    BY <1>4 DEF MetaValues
  <2>6. ItemScalars(item, m)
          = Client(IF nm = "Name" THEN x ELSE n,
                   IF nm = "DispName" THEN x ELSE d, lo, hi, f, o, th, tb,
                   ok, IF nm = "TextFallback" THEN <<x>> ELSE fb, e)
    BY <1>2, <2>4
  <2>7. QED
    BY <2>1, <2>5, <2>6, ScalarMakes, Zenon
<1>5. ASSUME NEW nm \in MetaWords, x \in Numbers
      PROVE  Makes("meta", m, Value(<<nm>>, <<"double", x>>), "meta",
                   Client(n, d, IF nm = "RangeMin" THEN Number[x] ELSE lo,
                          IF nm = "RangeMax" THEN Number[x] ELSE hi,
                          IF nm = "Factor" THEN Number[x] ELSE f,
                          IF nm = "Offset" THEN Number[x] ELSE o,
                          th, tb, ok, fb, e))
  <2>1. PICK item : item = Item("VALUE", <<nm>>, <<"double", x>>)
    OBVIOUS
  <2>2. /\ item.t = "VALUE" /\ item.name = <<nm>>
        /\ item.v[1] = "double" /\ item.v[2] = x
    BY <2>1 DEF Item
  <2>3. \A w : (IsA(item, w, "double") <=> nm = w) /\ ~IsA(item, w, "str")
    BY <2>2 DEF IsA
  <2>4. /\ \A w, y : /\ ItemText(item, w, y) = y
                     /\ ItemOptional(item, w, "str", y) = y
        /\ \A w, y : ItemNumeric(item, w, y) = IF nm = w THEN Number[x] ELSE y
    BY <2>2, <2>3 DEF ItemNumeric, ItemText, ItemOptional
  <2>5. <<"double", x>> \in MetaValues
    BY <1>5 DEF MetaValues
  <2>6. ItemScalars(item, m)
          = Client(n, d, IF nm = "RangeMin" THEN Number[x] ELSE lo,
                   IF nm = "RangeMax" THEN Number[x] ELSE hi,
                   IF nm = "Factor" THEN Number[x] ELSE f,
                   IF nm = "Offset" THEN Number[x] ELSE o, th, tb, ok, fb, e)
    BY <1>2, <2>4
  <2>7. QED
    BY <2>1, <2>5, <2>6, ScalarMakes, Zenon
<1>6. ASSUME x \in Strings
      PROVE  /\ Makes("meta", m, Value(<<"Name">>, <<"str", x>>), "meta",
                      Client(x, d, lo, hi, f, o, th, tb, ok, fb, e))
             /\ Makes("meta", m, Value(<<"DispName">>, <<"str", x>>), "meta",
                      Client(n, x, lo, hi, f, o, th, tb, ok, fb, e))
             /\ Makes("meta", m, Value(<<"TextFallback">>, <<"str", x>>), "meta",
                      Client(n, d, lo, hi, f, o, th, tb, ok, <<x>>, e))
  BY <1>3, <1>4, <1>6
<1>7. ASSUME x \in Numbers
      PROVE  /\ Makes("meta", m, Value(<<"RangeMin">>, <<"double", x>>), "meta",
                      Client(n, d, Number[x], hi, f, o, th, tb, ok, fb, e))
             /\ Makes("meta", m, Value(<<"RangeMax">>, <<"double", x>>), "meta",
                      Client(n, d, lo, Number[x], f, o, th, tb, ok, fb, e))
             /\ Makes("meta", m, Value(<<"Factor">>, <<"double", x>>), "meta",
                      Client(n, d, lo, hi, Number[x], o, th, tb, ok, fb, e))
             /\ Makes("meta", m, Value(<<"Offset">>, <<"double", x>>), "meta",
                      Client(n, d, lo, hi, f, Number[x], th, tb, ok, fb, e))
  BY <1>3, <1>5, <1>7
<1>8. QED
  BY <1>1, <1>6, <1>7

\* It is one call.
LEMMA ValueIsCall ==
    ASSUME NEW nm \in MetaWords, NEW v \in MetaValues
    PROVE  Value(<<nm>>, v) \in Seq(Calls4Meta)
<1>1. <<nm>> \in Strings
  BY MetaWordIs
<1>2. <<"value", <<nm>>, v>> \in Calls4Meta
  BY <1>1 DEF Calls4Meta
<1>3. QED
  BY <1>2 DEF Value

\* The rows of the table in CMeta::FormatAsJson.
LEMMA RowsAre ==
    ASSUME NEW m \in Metas
    PROVE  /\ Len(MetaRows(m)) = 5 /\ DOMAIN MetaRows(m) = 1..5
           /\ MetaRows(m)[1] = <<"DISPNAME", "DispName", <<"str", m.disp>>>>
           /\ MetaRows(m)[2] = <<"RANGE", "RangeMin", <<"double", m.min>>>>
           /\ MetaRows(m)[3] = <<"RANGE", "RangeMax", <<"double", m.max>>>>
           /\ MetaRows(m)[4] = <<"FACTOFFS", "Factor", <<"double", m.factor>>>>
           /\ MetaRows(m)[5] = <<"FACTOFFS", "Offset", <<"double", m.offset>>>>
  BY DEF MetaRows

\* The rows whose flags are set, and what the client reads in them.
LEMMA RowsMake ==
    ASSUME NEW m \in Metas
    PROVE  /\ FlattenSeq(FormatRows(m)) \in Seq(Calls4Meta)
           /\ Makes("meta", Named(m), FlattenSeq(FormatRows(m)), "meta",
                    Scaled(m, <<>>, <<>>, TRUE, <<>>))
<1> DEFINE C(d, lo, hi, f, o) ==
             Client(m.name, d, lo, hi, f, o, <<>>, <<>>, TRUE, <<>>, NoEntity)
           st == <<C(Shown(m), 0, 100, 1, 0), C(Shown(m), Lowest(m), 100, 1, 0),
                   C(Shown(m), Lowest(m), Highest(m), 1, 0),
                   C(Shown(m), Lowest(m), Highest(m), FactorOf(m), 0),
                   C(Shown(m), Lowest(m), Highest(m), FactorOf(m), OffsetOf(m))>>
           at == [i \in 0..5 |-> IF i = 0 THEN Named(m) ELSE st[i]]
           rows == FormatRows(m)
<1>0. /\ m.disp \in Strings /\ m.min \in Numbers /\ m.max \in Numbers
      /\ m.factor \in Numbers /\ m.offset \in Numbers
  BY MetaAssumption
<1>1. /\ <<"str", m.disp>> \in MetaValues /\ <<"double", m.min>> \in MetaValues
      /\ <<"double", m.max>> \in MetaValues
      /\ <<"double", m.factor>> \in MetaValues
      /\ <<"double", m.offset>> \in MetaValues
  BY <1>0 DEF MetaValues
<1>2. /\ "DispName" \in MetaWords /\ "RangeMin" \in MetaWords
      /\ "RangeMax" \in MetaWords /\ "Factor" \in MetaWords
      /\ "Offset" \in MetaWords
  BY DEF MetaWords
<1>3. /\ rows = [i \in 1..5 |-> rows[i]]
      /\ rows[1] = IF "DISPNAME" \in m.flags
                   THEN Value(<<"DispName">>, <<"str", m.disp>>) ELSE <<>>
      /\ rows[2] = IF "RANGE" \in m.flags
                   THEN Value(<<"RangeMin">>, <<"double", m.min>>) ELSE <<>>
      /\ rows[3] = IF "RANGE" \in m.flags
                   THEN Value(<<"RangeMax">>, <<"double", m.max>>) ELSE <<>>
      /\ rows[4] = IF "FACTOFFS" \in m.flags
                   THEN Value(<<"Factor">>, <<"double", m.factor>>) ELSE <<>>
      /\ rows[5] = IF "FACTOFFS" \in m.flags
                   THEN Value(<<"Offset">>, <<"double", m.offset>>) ELSE <<>>
  BY RowsAre, SMTT(30) DEF FormatRows
<1>4. <<>> \in Seq(Calls4Meta)
  OBVIOUS
<1>5. /\ at[0] = Named(m) /\ at[1] = C(Shown(m), 0, 100, 1, 0)
      /\ at[2] = C(Shown(m), Lowest(m), 100, 1, 0)
      /\ at[3] = C(Shown(m), Lowest(m), Highest(m), 1, 0)
      /\ at[4] = C(Shown(m), Lowest(m), Highest(m), FactorOf(m), 0)
      /\ at[5] = C(Shown(m), Lowest(m), Highest(m), FactorOf(m), OffsetOf(m))
  <2> HIDE DEF C
  <2>1. QED
    OBVIOUS
<1> HIDE DEF rows, at
<1>6. ASSUME NEW d, NEW lo, NEW hi, NEW f, NEW o
      PROVE  /\ Makes("meta", C(d, lo, hi, f, o),
                      Value(<<"DispName">>, <<"str", m.disp>>), "meta",
                      C(m.disp, lo, hi, f, o))
             /\ Makes("meta", C(d, lo, hi, f, o),
                      Value(<<"RangeMin">>, <<"double", m.min>>), "meta",
                      C(d, Number[m.min], hi, f, o))
             /\ Makes("meta", C(d, lo, hi, f, o),
                      Value(<<"RangeMax">>, <<"double", m.max>>), "meta",
                      C(d, lo, Number[m.max], f, o))
             /\ Makes("meta", C(d, lo, hi, f, o),
                      Value(<<"Factor">>, <<"double", m.factor>>), "meta",
                      C(d, lo, hi, Number[m.factor], o))
             /\ Makes("meta", C(d, lo, hi, f, o),
                      Value(<<"Offset">>, <<"double", m.offset>>), "meta",
                      C(d, lo, hi, f, Number[m.offset]))
  BY <1>0, MembersMake, ZenonT(30)
<1>7. at[0] = C(<<>>, 0, 100, 1, 0)
  BY <1>5 DEF Named
<1> HIDE DEF C
<1> DEFINE Goes(i) == /\ rows[i] \in Seq(Calls4Meta)
                      /\ Makes("meta", at[i - 1], rows[i], "meta", at[i])
<1>8. \A x : Makes("meta", x, <<>>, "meta", x)
  BY MakesNothing
<1>9. 1 - 1 = 0 /\ 2 - 1 = 1 /\ 3 - 1 = 2 /\ 4 - 1 = 3 /\ 5 - 1 = 4
  OBVIOUS
<1>10. Goes(1)
  <2>1. "DISPNAME" \notin m.flags => at[1] = at[0]
    BY <1>5, <1>7 DEF Shown
  <2>2. "DISPNAME" \in m.flags =>
          Makes("meta", at[0], Value(<<"DispName">>, <<"str", m.disp>>), "meta", at[1])
    <3>1. "DISPNAME" \in m.flags => at[1] = C(m.disp, 0, 100, 1, 0)
      BY <1>5 DEF Shown
    <3>2. QED
      BY <3>1, <1>6, <1>7
  <2>3. Value(<<"DispName">>, <<"str", m.disp>>) \in Seq(Calls4Meta)
    BY <1>1, <1>2, ValueIsCall
  <2>4. QED
    BY <2>1, <2>2, <2>3, <1>3, <1>4, <1>8, <1>9
<1>11. Goes(2)
  <2>1. "RANGE" \notin m.flags => at[2] = at[1]
    BY <1>5 DEF Lowest
  <2>2. "RANGE" \in m.flags =>
          Makes("meta", at[1], Value(<<"RangeMin">>, <<"double", m.min>>), "meta", at[2])
    BY <1>5, <1>6 DEF Lowest
  <2>3. Value(<<"RangeMin">>, <<"double", m.min>>) \in Seq(Calls4Meta)
    BY <1>1, <1>2, ValueIsCall
  <2>4. QED
    BY <2>1, <2>2, <2>3, <1>3, <1>4, <1>8, <1>9
<1>12. Goes(3)
  <2>1. "RANGE" \notin m.flags => at[3] = at[2]
    BY <1>5 DEF Highest
  <2>2. "RANGE" \in m.flags =>
          Makes("meta", at[2], Value(<<"RangeMax">>, <<"double", m.max>>), "meta", at[3])
    BY <1>5, <1>6 DEF Highest
  <2>3. Value(<<"RangeMax">>, <<"double", m.max>>) \in Seq(Calls4Meta)
    BY <1>1, <1>2, ValueIsCall
  <2>4. QED
    BY <2>1, <2>2, <2>3, <1>3, <1>4, <1>8, <1>9
<1>13. Goes(4)
  <2>1. "FACTOFFS" \notin m.flags => at[4] = at[3]
    BY <1>5 DEF FactorOf
  <2>2. "FACTOFFS" \in m.flags =>
          Makes("meta", at[3], Value(<<"Factor">>, <<"double", m.factor>>), "meta", at[4])
    BY <1>5, <1>6 DEF FactorOf
  <2>3. Value(<<"Factor">>, <<"double", m.factor>>) \in Seq(Calls4Meta)
    BY <1>1, <1>2, ValueIsCall
  <2>4. QED
    BY <2>1, <2>2, <2>3, <1>3, <1>4, <1>8, <1>9
<1>14. Goes(5)
  <2>1. "FACTOFFS" \notin m.flags => at[5] = at[4]
    BY <1>5 DEF OffsetOf
  <2>2. "FACTOFFS" \in m.flags =>
          Makes("meta", at[4], Value(<<"Offset">>, <<"double", m.offset>>), "meta", at[5])
    BY <1>5, <1>6 DEF OffsetOf
  <2>3. Value(<<"Offset">>, <<"double", m.offset>>) \in Seq(Calls4Meta)
    BY <1>1, <1>2, ValueIsCall
  <2>4. QED
    BY <2>1, <2>2, <2>3, <1>3, <1>4, <1>8, <1>9
<1>15. \A i \in 1..5 : Goes(i)
  <2>1. \A i \in 1..5 : i = 1 \/ i = 2 \/ i = 3 \/ i = 4 \/ i = 5
    OBVIOUS
  <2> HIDE DEF Goes
  <2>2. QED
    BY <2>1, <1>10, <1>11, <1>12, <1>13, <1>14
<1>16. rows \in Seq(Seq(Calls4Meta)) /\ Len(rows) = 5
  BY <1>3, <1>15
<1>17. \A i \in 1..Len(rows) : Makes("meta", at[i - 1], rows[i], "meta", at[i])
  BY <1>15, <1>16
<1>18. Makes("meta", at[0], FlattenSeq(rows), "meta", at[5])
  <2>1. Makes("meta", at[0], FlattenSeq(rows), "meta", at[Len(rows)])
    BY <1>16, <1>17, MakesFlat, Zenon
  <2>2. QED
    BY <2>1, <1>16
<1>19. at[5] = Scaled(m, <<>>, <<>>, TRUE, <<>>)
  BY <1>5 DEF Scaled, C
<1>20. FlattenSeq(rows) \in Seq(Calls4Meta)
  BY <1>16, FlatIsCalls
<1>21. QED
  BY <1>5, <1>18, <1>19, <1>20 DEF rows

\* A call whose item replaces the meta data of the variable.
LEMMA TurnIs ==
    ASSUME NEW l \in Loops, NEW m, NEW c \in Calls4Meta, NEW k, NEW h,
           NEW item, item = CallItem(c, NamesIn(l)),
           \A gx : gx[Len(gx)] = m =>
             InLoop(l, gx, item, k, [gx EXCEPT ![Len(gx)] = h])
    PROVE  Turns(l, m, c, k, h)
<1>1. NamesIn(l) \in BOOLEAN
  BY DEF NamesIn
<1>2. item \in MetaItems
  BY <1>1, CallItemIs
<1> SUFFICES ASSUME NEW V, NEW g \in Seq(V)
             PROVE  CallDecodes(<<l, Append(g, m)>>, c, <<k, Append(g, h)>>)
  BY DEF Turns
<1>3. PICK gx : gx = Append(g, m)
  OBVIOUS
<1>4. gx[Len(gx)] = m /\ Same([gx EXCEPT ![Len(gx)] = h], Append(g, h))
  BY <1>3, LastReplaced
<1>5. InLoop(l, gx, item, k, Append(g, h))
  BY <1>4 DEF Same
<1>6. /\ <<l, gx>>[1] = l /\ <<l, gx>>[2] = gx
      /\ <<k, Append(g, h)>>[1] = k /\ <<k, Append(g, h)>>[2] = Append(g, h)
  OBVIOUS
<1>7. CallDecodes(<<l, gx>>, c, <<k, Append(g, h)>>)
  BY <1>2, <1>5, <1>6 DEF CallDecodes, Decodes
<1>8. QED
  BY <1>3, <1>7

\* An array that the client reads in a loop of its own.
LEMMA ArrayTurns ==
    ASSUME NEW n, NEW d, NEW lo, NEW hi, NEW f, NEW o, NEW th, NEW tb, NEW ok,
           NEW fb, NEW e, NEW nm, NEW k, Enters(nm, k)
    PROVE  /\ Open("array", <<nm>>) \in Seq(Calls4Meta)
           /\ Makes("meta", Client(n, d, lo, hi, f, o, th, tb, ok, fb, e),
                    Open("array", <<nm>>), k,
                    Client(n, d, lo, hi, f, o, th, tb, ok, fb, e))
<1>13. PICK m : m = Client(n, d, lo, hi, f, o, th, tb, ok, fb, e)
  OBVIOUS
<1>1. PICK c : c = <<"array", <<nm>>, <<>>>>
  OBVIOUS
<1>2. <<nm>> \in Strings
  <2>1. nm \in MetaWords
    BY DEF MetaWords, Enters
  <2>2. QED
    BY <2>1, MetaWordIs
<1>3. c \in Calls4Meta
  BY <1>1, <1>2 DEF Calls4Meta
<1>4. PICK item : item = Item("ARRAY", <<nm>>, <<>>)
  OBVIOUS
<1>5. item = CallItem(c, NamesIn("meta"))
  BY <1>1, <1>4 DEF CallItem, NamesIn
<1>6. ItemScalars(item, m) = m
  <2>1. item.t # "VALUE"
    BY <1>4 DEF Item
  <2>2. /\ ItemText(item, "Name", n) = n /\ ItemText(item, "DispName", d) = d
        /\ ItemNumeric(item, "RangeMin", lo) = lo
        /\ ItemNumeric(item, "RangeMax", hi) = hi
        /\ ItemNumeric(item, "Factor", f) = f
        /\ ItemNumeric(item, "Offset", o) = o
        /\ ItemOptional(item, "TextFallback", "str", fb) = fb
    BY <2>1 DEF ItemNumeric, ItemText, ItemOptional, IsA
  <2>3. ItemScalars(item, m)
          = Client(ItemText(item, "Name", n), ItemText(item, "DispName", d),
                   ItemNumeric(item, "RangeMin", lo),
                   ItemNumeric(item, "RangeMax", hi),
                   ItemNumeric(item, "Factor", f),
                   ItemNumeric(item, "Offset", o), th, tb, ok,
                   ItemOptional(item, "TextFallback", "str", fb), e)
    BY <1>13, ItemScalarsAre
  <2>4. ItemScalars(item, m) = Client(n, d, lo, hi, f, o, th, tb, ok, fb, e)
    BY <2>2, <2>3
  <2>5. QED
    BY <2>4, <1>13
<1>7. ASSUME NEW gx, gx[Len(gx)] = m
      PROVE  InLoop("meta", gx, item, k, [gx EXCEPT ![Len(gx)] = m])
  <2>1. item.t = "ARRAY" /\ item.name = <<nm>>
    BY <1>4 DEF Item
  <2>2. [gx EXCEPT ![Len(gx)] = m] = [gx EXCEPT ![Len(gx)] = ItemScalars(item, @)]
    BY <1>6, <1>7
  <2>3. QED
    BY <2>1, <2>2 DEF InLoop, Enters
<1>8. Turns("meta", m, c, k, m)
  <2>1. "meta" \in Loops
    BY DEF Loops
  <2>2. QED
    BY <1>3, <1>5, <1>7, <2>1, TurnIs
<1>9. Open("array", <<nm>>) = <<c>>
  BY <1>1 DEF Open
<1>10. <<c>> \in Seq(Calls4Meta)
  BY <1>3
<1>11. Makes("meta", m, <<c>>, k, m)
  BY <1>8, TurnMakes, Zenon
<1>12. QED
  BY <1>9, <1>10, <1>11, <1>13

\* The end of an array, of an object or of a variable's meta data.
LEMMA CloseIsCall ==
    /\ <<"close", <<>>, <<>>>> \in Calls4Meta /\ CloseCall \in Seq(Calls4Meta)
    /\ \A inObject \in BOOLEAN :
         CallItem(<<"close", <<>>, <<>>>>, inObject) = EndItem
<1>1. PICK c : c = <<"close", <<>>, <<>>>>
  OBVIOUS
<1>2. c \in Calls4Meta
  BY <1>1 DEF Calls4Meta
<1>3. \A inObject \in BOOLEAN : CallItem(c, inObject) = EndItem
  BY <1>1 DEF CallItem
<1>4. CloseCall = <<c>>
  BY <1>1 DEF CloseCall
<1>5. QED
  BY <1>1, <1>2, <1>3, <1>4

\* The end of such a loop, where what InLoop says of it is known.
LEMMA CloseMakes ==
    ASSUME NEW l \in Loops, NEW m, NEW k, NEW h,
           \A gx : gx[Len(gx)] = m =>
             InLoop(l, gx, EndItem, k, [gx EXCEPT ![Len(gx)] = h])
    PROVE  Makes(l, m, CloseCall, k, h)
<1>1. NamesIn(l) \in BOOLEAN
  BY DEF NamesIn
<1>2. PICK c : c = <<"close", <<>>, <<>>>>
  OBVIOUS
<1>3. EndItem = CallItem(c, NamesIn(l)) /\ c \in Calls4Meta
  BY <1>1, <1>2, CloseIsCall
<1>4. Turns(l, m, c, k, h)
  BY <1>3, TurnIs
<1>5. CloseCall = <<c>>
  BY <1>2 DEF CloseCall
<1>6. QED
  BY <1>4, <1>5, TurnMakes

-----------------------------------------------------------------------------
(* Thresholds. *)

\* One threshold.
LEMMA ThresholdMakes ==
    ASSUME NEW n, NEW d, NEW lo, NEW hi, NEW f, NEW o, NEW th, NEW tb, NEW ok,
           NEW fb, NEW e, NEW x \in Numbers
    PROVE  /\ Value(<<>>, <<"double", x>>) \in Seq(Calls4Meta)
           /\ Makes("thresholds", Client(n, d, lo, hi, f, o, th, tb, ok, fb, e),
                    Value(<<>>, <<"double", x>>), "thresholds",
                    Client(n, d, lo, hi, f, o, Append(th, Number[x]), tb, ok,
                           fb, e))
<1>1. PICK m : m = Client(n, d, lo, hi, f, o, th, tb, ok, fb, e)
  OBVIOUS
<1>2. PICK h : h = Client(n, d, lo, hi, f, o, Append(th, Number[x]), tb, ok, fb, e)
  OBVIOUS
<1>3. PICK v : v = <<"double", x>>
  OBVIOUS
<1>4. PICK c : c = <<"value", <<>>, v>>
  OBVIOUS
<1>5. c \in Calls4Meta
  <2>1. v \in MetaValues
    BY <1>3 DEF MetaValues
  <2>2. QED
    BY <1>4, <2>1, StringsHaveEmpty DEF Calls4Meta
<1>6. PICK item : item = CallItem(c, NamesIn("thresholds"))
  OBVIOUS
<1>7. item.t = "VALUE" /\ item.v = v
  BY <1>4, <1>6 DEF CallItem, Item
<1>8. v[1] = "double" /\ v[2] = x
  BY <1>3
<1>9. m.thresholds = th /\ [m EXCEPT !.thresholds = Append(th, Number[x])] = h
  <2>1. PICK w : w = Append(th, Number[x])
    OBVIOUS
  <2>2. h = Client(n, d, lo, hi, f, o, w, tb, ok, fb, e)
    BY <1>2, <2>1
  <2>3. m.thresholds = th /\ [m EXCEPT !.thresholds = w] = h
    BY <1>1, <2>2 DEF Client
  <2>4. QED
    BY <2>1, <2>3
<1>10. ASSUME NEW gx, gx[Len(gx)] = m
       PROVE  InLoop("thresholds", gx, item, "thresholds",
                     [gx EXCEPT ![Len(gx)] = h])
  <2>1. [gx EXCEPT ![Len(gx)].thresholds = Append(@, Number[item.v[2]])]
          = [gx EXCEPT ![Len(gx)] =
               [gx[Len(gx)] EXCEPT !.thresholds =
                  Append(gx[Len(gx)].thresholds, Number[x])]]
    BY <1>7, <1>8
  <2>2. [gx EXCEPT ![Len(gx)].thresholds = Append(@, Number[item.v[2]])]
          = [gx EXCEPT ![Len(gx)] = h]
    BY <2>1, <1>9, <1>10
  <2>3. QED
    BY <2>2, <1>7, <1>8 DEF InLoop
<1>11. Turns("thresholds", m, c, "thresholds", h)
  <2>1. "thresholds" \in Loops
    BY DEF Loops
  <2>2. QED
    BY <1>5, <1>6, <1>10, <2>1, TurnIs
<1>12. Value(<<>>, <<"double", x>>) = <<c>>
  BY <1>3, <1>4 DEF Value
<1>13. QED
  BY <1>1, <1>2, <1>5, <1>11, <1>12, TurnMakes
\* The first of the thresholds.
LEMMA CountedGrows ==
    ASSUME NEW m, NEW i \in 1..5
    PROVE  /\ Same(Append(Counted(m, i - 1), Number[m.thresholds[i]]), Counted(m, i))
           /\ Counted(m, 0) = <<>>
           /\ Counted(m, 5) = RawThresholds(m)
<1> DEFINE x(j) == Number[m.thresholds[j]]
           V == {x(j) : j \in 1..5}
<1>1. i \in Nat /\ i - 1 \in Nat /\ (i - 1) + 1 = i
  OBVIOUS
<1>2. Counted(m, i - 1) \in Seq(V) /\ Len(Counted(m, i - 1)) = i - 1
  <2>1. \A j \in 1..(i - 1) : x(j) \in V
    OBVIOUS
  <2> HIDE DEF V
  <2>2. QED
    BY <1>1, <2>1 DEF Counted
<1>3. x(i) \in V
  OBVIOUS
<1>4. Counted(m, i) \in Seq(V) /\ Len(Counted(m, i)) = i
  <2>1. \A j \in 1..i : x(j) \in V
    OBVIOUS
  <2> HIDE DEF V
  <2>2. QED
    BY <1>1, <2>1 DEF Counted
<1>5. PICK p : p = Append(Counted(m, i - 1), x(i))
  OBVIOUS
<1> HIDE DEF V
<1>6. /\ p \in Seq(V) /\ Len(p) = i /\ p[i] = x(i)
      /\ \A j \in 1..(i - 1) : p[j] = Counted(m, i - 1)[j]
  BY <1>1, <1>2, <1>3, <1>5
<1>7. \A j \in 1..(i - 1) : Counted(m, i - 1)[j] = x(j)
  BY DEF Counted
<1>8. \A j \in 1..i : Counted(m, i)[j] = x(j)
  BY DEF Counted
<1>9. \A j \in 1..i : p[j] = Counted(m, i)[j]
  <2> SUFFICES ASSUME NEW j \in 1..i PROVE p[j] = Counted(m, i)[j]
    OBVIOUS
  <2>1. j = i \/ j \in 1..(i - 1)
    OBVIOUS
  <2> HIDE DEF x
  <2>2. QED
    BY <2>1, <1>6, <1>7, <1>8
<1>10. p = Counted(m, i)
  BY <1>4, <1>6, <1>9, SeqEqual
<1>11. Counted(m, 0) = <<>>
  BY DEF Counted
<1>12. Counted(m, 5) = RawThresholds(m)
  BY DEF Counted, RawThresholds
<1>13. QED
  BY <1>5, <1>10, <1>11, <1>12 DEF Same

\* The array of them is read and, if they do not rise, forgotten.
LEMMA ThresholdsMake ==
    ASSUME NEW m \in Metas
    PROVE  /\ FormatThresholds(m) \in Seq(Calls4Meta)
           /\ "THRESHOLDS" \in m.flags =>
                Makes("meta", Scaled(m, <<>>, <<>>, TRUE, <<>>),
                      FormatThresholds(m), "meta",
                      Scaled(m, Kept(m), <<>>, TRUE, <<>>))
<1> DEFINE C(th) == Scaled(m, th, <<>>, TRUE, <<>>)
           seqs == [i \in DOMAIN m.thresholds |->
                      Value(<<>>, <<"double", m.thresholds[i]>>)]
           st == [i \in 0..5 |-> C(Counted(m, i))]
<1>1. m.thresholds \in [1..5 -> Numbers]
  BY MetaAssumption
<1>2. FormatThresholds(m)
        = (Open("array", <<"Thresholds">>) \o FlattenSeq(seqs)) \o CloseCall
  BY DEF FormatThresholds, ForEach
<1>3. /\ Open("array", <<"Thresholds">>) \in Seq(Calls4Meta)
      /\ Makes("meta", C(<<>>), Open("array", <<"Thresholds">>), "thresholds",
               C(<<>>))
  <2>1. PICK nm, k : nm = "Thresholds" /\ k = "thresholds"
    OBVIOUS
  <2>2. Enters(nm, k)
    BY <2>1 DEF Enters
  <2>3. /\ Open("array", <<nm>>) \in Seq(Calls4Meta)
        /\ Makes("meta", C(<<>>), Open("array", <<nm>>), k, C(<<>>))
    BY <2>2, ArrayTurns, Zenon DEF Scaled
  <2>4. QED
    BY <2>1, <2>3
<1>4. ASSUME NEW i \in 1..5
      PROVE  /\ seqs[i] \in Seq(Calls4Meta)
             /\ Makes("thresholds", st[i - 1], seqs[i], "thresholds", st[i])
  <2>1. m.thresholds[i] \in Numbers /\ i \in DOMAIN m.thresholds
    BY <1>1
  <2>2. seqs[i] = Value(<<>>, <<"double", m.thresholds[i]>>)
    BY <2>1
  <2>3. i \in 0..5 /\ i - 1 \in 0..5
    OBVIOUS
  <2>4. st[i] = C(Counted(m, i)) /\ st[i - 1] = C(Counted(m, i - 1))
    BY <2>3
  <2>5. PICK a : a = Append(Counted(m, i - 1), Number[m.thresholds[i]])
    OBVIOUS
  <2>6. /\ Value(<<>>, <<"double", m.thresholds[i]>>) \in Seq(Calls4Meta)
        /\ Makes("thresholds", C(Counted(m, i - 1)),
                 Value(<<>>, <<"double", m.thresholds[i]>>), "thresholds",
                 C(Append(Counted(m, i - 1), Number[m.thresholds[i]])))
    BY <2>1, ThresholdMakes, Zenon DEF Scaled
  <2>7. a = Counted(m, i)
    BY <2>5, CountedGrows DEF Same
  <2> HIDE DEF C, seqs, st
  <2>8. QED
    BY <2>2, <2>4, <2>5, <2>6, <2>7
<1>5. seqs \in Seq(Seq(Calls4Meta)) /\ Len(seqs) = 5
  <2>1. seqs = [i \in 1..5 |-> seqs[i]]
    BY <1>1
  <2>2. 5 \in Nat
    OBVIOUS
  <2> HIDE DEF seqs
  <2>3. QED
    BY <2>1, <2>2, <1>4
<1> HIDE DEF seqs
<1>6. FlattenSeq(seqs) \in Seq(Calls4Meta)
  BY <1>5, FlatIsCalls
<1>7. Makes("thresholds", C(<<>>), FlattenSeq(seqs), "thresholds",
            C(RawThresholds(m)))
  <2>1. st[0] = C(<<>>) /\ st[5] = C(RawThresholds(m))
    <3>1. 1 \in 1..5
      OBVIOUS
    <3>2. Counted(m, 0) = <<>> /\ Counted(m, 5) = RawThresholds(m)
      BY <3>1, CountedGrows
    <3> HIDE DEF C
    <3>3. QED
      BY <3>2
  <2> HIDE DEF C, st
  <2>2. Makes("thresholds", st[0], FlattenSeq(seqs), "thresholds", st[Len(seqs)])
    BY <1>4, <1>5, MakesFlat
  <2>3. QED
    BY <2>1, <2>2, <1>5
<1>8. "THRESHOLDS" \in m.flags =>
        Makes("thresholds", C(RawThresholds(m)), CloseCall, "meta", C(Kept(m)))
  <2> SUFFICES ASSUME "THRESHOLDS" \in m.flags
               PROVE  Makes("thresholds", C(RawThresholds(m)), CloseCall, "meta",
                            C(Kept(m)))
    OBVIOUS
  <2>1. PICK r : r = C(RawThresholds(m))
    OBVIOUS
  <2>2. PICK h : h = C(Kept(m))
    OBVIOUS
  <2>3. r.thresholds = RawThresholds(m)
    BY <2>1 DEF Scaled, Client
  <2>4. Kept(m) = IF Rising(r.thresholds) THEN r.thresholds ELSE <<>>
    BY <2>3 DEF Kept
  <2>5. PICK w : w = Kept(m)
    OBVIOUS
  <2>6. [r EXCEPT !.thresholds = w] = h
    <3>1. Same([r EXCEPT !.thresholds = w], C(w))
      BY <2>1, ClientSets, Zenon DEF Scaled
    <3>2. QED
      BY <3>1, <2>2, <2>5 DEF Same
  <2>7. ASSUME NEW gx, gx[Len(gx)] = r
        PROVE  InLoop("thresholds", gx, EndItem, "meta",
                      [gx EXCEPT ![Len(gx)] = h])
    <3>1. [gx EXCEPT ![Len(gx)].thresholds = IF Rising(@) THEN @ ELSE <<>>]
            = [gx EXCEPT ![Len(gx)] =
                 [gx[Len(gx)] EXCEPT !.thresholds =
                    IF Rising(gx[Len(gx)].thresholds)
                    THEN gx[Len(gx)].thresholds ELSE <<>>]]
      OBVIOUS
    <3>2. [gx EXCEPT ![Len(gx)].thresholds = IF Rising(@) THEN @ ELSE <<>>]
            = [gx EXCEPT ![Len(gx)] = h]
      BY <3>1, <2>4, <2>5, <2>6, <2>7
    <3>3. QED
      BY <3>2, EndItemIs DEF InLoop
  <2>8. "thresholds" \in Loops
    BY DEF Loops
  <2>9. Makes("thresholds", r, CloseCall, "meta", h)
    BY <2>7, <2>8, CloseMakes
  <2>10. QED
    BY <2>1, <2>2, <2>9
<1> HIDE DEF C
<1>9. FormatThresholds(m) \in Seq(Calls4Meta)
  BY <1>2, <1>3, <1>6, CloseIsCall
<1>10. "THRESHOLDS" \in m.flags =>
         Makes("meta", C(<<>>), FormatThresholds(m), "meta", C(Kept(m)))
  <2>1. Makes("meta", C(<<>>), Open("array", <<"Thresholds">>) \o FlattenSeq(seqs),
              "thresholds", C(RawThresholds(m)))
    BY <1>3, <1>7, MakesOn, Zenon
  <2>2. QED
    BY <2>1, <1>2, <1>8, MakesOn, Zenon
<1>11. QED
  BY <1>9, <1>10 DEF C
-----------------------------------------------------------------------------
(* The table of texts. *)

\* Another entity begins, or the table ends.
LEMMA EntityBegins ==
    ASSUME NEW n, NEW d, NEW lo, NEW hi, NEW f, NEW o, NEW th, NEW tb, NEW ok,
           NEW fb, NEW e
    PROVE  /\ Open("object", <<>>) \in Seq(Calls4Meta)
           /\ Makes("table", Client(n, d, lo, hi, f, o, th, tb, ok, fb, e),
                    Open("object", <<>>), "entity",
                    Client(n, d, lo, hi, f, o, th, tb, ok, fb, NoEntity))
           /\ Makes("table", Client(n, d, lo, hi, f, o, th, tb, ok, fb, e),
                    CloseCall, "meta",
                    Client(n, d, lo, hi, f, o, th, tb, ok, fb, NoEntity))
<1>1. PICK m : m = Client(n, d, lo, hi, f, o, th, tb, ok, fb, e)
  OBVIOUS
<1>2. PICK h : h = Client(n, d, lo, hi, f, o, th, tb, ok, fb, NoEntity)
  OBVIOUS
<1>3. [m EXCEPT !.entity = NewMeta.entity] = h
  <2>1. Same([m EXCEPT !.entity = NoEntity],
             Client(n, d, lo, hi, f, o, th, tb, ok, fb, NoEntity))
    BY <1>1, ClientSets, Zenon
  <2>2. NewMeta.entity = NoEntity
    BY DEF NewMeta, NoEntity, Entity
  <2>3. QED
    BY <2>1, <2>2, <1>2 DEF Same
<1>4. PICK c : c = <<"object", <<>>, <<>>>>
  OBVIOUS
<1>5. c \in Calls4Meta
  BY <1>4, StringsHaveEmpty DEF Calls4Meta
<1>6. PICK item : item = CallItem(c, NamesIn("table"))
  OBVIOUS
<1>7. item.t = "OBJECT"
  BY <1>4, <1>6 DEF CallItem, Item
<1>8. ASSUME NEW gx, gx[Len(gx)] = m
      PROVE  /\ InLoop("table", gx, item, "entity", [gx EXCEPT ![Len(gx)] = h])
             /\ InLoop("table", gx, EndItem, "meta", [gx EXCEPT ![Len(gx)] = h])
  <2>1. [gx EXCEPT ![Len(gx)].entity = NewMeta.entity]
          = [gx EXCEPT ![Len(gx)] = [gx[Len(gx)] EXCEPT !.entity = NewMeta.entity]]
    OBVIOUS
  <2>2. [gx EXCEPT ![Len(gx)].entity = NewMeta.entity] = [gx EXCEPT ![Len(gx)] = h]
    BY <2>1, <1>3, <1>8
  <2>3. QED
    BY <2>2, <1>7, EndItemIs DEF InLoop
<1>9. "table" \in Loops
  BY DEF Loops
<1>10. Turns("table", m, c, "entity", h)
  BY <1>5, <1>6, <1>8, <1>9, TurnIs
<1>11. Makes("table", m, <<c>>, "entity", h)
  BY <1>10, TurnMakes, Zenon
<1>12. Makes("table", m, CloseCall, "meta", h)
  BY <1>8, <1>9, CloseMakes
<1>13. Open("object", <<>>) = <<c>> /\ <<c>> \in Seq(Calls4Meta)
  BY <1>4, <1>5 DEF Open
<1>14. QED
  BY <1>1, <1>2, <1>11, <1>12, <1>13

\* The two members of an entity.
LEMMA EntityMembers ==
    ASSUME NEW n, NEW d, NEW lo, NEW hi, NEW f, NEW o, NEW th, NEW tb, NEW ok,
           NEW fb, NEW a, NEW b, NEW x
    PROVE  /\ x \in Numbers =>
                /\ Value(<<"Value">>, <<"double", x>>) \in Seq(Calls4Meta)
                /\ Makes("entity", Client(n, d, lo, hi, f, o, th, tb, ok, fb,
                                          Entity(a, b)),
                         Value(<<"Value">>, <<"double", x>>), "entity",
                         Client(n, d, lo, hi, f, o, th, tb, ok, fb,
                                Entity(<<x>>, b)))
           /\ x \in Strings =>
                /\ Value(<<"Text">>, <<"str", x>>) \in Seq(Calls4Meta)
                /\ Makes("entity", Client(n, d, lo, hi, f, o, th, tb, ok, fb,
                                          Entity(a, b)),
                         Value(<<"Text">>, <<"str", x>>), "entity",
                         Client(n, d, lo, hi, f, o, th, tb, ok, fb,
                                Entity(a, <<x>>)))
<1> DEFINE C(e) == Client(n, d, lo, hi, f, o, th, tb, ok, fb, e)
<1>1. PICK e : e = Entity(a, b)
  OBVIOUS
<1>2. PICK m : m = C(e)
  OBVIOUS
<1>3. ASSUME NEW nm \in MetaWords, NEW v \in MetaValues, NEW p, NEW q,
             p = ItemOptional(Item("VALUE", <<nm>>, v), "Value", "double", a),
             q = ItemOptional(Item("VALUE", <<nm>>, v), "Text", "str", b)
      PROVE  Makes("entity", m, Value(<<nm>>, v), "entity",
                   C(Entity(p, q)))
  <2>1. PICK h : h = C(Entity(p, q))
    OBVIOUS
  <2>2. PICK item : item = Item("VALUE", <<nm>>, v)
    OBVIOUS
  <2>3. PICK c : c = <<"value", <<nm>>, v>>
    OBVIOUS
  <2>4. c \in Calls4Meta
    BY <2>3, MetaWordIs DEF Calls4Meta
  <2>5. item = CallItem(c, NamesIn("entity")) /\ item.t = "VALUE"
    BY <2>2, <2>3 DEF CallItem, NamesIn, Item
  <2>6. m.entity = e
    BY <1>2 DEF Client
  <2>7. ItemEntity(item, m) = h
    <3>1. PICK e1 : e1 = [e EXCEPT !.value = p, !.text = q]
      OBVIOUS
    <3>2. e1 = Entity(p, q)
      BY <1>1, <3>1 DEF Entity
    <3>3. Same([m EXCEPT !.entity = e1], C(e1))
      BY <1>2, ClientSets, Zenon
    <3>4. p = ItemOptional(item, "Value", "double", e.value)
          /\ q = ItemOptional(item, "Text", "str", e.text)
      BY <1>1, <1>3, <2>2 DEF Entity
    <3>5. ItemEntity(item, m)
            = [m EXCEPT !.entity =
                 [m.entity EXCEPT
                    !.value = ItemOptional(item, "Value", "double", m.entity.value),
                    !.text = ItemOptional(item, "Text", "str", m.entity.text)]]
      BY <1>2 DEF ItemEntity, Client
    <3> HIDE DEF C
    <3>6. ItemEntity(item, m) = [m EXCEPT !.entity = e1]
      BY <3>1, <3>4, <3>5, <2>6
    <3>7. QED
      BY <3>2, <3>3, <3>6, <2>1 DEF Same
  <2>8. ASSUME NEW gx, gx[Len(gx)] = m
        PROVE  InLoop("entity", gx, item, "entity", [gx EXCEPT ![Len(gx)] = h])
    <3>1. [gx EXCEPT ![Len(gx)] = h] = [gx EXCEPT ![Len(gx)] = ItemEntity(item, @)]
      BY <2>7, <2>8
    <3>2. QED
      BY <3>1, <2>5 DEF InLoop
  <2>9. "entity" \in Loops
    BY DEF Loops
  <2>10. Turns("entity", m, c, "entity", h)
    BY <2>4, <2>5, <2>8, <2>9, TurnIs
  <2>11. Makes("entity", m, <<c>>, "entity", h)
    BY <2>10, TurnMakes, Zenon
  <2>12. Value(<<nm>>, v) = <<c>>
    BY <2>3 DEF Value
  <2>13. QED
    BY <2>1, <2>11, <2>12
<1> HIDE DEF C
<1>4. ASSUME x \in Numbers
      PROVE  /\ Value(<<"Value">>, <<"double", x>>) \in Seq(Calls4Meta)
             /\ Makes("entity", m, Value(<<"Value">>, <<"double", x>>), "entity",
                      C(Entity(<<x>>, b)))
  <2>1. PICK nm : nm = "Value"
    OBVIOUS
  <2>2. PICK v : v = <<"double", x>>
    OBVIOUS
  <2>3. v \in MetaValues /\ nm \in MetaWords
    BY <1>4, <2>1, <2>2 DEF MetaValues, MetaWords
  <2>4. PICK item : item = Item("VALUE", <<nm>>, v)
    OBVIOUS
  <2>5. item.t = "VALUE" /\ item.name = <<"Value">> /\ item.v[1] = "double"
        /\ item.v[2] = x
    BY <2>1, <2>2, <2>4 DEF Item
  <2>6. <<x>> = ItemOptional(item, "Value", "double", a)
        /\ b = ItemOptional(item, "Text", "str", b)
    BY <2>5 DEF ItemOptional, IsA
  <2>7. Makes("entity", m, Value(<<nm>>, v), "entity",
              C(Entity(<<x>>, b)))
    BY <1>3, <2>3, <2>4, <2>6, Zenon
  <2>8. Value(<<nm>>, v) \in Seq(Calls4Meta)
    BY <2>3, ValueIsCall
  <2>9. QED
    BY <2>1, <2>2, <2>7, <2>8
<1>5. ASSUME x \in Strings
      PROVE  /\ Value(<<"Text">>, <<"str", x>>) \in Seq(Calls4Meta)
             /\ Makes("entity", m, Value(<<"Text">>, <<"str", x>>), "entity",
                      C(Entity(a, <<x>>)))
  <2>1. PICK nm : nm = "Text"
    OBVIOUS
  <2>2. PICK v : v = <<"str", x>>
    OBVIOUS
  <2>3. v \in MetaValues /\ nm \in MetaWords
    BY <1>5, <2>1, <2>2 DEF MetaValues, MetaWords
  <2>4. PICK item : item = Item("VALUE", <<nm>>, v)
    OBVIOUS
  <2>5. item.t = "VALUE" /\ item.name = <<"Text">> /\ item.v[1] = "str"
        /\ item.v[2] = x
    BY <2>1, <2>2, <2>4 DEF Item
  <2>6. a = ItemOptional(item, "Value", "double", a)
        /\ <<x>> = ItemOptional(item, "Text", "str", b)
    BY <2>5 DEF ItemOptional, IsA
  <2>7. Makes("entity", m, Value(<<nm>>, v), "entity",
              C(Entity(a, <<x>>)))
    BY <1>3, <2>3, <2>4, <2>6, Zenon
  <2>8. Value(<<nm>>, v) \in Seq(Calls4Meta)
    BY <2>3, ValueIsCall
  <2>9. QED
    BY <2>1, <2>2, <2>7, <2>8
<1>6. m = C(Entity(a, b))
  BY <1>1, <1>2
<1>7. QED
  BY <1>4, <1>5, <1>6 DEF C
\* The end of an entity: it is added to the table, or nothing more is.
LEMMA EntityEnds ==
    ASSUME NEW n, NEW d, NEW lo, NEW hi, NEW f, NEW o, NEW th, NEW tb,
           NEW ok \in BOOLEAN, NEW fb, NEW e, NEW ok1 \in BOOLEAN, NEW tb1,
           ok1 <=> ok /\ e.value # <<>> /\ e.text # <<>>,
           Same(tb1, IF ok1 THEN Append(tb, e) ELSE tb)
    PROVE  Makes("entity", Client(n, d, lo, hi, f, o, th, tb, ok, fb, e),
                 CloseCall, "table",
                 Client(n, d, lo, hi, f, o, th, tb1, ok1, fb, e))
<1>1. PICK m : m = Client(n, d, lo, hi, f, o, th, tb, ok, fb, e)
  OBVIOUS
<1>2. PICK h : h = Client(n, d, lo, hi, f, o, th, tb1, ok1, fb, e)
  OBVIOUS
<1>3. m.ok = ok /\ m.table = tb /\ m.entity = e
  BY <1>1 DEF Client
<1>4. AddEntity(m) = h
  <2>1. PICK good : good = (m.ok /\ m.entity.value # <<>> /\ m.entity.text # <<>>)
    OBVIOUS
  <2>2. AddEntity(m) = [m EXCEPT !.ok = good,
                          !.table = IF good THEN Append(@, m.entity) ELSE @]
    BY <2>1, Zenon DEF AddEntity
  <2>3. good = ok1
    BY <2>1, <1>3, Zenon
  <2>4. AddEntity(m) = [m EXCEPT !.ok = ok1, !.table = tb1]
    <3>1. AddEntity(m) = [m EXCEPT !.ok = ok1,
                            !.table = IF ok1 THEN Append(tb, e) ELSE tb]
      BY <2>2, <2>3, <1>3, Zenon
    <3>2. QED
      BY <3>1, Zenon DEF Same
  <2>5. PICK m1 : m1 = [m EXCEPT !.ok = ok1]
    OBVIOUS
  <2>6. Same(m1, Client(n, d, lo, hi, f, o, th, tb, ok1, fb, e))
    BY <1>1, <2>5, ClientSets, ZenonT(30)
  <2>7. m1 = Client(n, d, lo, hi, f, o, th, tb, ok1, fb, e)
    BY <2>6 DEF Same
  <2>8. Same([m1 EXCEPT !.table = tb1],
             Client(n, d, lo, hi, f, o, th, tb1, ok1, fb, e))
    BY <2>7, ClientSets, Zenon
  <2>9. AddEntity(m) = [m1 EXCEPT !.table = tb1]
    BY <2>4, <2>5
  <2>10. QED
    BY <2>8, <2>9, <1>2, Zenon DEF Same
<1>5. ASSUME NEW gx, gx[Len(gx)] = m
      PROVE  InLoop("entity", gx, EndItem, "table", [gx EXCEPT ![Len(gx)] = h])
  <2>1. [gx EXCEPT ![Len(gx)] = h] = [gx EXCEPT ![Len(gx)] = AddEntity(@)]
    BY <1>4, <1>5
  <2>2. QED
    BY <2>1, EndItemIs DEF InLoop
<1>6. "entity" \in Loops
  BY DEF Loops
<1>7. Makes("entity", m, CloseCall, "table", h)
  BY <1>5, <1>6, CloseMakes
<1>8. QED
  BY <1>1, <1>2, <1>7

\* The entities before the first without a text.
LEMMA KnownIs ==
    ASSUME NEW m \in Metas
    PROVE  /\ m.table \in Seq([value : Numbers, text : Seq(Strings)])
           /\ Len(m.table) \in Nat /\ Known(m) \in 0..Len(m.table)
           /\ \A i \in 1..Known(m) : m.table[i].text # <<>>
           /\ Known(m) # Len(m.table) => m.table[Known(m) + 1].text = <<>>
<1>1. m.table \in Seq([value : Numbers, text : Seq(Strings)])
  BY MetaAssumption
<1>2. PICK n \in Nat : n = Len(m.table)
  BY <1>1
<1> DEFINE T == {k \in Nat : \E j \in Good(m) : j = n - k}
<1>3. 0 \in Good(m)
  BY <1>2 DEF Good
<1>4. T \subseteq Nat /\ n \in T
  BY <1>3
<1>5. PICK x \in T : \A y \in T : x <= y
  <2> HIDE DEF T
  <2>1. QED
    BY <1>4, Least
<1>6. PICK k \in Good(m) : k = n - x
  OBVIOUS
<1>7. k \in 0..n /\ \A i \in 1..k : m.table[i].text # <<>>
  BY <1>2 DEF Good
<1>8. \A j \in Good(m) : j <= k
  <2> SUFFICES ASSUME NEW j \in Good(m) PROVE j <= k
    OBVIOUS
  <2>1. j \in 0..n
    BY <1>2 DEF Good
  <2>2. n - j \in Nat /\ j = n - (n - j)
    BY <2>1
  <2>3. n - j \in T
    BY <2>2
  <2>4. x <= n - j /\ x \in Nat
    BY <1>5, <2>3
  <2>5. QED
    BY <1>6, <2>1, <2>4
<1>9. Known(m) = k
  <2>1. \A j \in Good(m) : k >= j
    BY <1>7, <1>8, <1>2 DEF Good
  <2>2. PICK z : z = Known(m)
    OBVIOUS
  <2>3. z = CHOOSE u \in Good(m) : \A j \in Good(m) : u >= j
    BY <2>2 DEF Known, Max
  <2>4. z \in Good(m) /\ \A j \in Good(m) : z >= j
    BY <2>1, <2>3, <1>6, Zenon
  <2>5. z \in 0..n
    BY <2>4, <1>2 DEF Good
  <2>6. z >= k /\ k >= z
    BY <2>1, <2>4
  <2>7. QED
    BY <2>2, <2>5, <2>6, <1>7
<1>10. k # n => m.table[k + 1].text = <<>>
  <2> SUFFICES ASSUME k # n, m.table[k + 1].text # <<>> PROVE FALSE
    OBVIOUS
  <2>1. k + 1 \in 0..n
    BY <1>7
  <2>2. \A i \in 1..(k + 1) : m.table[i].text # <<>>
    <3> SUFFICES ASSUME NEW i \in 1..(k + 1) PROVE m.table[i].text # <<>>
      OBVIOUS
    <3>1. i = k + 1 \/ i \in 1..k
      BY <1>7
    <3>2. QED
      BY <3>1, <1>7
  <2>3. k + 1 \in Good(m)
    BY <2>1, <2>2, <1>2 DEF Good
  <2>4. k + 1 <= k
    BY <2>3, <1>8
  <2>5. QED
    BY <2>4, <1>7
<1>11. QED
  BY <1>1, <1>2, <1>7, <1>9, <1>10
\* The text of an entity, if it has one.
LEMMA TextsMake ==
    ASSUME NEW n, NEW d, NEW lo, NEW hi, NEW f, NEW o, NEW th, NEW tb, NEW ok,
           NEW fb, NEW a, NEW ts, Maybe(ts), NEW seqs,
           seqs = [i \in DOMAIN ts |-> Value(<<"Text">>, <<"str", ts[i]>>)]
    PROVE  /\ FlattenSeq(seqs) \in Seq(Calls4Meta)
           /\ Makes("entity", Client(n, d, lo, hi, f, o, th, tb, ok, fb,
                                     Entity(a, <<>>)),
                    FlattenSeq(seqs), "entity",
                    Client(n, d, lo, hi, f, o, th, tb, ok, fb,
                           Entity(a, ts)))
<1> DEFINE C(t) == Client(n, d, lo, hi, f, o, th, tb, ok, fb,
                          Entity(a, t))
<1>1. ts \in Seq(Strings) /\ Len(ts) \in {0, 1} /\ DOMAIN ts = 1..Len(ts)
  BY DEF Maybe
<1>2. ASSUME NEW i \in 1..Len(ts)
      PROVE  /\ i = 1 /\ i - 1 = 0 /\ ts = <<ts[1]>> /\ Len(ts) = 1
             /\ seqs[i] = Value(<<"Text">>, <<"str", ts[1]>>)
             /\ seqs[i] \in Seq(Calls4Meta)
             /\ Makes("entity", C(<<>>), seqs[i], "entity", C(<<ts[1]>>))
  <2>1. i = 1 /\ i - 1 = 0 /\ Len(ts) = 1
    BY <1>1
  <2>2. ts = <<ts[1]>>
    BY <2>1, <1>1
  <2>3. PICK x \in Strings : x = ts[1]
    BY <2>1, <1>1
  <2>4. seqs[i] = Value(<<"Text">>, <<"str", x>>)
    BY <2>1, <2>3, <1>1
  <2>5. /\ Value(<<"Text">>, <<"str", x>>) \in Seq(Calls4Meta)
        /\ Makes("entity", C(<<>>), Value(<<"Text">>, <<"str", x>>), "entity",
                 C(<<x>>))
    BY EntityMembers, Zenon
  <2>6. QED
    BY <2>1, <2>2, <2>3, <2>4, <2>5
<1>3. Len(seqs) = Len(ts) /\ seqs \in Seq(Seq(Calls4Meta))
  <2>1. seqs = [i \in 1..Len(ts) |-> seqs[i]] /\ Len(ts) \in Nat
    BY <1>1
  <2>2. QED
    BY <2>1, <1>2
<1>4. PICK st : st = [i \in 0..1 |-> IF i = 0 THEN C(<<>>) ELSE C(ts)]
  OBVIOUS
<1>5. st[0] = C(<<>>) /\ st[1] = C(ts)
  <2> HIDE DEF C
  <2>1. QED
    BY <1>4
<1>6. st[Len(seqs)] = C(ts)
  <2>1. CASE Len(ts) = 0
    <3>1. ts = <<>>
      BY <2>1, <1>1
    <3>2. QED
      BY <3>1, <2>1, <1>3, <1>5
  <2>2. CASE Len(ts) = 1
    BY <2>2, <1>3, <1>5
  <2>3. QED
    BY <2>1, <2>2, <1>1
<1>7. \A i \in 1..Len(seqs) : Makes("entity", st[i - 1], seqs[i], "entity", st[i])
  <2> HIDE DEF C
  <2>1. QED
    BY <1>2, <1>3, <1>5, ZenonT(30)
<1>8. Makes("entity", st[0], FlattenSeq(seqs), "entity", st[Len(seqs)])
  BY <1>3, <1>7, MakesFlat
<1>9. FlattenSeq(seqs) \in Seq(Calls4Meta)
  BY <1>3, FlatIsCalls
<1>10. QED
  BY <1>5, <1>6, <1>8, <1>9

\* One entity.
LEMMA EntityMakes ==
    ASSUME NEW n, NEW d, NEW lo, NEW hi, NEW f, NEW o, NEW th, NEW tb,
           NEW ok \in BOOLEAN, NEW fb, NEW e,
           NEW x \in [value : Numbers, text : Seq(Strings)], Maybe(x.text),
           NEW ok1 \in BOOLEAN, NEW tb1, ok1 <=> ok /\ x.text # <<>>,
           Same(tb1, IF ok1 THEN Append(tb, EntityOf(x)) ELSE tb)
    PROVE  /\ FormatEntity(x) \in Seq(Calls4Meta)
           /\ Makes("table", Client(n, d, lo, hi, f, o, th, tb, ok, fb, e),
                    FormatEntity(x), "table",
                    Client(n, d, lo, hi, f, o, th, tb1, ok1, fb, EntityOf(x)))
<1> DEFINE C(e1) == Client(n, d, lo, hi, f, o, th, tb, ok, fb, e1)
<1>1. PICK num : num = Value(<<"Value">>, <<"double", x.value>>)
  OBVIOUS
<1>2. PICK seqs : seqs = [i \in DOMAIN x.text |->
                            Value(<<"Text">>, <<"str", x.text[i]>>)]
  OBVIOUS
<1>3. FormatEntity(x)
        = ((Open("object", <<>>) \o num) \o FlattenSeq(seqs)) \o CloseCall
  BY <1>1, <1>2 DEF FormatEntity, ForEach
<1>4. /\ Open("object", <<>>) \in Seq(Calls4Meta)
      /\ Makes("table", C(e), Open("object", <<>>), "entity", C(NoEntity))
  BY EntityBegins, Zenon
<1>5. /\ num \in Seq(Calls4Meta)
      /\ Makes("entity", C(NoEntity), num, "entity",
               C(Entity(<<x.value>>, <<>>)))
  <2>1. PICK y \in Numbers : y = x.value
    OBVIOUS
  <2>2. /\ Value(<<"Value">>, <<"double", y>>) \in Seq(Calls4Meta)
        /\ Makes("entity", C(Entity(<<>>, <<>>)),
                 Value(<<"Value">>, <<"double", y>>), "entity",
                 C(Entity(<<y>>, <<>>)))
    BY EntityMembers, Zenon
  <2> HIDE DEF C
  <2>3. QED
    BY <2>1, <2>2, <1>1 DEF NoEntity
<1>6. PICK v : v = <<x.value>>
  OBVIOUS
<1>7. PICK ts : ts = x.text
  OBVIOUS
<1>8. /\ FlattenSeq(seqs) \in Seq(Calls4Meta)
      /\ Makes("entity", C(Entity(v, <<>>)), FlattenSeq(seqs),
               "entity", C(Entity(v, ts)))
  <2>1. Maybe(ts) /\ seqs = [i \in DOMAIN ts |->
                               Value(<<"Text">>, <<"str", ts[i]>>)]
    BY <1>2, <1>7
  <2>2. QED
    BY <2>1, TextsMake, Zenon
<1>9. EntityOf(x) = Entity(v, ts)
  BY <1>6, <1>7 DEF EntityOf
<1>10. PICK e1 : e1 = EntityOf(x)
  OBVIOUS
<1>11. Makes("entity", C(e1), CloseCall, "table",
             Client(n, d, lo, hi, f, o, th, tb1, ok1, fb, e1))
  <2>1. e1.value = v /\ e1.text = ts /\ v # <<>>
    BY <1>6, <1>9, <1>10 DEF Entity
  <2>2. ok1 <=> ok /\ e1.value # <<>> /\ e1.text # <<>>
    BY <2>1, <1>7, Zenon
  <2>3. Same(tb1, IF ok1 THEN Append(tb, e1) ELSE tb)
    BY <1>10, Zenon
  <2>4. QED
    BY <2>2, <2>3, EntityEnds, Zenon
<1> HIDE DEF C
<1>12. PICK ab : ab = Open("object", <<>>) \o num
  OBVIOUS
<1>13. PICK q : q = FlattenSeq(seqs)
  OBVIOUS
<1>17. PICK abq : abq = ab \o q
  OBVIOUS
<1>18. PICK c0, c1, c2, c3 :
         /\ c0 = C(e) /\ c1 = C(Entity(v, <<>>)) /\ c2 = C(e1)
         /\ c3 = Client(n, d, lo, hi, f, o, th, tb1, ok1, fb, e1)
  OBVIOUS
<1>19. Makes("table", c0, ab, "entity", c1)
  BY <1>4, <1>5, <1>6, <1>12, <1>18, MakesOn, Zenon
<1>20. Makes("entity", c1, q, "entity", c2) /\ Makes("entity", c2, CloseCall, "table", c3)
  BY <1>8, <1>9, <1>10, <1>11, <1>13, <1>18
<1>21. Makes("table", c0, abq, "entity", c2)
  BY <1>17, <1>19, <1>20, MakesOn, Zenon
<1>22. Makes("table", c0, abq \o CloseCall, "table", c3)
  BY <1>20, <1>21, MakesOn, Zenon
<1>14. Makes("table", C(e), FormatEntity(x), "table",
             Client(n, d, lo, hi, f, o, th, tb1, ok1, fb, e1))
  BY <1>3, <1>12, <1>13, <1>17, <1>18, <1>22
<1>15. FormatEntity(x) \in Seq(Calls4Meta)
  BY <1>3, <1>4, <1>5, <1>8, CloseIsCall
<1>16. QED
  BY <1>10, <1>14, <1>15 DEF C
\* The client adds an entity as long as none has failed.
LEMMA FilledGrows ==
    ASSUME NEW m \in Metas, NEW j \in 1..Len(m.table)
    PROVE  /\ (j <= Known(m)) <=> (j - 1 <= Known(m)) /\ m.table[j].text # <<>>
           /\ Same(Filled(m, j),
                   IF j <= Known(m)
                   THEN Append(Filled(m, j - 1), EntityOf(m.table[j]))
                   ELSE Filled(m, j - 1))
<1>1. PICK n \in Nat : n = Len(m.table)
  BY KnownIs
<1>2. PICK k \in 0..n : k = Known(m)
  BY <1>1, KnownIs
<1>3. /\ \A i \in 1..k : m.table[i].text # <<>>
      /\ k # n => m.table[k + 1].text = <<>>
  BY <1>1, <1>2, KnownIs
<1>4. j \in 1..n
  BY <1>1
<1>5. (j <= k) <=> (j - 1 <= k) /\ m.table[j].text # <<>>
  <2>1. CASE j <= k
    BY <2>1, <1>3, <1>4
  <2>2. CASE j = k + 1
    BY <2>2, <1>3, <1>4
  <2>3. CASE j > k + 1
    BY <2>3, <1>4
  <2>4. QED
    BY <2>1, <2>2, <2>3, <1>4
<1> DEFINE x(i) == EntityOf(m.table[i])
           V == {x(i) : i \in 1..n}
<1>6. ASSUME j <= k
      PROVE  Filled(m, j) = Append(Filled(m, j - 1), x(j))
  <2>1. j - 1 <= k /\ j \in Nat /\ j - 1 \in Nat /\ (j - 1) + 1 = j
    BY <1>4, <1>6
  <2>2. Filled(m, j) = [i \in 1..j |-> x(i)]
    BY <1>2, <1>6 DEF Filled
  <2>3. Filled(m, j - 1) = [i \in 1..(j - 1) |-> x(i)]
    BY <1>2, <2>1 DEF Filled
  <2>4. \A i \in 1..j : x(i) \in V
    BY <1>4
  <2> HIDE DEF V, x
  <2>5. Filled(m, j) \in Seq(V) /\ Len(Filled(m, j)) = j
    BY <2>1, <2>2, <2>4
  <2>6. \A i \in 1..(j - 1) : x(i) \in V
    BY <2>1, <2>4
  <2>7. Filled(m, j - 1) \in Seq(V) /\ Len(Filled(m, j - 1)) = j - 1
    BY <2>1, <2>3, <2>6
  <2>8. x(j) \in V
    BY <2>4, <1>4
  <2>9. PICK p : p = Append(Filled(m, j - 1), x(j))
    OBVIOUS
  <2>10. /\ p \in Seq(V) /\ Len(p) = j /\ p[j] = x(j)
         /\ \A i \in 1..(j - 1) : p[i] = Filled(m, j - 1)[i]
    BY <2>1, <2>7, <2>8, <2>9
  <2>11. \A i \in 1..j : p[i] = Filled(m, j)[i]
    <3> SUFFICES ASSUME NEW i \in 1..j PROVE p[i] = Filled(m, j)[i]
      OBVIOUS
    <3>1. i = j \/ i \in 1..(j - 1)
      OBVIOUS
    <3>2. Filled(m, j)[i] = x(i) /\ (i \in 1..(j - 1) => Filled(m, j - 1)[i] = x(i))
      BY <2>2, <2>3
    <3>3. QED
      BY <3>1, <3>2, <2>10
  <2>12. p = Filled(m, j)
    BY <2>5, <2>10, <2>11, SeqEqual
  <2>13. QED
    BY <2>9, <2>12
<1>7. ASSUME ~(j <= k)
      PROVE  Filled(m, j) = Filled(m, j - 1)
  <2>1. (IF j - 1 <= k THEN j - 1 ELSE k) = k
    BY <1>4, <1>7
  <2>2. QED
    BY <2>1, <1>2, <1>7 DEF Filled
<1>8. QED
  BY <1>2, <1>5, <1>6, <1>7 DEF Same

\* The fall-back text, if there is one.
LEMMA FallbackMakes ==
    ASSUME NEW n, NEW d, NEW lo, NEW hi, NEW f, NEW o, NEW th, NEW tb, NEW ok,
           NEW e, NEW ts, Maybe(ts), NEW seqs,
           seqs = [i \in DOMAIN ts |-> Value(<<"TextFallback">>, <<"str", ts[i]>>)]
    PROVE  /\ FlattenSeq(seqs) \in Seq(Calls4Meta)
           /\ Makes("meta", Client(n, d, lo, hi, f, o, th, tb, ok, <<>>, e),
                    FlattenSeq(seqs), "meta",
                    Client(n, d, lo, hi, f, o, th, tb, ok, ts, e))
<1> DEFINE C(t) == Client(n, d, lo, hi, f, o, th, tb, ok, t, e)
<1>1. ts \in Seq(Strings) /\ Len(ts) \in {0, 1} /\ DOMAIN ts = 1..Len(ts)
  BY DEF Maybe
<1>2. ASSUME NEW i \in 1..Len(ts)
      PROVE  /\ i = 1 /\ i - 1 = 0 /\ ts = <<ts[1]>> /\ Len(ts) = 1
             /\ seqs[i] = Value(<<"TextFallback">>, <<"str", ts[1]>>)
             /\ seqs[i] \in Seq(Calls4Meta)
             /\ Makes("meta", C(<<>>), seqs[i], "meta", C(<<ts[1]>>))
  <2>1. i = 1 /\ i - 1 = 0 /\ Len(ts) = 1
    BY <1>1
  <2>2. ts = <<ts[1]>>
    BY <2>1, <1>1
  <2>3. PICK x \in Strings : x = ts[1]
    BY <2>1, <1>1
  <2>4. seqs[i] = Value(<<"TextFallback">>, <<"str", x>>)
    BY <2>1, <2>3, <1>1
  <2>5. /\ Value(<<"TextFallback">>, <<"str", x>>) \in Seq(Calls4Meta)
        /\ Makes("meta", C(<<>>), Value(<<"TextFallback">>, <<"str", x>>), "meta",
                 C(<<x>>))
    <3>1. "TextFallback" \in MetaWords /\ <<"str", x>> \in MetaValues
      BY DEF MetaWords, MetaValues
    <3>2. PICK nm, v : nm = "TextFallback" /\ v = <<"str", x>>
      OBVIOUS
    <3>3. Value(<<nm>>, v) \in Seq(Calls4Meta)
      BY <3>1, <3>2, ValueIsCall
    <3>4. Makes("meta", C(<<>>), Value(<<"TextFallback">>, <<"str", x>>), "meta",
                C(<<x>>))
      BY MembersMake, Zenon
    <3>5. QED
      BY <3>2, <3>3, <3>4
  <2>6. QED
    BY <2>1, <2>2, <2>3, <2>4, <2>5
<1>3. Len(seqs) = Len(ts) /\ seqs \in Seq(Seq(Calls4Meta))
  <2>1. seqs = [i \in 1..Len(ts) |-> seqs[i]] /\ Len(ts) \in Nat
    BY <1>1
  <2>2. QED
    BY <2>1, <1>2
<1>4. PICK st : st = [i \in 0..1 |-> IF i = 0 THEN C(<<>>) ELSE C(ts)]
  OBVIOUS
<1>5. st[0] = C(<<>>) /\ st[1] = C(ts)
  <2> HIDE DEF C
  <2>1. QED
    BY <1>4
<1>6. st[Len(seqs)] = C(ts)
  <2>1. CASE Len(ts) = 0
    <3>1. ts = <<>>
      BY <2>1, <1>1
    <3>2. QED
      BY <3>1, <2>1, <1>3, <1>5
  <2>2. CASE Len(ts) = 1
    BY <2>2, <1>3, <1>5
  <2>3. QED
    BY <2>1, <2>2, <1>1
<1>7. \A i \in 1..Len(seqs) : Makes("meta", st[i - 1], seqs[i], "meta", st[i])
  <2> HIDE DEF C
  <2>1. QED
    BY <1>2, <1>3, <1>5, ZenonT(30)
<1>8. Makes("meta", st[0], FlattenSeq(seqs), "meta", st[Len(seqs)])
  BY <1>3, <1>7, MakesFlat
<1>9. FlattenSeq(seqs) \in Seq(Calls4Meta)
  BY <1>3, FlatIsCalls
<1>10. QED
  BY <1>5, <1>6, <1>8, <1>9

\* The table, and the fall-back text behind it.
LEMMA TableMakes ==
    ASSUME NEW m \in Metas
    PROVE  /\ FormatTable(m) \in Seq(Calls4Meta)
           /\ "VALUETABLE" \in m.flags =>
                Makes("meta", Scaled(m, Kept(m), <<>>, TRUE, <<>>),
                      FormatTable(m), "meta",
                      Scaled(m, Kept(m), Filled(m, Len(m.table)),
                             Len(m.table) <= Known(m), m.fallback))
<1> DEFINE entry(j) == IF j = 0 THEN NoEntity ELSE EntityOf(m.table[j])
<1>1. /\ m.table \in Seq([value : Numbers, text : Seq(Strings)])
      /\ Maybe(m.fallback) /\ Known(m) \in Nat
      /\ \A i \in DOMAIN m.table : Maybe(m.table[i].text)
  <2>1. /\ m.table \in Seq([value : Numbers, text : Seq(Strings)])
        /\ Maybe(m.fallback)
        /\ \A i \in DOMAIN m.table : Maybe(m.table[i].text)
    BY MetaAssumption
  <2>2. Known(m) \in 0..Len(m.table) /\ Len(m.table) \in Nat
    BY KnownIs
  <2>3. Known(m) \in Nat
    BY <2>2
  <2>4. QED
    BY <2>1, <2>3
<1>2. PICK n \in Nat : n = Len(m.table)
  BY <1>1
<1>3. PICK ents : ents = [i \in DOMAIN m.table |-> FormatEntity(m.table[i])]
  OBVIOUS
<1>4. PICK fbs : fbs = [i \in DOMAIN m.fallback |->
                          Value(<<"TextFallback">>, <<"str", m.fallback[i]>>)]
  OBVIOUS
<1>5. PICK op : op = Open("array", <<"Text">>)
  OBVIOUS
<1>6. FormatTable(m)
        = ((op \o FlattenSeq(ents)) \o CloseCall) \o FlattenSeq(fbs)
  BY <1>3, <1>4, <1>5 DEF FormatTable, ForEach
<1>7. PICK st : st = [j \in 0..n |-> Tabled(m, j, entry(j))]
  OBVIOUS
<1>8. op \in Seq(Calls4Meta) /\ Makes("meta", st[0], op, "table", st[0])
  <2>1. PICK nm, k : nm = "Text" /\ k = "table"
    OBVIOUS
  <2>2. Enters(nm, k)
    BY <2>1 DEF Enters
  <2>3. /\ Open("array", <<nm>>) \in Seq(Calls4Meta)
        /\ Makes("meta", Tabled(m, 0, NoEntity), Open("array", <<nm>>), k,
                 Tabled(m, 0, NoEntity))
    BY <2>2, ArrayTurns, Zenon DEF Tabled
  <2>4. st[0] = Tabled(m, 0, NoEntity)
    BY <1>7
  <2>5. QED
    BY <2>1, <2>3, <2>4, <1>5
<1>9. ASSUME NEW j \in 1..n
      PROVE  /\ ents[j] \in Seq(Calls4Meta)
             /\ Makes("table", st[j - 1], ents[j], "table", st[j])
  <2>1. PICK x \in [value : Numbers, text : Seq(Strings)] : x = m.table[j]
    <3>1. j \in 1..Len(m.table)
      BY <1>2
    <3>2. m.table[j] \in [value : Numbers, text : Seq(Strings)]
      BY <3>1, <1>1, ElementOfSeq
    <3>3. QED
      BY <3>2
  <2>2. ents[j] = FormatEntity(x) /\ Maybe(x.text)
    BY <2>1, <1>1, <1>2, <1>3
  <2>3. st[j] = Tabled(m, j, EntityOf(x)) /\ st[j - 1] = Tabled(m, j - 1, entry(j - 1))
    <3>1. j \in 0..n /\ j - 1 \in 0..n /\ j # 0
      OBVIOUS
    <3>2. st[j] = Tabled(m, j, entry(j)) /\ st[j - 1] = Tabled(m, j - 1, entry(j - 1))
      <4> HIDE DEF entry
      <4>1. QED
        BY <3>1, <1>7
    <3>3. entry(j) = EntityOf(x)
      BY <3>1, <2>1
    <3>4. QED
      BY <3>2, <3>3
  <2>4. PICK ok \in BOOLEAN : ok = (j - 1 <= Known(m))
    <3>1. (j - 1 <= Known(m)) \in BOOLEAN
      BY <1>1
    <3>2. QED
      BY <3>1, Zenon
  <2>5. PICK ok1 \in BOOLEAN : ok1 = (j <= Known(m))
    <3>1. (j <= Known(m)) \in BOOLEAN
      BY <1>1
    <3>2. QED
      BY <3>1, Zenon
  <2>6. PICK tb, tb1 : tb = Filled(m, j - 1) /\ tb1 = Filled(m, j)
    OBVIOUS
  <2>7. /\ (j <= Known(m)) <=> (j - 1 <= Known(m)) /\ m.table[j].text # <<>>
        /\ Same(Filled(m, j),
                IF j <= Known(m)
                THEN Append(Filled(m, j - 1), EntityOf(m.table[j]))
                ELSE Filled(m, j - 1))
    BY <1>2, FilledGrows
  <2>8. (ok1 <=> ok /\ x.text # <<>>)
        /\ Same(tb1, IF ok1 THEN Append(tb, EntityOf(x)) ELSE tb)
    BY <2>1, <2>4, <2>5, <2>6, <2>7, Zenon
  <2> DEFINE C(t, b, e) ==
               Client(m.name, Shown(m), Lowest(m), Highest(m), FactorOf(m),
                      OffsetOf(m), Kept(m), t, b, <<>>, e)
  <2>9. /\ FormatEntity(x) \in Seq(Calls4Meta)
        /\ Makes("table", C(tb, ok, entry(j - 1)), FormatEntity(x), "table",
                 C(tb1, ok1, EntityOf(x)))
    BY <2>2, <2>8, EntityMakes, Zenon
  <2>10. st[j] = C(tb1, ok1, EntityOf(x)) /\ st[j - 1] = C(tb, ok, entry(j - 1))
    BY <2>3, <2>4, <2>5, <2>6, Zenon DEF Tabled
  <2> HIDE DEF C
  <2>11. QED
    BY <2>2, <2>9, <2>10
<1>10. ents \in Seq(Seq(Calls4Meta)) /\ Len(ents) = n
  <2>1. ents = [i \in 1..n |-> ents[i]]
    BY <1>1, <1>2, <1>3
  <2>2. QED
    BY <2>1, <1>9
<1>11. FlattenSeq(ents) \in Seq(Calls4Meta)
       /\ Makes("table", st[0], FlattenSeq(ents), "table", st[n])
  <2>1. \A i \in 1..Len(ents) : Makes("table", st[i - 1], ents[i], "table", st[i])
    BY <1>9, <1>10
  <2>2. Makes("table", st[0], FlattenSeq(ents), "table", st[Len(ents)])
    BY <2>1, <1>10, MakesFlat, Zenon
  <2>3. QED
    BY <2>2, <1>10, FlatIsCalls
<1>12. PICK fb : fb = m.fallback
  OBVIOUS
<1>13. PICK ok : ok = (n <= Known(m))
  OBVIOUS
<1>14. PICK tb : tb = Filled(m, n)
  OBVIOUS
<1> DEFINE E(t) == Client(m.name, Shown(m), Lowest(m), Highest(m), FactorOf(m),
                          OffsetOf(m), Kept(m), tb, ok, t, NoEntity)
<1>15. Makes("table", st[n], CloseCall, "meta", E(<<>>))
  <2>1. st[n] = Tabled(m, n, entry(n))
    <3>1. n \in 0..n
      OBVIOUS
    <3> HIDE DEF entry
    <3>2. QED
      BY <3>1, <1>7
  <2>2. PICK e : e = entry(n)
    OBVIOUS
  <2>3. st[n] = Client(m.name, Shown(m), Lowest(m), Highest(m), FactorOf(m),
                       OffsetOf(m), Kept(m), tb, ok, <<>>, e)
    BY <2>1, <2>2, <1>13, <1>14, Zenon DEF Tabled
  <2>4. Makes("table", Client(m.name, Shown(m), Lowest(m), Highest(m), FactorOf(m),
                       OffsetOf(m), Kept(m), tb, ok, <<>>, e), CloseCall, "meta",
              E(<<>>))
    BY EntityBegins, Zenon
  <2> HIDE DEF E
  <2>5. QED
    BY <2>3, <2>4
<1>16. FlattenSeq(fbs) \in Seq(Calls4Meta)
       /\ Makes("meta", E(<<>>), FlattenSeq(fbs), "meta", E(fb))
  <2>1. Maybe(fb) /\ fbs = [i \in DOMAIN fb |->
                              Value(<<"TextFallback">>, <<"str", fb[i]>>)]
    BY <1>1, <1>4, <1>12
  <2>2. QED
    BY <2>1, FallbackMakes, Zenon
<1>17. PICK q, opq : q = FlattenSeq(ents) /\ opq = op \o q
  OBVIOUS
<1>18. PICK w, opqc : w = FlattenSeq(fbs) /\ opqc = opq \o CloseCall
  OBVIOUS
<1>19. PICK c, h : c = E(<<>>) /\ h = E(fb)
  OBVIOUS
<1>28. Makes("meta", c, w, "meta", h) /\ Makes("table", st[n], CloseCall, "meta", c)
  BY <1>15, <1>16, <1>18, <1>19
<1> HIDE DEF E
<1>20. Makes("meta", st[0], opq, "table", st[n])
  BY <1>8, <1>11, <1>17, MakesOn, Zenon
<1>21. Makes("meta", st[0], opqc, "meta", c)
  BY <1>18, <1>20, <1>28, MakesOn, Zenon
<1>22. Makes("meta", st[0], opqc \o w, "meta", h)
  BY <1>21, <1>28, MakesOn, Zenon
<1>23. FormatTable(m) = opqc \o w
  BY <1>6, <1>17, <1>18
<1>24. FormatTable(m) \in Seq(Calls4Meta)
  <2>1. opq \in Seq(Calls4Meta)
    BY <1>8, <1>11, <1>17
  <2>2. opqc \in Seq(Calls4Meta)
    BY <2>1, <1>18, CloseIsCall
  <2>3. QED
    BY <2>2, <1>16, <1>18, <1>23
<1>25. st[0] = Scaled(m, Kept(m), <<>>, TRUE, <<>>)
  <2>1. st[0] = Tabled(m, 0, NoEntity)
    BY <1>7
  <2>2. Filled(m, 0) = <<>>
    BY <1>1 DEF Filled
  <2>3. (0 <= Known(m)) = TRUE
    BY <1>1
  <2>4. QED
    BY <2>1, <2>2, <2>3, Zenon DEF Tabled, Scaled
<1>26. h = Scaled(m, Kept(m), Filled(m, Len(m.table)), Len(m.table) <= Known(m),
                  m.fallback)
  BY <1>2, <1>12, <1>13, <1>14, <1>19, Zenon DEF Scaled, E
<1>27. QED
  BY <1>22, <1>23, <1>24, <1>25, <1>26

-----------------------------------------------------------------------------
(* The whole answer. *)

\* The name and the other members of one variable's object.
LEMMA BodyMakes ==
    ASSUME NEW m \in Metas, NEW nm, nm = Value(<<"Name">>, <<"str", m.name>>),
           NEW rows, rows = FlattenSeq(FormatRows(m)),
           NEW th, th = IF "THRESHOLDS" \in m.flags THEN FormatThresholds(m)
                        ELSE <<>>,
           NEW tb, tb = IF "VALUETABLE" \in m.flags THEN FormatTable(m) ELSE <<>>
    PROVE  /\ nm \in Seq(Calls4Meta) /\ Makes("meta", NewMeta, nm, "meta", Named(m))
           /\ rows \in Seq(Calls4Meta)
           /\ Makes("meta", Named(m), rows, "meta",
                    Scaled(m, <<>>, <<>>, TRUE, <<>>))
           /\ th \in Seq(Calls4Meta)
           /\ Makes("meta", Scaled(m, <<>>, <<>>, TRUE, <<>>), th, "meta",
                    Scaled(m, Kept(m), <<>>, TRUE, <<>>))
           /\ tb \in Seq(Calls4Meta)
           /\ Makes("meta", Scaled(m, Kept(m), <<>>, TRUE, <<>>), tb, "meta",
                    Gathered(m))
<1>1. nm \in Seq(Calls4Meta) /\ Makes("meta", NewMeta, nm, "meta", Named(m))
  <2>1. PICK x \in Strings : x = m.name
    BY MetaAssumption
  <2>2. PICK w, v : w = "Name" /\ v = <<"str", x>>
    OBVIOUS
  <2>3. w \in MetaWords /\ v \in MetaValues
    BY <2>2 DEF MetaWords, MetaValues
  <2>4. Value(<<w>>, v) \in Seq(Calls4Meta)
    BY <2>3, ValueIsCall
  <2>5. PICK lo, hi, f, o, no : lo = 0 /\ hi = 100 /\ f = 1 /\ o = 0 /\ no = <<>>
    OBVIOUS
  <2>6. Makes("meta", Client(no, no, lo, hi, f, o, no, no, TRUE, no, NoEntity),
              Value(<<"Name">>, <<"str", x>>), "meta",
              Client(x, no, lo, hi, f, o, no, no, TRUE, no, NoEntity))
    BY MembersMake, Zenon
  <2>7. NewMeta = Client(no, no, lo, hi, f, o, no, no, TRUE, no, NoEntity)
    BY <2>5, NewMetaIs DEF Same
  <2>8. Named(m) = Client(x, no, lo, hi, f, o, no, no, TRUE, no, NoEntity)
    BY <2>1, <2>5 DEF Named
  <2>9. QED
    BY <2>1, <2>2, <2>4, <2>6, <2>7, <2>8
<1>2. rows \in Seq(Calls4Meta)
      /\ Makes("meta", Named(m), rows, "meta", Scaled(m, <<>>, <<>>, TRUE, <<>>))
  BY RowsMake
<1>3. /\ th \in Seq(Calls4Meta)
      /\ Makes("meta", Scaled(m, <<>>, <<>>, TRUE, <<>>), th, "meta",
               Scaled(m, Kept(m), <<>>, TRUE, <<>>))
  <2>1. CASE "THRESHOLDS" \in m.flags
    BY <2>1, ThresholdsMake
  <2>2. CASE "THRESHOLDS" \notin m.flags
    <3>1. th = <<>> /\ Kept(m) = <<>>
      BY <2>2 DEF Kept
    <3>2. <<>> \in Seq(Calls4Meta)
      OBVIOUS
    <3>3. QED
      BY <3>1, <3>2, MakesNothing
  <2>3. QED
    BY <2>1, <2>2
<1>4. /\ tb \in Seq(Calls4Meta)
      /\ Makes("meta", Scaled(m, Kept(m), <<>>, TRUE, <<>>), tb, "meta",
               Gathered(m))
  <2>1. CASE "VALUETABLE" \in m.flags
    <3>1. Gathered(m) = Scaled(m, Kept(m), Filled(m, Len(m.table)),
                               Len(m.table) <= Known(m), m.fallback)
      BY <2>1, Zenon DEF Gathered
    <3>2. tb = FormatTable(m)
      BY <2>1
    <3>3. QED
      BY <2>1, <3>1, <3>2, TableMakes, Zenon
  <2>2. CASE "VALUETABLE" \notin m.flags
    <3>1. tb = <<>> /\ Gathered(m) = Scaled(m, Kept(m), <<>>, TRUE, <<>>)
      BY <2>2, Zenon DEF Gathered
    <3>2. <<>> \in Seq(Calls4Meta)
      OBVIOUS
    <3>3. QED
      BY <3>1, <3>2, MakesNothing
  <2>3. QED
    BY <2>1, <2>2
<1>5. QED
  BY <1>1, <1>2, <1>3, <1>4

\* All calls for one variable: the client learns what is in them.
LEMMA MetaLeads ==
    ASSUME NEW m \in Metas, NEW V, NEW g \in Seq(V)
    PROVE  /\ FormatMetaAsJson(m) \in Seq(Calls4Meta)
           /\ Leads(FormatMetaAsJson(m), <<"list", g>>,
                    <<"list", Append(g, Learned(m))>>)
<1>1. PICK op, nm, rows, th, tb :
        /\ op = Open("object", <<>>)
        /\ nm = Value(<<"Name">>, <<"str", m.name>>)
        /\ rows = FlattenSeq(FormatRows(m))
        /\ th = IF "THRESHOLDS" \in m.flags THEN FormatThresholds(m) ELSE <<>>
        /\ tb = IF "VALUETABLE" \in m.flags THEN FormatTable(m) ELSE <<>>
  OBVIOUS
<1>2. FormatMetaAsJson(m)
        = ((((op \o nm) \o rows) \o th) \o tb) \o CloseCall
  BY <1>1 DEF FormatMetaAsJson, ForEach, FormatRows
<1>3. PICK m1, m2, m3 : /\ m1 = Named(m)
                        /\ m2 = Scaled(m, <<>>, <<>>, TRUE, <<>>)
                        /\ m3 = Scaled(m, Kept(m), <<>>, TRUE, <<>>)
  OBVIOUS
<1>4. /\ nm \in Seq(Calls4Meta) /\ Makes("meta", NewMeta, nm, "meta", m1)
      /\ rows \in Seq(Calls4Meta) /\ Makes("meta", m1, rows, "meta", m2)
      /\ th \in Seq(Calls4Meta) /\ Makes("meta", m2, th, "meta", m3)
      /\ tb \in Seq(Calls4Meta) /\ Makes("meta", m3, tb, "meta", Gathered(m))
  BY <1>1, <1>3, BodyMakes, Zenon
<1>5. op \in Seq(Calls4Meta)
      /\ Leads(op, <<"list", g>>, <<"meta", Append(g, NewMeta)>>)
  <2>1. PICK c : c = <<"object", <<>>, <<>>>>
    OBVIOUS
  <2>2. c \in Calls4Meta
    BY <2>1, StringsHaveEmpty DEF Calls4Meta
  <2>3. NamesIn("list") \in BOOLEAN
    BY DEF NamesIn
  <2>4. CallItem(c, NamesIn("list")) \in MetaItems
        /\ CallItem(c, NamesIn("list")).t = "OBJECT"
    BY <2>1, <2>2, <2>3, CallItemIs
  <2>5. PICK h : h = Append(g, NewMeta)
    OBVIOUS
  <2>6. InLoop("list", g, CallItem(c, NamesIn("list")), "meta", h)
    BY <2>4, <2>5, Zenon DEF InLoop
  <2>7. <<"list", g>>[1] = "list" /\ <<"list", g>>[2] = g
        /\ <<"meta", h>>[1] = "meta" /\ <<"meta", h>>[2] = h
    OBVIOUS
  <2>8. CallDecodes(<<"list", g>>, c, <<"meta", h>>)
    BY <2>2, <2>4, <2>6, <2>7 DEF CallDecodes, Decodes
  <2>9. op = <<c>>
    BY <1>1, <2>1 DEF Open
  <2>10. QED
    BY <2>2, <2>5, <2>8, <2>9, LeadsByOne
<1>6. Makes("meta", Gathered(m), CloseCall, "list", Learned(m))
  <2>1. ASSUME NEW gx, gx[Len(gx)] = Gathered(m)
        PROVE  InLoop("meta", gx, EndItem, "list",
                      [gx EXCEPT ![Len(gx)] = Learned(m)])
    <3>1. [gx EXCEPT ![Len(gx)] = Learned(m)]
            = [gx EXCEPT ![Len(gx)] = CompleteMeta(@)]
      BY <2>1 DEF Learned
    <3>2. QED
      BY <3>1, EndItemIs DEF InLoop
  <2>2. "meta" \in Loops
    BY DEF Loops
  <2>3. QED
    BY <2>1, <2>2, CloseMakes, Zenon
<1>7. PICK s0, s1, s2, s3, s4, s5, s6 :
        /\ s0 = <<"list", g>> /\ s1 = <<"meta", Append(g, NewMeta)>>
        /\ s2 = <<"meta", Append(g, m1)>> /\ s3 = <<"meta", Append(g, m2)>>
        /\ s4 = <<"meta", Append(g, m3)>> /\ s5 = <<"meta", Append(g, Gathered(m))>>
        /\ s6 = <<"list", Append(g, Learned(m))>>
  OBVIOUS
<1>8. /\ Leads(op, s0, s1) /\ Leads(nm, s1, s2) /\ Leads(rows, s2, s3)
      /\ Leads(th, s3, s4) /\ Leads(tb, s4, s5) /\ Leads(CloseCall, s5, s6)
  BY <1>4, <1>5, <1>6, <1>7 DEF Makes
<1>9. PICK a, b, c, d : /\ a = op \o nm /\ b = a \o rows /\ c = b \o th
                        /\ d = c \o tb
  OBVIOUS
<1>10. Leads(a, s0, s2)
  BY <1>8, <1>9, LeadsOn, Zenon
<1>11. Leads(b, s0, s3)
  BY <1>8, <1>9, <1>10, LeadsOn, Zenon
<1>12. Leads(c, s0, s4)
  BY <1>8, <1>9, <1>11, LeadsOn, Zenon
<1>13. Leads(d, s0, s5)
  BY <1>8, <1>9, <1>12, LeadsOn, Zenon
<1>14. Leads(d \o CloseCall, s0, s6)
  BY <1>8, <1>13, LeadsOn, Zenon
<1>15. FormatMetaAsJson(m) = d \o CloseCall
  BY <1>2, <1>9
<1>16. d \o CloseCall \in Seq(Calls4Meta)
  BY <1>14 DEF Leads
<1>17. QED
  BY <1>7, <1>14, <1>15, <1>16

\* One more variable is known.
LEMMA FirstLearnedGrows ==
    ASSUME NEW ms \in Seq(Metas), NEW k \in 0..(Len(ms) - 1)
    PROVE  /\ FirstLearned(ms, k) \in Seq({Learned(m) : m \in Metas})
           /\ Append(FirstLearned(ms, k), Learned(ms[k + 1]))
                = FirstLearned(ms, k + 1)
<1>1. PICK V : V = {Learned(m) : m \in Metas}
  OBVIOUS
<1>2. PICK n \in Nat : n = Len(ms)
  OBVIOUS
<1>3. \A i \in 1..n : ms[i] \in Metas
  BY <1>2
<1>4. \A i \in 1..n : Learned(ms[i]) \in V
  BY <1>1, <1>3
<1>5. k \in Nat /\ k + 1 \in Nat /\ k + 1 \in 1..n
  BY <1>2
<1>6. ASSUME NEW j \in Nat, j <= n
      PROVE  /\ FirstLearned(ms, j) \in Seq(V) /\ Len(FirstLearned(ms, j)) = j
             /\ \A i \in 1..j : FirstLearned(ms, j)[i] = Learned(ms[i])
  <2>1. \A i \in 1..j : Learned(ms[i]) \in V
    BY <1>4, <1>6
  <2>2. QED
    BY <2>1 DEF FirstLearned
<1>7. PICK a, b : a = FirstLearned(ms, k) /\ b = FirstLearned(ms, k + 1)
  OBVIOUS
<1>8. /\ a \in Seq(V) /\ Len(a) = k
      /\ \A i \in 1..k : a[i] = Learned(ms[i])
  <2>1. k <= n
    BY <1>5
  <2>2. QED
    BY <2>1, <1>5, <1>6, <1>7
<1>9. /\ b \in Seq(V) /\ Len(b) = k + 1
      /\ \A i \in 1..(k + 1) : b[i] = Learned(ms[i])
  <2>1. k + 1 <= n
    BY <1>5
  <2>2. QED
    BY <2>1, <1>5, <1>6, <1>7
<1>10. PICK x : x = Learned(ms[k + 1])
  OBVIOUS
<1>11. x \in V
  BY <1>4, <1>5, <1>10
<1>12. PICK c : c = Append(a, x)
  OBVIOUS
<1>13. /\ c \in Seq(V) /\ Len(c) = k + 1 /\ c[k + 1] = x
       /\ \A i \in 1..k : c[i] = a[i]
  BY <1>8, <1>11, <1>12
<1>14. \A i \in 1..(k + 1) : c[i] = b[i]
  <2> SUFFICES ASSUME NEW i \in 1..(k + 1) PROVE c[i] = b[i]
    OBVIOUS
  <2>1. i \in 1..k \/ i = k + 1
    OBVIOUS
  <2>2. QED
    BY <2>1, <1>8, <1>9, <1>10, <1>13
<1>15. c = b
  BY <1>9, <1>13, <1>14, SeqEqual
<1>16. QED
  BY <1>1, <1>7, <1>8, <1>10, <1>12, <1>15

\* The array of the answer is opened.
LEMMA AnswerOpens ==
    Leads(Open("array", <<"Metadata">>), <<"answer", <<>>>>, <<"list", <<>>>>)
<1>1. PICK w : w = "Metadata"
  OBVIOUS
<1>2. <<w>> \in Strings
  BY <1>1, MetaWordIs DEF MetaWords
<1>3. PICK c : c = <<"array", <<w>>, <<>>>>
  OBVIOUS
<1>4. c \in Calls4Meta
  BY <1>2, <1>3 DEF Calls4Meta
<1>5. NamesIn("answer") \in BOOLEAN /\ NamesIn("answer")
  BY DEF NamesIn
<1>6. /\ CallItem(c, NamesIn("answer")) \in MetaItems
      /\ CallItem(c, NamesIn("answer")).t = "ARRAY"
      /\ CallItem(c, NamesIn("answer")).name = <<w>>
  BY <1>3, <1>4, <1>5, CallItemIs
<1>7. PICK no : no = <<>>
  OBVIOUS
<1>8. InLoop("answer", no, CallItem(c, NamesIn("answer")), "list", no)
  BY <1>1, <1>6, Zenon DEF InLoop
<1>9. <<"answer", no>>[1] = "answer" /\ <<"answer", no>>[2] = no
      /\ <<"list", no>>[1] = "list" /\ <<"list", no>>[2] = no
  OBVIOUS
<1>10. CallDecodes(<<"answer", no>>, c, <<"list", no>>)
  BY <1>4, <1>6, <1>8, <1>9 DEF CallDecodes, Decodes
<1>11. Open("array", <<"Metadata">>) = <<c>>
  BY <1>1, <1>3 DEF Open
<1>12. QED
  BY <1>7, <1>10, <1>11, LeadsByOne

\* The calls for the whole answer, and what the client has read then.
LEMMA AnswerLeads ==
    ASSUME NEW ms \in Seq(Metas)
    PROVE  Leads(Handle_PostVarMeta(ms), <<"answer", <<>>>>,
                 <<"list", AnswerOf(ms)>>)
<1>1. PICK n \in Nat : n = Len(ms)
  OBVIOUS
<1>2. PICK seqs : seqs = [i \in DOMAIN ms |-> FormatMetaAsJson(ms[i])]
  OBVIOUS
<1>3. Handle_PostVarMeta(ms)
        = Open("array", <<"Metadata">>) \o FlattenSeq(seqs)
  BY <1>2 DEF Handle_PostVarMeta, ForEach
<1>4. /\ seqs \in Seq(Seq(Calls4Meta)) /\ Len(seqs) = n
      /\ \A i \in 1..n : ms[i] \in Metas /\ seqs[i] = FormatMetaAsJson(ms[i])
  <2>1. DOMAIN ms = 1..n /\ \A i \in 1..n : ms[i] \in Metas
    BY <1>1
  <2>2. \A i \in 1..n : FormatMetaAsJson(ms[i]) \in Seq(Calls4Meta)
    <3> SUFFICES ASSUME NEW i \in 1..n
                 PROVE  FormatMetaAsJson(ms[i]) \in Seq(Calls4Meta)
      OBVIOUS
    <3>1. ms[i] \in Metas /\ <<>> \in Seq({})
      BY <2>1
    <3>2. QED
      BY <3>1, MetaLeads
  <2>3. QED
    BY <2>1, <2>2, <1>2
<1>5. PICK st : st = [i \in 0..n |-> <<"list", FirstLearned(ms, i)>>]
  OBVIOUS
<1>6. st[0] = <<"list", <<>>>> /\ st[n] = <<"list", AnswerOf(ms)>>
  <2>1. FirstLearned(ms, 0) = <<>>
    BY DEF FirstLearned
  <2>2. QED
    BY <2>1, <1>1, <1>5 DEF AnswerOf
<1>7. \A i \in 1..Len(seqs) : Leads(seqs[i], st[i - 1], st[i])
  <2> SUFFICES ASSUME NEW i \in 1..n
               PROVE  Leads(seqs[i], st[i - 1], st[i])
    BY <1>4
  <2>1. PICK k \in 0..(Len(ms) - 1) : k = i - 1
    BY <1>1
  <2>2. k + 1 = i /\ k \in 0..n /\ i \in 0..n
    BY <1>1, <2>1
  <2>3. /\ FirstLearned(ms, k) \in Seq({Learned(m) : m \in Metas})
        /\ Append(FirstLearned(ms, k), Learned(ms[i])) = FirstLearned(ms, i)
    BY <2>2, FirstLearnedGrows
  <2>4. Leads(FormatMetaAsJson(ms[i]), <<"list", FirstLearned(ms, k)>>,
              <<"list", Append(FirstLearned(ms, k), Learned(ms[i]))>>)
    BY <2>3, <1>4, MetaLeads
  <2>5. /\ st[k] = <<"list", FirstLearned(ms, k)>>
        /\ st[i] = <<"list", FirstLearned(ms, i)>>
    BY <2>2, <1>5
  <2>6. QED
    BY <2>1, <2>3, <2>4, <2>5, <1>4
<1>8. Leads(FlattenSeq(seqs), st[0], st[Len(seqs)])
  BY <1>4, <1>7, LeadsFlat
<1>9. QED
  BY <1>3, <1>4, <1>6, <1>8, AnswerOpens, LeadsOn

\* In TextInit there are at most two variables.
LEMMA FewMetas == {<<>>} \union SeqOf(Metas, 2) \subseteq Seq(Metas)
<1> SUFFICES ASSUME NEW ms \in {<<>>} \union SeqOf(Metas, 2)
             PROVE  ms \in Seq(Metas)
  OBVIOUS
<1>1. CASE ms = <<>>
  BY <1>1
<1>2. CASE ms \in SeqOf(Metas, 2)
  <2>1. PICK n \in 0..2 : ms \in [1..n -> Metas]
    BY <1>2, Zenon DEF SeqOf
  <2>2. n \in Nat
    BY <2>1
  <2>3. QED
    BY <2>1, <2>2
<1>3. QED
  BY <1>1, <1>2

-----------------------------------------------------------------------------
(* What the client has learned is what it is to know.                       *)

\* Numbers are integers.
LEMMA NumbersAre == \A c \in Numbers : Number[c] \in Int
  BY DEF Number, Numbers

\* What the end of ExtractFromJson makes of what was read.
LEMMA CompleteMetaIs ==
    ASSUME NEW n, NEW d, NEW lo, NEW hi, NEW f, NEW o, NEW th, NEW tb, NEW ok,
           NEW fb, NEW e, NEW c,
           c = CompleteMeta(Client(n, d, lo, hi, f, o, th, tb, ok, fb, e))
    PROVE  /\ c.name = n /\ c.table = tb /\ c.fallback = fb
           /\ c.disp = IF d = <<>> THEN n ELSE d
           /\ c.min = lo * f + o /\ c.max = hi * f + o
           /\ c.thresholds = [i \in DOMAIN th |-> th[i] * f + o]
<1>1. PICK a : a = Client(n, d, lo, hi, f, o, th, tb, ok, fb, e)
  OBVIOUS
<1>2. /\ a.name = n /\ a.disp = d /\ a.min = lo /\ a.max = hi /\ a.factor = f
      /\ a.offset = o /\ a.thresholds = th /\ a.table = tb /\ a.fallback = fb
      /\ DOMAIN a = {"name", "disp", "min", "max", "factor", "offset",
                     "thresholds", "table", "ok", "fallback", "entity"}
  BY <1>1 DEF Client
<1>3. PICK nd, nlo, nhi, nth :
        /\ nd = IF d = <<>> THEN n ELSE d
        /\ nlo = lo * f + o /\ nhi = hi * f + o
        /\ nth = [i \in DOMAIN th |-> th[i] * f + o]
  OBVIOUS
<1>4. c = [a EXCEPT !.disp = nd, !.min = nlo, !.max = nhi, !.thresholds = nth]
  <2>1. c = CompleteMeta(a)
    BY <1>1
  <2>2. CompleteMeta(a)
          = [a EXCEPT !.disp = IF a.disp = <<>> THEN a.name ELSE a.disp,
                      !.min = a.min * a.factor + a.offset,
                      !.max = a.max * a.factor + a.offset,
                      !.thresholds = [i \in DOMAIN a.thresholds |->
                                        a.thresholds[i] * a.factor + a.offset]]
    BY Zenon DEF CompleteMeta
  <2>3. /\ (IF a.disp = <<>> THEN a.name ELSE a.disp) = nd
        /\ a.min * a.factor + a.offset = nlo
        /\ a.max * a.factor + a.offset = nhi
        /\ [i \in DOMAIN a.thresholds |->
              a.thresholds[i] * a.factor + a.offset] = nth
    BY <1>2, <1>3
  <2>4. QED
    BY <2>1, <2>2, <2>3, Zenon
<1>5. PICK a1, a2, a3 : /\ a1 = [a EXCEPT !.disp = nd]
                        /\ a2 = [a1 EXCEPT !.min = nlo]
                        /\ a3 = [a2 EXCEPT !.max = nhi]
  OBVIOUS
<1>6. c = [a3 EXCEPT !.thresholds = nth]
  BY <1>4, <1>5
<1>7. /\ a1.disp = nd /\ a1.name = n /\ a1.table = tb /\ a1.fallback = fb
      /\ DOMAIN a1 = DOMAIN a
  BY <1>2, <1>5
<1>8. /\ a2.disp = nd /\ a2.name = n /\ a2.table = tb /\ a2.fallback = fb
      /\ a2.min = nlo /\ DOMAIN a2 = DOMAIN a
  BY <1>2, <1>5, <1>7
<1>9. /\ a3.disp = nd /\ a3.name = n /\ a3.table = tb /\ a3.fallback = fb
      /\ a3.min = nlo /\ a3.max = nhi /\ DOMAIN a3 = DOMAIN a
  BY <1>2, <1>5, <1>8
<1>10. /\ c.disp = nd /\ c.name = n /\ c.table = tb /\ c.fallback = fb
       /\ c.min = nlo /\ c.max = nhi /\ c.thresholds = nth
  BY <1>2, <1>6, <1>9
<1>11. QED
  BY <1>3, <1>10

\* The members of what the client is to know.
LEMMA ExpectedIs ==
    ASSUME NEW m \in Metas, NEW x, x = Expected(m)
    PROVE  /\ DOMAIN x = {"name", "disp", "min", "max", "thresholds", "table",
                          "fallback"}
           /\ x.name = m.name
           /\ x.disp = IF Shown(m) = <<>> THEN m.name ELSE Shown(m)
           /\ x.min = OffsetOf(m) + FactorOf(m) * Lowest(m)
           /\ x.max = OffsetOf(m) + FactorOf(m) * Highest(m)
           /\ x.thresholds = [i \in DOMAIN Kept(m) |->
                                Kept(m)[i] * FactorOf(m) + OffsetOf(m)]
           /\ x.table = IF "VALUETABLE" \in m.flags
                        THEN Plain(Filled(m, Len(m.table))) ELSE <<>>
           /\ x.fallback = IF "VALUETABLE" \in m.flags THEN m.fallback ELSE <<>>
<1>1. PICK factor, offset, raw, good, has :
        /\ factor = FactorOf(m) /\ offset = OffsetOf(m)
        /\ raw = RawThresholds(m) /\ good = Good(m)
        /\ has = ("VALUETABLE" \in m.flags)
  OBVIOUS
<1>2. PICK lo, hi, dn, th, tb, fb :
        /\ lo = offset + factor * Lowest(m)
        /\ hi = offset + factor * Highest(m)
        /\ dn = IF "DISPNAME" \in m.flags /\ m.disp # <<>>
                THEN m.disp ELSE m.name
        /\ th = IF "THRESHOLDS" \in m.flags /\ Rising(raw)
                THEN [i \in 1..5 |-> raw[i] * factor + offset] ELSE <<>>
        /\ tb = IF has THEN [i \in 1..Max(good) |->
                               [value |-> <<m.table[i].value>>,
                                text |-> m.table[i].text]] ELSE <<>>
        /\ fb = IF has THEN m.fallback ELSE <<>>
  OBVIOUS
<1>3. x = [name |-> m.name, disp |-> dn, min |-> lo, max |-> hi,
           thresholds |-> th, table |-> tb, fallback |-> fb]
  BY <1>1, <1>2, ZenonT(30) DEF Expected, FactorOf, OffsetOf, Lowest, Highest,
                    RawThresholds, Good
<1>4. dn = IF Shown(m) = <<>> THEN m.name ELSE Shown(m)
  BY <1>2 DEF Shown
<1>5. th = [i \in DOMAIN Kept(m) |-> Kept(m)[i] * factor + offset]
  <2>1. CASE "THRESHOLDS" \in m.flags /\ Rising(raw)
    <3>1. Kept(m) = raw
      BY <2>1, <1>1, Zenon DEF Kept
    <3>2. DOMAIN raw = 1..5
      BY <1>1 DEF RawThresholds
    <3>3. QED
      BY <2>1, <3>1, <3>2, <1>2, Zenon
  <2>2. CASE ~("THRESHOLDS" \in m.flags /\ Rising(raw))
    <3>1. Kept(m) = <<>> /\ th = <<>>
      BY <2>2, <1>1, <1>2, Zenon DEF Kept
    <3>2. QED
      BY <3>1
  <2>3. QED
    BY <2>1, <2>2
<1>6. tb = IF has THEN Plain(Filled(m, Len(m.table))) ELSE <<>>
  <2>1. PICK k, n : k = Known(m) /\ n = Len(m.table)
    OBVIOUS
  <2>2. n \in Nat /\ k \in 0..n
    BY <2>1, KnownIs
  <2>3. (IF n <= k THEN n ELSE k) = k
    BY <2>2
  <2>4. Filled(m, n) = [i \in 1..k |-> EntityOf(m.table[i])]
    BY <2>1, <2>3, Zenon DEF Filled
  <2>5. Max(good) = k
    BY <2>1, <1>1 DEF Known
  <2>6. Plain(Filled(m, n)) = [i \in 1..k |-> [value |-> <<m.table[i].value>>,
                                                text |-> m.table[i].text]]
    BY <2>4 DEF Plain, EntityOf, Entity
  <2>7. QED
    BY <2>1, <2>5, <2>6, <1>2
<1>7. /\ DOMAIN x = {"name", "disp", "min", "max", "thresholds", "table",
                     "fallback"}
      /\ x.name = m.name /\ x.disp = dn /\ x.min = lo /\ x.max = hi
      /\ x.thresholds = th /\ x.table = tb /\ x.fallback = fb
  BY <1>3
<1>8. fb = IF "VALUETABLE" \in m.flags THEN m.fallback ELSE <<>>
  BY <1>1, <1>2
<1>9. tb = IF "VALUETABLE" \in m.flags THEN Plain(Filled(m, Len(m.table)))
           ELSE <<>>
  BY <1>1, <1>6
<1>10. /\ lo = OffsetOf(m) + FactorOf(m) * Lowest(m)
       /\ hi = OffsetOf(m) + FactorOf(m) * Highest(m)
       /\ th = [i \in DOMAIN Kept(m) |-> Kept(m)[i] * FactorOf(m) + OffsetOf(m)]
  BY <1>1, <1>2, <1>5, Zenon
<1>11. QED
  BY <1>4, <1>7, <1>8, <1>9, <1>10, Zenon

\* What the client learns of a variable is what it is to know.
LEMMA LearnedIsExpected ==
    ASSUME NEW m \in Metas
    PROVE  \A f \in DOMAIN Expected(m) : Told(Learned(m), f) = Expected(m)[f]
<1>1. PICK x, c : x = Expected(m) /\ c = Learned(m)
  OBVIOUS
<1>2. PICK tb, ok, fb :
        /\ tb = IF "VALUETABLE" \in m.flags
                THEN Filled(m, Len(m.table)) ELSE <<>>
        /\ ok = IF "VALUETABLE" \in m.flags
                THEN Len(m.table) <= Known(m) ELSE TRUE
        /\ fb = IF "VALUETABLE" \in m.flags THEN m.fallback ELSE <<>>
  OBVIOUS
<1>3. Gathered(m) = Scaled(m, Kept(m), tb, ok, fb)
  BY <1>2, Zenon DEF Gathered
<1>4. PICK n, d, lo, hi, f, o, th :
        /\ n = m.name /\ d = Shown(m) /\ lo = Lowest(m) /\ hi = Highest(m)
        /\ f = FactorOf(m) /\ o = OffsetOf(m) /\ th = Kept(m)
  OBVIOUS
<1>5. c = CompleteMeta(Client(n, d, lo, hi, f, o, th, tb, ok, fb, NoEntity))
  BY <1>1, <1>3, <1>4 DEF Learned, Scaled
<1>6. /\ c.name = n /\ c.table = tb /\ c.fallback = fb
      /\ c.disp = IF d = <<>> THEN n ELSE d
      /\ c.min = lo * f + o /\ c.max = hi * f + o
      /\ c.thresholds = [i \in DOMAIN th |-> th[i] * f + o]
  BY <1>5, CompleteMetaIs
<1>7. /\ DOMAIN x = {"name", "disp", "min", "max", "thresholds", "table",
                     "fallback"}
      /\ x.name = n /\ x.table = Plain(tb) /\ x.fallback = fb
      /\ x.disp = IF d = <<>> THEN n ELSE d
      /\ x.min = o + f * lo /\ x.max = o + f * hi
      /\ x.thresholds = [i \in DOMAIN th |-> th[i] * f + o]
  <2>1. Plain(<<>>) = <<>>
    BY DEF Plain
  <2>2. QED
    BY <2>1, <1>1, <1>2, <1>4, ExpectedIs
<1>8. lo \in Int /\ hi \in Int /\ f \in Int /\ o \in Int
  <2>1. /\ m.min \in Numbers /\ m.max \in Numbers /\ m.factor \in Numbers
        /\ m.offset \in Numbers
    BY MetaAssumption
  <2>2. QED
    BY <2>1, <1>4, NumbersAre DEF Lowest, Highest, FactorOf, OffsetOf
<1>9. lo * f + o = o + f * lo /\ hi * f + o = o + f * hi
  BY <1>8
<1>10. \A g \in DOMAIN x : Told(c, g) = x[g]
  BY <1>6, <1>7, <1>9 DEF Told
<1>11. QED
  BY <1>1, <1>10

-----------------------------------------------------------------------------
(* The formatter that writes any text. *)

\* A nesting stack of one level.
LEMMA SingleLevel ==
    \A b \in BOOLEAN : /\ <<b>> \in Seq(BOOLEAN) /\ Len(<<b>>) = 1
                       /\ <<b>> # <<>> /\ <<b>>[1] = b
                       /\ Append(<<>>, b) = <<b>>
  OBVIOUS

\* A new formatter is well-formed.
LEMMA InitFormats ==
    ASSUME NEW depth \in Nat \ {0}
    PROVE  /\ Formats(InitNew, depth) /\ InitNew.items = <<>>
           /\ Len(InitNew.open) = 1 /\ NestOf(InitNew.open)[1] = TRUE
<1>0. PICK nst : nst = <<TRUE>>
  OBVIOUS
<1>1. PICK d : d = <<"{">>
  OBVIOUS
<1> DEFINE no == <<>>
<1>2. /\ d \in Seq(Lexemes) /\ Len(d) = 1 /\ no \in Seq(Items) /\ Len(no) = 0
      /\ nst \in Seq(BOOLEAN) /\ Len(nst) = 1 /\ nst # <<>> /\ nst[1] = TRUE
  <2>1. d \in Seq(Lexemes) /\ Len(d) = 1 /\ no \in Seq(Items) /\ Len(no) = 0
    <3>1. d \in Seq(Lexemes)
      BY <1>1, Braces, Zenon
    <3>2. no \in Seq(Items) /\ Len(no) = 0
      OBVIOUS
    <3>3. Len(d) = 1
      BY <1>1
    <3>4. QED
      BY <3>1, <3>2, <3>3
  <2>2. TRUE \in BOOLEAN
    OBVIOUS
  <2>3. nst \in Seq(BOOLEAN) /\ Len(nst) = 1 /\ nst # <<>> /\ nst[1] = TRUE
    BY <1>0, <2>2, SingleLevel, Zenon
  <2>4. QED
    BY <2>1, <2>3
<1> HIDE DEF no
<1>3. PICK x \in Streams : x = [close |-> "}", members |-> 0]
  BY DEF Streams
<1>4. <<x>> \in Seq(Streams) /\ Len(<<x>>) = 1 /\ <<x>>[1] = x
  OBVIOUS
<1>5. InitNew = [dump |-> d, open |-> <<x>>, items |-> no]
  BY <1>1, <1>3 DEF InitNew, no
<1>6. /\ InitNew.dump = d /\ InitNew.open = <<x>> /\ InitNew.items = no
      /\ InitNew \in Formatters
  <2>1. [dump |-> d, open |-> <<x>>, items |-> no] \in Formatters
    BY <1>2, <1>4 DEF Formatters
  <2>2. QED
    BY <2>1, <1>5
<1>7. NestOf(<<x>>) = nst
  <2>1. (x.close = "}") = TRUE
    BY <1>3
  <2>2. <<>> \in Seq(Streams) /\ Append(<<>>, x) = <<x>> /\ Len(<<>>) = 0
    OBVIOUS
  <2>3. NestOf(Append(<<>>, x)) = Append(NestOf(<<>>), x.close = "}")
    BY <2>2, NestOfPush
  <2>4. NestOf(<<>>) = <<>>
    BY <2>2 DEF NestOf
  <2>5. Append(<<>>, TRUE) = <<TRUE>>
    BY SingleLevel, Zenon
  <2>6. QED
    BY <2>1, <2>2, <2>3, <2>4, <2>5, <1>0, Zenon
<1>8. Texts(d, no, nst, depth)
  <2>1. PICK at, nest : at = [k \in {0} |-> 1] /\ nest = [k \in {0} |-> nst]
    OBVIOUS
  <2>2. 0..Len(no) = {0} /\ 1..Len(no) = {}
    BY <1>2
  <2>3. at \in [{0} -> Nat] /\ at[0] = 1 /\ at[Len(no)] = Len(d)
    BY <1>2, <2>1
  <2>4. nest \in [{0} -> Seq(BOOLEAN)] /\ nest[0] = nst
    BY <1>2, <2>1
  <2>5. Len(nst) <= depth
    BY <1>2
  <2>6. Stands(d, <<"{">>, 0)
    <3>1. Len(d) = 1 /\ \A j \in 1..1 : 0 + j = j
      BY <1>2
    <3>2. Stands(d, d, 0)
      BY <3>1 DEF Stands
    <3>3. QED
      BY <3>2, <1>1
  <2>7. Written(d, no, at, nest, depth)
    <3>1. /\ at \in [0..Len(no) -> Nat] /\ at[0] = 1 /\ at[Len(no)] = Len(d)
          /\ nest \in [0..Len(no) -> Seq(BOOLEAN)] /\ nest[0] = <<TRUE>>
      BY <2>2, <2>3, <2>4, <1>0, Zenon
    <3>2. \A k \in 0..Len(no) :
            Len(nest[k]) <= depth /\ (nest[k] # <<>> => nest[k][1])
      <4> SUFFICES ASSUME NEW k \in 0..Len(no)
                   PROVE  Len(nest[k]) <= depth /\ (nest[k] # <<>> => nest[k][1])
        OBVIOUS
      <4>1. k = 0
        BY <2>2
      <4>2. nest[k] = nst /\ nst[1] = TRUE
        BY <4>1, <2>4, <1>2
      <4>3. QED
        BY <4>2, <2>5, Zenon
    <3>3. \A k \in 1..Len(no) : FALSE
      BY <2>2
    <3>4. QED
      BY <3>1, <3>2, <3>3, <2>6, <1>2, Zenon DEF Written
  <2>8. nst = nest[Len(no)]
    BY <1>2, <2>4
  <2>9. QED
    BY <1>2, <2>7, <2>8 DEF Texts
<1>9. Formats(InitNew, depth)
  BY <1>6, <1>7, <1>8, Zenon DEF Formats, no
<1>10. QED
  BY <1>2, <1>4, <1>6, <1>7, <1>9 DEF no

\* Calls of a writer are counted.
LEMMA CallsAre ==
    ASSUME json.items \in Seq(Items)
    PROVE  Calls \in Nat
<1>1. PICK n \in Nat : n = Len(json.items)
  OBVIOUS
<1>2. DOMAIN json.items = 1..n
  BY <1>1
<1>3. IsFiniteSet(1..n)
  BY 0 \in Int, n \in Int, FS_Interval
<1>4. {i \in DOMAIN json.items : json.items[i].t # "END"} \subseteq 1..n
  BY <1>2
<1>5. IsFiniteSet({i \in DOMAIN json.items : json.items[i].t # "END"})
  BY <1>3, <1>4, FS_Subset
<1>6. QED
  BY <1>5, FS_CardinalityType DEF Calls

\* StreamCall, method by method.
LEMMA StreamCallIs ==
    ASSUME NEW name, NEW v
    PROVE  /\ StreamCall("array", name, v) = Opened(json, "ARRAY", name, "[", "]")
           /\ StreamCall("object", name, v) = Opened(json, "OBJECT", name, "{", "}")
           /\ StreamCall("close", name, v) = Close(json, Len(json.open))
           /\ StreamCall("value", name, v) = StreamValue(json, name, v)
  BY DEF StreamCall, CJsonStreamArray, CJsonStreamObject, StreamValue

\* Whatever is written, the text and the streams stay what they were.
LEMMA FreeWrite ==
    ASSUME NEW depth \in Nat, depth = MaxDepth + 2, Formats(json, depth),
           Len(json.open) \in 1..MaxDepth, Write
    PROVE  Formats(json', depth) /\ Len(json'.open) \in 1..MaxDepth
<1>1. MaxDepth \in Nat /\ Inputs \in Seq(SUBSET (Strings \X Values))
  BY JsonAssumption
<1>2. /\ json.items \in Seq(Items) /\ json.open \in Seq(Streams)
      /\ json.open # <<>>
  <2>1. json.items \in Seq(Items) /\ json.open \in Seq(Streams)
    BY FormatsLevel
  <2>2. Len(json.open) # 0
    BY <1>1
  <2>3. QED
    BY <2>1, <2>2
<1>3. Calls + 1 \in 1..Len(Inputs)
  <2>1. PICK k \in Nat : k = Calls
    BY <1>2, CallsAre
  <2>2. k < Len(Inputs)
    BY <2>1 DEF Write
  <2>3. Len(Inputs) \in Nat
    BY <1>1
  <2>4. QED
    BY <2>1, <2>2, <2>3
<1>4. PICK c \in Inputs[Calls + 1] :
         \/ json' = StreamCall("value", c[1], c[2])
         \/ /\ Len(json.open) < MaxDepth
            /\ \E t \in {"array", "object"} : json' = StreamCall(t, c[1], <<>>)
         \/ json' = WriteFormatter(json, c[1], OtherFormatter(c[1], c[2]))
         \/ /\ InObject(json)
            /\ json' = WriteMembers(json, OtherFormatter(c[1], c[2]))
  BY DEF Write
<1>5. c[1] \in Strings /\ c[2] \in Values
  <2>1. Inputs[Calls + 1] \in SUBSET (Strings \X Values)
    BY <1>1, <1>3
  <2>2. c \in Strings \X Values
    BY <2>1
  <2>3. QED
    BY <2>2
<1>6. PICK name \in Strings, v \in Values : name = c[1] /\ v = c[2]
  BY <1>5
<1>7. CASE json' = StreamCall("value", c[1], c[2])
  <2>1. json' = StreamValue(json, name, v)
    BY <1>6, <1>7, StreamCallIs
  <2>2. Formats(json', depth) /\ Putting(json', json, name, v)
    BY <1>2, <2>1, StreamValueIs
  <2>3. QED
    BY <2>2 DEF Putting
<1>8. ASSUME Len(json.open) < MaxDepth, NEW t \in {"array", "object"},
             json' = StreamCall(t, c[1], <<>>)
      PROVE  Formats(json', depth) /\ Len(json'.open) \in 1..MaxDepth
  <2>1. Len(json.open) \in 0..(depth - 1)
    BY <1>1
  <2>2. PICK u, first, last : /\ Brackets(u, first, last)
                              /\ json' = Opened(json, u, name, first, last)
    <3>1. CASE t = "array"
      <4>1. Brackets("ARRAY", "[", "]")
        BY DEF Brackets
      <4>2. QED
        BY <3>1, <4>1, <1>6, <1>8, StreamCallIs
    <3>2. CASE t = "object"
      <4>1. Brackets("OBJECT", "{", "}")
        BY DEF Brackets
      <4>2. QED
        BY <3>2, <4>1, <1>6, <1>8, StreamCallIs
    <3>3. QED
      BY <3>1, <3>2
  <2>3. Formats(json', depth) /\ Opening(json', json, u, name, first, last)
    BY <1>2, <2>1, <2>2, OpenedIs
  <2>4. Len(json'.open) = Len(json.open) + 1
    BY <2>3 DEF Opening
  <2>5. QED
    BY <2>3, <2>4, <1>1, <1>8
<1>9. CASE json' = WriteFormatter(json, c[1], OtherFormatter(c[1], c[2]))
  <2>1. Len(json.open) \in 0..(depth - 2)
    BY <1>1
  <2>2. json' = WriteFormatter(json, name, OtherFormatter(name, v))
    BY <1>6, <1>9
  <2>3. Formats(json', depth) /\ Len(json'.open) = Len(json.open)
    BY <1>2, <2>1, <2>2, WriteFormatterIs
  <2>4. QED
    BY <2>3
<1>10. CASE /\ InObject(json)
            /\ json' = WriteMembers(json, OtherFormatter(c[1], c[2]))
  <2>1. Len(json.open) \in 0..(depth - 1)
    BY <1>1
  <2>2. json' = WriteMembers(json, OtherFormatter(name, v))
    BY <1>6, <1>10
  <2>3. Formats(json', depth) /\ Len(json'.open) = Len(json.open)
    BY <1>2, <1>10, <2>1, <2>2, WriteMembersIs
  <2>4. QED
    BY <2>3
<1>11. QED
  BY <1>4, <1>7, <1>8, <1>9, <1>10

\* CloseStream keeps a text well-formed, and its object open.
LEMMA FreeClose ==
    ASSUME NEW depth \in Nat, Formats(json, depth),
           Len(json.open) \in 1..MaxDepth, CloseStream
    PROVE  Formats(json', depth) /\ Len(json'.open) \in 1..MaxDepth
<1>1. MaxDepth \in Nat
  BY JsonAssumption
<1>2. PICK level \in 2..Len(json.open) : json' = Close(json, level)
  BY DEF CloseStream
<1>3. level \in 1..Len(json.open) /\ json.open \in Seq(Streams)
  BY <1>2, FormatsLevel
<1>4. /\ Formats(json', depth)
      /\ json'.open = SubSeq(json.open, 1, level - 1)
  BY <1>2, <1>3, CloseIs
<1>5. Len(SubSeq(json.open, 1, level - 1)) = level - 1
  BY <1>2, <1>3
<1>6. QED
  BY <1>1, <1>2, <1>4, <1>5

-----------------------------------------------------------------------------
(* The formatter that writes an answer. *)

\* How deep the items stand that a loop reads.
LEMMA LoopLevels ==
    /\ LoopLevel("answer") = 1 /\ LoopLevel("list") = 2
    /\ LoopLevel("meta") = 3 /\ LoopLevel("thresholds") = 4
    /\ LoopLevel("table") = 4 /\ LoopLevel("entity") = 5
  BY DEF LoopLevel

\* Names are written where the innermost stream is an object.
LEMMA NestInIs ==
    ASSUME NEW l \in Loops
    PROVE  /\ LoopLevel(l) \in 1..5 /\ NestIn(l) \in Seq(BOOLEAN)
           /\ Len(NestIn(l)) = LoopLevel(l)
           /\ \A i \in 1..LoopLevel(l) : NestIn(l)[i] = (i \in {1, 3, 5})
           /\ NamesIn(l) = (LoopLevel(l) \in {1, 3, 5})
<1>1. \/ l = "answer" \/ l = "list" \/ l = "meta" \/ l = "thresholds"
      \/ l = "table" \/ l = "entity"
  BY DEF Loops
<1>2. PICK n \in 1..5 : n = LoopLevel(l)
  BY <1>1, LoopLevels
<1>3. NestIn(l) = [i \in 1..n |-> i \in {1, 3, 5}]
  BY <1>2 DEF NestIn
<1>4. n \in Nat /\ \A i \in 1..n : (i \in {1, 3, 5}) \in BOOLEAN
  BY <1>2
<1>5. NestIn(l) \in Seq(BOOLEAN) /\ Len(NestIn(l)) = n
  BY <1>3, <1>4
<1>6. \A i \in 1..n : NestIn(l)[i] = (i \in {1, 3, 5})
  BY <1>3
<1>7. NamesIn(l) <=> n \in {1, 3, 5}
  BY <1>1, <1>2, LoopLevels DEF NamesIn
<1>8. NamesIn(l) \in BOOLEAN /\ (n \in {1, 3, 5}) \in BOOLEAN
  BY DEF NamesIn
<1>9. NamesIn(l) = (n \in {1, 3, 5})
  BY <1>7, <1>8
<1>10. QED
  BY <1>2, <1>5, <1>6, <1>9

\* One level more, or one less.
LEMMA NestInGrows ==
    ASSUME NEW l \in Loops, NEW k \in Loops, LoopLevel(k) = LoopLevel(l) + 1,
           NEW b \in BOOLEAN, b = (LoopLevel(k) \in {1, 3, 5})
    PROVE  /\ NestIn(k) = Append(NestIn(l), b)
           /\ NestIn(l) = Front(NestIn(k))
<1>0. PICK n \in 1..5 : n = LoopLevel(l)
  BY NestInIs
<1>1. PICK a, c : n = LoopLevel(l) /\ a = NestIn(l) /\ c = NestIn(k)
  BY <1>0
<1>2. /\ a \in Seq(BOOLEAN) /\ Len(a) = n
      /\ \A i \in 1..n : a[i] = (i \in {1, 3, 5})
  BY <1>1, NestInIs
<1>3. /\ c \in Seq(BOOLEAN) /\ Len(c) = n + 1
      /\ \A i \in 1..(n + 1) : c[i] = (i \in {1, 3, 5})
  BY <1>1, NestInIs
<1>4. b = (n + 1 \in {1, 3, 5})
  BY <1>1
<1>5. \A i \in 1..n : c[i] = a[i]
  <2> SUFFICES ASSUME NEW i \in 1..n PROVE c[i] = a[i]
    OBVIOUS
  <2>1. i \in 1..(n + 1)
    BY <1>1
  <2>2. a[i] = (i \in {1, 3, 5}) /\ c[i] = (i \in {1, 3, 5})
    BY <2>1, <1>2, <1>3
  <2>3. QED
    BY <2>2, Zenon
<1>6. c[n + 1] = b
  <2>1. n + 1 \in 1..(n + 1)
    BY <1>1
  <2>2. c[n + 1] = (n + 1 \in {1, 3, 5})
    BY <2>1, <1>3
  <2>3. QED
    BY <2>2, <1>4, Zenon
<1>7. PICK p : p = Append(a, b)
  OBVIOUS
<1>8. /\ p \in Seq(BOOLEAN) /\ Len(p) = n + 1 /\ p[n + 1] = b
      /\ \A i \in 1..n : p[i] = a[i]
  BY <1>2, <1>7, AppendProperties
<1>9. \A i \in 1..(n + 1) : p[i] = c[i]
  <2> SUFFICES ASSUME NEW i \in 1..(n + 1) PROVE p[i] = c[i]
    OBVIOUS
  <2>1. i \in 1..n \/ i = n + 1
    BY <1>1
  <2>2. CASE i \in 1..n
    BY <2>2, <1>5, <1>8
  <2>3. CASE i = n + 1
    <3>1. p[i] = b
      BY <2>3, <1>8
    <3>2. c[i] = b
      BY <2>3, <1>6
    <3>3. QED
      BY <3>1, <3>2, Zenon
  <2>4. QED
    BY <2>1, <2>2, <2>3
<1>10. p = c
  BY <1>3, <1>8, <1>9, SeqEqual
<1>11. PICK f : f = Front(c)
  OBVIOUS
<1>12. /\ f \in Seq(BOOLEAN) /\ Len(f) = n
       /\ \A i \in 1..n : f[i] = c[i]
  <2>1. c \in Seq(BOOLEAN) /\ Len(c) = n + 1 /\ n \in Nat
    BY <1>1, <1>3
  <2>2. f = SubSeq(c, 1, n)
    BY <2>1, <1>11 DEF Front
  <2>3. QED
    BY <2>1, <2>2
<1>13. \A i \in 1..n : f[i] = a[i]
  <2> SUFFICES ASSUME NEW i \in 1..n PROVE f[i] = a[i]
    OBVIOUS
  <2>1. f[i] = c[i] /\ c[i] = a[i]
    BY <1>5, <1>12
  <2>2. QED
    BY <2>1, Zenon
<1>14. f = a
  BY <1>2, <1>12, <1>13, SeqEqual
<1>15. QED
  BY <1>1, <1>7, <1>10, <1>11, <1>14

\* Arrays are open at levels 2 and 4, objects at the others.
LEMMA LoopKinds ==
    ASSUME NEW l, NEW g, NEW item, NEW k, NEW h, InLoop(l, g, item, k, h)
    PROVE  /\ item.t = "ARRAY" => LoopLevel(k) \in {2, 4}
           /\ item.t = "OBJECT" => LoopLevel(k) \in {3, 5}
<1>1. \/ l = "answer" /\ item.t = "ARRAY" /\ k = "list"
      \/ l = "list" /\ item.t = "OBJECT" /\ k = "meta"
      \/ l = "meta" /\ item.t = "ARRAY" /\ k = "thresholds"
      \/ l = "meta" /\ item.t = "ARRAY" /\ k = "table"
      \/ l = "table" /\ item.t = "OBJECT" /\ k = "entity"
      \/ item.t = "VALUE" \/ item.t = "END"
  BY Zenon DEF InLoop
<1>2. QED
  BY <1>1, LoopLevels

\* One item more is written and would be decoded.
LEMMA RunGrows ==
    ASSUME NEW items \in Seq(Items), NEW s, Reaches(items, s),
           NEW item \in Items, NEW y, Decodes(s, item, y)
    PROVE  Reaches(Append(items, item), y)
<1>0. PICK more : more = Append(items, item)
  OBVIOUS
<1>1. PICK run : IsRun(items, run, Len(items)) /\ run[Len(items)] = s
  BY DEF Reaches
<1>2. PICK n \in Nat : n = Len(items)
  OBVIOUS
<1>3. /\ Len(more) = n + 1 /\ more[n + 1] = item
      /\ \A k \in 1..n : more[k] = items[k]
  BY <1>0, <1>2
<1>4. PICK run2 : run2 = [k \in 0..(n + 1) |-> IF k = n + 1 THEN y ELSE run[k]]
  OBVIOUS
<1>5. run2[n + 1] = y /\ \A k \in 0..n : run2[k] = run[k]
  <2>1. n + 1 \in 0..(n + 1) /\ \A k \in 0..n : k \in 0..(n + 1) /\ k # n + 1
    OBVIOUS
  <2>2. QED
    BY <2>1, <1>4
<1>6. run[0] = <<"answer", <<>>>> /\ \A k \in 1..n : Decodes(run[k - 1], items[k], run[k])
  BY <1>1, <1>2 DEF IsRun
<1>7. \A k \in 1..(n + 1) : Decodes(run2[k - 1], more[k], run2[k])
  <2> SUFFICES ASSUME NEW k \in 1..(n + 1)
               PROVE  Decodes(run2[k - 1], more[k], run2[k])
    OBVIOUS
  <2>1. CASE k = n + 1
    <3>1. k - 1 = n /\ n \in 0..n
      BY <2>1
    <3>2. run2[k - 1] = run[n] /\ run2[k] = y /\ more[k] = item
      BY <3>1, <2>1, <1>3, <1>5
    <3>3. QED
      BY <3>2, <1>1, <1>2
  <2>2. CASE k # n + 1
    <3>1. k \in 1..n /\ k \in 0..n /\ k - 1 \in 0..n
      BY <2>2
    <3>2. Decodes(run[k - 1], items[k], run[k])
      BY <3>1, <1>6
    <3>3. run2[k - 1] = run[k - 1] /\ run2[k] = run[k] /\ more[k] = items[k]
      BY <3>1, <1>3, <1>5
    <3>4. QED
      BY <3>2, <3>3
  <2>3. QED
    BY <2>1, <2>2
<1>8. run2[0] = <<"answer", <<>>>>
  <2>1. 0 \in 0..n
    OBVIOUS
  <2>2. QED
    BY <2>1, <1>5, <1>6
<1>9. IsRun(more, run2, n + 1)
  BY <1>7, <1>8 DEF IsRun
<1>10. Reaches(more, y)
  BY <1>3, <1>5, <1>9 DEF Reaches
<1>11. QED
  BY <1>0, <1>10

\* The innermost stream takes names where a loop does.
LEMMA AnswerNames ==
    ASSUME NEW depth \in Nat, Formats(json, depth), NEW s, AnswerSoFar(s)
    PROVE  /\ json.open # <<>> /\ InObject(json) = NamesIn(s[1])
           /\ NamesIn(s[1]) \in BOOLEAN
<1>1. json.open \in Seq(Streams)
  BY FormatsLevel
<1>2. PICK l \in Loops : l = s[1]
  BY DEF AnswerSoFar
<1>3. NestOf(json.open) = NestIn(l) /\ Len(json.open) = LoopLevel(l)
  BY <1>2 DEF AnswerSoFar
<1>4. PICK n \in 1..5 : n = LoopLevel(l)
  BY NestInIs
<1>5. json.open # <<>>
  BY <1>1, <1>3, <1>4
<1>6. Last(NestIn(l)) = (Last(json.open).close = "}")
  BY <1>1, <1>3, <1>5, NestOfIs, Zenon
<1>7. Last(NestIn(l)) = NestIn(l)[n]
  BY <1>4, NestInIs DEF Last
<1>8. n \in 1..LoopLevel(l)
  BY <1>4
<1>9. NestIn(l)[n] = (n \in {1, 3, 5}) /\ NamesIn(l) = (LoopLevel(l) \in {1, 3, 5})
  BY <1>8, NestInIs, Zenon
<1>10. InObject(json) = (Last(json.open).close = "}")
  BY DEF InObject
<1>11. InObject(json) = NamesIn(l)
  BY <1>4, <1>6, <1>7, <1>9, <1>10, Zenon
<1>12. NamesIn(l) \in BOOLEAN
  BY DEF NamesIn
<1>13. QED
  BY <1>2, <1>5, <1>11, <1>12

\* A call that opens an array or object is one turn of the client.
LEMMA OpenWrites ==
    ASSUME NEW depth \in Nat, depth = 5, Formats(json, depth),
           NEW s, AnswerSoFar(s), NEW c \in Calls4Meta, NEW y,
           Decodes(s, CallItem(c, NamesIn(s[1])), y),
           c[1] \in {"array", "object"},
           json' = StreamCall(c[1], c[2], c[3])
    PROVE  Writes(s, c, y, depth)
<1>1. json.open # <<>> /\ InObject(json) = NamesIn(s[1])
      /\ NamesIn(s[1]) \in BOOLEAN
  BY AnswerNames
<1>2. PICK item : item = CallItem(c, NamesIn(s[1]))
  OBVIOUS
<1>3. InLoop(s[1], s[2], item, y[1], y[2])
  BY <1>2 DEF Decodes
<1>4. PICK name \in Strings : name = c[2]
  BY DEF Calls4Meta
<1>5. PICK t, first, last :
        /\ Brackets(t, first, last) /\ t \in {"ARRAY", "OBJECT"}
        /\ json' = Opened(json, t, name, first, last)
        /\ item = Item(t, NameIn(json, name), <<>>)
  <2>1. CASE c[1] = "array"
    <3>1. Brackets("ARRAY", "[", "]")
      BY DEF Brackets
    <3>2. json' = Opened(json, "ARRAY", name, "[", "]")
      BY <2>1, <1>4, StreamCallIs
    <3>3. item = Item("ARRAY", NameIn(json, name), <<>>)
      <4>1. item = Item("ARRAY", IF NamesIn(s[1]) THEN c[2] ELSE <<>>, <<>>)
        BY <2>1, <1>2 DEF CallItem
      <4>2. NameIn(json, name) = IF NamesIn(s[1]) THEN c[2] ELSE <<>>
        BY <1>1, <1>4, Zenon DEF NameIn
      <4>3. QED
        BY <4>1, <4>2, Zenon
    <3>4. QED
      BY <3>1, <3>2, <3>3
  <2>2. CASE c[1] = "object"
    <3>1. Brackets("OBJECT", "{", "}")
      BY DEF Brackets
    <3>2. json' = Opened(json, "OBJECT", name, "{", "}")
      BY <2>2, <1>4, StreamCallIs
    <3>3. item = Item("OBJECT", NameIn(json, name), <<>>)
      <4>1. item = Item("OBJECT", IF NamesIn(s[1]) THEN c[2] ELSE <<>>, <<>>)
        BY <2>2, <1>2 DEF CallItem
      <4>2. NameIn(json, name) = IF NamesIn(s[1]) THEN c[2] ELSE <<>>
        BY <1>1, <1>4, Zenon DEF NameIn
      <4>3. QED
        BY <4>1, <4>2, Zenon
    <3>4. QED
      BY <3>1, <3>2, <3>3
  <2>3. QED
    BY <2>1, <2>2
<1>6. item.t = t
  BY <1>5 DEF Item
<1>7. /\ s[1] \in Loops /\ y[1] \in Loops
      /\ LoopLevel(y[1]) = LoopLevel(s[1]) + 1
      /\ LoopLevel(s[1]) \in 1..5 /\ LoopLevel(y[1]) \in 1..5
  BY <1>3, <1>5, <1>6, LoopsNest
<1>8. Len(json.open) \in 0..(depth - 1)
  <2>1. Len(json.open) = LoopLevel(s[1])
    BY DEF AnswerSoFar
  <2>2. QED
    BY <2>1, <1>7
<1>9. Formats(json', depth) /\ Opening(json', json, t, name, first, last)
  BY <1>1, <1>5, <1>8, OpenedIs
<1>10. /\ json'.items = Append(json.items, item)
       /\ NestOf(json'.open) = Append(NestOf(json.open), t = "OBJECT")
       /\ Len(json'.open) = Len(json.open) + 1
  <2>1. json'.items = Append(json.items, Item(t, NameIn(json, name), <<>>))
        /\ NestOf(json'.open) = Append(NestOf(json.open), t = "OBJECT")
        /\ Len(json'.open) = Len(json.open) + 1
    BY <1>9, Zenon DEF Opening
  <2>2. QED
    BY <2>1, <1>5, Zenon
<1>11. NestIn(y[1]) = Append(NestIn(s[1]), t = "OBJECT")
  <2>1. (t = "OBJECT") = (LoopLevel(y[1]) \in {1, 3, 5})
    <3>1. t = "ARRAY" => LoopLevel(y[1]) \in {2, 4}
      BY <1>3, <1>6, LoopKinds
    <3>2. t = "OBJECT" => LoopLevel(y[1]) \in {3, 5}
      BY <1>3, <1>6, LoopKinds
    <3>3. QED
      BY <3>1, <3>2, <1>5
  <2>2. (t = "OBJECT") \in BOOLEAN
    OBVIOUS
  <2>3. QED
    BY <2>1, <2>2, <1>7, NestInGrows, Zenon
<1>12. NestOf(json.open) = NestIn(s[1]) /\ Len(json.open) = LoopLevel(s[1])
  BY DEF AnswerSoFar
<1>13. NestOf(json'.open) = NestIn(y[1])
  BY <1>10, <1>11, <1>12, Zenon
<1>14. Len(json'.open) = LoopLevel(y[1])
  BY <1>7, <1>10, <1>12
<1>15. QED
  BY <1>2, <1>9, <1>10, <1>13, <1>14, Zenon DEF Writes

\* So is a call that writes a value,
LEMMA ValueWrites ==
    ASSUME NEW depth \in Nat, Formats(json, depth),
           NEW s, AnswerSoFar(s), NEW c \in Calls4Meta, NEW y,
           Decodes(s, CallItem(c, NamesIn(s[1])), y),
           c[1] = "value", json' = StreamCall(c[1], c[2], c[3])
    PROVE  Writes(s, c, y, depth)
<1>1. json.open # <<>> /\ InObject(json) = NamesIn(s[1])
      /\ NamesIn(s[1]) \in BOOLEAN
  BY AnswerNames
<1>2. PICK item : item = CallItem(c, NamesIn(s[1]))
  OBVIOUS
<1>3. InLoop(s[1], s[2], item, y[1], y[2])
  BY <1>2 DEF Decodes
<1>4. PICK name \in Strings, v \in MetaValues : name = c[2] /\ v = c[3]
  BY DEF Calls4Meta
<1>5. v \in Values
  BY MetaValuesAre
<1>6. json' = StreamValue(json, name, v)
  BY <1>4, StreamCallIs
<1>7. Formats(json', depth) /\ Putting(json', json, name, v)
  BY <1>1, <1>5, <1>6, StreamValueIs
<1>8. item = Item("VALUE", NameIn(json, name), v)
  <2>1. item = Item("VALUE", IF NamesIn(s[1]) THEN c[2] ELSE <<>>, c[3])
    BY <1>2 DEF CallItem
  <2>2. NameIn(json, name) = IF NamesIn(s[1]) THEN c[2] ELSE <<>>
    BY <1>1, <1>4, Zenon DEF NameIn
  <2>3. QED
    BY <2>1, <2>2, <1>4, Zenon
<1>9. /\ json'.items = Append(json.items, item)
      /\ NestOf(json'.open) = NestOf(json.open)
      /\ Len(json'.open) = Len(json.open)
  BY <1>7, <1>8, Zenon DEF Putting
<1>10. item.t = "VALUE"
  BY <1>8 DEF Item
<1>11. LoopLevel(y[1]) = LoopLevel(s[1])
  <2>1. item.t \notin {"ARRAY", "OBJECT", "END"}
    BY <1>10
  <2>2. QED
    BY <2>1, <1>3, LoopsNest
<1>12. NestIn(y[1]) = NestIn(s[1])
  BY <1>11 DEF NestIn
<1>13. NestOf(json.open) = NestIn(s[1]) /\ Len(json.open) = LoopLevel(s[1])
  BY DEF AnswerSoFar
<1>14. QED
  BY <1>2, <1>7, <1>9, <1>11, <1>12, <1>13, Zenon DEF Writes

\* One end, or two, behind other items.
LEMMA OneEnd ==
    ASSUME NEW items \in Seq(Items)
    PROVE  /\ items \o Ends(1) = Append(items, EndItem)
           /\ items \o Ends(2) = Append(Append(items, EndItem), EndItem)
<1>1. Ends(1) = <<EndItem>> /\ Ends(2) = <<EndItem, EndItem>>
  <2>1. PICK e \in Items : e = EndItem
    BY EndItemIs
  <2>2. Ends(1) = [i \in 1..1 |-> e] /\ Ends(2) = [i \in 1..2 |-> e]
    BY <2>1 DEF Ends
  <2>3. [i \in 1..1 |-> e] = <<e>> /\ [i \in 1..2 |-> e] = <<e, e>>
    OBVIOUS
  <2>4. QED
    BY <2>1, <2>2, <2>3
<1>2. PICK e \in Items : e = EndItem
  BY EndItemIs
<1>3. /\ items \o <<e>> = Append(items, e)
      /\ items \o <<e, e>> = Append(Append(items, e), e)
  OBVIOUS
<1>4. QED
  BY <1>1, <1>2, <1>3

\* and one that closes a stream.
LEMMA CloseWrites ==
    ASSUME NEW depth \in Nat, Formats(json, depth),
           NEW s, AnswerSoFar(s), NEW c \in Calls4Meta, NEW y,
           Decodes(s, CallItem(c, NamesIn(s[1])), y),
           c[1] = "close", json' = StreamCall(c[1], c[2], c[3])
    PROVE  Writes(s, c, y, depth)
<1>1. json.open # <<>>
  BY AnswerNames
<1>2. PICK item : item = CallItem(c, NamesIn(s[1]))
  OBVIOUS
<1>3. InLoop(s[1], s[2], item, y[1], y[2])
  BY <1>2 DEF Decodes
<1>4. item = EndItem /\ item.t = "END"
  <2>1. item = EndItem
    BY <1>2 DEF CallItem
  <2>2. QED
    BY <2>1, EndItemIs
<1>5. json.open \in Seq(Streams) /\ json.items \in Seq(Items)
  BY FormatsLevel
<1>6. PICK n \in Nat : n = Len(json.open)
  BY <1>5
<1>7. n \in 1..Len(json.open)
  BY <1>1, <1>5, <1>6
<1>8. json' = Close(json, n)
  BY <1>6, StreamCallIs
<1>9. /\ Formats(json', depth) /\ json'.open = SubSeq(json.open, 1, n - 1)
      /\ json'.items = json.items \o Ends(Len(json.open) + 1 - n)
  BY <1>7, <1>8, CloseIs
<1>10. json'.items = Append(json.items, item)
  <2>1. Len(json.open) + 1 - n = 1
    BY <1>6
  <2>2. QED
    BY <2>1, <1>4, <1>5, <1>9, OneEnd
<1>11. json'.open = Front(json.open)
  BY <1>6, <1>9 DEF Front
<1>12. /\ Len(json'.open) = Len(json.open) - 1
       /\ NestOf(json'.open) = Front(NestOf(json.open))
  BY <1>1, <1>5, <1>11, NestOfFront
<1>13. /\ s[1] \in Loops /\ y[1] \in Loops
       /\ LoopLevel(y[1]) = LoopLevel(s[1]) - 1
       /\ LoopLevel(s[1]) \in 1..5 /\ LoopLevel(y[1]) \in 1..5
  BY <1>3, <1>4, LoopsNest
<1>14. NestIn(y[1]) = Front(NestIn(s[1]))
  <2>1. LoopLevel(s[1]) = LoopLevel(y[1]) + 1
    BY <1>13
  <2>2. (LoopLevel(s[1]) \in {1, 3, 5}) \in BOOLEAN
    OBVIOUS
  <2>3. QED
    BY <2>1, <2>2, <1>13, NestInGrows, Zenon
<1>15. NestOf(json.open) = NestIn(s[1]) /\ Len(json.open) = LoopLevel(s[1])
  BY DEF AnswerSoFar
<1>16. NestOf(json'.open) = NestIn(y[1])
  BY <1>12, <1>14, <1>15, Zenon
<1>17. Len(json'.open) = LoopLevel(y[1])
  BY <1>12, <1>13, <1>15
<1>18. QED
  BY <1>2, <1>9, <1>10, <1>16, <1>17, Zenon DEF Writes

\* Each step of the server leads the client one turn further.
LEMMA AnswerStep ==
    ASSUME NEW depth \in Nat, depth = 5, Formats(json, depth),
           NEW s, AnswerSoFar(s), WriteMeta
    PROVE  Formats(json', depth) /\ \E y : AnswerSoFar(y)'
<1>1. /\ todo # <<>> /\ todo' = Tail(todo) /\ metas' = metas
      /\ json' = StreamCall(todo[1][1], todo[1][2], todo[1][3])
  BY DEF WriteMeta
<1>2. Leads(todo, s, <<"list", AnswerOf(metas)>>)
  BY DEF AnswerSoFar
<1>3. PICK y : /\ CallDecodes(s, todo[1], y)
               /\ Leads(Tail(todo), y, <<"list", AnswerOf(metas)>>)
  BY <1>1, <1>2, LeadsTail
<1>4. PICK c \in Calls4Meta : c = todo[1]
  BY <1>3 DEF CallDecodes
<1>5. PICK item : item = CallItem(c, NamesIn(s[1]))
  OBVIOUS
<1>6. Decodes(s, item, y)
  BY <1>3, <1>4, <1>5 DEF CallDecodes
<1>7. Writes(s, c, y, depth)
  <2>1. Decodes(s, CallItem(c, NamesIn(s[1])), y)
    BY <1>5, <1>6
  <2>2. json' = StreamCall(c[1], c[2], c[3])
    BY <1>1, <1>4
  <2>3. CASE c[1] \in {"array", "object"}
    BY <2>1, <2>2, <2>3, OpenWrites
  <2>4. CASE c[1] = "value"
    BY <2>1, <2>2, <2>4, ValueWrites
  <2>5. CASE c[1] = "close"
    BY <2>1, <2>2, <2>5, CloseWrites
  <2>6. c[1] \in {"array", "object", "value", "close"}
    BY DEF Calls4Meta
  <2>7. QED
    BY <2>3, <2>4, <2>5, <2>6
<1>8. /\ Formats(json', depth) /\ json'.items = Append(json.items, item)
      /\ NestOf(json'.open) = NestIn(y[1])
      /\ Len(json'.open) = LoopLevel(y[1])
  BY <1>5, <1>7, Zenon DEF Writes
<1>9. Reaches(json.items, s)
  BY DEF AnswerSoFar
<1>10. json.items \in Seq(Items) /\ item \in Items
  <2>1. item \in MetaItems
    BY <1>6 DEF Decodes
  <2>2. QED
    BY <2>1, FormatsLevel DEF MetaItems
<1>11. Reaches(json'.items, y)
  <2>1. Reaches(Append(json.items, item), y)
    BY <1>6, <1>9, <1>10, RunGrows
  <2>2. QED
    BY <2>1, <1>8
<1>12. y[1] \in Loops
  <2>1. InLoop(s[1], s[2], item, y[1], y[2])
    BY <1>6 DEF Decodes
  <2>2. QED
    BY <2>1, LoopsNest
<1>13. Leads(todo', y, <<"list", AnswerOf(metas')>>)
  BY <1>1, <1>3
<1>14. AnswerSoFar(y)'
  BY <1>8, <1>11, <1>12, <1>13 DEF AnswerSoFar
<1>15. QED
  BY <1>8, <1>14

\* The state in which nothing has been written yet.
LEMMA AnswerBegins ==
    ASSUME json = InitNew, metas \in Seq(Metas), todo = Handle_PostVarMeta(metas)
    PROVE  AnswerSoFar(<<"answer", <<>>>>)
<1>1. PICK s : s = <<"answer", <<>>>>
  OBVIOUS
<1>2. s[1] = "answer"
  BY <1>1
<1>3. PICK depth \in Nat \ {0} : depth = 5
  OBVIOUS
<1>4. /\ Formats(json, depth) /\ json.items = <<>> /\ Len(json.open) = 1
      /\ NestOf(json.open)[1] = TRUE
  BY InitFormats
<1>5. json.open \in Seq(Streams)
  BY <1>4, FormatsLevel
<1>6. "answer" \in Loops
  BY DEF Loops
<1>7. NestOf(json.open) = NestIn("answer")
  <2>1. PICK a, b : a = NestOf(json.open) /\ b = NestIn("answer")
    OBVIOUS
  <2>2. a \in Seq(BOOLEAN) /\ Len(a) = 1 /\ a[1] = TRUE
    BY <2>1, <1>4, <1>5, NestOfIs
  <2>3. b \in Seq(BOOLEAN) /\ Len(b) = 1
    BY <2>1, <1>6, LoopLevels, NestInIs
  <2>4. b[1] = TRUE
    <3>1. 1 \in 1..LoopLevel("answer")
      BY LoopLevels
    <3>2. b[1] = (1 \in {1, 3, 5})
      BY <2>1, <3>1, <1>6, NestInIs, Zenon
    <3>3. (1 \in {1, 3, 5}) = TRUE
      OBVIOUS
    <3>4. QED
      BY <3>2, <3>3, Zenon
  <2>5. \A i \in 1..1 : a[i] = b[i]
    <3>1. \A i \in 1..1 : i = 1
      OBVIOUS
    <3>2. QED
      BY <3>1, <2>2, <2>4, Zenon
  <2>6. Len(a) = Len(b) /\ \A i \in 1..Len(a) : a[i] = b[i]
    BY <2>2, <2>3, <2>5, Zenon
  <2>7. a = b
    BY <2>2, <2>3, <2>6, SeqEqual, Zenon
  <2>8. QED
    BY <2>1, <2>7
<1>8. Reaches(json.items, s)
  <2>1. Len(json.items) = 0
    BY <1>4
  <2>2. PICK run : run = [k \in {0} |-> s]
    OBVIOUS
  <2>3. run[0] = s /\ \A k \in 1..0 : FALSE
    BY <2>2
  <2>4. IsRun(json.items, run, 0)
    BY <2>3, <1>1 DEF IsRun
  <2>5. QED
    BY <2>1, <2>3, <2>4 DEF Reaches
<1>9. Leads(todo, s, <<"list", AnswerOf(metas)>>)
  BY <1>1, AnswerLeads
<1>10. AnswerSoFar(s)
  BY <1>2, <1>4, <1>6, <1>7, <1>8, <1>9, LoopLevels DEF AnswerSoFar
<1>11. QED
  BY <1>1, <1>10

\* When the text is finished, so is the way of the client through it.
LEMMA AnswerEnds ==
    ASSUME NEW depth \in Nat, Formats(json, depth), NEW s, AnswerSoFar(s),
           todo = <<>>, json' = Close(json, 1), metas' = metas
    PROVE  \E run : AnswerRun(run)'
<1>1. PICK g : g = AnswerOf(metas)
  OBVIOUS
<1>2. s = <<"list", g>>
  <2>1. Leads(<<>>, s, <<"list", AnswerOf(metas)>>)
    BY DEF AnswerSoFar
  <2>2. PICK run : run[0] = s /\ run[Len(<<>>)] = <<"list", AnswerOf(metas)>>
    BY <2>1 DEF Leads
  <2>3. Len(<<>>) = 0
    OBVIOUS
  <2>4. QED
    BY <2>2, <2>3, <1>1
<1>3. s[1] = "list" /\ s[2] = g
  BY <1>2
<1>4. Len(json.open) = 2
  BY <1>3, LoopLevels DEF AnswerSoFar
<1>5. json.items \in Seq(Items)
  BY FormatsLevel
<1>6. json'.items = Append(Append(json.items, EndItem), EndItem)
  <2>1. 1 \in 1..Len(json.open) /\ Len(json.open) + 1 - 1 = 2
    BY <1>4
  <2>2. json'.items = json.items \o Ends(Len(json.open) + 1 - 1)
    BY <2>1, CloseIs
  <2>3. QED
    BY <2>1, <2>2, <1>5, OneEnd
<1>7. PICK one : one = Append(json.items, EndItem)
  OBVIOUS
<1>8. EndItem \in MetaItems /\ EndItem \in Items /\ EndItem.t = "END"
  BY EndItemIs DEF MetaItems
<1>9. PICK y : y = <<"answer", g>>
  OBVIOUS
<1>10. y[1] = "answer" /\ y[2] = g
  BY <1>9
<1>11. Decodes(s, EndItem, y)
  <2>1. InLoop("list", g, EndItem, "answer", g)
    BY <1>8, Zenon DEF InLoop
  <2>2. QED
    BY <2>1, <1>3, <1>8, <1>10 DEF Decodes
<1>12. Reaches(one, y)
  <2>1. Reaches(json.items, s)
    BY DEF AnswerSoFar
  <2>2. QED
    BY <2>1, <1>5, <1>7, <1>8, <1>11, RunGrows
<1>13. PICK run : IsRun(one, run, Len(one)) /\ run[Len(one)] = y
  BY <1>12 DEF Reaches
<1>14. PICK n \in Nat : n = Len(one)
  BY <1>5, <1>7, <1>8
<1>15. /\ one \in Seq(Items) /\ Len(json'.items) = n + 1
       /\ \A k \in 1..n : json'.items[k] = one[k]
  <2>1. one \in Seq(Items)
    BY <1>5, <1>7, <1>8
  <2>2. json'.items = Append(one, EndItem)
    BY <1>6, <1>7
  <2>3. QED
    BY <2>1, <2>2, <1>8, <1>14
<1>16. /\ run[0] = <<"answer", <<>>>>
       /\ \A k \in 1..n : Decodes(run[k - 1], one[k], run[k])
  BY <1>13, <1>14 DEF IsRun
<1>17. IsRun(json'.items, run, n)
  <2>1. \A k \in 1..n : Decodes(run[k - 1], json'.items[k], run[k])
    BY <1>15, <1>16
  <2>2. QED
    BY <2>1, <1>16 DEF IsRun
<1>18. Len(json'.items) - 1 = n
  BY <1>15
<1>19. run[n] = <<"answer", AnswerOf(metas')>>
  BY <1>1, <1>9, <1>13, <1>14
<1>20. AnswerRun(run)'
  BY <1>17, <1>18, <1>19, <1>14 DEF AnswerRun
<1>21. QED
  BY <1>20

-----------------------------------------------------------------------------
(* The inductive invariant. *)

\* Depth is positive, and the parser can follow it.
LEMMA DepthIs == Depth \in Nat \ {0} /\ Depth < MaxNesting
  BY JsonAssumption DEF Depth, MaxNesting

\* A parser that has read an item is one.
LEMMA ReadIsParser ==
    ASSUME NEW q, NEW item, IsRead(q, item) PROVE q # NoParser
<1>1. q.type \in {"ARRAY", "OBJECT", "STRING", "NUMERIC", "END"}
  BY DEF IsRead, Parsers
<1>2. NoParser.type = "NONE"
  BY DEF NoParser
<1>3. q.type # "NONE"
  BY <1>1
<1>4. QED
  BY <1>2, <1>3

\* Nothing is written, nothing is read.
LEMMA TextIInvInit == TextInit => TextIInv
<1> SUFFICES ASSUME TextInit PROVE TextIInv
  OBVIOUS
<1>1. /\ json = InitNew /\ text = <<>> /\ parser = NoParser
      /\ todo = Handle_PostVarMeta(metas)
      /\ passed = 0 /\ skip = 0 /\ loop = "none" /\ got = <<>>
  BY DEF TextInit
<1>2. metas \in Seq(Metas)
  BY FewMetas DEF TextInit
<1>3. IsIdle
  BY <1>1 DEF IsIdle
<1>4. PICK depth \in Nat \ {0} : depth = Depth
  BY DepthIs
<1>5. Formats(json, depth) /\ Len(json.open) = 1
  BY <1>1, InitFormats
<1>6. MaxDepth \in Nat \ {0}
  BY JsonAssumption
<1>7. CASE metas = <<>>
  <2>1. IsWriting
    BY <1>4, <1>5, <1>6, <1>7 DEF IsWriting
  <2>2. QED
    BY <2>1, <1>1, <1>2, <1>3 DEF TextIInv
<1>8. CASE metas # <<>>
  <2>1. AnswerSoFar(<<"answer", <<>>>>)
    BY <1>1, <1>2, AnswerBegins
  <2>2. IsWriting
    BY <2>1, <1>4, <1>5, <1>8 DEF IsWriting
  <2>3. QED
    BY <2>2, <1>1, <1>2, <1>3 DEF TextIInv
<1>9. QED
  BY <1>7, <1>8

\* While a text is being written nobody reads it.
LEMMA WriteStep ==
    ASSUME TextIInv, Write \/ CloseStream \/ WriteMeta
    PROVE  TextIInv'
<1>1. /\ text = <<>> /\ text' = text /\ metas' = metas /\ parser' = parser
      /\ passed' = passed /\ skip' = skip /\ loop' = loop /\ got' = got
  BY DEF Write, CloseStream, WriteMeta
<1>2. IsWriting /\ metas \in Seq(Metas)
  BY <1>1 DEF TextIInv
<1>3. parser = NoParser /\ IsIdle
  BY <1>1 DEF TextIInv, IsReading
<1>4. Depth' = Depth
  BY <1>1 DEF Depth
<1>5. PICK depth \in Nat : depth = Depth
  BY DepthIs
<1>6. Formats(json, depth)
  BY <1>2, <1>5 DEF IsWriting
<1>7. CASE metas = <<>>
  <2>1. depth = MaxDepth + 2 /\ Len(json.open) \in 1..MaxDepth
    BY <1>2, <1>5, <1>7 DEF Depth, IsWriting
  <2>2. Write \/ CloseStream
    BY <1>7 DEF WriteMeta
  <2>3. Formats(json', depth) /\ Len(json'.open) \in 1..MaxDepth
    BY <2>1, <2>2, <1>6, FreeWrite, FreeClose
  <2>4. IsWriting'
    BY <2>3, <1>1, <1>4, <1>5, <1>7 DEF IsWriting
  <2>5. QED
    BY <2>4, <1>1, <1>2, <1>3 DEF TextIInv, IsIdle
<1>8. CASE metas # <<>>
  <2>1. depth = 5 /\ \E s : AnswerSoFar(s)
    BY <1>2, <1>5, <1>8 DEF Depth, IsWriting
  <2>2. WriteMeta
    BY <1>8 DEF Write, CloseStream
  <2>3. Formats(json', depth) /\ \E y : AnswerSoFar(y)'
    BY <2>1, <2>2, <1>6, AnswerStep
  <2>4. IsWriting'
    BY <2>3, <1>1, <1>4, <1>5, <1>8 DEF IsWriting
  <2>5. QED
    BY <2>4, <1>1, <1>2, <1>3 DEF TextIInv, IsIdle
<1>9. QED
  BY <1>7, <1>8

\* The text is finished and goes to the peer.
LEMMA GetStreamStep ==
    ASSUME TextIInv, GetStream
    PROVE  TextIInv'
<1>1. /\ text = <<>> /\ json' = Close(json, 1) /\ text' = json'.dump
      /\ metas = <<>> \/ todo = <<>>
      /\ metas' = metas /\ parser' = parser /\ passed' = passed
      /\ skip' = skip /\ loop' = loop /\ got' = got
  BY DEF GetStream
<1>2. IsWriting /\ metas \in Seq(Metas)
  BY <1>1 DEF TextIInv
<1>3. parser = NoParser /\ IsIdle
  BY <1>1 DEF TextIInv, IsReading
<1>4. Depth' = Depth
  BY <1>1 DEF Depth
<1>5. PICK depth \in Nat : depth = Depth
  BY DepthIs
<1>6. Formats(json, depth) /\ json.open \in Seq(Streams)
  <2>1. Formats(json, depth)
    BY <1>2, <1>5 DEF IsWriting
  <2>2. QED
    BY <2>1, FormatsLevel
<1>7. Len(json.open) \in Nat /\ 1 \in 1..Len(json.open)
  <2>1. CASE metas = <<>>
    <3>1. Len(json.open) \in 1..MaxDepth /\ MaxDepth \in Nat
      BY <2>1, <1>2, JsonAssumption DEF IsWriting
    <3>2. QED
      BY <3>1
  <2>2. CASE metas # <<>>
    <3>1. PICK s : AnswerSoFar(s)
      BY <2>2, <1>2 DEF IsWriting
    <3>2. json.open # <<>>
      BY <3>1, <1>6, AnswerNames
    <3>3. Len(json.open) # 0 /\ Len(json.open) \in Nat
      BY <3>2, <1>6
    <3>4. QED
      BY <3>3
  <2>3. QED
    BY <2>1, <2>2
<1>8. Formats(json', depth) /\ json'.open = SubSeq(json.open, 1, 1 - 1)
  BY <1>1, <1>6, <1>7, CloseIs
<1>9. NestOf(json'.open) = <<>>
  <2>1. json'.open = <<>> /\ Len(<<>>) = 0
    BY <1>6, <1>8
  <2>2. QED
    BY <2>1 DEF NestOf
<1>10. Texts(text', json'.items, <<>>, depth)
  BY <1>1, <1>8, <1>9 DEF Formats
<1>11. text' # <<>>
  <2>1. PICK at, nest : Written(text', json'.items, at, nest, depth)
    BY <1>10 DEF Texts
  <2>2. text' \in Seq(Lexemes) /\ 0 + Len(<<"{">>) <= Len(text')
    BY <2>1 DEF Written, Stands
  <2>3. Len(<<"{">>) = 1 /\ Len(text') \in Nat
    BY <2>2
  <2>4. Len(text') # 0
    BY <2>2, <2>3
  <2>5. QED
    BY <2>4
<1>12. metas # <<>> => \E run : AnswerRun(run)'
  <2> SUFFICES ASSUME metas # <<>> PROVE \E run : AnswerRun(run)'
    OBVIOUS
  <2>1. PICK s : AnswerSoFar(s)
    BY <1>2 DEF IsWriting
  <2>2. QED
    BY <2>1, <1>1, <1>6, AnswerEnds
<1>13. IsFinished'
  BY <1>1, <1>4, <1>5, <1>10, <1>12 DEF IsFinished
<1>14. QED
  BY <1>1, <1>2, <1>3, <1>11, <1>13 DEF TextIInv, IsIdle

-----------------------------------------------------------------------------
(* The parser goes through the items. *)

\* The first item is read.
LEMMA ParserBegins ==
    ASSUME TextIInv, CJsonParser
    PROVE  TextIInv'
<1>1. /\ text # <<>> /\ parser = NoParser /\ parser' = Restart /\ passed' = 1
      /\ loop' = (IF metas = <<>> THEN "walk" ELSE "answer")
      /\ json' = json /\ metas' = metas /\ text' = text /\ skip' = skip
      /\ got' = got
  BY DEF CJsonParser
<1>2. IsFinished /\ IsIdle /\ metas \in Seq(Metas)
  BY <1>1 DEF TextIInv
<1>3. Depth' = Depth
  BY <1>1 DEF Depth
<1>4. PICK items \in Seq(Items) : items = json.items
  BY <1>2 DEF IsFinished, Texts
<1>5. PICK at, nest : /\ Written(text, items, at, nest, Depth)
                      /\ <<>> = nest[Len(items)]
  BY <1>2, <1>4 DEF IsFinished, Texts
<1>6. /\ 1 \in 1..Len(items) /\ IsRead(Restart, items[1])
      /\ Restart.pos = at[1] + 1 /\ Restart.nest = nest[1]
  BY <1>5, DepthIs, RestartReads
<1>7. IsParsing(at, nest)'
  BY <1>1, <1>3, <1>4, <1>5, <1>6 DEF IsParsing
<1>8. parser' # NoParser
  BY <1>1, <1>6, ReadIsParser
<1>9. IsFinished'
  BY <1>1, <1>2, <1>3 DEF IsFinished, AnswerRun
<1>10. IsReading'
  <2>1. CASE metas = <<>>
    <3>1. skip = 0 /\ loop' = "walk"
      BY <2>1, <1>1, <1>2 DEF IsIdle
    <3>2. nest[1] \in Seq(BOOLEAN)
      <4>1. nest \in [0..Len(items) -> Seq(BOOLEAN)]
        BY <1>5 DEF Written
      <4>2. 1 \in 0..Len(items)
        BY <1>6
      <4>3. QED
        BY <4>1, <4>2
    <3>3. skip' \in 0..Level(parser')
      BY <3>1, <3>2, <1>1, <1>6 DEF Level
    <3>4. QED
      BY <3>1, <3>3, <2>1, <1>1, <1>7 DEF IsReading
  <2>2. CASE metas # <<>>
    <3>1. PICK run : AnswerRun(run)
      BY <2>2, <1>2 DEF IsFinished
    <3>2. run[0] = <<"answer", <<>>>>
      BY <3>1 DEF AnswerRun, IsRun
    <3>3. got = <<>> /\ skip = 0 /\ loop' = "answer"
      BY <2>2, <1>1, <1>2 DEF IsIdle
    <3>4. AnswerRun(run)'
      BY <3>1, <1>1 DEF AnswerRun
    <3>5. IsDecoding(run)'
      <4>1. passed' - 1 = 0 /\ got' = <<>>
        BY <3>3, <1>1
      <4>2. run[passed' - 1][1] = "answer" /\ run[passed' - 1][2] = <<>>
        BY <4>1, <3>2
      <4>3. QED
        BY <4>1, <4>2, <3>3, <3>4 DEF IsDecoding
    <3>6. QED
      BY <3>3, <3>5, <2>2, <1>1, <1>7 DEF IsReading
  <2>3. QED
    BY <2>1, <2>2
<1>11. QED
  BY <1>1, <1>2, <1>8, <1>9, <1>10 DEF TextIInv

\* At which level the parser is, and that a text ends at level 0 only.
LEMMA ParserLevels ==
    ASSUME NEW at, NEW nest, IsParsing(at, nest)
    PROVE  /\ json.items \in Seq(Items) /\ text \in Seq(Lexemes)
           /\ parser \in Parsers
           /\ Level(parser) = Len(nest[passed]) /\ Level(parser) \in 0..Depth
           /\ Level(parser) = 0 <=> passed = Len(json.items)
<1>0. json.items \in Seq(Items)
  BY DEF IsParsing
<1>1. PICK n \in Nat : n = Len(json.items)
  BY <1>0
<1>2. passed \in 1..n /\ nest[n] = <<>> /\ parser.nest = nest[passed]
  BY <1>1 DEF IsParsing
<1>3. Written(text, json.items, at, nest, Depth)
  BY DEF IsParsing
<1>4. /\ nest[passed] \in Seq(BOOLEAN) /\ Len(nest[passed]) <= Depth
      /\ text \in Seq(Lexemes)
  <2>1. passed \in 0..Len(json.items)
    BY <1>1, <1>2
  <2>2. /\ nest \in [0..Len(json.items) -> Seq(BOOLEAN)]
        /\ text \in Seq(Lexemes)
        /\ \A k \in 0..Len(json.items) : Len(nest[k]) <= Depth
    BY <1>3 DEF Written
  <2>3. QED
    BY <2>1, <2>2
<1>5. Level(parser) = Len(nest[passed])
  BY <1>2 DEF Level
<1>6. passed # n => nest[passed] # <<>>
  <2> SUFFICES ASSUME passed # n PROVE nest[passed] # <<>>
    OBVIOUS
  <2>1. passed + 1 \in 1..Len(json.items) /\ (passed + 1) - 1 = passed
    BY <1>1, <1>2
  <2>2. PICK c \in BOOLEAN :
          MayFollow(SubSeq(json.items, 1, (passed + 1) - 1),
                    json.items[passed + 1], c, nest[(passed + 1) - 1])
    BY <2>1, <1>3 DEF Written
  <2>3. nest[(passed + 1) - 1] # <<>>
    BY <2>2 DEF MayFollow
  <2>4. QED
    BY <2>1, <2>3
<1>7. nest[passed] = <<>> <=> Len(nest[passed]) = 0
  BY <1>4
<1>8. parser \in Parsers
  BY DEF IsParsing, IsRead
<1>9. QED
  BY <1>0, <1>1, <1>2, <1>4, <1>5, <1>6, <1>7, <1>8, DepthIs

\* The next item is read.
LEMMA ParserAdvances ==
    ASSUME NEW at, NEW nest, IsParsing(at, nest), passed # Len(json.items),
           parser' = Iterate(parser), passed' = passed + 1,
           json' = json, text' = text, metas' = metas
    PROVE  IsParsing(at, nest)' /\ parser' # NoParser
<1>1. json.items \in Seq(Items) /\ parser \in Parsers
  BY ParserLevels
<1>2. PICK items \in Seq(Items), n \in Nat : items = json.items /\ n = Len(items)
  BY <1>1
<1>3. /\ Written(text, items, at, nest, Depth) /\ nest[Len(items)] = <<>>
      /\ passed \in 1..n /\ passed # n
      /\ parser.pos = at[passed] + 1 /\ parser.nest = nest[passed]
  BY <1>2 DEF IsParsing
<1>4. PICK k \in 1..Len(items) : k = passed + 1 /\ k - 1 = passed
  <2>1. passed + 1 \in 1..Len(items) /\ (passed + 1) - 1 = passed
    BY <1>2, <1>3
  <2>2. QED
    BY <2>1
<1>5. parser.pos = at[k - 1] + 1 /\ parser.nest = nest[k - 1]
  BY <1>3, <1>4
<1>6. /\ IsRead(Iterate(parser), items[k])
      /\ Iterate(parser).pos = at[k] + 1 /\ Iterate(parser).nest = nest[k]
  BY <1>1, <1>3, <1>5, DepthIs, IterateReads
<1>7. Depth' = Depth
  BY DEF Depth
<1>8. IsParsing(at, nest)'
  BY <1>2, <1>3, <1>4, <1>6, <1>7 DEF IsParsing
<1>9. QED
  BY <1>6, <1>8, ReadIsParser

\* SkipItem goes down a level at most, and only at an end.
LEMMA LevelFalls ==
    ASSUME NEW at, NEW nest, IsParsing(at, nest), passed # Len(json.items),
           parser' = Iterate(parser), passed' = passed + 1,
           json' = json, text' = text, metas' = metas
    PROVE  \/ Level(parser') >= Level(parser)
           \/ Level(parser') = Level(parser) - 1 /\ parser'.type = "END"
<1>1. IsParsing(at, nest)'
  BY ParserAdvances
<1>2. /\ json.items \in Seq(Items) /\ Level(parser) = Len(nest[passed])
      /\ Level(parser) \in Nat /\ Level(parser) # 0
  BY ParserLevels, DepthIs
<1>3. PICK n \in Nat : n = Len(json.items)
  BY <1>2
<1>4. passed \in 1..n /\ passed # n
  BY <1>3 DEF IsParsing
<1>5. PICK k \in 1..n : k = passed + 1 /\ k - 1 = passed
  <2>1. passed + 1 \in 1..n /\ (passed + 1) - 1 = passed
    BY <1>4
  <2>2. QED
    BY <2>1
<1>6. PICK item \in Items : item = json.items[k]
  BY <1>2, <1>3
<1>7. item.t \in ItemTypes
  BY DEF Items
<1>8. Written(text, json.items, at, nest, Depth)
  BY DEF IsParsing
<1>9. nest[k] = Nesting(nest[passed], item.t)
  <2>1. \E c \in BOOLEAN : Follows(text, json.items[k], c, at[k - 1], at[k],
                                   nest[k - 1], nest[k])
    BY <1>3, <1>8 DEF Written
  <2>2. QED
    BY <2>1, <1>5, <1>6 DEF Follows
<1>10. nest[passed] \in Seq(BOOLEAN) /\ nest[passed] # <<>>
  <2>1. nest[passed] \in Seq(BOOLEAN)
    <3>1. nest \in [0..Len(json.items) -> Seq(BOOLEAN)]
      BY <1>8 DEF Written
    <3>2. passed \in 0..Len(json.items)
      BY <1>3, <1>4
    <3>3. QED
      BY <3>1, <3>2
  <2>2. QED
    BY <2>1, <1>2
<1>11. Len(Nesting(nest[passed], item.t)) =
          CASE item.t \in {"ARRAY", "OBJECT"} -> Len(nest[passed]) + 1
            [] item.t = "END" -> Len(nest[passed]) - 1
            [] OTHER -> Len(nest[passed])
  BY <1>7, <1>10, NestingLen
<1>12. Level(parser') = Len(nest[k])
  BY <1>1, <1>5 DEF IsParsing, Level
<1>13. item.t = "END" => parser'.type = "END"
  <2>1. IsRead(parser', json'.items[passed'])
    BY <1>1 DEF IsParsing
  <2>2. QED
    BY <2>1, <1>5, <1>6 DEF IsRead
<1>14. PICK a \in Nat : a = Len(nest[passed])
  BY <1>10
<1>15. Level(parser) = a
  BY <1>2, <1>14
<1>16. \/ Level(parser') = a + 1 \/ Level(parser') = a
       \/ Level(parser') = a - 1 /\ item.t = "END"
  BY <1>9, <1>11, <1>12, <1>14
<1>17. QED
  BY <1>13, <1>15, <1>16

\* One that walks through a text, and skips items of it.
LEMMA WalkerStep ==
    ASSUME TextIInv, parser # NoParser, metas = <<>>,
           WalkOn \/ SkipBegin \/ SkipStep
    PROVE  TextIInv'
<1>1. /\ json' = json /\ metas' = metas /\ text' = text /\ loop' = loop
      /\ loop = "walk" /\ got' = got
  <2>1. loop = "walk"
    BY DEF TextIInv, IsReading
  <2>2. QED
    BY <2>1 DEF WalkOn, SkipBegin, SkipStep, Advance
<1>2. /\ metas \in Seq(Metas) /\ text # <<>> /\ IsFinished
      /\ skip \in 0..Level(parser)
  BY DEF TextIInv, IsReading
<1>3. PICK at, nest : IsParsing(at, nest)
  BY DEF TextIInv, IsReading
<1>4. Level(parser) \in Nat
  BY <1>3, ParserLevels, DepthIs
<1>5. IsFinished'
  BY <1>1, <1>2 DEF IsFinished, Depth
<1>6. CASE SkipBegin
  <2>1. parser' = parser /\ passed' = passed /\ skip' = Level(parser)
    BY <1>6 DEF SkipBegin
  <2>2. IsParsing(at, nest)'
    BY <2>1, <1>1, <1>3 DEF IsParsing, Depth
  <2>3. skip' \in 0..Level(parser')
    BY <2>1, <1>4
  <2>4. QED
    BY <2>1, <2>2, <2>3, <1>1, <1>2, <1>5 DEF TextIInv, IsReading
<1>7. CASE WalkOn \/ SkipStep
  <2>1. /\ parser' = Iterate(parser) /\ passed' = passed + 1
        /\ Level(parser) # 0
    <3>1. CASE WalkOn
      BY <3>1, <1>4 DEF WalkOn, Advance
    <3>2. CASE SkipStep
      BY <3>2, <1>2, <1>4 DEF SkipStep
    <3>3. QED
      BY <3>1, <3>2, <1>7
  <2>2. passed # Len(json.items)
    BY <2>1, <1>3, ParserLevels
  <2>3. IsParsing(at, nest)' /\ parser' # NoParser
    BY <2>1, <2>2, <1>1, <1>3, ParserAdvances
  <2>4. Level(parser') \in Nat
    <3>1. parser' \in Parsers
      BY <2>3 DEF IsParsing, IsRead
    <3>2. QED
      BY <3>1 DEF Parsers, Level
  <2>5. skip' \in 0..Level(parser')
    <3>1. CASE WalkOn
      BY <3>1, <2>4 DEF WalkOn, Advance
    <3>2. CASE SkipStep
      <4>1. skip' = IF parser'.type = "INVALID" \/ Level(parser') < skip
                    THEN 0 ELSE skip
        BY <3>2 DEF SkipStep
      <4>2. QED
        BY <4>1, <2>4, <1>2, <1>4
    <3>3. QED
      BY <3>1, <3>2, <1>7
  <2>6. QED
    BY <2>3, <2>5, <1>1, <1>2, <1>5 DEF TextIInv, IsReading
<1>8. QED
  BY <1>6, <1>7

-----------------------------------------------------------------------------
(* What the parser says of an item. *)

\* A member is told by the name it was written under, and by no other.
LEMMA NameIsTold ==
    ASSUME NEW q, NEW item, IsRead(q, item), item.t # "END", NEW name
    PROVE  /\ UnescapeString(q.name) = item.name
           /\ TestForName(q, name) = (item.name = name)
<1>1. Encodes(q.name, item.name)
  BY DEF IsRead
<1>2. UnescapeString(q.name) = item.name
  BY <1>1, UnescapeIs
<1>3. QED
  BY <1>2 DEF TestForName, CompareUnescapedString

\* A number or a word is one lexeme.
LEMMA WordIsRead ==
    ASSUME NEW q, NEW item \in Items, IsRead(q, item), item.t = "VALUE",
           ~IsString(item.v)
    PROVE  /\ q.type = "NUMERIC"
           /\ q.val = IF item.v[1] = "double" /\ item.v[2] \in {"nan", "inf"}
                      THEN <<"null">> ELSE <<item.v[2]>>
<1>1. PICK v \in Values : v = item.v
  BY DEF Items
<1>2. q.type = "NUMERIC" /\ q.val = Word(v)
  BY <1>1 DEF IsRead, ReadsValue
<1>3. v[1] \notin {"cstr", "str", "date"}
  BY <1>1 DEF IsString
<1>4. QED
  BY <1>1, <1>2, <1>3 DEF Word

\* A string or a date is read as it was written.
LEMMA StringIsRead ==
    ASSUME NEW q, NEW item \in Items, IsRead(q, item), item.t = "VALUE",
           IsString(item.v)
    PROVE  /\ q.type = "STRING"
           /\ item.v[1] = "date" =>
                q.val = <<"\\", Quote, "date", "\\", Quote>>
           /\ item.v[1] # "date" =>
                /\ Encodes(q.val, item.v[2])
                /\ UnescapeString(q.val) = item.v[2]
<1>1. PICK v \in Values : v = item.v
  BY DEF Items
<1>2. q.type = "STRING" /\ q.val = Raw(v)
  BY <1>1 DEF IsRead, ReadsValue
<1>3. v[1] = "date" => q.val = <<"\\", Quote, "date", "\\", Quote>>
  BY <1>2 DEF Raw
<1>4. v[1] # "date" => Encodes(q.val, v[2])
  BY <1>1, <1>2, WordShape
<1>5. v[1] # "date" => UnescapeString(q.val) = v[2]
  BY <1>4, UnescapeIs
<1>6. QED
  BY <1>1, <1>2, <1>3, <1>4, <1>5

\* A whole number is none of the words.
LEMMA WholeIs ==
    ASSUME NEW w \in Whole
    PROVE  w \notin {"true", "false", "null", "nan", "inf", "5.5"}
  BY DEF Whole

\* Every value arrives.
LEMMA ValueArrives ==
    ASSUME NEW q, NEW item \in Items, IsRead(q, item), item.t = "VALUE"
    PROVE  ExtractValue(q, item.v[1]) = <<Arrived(item.v)>>
<1>1. PICK v \in Values : v = item.v
  BY DEF Items
<1>2. CASE v[1] \in {"cstr", "str"}
  <2>1. q.type = "STRING" /\ UnescapeString(q.val) = v[2]
    BY <1>1, <1>2, StringIsRead DEF IsString
  <2>2. ExtractValue(q, v[1]) = <<UnescapeString(q.val)>>
    BY <2>1, <1>2 DEF ExtractValue
  <2>3. Arrived(v) = v[2]
    BY <1>2 DEF Arrived
  <2>4. QED
    BY <2>1, <2>2, <2>3, <1>1, Zenon
<1>3. CASE v[1] = "date"
  <2>1. q.type = "STRING" /\ q.val = <<"\\", Quote, "date", "\\", Quote>>
    BY <1>1, <1>3, StringIsRead DEF IsString
  <2>2. ScanDate(q) = <<"date">>
    <3>1. PICK x \in Lexemes, y \in Lexemes, z \in Lexemes :
            x = "\\" /\ y = Quote /\ z = "date"
      BY DEF Lexemes
    <3>2. /\ Len(<<x, y, z, x, y>>) = 5 /\ <<x, y, z, x, y>>[3] = z
          /\ SubSeq(<<x, y, z, x, y>>, 1, 2) = <<x, y>>
      <4>1. /\ <<x, y, z, x, y>> \in Seq(Lexemes) /\ <<x, y>> \in Seq(Lexemes)
            /\ Len(<<x, y, z, x, y>>) = 5 /\ Len(<<x, y>>) = 2
        OBVIOUS
      <4>2. PICK a : a = <<x, y, z, x, y>>
        OBVIOUS
      <4>3. a \in Seq(Lexemes) /\ Len(a) = 5 /\ a[1] = x /\ a[2] = y /\ a[3] = z
        BY <4>2
      <4>4. PICK b : b = SubSeq(a, 1, 2)
        OBVIOUS
      <4>5. b \in Seq(Lexemes) /\ Len(b) = 2 /\ b[1] = x /\ b[2] = y
        BY <4>3, <4>4
      <4>6. b = <<x, y>>
        BY <4>5
      <4>7. QED
        BY <4>2, <4>3, <4>4, <4>6
    <3>3. q.val = <<x, y, z, x, y>> /\ <<"\\", Quote>> = <<x, y>>
      BY <2>1, <3>1
    <3>4. Len(q.val) > 2
      BY <3>2, <3>3
    <3>5. SubSeq(q.val, 1, 2) = <<"\\", Quote>> /\ q.val[3] = "date"
      BY <3>1, <3>2, <3>3, Zenon
    <3>6. QED
      BY <3>4, <3>5, Zenon DEF ScanDate
  <2>3. ExtractValue(q, v[1]) = ScanDate(q)
    BY <2>1, <1>3 DEF ExtractValue
  <2>4. v[2] = "date"
    BY <1>3 DEF Values
  <2>5. Arrived(v) = v[2]
    BY <1>3 DEF Arrived
  <2>6. QED
    BY <2>2, <2>3, <2>4, <2>5, <1>1, Zenon
<1>4. CASE v[1] \in {"bool", "int", "double"}
  <2>1. ~IsString(v)
    BY <1>4 DEF IsString
  <2>2. PICK w : w = IF v[1] = "double" /\ v[2] \in {"nan", "inf"}
                     THEN "null" ELSE v[2]
    OBVIOUS
  <2>3. q.type = "NUMERIC" /\ q.val = <<w>> /\ Head(q.val) = w
    <3>1. q.type = "NUMERIC" /\ q.val = <<w>>
      BY <2>1, <2>2, <1>1, WordIsRead
    <3>2. Head(<<w>>) = w
      OBVIOUS
    <3>3. QED
      BY <3>1, <3>2
  <2>4. CASE v[1] = "bool"
    <3>1. v[2] \in {"true", "false"} /\ w = v[2]
      BY <2>2, <2>4 DEF Values
    <3>2. ExtractValue(q, v[1]) = GetValueBool(q)
      BY <2>3, <2>4 DEF ExtractValue
    <3>3. GetValueBool(q) = <<w>>
      BY <2>3, <3>1 DEF GetValueBool
    <3>4. Arrived(v) = v[2]
      BY <2>4 DEF Arrived
    <3>5. QED
      BY <3>1, <3>2, <3>3, <3>4, <1>1, Zenon
  <2>5. CASE v[1] = "int"
    <3>1. v[2] \in Whole /\ w = v[2]
      BY <2>2, <2>5 DEF Values
    <3>2. ExtractValue(q, v[1]) = GetValueInt(q)
      BY <2>3, <2>5 DEF ExtractValue
    <3>3. GetValueInt(q) = <<w>>
      <4>1. w \notin {"true", "false", "null", "5.5"}
        BY <3>1, WholeIs
      <4>2. QED
        BY <2>3, <4>1 DEF GetValueInt
    <3>4. Arrived(v) = v[2]
      BY <2>5 DEF Arrived
    <3>5. QED
      BY <3>1, <3>2, <3>3, <3>4, <1>1, Zenon
  <2>6. CASE v[1] = "double"
    <3>1. v[2] \in Whole \cup {"5.5", "nan", "inf"}
      BY <2>6 DEF Values
    <3>2. ExtractValue(q, v[1]) = GetValueDouble(q)
      BY <2>3, <2>6 DEF ExtractValue
    <3>3. CASE v[2] \in {"nan", "inf"}
      <4>1. w = "null" /\ Arrived(v) = "nan"
        BY <2>2, <2>6, <3>3 DEF Arrived
      <4>2. GetValueDouble(q) = <<"nan">>
        BY <2>3, <4>1 DEF GetValueDouble
      <4>3. QED
        BY <3>2, <4>1, <4>2, <1>1, Zenon
    <3>4. CASE v[2] \notin {"nan", "inf"}
      <4>1. w = v[2] /\ Arrived(v) = v[2]
        BY <2>2, <3>4 DEF Arrived
      <4>2. w \notin {"true", "false", "null"}
        BY <3>1, <3>4, <4>1, WholeIs
      <4>3. GetValueDouble(q) = <<w>>
        BY <2>3, <4>2 DEF GetValueDouble
      <4>4. QED
        BY <3>2, <4>1, <4>3, <1>1, Zenon
    <3>5. QED
      BY <3>3, <3>4
  <2>7. QED
    BY <2>4, <2>5, <2>6, <1>4
<1>5. v[1] \in {"cstr", "str", "date", "bool", "int", "double"}
  BY DEF Values
<1>6. QED
  BY <1>2, <1>3, <1>4, <1>5

\* No other string is taken for a date.
LEMMA NoDate ==
    ASSUME NEW raw, NEW s \in Strings, Encodes(raw, s)
    PROVE  /\ raw \in Seq(Lexemes)
           /\ \A i \in 1..Len(raw) : raw[i] # "date"
<1>1. raw \in Seq(Lexemes) /\ s \in Seq(Lexemes)
  BY DEF Encodes
<1>2. PICK cut : IsCut(raw, s, cut)
  BY DEF Encodes
<1>3. PICK n \in Nat : n = Len(s)
  BY <1>1
<1>4. /\ cut \in [0..n -> Nat] /\ cut[0] = 0 /\ cut[n] = Len(raw)
      /\ \A k \in 1..n :
           \/ /\ cut[k] = cut[k - 1] + 1 /\ raw[cut[k]] = s[k]
           \/ /\ cut[k] = cut[k - 1] + 2 /\ raw[cut[k - 1] + 1] = "\\"
              /\ EscapedChar(raw[cut[k]]) = s[k]
  BY <1>2, <1>3 DEF IsCut
<1>5. \A k \in 1..n : s[k] # "date"
  <2>1. s \in Seq(Words \ {"eos", "date"})
    BY DEF Strings
  <2>2. \A k \in 1..n : s[k] \in Words \ {"eos", "date"}
    BY <2>1, <1>3
  <2>3. QED
    BY <2>2
<1>6. ASSUME NEW i \in 1..Len(raw) PROVE raw[i] # "date"
  <2> DEFINE T == {k \in 0..n : cut[k] >= i}
  <2>1. T \subseteq Nat /\ n \in T
    BY <1>1, <1>4
  <2>2. PICK k \in T : \A y \in T : k <= y
    <3> HIDE DEF T
    <3>1. QED
      BY <2>1, Least
  <2>3. k \in 0..n /\ cut[k] >= i /\ cut[k] \in Nat
    BY <1>4
  <2>4. k # 0
    BY <2>3, <1>4
  <2>5. k \in 1..n /\ k - 1 \in 0..n /\ cut[k - 1] \in Nat
    BY <2>3, <2>4, <1>4
  <2>6. ~(cut[k - 1] >= i)
    <3>1. k - 1 \notin T
      BY <2>2, <2>5
    <3>2. QED
      BY <3>1, <2>5
  <2> HIDE DEF T
  <2>7. CASE cut[k] = cut[k - 1] + 1 /\ raw[cut[k]] = s[k]
    <3>1. i = cut[k]
      BY <2>3, <2>5, <2>6, <2>7
    <3>2. QED
      BY <3>1, <2>5, <2>7, <1>5
  <2>8. CASE /\ cut[k] = cut[k - 1] + 2 /\ raw[cut[k - 1] + 1] = "\\"
             /\ EscapedChar(raw[cut[k]]) = s[k]
    <3>1. i = cut[k] \/ i = cut[k - 1] + 1
      BY <2>3, <2>5, <2>6, <2>8
    <3>2. CASE i = cut[k]
      <4>1. EscapedChar("date") = "date"
        BY DEF EscapedChar
      <4>2. s[k] # "date"
        BY <2>5, <1>5
      <4>3. QED
        BY <3>2, <4>1, <4>2, <2>8
    <3>3. CASE i = cut[k - 1] + 1
      <4>1. raw[i] = "\\"
        BY <3>3, <2>8
      <4>2. QED
        BY <4>1
    <3>4. QED
      BY <3>1, <3>2, <3>3
  <2>9. QED
    BY <2>5, <2>7, <2>8, <1>4
<1>7. QED
  BY <1>1, <1>6

\* The first of two.
LEMMA HeadOfTwo ==
    ASSUME NEW x, NEW y PROVE Head(<<x>> \o <<y>>) = x
<1>1. PICK S : S = {x, y}
  OBVIOUS
<1>2. PICK a, b : a = <<x>> /\ b = <<y>>
  OBVIOUS
<1>3. a \in Seq(S) /\ b \in Seq(S) /\ Len(a) = 1 /\ Len(b) = 1 /\ a[1] = x
  BY <1>1, <1>2
<1>4. PICK c : c = a \o b
  OBVIOUS
<1>5. c \in Seq(S) /\ Len(c) = 2 /\ c[1] = x
  <2>1. /\ a \o b \in Seq(S) /\ Len(a \o b) = Len(a) + Len(b)
        /\ \A i \in 1..(Len(a) + Len(b)) :
             (a \o b)[i] = IF i <= Len(a) THEN a[i] ELSE b[i - Len(a)]
    BY <1>3, ConcatProperties
  <2>2. 1 \in 1..(Len(a) + Len(b)) /\ 1 <= Len(a)
    BY <1>3
  <2>3. (a \o b)[1] = a[1] /\ Len(a) + Len(b) = 2
    BY <2>1, <2>2, <1>3
  <2>4. QED
    BY <2>1, <2>3, <1>3, <1>4
<1>6. Head(c) = c[1]
  BY <1>5
<1>7. QED
  BY <1>2, <1>4, <1>5, <1>6

\* On Windows a value is told by its text.
LEMMA VariantIsTold ==
    ASSUME NEW q, NEW item \in Items, IsRead(q, item), item.t = "VALUE"
    PROVE  Head(ExtractVariant(q)) = VariantType(item.v)
<1>1. PICK v \in Values : v = item.v
  BY DEF Items
<1>2. \A x, y : Head(<<x, y>>) = x /\ Head(<<x>>) = x
  OBVIOUS
<1>3. \A x, y : Head(<<x>> \o <<y>>) = x
  BY HeadOfTwo
<1>4. CASE v[1] \in {"cstr", "str"}
  <2>1. q.type = "STRING" /\ Encodes(q.val, v[2])
    BY <1>1, <1>4, StringIsRead DEF IsString
  <2>2. v[2] \in Strings
    BY <1>4 DEF Values
  <2>3. PICK raw \in Seq(Lexemes) : raw = q.val
    BY <2>1, <2>2, NoDate
  <2>4. Len(raw) > 2 => raw[3] # "date"
    <3>1. Len(raw) > 2 => 3 \in 1..Len(raw)
      OBVIOUS
    <3>2. \A i \in 1..Len(raw) : raw[i] # "date"
      BY <2>1, <2>2, <2>3, NoDate
    <3>3. QED
      BY <3>1, <3>2
  <2>5. ScanDate(q) = <<>>
    BY <2>3, <2>4 DEF ScanDate
  <2>6. ExtractVariant(q) = <<"str", UnescapeString(q.val)>>
    BY <2>1, <2>5 DEF ExtractVariant
  <2>7. VariantType(v) = "str"
    BY <1>4 DEF VariantType
  <2>8. QED
    BY <2>6, <2>7, <1>1, <1>2, ZenonT(30)
<1>5. CASE v[1] = "date"
  <2>1. q.type = "STRING"
    BY <1>1, <1>5, StringIsRead DEF IsString
  <2>2. ExtractValue(q, "date") = <<Arrived(v)>>
    BY <1>1, <1>5, ValueArrives
  <2>3. ExtractValue(q, "date") = ScanDate(q)
    BY <2>1 DEF ExtractValue
  <2>4. Arrived(v) = "date"
    BY <1>5 DEF Arrived, Values
  <2>5. ScanDate(q) = <<"date">>
    BY <2>2, <2>3, <2>4, Zenon
  <2>6. <<"date">> # <<>>
    OBVIOUS
  <2>7. ExtractVariant(q) = <<"date">> \o ScanDate(q)
    <3>1. ScanDate(q) # <<>> /\ q.type # "NUMERIC"
      BY <2>1, <2>5, <2>6
    <3>2. QED
      BY <3>1, <2>1, Zenon DEF ExtractVariant
  <2>8. Head(ExtractVariant(q)) = "date"
    BY <2>5, <2>7, <1>3, Zenon
  <2>9. VariantType(v) = "date"
    BY <1>5 DEF VariantType
  <2>10. QED
    BY <2>8, <2>9, <1>1
<1>6. CASE v[1] \in {"bool", "int", "double"}
  <2>1. ~IsString(v)
    BY <1>6 DEF IsString
  <2>2. PICK w : w = IF v[1] = "double" /\ v[2] \in {"nan", "inf"}
                     THEN "null" ELSE v[2]
    OBVIOUS
  <2>3. q.type = "NUMERIC" /\ q.val = <<w>>
    BY <2>1, <2>2, <1>1, WordIsRead
  <2>4. Head(q.val) = w
    BY <2>3, <1>2
  <2>5. CASE v[1] = "bool"
    <3>1. w \in {"true", "false"}
      BY <2>2, <2>5 DEF Values
    <3>2. ExtractVariant(q) = <<"bool">> \o <<w>>
      BY <2>3, <2>4, <3>1 DEF ExtractVariant
    <3>3. VariantType(v) = "bool"
      BY <2>5 DEF VariantType
    <3>4. QED
      BY <3>2, <3>3, <1>1, <1>3, Zenon
  <2>6. CASE w \in Whole
    <3>1. w \notin {"true", "false", "null", "5.5", "nan", "inf"}
      BY <2>6, WholeIs
    <3>2. GetValueInt(q) = <<w>>
      BY <2>3, <2>4, <3>1 DEF GetValueInt
    <3>3. ExtractVariant(q) = <<"int">> \o <<w>>
      BY <2>3, <2>4, <3>1, <3>2 DEF ExtractVariant
    <3>4. VariantType(v) = "int"
      <4>1. v[1] # "bool"
        BY <2>2, <3>1 DEF Values
      <4>2. v[1] = "double" => v[2] = w /\ v[2] \notin {"nan", "inf"}
        BY <2>2, <3>1
      <4>3. v[1] \in {"int", "double"}
        BY <4>1, <1>6
      <4>4. QED
        BY <4>2, <4>3, <2>6 DEF VariantType
    <3>5. QED
      BY <3>3, <3>4, <1>1, <1>3, Zenon
  <2>7. CASE v[1] = "double" /\ w \notin Whole
    <3>1. v[2] \in Whole \cup {"5.5", "nan", "inf"}
      BY <2>7 DEF Values
    <3>2. CASE v[2] \in {"nan", "inf"}
      <4>1. w = "null"
        BY <2>2, <2>7, <3>2
      <4>2. ExtractVariant(q) = <<"empty", "null">>
        BY <2>3, <2>4, <4>1 DEF ExtractVariant
      <4>3. VariantType(v) = "empty"
        <5>1. v[2] \notin Whole
          BY <3>2, WholeIs
        <5>2. QED
          BY <5>1, <2>7, <3>2 DEF VariantType
      <4>4. QED
        BY <4>2, <4>3, <1>1, <1>2, ZenonT(30)
    <3>3. CASE v[2] \notin {"nan", "inf"}
      <4>1. w = "5.5" /\ v[2] = "5.5"
        BY <2>2, <2>7, <3>1, <3>3
      <4>2. GetValueDouble(q) = <<w>>
        BY <2>3, <2>4, <4>1 DEF GetValueDouble
      <4>3. ExtractVariant(q) = <<"double">> \o <<w>>
        BY <2>3, <2>4, <4>1, <4>2 DEF ExtractVariant
      <4>4. VariantType(v) = "double"
        BY <2>7, <3>3, <4>1 DEF VariantType
      <4>5. QED
        BY <4>3, <4>4, <1>1, <1>3, Zenon
    <3>4. QED
      BY <3>2, <3>3
  <2>8. v[1] = "int" => w \in Whole
    BY <2>2 DEF Values
  <2>9. QED
    BY <2>5, <2>6, <2>7, <2>8, <1>6
<1>7. v[1] \in {"cstr", "str", "date", "bool", "int", "double"}
  BY DEF Values
<1>8. QED
  BY <1>4, <1>5, <1>6, <1>7

-----------------------------------------------------------------------------
(* What the client makes of an item, and what the operators on the parser   *)
(* say of it.                                                               *)

\* What ExtractValue gives for the types that meta data have.
LEMMA MetaExtracts ==
    ASSUME NEW q, NEW item \in MetaItems, IsRead(q, item), NEW t \in {"str", "double"}
    PROVE  ExtractValue(q, t) = IF item.t = "VALUE" /\ item.v[1] = t
                                THEN <<item.v[2]>> ELSE <<>>
<1>1. item \in Items /\ (item.t = "VALUE" => item.v \in MetaValues)
  BY DEF MetaItems
<1>2. CASE item.t # "VALUE"
  <2>1. q.type = item.t
    BY <1>2 DEF IsRead
  <2>2. item.t \in {"ARRAY", "OBJECT", "END"}
    BY <1>1, <1>2 DEF Items, ItemTypes
  <2>3. QED
    BY <2>1, <2>2, <1>2 DEF ExtractValue
<1>3. CASE item.t = "VALUE"
  <2>1. item.v[1] \in {"str", "double"}
    BY <1>1, <1>3 DEF MetaValues
  <2>2. CASE item.v[1] = t
    <3>1. ExtractValue(q, t) = <<Arrived(item.v)>>
      BY <1>1, <1>3, <2>2, ValueArrives
    <3>2. Arrived(item.v) = item.v[2]
      <4>1. item.v[1] = "double" => item.v[2] \in Numbers
        BY <1>1, <1>3 DEF MetaValues
      <4>2. \A c \in Numbers : c # "inf"
        BY DEF Numbers
      <4>3. QED
        BY <4>1, <4>2 DEF Arrived
    <3>3. QED
      BY <3>1, <3>2, <2>2, <1>3
  <2>3. CASE item.v[1] # t
    <3>1. q.type = IF item.v[1] = "str" THEN "STRING" ELSE "NUMERIC"
      <4>1. CASE item.v[1] = "str"
        BY <4>1, <1>1, <1>3, StringIsRead DEF IsString
      <4>2. CASE item.v[1] = "double"
        BY <4>2, <1>1, <1>3, WordIsRead DEF IsString
      <4>3. QED
        BY <4>1, <4>2, <2>1
    <3>2. ExtractValue(q, t) = <<>>
      BY <3>1, <2>1, <2>3 DEF ExtractValue
    <3>3. QED
      BY <3>2, <2>3
  <2>4. QED
    BY <2>2, <2>3
<1>4. QED
  BY <1>2, <1>3

\* An operand of the parser replaces the old value as an item does.
LEMMA OperandsAre ==
    ASSUME NEW item \in MetaItems, IsRead(parser, item), item.t # "END",
           NEW name, NEW old
    PROVE  /\ Numeric(name, old) = ItemNumeric(item, name, old)
           /\ \A t \in {"str", "double"} :
                Optional(name, t, old) = ItemOptional(item, name, t, old)
           /\ Text(name, old) = ItemText(item, name, old)
<1>1. TestForName(parser, <<name>>) = (item.name = <<name>>)
  BY NameIsTold
<1>2. \A x : <<x>> # <<>> /\ Head(<<x>>) = x
  OBVIOUS
<1>3. ASSUME NEW t \in {"str", "double"}, NEW o
      PROVE  /\ TestForName(parser, <<name>>) /\ ExtractValue(parser, t) # <<>>
                  <=> IsA(item, name, t)
             /\ IsA(item, name, t) => ExtractValue(parser, t) = <<item.v[2]>>
             /\ Optional(name, t, o) = ItemOptional(item, name, t, o)
  <2>1. ExtractValue(parser, t) = IF item.t = "VALUE" /\ item.v[1] = t
                                  THEN <<item.v[2]>> ELSE <<>>
    BY MetaExtracts
  <2>2. ExtractValue(parser, t) # <<>> <=> item.t = "VALUE" /\ item.v[1] = t
    BY <2>1, <1>2
  <2>3. /\ TestForName(parser, <<name>>) /\ ExtractValue(parser, t) # <<>>
             <=> IsA(item, name, t)
        /\ IsA(item, name, t) => ExtractValue(parser, t) = <<item.v[2]>>
    BY <2>1, <2>2, <1>1 DEF IsA
  <2>4. Optional(name, t, o) = ItemOptional(item, name, t, o)
    BY <2>3 DEF Optional, ItemOptional
  <2>5. QED
    BY <2>3, <2>4
<1>4. Numeric(name, old) = ItemNumeric(item, name, old)
  <2>1. /\ TestForName(parser, <<name>>) /\ ExtractValue(parser, "double") # <<>>
             <=> IsA(item, name, "double")
        /\ IsA(item, name, "double") =>
             ExtractValue(parser, "double") = <<item.v[2]>>
    BY <1>3
  <2>2. IsA(item, name, "double") =>
          Head(ExtractValue(parser, "double")) = item.v[2]
    BY <2>1, <1>2
  <2>3. QED
    BY <2>1, <2>2 DEF Numeric, ItemNumeric
<1>5. Text(name, old) = ItemText(item, name, old)
  <2>1. Optional(name, "str", <<old>>) = ItemOptional(item, name, "str", <<old>>)
    BY <1>3
  <2>2. ItemOptional(item, name, "str", <<old>>)
          = <<ItemText(item, name, old)>>
    BY DEF ItemOptional, ItemText
  <2>3. QED
    BY <2>1, <2>2, <1>2, Zenon DEF Text
<1>6. QED
  BY <1>3, <1>4, <1>5

\* What the client reads of a member is what the item says.
LEMMA ScalarsAre ==
    ASSUME NEW item \in MetaItems, IsRead(parser, item), item.t # "END", NEW m
    PROVE  /\ ExtractScalars(m) = ItemScalars(item, m)
           /\ ExtractEntity(m) = ItemEntity(item, m)
<1>1. ASSUME NEW name, NEW old
      PROVE  /\ Numeric(name, old) = ItemNumeric(item, name, old)
             /\ Optional(name, "str", old) = ItemOptional(item, name, "str", old)
             /\ Optional(name, "double", old)
                  = ItemOptional(item, name, "double", old)
             /\ Text(name, old) = ItemText(item, name, old)
  BY OperandsAre
<1>2. PICK n, d, lo, hi, f, o, fb :
        /\ n = ItemText(item, "Name", m.name)
        /\ d = ItemText(item, "DispName", m.disp)
        /\ lo = ItemNumeric(item, "RangeMin", m.min)
        /\ hi = ItemNumeric(item, "RangeMax", m.max)
        /\ f = ItemNumeric(item, "Factor", m.factor)
        /\ o = ItemNumeric(item, "Offset", m.offset)
        /\ fb = ItemOptional(item, "TextFallback", "str", m.fallback)
  OBVIOUS
<1>3. /\ n = Text("Name", m.name) /\ d = Text("DispName", m.disp)
      /\ lo = Numeric("RangeMin", m.min) /\ hi = Numeric("RangeMax", m.max)
      /\ f = Numeric("Factor", m.factor) /\ o = Numeric("Offset", m.offset)
      /\ fb = Optional("TextFallback", "str", m.fallback)
  BY <1>1, <1>2, Zenon
<1>4. PICK r : r = [m EXCEPT !.name = n, !.disp = d, !.min = lo, !.max = hi,
                             !.factor = f, !.offset = o, !.fallback = fb]
  OBVIOUS
<1>5. ItemScalars(item, m) = r
  BY <1>2, <1>4, Zenon DEF ItemScalars
<1>6. ExtractScalars(m) = r
  BY <1>3, <1>4, Zenon DEF ExtractScalars
<1>7. PICK v, t : /\ v = ItemOptional(item, "Value", "double", m.entity.value)
                  /\ t = ItemOptional(item, "Text", "str", m.entity.text)
  OBVIOUS
<1>8. /\ v = Optional("Value", "double", m.entity.value)
      /\ t = Optional("Text", "str", m.entity.text)
  BY <1>1, <1>7, Zenon
<1>9. ExtractEntity(m) = ItemEntity(item, m)
  <2>1. PICK e : e = [m EXCEPT !.entity.value = v, !.entity.text = t]
    OBVIOUS
  <2>2. ItemEntity(item, m) = e
    BY <2>1, <1>7 DEF ItemEntity
  <2>3. ExtractEntity(m) = e
    BY <2>1, <1>8 DEF ExtractEntity
  <2>4. QED
    BY <2>2, <2>3
<1>10. QED
  BY <1>5, <1>6, <1>9

-----------------------------------------------------------------------------
(* The client reads the answer. *)

\* Where the client is in the answer, and where its next turn leads it.
LEMMA ClientTurns ==
    ASSUME NEW at, NEW nest, IsParsing(at, nest), NEW run, IsDecoding(run)
    PROVE  /\ passed # Len(json.items) =>
                /\ json.items[passed] \in MetaItems
                /\ InLoop(loop, got, json.items[passed],
                          run[passed][1], run[passed][2])
           /\ passed = Len(json.items) => loop = "answer" /\ got = AnswerOf(metas)
           /\ loop \in Loops
<1>1. PICK n \in Nat : n = Len(json.items) - 1
  BY DEF IsDecoding, AnswerRun
<1>2. json.items \in Seq(Items)
  BY ParserLevels
<1>3. Len(json.items) = n + 1 /\ passed \in 1..(n + 1)
  BY <1>1, <1>2 DEF IsParsing
<1>4. /\ IsRun(json.items, run, n) /\ run[n] = <<"answer", AnswerOf(metas)>>
      /\ loop = run[passed - 1][1] /\ got = run[passed - 1][2]
  BY <1>1, SMTT(30) DEF IsDecoding, AnswerRun
<1>5. CASE passed # n + 1
  <2>1. passed \in 1..n
    BY <1>3, <1>5
  <2>2. Decodes(run[passed - 1], json.items[passed], run[passed])
    BY <2>1, <1>4 DEF IsRun
  <2>3. /\ json.items[passed] \in MetaItems
        /\ InLoop(loop, got, json.items[passed], run[passed][1], run[passed][2])
    BY <2>2, <1>4 DEF Decodes
  <2>4. loop \in Loops
    BY <2>3, LoopsNest
  <2>5. QED
    BY <2>3, <2>4, <1>3, <1>5, SMTT(30)
<1>6. CASE passed = n + 1
  <2>1. passed - 1 = n
    BY <1>6
  <2>2. loop = run[n][1] /\ got = run[n][2]
    BY <2>1, <1>4
  <2>3. loop = "answer" /\ got = AnswerOf(metas)
    BY <2>2, <1>4
  <2>4. QED
    BY <2>3, <1>3, <1>6 DEF Loops
<1>7. QED
  BY <1>5, <1>6

\* How an item looks to the client.
LEMMA ItemSeen ==
    ASSUME NEW item \in MetaItems, IsRead(parser, item), Level(parser) # 0
    PROVE  /\ IsDone(parser) <=> item.t = "END"
           /\ item.t # "END" => \A name :
                TestArray(parser, <<name>>)
                  <=> item.t = "ARRAY" /\ item.name = <<name>>
<1>1. item \in Items /\ item.t \in {"ARRAY", "OBJECT", "VALUE", "END"}
  BY DEF MetaItems, Items, ItemTypes
<1>2. item.t # "VALUE" => parser.type = item.t
  BY DEF IsRead
<1>3. item.t = "VALUE" => parser.type \in {"STRING", "NUMERIC"}
  BY <1>1, WordIsRead, StringIsRead
<1>4. IsDone(parser) <=> item.t = "END"
  BY <1>1, <1>2, <1>3 DEF IsDone
<1>5. ASSUME item.t # "END", NEW name
      PROVE  TestArray(parser, <<name>>)
               <=> item.t = "ARRAY" /\ item.name = <<name>>
  <2>1. TestForName(parser, <<name>>) = (item.name = <<name>>)
    BY <1>5, NameIsTold
  <2>2. parser.type = "ARRAY" <=> item.t = "ARRAY"
    BY <1>1, <1>2, <1>3
  <2>3. QED
    BY <2>1, <2>2 DEF TestArray
<1>6. QED
  BY <1>4, <1>5

\* Each loop does with an item what InLoop says.
LEMMA ListTurn ==
    ASSUME NEW item \in MetaItems, IsRead(parser, item), Level(parser) # 0,
           NEW k, NEW h, InLoop(loop, got, item, k, h), GetVarOrMailboxMeta
    PROVE  loop' = k /\ got' = h
<1>1. IsDone(parser) <=> item.t = "END"
  BY ItemSeen
<1>2. CASE loop = "answer"
  <2>1. item.t = "ARRAY" /\ item.name = <<"Metadata">> /\ k = "list" /\ h = got
    BY <1>2 DEF InLoop
  <2>2. TestArray(parser, <<"Metadata">>)
    <3>1. item.t # "END"
      BY <2>1
    <3>2. TestArray(parser, <<"Metadata">>)
            <=> item.t = "ARRAY" /\ item.name = <<"Metadata">>
      BY <3>1, ItemSeen
    <3>3. QED
      BY <2>1, <3>2
  <2>3. /\ loop' = IF TestArray(parser, <<"Metadata">>) THEN "list" ELSE "answer"
        /\ got' = got
    BY <1>2 DEF GetVarOrMailboxMeta, Advance
  <2>4. QED
    BY <2>1, <2>2, <2>3
<1>3. CASE loop = "list"
  <2>1. \/ item.t = "OBJECT" /\ k = "meta" /\ h = Append(got, NewMeta)
        \/ item.t = "END" /\ k = "answer" /\ h = got
    BY <1>3 DEF InLoop
  <2>2. /\ loop' = IF IsDone(parser) THEN "answer" ELSE "meta"
        /\ got' = IF IsDone(parser) THEN got ELSE Append(got, NewMeta)
    BY <1>3 DEF GetVarOrMailboxMeta, Advance
  <2>3. QED
    BY <2>1, <2>2, <1>1
<1>4. QED
  BY <1>2, <1>3 DEF GetVarOrMailboxMeta

\* The same for the loop over the members of a variable,
LEMMA MetaTurn ==
    ASSUME NEW item \in MetaItems, IsRead(parser, item), Level(parser) # 0,
           NEW k, NEW h, InLoop(loop, got, item, k, h), ExtractFromJson
    PROVE  loop' = k /\ got' = h
<1>1. loop = "meta" /\ (IsDone(parser) <=> item.t = "END")
  BY ItemSeen DEF ExtractFromJson
<1>2. CASE item.t = "END"
  <2>1. k = "list" /\ h = [got EXCEPT ![Len(got)] = CompleteMeta(@)]
    BY <1>1, <1>2 DEF InLoop
  <2>2. loop' = "list" /\ got' = [got EXCEPT ![Len(got)] = CompleteMeta(@)]
    BY <1>1, <1>2 DEF ExtractFromJson, Advance
  <2>3. QED
    BY <2>1, <2>2
<1>3. CASE item.t # "END"
  <2>1. /\ h = [got EXCEPT ![Len(got)] = ItemScalars(item, @)]
        /\ \/ item.t = "VALUE" /\ k = "meta"
           \/ item.t = "ARRAY" /\ item.name = <<"Thresholds">> /\ k = "thresholds"
           \/ item.t = "ARRAY" /\ item.name = <<"Text">> /\ k = "table"
    BY <1>1, <1>3, Zenon DEF InLoop
  <2>2. /\ loop' = CASE TestArray(parser, <<"Thresholds">>) -> "thresholds"
                     [] TestArray(parser, <<"Text">>) -> "table"
                     [] OTHER -> "meta"
        /\ got' = [got EXCEPT ![Len(got)] = ExtractScalars(@)]
    BY <1>1, <1>3 DEF ExtractFromJson, Advance
  <2>3. got' = h
    <3>1. ExtractScalars(got[Len(got)]) = ItemScalars(item, got[Len(got)])
      BY <1>3, ScalarsAre
    <3>2. QED
      BY <2>1, <2>2, <3>1
  <2>4. PICK a, b : a = <<"Thresholds">> /\ b = <<"Text">>
    OBVIOUS
  <2>5. a # b
    BY <2>4
  <2>6. /\ TestArray(parser, a) <=> item.t = "ARRAY" /\ item.name = a
        /\ TestArray(parser, b) <=> item.t = "ARRAY" /\ item.name = b
    BY <2>4, <1>3, ItemSeen
  <2>7. loop' = k
    <3>1. loop' = CASE TestArray(parser, a) -> "thresholds"
                    [] TestArray(parser, b) -> "table"
                    [] OTHER -> "meta"
      BY <2>2, <2>4, Zenon
    <3>2. \/ item.t = "VALUE" /\ k = "meta"
          \/ item.t = "ARRAY" /\ item.name = a /\ k = "thresholds"
          \/ item.t = "ARRAY" /\ item.name = b /\ k = "table"
      BY <2>1, <2>4, Zenon
    <3>3. QED
      BY <2>5, <2>6, <3>1, <3>2
  <2>8. QED
    BY <2>3, <2>7
<1>4. QED
  BY <1>2, <1>3

\* over the thresholds,
LEMMA ThresholdTurn ==
    ASSUME NEW item \in MetaItems, IsRead(parser, item), Level(parser) # 0,
           NEW k, NEW h, InLoop(loop, got, item, k, h), ExtractThresholds
    PROVE  loop' = k /\ got' = h
<1>1. loop = "thresholds" /\ (IsDone(parser) <=> item.t = "END")
  BY ItemSeen DEF ExtractThresholds
<1>2. /\ loop' = IF IsDone(parser) THEN "meta" ELSE "thresholds"
      /\ got' = [got EXCEPT ![Len(got)].thresholds =
                   IF ~IsDone(parser)
                   THEN Append(@, Number[Head(ExtractValue(parser, "double"))])
                   ELSE IF Rising(@) THEN @ ELSE <<>>]
  BY DEF ExtractThresholds, Advance
<1>3. CASE item.t = "END"
  <2>1. /\ k = "meta"
        /\ h = [got EXCEPT ![Len(got)].thresholds =
                  IF Rising(@) THEN @ ELSE <<>>]
    BY <1>1, <1>3 DEF InLoop
  <2>2. QED
    BY <2>1, <1>1, <1>2, <1>3
<1>4. CASE item.t # "END"
  <2>1. /\ k = "thresholds" /\ item.t = "VALUE" /\ item.v[1] = "double"
        /\ h = [got EXCEPT ![Len(got)].thresholds =
                  Append(@, Number[item.v[2]])]
    BY <1>1, <1>4 DEF InLoop
  <2>2. Head(ExtractValue(parser, "double")) = item.v[2]
    <3>1. ExtractValue(parser, "double") = <<item.v[2]>>
      BY <2>1, MetaExtracts
    <3>2. Head(<<item.v[2]>>) = item.v[2]
      OBVIOUS
    <3>3. QED
      BY <3>1, <3>2
  <2>3. QED
    BY <2>1, <2>2, <1>1, <1>2, <1>4
<1>5. QED
  BY <1>3, <1>4

\* and over the table and the members of its entities.
LEMMA TableTurn ==
    ASSUME NEW item \in MetaItems, IsRead(parser, item), Level(parser) # 0,
           NEW k, NEW h, InLoop(loop, got, item, k, h), ExtractTable
    PROVE  loop' = k /\ got' = h
<1>1. IsDone(parser) <=> item.t = "END"
  BY ItemSeen
<1>2. CASE loop = "table"
  <2>1. /\ h = [got EXCEPT ![Len(got)].entity = NewMeta.entity]
        /\ \/ item.t = "OBJECT" /\ k = "entity"
           \/ item.t = "END" /\ k = "meta"
    BY <1>2 DEF InLoop
  <2>2. /\ loop' = IF IsDone(parser) THEN "meta" ELSE "entity"
        /\ got' = [got EXCEPT ![Len(got)].entity = NewMeta.entity]
    BY <1>2 DEF ExtractTable, Advance
  <2>3. QED
    BY <2>1, <2>2, <1>1
<1>3. CASE loop = "entity"
  <2>1. \/ /\ item.t = "VALUE" /\ k = "entity"
           /\ h = [got EXCEPT ![Len(got)] = ItemEntity(item, @)]
        \/ /\ item.t = "END" /\ k = "table"
           /\ h = [got EXCEPT ![Len(got)] = AddEntity(@)]
    BY <1>3 DEF InLoop
  <2>2. /\ loop' = IF IsDone(parser) THEN "table" ELSE "entity"
        /\ got' = [got EXCEPT ![Len(got)] = IF IsDone(parser) THEN AddEntity(@)
                                            ELSE ExtractEntity(@)]
    BY <1>3 DEF ExtractTable, Advance
  <2>3. item.t # "END" => ExtractEntity(got[Len(got)])
                            = ItemEntity(item, got[Len(got)])
    BY ScalarsAre
  <2>4. CASE item.t = "END"
    BY <2>1, <2>2, <2>4, <1>1
  <2>5. CASE item.t # "END"
    BY <2>1, <2>2, <2>3, <2>5, <1>1
  <2>6. QED
    BY <2>4, <2>5
<1>4. QED
  BY <1>2, <1>3 DEF ExtractTable

\* Each turn of the client is the one that the items before it led to.
LEMMA ClientStep ==
    ASSUME TextIInv, parser # NoParser, metas # <<>>,
           \/ GetVarOrMailboxMeta \/ ExtractFromJson
           \/ ExtractThresholds \/ ExtractTable
    PROVE  TextIInv'
<1>1. /\ parser' = Iterate(parser) /\ passed' = passed + 1 /\ json' = json
      /\ metas' = metas /\ text' = text /\ skip' = skip
  <2>1. CASE GetVarOrMailboxMeta
    BY <2>1 DEF GetVarOrMailboxMeta, Advance
  <2>2. CASE ExtractFromJson
    BY <2>2 DEF ExtractFromJson, Advance
  <2>3. CASE ExtractThresholds
    BY <2>3 DEF ExtractThresholds, Advance
  <2>4. CASE ExtractTable
    BY <2>4 DEF ExtractTable, Advance
  <2>5. QED
    BY <2>1, <2>2, <2>3, <2>4
<1>2. metas \in Seq(Metas) /\ text # <<>> /\ IsFinished /\ IsReading
  BY DEF TextIInv, IsReading
<1>3. PICK at, nest : IsParsing(at, nest)
  BY <1>2 DEF IsReading
<1>4. PICK run : IsDecoding(run)
  BY <1>2 DEF IsReading
<1>5. Level(parser) = 0 <=> passed = Len(json.items)
  BY <1>3, ParserLevels
<1>6. passed = Len(json.items) => loop = "answer"
  BY <1>3, <1>4, ClientTurns
<1>7. passed # Len(json.items)
  <2> SUFFICES ASSUME passed = Len(json.items) PROVE FALSE
    OBVIOUS
  <2>1. loop = "answer" /\ IsDone(parser)
    BY <1>5, <1>6 DEF IsDone
  <2>2. QED
    BY <2>1 DEF GetVarOrMailboxMeta, ExtractFromJson, ExtractThresholds,
                ExtractTable
<1>8. PICK item : item = json.items[passed]
  OBVIOUS
<1>9. PICK k, h : k = run[passed][1] /\ h = run[passed][2]
  OBVIOUS
<1>10. item \in MetaItems /\ InLoop(loop, got, item, k, h)
  BY <1>3, <1>4, <1>7, <1>8, <1>9, ClientTurns
<1>11. IsRead(parser, item) /\ Level(parser) # 0
  BY <1>3, <1>5, <1>7, <1>8 DEF IsParsing
<1>12. loop' = k /\ got' = h
  BY <1>10, <1>11, ListTurn, MetaTurn, ThresholdTurn, TableTurn
<1>13. IsParsing(at, nest)' /\ parser' # NoParser
  BY <1>1, <1>3, <1>7, ParserAdvances
<1>14. IsDecoding(run)'
  <2>1. AnswerRun(run)'
    BY <1>1, <1>4 DEF IsDecoding, AnswerRun
  <2>2. passed' - 1 = passed
    <3>1. passed \in Int
      <4>1. json.items \in Seq(Items) /\ passed \in 1..Len(json.items)
        BY <1>3 DEF IsParsing
      <4>2. QED
        BY <4>1
    <3>2. QED
      BY <3>1, <1>1
  <2>3. loop' = run[passed' - 1][1] /\ got' = run[passed' - 1][2]
    BY <2>2, <1>9, <1>12
  <2>4. QED
    BY <2>1, <2>3 DEF IsDecoding
<1>15. IsFinished'
  BY <1>1, <1>2 DEF IsFinished, Depth, AnswerRun
<1>16. IsReading'
  <2>1. text' # <<>> /\ metas' # <<>> /\ skip' = 0
    BY <1>1, <1>2 DEF IsReading
  <2>2. QED
    BY <2>1, <1>13, <1>14 DEF IsReading
<1>17. QED
  BY <1>1, <1>2, <1>13, <1>15, <1>16 DEF TextIInv

\* Each step keeps the inductive invariant.
LEMMA TextIInvNext == TextIInv /\ [TextNext]_textVars => TextIInv'
<1> SUFFICES ASSUME TextIInv, [TextNext]_textVars PROVE TextIInv'
  OBVIOUS
<1>1. CASE Write \/ CloseStream \/ WriteMeta
  BY <1>1, WriteStep
<1>2. CASE GetStream
  BY <1>2, GetStreamStep
<1>3. CASE CJsonParser
  BY <1>3, ParserBegins
<1>4. CASE WalkOn \/ SkipBegin \/ SkipStep
  <2>1. parser # NoParser
    <3>1. loop = "walk" \/ skip # 0
      BY <1>4 DEF WalkOn, SkipBegin, SkipStep
    <3>2. QED
      BY <3>1 DEF TextIInv, IsIdle
  <2>2. metas = <<>>
    <3> SUFFICES ASSUME metas # <<>> PROVE FALSE
      OBVIOUS
    <3>1. IsReading
      BY <2>1 DEF TextIInv
    <3>2. skip = 0 /\ loop \in Loops
      BY <3>1, ClientTurns DEF IsReading
    <3>3. loop = "walk"
      BY <3>2, <1>4 DEF WalkOn, SkipBegin, SkipStep
    <3>4. QED
      BY <3>2, <3>3 DEF Loops
  <2>3. QED
    BY <2>1, <2>2, <1>4, WalkerStep
<1>5. CASE \/ GetVarOrMailboxMeta \/ ExtractFromJson
           \/ ExtractThresholds \/ ExtractTable
  <2>1. loop # "none" /\ loop # "walk"
    <3>1. CASE GetVarOrMailboxMeta
      BY <3>1 DEF GetVarOrMailboxMeta
    <3>2. CASE ExtractFromJson
      BY <3>2 DEF ExtractFromJson
    <3>3. CASE ExtractThresholds
      BY <3>3 DEF ExtractThresholds
    <3>4. CASE ExtractTable
      BY <3>4 DEF ExtractTable
    <3>5. QED
      BY <3>1, <3>2, <3>3, <3>4, <1>5
  <2>2. parser # NoParser
    BY <2>1 DEF TextIInv, IsIdle
  <2>3. metas # <<>>
    BY <2>1, <2>2 DEF TextIInv, IsReading
  <2>4. QED
    BY <2>2, <2>3, <1>5, ClientStep
<1>6. CASE UNCHANGED textVars
  <2>1. /\ json' = json /\ text' = text /\ parser' = parser /\ skip' = skip
        /\ passed' = passed /\ metas' = metas /\ todo' = todo /\ loop' = loop
        /\ got' = got
    BY <1>6 DEF textVars
  <2>2. Depth' = Depth
    BY <2>1 DEF Depth
  <2>3. IsFinished <=> IsFinished'
    BY <2>1, <2>2 DEF IsFinished, AnswerRun
  <2>4. IsWriting <=> IsWriting'
    <3>1. \A s : AnswerSoFar(s) <=> AnswerSoFar(s)'
      BY <2>1 DEF AnswerSoFar
    <3>2. QED
      BY <2>1, <2>2, <3>1 DEF IsWriting
  <2>5. IsReading <=> IsReading'
    <3>1. \A at, nest : IsParsing(at, nest) <=> IsParsing(at, nest)'
      BY <2>1, <2>2 DEF IsParsing
    <3>2. \A run : IsDecoding(run) <=> IsDecoding(run)'
      BY <2>1 DEF IsDecoding, AnswerRun
    <3>3. Level(parser') = Level(parser)
      BY <2>1
    <3>4. QED
      BY <2>1, <3>1, <3>2, <3>3 DEF IsReading
  <2>6. IsIdle <=> IsIdle'
    BY <2>1 DEF IsIdle
  <2>7. QED
    BY <2>1, <2>3, <2>4, <2>5, <2>6 DEF TextIInv
<1>7. QED
  BY <1>1, <1>2, <1>3, <1>4, <1>5, <1>6 DEF TextNext

-----------------------------------------------------------------------------
(* What the inductive invariant says of the properties. *)

\* No item ends behind the text.
LEMMA ItemsFit ==
    ASSUME NEW d, NEW items \in Seq(Items), NEW at, NEW nest, NEW depth,
           Written(d, items, at, nest, depth), NEW k \in 1..Len(items)
    PROVE  at[k] \in Nat /\ at[k] <= Len(d) /\ Len(d) \in Nat
<1>1. PICK c \in BOOLEAN : Follows(d, items[k], c, at[k - 1], at[k],
                                   nest[k - 1], nest[k])
  BY DEF Written
<1>2. PICK p : p = WithComma(c, items[k], Last(nest[k - 1]))
  OBVIOUS
<1>3. at[k] = at[k - 1] + Len(p) /\ Stands(d, p, at[k - 1])
  BY <1>1, <1>2 DEF Follows
<1>4. at[k] <= Len(d)
  BY <1>3 DEF Stands
<1>5. at \in [0..Len(items) -> Nat] /\ d \in Seq(Lexemes)
  BY DEF Written
<1>6. k \in 0..Len(items)
  OBVIOUS
<1>7. QED
  BY <1>4, <1>5, <1>6

\* The bounds of TextTypeOK hold.
LEMMA TextIInvTypeOK == TextIInv => TextTypeOK
<1> SUFFICES ASSUME TextIInv PROVE TextTypeOK
  OBVIOUS
<1>1. MaxDepth \in Nat \ {0}
  BY JsonAssumption
<1>2. CASE parser = NoParser
  <2>1. passed = 0 /\ skip = 0
    BY <1>2 DEF TextIInv, IsIdle
  <2>2. Len(json.items) \in Nat
    <3>1. json.items \in Seq(Items)
      <4>1. CASE text = <<>>
        <5>1. PICK depth \in Nat : depth = Depth
          BY DepthIs
        <5>2. Formats(json, depth)
          BY <4>1, <5>1 DEF TextIInv, IsWriting
        <5>3. QED
          BY <5>2, FormatsLevel
      <4>2. CASE text # <<>>
        BY <4>2 DEF TextIInv, IsFinished, Texts
      <4>3. QED
        BY <4>1, <4>2
    <3>2. QED
      BY <3>1
  <2>3. Len(text) \in Nat
    <3>1. CASE text = <<>>
      BY <3>1
    <3>2. CASE text # <<>>
      <4>1. text \in Seq(Lexemes)
        BY <3>2 DEF TextIInv, IsFinished, Texts, Written
      <4>2. QED
        BY <4>1
    <3>3. QED
      BY <3>1, <3>2
  <2>4. parser.pos = 0 /\ parser.type # "UNDEFINED"
    BY <1>2 DEF NoParser
  <2>5. QED
    BY <2>1, <2>2, <2>3, <2>4, <1>1, <1>2 DEF TextTypeOK
<1>3. CASE parser # NoParser
  <2>1. IsReading
    BY <1>3 DEF TextIInv
  <2>2. PICK at, nest : IsParsing(at, nest)
    BY <2>1 DEF IsReading
  <2>3. /\ json.items \in Seq(Items) /\ Level(parser) \in 0..Depth
        /\ Written(text, json.items, at, nest, Depth)
        /\ passed \in 1..Len(json.items)
        /\ parser.pos = at[passed] + 1 /\ parser.nest = nest[passed]
        /\ parser.type # "UNDEFINED"
    BY <2>2, ParserLevels DEF IsParsing, Parsers
  <2>4. at[passed] \in Nat /\ at[passed] <= Len(text) /\ Len(text) \in Nat
    BY <2>3, ItemsFit
  <2>5. parser.pos \in 0..(Len(text) + 1)
    BY <2>3, <2>4
  <2>6. passed \in 0..Len(json.items)
    BY <2>3
  <2>7. parser.nest = <<>> \/ parser.nest[1]
    BY <2>3, <2>6 DEF Written
  <2>8. skip \in 0..(MaxDepth + 2)
    <3>1. CASE metas = <<>>
      <4>1. Depth = MaxDepth + 2 /\ skip \in 0..Level(parser)
        BY <3>1, <2>1 DEF Depth, IsReading
      <4>2. QED
        BY <4>1, <2>3, <1>1
    <3>2. CASE metas # <<>>
      <4>1. skip = 0
        BY <3>2, <2>1 DEF IsReading
      <4>2. QED
        BY <4>1, <1>1
    <3>3. QED
      BY <3>1, <3>2
  <2>9. QED
    BY <2>3, <2>5, <2>6, <2>7, <2>8 DEF TextTypeOK
<1>4. QED
  BY <1>2, <1>3

\* What the parser says of an item is what was written.
LEMMA TextIInvTextInv == TextIInv => TextInv
<1> SUFFICES ASSUME TextIInv PROVE TextInv
  OBVIOUS
<1>1. CASE parser = NoParser
  <2>1. ReadsWhatWasWritten /\ NamesAreToldApart /\ VariantTypeIsTold
    BY <1>1 DEF ReadsWhatWasWritten, NamesAreToldApart, VariantTypeIsTold
  <2>2. QED
    BY <2>1, TextIInvTypeOK DEF TextInv
<1>2. CASE parser # NoParser
  <2>1. PICK at, nest : IsParsing(at, nest)
    BY <1>2 DEF TextIInv, IsReading
  <2>2. /\ json.items \in Seq(Items) /\ passed \in 1..Len(json.items)
        /\ IsRead(parser, json.items[passed])
    BY <2>1 DEF IsParsing
  <2>3. PICK item \in Items : item = json.items[passed]
    BY <2>2
  <2>4. IsRead(parser, item) /\ item.t \in {"ARRAY", "OBJECT", "VALUE", "END"}
    BY <2>2, <2>3 DEF Items, ItemTypes
  <2>5. ReadsWhatWasWritten
    <3>1. CASE item.t = "VALUE"
      <4>1. /\ UnescapeString(parser.name) = item.name
            /\ ExtractValue(parser, item.v[1]) = <<Arrived(item.v)>>
        <5>1. UnescapeString(parser.name) = item.name
          BY <3>1, <2>4, NameIsTold
        <5>2. ExtractValue(parser, item.v[1]) = <<Arrived(item.v)>>
          BY <3>1, <2>4, ValueArrives
        <5>3. QED
          BY <5>1, <5>2
      <4>2. QED
        BY <4>1, <3>1, <2>3 DEF ReadsWhatWasWritten
    <3>2. CASE item.t \in {"ARRAY", "OBJECT"}
      <4>1. UnescapeString(parser.name) = item.name
        BY <3>2, <2>4, NameIsTold
      <4>2. parser.type = item.t
        BY <3>2, <2>4 DEF IsRead
      <4>3. QED
        BY <4>1, <4>2, <3>2, <2>3 DEF ReadsWhatWasWritten
    <3>3. CASE item.t = "END"
      <4>1. parser.type = "END"
        BY <3>3, <2>4 DEF IsRead
      <4>2. QED
        BY <4>1, <3>3, <2>3 DEF ReadsWhatWasWritten
    <3>4. QED
      BY <3>1, <3>2, <3>3, <2>4
  <2>6. NamesAreToldApart
    <3> SUFFICES ASSUME parser.type # "END", NEW name \in MemberNames
                 PROVE  TestForName(parser, name) <=> json.items[passed].name = name
      BY DEF NamesAreToldApart
    <3>1. item.t # "END"
      BY <2>4 DEF IsRead
    <3>2. TestForName(parser, name) = (item.name = name)
      BY <3>1, <2>4, NameIsTold
    <3>3. QED
      BY <3>2, <2>3
  <2>7. VariantTypeIsTold
    BY <2>3, <2>4, VariantIsTold DEF VariantTypeIsTold
  <2>8. QED
    BY <2>5, <2>6, <2>7, TextIInvTypeOK DEF TextInv
<1>3. QED
  BY <1>1, <1>2

\* At the end of the answer the client knows all of the variables.
LEMMA TextIInvMetaArrives == TextIInv => MetaArrives
<1> SUFFICES ASSUME TextIInv, loop = "answer", Level(parser) = 0
             PROVE  /\ Len(got) = Len(metas)
                    /\ \A i \in DOMAIN metas, f \in DOMAIN Expected(metas[1]) :
                         Told(got[i], f) = Expected(metas[i])[f]
  BY DEF MetaArrives
<1>1. parser # NoParser
  BY DEF TextIInv, IsIdle
<1>2. metas # <<>> /\ metas \in Seq(Metas)
  BY <1>1 DEF TextIInv, IsReading
<1>3. PICK at, nest : IsParsing(at, nest)
  BY <1>1 DEF TextIInv, IsReading
<1>4. PICK run : IsDecoding(run)
  BY <1>1, <1>2 DEF TextIInv, IsReading
<1>5. got = AnswerOf(metas)
  BY <1>3, <1>4, ParserLevels, ClientTurns
<1>6. got = FirstLearned(metas, Len(metas))
  BY <1>5 DEF AnswerOf
<1>7. /\ Len(got) = Len(metas)
      /\ \A i \in 1..Len(metas) : got[i] = Learned(metas[i])
  BY <1>2, <1>6 DEF FirstLearned
<1>8. PICK n \in Nat : n = Len(metas) /\ n # 0
  BY <1>2
<1>9. DOMAIN metas = 1..n /\ \A i \in 1..n : metas[i] \in Metas
  BY <1>2, <1>8
<1>10. ASSUME NEW i \in 1..n, NEW f \in DOMAIN Expected(metas[1])
       PROVE  Told(got[i], f) = Expected(metas[i])[f]
  <2>1. PICK m \in Metas, o \in Metas : m = metas[i] /\ o = metas[1]
    <3>1. 1 \in 1..n
      BY <1>8
    <3>2. QED
      BY <3>1, <1>9
  <2>2. PICK x, y : x = Expected(m) /\ y = Expected(o)
    OBVIOUS
  <2>3. DOMAIN x = DOMAIN y
    <3>1. DOMAIN x = {"name", "disp", "min", "max", "thresholds", "table",
                      "fallback"}
      BY <2>2, ExpectedIs
    <3>2. DOMAIN y = {"name", "disp", "min", "max", "thresholds", "table",
                      "fallback"}
      BY <2>2, ExpectedIs
    <3>3. QED
      BY <3>1, <3>2
  <2>4. f \in DOMAIN Expected(m)
    BY <2>1, <2>2, <2>3
  <2>5. Told(Learned(m), f) = Expected(m)[f]
    BY <2>4, LearnedIsExpected
  <2>6. got[i] = Learned(m)
    BY <1>7, <1>8, <2>1
  <2>7. QED
    BY <2>1, <2>5, <2>6
<1>11. QED
  BY <1>7, <1>9, <1>10

\* SkipItem stays inside of its item, and leaves it at its end.
LEMMA SkipStops ==
    ASSUME TextIInv, TextNext, skip # 0
    PROVE  IF skip' # 0 THEN WrittenLevel(passed') >= skip
           ELSE WrittenLevel(passed') = skip - 1 /\ parser'.type = "END"
<1>1. parser # NoParser
  BY DEF TextIInv, IsIdle
<1>2. metas = <<>> /\ loop = "walk" /\ skip \in 0..Level(parser) /\ text # <<>>
  BY <1>1 DEF TextIInv, IsReading
<1>3. SkipStep
  BY <1>1, <1>2 DEF TextNext, Write, CloseStream, WriteMeta, GetStream,
     CJsonParser, WalkOn, SkipBegin, GetVarOrMailboxMeta, ExtractFromJson,
     ExtractThresholds, ExtractTable
<1>4. /\ parser' = Iterate(parser) /\ passed' = passed + 1 /\ json' = json
      /\ metas' = metas /\ text' = text
      /\ skip' = IF parser'.type = "INVALID" \/ Level(parser') < skip
                 THEN 0 ELSE skip
  BY <1>3 DEF SkipStep
<1>5. PICK at, nest : IsParsing(at, nest)
  BY <1>1 DEF TextIInv, IsReading
<1>6. Level(parser) \in Nat /\ (Level(parser) = 0 <=> passed = Len(json.items))
  BY <1>5, ParserLevels, DepthIs
<1>7. passed # Len(json.items)
  BY <1>2, <1>6
<1>8. IsParsing(at, nest)'
  BY <1>4, <1>5, <1>7, ParserAdvances
<1>9. \/ Level(parser') >= Level(parser)
      \/ Level(parser') = Level(parser) - 1 /\ parser'.type = "END"
  BY <1>4, <1>5, <1>7, LevelFalls
<1>10. /\ json.items \in Seq(Items) /\ passed' \in 1..Len(json.items)
       /\ parser'.nest = nest[passed'] /\ parser' \in Parsers
  BY <1>4, <1>8 DEF IsParsing, IsRead
<1>11. Level(parser') \in Nat /\ parser'.type # "INVALID"
  BY <1>10 DEF Parsers, Level
<1>12. WrittenLevel(passed') = Level(parser')
  <2>1. Written(text, json.items, at, nest, Depth)
    BY <1>5 DEF IsParsing
  <2>2. passed' \in 0..Len(json.items)
    BY <1>10
  <2>3. WrittenLevel(passed') = Len(nest[passed'])
    BY <2>1, <2>2, <1>10, LevelIs
  <2>4. QED
    BY <2>3, <1>10 DEF Level
<1>13. QED
  BY <1>2, <1>4, <1>6, <1>9, <1>11, <1>12

-----------------------------------------------------------------------------
(* Theorems. *)

\* The inductive invariant holds throughout.
LEMMA TextIInvAlways == TextSpec => []TextIInv
  BY TextIInvInit, TextIInvNext, PTL DEF TextSpec

\* For any calls of the formatter, with any names, strings and numbers, nested
\* less deep than JSONPARSER_MAXNESTING: CJsonParser gets out what
\* CJsonFormatter was given, item by item, with type, name and value; a member
\* is told by its own name and no other; on Windows a value keeps the type that
\* its text shows.
THEOREM TextsArrive == TextSpec => []TextInv
  BY TextIInvAlways, TextIInvTextInv, PTL

\* For any meta data, whatever its strings and thresholds: what
\* CAbkClientMeta::ExtractFromJson makes of the answer of Handle_PostVarMeta is
\* what the server's CMeta holds, for each of up to two variables asked for;
\* of a table, values and texts before the first entity without a text.
THEOREM MetaDataArrives == TextSpec => []MetaArrives
  BY TextIInvAlways, TextIInvMetaArrives, PTL

\* In a whole text of the formatter, nested less than JSONPARSER_MAXNESTING
\* deep, SkipItem stays inside of the array or object that it was called for,
\* and leaves it at its own end, neither earlier nor later.
THEOREM SkipsEndWhereTheyShould == TextSpec => SkipStopsAtItsEnd
<1> DEFINE A == skip # 0 => IF skip' # 0 THEN WrittenLevel(passed') >= skip
                            ELSE /\ WrittenLevel(passed') = skip - 1
                                 /\ parser'.type = "END"
<1>1. TextIInv /\ [TextNext]_textVars => [A]_textVars
  BY SkipStops
<1> HIDE DEF A
<1>2. TextSpec => [][A]_textVars
  BY <1>1, TextIInvAlways, PTL DEF TextSpec
<1>3. QED
  BY <1>2 DEF A, SkipStopsAtItsEnd
=============================================================================
