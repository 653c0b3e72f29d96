---------------------------- MODULE ClientProofs ----------------------------
(***************************************************************************)
(* Proofs about the client: first ClientPolling, then FormsClient.         *)
(*                                                                         *)
(* ClientPolling, for any DAQs, events and failures of the network: what   *)
(* TidyUp does to the session at the server and, for an application that   *)
(* calls Create once, what the long-poll thread finds, and the order in    *)
(* which the reader gets the events.                                       *)
(*                                                                         *)
(* FormsClient, for any forms, calls of the application and alerts: a      *)
(* control goes whole through the text of its element, a dialog is built   *)
(* of the elements under numbers of their own and gives back what the user *)
(* entered, and a form is answered once, by the dialog the last request    *)
(* asks for; an event is read as the function it was sent for.             *)
(***************************************************************************)
EXTENDS ClientPolling, FormsClient, TLAPS, SequenceTheorems


\* Create is called once: no thread of an earlier life is still about.
CreatesOnce == \A p \in Platforms : Lives[p] = 1

\* What a long-poll thread knows.
Threads == [pc : {"none", "loop", "wait", "request", "lists", "data", "events",
                  "failed", "stalled", "ending", "setDone", "over"},
            daqs : SUBSET Daqs, daq : Daqs \cup {None},
            events : Seq(1..MaxEvents), refused : BOOLEAN]

\* The types of the rest.
Plain ==
    /\ main \in {"off", "on", "waitDone", "daqs", "delete"}
    /\ platform \in Platforms /\ life \in 0..1 /\ sid \in 0..2
    /\ {hasPort, enable, done, terminate, handle, net} \subseteq BOOLEAN
    /\ {aux, event} \subseteq {"none", "open", "closed"}
    /\ tidy \in [self : BOOLEAN, lost : BOOLEAN, create : BOOLEAN]
    /\ tidy.create => platform = "atl" /\ life < Lives[platform]
    /\ mapDaq \subseteq Daqs /\ counted \subseteq mapDaq
    /\ daqLock \in AllLives \cup {None}
    /\ slot \in [data : 0..MaxEvents, empty : BOOLEAN]
    /\ copy \in 0..MaxEvents /\ sent \in 0..MaxEvents
    /\ sessions \subseteq AllLives /\ served \subseteq Daqs

Typed == Plain /\ poll \in [AllLives -> Threads]

\* What the end of the thread leaves behind, by which TidyUp knows of it.
ThreadFits ==
    /\ poll[2].pc = "none"
    /\ life = 0 => /\ poll[1].pc = "none" /\ ~done
                   /\ event = "none" /\ main \notin {"on", "waitDone"}
    /\ done => poll[1].pc \in {"none", "over"}
    /\ platform = "atl" /\ ~handle => poll[1].pc \in {"none", "setDone", "over"}
    /\ main = "on" => event = "open"
    /\ PollThreadStopped

\* A DAQ is used with the mutex of the map.
LockFits == \A l \in AllLives :
    poll[l].pc = "data" => daqLock = l /\ poll[l].daq \in mapDaq

\* The events on their way to the reader: got, in the slot, in the answer.
OrderFits ==
    /\ got \in Seq(1..sent)
    /\ \A i, j \in 1..Len(got) : i < j => got[i] < got[j]
    /\ ~slot.empty => /\ slot.data \in 1..sent
                      /\ \A i \in 1..Len(got) : got[i] < slot.data
    /\ copy # 0 => slot = [data |-> copy, empty |-> FALSE]
    /\ poll[1].events \in Seq(1..sent)
    /\ \A i, j \in 1..Len(poll[1].events) :
          i < j => poll[1].events[i] < poll[1].events[j]
    /\ \A i \in 1..Len(poll[1].events) :
          /\ \A j \in 1..Len(got) : got[j] < poll[1].events[i]
          /\ ~slot.empty => slot.data < poll[1].events[i]

ClientIInv == Typed /\ ThreadFits /\ LockFits

\* As long as the client has a session it can ask the server to delete it.
SessionFits ==
    /\ 0 \notin sessions /\ life \in Nat /\ sid \in Nat
    /\ sid # 0 => /\ hasPort /\ event # "none"
                  /\ main # "off" /\ (main # "delete" => aux = "open")
    /\ main \in {"on", "waitDone"} => event # "none"

-----------------------------------------------------------------------------
(* Types. *)

\* A thread that has been started.
Started == [NoThread EXCEPT !.pc = "loop"]

\* A thread of its type, and the two lives.
LEMMA ThreadValues ==
    /\ NoThread \in Threads /\ Started \in Threads /\ Started.pc = "loop"
    /\ Started.events = <<>>
    /\ None \notin Daqs /\ None \notin AllLives /\ 1 \in AllLives
    /\ 2 \in AllLives /\ \A l \in AllLives : l = 1 \/ l = 2
<1>1. NoThread \in Threads
  BY DEF NoThread, Threads
<1>2. /\ Started \in Threads /\ Started.pc = "loop" /\ Started.events = <<>>
  <2>1. NoThread.events = <<>>
    BY DEF NoThread
  <2>2. QED
    BY <1>1, <2>1 DEF Started, Threads
<1>3. QED
  BY <1>1, <1>2, ClientAssumption DEF AllLives

\* The types a run checks.
LEMMA TypedSuffices == Typed => TypeOK
<1> SUFFICES ASSUME Typed PROVE TypeOK
  OBVIOUS
<1>1. \A l \in AllLives : poll[l] \in Threads
  BY DEF Typed
<1>2. \A l \in AllLives :
          /\ poll[l].pc \in {"none", "loop", "wait", "request", "lists",
                             "data", "events", "failed", "stalled", "ending",
                             "setDone", "over"}
          /\ poll[l].daqs \subseteq Daqs /\ poll[l].daq \in Daqs \cup {None}
  BY <1>1 DEF Threads
<1>3. QED
  BY <1>2 DEF Typed, Plain, TypeOK

\* What one step makes of a thread, of the mutex and of the events.
Busy == {"loop", "wait", "request", "lists", "data", "events", "failed",
         "stalled"}

Turn(l, t) ==
    /\ \/ poll[l].pc \in Busy /\ t.pc \in Busy \cup {"ending"}
          /\ UNCHANGED <<handle, done>>
       \/ poll[l].pc = "ending" /\ t.pc = "setDone"
          /\ handle' = FALSE /\ UNCHANGED done
       \/ poll[l].pc = "setDone" /\ t.pc = "over"
          /\ done' = TRUE /\ UNCHANGED handle
    /\ t.pc = "data" => daqLock' = l /\ t.daq \in mapDaq
    /\ daqLock' \in {daqLock, l, None}
    /\ poll[l].pc # "data" => daqLock' = daqLock \/ daqLock = None
    /\ \/ t.events \in {poll[l].events, <<>>} /\ UNCHANGED <<slot, sent>>
       \/ \E k \in 0..(MaxEvents - sent) :
             /\ t.events = [i \in 1..k |-> sent + i]
             /\ sent' = sent + k /\ UNCHANGED slot
       \/ /\ poll[l].events # <<>> /\ slot.empty
          /\ slot' = [data |-> Head(poll[l].events), empty |-> FALSE]
          /\ t.events = Tail(poll[l].events) /\ UNCHANGED sent

\* Every step of a thread is such a turn, and leaves the rest alone.
LEMMA Moves ==
    ASSUME Typed, NEW l \in AllLives, PollThread(l)
    PROVE  /\ \E t \in Threads : poll' = [poll EXCEPT ![l] = t] /\ Turn(l, t)
           /\ UNCHANGED <<appVars, enable, mapDaq, counted, copy, got,
                          sessions, served, world>>
           /\ terminate' \in BOOLEAN
<1> USE DEF appVars, syncVars, daqVars, slotVars, server, world
<1>0. /\ poll[l] \in Threads /\ poll \in [AllLives -> Threads]
      /\ terminate \in BOOLEAN
  BY DEF Typed, Plain
<1>a. ASSUME NEW p \in {"loop", "wait", "request", "events", "stalled",
                        "ending", "setDone", "over"},
             Step(l, p)
      PROVE  \E t \in Threads : /\ poll' = [poll EXCEPT ![l] = t] /\ t.pc = p
                                /\ t.events = poll[l].events
  <2>1. /\ [poll[l] EXCEPT !.pc = p] \in Threads
        /\ [poll[l] EXCEPT !.pc = p].pc = p
        /\ [poll[l] EXCEPT !.pc = p].events = poll[l].events
    BY <1>0 DEF Threads
  <2>2. poll' = [poll EXCEPT ![l] = [poll[l] EXCEPT !.pc = p]]
    BY <1>a DEF Step
  <2>3. QED
    BY <2>1, <2>2
<1>1. CASE PollLoop(l)
  <2>1. PICK p \in {"ending", "wait"} : Step(l, p)
    BY <1>1 DEF PollLoop
  <2>2. QED
    BY <1>0, <1>1, <1>a, <2>1 DEF PollLoop, Turn, Busy
<1>2. CASE PollWait(l)
  <2>1. PICK p \in {"ending", "request"} : Step(l, p)
    BY <1>2 DEF PollWait
  <2>2. QED
    BY <1>0, <1>2, <1>a, <2>1 DEF PollWait, Turn, Busy
<1>3. CASE PollAnswer(l)
  <2>1. CASE \E k \in 0..(MaxEvents - sent) :
                /\ sent' = sent + k
                /\ poll' = [poll EXCEPT ![l] =
                     [@ EXCEPT !.pc = "lists", !.daqs = served,
                               !.events = [i \in 1..k |-> sent + i]]]
    <3>1. PICK k \in 0..(MaxEvents - sent) :
             /\ sent' = sent + k
             /\ poll' = [poll EXCEPT ![l] =
                  [@ EXCEPT !.pc = "lists", !.daqs = served,
                            !.events = [i \in 1..k |-> sent + i]]]
      BY <2>1
    <3> DEFINE e == [i \in 1..k |-> sent + i]
               t == [poll[l] EXCEPT !.pc = "lists", !.daqs = served,
                                    !.events = e]
    <3>2. e \in Seq(1..MaxEvents)
      <4>1. k \in Nat /\ \A i \in 1..k : sent + i \in 1..MaxEvents
        BY ClientAssumption DEF Typed, Plain
      <4>2. QED
        BY <4>1
    <3>3. poll' = [poll EXCEPT ![l] = t]
      BY <3>1
    <3> HIDE DEF e
    <3>4. t \in Threads /\ t.pc = "lists" /\ t.events = e
      BY <1>0, <3>2 DEF Threads, Typed, Plain
    <3>5. Turn(l, t)
      BY <1>3, <3>1, <3>4 DEF PollAnswer, Turn, Busy, e
    <3> HIDE DEF t
    <3>6. QED
      BY <1>0, <1>3, <3>3, <3>4, <3>5, ZenonT(30) DEF PollAnswer
  <2>2. CASE /\ poll' = [poll EXCEPT ![l] =
                  [@ EXCEPT !.pc = "failed",
                            !.refused = /\ platform = "atl" /\ net
                                        /\ ~Reaches(event)]]
             /\ UNCHANGED sent
    <3> DEFINE r == platform = "atl" /\ net /\ ~Reaches(event)
               t == [poll[l] EXCEPT !.pc = "failed", !.refused = r]
    <3>1. poll' = [poll EXCEPT ![l] = t]
      BY <2>2
    <3>2. r \in BOOLEAN
      OBVIOUS
    <3> HIDE DEF r
    <3>3. t \in Threads /\ t.pc = "failed" /\ t.events = poll[l].events
      BY <1>0, <3>2 DEF Threads
    <3> HIDE DEF t
    <3>4. Turn(l, t)
      BY <1>3, <2>2, <3>3 DEF PollAnswer, Turn, Busy
    <3>5. QED
      BY <1>0, <1>3, <3>1, <3>3, <3>4 DEF PollAnswer
  <2>3. QED
    BY <1>3, <2>1, <2>2, ZenonT(30) DEF PollAnswer
<1>4. CASE DispatchList(l)
  <2>1. CASE poll[l].daqs = {}
    <3>1. Step(l, "events") /\ UNCHANGED daqLock
      BY <1>4, <2>1, SMTT(30) DEF DispatchList
    <3>2. QED
      BY <1>0, <1>4, <1>a, <3>1, ZenonT(30) DEF DispatchList, Turn, Busy
  <2>2. CASE poll[l].daqs # {}
    <3>1. PICK d \in poll[l].daqs :
             IF d \in mapDaq
             THEN /\ daqLock' = l
                  /\ poll' = [poll EXCEPT ![l] =
                       [@ EXCEPT !.pc = "data", !.daq = d,
                                 !.daqs = poll[l].daqs \ {d}]]
             ELSE /\ poll' = [poll EXCEPT ![l].daqs = @ \ {d}]
                  /\ UNCHANGED daqLock
      BY <1>4, <2>2 DEF DispatchList
    <3>2. d \in Daqs /\ poll[l].daqs \ {d} \in SUBSET Daqs
          /\ daqLock = None /\ poll[l].pc = "lists"
      BY <1>0, <1>4, <2>2 DEF Threads, DispatchList
    <3>3. CASE d \in mapDaq
      <4> DEFINE t == [poll[l] EXCEPT !.pc = "data", !.daq = d,
                                      !.daqs = poll[l].daqs \ {d}]
      <4>1. poll' = [poll EXCEPT ![l] = t] /\ daqLock' = l
        BY <3>1, <3>3
      <4>2. t \in Threads /\ t.pc = "data" /\ t.daq = d
            /\ t.events = poll[l].events
        BY <1>0, <3>2 DEF Threads
      <4> HIDE DEF t
      <4>3. Turn(l, t)
        BY <1>4, <3>2, <3>3, <4>1, <4>2 DEF DispatchList, Turn, Busy
      <4>4. QED
        BY <1>0, <1>4, <4>1, <4>2, <4>3 DEF DispatchList
    <3>4. CASE d \notin mapDaq
      <4> DEFINE t == [poll[l] EXCEPT !.daqs = poll[l].daqs \ {d}]
      <4>1. poll' = [poll EXCEPT ![l] = t] /\ daqLock' = daqLock
        BY <3>1, <3>4
      <4>2. t \in Threads /\ t.pc = "lists" /\ t.events = poll[l].events
        BY <1>0, <3>2 DEF Threads
      <4> HIDE DEF t
      <4>3. Turn(l, t)
        BY <1>4, <3>2, <4>1, <4>2 DEF DispatchList, Turn, Busy
      <4>4. QED
        BY <1>0, <1>4, <4>1, <4>2, <4>3 DEF DispatchList
    <3>5. QED
      BY <3>3, <3>4, SMTT(30)
  <2>3. QED
    BY <2>1, <2>2
<1>5. CASE DispatchEnd(l)
  <2> DEFINE t == [poll[l] EXCEPT !.pc = "lists", !.daq = None]
  <2>1. poll' = [poll EXCEPT ![l] = t] /\ poll[l].pc = "data"
    BY <1>5 DEF DispatchEnd
  <2>2. t \in Threads /\ t.pc = "lists" /\ t.events = poll[l].events
    BY <1>0 DEF Threads
  <2> HIDE DEF t
  <2>3. Turn(l, t)
    BY <1>5, <2>1, <2>2 DEF DispatchEnd, Turn, Busy
  <2>4. QED
    BY <1>0, <1>5, <2>1, <2>2, <2>3 DEF DispatchEnd
<1>6. CASE SetEvent(l)
  <2>0. poll[l].events \in Seq(1..MaxEvents)
    BY <1>0 DEF Threads
  <2>1. CASE poll[l].events = <<>> \/ ~slot.empty
    <3> DEFINE t == [poll[l] EXCEPT !.pc = "loop", !.events = <<>>]
    <3>1. poll' = [poll EXCEPT ![l] = t] /\ slot' = slot
      BY <1>6, <2>1 DEF SetEvent
    <3>2. t \in Threads /\ t.pc = "loop" /\ t.events = <<>>
      <4>1. <<>> \in Seq(1..MaxEvents)
        OBVIOUS
      <4>2. QED
        BY <1>0, <4>1 DEF Threads
    <3> HIDE DEF t
    <3>3. Turn(l, t)
      BY <1>6, <3>1, <3>2 DEF SetEvent, Turn, Busy
    <3>4. QED
      BY <1>0, <1>6, <3>1, <3>2, <3>3 DEF SetEvent
  <2>2. CASE poll[l].events # <<>> /\ slot.empty
    <3> DEFINE t == [poll[l] EXCEPT !.events = Tail(poll[l].events)]
    <3>1. poll' = [poll EXCEPT ![l] = t] /\ poll[l].pc = "events"
          /\ slot' = [data |-> Head(poll[l].events), empty |-> FALSE]
      BY <1>6, <2>2 DEF SetEvent
    <3>2. Tail(poll[l].events) \in Seq(1..MaxEvents)
      BY <2>0, <2>2, HeadTailProperties
    <3>3. t \in Threads /\ t.pc = "events"
          /\ t.events = Tail(poll[l].events)
      BY <1>0, <3>1, <3>2 DEF Threads
    <3> HIDE DEF t
    <3>4. Turn(l, t)
      BY <1>6, <2>2, <3>1, <3>3 DEF SetEvent, Turn, Busy
    <3>5. QED
      BY <1>0, <1>6, <3>1, <3>3, <3>4 DEF SetEvent
  <2>3. QED
    BY <2>1, <2>2, <1>0 DEF Typed, Plain
<1>7. CASE PollFailed(l)
  <2>1. PICK p \in {"stalled", "loop"} : Step(l, p) /\ terminate' \in BOOLEAN
    BY <1>0, <1>7 DEF PollFailed
  <2>2. QED
    BY <1>0, <1>7, <1>a, <2>1 DEF PollFailed, Turn, Busy
<1>8. CASE PollStalled(l)
  BY <1>0, <1>8, <1>a DEF PollStalled, Turn, Busy
<1>9. CASE PollEnding(l)
  BY <1>0, <1>9, <1>a DEF PollEnding, Turn, Busy
<1>10. CASE PollDone(l)
  BY <1>0, <1>10, <1>a DEF PollDone, Turn, Busy
<1>11. QED
  BY <1>1, <1>2, <1>3, <1>4, <1>5, <1>6, <1>7, <1>8, <1>9, <1>10
  DEF PollThread

\* The first Create: there is no thread yet.
LEMMA Created ==
    ASSUME CreatesOnce, Typed, CreateBoost \/ CreateAtl
    PROVE  /\ life = 0 /\ life' = 1 /\ main' = "on" /\ event' = "open"
           /\ poll' \in {poll, [poll EXCEPT ![1] = Started]}
           /\ UNCHANGED <<slotVars, sent, world>>
<1>1. life \in 0..1 /\ platform \in Platforms /\ Lives[platform] = 1
  BY DEF Typed, Plain, CreatesOnce
<1>2. life < Lives[platform] /\ life' = life + 1
  BY <1>1 DEF Typed, Plain, CreateBoost, CreateAtl
<1>3. life = 0 /\ life' = 1
  BY <1>1, <1>2
<1>4. poll' = poll \/ poll' = [poll EXCEPT ![life'] = Started]
  BY DEF CreateBoost, CreateAtl, Started
<1>5. QED
  BY <1>3, <1>4 DEF CreateBoost, CreateAtl, slotVars, world

\* Every step keeps the types.
LEMMA PlainStep ==
    ASSUME CreatesOnce, ClientIInv, [Next]_vars
    PROVE  Plain'
<1> USE ClientAssumption DEF ClientIInv, Typed, NoTidy, AllLives, appVars,
           syncVars, daqVars, slotVars, server, world
<1>1. CASE CreateBoost
  <2>1. main' \in {"off", "on", "waitDone", "daqs", "delete"}
         /\ platform' \in Platforms /\ life' \in 0..1
    BY <1>1, Created DEF Plain
  <2>2. sid' \in 0..2 /\ sessions' \subseteq AllLives /\ served' \subseteq Daqs
    BY <1>1, Created DEF Plain, CreateBoost
  <2>3. {hasPort', enable', done', terminate', handle', net'} \subseteq BOOLEAN
         /\ {aux', event'} \subseteq {"none", "open", "closed"}
    BY <1>1, Created DEF Plain, CreateBoost
  <2>4. tidy' \in [self : BOOLEAN, lost : BOOLEAN, create : BOOLEAN]
         /\ (tidy'.create => platform' = "atl" /\ life' < Lives[platform'])
    BY <1>1, Created DEF Plain, CreateBoost
  <2>5. mapDaq' \subseteq Daqs /\ counted' \subseteq mapDaq'
         /\ daqLock' \in AllLives \cup {None}
    BY <1>1, Created DEF Plain, CreateBoost
  <2>6. slot' \in [data : 0..MaxEvents, empty : BOOLEAN]
    BY <1>1, Created DEF Plain, CreateBoost
  <2>7. copy' \in 0..MaxEvents /\ sent' \in 0..MaxEvents
    BY <1>1, Created DEF Plain, CreateBoost
  <2>8. QED
    BY <2>1, <2>2, <2>3, <2>4, <2>5, <2>6, <2>7 DEF Plain
<1>2. CASE CreateAtl
  <2>1. main' \in {"off", "on", "waitDone", "daqs", "delete"}
         /\ platform' \in Platforms /\ life' \in 0..1
    BY <1>2, Created DEF Plain
  <2>2. sid' \in 0..2 /\ sessions' \subseteq AllLives /\ served' \subseteq Daqs
    BY <1>2, Created DEF Plain, CreateAtl
  <2>3. {hasPort', enable', done', terminate', handle', net'} \subseteq BOOLEAN
         /\ {aux', event'} \subseteq {"none", "open", "closed"}
    BY <1>2, Created DEF Plain, CreateAtl
  <2>4. tidy' \in [self : BOOLEAN, lost : BOOLEAN, create : BOOLEAN]
         /\ (tidy'.create => platform' = "atl" /\ life' < Lives[platform'])
    BY <1>2, Created DEF Plain, CreateAtl
  <2>5. mapDaq' \subseteq Daqs /\ counted' \subseteq mapDaq'
         /\ daqLock' \in AllLives \cup {None}
    BY <1>2, Created DEF Plain, CreateAtl
  <2>6. slot' \in [data : 0..MaxEvents, empty : BOOLEAN]
    BY <1>2, Created DEF Plain, CreateAtl
  <2>7. copy' \in 0..MaxEvents /\ sent' \in 0..MaxEvents
    BY <1>2, Created DEF Plain, CreateAtl
  <2>8. QED
    BY <2>1, <2>2, <2>3, <2>4, <2>5, <2>6, <2>7 DEF Plain
<1>3. CASE TidyUpBegin
  <2>1. main' \in {"off", "on", "waitDone", "daqs", "delete"}
         /\ platform' \in Platforms /\ life' \in 0..1
    BY <1>3 DEF Plain, TidyUpBegin
  <2>2. sid' \in 0..2 /\ sessions' \subseteq AllLives /\ served' \subseteq Daqs
    BY <1>3 DEF Plain, TidyUpBegin
  <2>3. {hasPort', enable', done', terminate', handle', net'} \subseteq BOOLEAN
         /\ {aux', event'} \subseteq {"none", "open", "closed"}
    BY <1>3 DEF Plain, TidyUpBegin
  <2>4. tidy' \in [self : BOOLEAN, lost : BOOLEAN, create : BOOLEAN]
         /\ (tidy'.create => platform' = "atl" /\ life' < Lives[platform'])
    BY <1>3 DEF Plain, TidyUpBegin
  <2>5. mapDaq' \subseteq Daqs /\ counted' \subseteq mapDaq'
         /\ daqLock' \in AllLives \cup {None}
    BY <1>3 DEF Plain, TidyUpBegin
  <2>6. slot' \in [data : 0..MaxEvents, empty : BOOLEAN]
    BY <1>3 DEF Plain, TidyUpBegin
  <2>7. copy' \in 0..MaxEvents /\ sent' \in 0..MaxEvents
    BY <1>3 DEF Plain, TidyUpBegin
  <2>8. QED
    BY <2>1, <2>2, <2>3, <2>4, <2>5, <2>6, <2>7 DEF Plain
<1>4. CASE WaitForPollThread
  BY <1>4 DEF Plain, WaitForPollThread
<1>5. CASE TidyUpSession
  BY <1>5 DEF Plain, TidyUpSession
<1>6. CASE DeleteClients
  <2>1. main' \in {"off", "on", "waitDone", "daqs", "delete"}
         /\ platform' \in Platforms /\ life' \in 0..1
    BY <1>6 DEF Plain, DeleteClients
  <2>2. sid' \in 0..2 /\ sessions' \subseteq AllLives /\ served' \subseteq Daqs
    BY <1>6 DEF Plain, DeleteClients
  <2>3. {hasPort', enable', done', terminate', handle', net'} \subseteq BOOLEAN
         /\ {aux', event'} \subseteq {"none", "open", "closed"}
    BY <1>6 DEF Plain, DeleteClients
  <2>4. tidy' \in [self : BOOLEAN, lost : BOOLEAN, create : BOOLEAN]
         /\ (tidy'.create => platform' = "atl" /\ life' < Lives[platform'])
    BY <1>6 DEF Plain, DeleteClients
  <2>5. mapDaq' \subseteq Daqs /\ counted' \subseteq mapDaq'
         /\ daqLock' \in AllLives \cup {None}
    BY <1>6 DEF Plain, DeleteClients
  <2>6. slot' \in [data : 0..MaxEvents, empty : BOOLEAN]
    BY <1>6 DEF Plain, DeleteClients
  <2>7. copy' \in 0..MaxEvents /\ sent' \in 0..MaxEvents
    BY <1>6 DEF Plain, DeleteClients
  <2>8. QED
    BY <2>1, <2>2, <2>3, <2>4, <2>5, <2>6, <2>7 DEF Plain
<1>7. ASSUME NEW d \in Daqs, TidyUpDaq(d) PROVE Plain'
  BY <1>7 DEF Plain, TidyUpDaq, DestroyDaq
<1>8. ASSUME NEW d \in Daqs, AddDaq(d) PROVE Plain'
  BY <1>8 DEF Plain, AddDaq
<1>9. ASSUME NEW d \in Daqs, UpdateDaq(d) PROVE Plain'
  BY <1>9 DEF Plain, UpdateDaq
<1>10. ASSUME NEW d \in Daqs, DeleteDaq(d) PROVE Plain'
  BY <1>10 DEF Plain, DeleteDaq, DestroyDaq
<1>11. ASSUME NEW on \in BOOLEAN, SuspendResume(on) PROVE Plain'
  BY <1>11 DEF Plain, SuspendResume
<1>12. ASSUME NEW l \in AllLives, PollThread(l) PROVE Plain'
  <2>1. PICK t \in Threads : Turn(l, t)
    BY <1>12, Moves
  <2>2. daqLock' \in AllLives \cup {None}
    BY <2>1 DEF Turn, Plain
  <2>3. /\ slot' \in [data : 0..MaxEvents, empty : BOOLEAN]
        /\ sent' \in 0..MaxEvents
    <3>1. poll[l].events \in Seq(1..MaxEvents)
      BY DEF Threads
    <3>2. ASSUME poll[l].events # <<>>
          PROVE  Head(poll[l].events) \in 1..MaxEvents
      BY <3>1, <3>2, HeadTailProperties
    <3>3. ASSUME NEW h \in 1..MaxEvents
          PROVE  [data |-> h, empty |-> FALSE]
                    \in [data : 0..MaxEvents, empty : BOOLEAN]
      OBVIOUS
    <3>4. slot' \in [data : 0..MaxEvents, empty : BOOLEAN]
      BY <2>1, <3>2, <3>3 DEF Turn, Plain
    <3>5. sent' \in 0..MaxEvents
      <4>1. sent' = sent \/ \E k \in 0..(MaxEvents - sent) : sent' = sent + k
        BY <2>1 DEF Turn
      <4>2. QED
        BY <4>1 DEF Plain
    <3>6. QED
      BY <3>4, <3>5
  <2>4. handle' \in BOOLEAN /\ done' \in BOOLEAN
    BY <2>1 DEF Turn, Plain
  <2>5. QED
    BY <1>12, <2>2, <2>3, <2>4, Moves, ZenonT(30) DEF Plain
<1>13. CASE GetEvent
  BY <1>13 DEF Plain, GetEvent
<1>14. CASE GetEventEnd
  <2>1. main' \in {"off", "on", "waitDone", "daqs", "delete"}
         /\ platform' \in Platforms /\ life' \in 0..1
    BY <1>14 DEF Plain, GetEventEnd
  <2>2. sid' \in 0..2 /\ sessions' \subseteq AllLives /\ served' \subseteq Daqs
    BY <1>14 DEF Plain, GetEventEnd
  <2>3. {hasPort', enable', done', terminate', handle', net'} \subseteq BOOLEAN
         /\ {aux', event'} \subseteq {"none", "open", "closed"}
    BY <1>14 DEF Plain, GetEventEnd
  <2>4. tidy' \in [self : BOOLEAN, lost : BOOLEAN, create : BOOLEAN]
         /\ (tidy'.create => platform' = "atl" /\ life' < Lives[platform'])
    BY <1>14 DEF Plain, GetEventEnd
  <2>5. mapDaq' \subseteq Daqs /\ counted' \subseteq mapDaq'
         /\ daqLock' \in AllLives \cup {None}
    BY <1>14 DEF Plain, GetEventEnd
  <2>6. slot' \in [data : 0..MaxEvents, empty : BOOLEAN]
    BY <1>14 DEF Plain, GetEventEnd
  <2>7. copy' \in 0..MaxEvents /\ sent' \in 0..MaxEvents
    BY <1>14 DEF Plain, GetEventEnd
  <2>8. QED
    BY <2>1, <2>2, <2>3, <2>4, <2>5, <2>6, <2>7 DEF Plain
<1>15. CASE ExpireSession
  BY <1>15 DEF Plain, ExpireSession
<1>16. CASE Network
  BY <1>16 DEF Plain, Network
<1>17. CASE UNCHANGED vars
  BY <1>17 DEF Plain, vars
<1>18. QED
  BY <1>1, <1>2, <1>3, <1>4, <1>5, <1>6, <1>7, <1>8, <1>9,
     <1>10, <1>11, <1>12, <1>13, <1>14, <1>15, <1>16, <1>17
  DEF Next, TidyUp

\* A session is forgotten before the clients that could delete it.
LEMMA SessionStep ==
    ASSUME SessionFits, [Next]_vars
    PROVE  SessionFits'
<1> USE DEF SessionFits, appVars, syncVars,
           daqVars, slotVars, server, world
<1>1. CASE CreateBoost
  BY <1>1 DEF CreateBoost
<1>2. CASE CreateAtl
  BY <1>2 DEF CreateAtl
<1>3. CASE TidyUpBegin
  BY <1>3 DEF TidyUpBegin
<1>4. CASE WaitForPollThread
  BY <1>4 DEF WaitForPollThread
<1>5. CASE TidyUpSession
  BY <1>5 DEF TidyUpSession
<1>6. CASE DeleteClients
  BY <1>6 DEF DeleteClients, Polling
<1>7. ASSUME NEW d \in Daqs, TidyUpDaq(d) PROVE SessionFits'
  BY <1>7 DEF TidyUpDaq, DestroyDaq
<1>8. ASSUME NEW d \in Daqs, AddDaq(d) PROVE SessionFits'
  BY <1>8 DEF AddDaq
<1>9. ASSUME NEW d \in Daqs, UpdateDaq(d) PROVE SessionFits'
  BY <1>9 DEF UpdateDaq
<1>10. ASSUME NEW d \in Daqs, DeleteDaq(d) PROVE SessionFits'
  BY <1>10, SMTT(30) DEF DeleteDaq, DestroyDaq
<1>11. ASSUME NEW on \in BOOLEAN, SuspendResume(on) PROVE SessionFits'
  BY <1>11, SMTT(30) DEF SuspendResume
<1>12. ASSUME NEW l \in AllLives, PollThread(l) PROVE SessionFits'
  BY <1>12 DEF PollThread, PollLoop, PollWait, PollAnswer, DispatchList,
     DispatchEnd, SetEvent, PollFailed, PollStalled, PollEnding, PollDone
<1>13. CASE GetEvent
  BY <1>13 DEF GetEvent
<1>14. CASE GetEventEnd
  BY <1>14 DEF GetEventEnd
<1>15. CASE ExpireSession
  BY <1>15 DEF ExpireSession
<1>16. CASE Network
  BY <1>16 DEF Network
<1>17. CASE UNCHANGED vars
  BY <1>17 DEF vars
<1>18. QED
  BY <1>1, <1>2, <1>3, <1>4, <1>5, <1>6, <1>7, <1>8, <1>9,
     <1>10, <1>11, <1>12, <1>13, <1>14, <1>15, <1>16, <1>17
  DEF Next, TidyUp

\* ... and the thread stays one.
LEMMA TypedStep ==
    ASSUME CreatesOnce, ClientIInv, [Next]_vars
    PROVE  Typed'
<1>1. Plain' /\ Typed
  BY PlainStep DEF ClientIInv
<1>2. CASE CreateBoost \/ CreateAtl
  BY <1>1, <1>2, Created, ThreadValues DEF Typed
<1>3. ASSUME NEW l \in AllLives, PollThread(l) PROVE Typed'
  BY <1>1, <1>3, Moves DEF Typed
<1>4. CASE UNCHANGED poll
  BY <1>1, <1>4 DEF Typed
<1>5. CreateBoost \/ CreateAtl \/ (\E l \in AllLives : PollThread(l))
      \/ UNCHANGED poll
  BY DEF Next, TidyUp, TidyUpBegin, WaitForPollThread, TidyUpSession,
         DeleteClients, TidyUpDaq, AddDaq, UpdateDaq, DeleteDaq,
         SuspendResume, GetEvent, GetEventEnd, ExpireSession, Network, vars
<1>6. QED
  BY <1>2, <1>3, <1>4, <1>5

\* What is known of the end of the thread stays true: only the thread itself
\* moves on, and TidyUp goes on when it has.
LEMMA ThreadStep ==
    ASSUME CreatesOnce, ClientIInv, Typed', [Next]_vars
    PROVE  ThreadFits'
<1> USE ThreadValues DEF ClientIInv, Typed, Plain,
           ThreadFits, PollThreadStopped, appVars, syncVars,
           daqVars, slotVars, server, world
<1>1. CASE CreateBoost
  BY <1>1 DEF CreateBoost
<1>2. CASE CreateAtl
  BY <1>2 DEF CreateAtl
<1>3. CASE TidyUpBegin
  BY <1>3 DEF TidyUpBegin
<1>4. CASE WaitForPollThread
  BY <1>4 DEF WaitForPollThread
<1>5. CASE TidyUpSession
  BY <1>5 DEF TidyUpSession
<1>6. CASE DeleteClients
  BY <1>6 DEF DeleteClients, Polling
<1>7. ASSUME NEW d \in Daqs, TidyUpDaq(d) PROVE ThreadFits'
  BY <1>7 DEF TidyUpDaq, DestroyDaq
<1>8. ASSUME NEW d \in Daqs, AddDaq(d) PROVE ThreadFits'
  BY <1>8 DEF AddDaq
<1>9. ASSUME NEW d \in Daqs, UpdateDaq(d) PROVE ThreadFits'
  BY <1>9 DEF UpdateDaq
<1>10. ASSUME NEW d \in Daqs, DeleteDaq(d) PROVE ThreadFits'
  BY <1>10 DEF DeleteDaq, DestroyDaq
<1>11. ASSUME NEW on \in BOOLEAN, SuspendResume(on) PROVE ThreadFits'
  BY <1>11 DEF SuspendResume
<1>12. ASSUME NEW l \in AllLives, PollThread(l) PROVE ThreadFits'
  <2>1. PICK t \in Threads : poll' = [poll EXCEPT ![l] = t] /\ Turn(l, t)
    BY <1>12, Moves
  <2>2. l = 1 /\ poll' = [poll EXCEPT ![1] = t] /\ Turn(1, t)
    BY <2>1, ZenonT(30) DEF Turn, Busy, ThreadFits
  <2>3. poll'[1] = t /\ poll'[2] = poll[2]
    BY <2>2 DEF AllLives
  <2>4. /\ UNCHANGED <<main, life, event, platform>>
        /\ handle \in BOOLEAN /\ done \in BOOLEAN
    BY <1>12, Moves DEF Plain
  <2>5. /\ \/ poll[1].pc \in Busy /\ t.pc \in Busy \cup {"ending"}
              /\ UNCHANGED <<handle, done>>
           \/ poll[1].pc = "ending" /\ t.pc = "setDone"
              /\ handle' = FALSE /\ UNCHANGED done
           \/ poll[1].pc = "setDone" /\ t.pc = "over"
              /\ done' = TRUE /\ UNCHANGED handle
    BY <2>2 DEF Turn
  <2>6. QED
    BY <2>3, <2>4, <2>5 DEF Busy, ThreadFits, PollThreadStopped
<1>13. CASE GetEvent
  BY <1>13 DEF GetEvent
<1>14. CASE GetEventEnd
  BY <1>14 DEF GetEventEnd
<1>15. CASE ExpireSession
  BY <1>15 DEF ExpireSession
<1>16. CASE Network
  BY <1>16 DEF Network
<1>17. CASE UNCHANGED vars
  BY <1>17 DEF vars
<1>18. QED
  BY <1>1, <1>2, <1>3, <1>4, <1>5, <1>6, <1>7, <1>8, <1>9,
     <1>10, <1>11, <1>12, <1>13, <1>14, <1>15, <1>16, <1>17
  DEF Next, TidyUp

\* The mutex of the map is released only by the thread that has it; a DAQ is
\* deleted with the mutex, or after the thread.
LEMMA LockStep ==
    ASSUME CreatesOnce, ClientIInv, Typed', [Next]_vars
    PROVE  LockFits'
<1> USE ThreadValues DEF ClientIInv, Typed, Plain,
           ThreadFits, PollThreadStopped, LockFits, appVars, syncVars,
           daqVars, slotVars, server, world
<1>1. CASE CreateBoost
  BY <1>1, Created
<1>2. CASE CreateAtl
  BY <1>2, Created
<1>3. CASE TidyUpBegin
  BY <1>3 DEF TidyUpBegin
<1>4. CASE WaitForPollThread
  BY <1>4 DEF WaitForPollThread
<1>5. CASE TidyUpSession
  BY <1>5 DEF TidyUpSession
<1>6. CASE DeleteClients
  BY <1>6 DEF DeleteClients, Polling
<1>7. ASSUME NEW d \in Daqs, TidyUpDaq(d) PROVE LockFits'
  BY <1>7 DEF TidyUpDaq, DestroyDaq
<1>8. ASSUME NEW d \in Daqs, AddDaq(d) PROVE LockFits'
  BY <1>8 DEF AddDaq
<1>9. ASSUME NEW d \in Daqs, UpdateDaq(d) PROVE LockFits'
  BY <1>9 DEF UpdateDaq
<1>10. ASSUME NEW d \in Daqs, DeleteDaq(d) PROVE LockFits'
  BY <1>10 DEF DeleteDaq, DestroyDaq
<1>11. ASSUME NEW on \in BOOLEAN, SuspendResume(on) PROVE LockFits'
  BY <1>11 DEF SuspendResume
<1>12. ASSUME NEW l \in AllLives, PollThread(l) PROVE LockFits'
  <2>1. PICK t \in Threads : poll' = [poll EXCEPT ![l] = t] /\ Turn(l, t)
    BY <1>12, Moves
  <2>2. l = 1 /\ poll' = [poll EXCEPT ![1] = t] /\ Turn(1, t)
    BY <2>1, ZenonT(30) DEF Turn, Busy, ThreadFits
  <2>3. poll'[1] = t /\ poll'[2] = poll[2]
    BY <2>2 DEF AllLives
  <2>4. mapDaq' = mapDaq /\ (t.pc = "data" => daqLock' = 1 /\ t.daq \in mapDaq)
    BY <1>12, <2>2, Moves DEF Turn
  <2>5. QED
    BY <2>3, <2>4 DEF LockFits, ThreadFits
<1>13. CASE GetEvent
  BY <1>13 DEF GetEvent
<1>14. CASE GetEventEnd
  BY <1>14 DEF GetEventEnd
<1>15. CASE ExpireSession
  BY <1>15 DEF ExpireSession
<1>16. CASE Network
  BY <1>16 DEF Network
<1>17. CASE UNCHANGED vars
  BY <1>17 DEF vars
<1>18. QED
  BY <1>1, <1>2, <1>3, <1>4, <1>5, <1>6, <1>7, <1>8, <1>9,
     <1>10, <1>11, <1>12, <1>13, <1>14, <1>15, <1>16, <1>17
  DEF Next, TidyUp

-----------------------------------------------------------------------------
(* The order of the events. *)

\* One step of the thread or of the reader moves an event on; all that are
\* behind it are later.
LEMMA OrderStep ==
    ASSUME CreatesOnce, ClientIInv, OrderFits, [Next]_vars
    PROVE  OrderFits'
<1> USE DEF slotVars, ClientIInv, Typed
<1>0. /\ sent \in Nat /\ copy \in Nat /\ slot \in [data : Nat, empty : BOOLEAN]
      /\ poll[1] \in Threads /\ poll \in [AllLives -> Threads]
  BY ThreadValues, ClientAssumption DEF Plain
<1>1. CASE /\ UNCHANGED <<slotVars, sent>>
           /\ poll'[1].events \in {poll[1].events, <<>>}
  <2>1. CASE poll'[1].events = poll[1].events
    BY <1>1, <2>1 DEF OrderFits
  <2>2. CASE poll'[1].events = <<>>
    <3>1. <<>> \in Seq(1..sent) /\ Len(<<>>) = 0
      OBVIOUS
    <3>2. QED
      BY <1>1, <2>2, <3>1 DEF OrderFits
  <2>3. QED
    BY <1>1, <2>1, <2>2
<1>2. CASE CreateBoost \/ CreateAtl
  <2>1. UNCHANGED <<slotVars, sent>>
        /\ poll' \in {poll, [poll EXCEPT ![1] = Started]}
    BY <1>2, Created
  <2>2. poll'[1].events \in {poll[1].events, <<>>}
    BY <1>0, <2>1, ThreadValues
  <2>3. QED
    BY <1>1, <2>1, <2>2
<1>3. ASSUME NEW l \in AllLives, PollThread(l) PROVE OrderFits'
  <2>1. PICK t \in Threads : poll' = [poll EXCEPT ![l] = t] /\ Turn(l, t)
    BY <1>3, Moves
  <2>2. l = 1
    BY <2>1, ThreadValues DEF Turn, Busy, ThreadFits
  <2>3. poll'[1] = t /\ UNCHANGED <<copy, got>>
    BY <1>0, <1>3, <2>1, <2>2, Moves, ThreadValues
  <2>4. CASE t.events \in {poll[1].events, <<>>} /\ UNCHANGED <<slot, sent>>
    BY <1>1, <2>3, <2>4
  <2>5. CASE \E k \in 0..(MaxEvents - sent) :
                /\ t.events = [i \in 1..k |-> sent + i]
                /\ sent' = sent + k /\ UNCHANGED slot
    <3>1. PICK k \in 0..(MaxEvents - sent) :
             /\ t.events = [i \in 1..k |-> sent + i]
             /\ sent' = sent + k /\ UNCHANGED slot
      BY <2>5
    <3>2. k \in Nat /\ sent' \in Nat /\ sent <= sent'
      BY <1>0, <3>1, ClientAssumption
    <3>3. /\ t.events \in Seq(1..sent') /\ Len(t.events) = k
          /\ \A i \in 1..k : t.events[i] = sent + i
      <4>1. \A i \in 1..k : sent + i \in 1..sent'
        BY <1>0, <3>1, <3>2
      <4>2. QED
        BY <3>1, <3>2, <4>1
    <3>4. /\ got \in Seq(1..sent')
          /\ \A i \in 1..Len(got) : got[i] \in 1..sent
      BY <1>0, <3>2 DEF OrderFits
    <3>5. QED
      BY <1>0, <2>3, <3>1, <3>2, <3>3, <3>4, SMTT(30) DEF OrderFits
  <2>6. CASE /\ poll[1].events # <<>> /\ slot.empty
             /\ slot' = [data |-> Head(poll[1].events), empty |-> FALSE]
             /\ t.events = Tail(poll[1].events) /\ UNCHANGED sent
    <3> DEFINE e == poll[1].events
    <3>1. e \in Seq(1..sent) /\ e # <<>>
      BY <2>6 DEF OrderFits
    <3>2. /\ Len(e) \in Nat \ {0} /\ Head(e) = e[1] /\ Head(e) \in 1..sent
          /\ Tail(e) \in Seq(1..sent) /\ Len(Tail(e)) = Len(e) - 1
          /\ \A i \in 1..Len(Tail(e)) : Tail(e)[i] = e[i + 1]
      <4>1. \A S, s : s \in Seq(S) /\ s # <<>> =>
               /\ Head(s) \in S /\ Tail(s) \in Seq(S)
        BY HeadTailProperties
      <4>2. Head(e) \in 1..sent /\ Tail(e) \in Seq(1..sent)
        BY <3>1, <4>1
      <4>3. QED
        BY <3>1, <4>2
    <3>3. /\ slot'.data = e[1] /\ slot'.empty = FALSE /\ copy' = 0
      BY <2>3, <2>6, <3>2 DEF OrderFits
    <3>4. /\ \A i, j \in 1..Len(e) : i < j => e[i] < e[j]
          /\ \A i \in 1..Len(e) : \A j \in 1..Len(got) : got[j] < e[i]
      BY DEF OrderFits
    <3> HIDE DEF e
    <3>5. \A i \in 1..Len(Tail(e)) : i + 1 \in 1..Len(e) /\ 1 < i + 1
      BY <3>2
    <3>6. /\ \A i, j \in 1..Len(Tail(e)) : i < j => Tail(e)[i] < Tail(e)[j]
          /\ \A i \in 1..Len(Tail(e)) :
                /\ \A j \in 1..Len(got) : got[j] < Tail(e)[i]
                /\ e[1] < Tail(e)[i]
      BY <3>2, <3>4, <3>5
    <3>7. \A i \in 1..Len(got) : got[i] < e[1]
      BY <3>2, <3>4
    <3>8. QED
      BY <2>3, <2>6, <3>2, <3>3, <3>6, <3>7 DEF OrderFits, e
  <2>7. QED
    BY <2>1, <2>2, <2>4, <2>5, <2>6 DEF Turn
<1>4. CASE GetEvent
  <2>1. UNCHANGED <<slot, got, sent, poll>> /\ copy' = slot.data /\ ~slot.empty
    BY <1>4 DEF GetEvent, server
  <2>2. slot = [data |-> slot.data, empty |-> FALSE]
    BY <1>0, <2>1
  <2>3. QED
    BY <2>1, <2>2 DEF OrderFits
<1>5. CASE GetEventEnd
  <2>1. /\ copy' = 0 /\ got' = Append(got, copy) /\ UNCHANGED <<sent, poll>>
        /\ slot' = [slot EXCEPT !.empty = TRUE] /\ copy # 0
    BY <1>5 DEF GetEventEnd, server
  <2>2. ~slot.empty /\ slot.data = copy /\ slot'.empty
    BY <1>0, <2>1 DEF OrderFits
  <2>3. /\ got \in Seq(1..sent) /\ copy \in 1..sent
        /\ \A i \in 1..Len(got) : got[i] < copy
        /\ \A i, j \in 1..Len(got) : i < j => got[i] < got[j]
    BY <2>2 DEF OrderFits
  <2>4. /\ got' \in Seq(1..sent) /\ Len(got') = Len(got) + 1
        /\ Len(got) \in Nat /\ got'[Len(got) + 1] = copy
        /\ \A i \in 1..Len(got) : got'[i] = got[i]
    BY <2>1, <2>3
  <2>5. \A i \in 1..Len(got') : i \in 1..Len(got) \/ i = Len(got) + 1
    BY <2>4
  <2>6. \A i, j \in 1..Len(got') : i < j => got'[i] < got'[j]
    BY <2>3, <2>4, <2>5
  <2>7. \A i \in 1..Len(poll[1].events) :
           \A j \in 1..Len(got') : got'[j] < poll[1].events[i]
    BY <2>2, <2>4, <2>5 DEF OrderFits
  <2>8. QED
    BY <2>1, <2>2, <2>4, <2>6, <2>7 DEF OrderFits
<1>6. \/ UNCHANGED <<slotVars, sent, poll>> \/ CreateBoost \/ CreateAtl
      \/ (\E l \in AllLives : PollThread(l)) \/ GetEvent \/ GetEventEnd
  BY DEF Next, TidyUp, TidyUpBegin, WaitForPollThread, TidyUpSession,
         DeleteClients, TidyUpDaq, AddDaq, UpdateDaq, DeleteDaq,
         SuspendResume, ExpireSession, Network, vars, server
<1>7. QED
  BY <1>1, <1>2, <1>3, <1>4, <1>5, <1>6

-----------------------------------------------------------------------------
(* The theorems. *)

\* The invariants hold before the first Create.
LEMMA ClientInit ==
    Init => ClientIInv /\ OrderFits /\ SessionFits
<1> SUFFICES ASSUME Init PROVE ClientIInv /\ OrderFits /\ SessionFits
  OBVIOUS
<1>1. Plain
  <2>1. /\ tidy \in [self : BOOLEAN, lost : BOOLEAN, create : BOOLEAN]
        /\ ~tidy.create /\ slot \in [data : 0..MaxEvents, empty : BOOLEAN]
    BY ClientAssumption DEF Init, NoTidy
  <2>2. copy \in 0..MaxEvents /\ sent \in 0..MaxEvents
    BY ClientAssumption DEF Init
  <2>3. {hasPort, enable, done, terminate, handle, net} \subseteq BOOLEAN
    BY DEF Init
  <2>4. {aux, event} \subseteq {"none", "open", "closed"}
    BY DEF Init
  <2>5. QED
    BY <2>1, <2>2, <2>3, <2>4 DEF Init, Plain
<1>2. /\ poll \in [AllLives -> Threads]
      /\ \A l \in AllLives : poll[l].pc = "none" /\ poll[l].events = <<>>
  <2>1. NoThread.pc = "none" /\ NoThread.events = <<>>
    BY DEF NoThread
  <2>2. QED
    BY <2>1, ThreadValues DEF Init
<1>3. ThreadFits /\ LockFits
  BY <1>2, ThreadValues DEF Init, ThreadFits, LockFits, PollThreadStopped
<1>4. OrderFits
  <2>1. <<>> \in Seq(1..0) /\ Len(<<>>) = 0
    OBVIOUS
  <2>2. got = <<>> /\ slot.empty /\ copy = 0 /\ sent = 0
        /\ poll[1].events = <<>>
    BY <1>2, ThreadValues DEF Init
  <2>3. QED
    BY <2>1, <2>2 DEF OrderFits
<1>5. SessionFits
  BY DEF Init, SessionFits
<1>6. QED
  BY <1>1, <1>2, <1>3, <1>4, <1>5 DEF ClientIInv, Typed

\* What a run checks follows.
LEMMA ClientSuffices ==
    /\ ClientIInv => ClientInv
    /\ OrderFits => EventsInOrder
<1>1. ASSUME ClientIInv PROVE ClientInv
  BY <1>1, TypedSuffices
  DEF ClientIInv, ClientInv, ThreadFits, LockFits, DispatchesToLiveDaq
<1>2. ASSUME OrderFits PROVE EventsInOrder
  <2>1. Len(got) \in Nat
    BY <1>2 DEF OrderFits
  <2>2. \A i \in 1..(Len(got) - 1) :
           i \in 1..Len(got) /\ i + 1 \in 1..Len(got) /\ i < i + 1
    BY <2>1
  <2>3. QED
    BY <1>2, <2>2 DEF OrderFits, EventsInOrder
<1>3. QED
  BY <1>1, <1>2

\* The client while Create is called once: TidyUp waits until the long-poll
\* thread has left its loop, and data is dispatched only to DAQs that have not
\* been deleted.
THEOREM ClientIsSafe == CreatesOnce => (Spec => []ClientInv)
<1> SUFFICES ASSUME CreatesOnce PROVE Spec => []ClientInv
  OBVIOUS
<1>1. ClientIInv /\ [Next]_vars => ClientIInv'
  BY TypedStep, ThreadStep, LockStep DEF ClientIInv
<1>2. QED
  BY <1>1, ClientInit, ClientSuffices, PTL DEF Spec

\* The reader gets the events in the order the server sent them, none twice
\* and none half overwritten by the next one.
THEOREM EventsAreOrdered == CreatesOnce => (Spec => []EventsInOrder)
<1> SUFFICES ASSUME CreatesOnce PROVE Spec => []EventsInOrder
  OBVIOUS
<1>1. ClientIInv /\ [Next]_vars => ClientIInv'
  BY TypedStep, ThreadStep, LockStep DEF ClientIInv
<1>2. ClientIInv /\ OrderFits /\ [Next]_vars => OrderFits'
  BY OrderStep
<1>3. QED
  BY <1>1, <1>2, ClientInit, ClientSuffices, PTL DEF Spec

\* TidyUp of the Windows client over a working connection deletes the session
\* at the server, however often Create is called.
THEOREM SessionIsDeleted == Spec => AtlTidyUpDeletesSession
<1>1. ASSUME SessionFits, [Next]_vars, platform = "atl", LeavesSession
      PROVE  FALSE
  <2>1. main = "daqs" /\ main' # main
    BY <1>1, SMTT(30) DEF LeavesSession
  <2>2. TidyUpSession
    BY <1>1, <2>1
    DEF Next, TidyUp, CreateBoost, CreateAtl, TidyUpBegin, WaitForPollThread,
        DeleteClients, TidyUpDaq, AddDaq, UpdateDaq, DeleteDaq, SuspendResume,
        PollThread, PollLoop, PollWait, PollAnswer, DispatchList, DispatchEnd,
        SetEvent, PollFailed, PollStalled, PollEnding, PollDone, GetEvent,
        GetEventEnd, ExpireSession, Network, vars, appVars
  <2>3. sid \in sessions /\ sid # 0
    BY <1>1, <2>2 DEF TidyUpSession, LeavesSession, SessionFits
  <2>4. IsConnected /\ Reaches(aux)
    BY <1>1, <2>1, <2>3 DEF IsConnected, Reaches, LeavesSession, SessionFits
  <2>5. QED
    BY <1>1, <2>2, <2>4, SMTT(30) DEF TidyUpSession, LeavesSession
<1>2. SessionFits /\ [Next]_vars => SessionFits'
  BY SessionStep
<1>3. SessionFits /\ [Next]_vars => [platform = "atl" => ~LeavesSession]_vars
  BY <1>1
<1>4. QED
  BY <1>2, <1>3, ClientInit, PTL DEF Spec, AtlTidyUpDeletesSession


-----------------------------------------------------------------------------
(* Members by their names. *)

\* One member has this name, with the value x; none has it.
Only(ms, name, x) ==
    \E k \in DOMAIN ms :
        ms[k] = <<name, x>> /\ \A i \in DOMAIN ms : ms[i][1] = name => i = k
Without(ms, name) == \A i \in DOMAIN ms : ms[i][1] # name

\* Its value is found, and of what type it is.
LEMMA OnlyIsRead ==
    ASSUME NEW S, NEW ms \in Seq(S), NEW name, NEW x, Only(ms, name, x),
           NEW types
    PROVE  /\ LastOf(ms, name) = x
           /\ Sent(ms, name, types) <=> x[1] \in types
           /\ {i \in DOMAIN ms : ms[i][1] = name /\ ms[i][2][1] \in types}
                = {} <=> x[1] \notin types
           /\ LET found == {i \in DOMAIN ms :
                              ms[i][1] = name /\ ms[i][2][1] \in types}
              IN  x[1] \in types => ms[Max(found)][2] = x
<1>1. PICK k \in DOMAIN ms :
            ms[k] = <<name, x>> /\ \A i \in DOMAIN ms : ms[i][1] = name => i = k
  BY DEF Only
<1>2. k \in Nat
  OBVIOUS
<1>3. {i \in DOMAIN ms : ms[i][1] = name} = {k}
  BY <1>1
<1>4. x[1] \in types => {i \in DOMAIN ms : ms[i][1] = name
                                        /\ ms[i][2][1] \in types} = {k}
  BY <1>1
<1>5. Max({k}) = k
  BY <1>2 DEF Max
<1>6. LastOf(ms, name) = x
  <2>1. ms[Max({k})][2] = x
    BY <1>1, <1>5
  <2>2. QED
    BY <2>1, <1>3 DEF LastOf
<1>7. Sent(ms, name, types) <=> x[1] \in types
  BY <1>1 DEF Sent
<1>8. {i \in DOMAIN ms : ms[i][1] = name /\ ms[i][2][1] \in types}
        = {} <=> x[1] \notin types
  <2>1. CASE x[1] \in types
    BY <2>1, <1>4
  <2>2. CASE x[1] \notin types
    BY <2>2, <1>1
  <2>3. QED
    BY <2>1, <2>2
<1>9. x[1] \in types => ms[Max({i \in DOMAIN ms : ms[i][1] = name
                                  /\ ms[i][2][1] \in types})][2] = x
  <2>1. ms[Max({k})][2] = x
    BY <1>1, <1>5
  <2>2. QED
    BY <2>1, <1>4
<1>10. QED
  BY <1>6, <1>7, <1>8, <1>9

\* A member that is not among those written is not found.
LEMMA WithoutIsRead ==
    ASSUME NEW ms, NEW name, Without(ms, name), NEW types
    PROVE  /\ ~Sent(ms, name, types)
           /\ {i \in DOMAIN ms : ms[i][1] = name /\ ms[i][2][1] \in types} = {}
  BY DEF Sent, Without

\* Members are put together.
LEMMA Joined ==
    ASSUME NEW S, NEW u \in Seq(S), NEW v \in Seq(S), NEW name
    PROVE  /\ u \o v \in Seq(S)
           /\ \A x : Only(u, name, x) /\ Without(v, name)
                        => Only(u \o v, name, x)
           /\ \A x : Without(u, name) /\ Only(v, name, x)
                        => Only(u \o v, name, x)
           /\ Without(u, name) /\ Without(v, name) => Without(u \o v, name)
<1> DEFINE w == u \o v
           m == Len(u)
<1>1. /\ w \in Seq(S) /\ Len(w) = m + Len(v) /\ m \in Nat /\ Len(v) \in Nat
      /\ \A i \in 1..(m + Len(v)) : w[i] = IF i <= m THEN u[i] ELSE v[i - m]
  BY ConcatProperties
<1> HIDE DEF w
<1>2. /\ DOMAIN u = 1..m /\ DOMAIN v = 1..Len(v)
      /\ DOMAIN w = 1..(m + Len(v))
  BY <1>1
<1>3. ASSUME NEW x, Only(u, name, x), Without(v, name)
      PROVE  Only(w, name, x)
  <2>1. PICK k \in DOMAIN u :
               u[k] = <<name, x>> /\ \A i \in DOMAIN u : u[i][1] = name => i = k
    BY <1>3 DEF Only
  <2>2. k \in DOMAIN w /\ w[k] = <<name, x>>
    BY <2>1, <1>1, <1>2
  <2>3. ASSUME NEW i \in DOMAIN w, w[i][1] = name PROVE i = k
    <3>1. i <= m
      <4>1. SUFFICES ASSUME i > m PROVE FALSE
        BY <1>1, <1>2
      <4>2. i - m \in DOMAIN v /\ w[i] = v[i - m]
        BY <4>1, <1>1, <1>2
      <4>3. QED
        BY <4>2, <2>3, <1>3 DEF Without
    <3>2. i \in DOMAIN u /\ w[i] = u[i]
      BY <3>1, <1>1, <1>2
    <3>3. QED
      BY <3>2, <2>1, <2>3
  <2>4. QED
    BY <2>2, <2>3 DEF Only
<1>4. ASSUME NEW x, Without(u, name), Only(v, name, x)
      PROVE  Only(w, name, x)
  <2>1. PICK k \in DOMAIN v :
               v[k] = <<name, x>> /\ \A i \in DOMAIN v : v[i][1] = name => i = k
    BY <1>4 DEF Only
  <2>2. m + k \in DOMAIN w /\ w[m + k] = <<name, x>>
    BY <2>1, <1>1, <1>2
  <2>3. ASSUME NEW i \in DOMAIN w, w[i][1] = name PROVE i = m + k
    <3>1. i > m /\ w[i] = v[i - m] /\ i - m \in DOMAIN v
      BY <2>3, <1>1, <1>2, <1>4 DEF Without
    <3>2. QED
      BY <3>1, <2>1, <2>3, <1>1, <1>2
  <2>4. QED
    BY <2>2, <2>3 DEF Only
<1>5. ASSUME Without(u, name), Without(v, name) PROVE Without(w, name)
  <2>1. SUFFICES ASSUME NEW i \in DOMAIN w PROVE w[i][1] # name
    BY DEF Without
  <2>2. CASE i <= m
    <3>1. i \in DOMAIN u /\ w[i] = u[i]
      BY <2>2, <1>1, <1>2
    <3>2. QED
      BY <3>1, <1>5 DEF Without
  <2>3. CASE i > m
    <3>1. i - m \in DOMAIN v /\ w[i] = v[i - m]
      BY <2>3, <1>1, <1>2
    <3>2. QED
      BY <3>1, <1>5 DEF Without
  <2>4. QED
    BY <2>2, <2>3, <1>1, <1>2
<1>6. QED
  BY <1>1, <1>3, <1>4, <1>5 DEF w

\* Up to three members of different names.
LEMMA Short ==
    ASSUME NEW n1, NEW x1, NEW n2, NEW x2, NEW n3, NEW x3
    PROVE  /\ \A n : Without(<<>>, n)
           /\ Only(<<<<n1, x1>>>>, n1, x1)
           /\ n1 # n2 => /\ Only(<<<<n1, x1>>, <<n2, x2>>>>, n1, x1)
                         /\ Only(<<<<n1, x1>>, <<n2, x2>>>>, n2, x2)
           /\ n1 # n2 /\ n1 # n3 /\ n2 # n3 =>
                LET ms == <<<<n1, x1>>, <<n2, x2>>, <<n3, x3>>>>
                IN  /\ Only(ms, n1, x1) /\ Only(ms, n2, x2)
                    /\ Only(ms, n3, x3)
<1>1. \A n : Without(<<>>, n)
  BY DEF Without
<1>2. Only(<<<<n1, x1>>>>, n1, x1)
  BY DEF Only
<1>3. n1 # n2 => /\ Only(<<<<n1, x1>>, <<n2, x2>>>>, n1, x1)
                 /\ Only(<<<<n1, x1>>, <<n2, x2>>>>, n2, x2)
  <2> DEFINE ms == <<<<n1, x1>>, <<n2, x2>>>>
  <2>1. DOMAIN ms = {1, 2} /\ ms[1] = <<n1, x1>> /\ ms[2] = <<n2, x2>>
    OBVIOUS
  <2> HIDE DEF ms
  <2>2. QED
    BY <2>1 DEF Only, ms
<1>4. n1 # n2 /\ n1 # n3 /\ n2 # n3 =>
        LET ms == <<<<n1, x1>>, <<n2, x2>>, <<n3, x3>>>>
        IN  Only(ms, n1, x1) /\ Only(ms, n2, x2) /\ Only(ms, n3, x3)
  <2> DEFINE ms == <<<<n1, x1>>, <<n2, x2>>, <<n3, x3>>>>
  <2>1. /\ DOMAIN ms = {1, 2, 3} /\ ms[1] = <<n1, x1>> /\ ms[2] = <<n2, x2>>
        /\ ms[3] = <<n3, x3>>
    OBVIOUS
  <2> HIDE DEF ms
  <2>2. n1 # n2 /\ n1 # n3 /\ n2 # n3 =>
          Only(ms, n1, x1) /\ Only(ms, n2, x2) /\ Only(ms, n3, x3)
    BY <2>1 DEF Only
  <2>3. QED
    BY <2>2 DEF ms
<1>5. QED
  BY <1>1, <1>2, <1>3, <1>4

\* One member does not have another name.
LEMMA NotFirst ==
    ASSUME NEW n, NEW n1, NEW x1, n # n1
    PROVE  Without(<<<<n1, x1>>>>, n)
  BY DEF Without

\* Nor has one of two.
LEMMA NotInTwo ==
    ASSUME NEW n, NEW n1, NEW x1, NEW n2, NEW x2, n # n1, n # n2
    PROVE  Without(<<<<n1, x1>>, <<n2, x2>>>>, n)
  BY DEF Without

\* Nor has one of three.
LEMMA NotInThree ==
    ASSUME NEW n, NEW n1, NEW x1, NEW n2, NEW x2, NEW n3, NEW x3,
           n # n1, n # n2, n # n3
    PROVE  Without(<<<<n1, x1>>, <<n2, x2>>, <<n3, x3>>>>, n)
  BY DEF Without

-----------------------------------------------------------------------------
(* A control goes through the text. *)

\* What the client has of a control.
ElementFields == {"ok", "type", "name", "value", "options", "flags"}
Decoded(e, c) ==
    /\ DOMAIN e = ElementFields
    /\ e.type = c.t /\ e.name = c.name
    /\ "Submit" \in e.flags <=> c.t = "Button" /\ c.submit
    /\ "Cancel" \in e.flags <=> c.t = "Button" /\ c.cancel
    /\ "Updateable" \in e.flags <=> c.upd

\* Common to all controls: read from the members by their names.
LEMMA DecodedFrom ==
    ASSUME NEW S, NEW c, c.upd \in BOOLEAN,
           NEW ms \in Seq(S), Only(ms, "Type", Str(c.t)),
           Only(ms, "Name", Str(c.name)), Only(ms, "Updateable", Bool(c.upd))
    PROVE  LET e == DecodeJson(ms)
           IN  /\ DOMAIN e = ElementFields
               /\ e.type = c.t /\ e.name = c.name
               /\ "Updateable" \in e.flags <=> c.upd
               /\ \A x : Only(ms, "InitialValue", x) /\ x[1] \in Scalars
                           => e.value = x
               /\ \A x : Only(ms, "Options", <<"array", x>>) => e.options = x
               /\ \A b \in BOOLEAN, f \in {"Submit", "Cancel"} :
                     Only(ms, f, Bool(b)) => (f \in e.flags <=> b)
               /\ \A f \in {"Submit", "Cancel"} :
                     Without(ms, f) => f \notin e.flags
<1> DEFINE e == DecodeJson(ms)
<1>1. Sent(ms, "Type", {"str"}) /\ LastOf(ms, "Type") = Str(c.t)
  <2>1. /\ LastOf(ms, "Type") = Str(c.t)
        /\ Sent(ms, "Type", {"str"}) <=> Str(c.t)[1] \in {"str"}
    BY OnlyIsRead, ZenonT(30)
  <2>2. Str(c.t)[1] = "str"
    BY DEF Str
  <2>3. QED
    BY <2>1, <2>2
<1>2. LastOf(ms, "Name") = Str(c.name)
  BY OnlyIsRead DEF Str
<1>3. /\ DOMAIN e = ElementFields
      /\ e.type = c.t /\ e.name = c.name
  BY <1>1, <1>2 DEF DecodeJson, ElementFields, Str
<1>4. \A b \in BOOLEAN, f \in {"Submit", "Cancel", "Updateable"} :
         Only(ms, f, Bool(b)) => (f \in e.flags <=> b)
  <2>1. SUFFICES ASSUME NEW b \in BOOLEAN,
                        NEW f \in {"Submit", "Cancel", "Updateable"},
                        Only(ms, f, Bool(b))
                 PROVE  f \in e.flags <=> b
    OBVIOUS
  <2>2. Sent(ms, f, {"bool"}) /\ LastOf(ms, f) = Bool(b)
    <3>1. /\ LastOf(ms, f) = Bool(b)
          /\ Sent(ms, f, {"bool"}) <=> Bool(b)[1] \in {"bool"}
      BY <2>1, OnlyIsRead
    <3>2. Bool(b)[1] = "bool"
      BY DEF Bool
    <3>3. QED
      BY <3>1, <3>2
  <2>3. Bool(b) = Bool(TRUE) <=> b
    BY DEF Bool
  <2>4. e.flags = {g \in Flags : /\ Sent(ms, g, {"bool"})
                                 /\ LastOf(ms, g) = Bool(TRUE)}
    BY DEF DecodeJson
  <2>5. f \in Flags
    BY DEF Flags
  <2>6. QED
    BY <2>2, <2>3, <2>4, <2>5
<1>5. \A f \in {"Submit", "Cancel"} : Without(ms, f) => f \notin e.flags
  BY WithoutIsRead DEF DecodeJson
<1>6. ASSUME NEW x, Only(ms, "InitialValue", x), x[1] \in Scalars
      PROVE  e.value = x
  BY <1>6, OnlyIsRead DEF DecodeJson
<1>7. ASSUME NEW x, Only(ms, "Options", <<"array", x>>)
      PROVE  e.options = x
  <2>1. Sent(ms, "Options", {"array"}) /\ LastOf(ms, "Options") = <<"array", x>>
    <3>1. /\ LastOf(ms, "Options") = <<"array", x>>
          /\ Sent(ms, "Options", {"array"}) <=> <<"array", x>>[1] \in {"array"}
      BY <1>7, OnlyIsRead
    <3>2. <<"array", x>>[1] = "array"
      OBVIOUS
    <3>3. QED
      BY <3>1, <3>2
  <2>2. QED
    BY <2>1 DEF DecodeJson
<1>8. QED
  BY <1>3, <1>4, <1>5, <1>6, <1>7

\* The first three members, the last one, and what may come between them.
LEMMA Ends ==
    ASSUME NEW c, NEW S,
           {<<"Type", Str(c.t)>>, <<"Name", Str(c.name)>>,
            <<"Caption", Str(c.name)>>, <<"Updateable", Bool(c.upd)>>}
              \subseteq S
    PROVE  /\ Head3(c) \in Seq(S) /\ Updateable(c) \in Seq(S)
           /\ Only(Head3(c), "Type", Str(c.t))
           /\ Only(Head3(c), "Name", Str(c.name))
           /\ \A f \in {"InitialValue", "Submit", "Cancel", "Updateable",
                       "Options"} : Without(Head3(c), f)
           /\ Only(Updateable(c), "Updateable", Bool(c.upd))
           /\ \A f \in {"Type", "Name", "InitialValue", "Submit", "Cancel",
                       "Options"} : Without(Updateable(c), f)
<1>1. Head3(c) \in Seq(S) /\ Updateable(c) \in Seq(S)
  BY DEF Head3, Updateable
<1>2. Only(Head3(c), "Type", Str(c.t)) /\ Only(Head3(c), "Name", Str(c.name))
  BY Short DEF Head3
<1>3. ASSUME NEW f \in {"InitialValue", "Submit", "Cancel", "Updateable",
                        "Options"}
      PROVE  Without(Head3(c), f)
  <2>1. f # "Type" /\ f # "Name" /\ f # "Caption"
    OBVIOUS
  <2>2. QED
    BY <2>1, NotInThree DEF Head3
<1>4. Only(Updateable(c), "Updateable", Bool(c.upd))
  BY Short DEF Updateable
<1>5. ASSUME NEW f \in {"Type", "Name", "InitialValue", "Submit", "Cancel",
                        "Options"}
      PROVE  Without(Updateable(c), f)
  <2>1. f # "Updateable"
    OBVIOUS
  <2>2. QED
    BY <2>1, NotFirst DEF Updateable
<1>6. QED
  BY <1>1, <1>2, <1>3, <1>4, <1>5

\* What the server writes of a control, the client has.
LEMMA InputArrives ==
    ASSUME NEW c \in Control, c.t = "Input"
    PROVE  LET e == DecodeJson(FormWrite(c))
           IN  Decoded(e, c) /\ e.value = Str(c.initial)
<1> DEFINE ms == FormWrite(c)
           m1 == <<<<"InitialValue", Str(c.initial)>>>>
           m2 == IF c.maxLen >= 0 THEN <<<<"MaxLen", <<"int", c.maxLen>>>>>>
                 ELSE <<>>
           m3 == <<<<"ReadOnly", Bool(c.readOnly)>>,
                   <<"Password", Bool(c.password)>>>>
           u1 == Head3(c) \o m1
           u2 == u1 \o m2
           u3 == u2 \o m3
           S == {<<"Type", Str(c.t)>>, <<"Name", Str(c.name)>>,
                 <<"Caption", Str(c.name)>>, <<"InitialValue", Str(c.initial)>>,
                 <<"MaxLen", <<"int", c.maxLen>>>>,
                 <<"ReadOnly", Bool(c.readOnly)>>,
                 <<"Password", Bool(c.password)>>,
                 <<"Updateable", Bool(c.upd)>>}
<1>1. ms = u3 \o Updateable(c)
  BY DEF FormWrite, FormWriteInput
<1>2. m1 \in Seq(S) /\ m2 \in Seq(S) /\ m3 \in Seq(S)
  BY SMTT(30)
<1>3. /\ Only(Head3(c), "Type", Str(c.t)) /\ Only(Head3(c), "Name", Str(c.name))
      /\ \A f \in {"InitialValue", "Submit", "Cancel", "Updateable"} :
            Without(Head3(c), f)
      /\ Only(Updateable(c), "Updateable", Bool(c.upd))
      /\ \A f \in {"Type", "Name", "InitialValue", "Submit", "Cancel"} :
            Without(Updateable(c), f)
      /\ Head3(c) \in Seq(S) /\ Updateable(c) \in Seq(S)
  BY Ends
<1>4. /\ Only(m1, "InitialValue", Str(c.initial))
      /\ \A f \in {"Type", "Name", "Submit", "Cancel", "Updateable"} :
            Without(m1, f)
  BY Short, NotFirst
<1>5. ASSUME NEW f \in {"Type", "Name", "InitialValue", "Submit", "Cancel",
                        "Updateable"}
      PROVE  Without(m2, f)
  <2>1. CASE c.maxLen >= 0
    <3>1. f # "MaxLen"
      OBVIOUS
    <3>2. QED
      BY <2>1, <3>1, NotFirst
  <2>2. CASE ~(c.maxLen >= 0)
    BY <2>2, Short
  <2>3. QED
    BY <2>1, <2>2
<1>6. ASSUME NEW f \in {"Type", "Name", "InitialValue", "Submit", "Cancel",
                        "Updateable"}
      PROVE  Without(m3, f)
  <2>1. f # "ReadOnly" /\ f # "Password"
    OBVIOUS
  <2>2. QED
    BY <2>1, NotInTwo
<1> HIDE DEF m1, m2, m3, S
<1>8. /\ u1 \in Seq(S) /\ Only(u1, "Type", Str(c.t))
      /\ Only(u1, "Name", Str(c.name))
      /\ Only(u1, "InitialValue", Str(c.initial))
      /\ \A f \in {"Submit", "Cancel", "Updateable"} : Without(u1, f)
  BY <1>2, <1>3, <1>4, Joined
<1> HIDE DEF u1
<1>9. /\ u2 \in Seq(S) /\ Only(u2, "Type", Str(c.t))
      /\ Only(u2, "Name", Str(c.name))
      /\ Only(u2, "InitialValue", Str(c.initial))
      /\ \A f \in {"Submit", "Cancel", "Updateable"} : Without(u2, f)
  BY <1>2, <1>5, <1>8, Joined
<1> HIDE DEF u2
<1>10. /\ u3 \in Seq(S) /\ Only(u3, "Type", Str(c.t))
       /\ Only(u3, "Name", Str(c.name))
       /\ Only(u3, "InitialValue", Str(c.initial))
       /\ \A f \in {"Submit", "Cancel", "Updateable"} : Without(u3, f)
  BY <1>2, <1>6, <1>9, Joined
<1> HIDE DEF u3, ms
<1>11. /\ ms \in Seq(S) /\ Only(ms, "Type", Str(c.t))
       /\ Only(ms, "Name", Str(c.name))
       /\ Only(ms, "InitialValue", Str(c.initial))
       /\ Only(ms, "Updateable", Bool(c.upd))
       /\ \A f \in {"Submit", "Cancel"} : Without(ms, f)
  BY <1>1, <1>3, <1>10, Joined
<1>12. c.upd \in BOOLEAN
  BY DEF Control
<1>13. Str(c.initial)[1] \in Scalars
  BY DEF Str, Scalars
<1>14. QED
  BY <1>11, <1>12, <1>13, DecodedFrom DEF Decoded, ms

\* A checkbox: its value is a boolean.
LEMMA CheckboxArrives ==
    ASSUME NEW c \in Control, c.t = "Checkbox"
    PROVE  LET e == DecodeJson(FormWrite(c))
           IN  Decoded(e, c) /\ e.value = Bool(c.initial)
<1> DEFINE ms == FormWrite(c)
           m1 == <<<<"InitialValue", Bool(c.initial)>>>>
           u1 == Head3(c) \o m1
           S == {<<"Type", Str(c.t)>>, <<"Name", Str(c.name)>>,
                 <<"Caption", Str(c.name)>>,
                 <<"InitialValue", Bool(c.initial)>>,
                 <<"Updateable", Bool(c.upd)>>}
<1>1. ms = u1 \o Updateable(c)
  BY DEF FormWrite, FormWriteCheckbox
<1>2. m1 \in Seq(S)
  OBVIOUS
<1>3. /\ Only(Head3(c), "Type", Str(c.t)) /\ Only(Head3(c), "Name", Str(c.name))
      /\ \A f \in {"InitialValue", "Submit", "Cancel", "Updateable"} :
            Without(Head3(c), f)
      /\ Only(Updateable(c), "Updateable", Bool(c.upd))
      /\ \A f \in {"Type", "Name", "InitialValue", "Submit", "Cancel"} :
            Without(Updateable(c), f)
      /\ Head3(c) \in Seq(S) /\ Updateable(c) \in Seq(S)
  BY Ends
<1>4. /\ Only(m1, "InitialValue", Bool(c.initial))
      /\ \A f \in {"Type", "Name", "Submit", "Cancel", "Updateable"} :
            Without(m1, f)
  BY Short, NotFirst
<1> HIDE DEF m1, S
<1>5. /\ u1 \in Seq(S) /\ Only(u1, "Type", Str(c.t))
      /\ Only(u1, "Name", Str(c.name))
      /\ Only(u1, "InitialValue", Bool(c.initial))
      /\ \A f \in {"Submit", "Cancel", "Updateable"} : Without(u1, f)
  BY <1>2, <1>3, <1>4, Joined
<1> HIDE DEF u1, ms
<1>6. /\ ms \in Seq(S) /\ Only(ms, "Type", Str(c.t))
      /\ Only(ms, "Name", Str(c.name))
      /\ Only(ms, "InitialValue", Bool(c.initial))
      /\ Only(ms, "Updateable", Bool(c.upd))
      /\ \A f \in {"Submit", "Cancel"} : Without(ms, f)
  BY <1>1, <1>3, <1>5, Joined
<1>7. c.upd \in BOOLEAN
  BY DEF Control
<1>8. Bool(c.initial)[1] \in Scalars
  BY DEF Bool, Scalars
<1>9. QED
  BY <1>6, <1>7, <1>8, DecodedFrom DEF Decoded, ms

\* A list: its value is the number of an option, and the options come
\* whole.
LEMMA ListArrives ==
    ASSUME NEW c \in Control, c.t = "List"
    PROVE  LET e == DecodeJson(FormWrite(c))
           IN  /\ Decoded(e, c) /\ e.value = <<"int", c.initial>>
               /\ e.options = c.options
<1> DEFINE ms == FormWrite(c)
           m1 == <<<<"InitialValue", <<"int", c.initial>>>>>>
           m2 == <<<<"Options", <<"array", c.options>>>>>>
           u1 == Head3(c) \o m1
           u2 == u1 \o Updateable(c)
           S == {<<"Type", Str(c.t)>>, <<"Name", Str(c.name)>>,
                 <<"Caption", Str(c.name)>>,
                 <<"InitialValue", <<"int", c.initial>>>>,
                 <<"Options", <<"array", c.options>>>>,
                 <<"Updateable", Bool(c.upd)>>}
<1>1. ms = u2 \o m2
  BY DEF FormWrite, FormWriteList
<1>2. m1 \in Seq(S) /\ m2 \in Seq(S)
  OBVIOUS
<1>3. /\ Only(Head3(c), "Type", Str(c.t)) /\ Only(Head3(c), "Name", Str(c.name))
      /\ \A f \in {"InitialValue", "Submit", "Cancel", "Updateable", "Options"} :
            Without(Head3(c), f)
      /\ Only(Updateable(c), "Updateable", Bool(c.upd))
      /\ \A f \in {"Type", "Name", "InitialValue", "Submit", "Cancel",
                  "Options"} : Without(Updateable(c), f)
      /\ Head3(c) \in Seq(S) /\ Updateable(c) \in Seq(S)
  BY Ends
<1>4. /\ Only(m1, "InitialValue", <<"int", c.initial>>)
      /\ \A f \in {"Type", "Name", "Submit", "Cancel", "Updateable",
                  "Options"} : Without(m1, f)
  <2>1. ASSUME NEW f \in {"Type", "Name", "Submit", "Cancel", "Updateable",
                          "Options"}
        PROVE  f # "InitialValue"
    OBVIOUS
  <2>2. QED
    BY <2>1, Short, NotFirst
<1>5. /\ Only(m2, "Options", <<"array", c.options>>)
      /\ \A f \in {"Type", "Name", "InitialValue", "Submit", "Cancel",
                  "Updateable"} : Without(m2, f)
  <2>1. ASSUME NEW f \in {"Type", "Name", "InitialValue", "Submit", "Cancel",
                          "Updateable"}
        PROVE  f # "Options"
    OBVIOUS
  <2>2. QED
    BY <2>1, Short, NotFirst
<1> HIDE DEF m1, m2, S
<1>6. /\ u1 \in Seq(S) /\ Only(u1, "Type", Str(c.t))
      /\ Only(u1, "Name", Str(c.name))
      /\ Only(u1, "InitialValue", <<"int", c.initial>>)
      /\ \A f \in {"Submit", "Cancel", "Updateable", "Options"} :
            Without(u1, f)
  BY <1>2, <1>3, <1>4, Joined
<1> HIDE DEF u1
<1>7. /\ u2 \in Seq(S) /\ Only(u2, "Type", Str(c.t))
      /\ Only(u2, "Name", Str(c.name))
      /\ Only(u2, "InitialValue", <<"int", c.initial>>)
      /\ Only(u2, "Updateable", Bool(c.upd))
      /\ \A f \in {"Submit", "Cancel", "Options"} : Without(u2, f)
  BY <1>3, <1>6, Joined
<1> HIDE DEF u2, ms
<1>8. /\ ms \in Seq(S) /\ Only(ms, "Type", Str(c.t))
      /\ Only(ms, "Name", Str(c.name))
      /\ Only(ms, "InitialValue", <<"int", c.initial>>)
      /\ Only(ms, "Updateable", Bool(c.upd))
      /\ Only(ms, "Options", <<"array", c.options>>)
      /\ \A f \in {"Submit", "Cancel"} : Without(ms, f)
  BY <1>1, <1>2, <1>5, <1>7, Joined
<1>9. c.upd \in BOOLEAN
  BY DEF Control
<1>10. <<"int", c.initial>>[1] \in Scalars
  BY DEF Scalars
<1>11. QED
  BY <1>8, <1>9, <1>10, DecodedFrom DEF Decoded, ms

\* A button has flags in the place of a value.
LEMMA ButtonArrives ==
    ASSUME NEW c \in Control, c.t = "Button"
    PROVE  Decoded(DecodeJson(FormWrite(c)), c)
<1> DEFINE ms == FormWrite(c)
           m1 == <<<<"Submit", Bool(c.submit)>>, <<"Cancel", Bool(c.cancel)>>>>
           u1 == Head3(c) \o m1
           S == {<<"Type", Str(c.t)>>, <<"Name", Str(c.name)>>,
                 <<"Caption", Str(c.name)>>, <<"Submit", Bool(c.submit)>>,
                 <<"Cancel", Bool(c.cancel)>>, <<"Updateable", Bool(c.upd)>>}
<1>1. ms = u1 \o Updateable(c)
  BY DEF FormWrite, FormWriteButton
<1>2. m1 \in Seq(S)
  OBVIOUS
<1>3. /\ Only(Head3(c), "Type", Str(c.t)) /\ Only(Head3(c), "Name", Str(c.name))
      /\ \A f \in {"Submit", "Cancel", "Updateable"} : Without(Head3(c), f)
      /\ Only(Updateable(c), "Updateable", Bool(c.upd))
      /\ \A f \in {"Type", "Name", "Submit", "Cancel"} :
            Without(Updateable(c), f)
      /\ Head3(c) \in Seq(S) /\ Updateable(c) \in Seq(S)
  BY Ends
<1>4. /\ Only(m1, "Submit", Bool(c.submit)) /\ Only(m1, "Cancel", Bool(c.cancel))
      /\ \A f \in {"Type", "Name", "Updateable"} : Without(m1, f)
  <2>1. ASSUME NEW f \in {"Type", "Name", "Updateable"}
        PROVE  f # "Submit" /\ f # "Cancel"
    OBVIOUS
  <2>2. \A f \in {"Type", "Name", "Updateable"} : Without(m1, f)
    BY <2>1, NotInTwo
  <2>3. QED
    BY <2>2, Short
<1> HIDE DEF m1, S
<1>5. /\ u1 \in Seq(S) /\ Only(u1, "Type", Str(c.t))
      /\ Only(u1, "Name", Str(c.name))
      /\ Only(u1, "Submit", Bool(c.submit)) /\ Only(u1, "Cancel", Bool(c.cancel))
      /\ Without(u1, "Updateable")
  BY <1>2, <1>3, <1>4, Joined
<1> HIDE DEF u1, ms
<1>6. /\ ms \in Seq(S) /\ Only(ms, "Type", Str(c.t))
      /\ Only(ms, "Name", Str(c.name))
      /\ Only(ms, "Updateable", Bool(c.upd))
      /\ Only(ms, "Submit", Bool(c.submit)) /\ Only(ms, "Cancel", Bool(c.cancel))
  BY <1>1, <1>3, <1>5, Joined
<1>7. c.upd \in BOOLEAN /\ c.submit \in BOOLEAN /\ c.cancel \in BOOLEAN
  BY DEF Control
<1>8. QED
  BY <1>6, <1>7, DecodedFrom DEF Decoded, ms

\* Every control arrives, and shows what the application said.
LEMMA ControlArrives ==
    ASSUME NEW c \in Control
    PROVE  LET e == DecodeJson(FormWrite(c))
           IN  /\ Decoded(e, c)
               /\ c.t # "Button" => Shown(e) = Told(c)
<1> DEFINE e == DecodeJson(FormWrite(c))
<1>1. c.t \in {"Input", "Checkbox", "List", "Button"}
  BY DEF Control
<1>2. CASE c.t = "Input"
  <2>1. Decoded(e, c) /\ e.value = Str(c.initial)
    BY <1>2, InputArrives
  <2>2. e.type = "Input"
    BY <2>1, <1>2 DEF Decoded
  <2> HIDE DEF e
  <2>3. FormatVariant(Str(c.initial)) = Str(c.initial)
    BY DEF FormatVariant, Str
  <2>4. Shown(e) = Str(c.initial)
    BY <2>1, <2>2, <2>3 DEF Shown
  <2>5. QED
    BY <1>2, <2>1, <2>4 DEF Told, e
<1>3. CASE c.t = "Checkbox"
  <2>1. Decoded(e, c) /\ e.value = Bool(c.initial)
    BY <1>3, CheckboxArrives
  <2>2. e.type = "Checkbox"
    BY <2>1, <1>3 DEF Decoded
  <2> HIDE DEF e
  <2>3. Shown(e) = Bool(c.initial)
    BY <2>1, <2>2 DEF Shown
  <2>4. QED
    BY <1>3, <2>1, <2>3 DEF Told, e
<1>4. CASE c.t = "List"
  <2>1. /\ Decoded(e, c) /\ e.value = <<"int", c.initial>>
        /\ e.options = c.options
    BY <1>4, ListArrives
  <2>2. e.type = "List" /\ e.value[2] = c.initial
    BY <2>1, <1>4 DEF Decoded
  <2> HIDE DEF e
  <2>3. Shown(e) = <<"int", IF c.initial \in 0..(Len(c.options) - 1)
                            THEN c.initial ELSE -1>>
    BY <2>1, <2>2 DEF Shown
  <2>4. QED
    BY <1>4, <2>1, <2>3 DEF Told, e
<1>5. CASE c.t = "Button"
  BY <1>5, ButtonArrives
<1>6. QED
  BY <1>1, <1>2, <1>3, <1>4, <1>5

\* A control that is no button has something to show.
LEMMA ToldIsNotEmpty ==
    ASSUME NEW c \in Control, c.t # "Button"
    PROVE  Told(c)[1] # "empty"
<1>1. c.t \in {"Input", "Checkbox", "List", "Button"}
  BY DEF Control
<1>2. QED
  BY <1>1 DEF Told, Str, Bool

-----------------------------------------------------------------------------
(* The dialog of a form: each element has one control. *)

ControlFields == {"id", "type", "enabled", "options", "content"}
IdOf(c, i) ==
    IF Submits(c) THEN IDOK
    ELSE IF Cancels(c) THEN IDCANCEL
    ELSE DLGCONTROLID_BASE + i - 1
Built(x, c, i) ==
    /\ DOMAIN x = ControlFields
    /\ x.type = c.t /\ x.id = IdOf(c, i)
Whole(controls, els, cs) ==
    /\ DOMAIN els = DOMAIN controls /\ DOMAIN cs = DOMAIN controls
    /\ \A i \in DOMAIN controls :
          Decoded(els[i], controls[i]) /\ Built(cs[i], controls[i], i)

\* The identifiers of a dialog tell its controls apart.
LEMMA IdsAreUnique ==
    ASSUME NEW form, IsForm(form),
           NEW i \in DOMAIN form.controls, NEW j \in DOMAIN form.controls,
           \/ IdOf(form.controls[j], j) = IdOf(form.controls[i], i)
           \/ IdOf(form.controls[j], j) = DLGCONTROLID_BASE + i - 1
    PROVE  j = i
<1> DEFINE c == form.controls[i]
           d == form.controls[j]
<1>1. i \in Int /\ j \in Int /\ i >= 1 /\ j >= 1
  BY DEF IsForm
<1>2. (Submits(c) /\ Submits(d)) \/ (Cancels(c) /\ Cancels(d)) => i = j
  BY DEF IsForm
<1> HIDE DEF c, d
<1>3. \/ IdOf(d, j) = IdOf(c, i) /\ i >= 1
      \/ IdOf(d, j) = 99 + i
  BY <1>1 DEF c, d, DLGCONTROLID_BASE
<1>4. /\ IdOf(c, i) = IF Submits(c) THEN 1 ELSE IF Cancels(c) THEN 2 ELSE 99 + i
      /\ IdOf(d, j) = IF Submits(d) THEN 1 ELSE IF Cancels(d) THEN 2 ELSE 99 + j
  BY <1>1 DEF IdOf, IDOK, IDCANCEL, DLGCONTROLID_BASE
<1>5. CASE Submits(d)
  BY <1>1, <1>2, <1>3, <1>4, <1>5
<1>6. CASE ~Submits(d) /\ Cancels(d)
  BY <1>1, <1>2, <1>3, <1>4, <1>6
<1>7. CASE ~Submits(d) /\ ~Cancels(d)
  BY <1>1, <1>2, <1>3, <1>4, <1>7
<1>8. QED
  BY <1>5, <1>6, <1>7

\* GetDlgItem looks for the first control of a number; of one it is that.
LEMMA MinOfOne == ASSUME NEW k \in Int PROVE Min({k}) = k /\ Max({k}) = k
  BY DEF Min, Max

\* Where the three loops look for the control of an element: they find it, or
\* none when it has the identifier of OK or Cancel.
LEMMA ControlIsFound ==
    ASSUME NEW form, IsForm(form), NEW els, NEW cs,
           Whole(form.controls, els, cs), NEW i \in DOMAIN form.controls
    PROVE  GetDlgItem(cs, cs[i].id) = i
<1>1. /\ DOMAIN cs = DOMAIN form.controls
      /\ \A j \in DOMAIN cs : cs[j].id = IdOf(form.controls[j], j)
  BY DEF Whole, Built
<1>2. \A j \in DOMAIN cs : j \in Int /\ j # 0
  BY <1>1 DEF IsForm
<1>3. {j \in DOMAIN cs : cs[j].id = cs[i].id} = {i}
  BY <1>1, IdsAreUnique
<1>4. QED
  BY <1>2, <1>3, MinOfOne DEF GetDlgItem

\* A number of the list's order finds no button that took OK's or Cancel's.
LEMMA NoOtherIsFound ==
    ASSUME NEW form, IsForm(form), NEW els, NEW cs,
           Whole(form.controls, els, cs), NEW i \in DOMAIN form.controls,
           NEW id, id = DLGCONTROLID_BASE + i - 1,
           NEW k \in DOMAIN cs, GetDlgItem(cs, id) = k
    PROVE  k = i
<1>1. /\ DOMAIN cs = DOMAIN form.controls
      /\ \A j \in DOMAIN cs : cs[j].id = IdOf(form.controls[j], j)
  BY DEF Whole, Built
<1>2. \A j \in DOMAIN cs : j \in Int /\ j # 0
  BY <1>1 DEF IsForm
<1> DEFINE found == {j \in DOMAIN cs : cs[j].id = id}
<1>3. found \subseteq {i}
  BY <1>1, IdsAreUnique
<1>4. found # {}
  BY <1>2 DEF GetDlgItem
<1>5. found = {i}
  BY <1>3, <1>4
<1>6. QED
  BY <1>2, <1>5, MinOfOne DEF GetDlgItem

\* Only buttons have the number of OK or Cancel.
LEMMA OwnId ==
    ASSUME NEW controls, NEW els, NEW cs, Whole(controls, els, cs),
           NEW i \in DOMAIN controls, controls[i].t # "Button"
    PROVE  cs[i].id = DLGCONTROLID_BASE + i - 1
  BY DEF Whole, Built, IdOf, Submits, Cancels

\* From the data to the controls: each control from its own element.
LEMMA ToControlsIs ==
    ASSUME NEW form, IsForm(form), NEW els, NEW cs,
           Whole(form.controls, els, cs), NEW initial \in BOOLEAN
    PROVE  LET new == ToControls(els, cs, initial)
           IN  /\ Whole(form.controls, els, new)
               /\ \A k \in DOMAIN form.controls :
                     form.controls[k].t # "Button" =>
                       new[k].content = IF Refreshed(els[k], initial)
                                        THEN Shown(els[k])
                                        ELSE cs[k].content
<1> DEFINE new == ToControls(els, cs, initial)
           controls == form.controls
           writers(k) == {i \in DOMAIN els :
                            /\ GetDlgItem(cs, DLGCONTROLID_BASE + i - 1) = k
                            /\ Refreshed(els[i], initial)}
<1>1. /\ DOMAIN els = DOMAIN controls /\ DOMAIN cs = DOMAIN controls
      /\ \A i \in DOMAIN controls :
            Decoded(els[i], controls[i]) /\ Built(cs[i], controls[i], i)
  BY DEF Whole
<1>2. DOMAIN controls \subseteq Int
  BY DEF IsForm
<1>3. ASSUME NEW k \in DOMAIN controls
      PROVE  /\ writers(k) \subseteq {k}
             /\ controls[k].t # "Button" =>
                  (k \in writers(k) <=> Refreshed(els[k], initial))
  <2>1. writers(k) \subseteq {k}
    <3>1. SUFFICES ASSUME NEW i \in DOMAIN controls,
                          GetDlgItem(cs, DLGCONTROLID_BASE + i - 1) = k
                   PROVE  k = i
      BY <1>1
    <3>2. k \in DOMAIN cs
      BY <1>1
    <3> DEFINE id == DLGCONTROLID_BASE + i - 1
    <3>3. GetDlgItem(cs, id) = k
      BY <3>1
    <3>4. id = DLGCONTROLID_BASE + i - 1
      OBVIOUS
    <3>5. i \in DOMAIN form.controls
      OBVIOUS
    <3> HIDE DEF id
    <3>6. QED
      BY <3>2, <3>3, <3>4, <3>5, NoOtherIsFound, Zenon
  <2>2. controls[k].t # "Button" =>
            GetDlgItem(cs, DLGCONTROLID_BASE + k - 1) = k
    <3>1. GetDlgItem(cs, cs[k].id) = k
      BY <1>1, ControlIsFound
    <3>2. controls[k].t # "Button" => cs[k].id = DLGCONTROLID_BASE + k - 1
      BY OwnId
    <3>3. QED
      BY <3>1, <3>2
  <2>3. QED
    BY <1>1, <2>1, <2>2
<1>4. \A k \in DOMAIN controls :
         new[k] = IF writers(k) = {} \/ cs[k].type = "Button" THEN cs[k]
                  ELSE [cs[k] EXCEPT !.content = Shown(els[Max(writers(k))])]
  BY <1>1 DEF ToControls
<1>5. DOMAIN new = DOMAIN controls
  BY <1>1 DEF ToControls
<1> HIDE DEF new, writers
<1>6. ASSUME NEW k \in DOMAIN controls
      PROVE  /\ Built(new[k], controls[k], k)
             /\ controls[k].t # "Button" =>
                  new[k].content = IF Refreshed(els[k], initial)
                                   THEN Shown(els[k]) ELSE cs[k].content
  <2>1. CASE writers(k) = {} \/ cs[k].type = "Button"
    <3>1. new[k] = cs[k]
      BY <1>4, <2>1
    <3>2. controls[k].t # "Button" => ~Refreshed(els[k], initial)
      BY <1>1, <1>3, <2>1 DEF Built
    <3>3. QED
      BY <1>1, <3>1, <3>2
  <2>2. CASE writers(k) # {} /\ cs[k].type # "Button"
    <3>1. writers(k) = {k} /\ Max({k}) = k
      BY <1>2, <1>3, <2>2, MinOfOne
    <3>2. new[k] = [cs[k] EXCEPT !.content = Shown(els[k])]
      BY <1>4, <2>2, <3>1
    <3>3. Built(cs[k], controls[k], k) /\ controls[k].t # "Button"
      BY <1>1, <2>2 DEF Built
    <3>4. Refreshed(els[k], initial)
      BY <1>3, <3>1, <3>3
    <3>5. new[k].content = Shown(els[k]) /\ Built(new[k], controls[k], k)
      BY <3>2, <3>3 DEF Built, ControlFields
    <3>6. QED
      BY <3>3, <3>4, <3>5
  <2>3. QED
    BY <2>1, <2>2
<1>7. QED
  BY <1>1, <1>5, <1>6 DEF Whole, new

\* From the controls to the data: each element from its own control.
LEMMA ToDataIs ==
    ASSUME NEW form, IsForm(form), NEW els, NEW cs,
           Whole(form.controls, els, cs), NEW focus
    PROVE  LET data == ToData(els, cs, focus)
           IN  /\ Whole(form.controls, data, cs)
               /\ \A i \in DOMAIN form.controls :
                     data[i].value = IF form.controls[i].t = "Button"
                                     THEN Bool(i = focus) ELSE cs[i].content
<1> DEFINE data == ToData(els, cs, focus)
           controls == form.controls
<1>1. /\ DOMAIN els = DOMAIN controls /\ DOMAIN cs = DOMAIN controls
      /\ \A i \in DOMAIN controls :
            Decoded(els[i], controls[i]) /\ Built(cs[i], controls[i], i)
  BY DEF Whole
<1>2. DOMAIN controls \subseteq Int \ {0}
  BY DEF IsForm
<1>3. ASSUME NEW i \in DOMAIN controls
      PROVE  SavedFrom(els, cs, i) = i
  <2>1. SavedFrom(els, cs, i) = GetDlgItem(cs, cs[i].id)
    <3>1. Decoded(els[i], controls[i]) /\ Built(cs[i], controls[i], i)
      BY <1>1
    <3>2. controls[i].t = "Button" =>
             controls[i].submit \in BOOLEAN /\ controls[i].cancel \in BOOLEAN
      BY DEF IsForm, Control
    <3>3. cs[i].id = IF els[i].type # "Button" THEN DLGCONTROLID_BASE + i - 1
                     ELSE IF "Submit" \in els[i].flags THEN IDOK
                     ELSE IF "Cancel" \in els[i].flags THEN IDCANCEL
                     ELSE DLGCONTROLID_BASE + i - 1
      BY <3>1, <3>2 DEF Decoded, Built, IdOf, Submits, Cancels
    <3>4. QED
      BY <3>3 DEF SavedFrom
  <2>2. GetDlgItem(cs, cs[i].id) = i
    BY <1>1, ControlIsFound
  <2>3. QED
    BY <2>1, <2>2
<1>4. \A i \in DOMAIN controls :
         data[i] = [els[i] EXCEPT !.value =
                      IF els[i].type = "Button" THEN Bool(i = focus)
                      ELSE cs[i].content]
  BY <1>1, <1>2, <1>3 DEF ToData
<1>5. DOMAIN data = DOMAIN controls
  BY <1>1 DEF ToData
<1> HIDE DEF data
<1>6. ASSUME NEW i \in DOMAIN controls
      PROVE  /\ Decoded(data[i], controls[i])
             /\ data[i].value = IF controls[i].t = "Button"
                                THEN Bool(i = focus) ELSE cs[i].content
  <2> DEFINE x == IF els[i].type = "Button" THEN Bool(i = focus)
                  ELSE cs[i].content
  <2>1. data[i] = [els[i] EXCEPT !.value = x]
    BY <1>4
  <2>2. Decoded(els[i], controls[i])
    BY <1>1
  <2>3. x = IF controls[i].t = "Button" THEN Bool(i = focus)
            ELSE cs[i].content
    BY <2>2 DEF Decoded
  <2> HIDE DEF x
  <2>4. Decoded(data[i], controls[i]) /\ data[i].value = x
    BY <2>1, <2>2 DEF Decoded, ElementFields
  <2>5. QED
    BY <2>3, <2>4
<1>7. QED
  BY <1>1, <1>5, <1>6 DEF Whole, data

\* The elements that arrive.
LEMMA ElementsArrive ==
    ASSUME NEW form, IsForm(form)
    PROVE  LET els == Elements(form.controls)
           IN  /\ DOMAIN els = DOMAIN form.controls
               /\ \A i \in DOMAIN form.controls :
                     /\ Decoded(els[i], form.controls[i])
                     /\ form.controls[i].t # "Button"
                          => Shown(els[i]) = Told(form.controls[i])
<1>1. \A i \in DOMAIN form.controls : form.controls[i] \in Control
  BY DEF IsForm
<1>2. QED
  BY <1>1, ControlArrives DEF Elements

\* A form is shown as the application described it.
LEMMA DialogBegins ==
    ASSUME NEW form, IsForm(form)
    PROVE  LET els == Elements(form.controls)
               cs == InitModal(els)
           IN  /\ Whole(form.controls, els, cs)
               /\ \A i \in DOMAIN form.controls :
                     form.controls[i].t # "Button" =>
                        cs[i].content = Told(form.controls[i])
<1> DEFINE controls == form.controls
           els == Elements(controls)
           cs == CreateTemplate(els)
<1>1. /\ DOMAIN els = DOMAIN controls
      /\ \A i \in DOMAIN controls :
            /\ Decoded(els[i], controls[i])
            /\ controls[i].t # "Button" => Shown(els[i]) = Told(controls[i])
  BY ElementsArrive
<1>2. \A i \in DOMAIN controls :
         controls[i].t = "Button" =>
            controls[i].submit \in BOOLEAN /\ controls[i].cancel \in BOOLEAN
  BY DEF IsForm, Control
<1> HIDE DEF els
<1>3. DOMAIN cs = DOMAIN controls
  BY <1>1 DEF CreateTemplate
<1>4. ASSUME NEW i \in DOMAIN controls
      PROVE  Built(cs[i], controls[i], i)
  <2>1. /\ DOMAIN cs[i] = ControlFields /\ cs[i].type = els[i].type
        /\ cs[i].id = ControlId(els, i)
    BY <1>1 DEF CreateTemplate, ControlFields
  <2>2. Decoded(els[i], controls[i])
    BY <1>1
  <2>3. ControlId(els, i) = IdOf(controls[i], i)
    <3>1. CASE controls[i].t = "Button" /\ controls[i].submit
      BY <2>2, <3>1 DEF Decoded, ControlId, IdOf, Submits
    <3>2. CASE controls[i].t = "Button" /\ ~controls[i].submit
      BY <2>2, <3>2, <1>2 DEF Decoded, ControlId, IdOf, Submits, Cancels
    <3>3. CASE controls[i].t # "Button"
      BY <2>2, <3>3 DEF Decoded, ControlId, IdOf, Submits, Cancels
    <3>4. QED
      BY <3>1, <3>2, <3>3
  <2>4. QED
    BY <2>1, <2>2, <2>3 DEF Built, Decoded
<1>5. Whole(controls, els, cs)
  BY <1>1, <1>3, <1>4 DEF Whole
<1> HIDE DEF cs
<1>6. LET new == ToControls(els, cs, TRUE)
      IN  /\ Whole(controls, els, new)
          /\ \A k \in DOMAIN controls :
                controls[k].t # "Button" =>
                   new[k].content = IF Refreshed(els[k], TRUE)
                                    THEN Shown(els[k]) ELSE cs[k].content
  <2> DEFINE initial == TRUE
  <2>1. initial \in BOOLEAN
    OBVIOUS
  <2> HIDE DEF initial
  <2>2. LET new == ToControls(els, cs, initial)
        IN  /\ Whole(controls, els, new)
            /\ \A k \in DOMAIN controls :
                  controls[k].t # "Button" =>
                     new[k].content = IF Refreshed(els[k], initial)
                                      THEN Shown(els[k]) ELSE cs[k].content
    BY <2>1, <1>1, <1>3, <1>5, ToControlsIs
  <2>3. QED
    BY <2>2 DEF initial
<1>7. \A k : Refreshed(els[k], TRUE)
  BY DEF Refreshed
<1>8. QED
  BY <1>1, <1>6, <1>7 DEF InitModal, cs, els

\* A reload replaces the updateable elements, each by the one of its name.
LEMMA UpdatedIs ==
    ASSUME NEW of, IsForm(of), NEW form, IsReload(form, of),
           NEW els, NEW cs, Whole(of.controls, els, cs)
    PROVE  LET new == Elements(form.controls)
               data == Updated(els, new)
           IN  /\ Whole(of.controls, data, cs)
               /\ \A j \in DOMAIN of.controls :
                    LET told == {i \in DOMAIN new :
                                   /\ new[i].name = els[j].name
                                   /\ form.controls[i].upd}
                    IN  IF of.controls[j].upd
                        THEN \E i \in DOMAIN new :
                               told = {i} /\ data[j] = new[i]
                        ELSE told = {} /\ data[j] = els[j]
<1> DEFINE new == Elements(form.controls)
           data == Updated(els, new)
           first(e) == Min({j \in DOMAIN els : els[j].name = e.name})
           by(j) == {i \in DOMAIN new : /\ new[i].name = els[j].name
                                        /\ first(new[i]) = j
                                        /\ "Updateable" \in new[i].flags}
           told(j) == {i \in DOMAIN new : /\ new[i].name = els[j].name
                                          /\ form.controls[i].upd}
<1>1. IsForm(form)
  BY DEF IsReload
<1>2. /\ DOMAIN els = DOMAIN of.controls /\ DOMAIN cs = DOMAIN of.controls
      /\ \A i \in DOMAIN of.controls :
            /\ Decoded(els[i], of.controls[i])
            /\ Built(cs[i], of.controls[i], i)
  BY DEF Whole
<1>3. /\ DOMAIN new = DOMAIN form.controls
      /\ \A i \in DOMAIN form.controls : Decoded(new[i], form.controls[i])
  BY <1>1, ElementsArrive
<1>4. /\ \A i \in DOMAIN els : els[i].name = of.controls[i].name
      /\ \A i \in DOMAIN new : /\ new[i].name = form.controls[i].name
                               /\ "Updateable" \in new[i].flags
                                    <=> form.controls[i].upd
  BY <1>2, <1>3 DEF Decoded
<1>5. \A i, j \in DOMAIN els : els[i].name = els[j].name => i = j
  BY <1>2, <1>4 DEF IsForm
<1>6. \A i, j \in DOMAIN new : new[i].name = new[j].name => i = j
  BY <1>1, <1>3, <1>4 DEF IsForm
<1>7. DOMAIN els \subseteq Int /\ DOMAIN new \subseteq Int
  BY <1>1, <1>2, <1>3 DEF IsForm
<1>8. /\ DOMAIN data = DOMAIN els
      /\ \A j \in DOMAIN els :
            data[j] = IF by(j) = {} THEN els[j] ELSE new[Max(by(j))]
  BY DEF Updated
<1> HIDE DEF new, data
<1>9. ASSUME NEW j \in DOMAIN els, NEW i \in DOMAIN new,
             new[i].name = els[j].name
      PROVE  first(new[i]) = j
  <2>1. {k \in DOMAIN els : els[k].name = new[i].name} = {j}
    BY <1>5, <1>9
  <2>2. QED
    BY <2>1, <1>7, MinOfOne
<1>10. \A j \in DOMAIN els : by(j) = told(j)
  BY <1>4, <1>9
<1> HIDE DEF by
<1>11. ASSUME NEW j \in DOMAIN els, NEW i \in DOMAIN new,
              new[i].name = els[j].name
       PROVE  /\ of.controls[j].t = form.controls[i].t
              /\ of.controls[j].upd = form.controls[i].upd
              /\ of.controls[j].t = "Button" =>
                   /\ of.controls[j].submit = form.controls[i].submit
                   /\ of.controls[j].cancel = form.controls[i].cancel
  BY <1>2, <1>3, <1>4, <1>11 DEF IsReload
<1>12. ASSUME NEW j \in DOMAIN els, of.controls[j].upd
       PROVE  \E i \in DOMAIN new : told(j) = {i}
  <2>1. PICK i \in DOMAIN new : new[i].name = els[j].name
    BY <1>2, <1>3, <1>4, <1>12 DEF IsReload
  <2>2. told(j) = {i}
    BY <1>6, <1>11, <1>12, <2>1
  <2>3. QED
    BY <2>2
<1>13. ASSUME NEW j \in DOMAIN els, ~of.controls[j].upd
       PROVE  told(j) = {}
  BY <1>11, <1>13
<1>14. ASSUME NEW j \in DOMAIN els
       PROVE  IF of.controls[j].upd
              THEN \E i \in DOMAIN new : told(j) = {i} /\ data[j] = new[i]
              ELSE told(j) = {} /\ data[j] = els[j]
  <2>1. CASE of.controls[j].upd
    <3>1. PICK i \in DOMAIN new : told(j) = {i}
      BY <1>12, <2>1
    <3>2. by(j) = {i} /\ Max({i}) = i
      BY <1>7, <1>10, <3>1, MinOfOne
    <3>3. data[j] = new[i]
      BY <1>8, <3>2
    <3>4. QED
      BY <2>1, <3>1, <3>3
  <2>2. CASE ~of.controls[j].upd
    <3>1. told(j) = {}
      BY <1>13, <2>2
    <3>2. by(j) = {}
      BY <1>10, <3>1
    <3>3. data[j] = els[j]
      BY <1>8, <3>2
    <3>4. QED
      BY <2>2, <3>1, <3>3
  <2>3. QED
    BY <2>1, <2>2
<1>15. ASSUME NEW j \in DOMAIN els
       PROVE  Decoded(data[j], of.controls[j])
  <2>1. CASE of.controls[j].upd
    <3>1. PICK i \in DOMAIN new : told(j) = {i} /\ data[j] = new[i]
      BY <1>14, <2>1
    <3>2. new[i].name = els[j].name
      BY <3>1
    <3>3. Decoded(new[i], form.controls[i])
      BY <1>3
    <3>4. of.controls[j].name = form.controls[i].name
      BY <1>2, <1>3, <1>4, <3>2
    <3>5. /\ of.controls[j].t = form.controls[i].t
          /\ of.controls[j].upd = form.controls[i].upd
          /\ of.controls[j].t = "Button" =>
               /\ of.controls[j].submit = form.controls[i].submit
               /\ of.controls[j].cancel = form.controls[i].cancel
      BY <1>11, <3>2
    <3>6. Decoded(new[i], of.controls[j])
      BY <3>3, <3>4, <3>5 DEF Decoded
    <3>7. QED
      BY <3>1, <3>6
  <2>2. CASE ~of.controls[j].upd
    BY <1>2, <1>14, <2>2
  <2>3. QED
    BY <2>1, <2>2
<1>16. Whole(of.controls, data, cs)
  BY <1>2, <1>8, <1>15 DEF Whole
<1>17. QED
  BY <1>2, <1>14, <1>16 DEF new, data

-----------------------------------------------------------------------------
(* What holds of every dialog, from its beginning to its answer. *)

DialogFields == {"name", "els", "cs", "timed", "ended", "pressed", "shown"}

\* One control for each element; what it shows is what was said last, and
\* what the element has once the dialog has ended.
DialogFits(d) ==
    LET controls == FormOf[d.name].controls
    IN  /\ d.name \in DOMAIN FormOf /\ DOMAIN d = DialogFields
        /\ Whole(controls, d.els, d.cs) /\ DOMAIN d.shown = DOMAIN controls
        /\ \A i \in DOMAIN controls :
              /\ controls[i].t # "Button" =>
                    d.cs[i].content = d.shown[i] /\ d.shown[i][1] # "empty"
              /\ d.ended =>
                    IF controls[i].t # "Button" THEN d.els[i].value = d.shown[i]
                    ELSE ~d.timed => d.els[i].value = Bool(i = d.pressed)

\* OnInitDialog: a dialog as the form's event asks for it.
LEMMA DialogFitsAtFirst ==
    ASSUME NEW name \in DOMAIN FormOf
    PROVE  DialogFits(Dialog[name])
<1> DEFINE form == FormOf[name]
           controls == form.controls
           els == Elements(controls)
           cs == InitModal(els)
           d == Dialog[name]
<1>1. IsForm(form)
  BY FormsAssumption
<1>2. d = [name |-> name, els |-> els, cs |-> cs, timed |-> form.timed,
           ended |-> FALSE, pressed |-> 0,
           shown |-> [i \in DOMAIN els |-> Told(controls[i])]]
  BY DEF Dialog
<1>3. /\ Whole(controls, els, cs)
      /\ \A i \in DOMAIN controls :
            controls[i].t # "Button" => cs[i].content = Told(controls[i])
  BY <1>1, DialogBegins
<1>4. DOMAIN els = DOMAIN controls
  BY <1>3, SMTT(30) DEF Whole
<1> HIDE DEF els, cs, d
<1>5. /\ d.name = name /\ DOMAIN d = DialogFields /\ d.els = els /\ d.cs = cs
      /\ ~d.ended /\ DOMAIN d.shown = DOMAIN controls
      /\ \A i \in DOMAIN controls : d.shown[i] = Told(controls[i])
  BY <1>2, <1>4 DEF DialogFields
<1>6. \A i \in DOMAIN controls :
         controls[i].t # "Button" => Told(controls[i])[1] # "empty"
  BY <1>1, ToldIsNotEmpty DEF IsForm
<1>7. QED
  BY <1>3, <1>5, <1>6 DEF DialogFits, d

\* The user changes a control, and with it what was said last.
LEMMA DialogFitsAfterEnter ==
    ASSUME NEW d, DialogFits(d), NEW i \in DOMAIN d.cs,
           NEW x \in Offered(d.cs[i]), ~d.ended
    PROVE  DialogFits([d EXCEPT !.cs[i].content = x, !.shown[i] = x])
<1> DEFINE controls == FormOf[d.name].controls
           e == [d EXCEPT !.cs[i].content = x, !.shown[i] = x]
<1>1. /\ d.name \in DOMAIN FormOf /\ DOMAIN d = DialogFields
      /\ DOMAIN d.els = DOMAIN controls /\ DOMAIN d.cs = DOMAIN controls
      /\ DOMAIN d.shown = DOMAIN controls
      /\ \A k \in DOMAIN controls :
            /\ Decoded(d.els[k], controls[k]) /\ Built(d.cs[k], controls[k], k)
            /\ controls[k].t # "Button" =>
                 d.cs[k].content = d.shown[k] /\ d.shown[k][1] # "empty"
  BY DEF DialogFits, Whole
<1>2. x[1] # "empty"
  <2>1. \/ \E y \in Texts : x = Str(y)
        \/ x \in {Bool(TRUE), Bool(FALSE)}
        \/ \E o : x = <<"int", o>>
    BY DEF Offered
  <2>2. /\ \A y : Str(y)[1] = "str"
        /\ Bool(TRUE)[1] = "bool" /\ Bool(FALSE)[1] = "bool"
        /\ \A o : <<"int", o>>[1] = "int"
    BY DEF Str, Bool
  <2>3. QED
    BY <2>1, <2>2
<1>3. /\ e.name = d.name /\ DOMAIN e = DialogFields /\ e.els = d.els
      /\ ~e.ended
      /\ e.cs = [d.cs EXCEPT ![i].content = x]
      /\ e.shown = [d.shown EXCEPT ![i] = x]
  BY <1>1 DEF DialogFields
<1> HIDE DEF e
<1>4. DOMAIN e.cs = DOMAIN controls /\ DOMAIN e.shown = DOMAIN controls
  BY <1>1, <1>3
<1>5. ASSUME NEW k \in DOMAIN controls
      PROVE  /\ Built(e.cs[k], controls[k], k)
             /\ controls[k].t # "Button" =>
                  e.cs[k].content = e.shown[k] /\ e.shown[k][1] # "empty"
  <2>1. CASE k = i
    <3>1. e.cs[k] = [d.cs[k] EXCEPT !.content = x] /\ e.shown[k] = x
      BY <1>1, <1>3, <2>1
    <3>2. Built(d.cs[k], controls[k], k)
      BY <1>1
    <3>3. Built(e.cs[k], controls[k], k) /\ e.cs[k].content = x
      BY <3>1, <3>2 DEF Built, ControlFields
    <3>4. QED
      BY <1>2, <3>1, <3>3
  <2>2. CASE k # i
    BY <1>1, <1>3, <2>2
  <2>3. QED
    BY <2>1, <2>2
<1>6. Whole(controls, e.els, e.cs)
  BY <1>1, <1>3, <1>4, <1>5 DEF Whole
<1>7. QED
  BY <1>1, <1>3, <1>4, <1>5, <1>6 DEF DialogFits, e

\* A dialog ends, and for one with a timer its data may be read once more.
LEMMA DialogFitsAfterEnd ==
    ASSUME NEW d, DialogFits(d), NEW focus, d.ended => d.timed
    PROVE  DialogFits([d EXCEPT
               !.els = ToData(d.els, d.cs, focus), !.ended = TRUE,
               !.pressed = IF d.ended THEN @ ELSE focus])
<1> DEFINE controls == FormOf[d.name].controls
           data == ToData(d.els, d.cs, focus)
           e == [d EXCEPT !.els = data, !.ended = TRUE,
                          !.pressed = IF d.ended THEN @ ELSE focus]
<1>1. /\ d.name \in DOMAIN FormOf /\ DOMAIN d = DialogFields
      /\ Whole(controls, d.els, d.cs) /\ DOMAIN d.shown = DOMAIN controls
      /\ \A k \in DOMAIN controls : controls[k].t # "Button" =>
            d.cs[k].content = d.shown[k] /\ d.shown[k][1] # "empty"
  BY DEF DialogFits
<1>2. IsForm(FormOf[d.name])
  BY <1>1, FormsAssumption
<1>3. /\ Whole(controls, data, d.cs)
      /\ \A i \in DOMAIN controls :
            data[i].value = IF controls[i].t = "Button" THEN Bool(i = focus)
                            ELSE d.cs[i].content
  <2>1. DOMAIN d.cs = DOMAIN controls /\ DOMAIN d.els = DOMAIN controls
    BY <1>1 DEF Whole
  <2> DEFINE form == FormOf[d.name]
             els == d.els
             cs == d.cs
  <2>2. /\ IsForm(form) /\ Whole(form.controls, els, cs)
        /\ DOMAIN cs = DOMAIN form.controls
        /\ DOMAIN els = DOMAIN form.controls
    BY <1>1, <1>2, <2>1
  <2> HIDE DEF form, els, cs
  <2>3. LET new == ToData(els, cs, focus)
        IN  /\ Whole(form.controls, new, cs)
            /\ \A i \in DOMAIN form.controls :
                  new[i].value = IF form.controls[i].t = "Button"
                                 THEN Bool(i = focus) ELSE cs[i].content
    BY <2>2, ToDataIs
  <2>4. QED
    BY <2>3 DEF form, els, cs
<1> HIDE DEF data
<1>4. /\ e.name = d.name /\ DOMAIN e = DialogFields /\ e.els = data
      /\ e.ended /\ e.cs = d.cs /\ e.shown = d.shown /\ e.timed = d.timed
      /\ ~d.timed => e.pressed = focus
  BY <1>1 DEF DialogFields
<1> HIDE DEF e
<1>5. ASSUME NEW i \in DOMAIN controls
      PROVE  IF controls[i].t # "Button" THEN e.els[i].value = e.shown[i]
             ELSE ~e.timed => e.els[i].value = Bool(i = e.pressed)
  BY <1>1, <1>3, <1>4
<1>6. QED
  BY <1>1, <1>3, <1>4, <1>5 DEF DialogFits, e, data

\* What the dialog shows after a reload: the updateable controls what the
\* application says now, the others what they have shown.
Reloaded(d, form) ==
    LET new == Elements(form.controls)
        told(i) == {j \in DOMAIN new : new[j].name = d.els[i].name
                                       /\ form.controls[j].upd}
    IN  [d EXCEPT !.els = Updated(d.els, new),
                  !.cs = UpdateContent(d.els, d.cs, new),
                  !.timed = form.timed,
                  !.shown = [i \in DOMAIN @ |->
                     IF told(i) = {} THEN @[i]
                     ELSE Told(form.controls[Max(told(i))])]]

\* UpdateContent: what the new form has of the old one's controls is shown.
LEMMA DialogFitsAfterReload ==
    ASSUME NEW d, DialogFits(d), ~d.ended, NEW form \in Reloads[d.name]
    PROVE  DialogFits(Reloaded(d, form))
<1> DEFINE of == FormOf[d.name]
           controls == of.controls
           new == Elements(form.controls)
           told(i) == {j \in DOMAIN new : new[j].name = d.els[i].name
                                          /\ form.controls[j].upd}
           data == Updated(d.els, new)
           cs == UpdateContent(d.els, d.cs, new)
           shown == [i \in DOMAIN d.shown |->
                       IF told(i) = {} THEN d.shown[i]
                       ELSE Told(form.controls[Max(told(i))])]
           e == Reloaded(d, form)
<1>1. /\ d.name \in DOMAIN FormOf /\ DOMAIN d = DialogFields
      /\ Whole(controls, d.els, d.cs) /\ DOMAIN d.shown = DOMAIN controls
      /\ \A k \in DOMAIN controls : controls[k].t # "Button" =>
            d.cs[k].content = d.shown[k] /\ d.shown[k][1] # "empty"
  BY DEF DialogFits
<1>2. IsForm(of) /\ IsReload(form, of) /\ IsForm(form)
  BY <1>1, FormsAssumption DEF IsReload
<1>3. /\ Whole(controls, data, d.cs)
      /\ \A j \in DOMAIN controls :
            IF controls[j].upd
            THEN \E i \in DOMAIN new : told(j) = {i} /\ data[j] = new[i]
            ELSE told(j) = {} /\ data[j] = d.els[j]
  BY <1>1, <1>2, UpdatedIs, SMTT(30)
<1>4. /\ DOMAIN new = DOMAIN form.controls
      /\ \A i \in DOMAIN form.controls :
            /\ Decoded(new[i], form.controls[i])
            /\ form.controls[i].t # "Button"
                 => Shown(new[i]) = Told(form.controls[i])
  BY <1>2, ElementsArrive
<1>5. cs = ToControls(data, d.cs, FALSE)
  BY DEF UpdateContent
<1>6. /\ e.name = d.name /\ DOMAIN e = DialogFields /\ e.els = data
      /\ ~e.ended /\ e.cs = cs /\ e.shown = shown
  BY <1>1 DEF Reloaded, DialogFields
<1> HIDE DEF new, data, cs, e, told
<1>7. /\ Whole(controls, data, cs)
      /\ \A k \in DOMAIN controls :
            controls[k].t # "Button" =>
               cs[k].content = IF Refreshed(data[k], FALSE)
                               THEN Shown(data[k]) ELSE d.cs[k].content
  <2> DEFINE initial == FALSE
  <2>1. initial \in BOOLEAN /\ cs = ToControls(data, d.cs, initial)
    BY <1>5
  <2>2. DOMAIN d.cs = DOMAIN controls /\ DOMAIN data = DOMAIN controls
    BY <1>3 DEF Whole
  <2> HIDE DEF initial
  <2>3. /\ Whole(controls, data, cs)
        /\ \A k \in DOMAIN controls :
              controls[k].t # "Button" =>
                 cs[k].content = IF Refreshed(data[k], initial)
                                 THEN Shown(data[k]) ELSE d.cs[k].content
    BY <1>2, <1>3, <2>1, <2>2, ToControlsIs, SMTT(30)
  <2>4. QED
    BY <2>3 DEF initial
<1>8. ASSUME NEW k \in DOMAIN controls, controls[k].t # "Button"
      PROVE  cs[k].content = shown[k] /\ shown[k][1] # "empty"
  <2>1. controls[k].upd <=> Refreshed(data[k], FALSE)
    BY <1>3 DEF Refreshed, Whole, Decoded
  <2>2. CASE controls[k].upd
    <3>1. PICK i \in DOMAIN new : told(k) = {i} /\ data[k] = new[i]
      BY <1>3, <2>2
    <3>2. Max({i}) = i
      <4>1. form.controls \in Seq(Control)
        BY <1>2 DEF IsForm
      <4>2. i \in Int
        BY <1>4, <4>1
      <4>3. QED
        BY <4>2, MinOfOne
    <3>3. shown[k] = Told(form.controls[i])
      BY <1>1, <3>1, <3>2
    <3>4. form.controls[i].t # "Button" /\ form.controls[i] \in Control
      <4>1. Decoded(data[k], controls[k]) /\ Decoded(new[i], form.controls[i])
        BY <1>3, <1>4 DEF Whole
      <4>2. QED
        BY <1>2, <1>4, <1>8, <3>1, <4>1 DEF Decoded, IsForm
    <3>5. cs[k].content = Told(form.controls[i])
      BY <1>4, <1>7, <1>8, <2>1, <2>2, <3>1, <3>4
    <3>6. QED
      BY <3>3, <3>4, <3>5, ToldIsNotEmpty
  <2>3. CASE ~controls[k].upd
    <3>1. told(k) = {}
      BY <1>3, <2>3
    <3>2. shown[k] = d.shown[k]
      BY <1>1, <3>1
    <3>3. cs[k].content = d.cs[k].content
      BY <1>7, <1>8, <2>1, <2>3
    <3>4. QED
      BY <1>1, <1>8, <3>2, <3>3
  <2>4. QED
    BY <2>2, <2>3
<1>9. DOMAIN shown = DOMAIN controls
  BY <1>1
<1> HIDE DEF shown
<1>10. QED
  BY <1>1, <1>6, <1>7, <1>8, <1>9 DEF DialogFits, e

-----------------------------------------------------------------------------
(* What the functions of the server fire. *)

\* The functions an application fires events with.
LEMMA CallsAreKnown ==
    ASSUME NEW call \in Calls
    PROVE  \/ call[1] \in {"Alert", "AlertVarLimit"} /\ IsAlert(call[2])
           \/ /\ call[1] \in {"RequestOpenForm", "RequestCloseForm", "FormClose"}
              /\ call[2] \in DOMAIN FormOf
           \/ call[1] = "RequestAudioRec" /\ call[2] \in Nat
           \/ call[1] \in {"MsgBox", "NotifyAppChanged", "VarlistChanged"}
           \/ call[1] \in {"MeasurementStarted", "MeasurementStopped"}
           \/ call[1] \in {"IdentifyClient", "StopAudioRec"}
  BY FormsAssumption DEF FormFunctions, PlainFunctions

\* Each function fires its own event.
LEMMA EventIs ==
    ASSUME NEW call
    PROVE  LET e == EventOf(call)
               a == call[2]
           IN  /\ call[1] = "Alert" => e = Alert(a)
               /\ call[1] = "AlertVarLimit" => e = AlertVarLimit(a)
               /\ call[1] = "MsgBox" => e = MsgBox(a)
               /\ call[1] = "NotifyAppChanged" => e = NotifyAppChanged
               /\ call[1] = "VarlistChanged" => e = FireVarlistChanged
               /\ call[1] = "MeasurementStarted" => e = FireMeasurementStarted
               /\ call[1] = "MeasurementStopped" => e = FireMeasurementStopped
               /\ call[1] = "IdentifyClient" => e = IdentifyClient(a)
               /\ call[1] = "RequestOpenForm" => e = RequestOpenForm(a)
               /\ call[1] = "RequestCloseForm" => e = RequestCloseForm(a)
               /\ call[1] = "FormClose" => e = FireFormClose(a)
               /\ call[1] = "RequestAudioRec" => e = RequestAudioRec(1, a)
               /\ call[1] = "StopAudioRec" => e = StopAudioRec(1)
  BY DEF EventOf

\* The types of the events, as a client gets to see them.
LEMMA EventTypeIs ==
    ASSUME NEW call
    PROVE  LET e == EventOf(call)
               a == call[2]
           IN  /\ call[1] = "Alert" => e.type = "Alert"
               /\ call[1] = "AlertVarLimit" => e.type = "LimitAlert"
               /\ call[1] = "MsgBox" =>
                     e.type = "Alert" /\ e.text = MsgBoxMembers(a)
               /\ call[1] = "NotifyAppChanged" => e.type = "AppChanged"
               /\ call[1] = "VarlistChanged" => e.type = "VarlistChanged"
               /\ call[1] = "MeasurementStarted"
                     => e.type = "MeasurementStarted"
               /\ call[1] = "MeasurementStopped"
                     => e.type = "MeasurementStopped"
               /\ call[1] = "IdentifyClient" =>
                     e.type = "Identify" /\ e.text = a
               /\ call[1] = "RequestOpenForm" =>
                     e.type = "FormRequired" /\ e.text = a
               /\ call[1] \in {"RequestCloseForm", "FormClose"} =>
                     e.type = "FormClose" /\ e.text = a
               /\ call[1] = "RequestAudioRec" =>
                     /\ e.type = "AudioRecRequest"
                     /\ e.param1 = 1 /\ e.param2 = a
               /\ call[1] = "StopAudioRec" =>
                     e.type = "AudioRecStop" /\ e.param1 = 1
<1> DEFINE e == EventOf(call)
           a == call[2]
<1> HIDE DEF e
<1>1. /\ call[1] = "Alert" => e.type = "Alert"
      /\ call[1] = "AlertVarLimit" => e.type = "LimitAlert"
      /\ call[1] = "MsgBox" => e.type = "Alert" /\ e.text = MsgBoxMembers(a)
  BY EventIs DEF Alert, AlertVarLimit, MsgBox, Fired, e
<1>2. /\ call[1] = "NotifyAppChanged" => e.type = "AppChanged"
      /\ call[1] = "VarlistChanged" => e.type = "VarlistChanged"
      /\ call[1] = "MeasurementStarted" => e.type = "MeasurementStarted"
      /\ call[1] = "MeasurementStopped" => e.type = "MeasurementStopped"
  <2>1. \A type : Bare(type).type = type
    BY DEF Bare, Fired
  <2>2. /\ call[1] = "NotifyAppChanged" => e = Bare("AppChanged")
        /\ call[1] = "VarlistChanged" => e = Bare("VarlistChanged")
        /\ call[1] = "MeasurementStarted" => e = Bare("MeasurementStarted")
        /\ call[1] = "MeasurementStopped" => e = Bare("MeasurementStopped")
    BY EventIs
       DEF NotifyAppChanged, FireVarlistChanged, FireMeasurementStarted,
           FireMeasurementStopped, e
  <2>3. QED
    BY <2>1, <2>2
<1>3. /\ call[1] = "IdentifyClient" => e.type = "Identify" /\ e.text = a
      /\ call[1] = "RequestOpenForm" => e.type = "FormRequired" /\ e.text = a
      /\ call[1] = "RequestCloseForm" => e.type = "FormClose" /\ e.text = a
      /\ call[1] = "FormClose" => e.type = "FormClose" /\ e.text = a
  BY EventIs
     DEF IdentifyClient, RequestOpenForm, RequestCloseForm, FireFormClose,
         Fired, e
<1>4. /\ call[1] = "RequestAudioRec" =>
           e.type = "AudioRecRequest" /\ e.param1 = 1 /\ e.param2 = a
      /\ call[1] = "StopAudioRec" => e.type = "AudioRecStop" /\ e.param1 = 1
  <2>1. /\ call[1] = "RequestAudioRec" => e = RequestAudioRec(1, a)
        /\ call[1] = "StopAudioRec" => e = StopAudioRec(1)
    BY EventIs DEF e
  <2>2. /\ RequestAudioRec(1, a).type = "AudioRecRequest"
        /\ RequestAudioRec(1, a).param1 = 1
        /\ RequestAudioRec(1, a).param2 = a
    BY DEF RequestAudioRec, Fired
  <2>3. StopAudioRec(1).type = "AudioRecStop" /\ StopAudioRec(1).param1 = 1
    BY DEF StopAudioRec, Fired
  <2>4. QED
    BY <2>1, <2>2, <2>3
<1>5. QED
  BY <1>1, <1>2, <1>3, <1>4 DEF e

\* Only three functions of the server ask for a form, each by its name.
LEMMA RequestsNameForms ==
    ASSUME NEW call \in Calls
    PROVE  LET e == EventOf(call)
           IN  /\ IsFormOpen(e) \/ IsFormClose(e) =>
                     /\ call[2] \in DOMAIN FormOf
                     /\ GetFormName(e) = call[2]
<1> DEFINE e == EventOf(call)
<1>1. CASE call[1] \in {"RequestOpenForm", "RequestCloseForm", "FormClose"}
  <2>1. call[2] \in DOMAIN FormOf
    BY <1>1, CallsAreKnown
  <2>2. e.text = call[2]
    BY <1>1, EventTypeIs
  <2>3. QED
    BY <2>1, <2>2 DEF GetFormName
<1>2. CASE call[1] \in {"Alert", "AlertVarLimit", "MsgBox"}
  BY <1>2, EventTypeIs DEF IsFormOpen, IsFormClose
<1>3. CASE call[1] \in {"NotifyAppChanged", "VarlistChanged"}
  BY <1>3, EventTypeIs DEF IsFormOpen, IsFormClose
<1>4. CASE call[1] \in {"MeasurementStarted", "MeasurementStopped"}
  BY <1>4, EventTypeIs DEF IsFormOpen, IsFormClose
<1>5. CASE call[1] \in {"IdentifyClient", "RequestAudioRec", "StopAudioRec"}
  BY <1>5, EventTypeIs DEF IsFormOpen, IsFormClose
<1>6. QED
  BY <1>1, <1>2, <1>3, <1>4, <1>5, CallsAreKnown

\* What the client makes of the type of an event.
LEMMA RecognisedIs ==
    ASSUME NEW e, NEW x
    PROVE  x \in Recognised(e) <=>
             \/ e.type = "Identify" /\ x = "identification"
             \/ e.type \in {"LimitAlert", "Alert"} /\ x = "alert"
             \/ e.type = "FormRequired" /\ x = "open"
             \/ e.type = "FormClose" /\ x = "close"
             \/ e.type = "VarlistChanged" /\ x = "varlist"
             \/ e.type = "AppChanged" /\ x = "app"
             \/ e.type = "AudioRecRequest" /\ x = "record"
             \/ e.type = "AudioRecStop" /\ x = "stop"
<1> DEFINE s1 == IF IsIdentification(e) THEN {"identification"} ELSE {}
           s2 == IF IsLimitAlert(e) THEN {"alert"} ELSE {}
           s3 == IF IsFormOpen(e) THEN {"open"} ELSE {}
           s4 == IF IsFormClose(e) THEN {"close"} ELSE {}
           s5 == IF IsVarlistChanged(e) THEN {"varlist"} ELSE {}
           s6 == IF IsAppChanged(e) THEN {"app"} ELSE {}
           s7 == IF IsAudioRecReq(e) THEN {"record"} ELSE {}
           s8 == IF IsAudioRecStop(e) THEN {"stop"} ELSE {}
<1>1. Recognised(e) = UNION {s1, s2, s3, s4, s5, s6, s7, s8}
  BY DEF Recognised
<1>2. /\ x \in s1 <=> e.type = "Identify" /\ x = "identification"
      /\ x \in s2 <=> e.type \in {"LimitAlert", "Alert"} /\ x = "alert"
      /\ x \in s3 <=> e.type = "FormRequired" /\ x = "open"
      /\ x \in s4 <=> e.type = "FormClose" /\ x = "close"
      /\ x \in s5 <=> e.type = "VarlistChanged" /\ x = "varlist"
      /\ x \in s6 <=> e.type = "AppChanged" /\ x = "app"
      /\ x \in s7 <=> e.type = "AudioRecRequest" /\ x = "record"
      /\ x \in s8 <=> e.type = "AudioRecStop" /\ x = "stop"
  BY DEF IsIdentification, IsLimitAlert, IsFormOpen, IsFormClose,
         IsVarlistChanged, IsAppChanged, IsAudioRecReq, IsAudioRecStop
<1> HIDE DEF s1, s2, s3, s4, s5, s6, s7, s8
<1>3. x \in Recognised(e) <=>
        \/ x \in s1 \/ x \in s2 \/ x \in s3 \/ x \in s4
        \/ x \in s5 \/ x \in s6 \/ x \in s7 \/ x \in s8
  BY <1>1
<1>4. QED
  BY <1>2, <1>3

\* An event is recognised by its type, but for alerts of two types.
LEMMA RecognisedByType ==
    ASSUME NEW e
    PROVE  /\ e.type = "Identify" => Recognised(e) = {"identification"}
           /\ e.type \in {"LimitAlert", "Alert"} => Recognised(e) = {"alert"}
           /\ e.type = "FormRequired" => Recognised(e) = {"open"}
           /\ e.type = "FormClose" => Recognised(e) = {"close"}
           /\ e.type = "VarlistChanged" => Recognised(e) = {"varlist"}
           /\ e.type = "AppChanged" => Recognised(e) = {"app"}
           /\ e.type = "AudioRecRequest" => Recognised(e) = {"record"}
           /\ e.type = "AudioRecStop" => Recognised(e) = {"stop"}
           /\ e.type \in {"MeasurementStarted", "MeasurementStopped"}
                => Recognised(e) = {}
  BY RecognisedIs


-----------------------------------------------------------------------------
(* The members of an alert. *)

\* An alert's own members are told apart from what it has in addition.
LEMMA MembersOfAlert ==
    ASSUME NEW a, IsAlert(a), NEW kind
    PROVE  LET ms == AlertMembers(kind, a)
               v == IF a.value # Null THEN a.value ELSE ValueNow
               hasValue == /\ a.name # Null
                           /\ a.value # Null \/ a.name[2] \in KnownVars
           IN  /\ \E S : ms \in Seq(S)
               /\ IF a.class # Null THEN Only(ms, "Class", a.class)
                  ELSE Without(ms, "Class")
               /\ IF a.name # Null THEN Only(ms, "Name", a.name)
                  ELSE Without(ms, "Name")
               /\ IF hasValue THEN Only(ms, "Value", v)
                  ELSE Without(ms, "Value")
               /\ IF kind = "Alert"
                  THEN Only(ms, "_NoClientSideSuppress",
                            <<"bool", a.noSuppress>>)
                  ELSE Without(ms, "_NoClientSideSuppress")
<1> DEFINE ms == AlertMembers(kind, a)
           v == IF a.value # Null THEN a.value ELSE ValueNow
           hasValue == /\ a.name # Null
                       /\ a.value # Null \/ a.name[2] \in KnownVars
           class == IF a.class = Null THEN <<>> ELSE <<<<"Class", a.class>>>>
           value == IF a.value # Null THEN <<<<"Value", a.value>>>>
                    ELSE IF a.name[2] \in KnownVars
                    THEN <<<<"Value", ValueNow>>>> ELSE <<>>
           named == <<<<"Name", a.name>>>>
           name == IF a.name = Null THEN <<>> ELSE named \o value
           flag == IF kind = "Alert"
                   THEN <<<<"_NoClientSideSuppress", <<"bool", a.noSuppress>>>>>>
                   ELSE <<>>
           u1 == class \o name
           u2 == u1 \o flag
           S == Range(a.extra)
                  \cup {<<"Class", a.class>>, <<"Name", a.name>>,
                        <<"Value", a.value>>, <<"Value", ValueNow>>,
                        <<"_NoClientSideSuppress", <<"bool", a.noSuppress>>>>}
           Own == {"Class", "Name", "Value", "_NoClientSideSuppress"}
<1>1. ms = u2 \o a.extra
  BY DEF AlertMembers
<1>2. a.extra \in Seq(S) /\ \A n \in Own : Without(a.extra, n)
  BY DEF IsAlert, Without
<1>3. /\ class \in Seq(S) /\ value \in Seq(S) /\ named \in Seq(S)
      /\ flag \in Seq(S)
  OBVIOUS
<1>4. /\ IF a.class # Null THEN Only(class, "Class", a.class)
         ELSE Without(class, "Class")
      /\ \A n \in Own : n # "Class" => Without(class, n)
  BY Short, NotFirst
<1>5. /\ hasValue => Only(value, "Value", v)
      /\ a.name # Null /\ ~hasValue => Without(value, "Value")
      /\ \A n \in Own : n # "Value" => Without(value, n)
  BY Short, NotFirst
<1>6. /\ Only(named, "Name", a.name)
      /\ \A n \in Own : n # "Name" => Without(named, n)
  BY Short, NotFirst
<1>7. /\ IF kind = "Alert" THEN Only(flag, "_NoClientSideSuppress",
                                     <<"bool", a.noSuppress>>)
         ELSE Without(flag, "_NoClientSideSuppress")
      /\ \A n \in Own : n # "_NoClientSideSuppress" => Without(flag, n)
  BY Short, NotFirst
<1> HIDE DEF S, class, value, named, flag, ms
<1>8. /\ name \in Seq(S)
      /\ IF a.name # Null THEN Only(name, "Name", a.name)
         ELSE Without(name, "Name")
      /\ IF hasValue THEN Only(name, "Value", v) ELSE Without(name, "Value")
      /\ \A n \in Own : n # "Name" /\ n # "Value" => Without(name, n)
  <2>1. CASE a.name = Null
    <3>1. name = <<>>
      BY <2>1
    <3>2. <<>> \in Seq(S) /\ \A n : Without(<<>>, n)
      BY DEF Without
    <3>3. QED
      BY <2>1, <3>1, <3>2
  <2>2. CASE a.name # Null
    <3>1. name = named \o value
      BY <2>2
    <3> HIDE DEF name, v
    <3>2. name \in Seq(S) /\ Only(name, "Name", a.name)
      BY <1>3, <1>5, <1>6, <3>1, Joined
    <3>3. IF hasValue THEN Only(name, "Value", v) ELSE Without(name, "Value")
      BY <1>3, <1>5, <1>6, <2>2, <3>1, Joined
    <3>4. \A n \in Own : n # "Name" /\ n # "Value" => Without(name, n)
      BY <1>3, <1>5, <1>6, <3>1, Joined
    <3>5. QED
      BY <2>2, <3>2, <3>3, <3>4
  <2>3. QED
    BY <2>1, <2>2
<1> HIDE DEF name, v, hasValue
<1>9. /\ u1 \in Seq(S)
      /\ IF a.class # Null THEN Only(u1, "Class", a.class)
         ELSE Without(u1, "Class")
      /\ IF a.name # Null THEN Only(u1, "Name", a.name)
         ELSE Without(u1, "Name")
      /\ IF hasValue THEN Only(u1, "Value", v) ELSE Without(u1, "Value")
      /\ Without(u1, "_NoClientSideSuppress")
  BY <1>3, <1>4, <1>8, Joined
<1> HIDE DEF u1
<1>10. /\ u2 \in Seq(S)
       /\ IF a.class # Null THEN Only(u2, "Class", a.class)
          ELSE Without(u2, "Class")
       /\ IF a.name # Null THEN Only(u2, "Name", a.name)
          ELSE Without(u2, "Name")
       /\ IF hasValue THEN Only(u2, "Value", v) ELSE Without(u2, "Value")
       /\ IF kind = "Alert" THEN Only(u2, "_NoClientSideSuppress",
                                      <<"bool", a.noSuppress>>)
          ELSE Without(u2, "_NoClientSideSuppress")
  BY <1>3, <1>7, <1>9, Joined
<1> HIDE DEF u2
<1>11. /\ ms \in Seq(S)
       /\ IF a.class # Null THEN Only(ms, "Class", a.class)
          ELSE Without(ms, "Class")
       /\ IF a.name # Null THEN Only(ms, "Name", a.name)
          ELSE Without(ms, "Name")
       /\ IF hasValue THEN Only(ms, "Value", v) ELSE Without(ms, "Value")
       /\ IF kind = "Alert" THEN Only(ms, "_NoClientSideSuppress",
                                      <<"bool", a.noSuppress>>)
          ELSE Without(ms, "_NoClientSideSuppress")
  BY <1>1, <1>2, <1>10, Joined
<1>12. QED
  BY <1>11 DEF ms, v, hasValue

\* A client reads an alert as the application has described it.
LEMMA AlertIsRead ==
    ASSUME NEW call \in Calls, call[1] \in {"Alert", "AlertVarLimit"}
    PROVE  LET e == EventOf(call)
               a == call[2]
               read == GetLimitParams(e)
               hasValue == /\ a.name # Null
                           /\ a.value # Null \/ a.name[2] \in KnownVars
           IN  /\ e.param1 = a.priority
               /\ read.ok <=> a.class # Null \/ hasValue
               /\ read.class = a.class /\ read.name = a.name
               /\ read.value = IF ~hasValue THEN Null
                              ELSE IF a.value # Null THEN a.value ELSE ValueNow
               /\ read.noSuppress <=> call[1] = "Alert" /\ a.noSuppress
<1> DEFINE e == EventOf(call)
           a == call[2]
           kind == IF call[1] = "Alert" THEN "Alert" ELSE "LimitAlert"
           ms == AlertMembers(kind, a)
           v == IF a.value # Null THEN a.value ELSE ValueNow
           hasValue == /\ a.name # Null
                       /\ a.value # Null \/ a.name[2] \in KnownVars
           found(name, types) ==
              {i \in DOMAIN e.text :
                  e.text[i][1] = name /\ e.text[i][2][1] \in types}
           get(name, types) == IF found(name, types) = {} THEN Null
                               ELSE e.text[Max(found(name, types))][2]
           read == GetLimitParams(e)
           Values == {"str", "num", "bool"}
           flag == get("_NoClientSideSuppress", {"bool"})
<1>1. IsAlert(a)
  BY CallsAreKnown
<1>2. e.text = ms /\ e.param1 = a.priority
  BY EventIs DEF Alert, AlertVarLimit, Fired
<1>3. read = [ok |-> \/ get("Name", {"str"}) # Null /\ get("Value", Values) # Null
                    \/ get("Class", {"str"}) # Null,
             name |-> get("Name", {"str"}), value |-> get("Value", Values),
             class |-> get("Class", {"str"}),
             noSuppress |-> flag = <<"bool", TRUE>>]
  BY DEF GetLimitParams
<1>4. /\ IF a.class # Null THEN Only(ms, "Class", a.class)
         ELSE Without(ms, "Class")
      /\ IF a.name # Null THEN Only(ms, "Name", a.name) ELSE Without(ms, "Name")
      /\ IF hasValue THEN Only(ms, "Value", v) ELSE Without(ms, "Value")
      /\ IF call[1] = "Alert"
         THEN Only(ms, "_NoClientSideSuppress", <<"bool", a.noSuppress>>)
         ELSE Without(ms, "_NoClientSideSuppress")
  <2>1. kind = "Alert" <=> call[1] = "Alert"
    OBVIOUS
  <2> HIDE DEF kind
  <2>2. QED
    BY <1>1, <2>1, MembersOfAlert
<1>5. PICK S : ms \in Seq(S)
  <2> HIDE DEF kind
  <2>1. QED
    BY <1>1, MembersOfAlert
<1> HIDE DEF e, ms, read
<1>6. \A name, types, x : Only(ms, name, x) /\ x[1] \in types
                             => get(name, types) = x
  <2>1. SUFFICES ASSUME NEW name, NEW types, NEW x, Only(ms, name, x),
                        x[1] \in types
                 PROVE  get(name, types) = x
    OBVIOUS
  <2>2. found(name, types) = {i \in DOMAIN ms :
                                ms[i][1] = name /\ ms[i][2][1] \in types}
    BY <1>2
  <2> DEFINE members == {i \in DOMAIN ms :
                           ms[i][1] = name /\ ms[i][2][1] \in types}
  <2> HIDE DEF found
  <2>3. members # {} /\ ms[Max(members)][2] = x
    <3>1. members = {} <=> x[1] \notin types
      BY <1>5, <2>1, OnlyIsRead, ZenonT(30)
    <3>2. x[1] \in types => ms[Max(members)][2] = x
      BY <1>5, <2>1, OnlyIsRead
    <3> HIDE DEF members
    <3>3. QED
      BY <2>1, <3>1, <3>2
  <2>4. QED
    BY <1>2, <2>2, <2>3
<1>7. \A name, types : Without(ms, name) => get(name, types) = Null
  BY <1>2, WithoutIsRead
<1> HIDE DEF get
<1>8. get("Class", {"str"}) = a.class
  <2>1. a.class # Null => a.class[1] = "str"
    BY <1>1 DEF IsAlert
  <2>2. QED
    BY <1>4, <1>6, <1>7, <2>1
<1>9. get("Name", {"str"}) = a.name
  <2>1. a.name # Null => a.name[1] = "str"
    BY <1>1 DEF IsAlert
  <2>2. QED
    BY <1>4, <1>6, <1>7, <2>1
<1>10. get("Value", Values) = IF hasValue THEN v ELSE Null
  <2>1. v[1] \in Values
    BY <1>1 DEF IsAlert, ValueNow
  <2>2. QED
    BY <1>4, <1>6, <1>7, <2>1
<1>11. v # Null
  BY DEF ValueNow, Null
<1>12. flag = <<"bool", TRUE>> <=> call[1] = "Alert" /\ a.noSuppress
  <2>1. a.noSuppress \in BOOLEAN
    BY <1>1 DEF IsAlert
  <2>2. CASE call[1] = "Alert"
    <3>1. flag = <<"bool", a.noSuppress>>
      <4>1. <<"bool", a.noSuppress>>[1] \in {"bool"}
        OBVIOUS
      <4>2. QED
        BY <1>4, <1>6, <2>2, <4>1
    <3>2. <<"bool", a.noSuppress>> = <<"bool", TRUE>> <=> a.noSuppress
      BY <2>1
    <3> HIDE DEF flag, a
    <3>3. QED
      BY <2>2, <3>1, <3>2
  <2>3. CASE call[1] # "Alert"
    <3>1. flag = Null
      BY <1>4, <1>7, <2>3
    <3>2. Null # <<"bool", TRUE>>
      BY DEF Null
    <3>3. QED
      BY <2>3, <3>1, <3>2
  <2>4. QED
    BY <2>2, <2>3
<1> HIDE DEF v, hasValue, flag
<1>13. /\ read.ok <=> a.class # Null \/ hasValue
       /\ read.class = a.class /\ read.name = a.name
       /\ read.value = IF hasValue THEN v ELSE Null
       /\ read.noSuppress <=> call[1] = "Alert" /\ a.noSuppress
  BY <1>3, <1>8, <1>9, <1>10, <1>11, <1>12 DEF hasValue
<1>14. QED
  BY <1>2, <1>13 DEF v, hasValue, e, read

\* A message box has neither class nor value; it is not read as an alert.
LEMMA MessageIsNoAlert ==
    ASSUME NEW e, NEW b, e.text = MsgBoxMembers(b)
    PROVE  ~GetLimitParams(e).ok
<1>1. Without(e.text, "Class") /\ Without(e.text, "Value")
  BY DEF Without, MsgBoxMembers
<1>2. /\ {i \in DOMAIN e.text :
            e.text[i][1] = "Class" /\ e.text[i][2][1] \in {"str"}} = {}
      /\ {i \in DOMAIN e.text :
            /\ e.text[i][1] = "Value"
            /\ e.text[i][2][1] \in {"str", "num", "bool"}} = {}
  BY <1>1, WithoutIsRead
<1>3. QED
  BY <1>2 DEF GetLimitParams

\* A client understands any event that a call fires.
LEMMA Understood ==
    ASSUME heard # NoForm => /\ heard.call \in Calls
                             /\ heard.event = EventOf(heard.call)
    PROVE  EventsAreUnderstood
<1>1. CASE heard = NoForm
  BY <1>1 DEF EventsAreUnderstood, EventsAreToldApart, AlertIsUnderstood
<1>2. CASE heard # NoForm
  <2> DEFINE call == heard.call
             e == heard.event
             a == call[2]
  <2>1. call \in Calls /\ e = EventOf(call)
    BY <1>2
  <2>2. AlertIsUnderstood
    BY <2>1, AlertIsRead DEF AlertIsUnderstood
  <2>3. /\ call[1] \in {"Alert", "AlertVarLimit"} => Recognised(e) = {"alert"}
        /\ call[1] = "MsgBox" =>
              Recognised(e) = {"alert"} /\ ~GetLimitParams(e).ok
    BY <2>1, EventTypeIs, RecognisedByType, MessageIsNoAlert
  <2>4. /\ call[1] = "NotifyAppChanged" => Recognised(e) = {"app"}
        /\ call[1] = "VarlistChanged" => Recognised(e) = {"varlist"}
        /\ call[1] \in {"MeasurementStarted", "MeasurementStopped"}
             => Recognised(e) = {}
    BY <2>1, EventTypeIs, RecognisedByType
  <2>5. /\ call[1] = "IdentifyClient" =>
             /\ Recognised(e) = {"identification"}
             /\ GetIndentificationMessage(e) = a
        /\ call[1] = "RequestOpenForm" =>
             Recognised(e) = {"open"} /\ GetFormName(e) = a
        /\ call[1] \in {"RequestCloseForm", "FormClose"} =>
             Recognised(e) = {"close"} /\ GetFormName(e) = a
    BY <2>1, EventTypeIs, RecognisedByType
       DEF GetIndentificationMessage, GetFormName
  <2>6. call[1] = "RequestAudioRec" =>
          /\ Recognised(e) = {"record"}
          /\ GetAudioRecId(e) = GetAudioRecId(StopAudioRec(1))
          /\ a % 10 = 0 => GetAudioRecTimeLimit(e) = a
    <3>1. SUFFICES ASSUME call[1] = "RequestAudioRec"
                   PROVE  /\ Recognised(e) = {"record"}
                          /\ GetAudioRecId(e) = GetAudioRecId(StopAudioRec(1))
                          /\ a % 10 = 0 => GetAudioRecTimeLimit(e) = a
      OBVIOUS
    <3>2. /\ e.type = "AudioRecRequest" /\ e.param1 = 1 /\ e.param2 = a
          /\ a \in Nat
      BY <2>1, <3>1, EventTypeIs, CallsAreKnown
    <3>3. GetAudioRecId(StopAudioRec(1)) = 1
      BY DEF GetAudioRecId, StopAudioRec, Fired
    <3>4. \A n \in Nat : n % 10 = 0 => 10 * (n \div 10) = n
      OBVIOUS
    <3>5. QED
      BY <3>2, <3>3, <3>4, RecognisedByType
         DEF GetAudioRecId, GetAudioRecTimeLimit
  <2>7. call[1] = "StopAudioRec" => Recognised(e) = {"stop"}
    BY <2>1, EventTypeIs, RecognisedByType
  <2>8. EventsAreToldApart
    BY <1>2, <2>1, <2>3, <2>4, <2>5, <2>6, <2>7, CallsAreKnown, ZenonT(30)
       DEF EventsAreToldApart
  <2>9. QED
    BY <2>2, <2>8 DEF EventsAreUnderstood
<1>3. QED
  BY <1>1, <1>2


-----------------------------------------------------------------------------
(* Sequences of anything. *)

IsSeq(s) == \E S : s \in Seq(S)

\* Posting a message keeps those posted before.
LEMMA AppendIs ==
    ASSUME NEW s, IsSeq(s), NEW x
    PROVE  /\ IsSeq(Append(s, x))
           /\ \A i \in DOMAIN Append(s, x) :
                 \/ i \in DOMAIN s /\ Append(s, x)[i] = s[i]
                 \/ Append(s, x)[i] = x
<1>1. PICK S : s \in Seq(S)
  BY DEF IsSeq
<1>2. Append(s, x) \in Seq(S \cup {x})
  <2>1. s \in Seq(S \cup {x}) /\ x \in S \cup {x}
    BY <1>1
  <2>2. QED
    BY <2>1
<1>3. QED
  BY <1>1, <1>2 DEF IsSeq

\* Taking a message leaves the rest in its order.
LEMMA TailIs ==
    ASSUME NEW s, IsSeq(s), s # <<>>
    PROVE  /\ IsSeq(Tail(s)) /\ 1 \in DOMAIN s /\ Head(s) = s[1]
           /\ \A i \in DOMAIN Tail(s) :
                 i + 1 \in DOMAIN s /\ Tail(s)[i] = s[i + 1]
<1>1. PICK S : s \in Seq(S)
  BY DEF IsSeq
<1>2. Tail(s) \in Seq(S)
  BY <1>1
<1>3. /\ 1 \in DOMAIN s /\ Head(s) = s[1]
      /\ \A i \in DOMAIN Tail(s) :
            i + 1 \in DOMAIN s /\ Tail(s)[i] = s[i + 1]
  BY <1>1
<1>4. QED
  BY <1>2, <1>3 DEF IsSeq

\* Closing the upper dialog leaves those below it.
LEMMA FrontIs ==
    ASSUME NEW s, IsSeq(s), Len(s) > 0
    PROVE  /\ IsSeq(Front(s)) /\ Len(s) \in DOMAIN s
           /\ \A i \in DOMAIN Front(s) :
                 i \in DOMAIN s /\ Front(s)[i] = s[i]
<1>1. PICK S : s \in Seq(S)
  BY DEF IsSeq
<1>2. Len(s) \in Nat /\ Len(s) > 0
  BY <1>1
<1>3. /\ Front(s) \in Seq(S) /\ Len(Front(s)) = Len(s) - 1
      /\ \A i \in 1..(Len(s) - 1) : Front(s)[i] = s[i]
  <2>1. PICK n \in Nat : n = Len(s) - 1
    BY <1>2
  <2>2. \A i \in 1..n : s[i] \in S
    BY <1>1, <2>1
  <2>3. /\ SubSeq(s, 1, n) \in Seq(S)
        /\ Len(SubSeq(s, 1, n)) = IF 1 <= n THEN n - 1 + 1 ELSE 0
        /\ \A i \in 1..n - 1 + 1 : SubSeq(s, 1, n)[i] = s[1 + i - 1]
    BY <2>2, SubSeqProperties
  <2>4. QED
    BY <2>1, <2>3 DEF Front
<1>4. DOMAIN s = 1..Len(s) /\ DOMAIN Front(s) = 1..(Len(s) - 1)
  <2>1. PICK f \in Seq(S) : f = Front(s) /\ Len(f) = Len(s) - 1
    BY <1>3
  <2>2. DOMAIN s = 1..Len(s) /\ DOMAIN f = 1..Len(f)
    BY <1>1
  <2>3. QED
    BY <2>1, <2>2
<1>5. IsSeq(Front(s))
  BY <1>3, Zenon DEF IsSeq
<1>6. QED
  BY <1>2, <1>3, <1>4, <1>5

\* Changing one dialog leaves the others.
LEMMA ExceptIs ==
    ASSUME NEW s, IsSeq(s), NEW k \in DOMAIN s, NEW x
    PROVE  /\ IsSeq([s EXCEPT ![k] = x])
           /\ DOMAIN [s EXCEPT ![k] = x] = DOMAIN s
           /\ \A i \in DOMAIN s :
                 [s EXCEPT ![k] = x][i] = IF i = k THEN x ELSE s[i]
<1>1. PICK S : s \in Seq(S)
  BY DEF IsSeq
<1>2. s \in Seq(S \cup {x}) /\ x \in S \cup {x}
  BY <1>1
<1>3. [s EXCEPT ![k] = x] \in Seq(S \cup {x})
  BY <1>2
<1>4. QED
  BY <1>3 DEF IsSeq

\* At first there is nothing.
LEMMA EmptyIsSeq == IsSeq(<<>>)
<1>1. <<>> \in Seq({})
  OBVIOUS
<1>2. QED
  BY <1>1 DEF IsSeq

-----------------------------------------------------------------------------
(* The inductive invariant. *)

CountsFit == fired \in 0..MaxFired /\ entered \in 0..MaxEntered

\* Every event is one that a call has fired.
EventsFit ==
    /\ IsSeq(under)
    /\ \A i \in DOMAIN under :
          under[i].call \in Calls /\ under[i].event = EventOf(under[i].call)
    /\ heard # NoForm =>
          heard.call \in Calls /\ heard.event = EventOf(heard.call)

\* Until a form is to be closed, the name that is noted is that of the form
\* last requested, and the last message that is dispatched asks for it.
RequestsFit ==
    /\ {formName, requested, opened} \subseteq DOMAIN FormOf \cup {NoForm}
    /\ posted \in Seq({"open", "close"}) /\ closing \in BOOLEAN
    /\ formName = NoForm => posted = <<>> /\ dialogs = <<>>
    /\ ~closing => formName = requested /\ posted \in Seq({"open"})
    /\ ~closing /\ posted = <<>> => opened = requested

DialogsFit ==
    IsSeq(dialogs) /\ \A k \in DOMAIN dialogs : DialogFits(dialogs[k])

FormsIInv ==
    CountsFit /\ EventsFit /\ RequestsFit /\ DialogsFit /\ FormComesBack

\* The client has no form when it starts.
LEMMA FormsInvAtFirst == FormsInit => FormsIInv
<1> SUFFICES ASSUME FormsInit PROVE FormsIInv
  OBVIOUS
<1> USE DEF FormsInit
<1>1. CountsFit
  BY FormsAssumption DEF CountsFit
<1>2. EventsFit
  BY EmptyIsSeq DEF EventsFit
<1>3. RequestsFit
  <2>1. <<>> \in Seq({"open", "close"}) /\ <<>> \in Seq({"open"})
    OBVIOUS
  <2>2. QED
    BY <2>1 DEF RequestsFit
<1>4. DialogsFit
  BY EmptyIsSeq DEF DialogsFit
<1>5. FormComesBack
  BY DEF FormComesBack
<1>6. QED
  BY <1>1, <1>2, <1>3, <1>4, <1>5 DEF FormsIInv

\* Nothing is sent.
LEMMA NothingSent == ASSUME answer' = NoForm PROVE FormComesBack'
  BY DEF FormComesBack

\* A firing function writes an event a client understands.
LEMMA FireKeepsInv ==
    ASSUME FormsIInv, NEW call \in Calls, NEW primary \in BOOLEAN,
           FireEvent(call, primary), answer' = NoForm
    PROVE  FormsIInv'
<1> USE DEF FormsIInv, FireEvent, clientVars, windowVars
<1>1. CountsFit'
  <2>1. CallWeight[call[1]] \in Nat /\ MaxFired \in Nat
    BY FormsAssumption
  <2>2. QED
    BY <2>1 DEF CountsFit
<1>2. EventsFit'
  <2> DEFINE e == [call |-> call, event |-> EventOf(call), primary |-> primary]
  <2>1. under' = Append(under, e)
    OBVIOUS
  <2>2. e.call = call /\ e.event = EventOf(call)
    OBVIOUS
  <2> HIDE DEF e
  <2>3. IsSeq(under) /\ \A i \in DOMAIN under :
          under[i].call \in Calls /\ under[i].event = EventOf(under[i].call)
    BY DEF EventsFit
  <2>4. /\ IsSeq(under')
        /\ \A i \in DOMAIN under' :
              (i \in DOMAIN under /\ under'[i] = under[i]) \/ under'[i] = e
    BY <2>1, <2>3, AppendIs
  <2>5. \A i \in DOMAIN under' : /\ under'[i].call \in Calls
                                 /\ under'[i].event = EventOf(under'[i].call)
    BY <2>2, <2>3, <2>4
  <2>6. heard' # NoForm =>
          heard'.call \in Calls /\ heard'.event = EventOf(heard'.call)
    BY DEF EventsFit
  <2>7. QED
    BY <2>4, <2>5, <2>6 DEF EventsFit
<1>3. RequestsFit'
  BY DEF RequestsFit
<1>4. DialogsFit'
  BY DEF DialogsFit
<1>5. QED
  BY <1>1, <1>2, <1>3, <1>4, NothingSent

\* OnServerEvent notes the name and posts the message.
LEMMA EventKeepsInv ==
    ASSUME FormsIInv, OnServerEvent, answer' = NoForm
    PROVE  FormsIInv'
<1> DEFINE e == Head(under)
           open == IsFormOpen(e.event)
<1>1. /\ under # <<>> /\ under' = Tail(under)
      /\ heard' = [call |-> e.call, event |-> e.event]
      /\ IF IsRequest(e)
         THEN /\ formName' = GetFormName(e.event)
              /\ posted' = Append(posted, IF open THEN "open" ELSE "close")
              /\ requested' = IF open THEN e.call[2] ELSE requested
              /\ closing' = (closing \/ ~open)
         ELSE UNCHANGED <<formName, posted, requested, closing>>
      /\ UNCHANGED <<dialogs, opened, fired, entered>>
  BY DEF OnServerEvent, windowVars, boundVars
<1>2. CountsFit'
  BY <1>1 DEF FormsIInv, CountsFit
<1>3. /\ IsSeq(under)
      /\ \A i \in DOMAIN under :
            under[i].call \in Calls /\ under[i].event = EventOf(under[i].call)
  BY DEF FormsIInv, EventsFit
<1>4. /\ IsSeq(Tail(under)) /\ 1 \in DOMAIN under /\ e = under[1]
      /\ \A i \in DOMAIN Tail(under) :
            i + 1 \in DOMAIN under /\ Tail(under)[i] = under[i + 1]
  BY <1>1, <1>3, TailIs
<1>5. e.call \in Calls /\ e.event = EventOf(e.call)
  BY <1>3, <1>4
<1> HIDE DEF e, open
<1>6. EventsFit'
  <2>1. heard'.call = e.call /\ heard'.event = e.event
    BY <1>1
  <2>2. /\ IsSeq(under')
        /\ \A i \in DOMAIN under' : /\ under'[i].call \in Calls
                                    /\ under'[i].event = EventOf(under'[i].call)
    BY <1>1, <1>3, <1>4
  <2>3. heard'.call \in Calls /\ heard'.event = EventOf(heard'.call)
    BY <1>5, <2>1
  <2>4. QED
    BY <2>2, <2>3 DEF EventsFit
<1>7. RequestsFit'
  <2>1. RequestsFit
    BY DEF FormsIInv
  <2>2. CASE ~IsRequest(e)
    BY <1>1, <2>1, <2>2 DEF RequestsFit
  <2>3. CASE IsRequest(e)
    <3>1. open \/ IsFormClose(e.event)
      BY <2>3 DEF IsRequest, open
    <3>2. e.call[2] \in DOMAIN FormOf /\ GetFormName(e.event) = e.call[2]
      BY <1>5, <3>1, RequestsNameForms DEF open
    <3>3. formName' = e.call[2] /\ (open => requested' = formName')
      BY <1>1, <2>3, <3>2
    <3>4. NoForm # e.call[2]
      BY <3>2, FormsAssumption
    <3>5. /\ posted' \in Seq({"open", "close"}) /\ posted' # <<>>
      <4>1. posted \in Seq({"open", "close"})
        BY <2>1 DEF RequestsFit
      <4>2. PICK x \in {"open", "close"} : posted' = Append(posted, x)
        BY <1>1, <2>3
      <4>3. QED
        BY <4>1, <4>2
    <3>6. /\ requested' \in DOMAIN FormOf \cup {NoForm}
          /\ closing' \in BOOLEAN /\ (~closing' => open)
      BY <1>1, <2>1, <2>3, <3>2 DEF RequestsFit
    <3>7. ~closing' => posted' \in Seq({"open"})
      <4>1. SUFFICES ASSUME ~closing' PROVE posted' \in Seq({"open"})
        OBVIOUS
      <4>2. posted \in Seq({"open"}) /\ posted' = Append(posted, "open")
        BY <1>1, <2>1, <2>3, <3>6, <4>1 DEF RequestsFit
      <4>3. QED
        BY <4>2
    <3>8. QED
      BY <1>1, <2>1, <3>2, <3>3, <3>4, <3>5, <3>6, <3>7 DEF RequestsFit
  <2>4. QED
    BY <2>2, <2>3
<1>8. DialogsFit'
  BY <1>1 DEF FormsIInv, DialogsFit
<1>9. QED
  BY <1>2, <1>6, <1>7, <1>8, NothingSent DEF FormsIInv

\* WindowProc opens the form last requested, over those that are open.
LEMMA OpenKeepsInv ==
    ASSUME FormsIInv, WindowProc, answer' = NoForm
    PROVE  FormsIInv'
<1>1. /\ posted # <<>> /\ posted' = Tail(posted)
      /\ \/ /\ Head(posted) = "open" /\ opened' = formName
            /\ dialogs' \in {dialogs, Append(dialogs, Dialog[formName])}
         \/ Head(posted) = "close" /\ UNCHANGED <<opened, dialogs>>
      /\ UNCHANGED <<under, fired, entered, heard, formName, requested, closing>>
  BY DEF WindowProc, NextForm, boundVars
<1>2. CountsFit' /\ EventsFit'
  BY <1>1 DEF FormsIInv, CountsFit, EventsFit
<1>3. formName \in DOMAIN FormOf
  BY <1>1 DEF FormsIInv, RequestsFit
<1>4. DialogsFit'
  <2>1. DialogsFit
    BY DEF FormsIInv
  <2>2. CASE dialogs' = dialogs
    BY <2>1, <2>2 DEF DialogsFit
  <2>3. CASE dialogs' = Append(dialogs, Dialog[formName])
    <3>1. DialogFits(Dialog[formName])
      BY <1>3, DialogFitsAtFirst
    <3>2. /\ IsSeq(dialogs')
          /\ \A k \in DOMAIN dialogs' :
                \/ k \in DOMAIN dialogs /\ dialogs'[k] = dialogs[k]
                \/ dialogs'[k] = Dialog[formName]
      BY <2>1, <2>3, AppendIs DEF DialogsFit
    <3>3. QED
      BY <2>1, <3>1, <3>2 DEF DialogsFit
  <2>4. QED
    BY <1>1, <2>2, <2>3
<1>5. RequestsFit'
  <2>1. RequestsFit
    BY DEF FormsIInv
  <2>2. /\ posted' \in Seq({"open", "close"})
        /\ Head(posted) \in {"open", "close"}
    BY <1>1, <2>1 DEF RequestsFit
  <2>3. formName # NoForm
    BY <1>3, FormsAssumption
  <2>4. opened' \in DOMAIN FormOf \cup {NoForm}
    BY <1>1, <1>3, <2>1 DEF RequestsFit
  <2>5. ~closing => Head(posted) = "open"
    <3>1. ~closing => posted \in Seq({"open"}) /\ posted # <<>>
      BY <1>1, <2>1 DEF RequestsFit
    <3>2. QED
      BY <3>1
  <2>6. ~closing => posted' \in Seq({"open"})
    BY <1>1, <2>1 DEF RequestsFit
  <2>7. QED
    BY <1>1, <2>1, <2>2, <2>3, <2>4, <2>5, <2>6 DEF RequestsFit
<1>6. QED
  BY <1>2, <1>4, <1>5, NothingSent DEF FormsIInv

\* The steps that change one dialog, and nothing else but the count.
LEMMA DialogStepKeepsInv ==
    ASSUME FormsIInv, answer' = NoForm, NEW k \in DOMAIN dialogs, NEW d,
           DialogFits(dialogs[k]) => DialogFits(d),
           dialogs' = [dialogs EXCEPT ![k] = d],
           \/ entered' = entered
           \/ entered < MaxEntered /\ entered' = entered + 1,
           UNCHANGED <<under, clientVars, opened, fired>>
    PROVE  FormsIInv'
<1> USE DEF clientVars
<1>1. CountsFit'
  BY FormsAssumption DEF FormsIInv, CountsFit
<1>2. EventsFit'
  BY DEF FormsIInv, EventsFit
<1>3. DialogsFit'
  BY ExceptIs DEF FormsIInv, DialogsFit
<1>4. RequestsFit'
  <2>1. RequestsFit /\ dialogs # <<>>
    BY DEF FormsIInv
  <2>2. formName # NoForm
    BY <2>1 DEF RequestsFit
  <2>3. QED
    BY <2>1, <2>2 DEF RequestsFit
<1>5. QED
  BY <1>1, <1>2, <1>3, <1>4, NothingSent DEF FormsIInv

\* The user changes one control of one dialog.
LEMMA EnterKeepsInv ==
    ASSUME FormsIInv, answer' = NoForm, NEW k \in DOMAIN dialogs,
           NEW i \in DOMAIN dialogs[k].cs,
           NEW x \in Offered(dialogs[k].cs[i]), Enter(k, i, x)
    PROVE  FormsIInv'
<1> DEFINE d == [dialogs[k] EXCEPT !.cs[i].content = x, !.shown[i] = x]
<1>1. dialogs' = [dialogs EXCEPT ![k] = d]
  <2>1. dialogs' = [dialogs EXCEPT ![k].cs[i].content = x, ![k].shown[i] = x]
    BY DEF Enter
  <2>2. dialogs' = [[dialogs EXCEPT ![k] = [@ EXCEPT !.cs[i].content = x]]
                     EXCEPT ![k] = [@ EXCEPT !.shown[i] = x]]
    BY <2>1
  <2>3. QED
    BY <2>2
<1>2. DialogFits(dialogs[k]) => DialogFits(d)
  BY DialogFitsAfterEnter DEF Enter
<1> HIDE DEF d
<1>3. QED
  BY <1>1, <1>2, DialogStepKeepsInv DEF Enter

\* OnOK and OnTimer read the data from the controls.
LEMMA EndKeepsInv ==
    ASSUME FormsIInv, answer' = NoForm, NEW k \in DOMAIN dialogs, NEW focus,
           OnOK(k, focus) \/ OnTimer(k, focus)
    PROVE  FormsIInv'
<1> DEFINE d == [dialogs[k] EXCEPT
                   !.els = ToData(dialogs[k].els, dialogs[k].cs, focus),
                   !.ended = TRUE,
                   !.pressed = IF dialogs[k].ended THEN @ ELSE focus]
<1>1. EndDialog(k, focus) /\ (dialogs[k].ended => dialogs[k].timed)
  BY DEF OnOK, OnTimer
<1>2. dialogs' = [dialogs EXCEPT ![k] = d]
  BY <1>1 DEF EndDialog
<1>3. DialogFits(dialogs[k]) => DialogFits(d)
  BY <1>1, DialogFitsAfterEnd
<1>4. UNCHANGED <<under, clientVars, boundVars, opened>>
  BY DEF OnOK, OnTimer
<1> HIDE DEF d
<1>5. QED
  BY <1>2, <1>3, <1>4, DialogStepKeepsInv DEF boundVars

\* UpdateContent changes one dialog.
LEMMA ReloadKeepsInv ==
    ASSUME FormsIInv, answer' = NoForm, NEW k \in DOMAIN dialogs,
           NEW form \in Reloads[dialogs[k].name], Reload(k, form)
    PROVE  FormsIInv'
<1>1. /\ dialogs' = [dialogs EXCEPT ![k] = Reloaded(dialogs[k], form)]
      /\ entered < MaxEntered /\ entered' = entered + 1 /\ ~dialogs[k].ended
      /\ UNCHANGED <<under, clientVars, fired, opened>>
  BY DEF Reload, Reloaded
<1>2. DialogFits(dialogs[k]) => DialogFits(Reloaded(dialogs[k], form))
  BY <1>1, DialogFitsAfterReload
<1>3. QED
  BY <1>1, <1>2, DialogStepKeepsInv

\* A dialog that fits sends a form as FormComesBack has it.
LEMMA ReturnKeepsInv ==
    ASSUME FormsIInv, Return
    PROVE  FormsIInv'
<1> DEFINE d == dialogs[Top]
           controls == FormOf[d.name].controls
<1>1. /\ Len(dialogs) > 0 /\ d.ended
      /\ \/ answer' = [sent |-> SendForm(d.els), name |-> d.name,
                       shown |-> d.shown, pressed |-> d.pressed,
                       timed |-> d.timed]
         \/ answer' = answer
      /\ dialogs' = Front(dialogs)
      /\ UNCHANGED <<under, clientVars, boundVars, opened>>
  BY DEF Return, Leaves, Top
<1>2. IsSeq(dialogs) /\ \A k \in DOMAIN dialogs : DialogFits(dialogs[k])
  BY DEF FormsIInv, DialogsFit
<1>3. /\ IsSeq(dialogs') /\ Top \in DOMAIN dialogs
      /\ \A k \in DOMAIN dialogs' :
            k \in DOMAIN dialogs /\ dialogs'[k] = dialogs[k]
  BY <1>1, <1>2, FrontIs DEF Top
<1>4. CountsFit' /\ EventsFit'
  BY <1>1 DEF FormsIInv, CountsFit, EventsFit, clientVars, boundVars
<1>5. DialogsFit'
  BY <1>2, <1>3 DEF DialogsFit
<1>6. RequestsFit'
  <2>1. RequestsFit /\ dialogs # <<>>
    BY <1>3 DEF FormsIInv
  <2>2. formName # NoForm
    BY <2>1 DEF RequestsFit
  <2>3. QED
    BY <1>1, <2>1, <2>2 DEF RequestsFit, clientVars
<1>7. FormComesBack'
  <2>1. CASE answer' = answer
    BY <2>1 DEF FormsIInv, FormComesBack
  <2>2. CASE answer' = [sent |-> SendForm(d.els), name |-> d.name,
                        shown |-> d.shown, pressed |-> d.pressed,
                        timed |-> d.timed]
    <3>1. DialogFits(d)
      BY <1>2, <1>3
    <3> HIDE DEF d
    <3>2. /\ answer'.sent = SendForm(d.els) /\ answer'.name = d.name
          /\ answer'.shown = d.shown /\ answer'.pressed = d.pressed
          /\ answer'.timed = d.timed
      BY <2>2
    <3>3. /\ DOMAIN d.els = DOMAIN controls
          /\ \A i \in DOMAIN controls :
                /\ Decoded(d.els[i], controls[i])
                /\ controls[i].t # "Button" => d.shown[i][1] # "empty"
                /\ IF controls[i].t # "Button"
                   THEN d.els[i].value = d.shown[i]
                   ELSE ~d.timed => d.els[i].value = Bool(i = d.pressed)
      BY <1>1, <3>1 DEF DialogFits, Whole
    <3>4. ASSUME NEW i \in DOMAIN SendForm(d.els)
          PROVE  LET part == SendForm(d.els)[i]
                 IN  /\ part[1] = controls[i].name
                     /\ controls[i].t # "Button" => part[2] = d.shown[i]
                     /\ controls[i].t = "Button" /\ ~d.timed
                           => part[2] = Bool(i = d.pressed)
      <4>1. i \in DOMAIN controls
        BY <3>3 DEF SendForm
      <4> DEFINE v == d.els[i].value
                 w == IF v[1] = "empty" THEN <<"null", "">> ELSE v
      <4>2. SendForm(d.els)[i] = <<d.els[i].name, w>>
        BY <3>4 DEF SendForm
      <4>3. w = v \/ v[1] = "empty"
        OBVIOUS
      <4>4. d.els[i].name = controls[i].name
        BY <3>3, <4>1 DEF Decoded
      <4> HIDE DEF v, w
      <4>5. Bool(i = d.pressed)[1] # "empty"
        BY DEF Bool
      <4>6. SendForm(d.els)[i][1] = d.els[i].name /\ SendForm(d.els)[i][2] = w
        BY <4>2
      <4>7. QED
        BY <3>3, <4>1, <4>3, <4>4, <4>5, <4>6 DEF v
    <3>5. QED
      BY <3>2, <3>4 DEF FormComesBack
  <2>3. QED
    BY <1>1, <2>1, <2>2
<1>8. QED
  BY <1>4, <1>5, <1>6, <1>7 DEF FormsIInv

\* Other components' steps leave it alone.
LEMMA FormsStutter ==
    ASSUME FormsIInv, UNCHANGED formsVars PROVE FormsIInv'
  BY DEF formsVars, clientVars, windowVars, boundVars, FormsIInv, CountsFit,
         EventsFit, RequestsFit, DialogsFit, FormComesBack

\* Every step keeps it.
LEMMA FormsStepKeepsInv == FormsIInv /\ [FormsNext]_formsVars => FormsIInv'
<1> SUFFICES ASSUME FormsIInv, [FormsNext]_formsVars PROVE FormsIInv'
  OBVIOUS
<1>1. ASSUME NEW call \in Calls, NEW primary \in BOOLEAN,
             FireEvent(call, primary), answer' = NoForm
      PROVE  FormsIInv'
  BY <1>1, FireKeepsInv
<1>2. CASE OnServerEvent /\ answer' = NoForm
  BY <1>2, EventKeepsInv
<1>3. CASE WindowStep /\ answer' = NoForm
  <2>1. CASE WindowProc
    BY <1>3, <2>1, OpenKeepsInv
  <2>2. ASSUME NEW k \in DOMAIN dialogs, NEW i \in DOMAIN dialogs[k].cs,
               NEW x \in Offered(dialogs[k].cs[i]), Enter(k, i, x)
        PROVE  FormsIInv'
    BY <1>3, <2>2, EnterKeepsInv
  <2>3. ASSUME NEW k \in DOMAIN dialogs, NEW focus \in Focusable(k),
               OnOK(k, focus) \/ OnTimer(k, focus)
        PROVE  FormsIInv'
    BY <1>3, <2>3, EndKeepsInv
  <2>4. ASSUME NEW k \in DOMAIN dialogs,
               NEW form \in Reloads[dialogs[k].name], Reload(k, form)
        PROVE  FormsIInv'
    BY <1>3, <2>4, ReloadKeepsInv
  <2>5. QED
    BY <1>3, <2>1, <2>2, <2>3, <2>4 DEF WindowStep
<1>4. CASE Return
  BY <1>4, ReturnKeepsInv
<1>5. CASE UNCHANGED formsVars
  BY <1>5, FormsStutter
<1>6. QED
  BY <1>1, <1>2, <1>3, <1>4, <1>5 DEF FormsNext

\* What is checked follows from it.
LEMMA FormsInvSuffices ==
    FormsIInv => FormsInv /\ LastRequestIsShown /\ EventsAreUnderstood
<1> SUFFICES ASSUME FormsIInv
             PROVE  FormsInv /\ LastRequestIsShown /\ EventsAreUnderstood
  OBVIOUS
<1>1. \A k \in DOMAIN dialogs : DialogFits(dialogs[k])
  BY DEF FormsIInv, DialogsFit
<1>2. FormsTypeOK
  <2>1. \A k \in DOMAIN dialogs :
          /\ dialogs[k].name \in DOMAIN FormOf
          /\ DOMAIN dialogs[k].els = DOMAIN dialogs[k].cs
          /\ DOMAIN dialogs[k].shown = DOMAIN dialogs[k].cs
    BY <1>1 DEF DialogFits, Whole
  <2>2. QED
    BY <2>1 DEF FormsIInv, CountsFit, EventsFit, RequestsFit, FormsTypeOK
<1>3. ShowsWhatWasSaid
  BY <1>1 DEF ShowsWhatWasSaid, DialogFits, Whole, Decoded
<1>4. FormComesBack
  BY DEF FormsIInv
<1>5. LastRequestIsShown
  BY DEF FormsIInv, RequestsFit, LastRequestIsShown
<1>6. EventsAreUnderstood
  BY Understood DEF FormsIInv, EventsFit
<1>7. QED
  BY <1>2, <1>3, <1>4, <1>5, <1>6 DEF FormsInv

-----------------------------------------------------------------------------
(* The theorems. *)

\* Every dialog shows what was said last of each of its elements, by the
\* application or the user, and every form comes back with what each control
\* showed, however dialogs nest (CDlgAbkForm, SendForm). FormsAssumption limits
\* the forms: controls with names of their own, at most one submit and one
\* cancel button, and reloads that keep the updateable controls.
THEOREM FormsAreWhole == FormsSpec => []FormsInv
<1>1. FormsInit => FormsIInv
  BY FormsInvAtFirst
<1>2. FormsIInv /\ [FormsNext]_formsVars => FormsIInv'
  BY FormsStepKeepsInv
<1>3. FormsIInv => FormsInv
  BY FormsInvSuffices
<1>4. QED
  BY <1>1, <1>2, <1>3, PTL DEF FormsSpec

\* When no message waits, and as long as the server has never asked to close a
\* form, the window thread has asked for the form last requested. Nothing is
\* said after the first request to close, which overwrites the name as well
\* (CAbkFormsDlg::WindowProc).
THEOREM LastRequestShown == FormsSpec => []LastRequestIsShown
<1>1. FormsInit => FormsIInv
  BY FormsInvAtFirst
<1>2. FormsIInv /\ [FormsNext]_formsVars => FormsIInv'
  BY FormsStepKeepsInv
<1>3. FormsIInv => LastRequestIsShown
  BY FormsInvSuffices
<1>4. QED
  BY <1>1, <1>2, <1>3, PTL DEF FormsSpec

\* Whatever the server fires, a client takes it for what it is and reads its
\* arguments, except for the time limit of a recording, of which only whole
\* seconds are claimed: GetAudioRecTimeLimit cuts off the rest, and a limit of
\* less than a second is read as 0, no limit (CAbkServerEvent::CData).
THEOREM EventsUnderstood == FormsSpec => []EventsAreUnderstood
<1>1. FormsInit => FormsIInv
  BY FormsInvAtFirst
<1>2. FormsIInv /\ [FormsNext]_formsVars => FormsIInv'
  BY FormsStepKeepsInv
<1>3. FormsIInv => EventsAreUnderstood
  BY FormsInvSuffices
<1>4. QED
  BY <1>1, <1>2, <1>3, PTL DEF FormsSpec
=============================================================================
