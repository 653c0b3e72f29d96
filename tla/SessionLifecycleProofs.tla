----------------------- MODULE SessionLifecycleProofs -----------------------
(***************************************************************************)
(* Proofs about SessionLifecycle.  SafeInv is inductive in every           *)
(* environment; PromptInv adds what holds when clients are prompt, do not  *)
(* overlap their polls, and nobody calls Shutdown.  One lemma per part of  *)
(* the two invariants shows that every action preserves it.                *)
(***************************************************************************)
EXTENDS SessionLifecycle, TLAPS

-----------------------------------------------------------------------------
(* One step *)

\* The program counters, listed.
LEMMA Labels ==
    Pcs = {"idle", "postConnect", "postLost", "pollFirst", "pollFirstYes",
           "pollFirstNo", "pollNotify", "pollWait", "pollLock", "pollFormat",
           "pollUnlock", "deleteTry", "dtorUnregister", "dtorFree", "running",
           "shutdownLoop", "shutdownWait", "shutdownOk", "shutdownFailed",
           "none", "tick", "sleep", "exit", "expired", "done"}
  BY DEF Pcs, WorkerPcs, MainPcs, ExpPcs, RequestPcs, PollPcs, DtorPcs

\* Workers, the main thread and the sessions are different agents.
LEMMA AgentSorts ==
    /\ SessionAssumption
    /\ Workers \cap Sessions = {} /\ Main \notin Sessions /\ Main \notin Workers
    /\ Threads = Workers \cup {Main} /\ Agents = Threads \cup Sessions
    /\ Workers \subseteq Agents /\ Sessions \subseteq Agents /\ Main \in Agents
    /\ Sessions \subseteq Nat /\ 0 \notin Sessions
    /\ Lifetime > 0 /\ RequestTicks >= 0
  BY SessionAssumption DEF SessionAssumption, Agents, Threads, Sessions

\* The ids that agents work on and hand out are numbers.
LEMMA Numbers ==
    ASSUME TypeOK
    PROVE  nextId \in Nat /\ \A a \in Agents : cur[a] \in Nat
<1>1. nextId \in Nat
  BY SessionAssumption DEF TypeOK
<1>2. cur \in [Agents -> Sessions \cup {0}]
  BY DEF TypeOK
<1>3. \A i \in Sessions \cup {0} : i \in Nat
  BY AgentSorts
<1>4. QED
  BY <1>1, <1>2, <1>3

\* Every handler keeps the types; only the decrement of m_nRemainingS needs
\* more than the types themselves (Counting).
LEMMA TypeStep ==
    ASSUME TypeOK, IdsInOrder, Counting, [Next]_vars
    PROVE  TypeOK'
<1>a. /\ Lifetime \in 0..Lifetime /\ 0 \in 0..(RequestTicks + 1)
      /\ Workers \subseteq Agents /\ Sessions \subseteq Agents
      /\ Main \in Agents /\ Workers \subseteq Threads /\ Main \in Threads
  BY SessionAssumption DEF Agents, Threads, Sessions
<1> USE <1>a, Labels DEF Goto, locks, registry, sessionFlags, history
<1>1. ASSUME NEW w \in Workers, PostSession(w)
      PROVE  TypeOK'
  <2>1. nextId \in Sessions /\ nextId' \in 1..(MaxSession + 1)
    BY <1>1, SessionAssumption DEF PostSession, TypeOK, Sessions
  <2>2. pc' \in [Agents -> Pcs]
    BY <1>1 DEF PostSession, TypeOK
  <2>3. QED
    BY <1>1, <2>1, <2>2 DEF PostSession, TypeOK
<1>2. ASSUME NEW w \in Workers, PostReply(w)
      PROVE  TypeOK'
  BY <1>2 DEF PostReply, GetSession, TypeOK
<1>3. ASSUME NEW w \in Workers, PostLostReply(w)
      PROVE  TypeOK'
  BY <1>3 DEF PostLostReply, IdsInOrder, TypeOK
<1>4. ASSUME NEW w \in Workers, PollFirstRead(w)
      PROVE  TypeOK'
  BY <1>4 DEF PollFirstRead, TypeOK
<1>5. ASSUME NEW w \in Workers, PollFirstClear(w)
      PROVE  TypeOK'
  BY <1>5 DEF PollFirstClear, TypeOK
<1>6. ASSUME NEW w \in Workers, PollNotify(w)
      PROVE  TypeOK'
  BY <1>6 DEF PollNotify, IdsInOrder, RequestPcs, PollPcs, TypeOK
<1>7. ASSUME NEW w \in Workers, PollWait(w)
      PROVE  TypeOK'
  BY <1>7 DEF PollWait, TypeOK
<1>8. ASSUME NEW w \in Workers, PollLock(w)
      PROVE  TypeOK'
  BY <1>8 DEF PollLock, TypeOK
<1>9. ASSUME NEW w \in Workers, PollClear(w)
      PROVE  TypeOK'
  BY <1>9 DEF PollClear, TypeOK
<1>10. ASSUME NEW w \in Workers, PollUnlock(w)
      PROVE  TypeOK'
  BY <1>10 DEF PollUnlock, TypeOK
<1>11. ASSUME NEW w \in Workers, NEW s \in Sessions, ShortRequest(w, s)
      PROVE  TypeOK'
  BY <1>11 DEF ShortRequest, GetSession, TypeOK
<1>12. ASSUME NEW w \in Workers, NEW s \in Sessions, PollBegin(w, s)
      PROVE  TypeOK'
  BY <1>12 DEF PollBegin, GetSession, TypeOK
<1>13. ASSUME NEW w \in Workers, NEW s \in Sessions, DeleteBegin(w, s)
      PROVE  TypeOK'
  BY <1>13 DEF DeleteBegin, GetSession, TypeOK
<1>14. ASSUME NEW t \in Agents, DeleteTry(t)
      PROVE  TypeOK'
  BY <1>14 DEF DeleteTry, RequestOver, TypeOK
<1>15. ASSUME NEW t \in Agents, DtorUnregister(t)
      PROVE  TypeOK'
  BY <1>15 DEF DtorUnregister, ListAvailable, TypeOK
<1>16. ASSUME NEW t \in Agents, DtorFree(t)
      PROVE  TypeOK'
  BY <1>16 DEF DtorFree, ThreadGone, TypeOK
<1>17. ASSUME NEW s \in Sessions, ExpTimeout(s)
      PROVE  TypeOK'
  BY <1>17 DEF ExpTimeout, TypeOK
<1>18. ASSUME NEW s \in Sessions, ExpExit(s)
      PROVE  TypeOK'
  BY <1>18 DEF ExpExit, TypeOK
<1>19. ASSUME NEW s \in Sessions, ExpExpire(s)
      PROVE  TypeOK'
  BY <1>19 DEF ExpExpire, TypeOK
<1>20. ASSUME ShutdownBegin
      PROVE  TypeOK'
  BY <1>20 DEF ShutdownBegin, TypeOK
<1>21. ASSUME ShutdownLoop
      PROVE  TypeOK'
  BY <1>21 DEF ShutdownLoop, TypeOK
<1>22. ASSUME ShutdownGiveUp
      PROVE  TypeOK'
  BY <1>22 DEF ShutdownGiveUp, RequestOver, TypeOK
<1>23. ASSUME ShutdownWait
      PROVE  TypeOK'
  BY <1>23 DEF ShutdownWait, TypeOK
<1>24. ASSUME NEW s \in Sessions, ExpTick(s)
      PROVE  TypeOK'
  <2>1. remaining' \in [Sessions -> 0..Lifetime]
    BY <1>24, SessionAssumption DEF ExpTick, LastDecrement, Counting, TypeOK
  <2>2. decs' \in [Workers -> 0..(RequestTicks + 1)]
    BY <1>24, SessionAssumption DEF ExpTick, LastDecrement, Counting, TypeOK
  <2>3. QED
    BY <1>24, <2>1, <2>2 DEF ExpTick, LastDecrement, TypeOK
<1>25. CASE UNCHANGED vars
  BY <1>25 DEF vars, TypeOK
<1> QED
  BY <1>1, <1>2, <1>3, <1>4, <1>5, <1>6, <1>7, <1>8, <1>9, <1>10, <1>11,
       <1>12, <1>13, <1>14, <1>15, <1>16, <1>17, <1>18, <1>19, <1>20, <1>21,
       <1>22, <1>23, <1>24, <1>25
     DEF Next, Request, WorkerStep, ExpStep, MainStep

\* GenerateSession alone hands out ids; every other handler works on one that
\* was handed out.
LEMMA IdsStep ==
    ASSUME TypeOK, TypeOK', IdsInOrder, [Next]_vars
    PROVE  IdsInOrder'
<1>a. nextId \in Nat /\ \A a \in Agents : cur[a] \in Nat
  BY Numbers
<1> USE AgentSorts, <1>a DEF Goto, locks, registry, sessionFlags, history
<1>1. ASSUME NEW w \in Workers, PostSession(w)
      PROVE  IdsInOrder'
  <2>1. /\ nextId \in Sessions /\ nextId # w /\ nextId' = nextId + 1
        /\ registered' = registered \cup {nextId} /\ known' = known
    BY <1>1 DEF PostSession, TypeOK, Sessions
  <2>2. \A a \in Agents :
          /\ pc'[a] = IF a = nextId THEN "tick"
                      ELSE IF a = w THEN "postConnect" ELSE pc[a]
          /\ cur'[a] = IF a = w THEN nextId ELSE cur[a]
    BY <1>1, <2>1 DEF PostSession, TypeOK
  <2>3. /\ \A s \in Sessions :
             remaining'[s] = IF s = nextId THEN Lifetime ELSE remaining[s]
        /\ \A v \in Workers : decs'[v] = IF v = w THEN 0 ELSE decs[v]
    BY <1>1 DEF PostSession, TypeOK
  <2>4. \A r \in registered' \cup known' : r < nextId'
    BY <2>1, <2>2, <2>3 DEF TypeOK, IdsInOrder, ExpPcs, RequestPcs, PollPcs,
         DtorPcs
  <2>5. \A t \in Threads : cur'[t] < nextId'
    BY <2>1, <2>2, <2>3 DEF TypeOK, IdsInOrder, ExpPcs, RequestPcs, PollPcs,
         DtorPcs
  <2>6. \A v \in Workers :
          pc'[v] \in RequestPcs \cup DtorPcs \cup {"postLost"} => cur'[v] # 0
    BY <2>1, <2>2, <2>3 DEF TypeOK, IdsInOrder, ExpPcs, RequestPcs, PollPcs,
         DtorPcs
  <2>7. \A r \in Sessions : cur'[r] = r /\ (pc'[r] # "none" => r < nextId')
    BY <2>1, <2>2, <2>3 DEF TypeOK, IdsInOrder, ExpPcs, RequestPcs, PollPcs,
         DtorPcs
  <2>8. \A r \in Sessions : pc'[r] \in ExpPcs
    BY <2>1, <2>2, <2>3 DEF TypeOK, IdsInOrder, ExpPcs, RequestPcs, PollPcs,
         DtorPcs
  <2>9. QED
    BY <2>1, <2>2, <2>3, <2>4, <2>5, <2>6, <2>7, <2>8 DEF IdsInOrder
<1>2. ASSUME NEW w \in Workers, PostReply(w)
      PROVE  IdsInOrder'
  <2>1. \A r \in registered' \cup known' : r < nextId'
    BY <1>2 DEF PostReply, GetSession, TypeOK, IdsInOrder, ExpPcs, RequestPcs,
         PollPcs, DtorPcs
  <2>2. \A t \in Threads : cur'[t] < nextId'
    BY <1>2 DEF PostReply, GetSession, TypeOK, IdsInOrder, ExpPcs, RequestPcs,
         PollPcs, DtorPcs
  <2>3. \A v \in Workers :
          pc'[v] \in RequestPcs \cup DtorPcs \cup {"postLost"} => cur'[v] # 0
    BY <1>2 DEF PostReply, GetSession, TypeOK, IdsInOrder, ExpPcs, RequestPcs,
         PollPcs, DtorPcs
  <2>4. \A r \in Sessions : cur'[r] = r /\ (pc'[r] # "none" => r < nextId')
    BY <1>2 DEF PostReply, GetSession, TypeOK, IdsInOrder, ExpPcs, RequestPcs,
         PollPcs, DtorPcs
  <2>5. \A r \in Sessions : pc'[r] \in ExpPcs
    BY <1>2 DEF PostReply, GetSession, TypeOK, IdsInOrder, ExpPcs, RequestPcs,
         PollPcs, DtorPcs
  <2>6. QED
    BY <2>1, <2>2, <2>3, <2>4, <2>5 DEF IdsInOrder
<1>3. ASSUME NEW w \in Workers, PostLostReply(w)
      PROVE  IdsInOrder'
  BY <1>3 DEF PostLostReply, TypeOK, IdsInOrder, ExpPcs, RequestPcs, PollPcs,
       DtorPcs
<1>4. ASSUME NEW w \in Workers, PollFirstRead(w)
      PROVE  IdsInOrder'
  BY <1>4 DEF PollFirstRead, TypeOK, IdsInOrder, ExpPcs, RequestPcs, PollPcs,
       DtorPcs
<1>5. ASSUME NEW w \in Workers, PollFirstClear(w)
      PROVE  IdsInOrder'
  BY <1>5 DEF PollFirstClear, TypeOK, IdsInOrder, ExpPcs, RequestPcs, PollPcs,
       DtorPcs
<1>6. ASSUME NEW w \in Workers, PollNotify(w)
      PROVE  IdsInOrder'
  BY <1>6 DEF PollNotify, TypeOK, IdsInOrder, ExpPcs, RequestPcs, PollPcs,
       DtorPcs
<1>7. ASSUME NEW w \in Workers, PollWait(w)
      PROVE  IdsInOrder'
  BY <1>7 DEF PollWait, TypeOK, IdsInOrder, ExpPcs, RequestPcs, PollPcs, DtorPcs
<1>8. ASSUME NEW w \in Workers, PollLock(w)
      PROVE  IdsInOrder'
  BY <1>8 DEF PollLock, TypeOK, IdsInOrder, ExpPcs, RequestPcs, PollPcs, DtorPcs
<1>9. ASSUME NEW w \in Workers, PollClear(w)
      PROVE  IdsInOrder'
  BY <1>9 DEF PollClear, TypeOK, IdsInOrder, ExpPcs, RequestPcs, PollPcs,
       DtorPcs
<1>10. ASSUME NEW w \in Workers, PollUnlock(w)
      PROVE  IdsInOrder'
  BY <1>10 DEF PollUnlock, TypeOK, IdsInOrder, ExpPcs, RequestPcs, PollPcs,
       DtorPcs
<1>11. ASSUME NEW w \in Workers, NEW s \in Sessions, ShortRequest(w, s)
      PROVE  IdsInOrder'
  BY <1>11 DEF GetSession, Arrives, ShortRequest, TypeOK, IdsInOrder, ExpPcs,
       RequestPcs, PollPcs, DtorPcs
<1>12. ASSUME NEW w \in Workers, NEW s \in Sessions, PollBegin(w, s)
      PROVE  IdsInOrder'
  <2>1. \A r \in registered' \cup known' : r < nextId'
    BY <1>12 DEF PollBegin, GetSession, TypeOK, IdsInOrder, ExpPcs,
         RequestPcs, PollPcs, DtorPcs
  <2>2. \A t \in Threads : cur'[t] < nextId'
    BY <1>12 DEF PollBegin, GetSession, TypeOK, IdsInOrder, ExpPcs,
         RequestPcs, PollPcs, DtorPcs
  <2>3. \A v \in Workers :
          pc'[v] \in RequestPcs \cup DtorPcs \cup {"postLost"} => cur'[v] # 0
    BY <1>12 DEF PollBegin, GetSession, TypeOK, IdsInOrder, ExpPcs,
         RequestPcs, PollPcs, DtorPcs
  <2>4. \A r \in Sessions : cur'[r] = r /\ (pc'[r] # "none" => r < nextId')
    BY <1>12 DEF PollBegin, GetSession, TypeOK, IdsInOrder, ExpPcs,
         RequestPcs, PollPcs, DtorPcs
  <2>5. \A r \in Sessions : pc'[r] \in ExpPcs
    BY <1>12 DEF PollBegin, GetSession, TypeOK, IdsInOrder, ExpPcs,
         RequestPcs, PollPcs, DtorPcs
  <2>6. QED
    BY <2>1, <2>2, <2>3, <2>4, <2>5 DEF IdsInOrder
<1>13. ASSUME NEW w \in Workers, NEW s \in Sessions, DeleteBegin(w, s)
      PROVE  IdsInOrder'
  <2>1. \A r \in registered' \cup known' : r < nextId'
    BY <1>13 DEF DeleteBegin, GetSession, TypeOK, IdsInOrder, ExpPcs,
         RequestPcs, PollPcs, DtorPcs
  <2>2. \A t \in Threads : cur'[t] < nextId'
    BY <1>13 DEF DeleteBegin, GetSession, TypeOK, IdsInOrder, ExpPcs,
         RequestPcs, PollPcs, DtorPcs
  <2>3. \A v \in Workers :
          pc'[v] \in RequestPcs \cup DtorPcs \cup {"postLost"} => cur'[v] # 0
    BY <1>13 DEF DeleteBegin, GetSession, TypeOK, IdsInOrder, ExpPcs,
         RequestPcs, PollPcs, DtorPcs
  <2>4. \A r \in Sessions : cur'[r] = r /\ (pc'[r] # "none" => r < nextId')
    BY <1>13 DEF DeleteBegin, GetSession, TypeOK, IdsInOrder, ExpPcs,
         RequestPcs, PollPcs, DtorPcs
  <2>5. \A r \in Sessions : pc'[r] \in ExpPcs
    BY <1>13 DEF DeleteBegin, GetSession, TypeOK, IdsInOrder, ExpPcs,
         RequestPcs, PollPcs, DtorPcs
  <2>6. QED
    BY <2>1, <2>2, <2>3, <2>4, <2>5 DEF IdsInOrder
<1>14. ASSUME NEW t \in Agents, DeleteTry(t)
      PROVE  IdsInOrder'
  BY <1>14 DEF DeleteTry, RequestOver, TypeOK, IdsInOrder, ExpPcs, RequestPcs,
       PollPcs, DtorPcs
<1>15. ASSUME NEW t \in Agents, DtorUnregister(t)
      PROVE  IdsInOrder'
  BY <1>15 DEF DtorUnregister, ListAvailable, TypeOK, IdsInOrder, ExpPcs,
       RequestPcs, PollPcs, DtorPcs
<1>16. ASSUME NEW t \in Agents, DtorFree(t)
      PROVE  IdsInOrder'
  BY <1>16 DEF DtorFree, ThreadGone, TypeOK, IdsInOrder, ExpPcs, RequestPcs,
       PollPcs, DtorPcs
<1>17. ASSUME NEW s \in Sessions, ExpTick(s)
      PROVE  IdsInOrder'
  BY <1>17 DEF ExpTick, LastDecrement, TypeOK, IdsInOrder, ExpPcs, RequestPcs,
       PollPcs, DtorPcs
<1>18. ASSUME NEW s \in Sessions, ExpTimeout(s)
      PROVE  IdsInOrder'
  BY <1>18 DEF ExpTimeout, TypeOK, IdsInOrder, ExpPcs, RequestPcs, PollPcs,
       DtorPcs
<1>19. ASSUME NEW s \in Sessions, ExpExit(s)
      PROVE  IdsInOrder'
  BY <1>19 DEF ExpExit, TypeOK, IdsInOrder, ExpPcs, RequestPcs, PollPcs, DtorPcs
<1>20. ASSUME NEW s \in Sessions, ExpExpire(s)
      PROVE  IdsInOrder'
  BY <1>20 DEF ExpExpire, TypeOK, IdsInOrder, ExpPcs, RequestPcs, PollPcs,
       DtorPcs
<1>21. ASSUME ShutdownBegin
      PROVE  IdsInOrder'
  BY <1>21 DEF ShutdownBegin, TypeOK, IdsInOrder, ExpPcs, RequestPcs, PollPcs,
       DtorPcs
<1>22. ASSUME ShutdownLoop
      PROVE  IdsInOrder'
  <2>1. \A r \in registered' \cup known' : r < nextId'
    BY <1>22 DEF ShutdownLoop, TypeOK, IdsInOrder, ExpPcs, RequestPcs,
         PollPcs, DtorPcs
  <2>2. \A t \in Threads : cur'[t] < nextId'
    BY <1>22 DEF ShutdownLoop, TypeOK, IdsInOrder, ExpPcs, RequestPcs,
         PollPcs, DtorPcs
  <2>3. \A v \in Workers :
          pc'[v] \in RequestPcs \cup DtorPcs \cup {"postLost"} => cur'[v] # 0
    BY <1>22 DEF ShutdownLoop, TypeOK, IdsInOrder, ExpPcs, RequestPcs,
         PollPcs, DtorPcs
  <2>4. \A r \in Sessions : cur'[r] = r /\ (pc'[r] # "none" => r < nextId')
    BY <1>22 DEF ShutdownLoop, TypeOK, IdsInOrder, ExpPcs, RequestPcs,
         PollPcs, DtorPcs
  <2>5. \A r \in Sessions : pc'[r] \in ExpPcs
    BY <1>22 DEF ShutdownLoop, TypeOK, IdsInOrder, ExpPcs, RequestPcs,
         PollPcs, DtorPcs
  <2>6. QED
    BY <2>1, <2>2, <2>3, <2>4, <2>5 DEF IdsInOrder
<1>23. ASSUME ShutdownGiveUp
      PROVE  IdsInOrder'
  BY <1>23 DEF ShutdownGiveUp, RequestOver, TypeOK, IdsInOrder, ExpPcs,
       RequestPcs, PollPcs, DtorPcs
<1>24. ASSUME ShutdownWait
      PROVE  IdsInOrder'
  BY <1>24 DEF ShutdownWait, TypeOK, IdsInOrder, ExpPcs, RequestPcs, PollPcs,
       DtorPcs
<1>25. CASE UNCHANGED vars
  BY <1>25 DEF vars, TypeOK, IdsInOrder, ExpPcs, RequestPcs, PollPcs, DtorPcs
<1> QED
  BY <1>1, <1>2, <1>3, <1>4, <1>5, <1>6, <1>7, <1>8, <1>9, <1>10, <1>11,
       <1>12, <1>13, <1>14, <1>15, <1>16, <1>17, <1>18, <1>19, <1>20, <1>21,
       <1>22, <1>23, <1>24, <1>25
     DEF Next, Request, WorkerStep, ExpStep, MainStep

\* GetSession renews the lifetime; MaintainExpirationThread leaves its loop
\* when the lifetime reaches zero.
LEMMA CountingStep ==
    ASSUME TypeOK, TypeOK', IdsInOrder, Counting, [Next]_vars
    PROVE  Counting'
<1>a. nextId \in Nat /\ \A a \in Agents : cur[a] \in Nat
  BY Numbers
<1> USE AgentSorts, <1>a DEF Goto, locks, registry, sessionFlags, history
<1>1. ASSUME NEW w \in Workers, PostSession(w)
      PROVE  Counting'
  <2>1. /\ nextId \in Sessions /\ nextId # w /\ nextId' = nextId + 1
        /\ registered' = registered \cup {nextId} /\ known' = known
    BY <1>1 DEF PostSession, TypeOK, Sessions
  <2>2. \A a \in Agents :
          /\ pc'[a] = IF a = nextId THEN "tick"
                      ELSE IF a = w THEN "postConnect" ELSE pc[a]
          /\ cur'[a] = IF a = w THEN nextId ELSE cur[a]
    BY <1>1, <2>1 DEF PostSession, TypeOK
  <2>3. /\ \A s \in Sessions :
             remaining'[s] = IF s = nextId THEN Lifetime ELSE remaining[s]
        /\ \A v \in Workers : decs'[v] = IF v = w THEN 0 ELSE decs[v]
    BY <1>1 DEF PostSession, TypeOK
  <2>4. \A s \in Sessions : pc'[s] \in {"tick", "sleep"} => remaining'[s] > 0
    BY <2>1, <2>2, <2>3 DEF TypeOK, IdsInOrder, Counting, InRequest, ExpPcs,
         RequestPcs, PollPcs, DtorPcs
  <2>5. \A r \in Sessions, v \in Workers :
          pc'[r] \in {"tick", "sleep"} /\ InRequest(v, r)'
             => decs'[v] <= RequestTicks
    BY <2>1, <2>2, <2>3 DEF TypeOK, IdsInOrder, Counting, InRequest, ExpPcs,
         RequestPcs, PollPcs, DtorPcs
  <2>6. QED
    BY <2>1, <2>2, <2>3, <2>4, <2>5 DEF Counting
<1>2. ASSUME NEW w \in Workers, PostReply(w)
      PROVE  Counting'
  <2>1. /\ nextId' = nextId /\ cur' = cur /\ decs' = decs
        /\ registered' = registered /\ known' \subseteq known \cup {cur[w]}
        /\ \A a \in Agents :
              pc'[a] = pc[a] \/ (a = w /\ pc'[a] \in {"idle", "postLost"})
        /\ \A s \in Sessions : remaining'[s] \in {Lifetime, remaining[s]}
    BY <1>2 DEF PostReply, GetSession, TypeOK
  <2>2. \A s \in Sessions : pc'[s] \in {"tick", "sleep"} => remaining'[s] > 0
    BY <2>1 DEF TypeOK, Counting, InRequest, ExpPcs, RequestPcs, PollPcs,
         DtorPcs
  <2>3. \A r \in Sessions, v \in Workers :
          pc'[r] \in {"tick", "sleep"} /\ InRequest(v, r)'
             => decs'[v] <= RequestTicks
    BY <2>1 DEF TypeOK, Counting, InRequest, ExpPcs, RequestPcs, PollPcs,
         DtorPcs
  <2>4. QED
    BY <2>1, <2>2, <2>3 DEF Counting
<1>3. ASSUME NEW w \in Workers, PostLostReply(w)
      PROVE  Counting'
  BY <1>3 DEF PostLostReply, TypeOK, IdsInOrder, Counting, InRequest,
       RequestPcs, PollPcs, DtorPcs
<1>4. ASSUME NEW w \in Workers, PollFirstRead(w)
      PROVE  Counting'
  BY <1>4 DEF PollFirstRead, TypeOK, IdsInOrder, Counting, InRequest,
       RequestPcs, PollPcs, DtorPcs
<1>5. ASSUME NEW w \in Workers, PollFirstClear(w)
      PROVE  Counting'
  BY <1>5 DEF PollFirstClear, TypeOK, IdsInOrder, Counting, InRequest,
       RequestPcs, PollPcs, DtorPcs
<1>6. ASSUME NEW w \in Workers, PollNotify(w)
      PROVE  Counting'
  BY <1>6 DEF PollNotify, TypeOK, IdsInOrder, Counting, InRequest, RequestPcs,
       PollPcs, DtorPcs
<1>7. ASSUME NEW w \in Workers, PollWait(w)
      PROVE  Counting'
  BY <1>7 DEF PollWait, TypeOK, IdsInOrder, Counting, InRequest, RequestPcs,
       PollPcs, DtorPcs
<1>8. ASSUME NEW w \in Workers, PollLock(w)
      PROVE  Counting'
  BY <1>8 DEF PollLock, TypeOK, IdsInOrder, Counting, InRequest, RequestPcs,
       PollPcs, DtorPcs
<1>9. ASSUME NEW w \in Workers, PollClear(w)
      PROVE  Counting'
  BY <1>9 DEF PollClear, TypeOK, IdsInOrder, Counting, InRequest, RequestPcs,
       PollPcs, DtorPcs
<1>10. ASSUME NEW w \in Workers, PollUnlock(w)
      PROVE  Counting'
  BY <1>10 DEF PollUnlock, TypeOK, IdsInOrder, Counting, InRequest,
       RequestPcs, PollPcs, DtorPcs
<1>11. ASSUME NEW w \in Workers, NEW s \in Sessions, ShortRequest(w, s)
      PROVE  Counting'
  BY <1>11 DEF GetSession, Arrives, ShortRequest, TypeOK, IdsInOrder,
       Counting, InRequest, RequestPcs, PollPcs, DtorPcs
<1>12. ASSUME NEW w \in Workers, NEW s \in Sessions, PollBegin(w, s)
      PROVE  Counting'
  BY <1>12 DEF GetSession, Arrives, PollBegin, TypeOK, IdsInOrder, Counting,
       InRequest, RequestPcs, PollPcs, DtorPcs
<1>13. ASSUME NEW w \in Workers, NEW s \in Sessions, DeleteBegin(w, s)
      PROVE  Counting'
  BY <1>13 DEF GetSession, Arrives, DeleteBegin, TypeOK, IdsInOrder, Counting,
       InRequest, RequestPcs, PollPcs, DtorPcs
<1>14. ASSUME NEW t \in Agents, DeleteTry(t)
      PROVE  Counting'
  BY <1>14 DEF DeleteTry, RequestOver, TypeOK, IdsInOrder, Counting,
       InRequest, RequestPcs, PollPcs, DtorPcs
<1>15. ASSUME NEW t \in Agents, DtorUnregister(t)
      PROVE  Counting'
  BY <1>15 DEF DtorUnregister, ListAvailable, TypeOK, IdsInOrder, Counting,
       InRequest, RequestPcs, PollPcs, DtorPcs
<1>16. ASSUME NEW t \in Agents, DtorFree(t)
      PROVE  Counting'
  BY <1>16 DEF DtorFree, ThreadGone, TypeOK, IdsInOrder, Counting, InRequest,
       RequestPcs, PollPcs, DtorPcs
<1>17. ASSUME NEW s \in Sessions, ExpTick(s)
      PROVE  Counting'
  BY <1>17 DEF ExpTick, LastDecrement, TypeOK, IdsInOrder, Counting,
       InRequest, RequestPcs, PollPcs, DtorPcs
<1>18. ASSUME NEW s \in Sessions, ExpTimeout(s)
      PROVE  Counting'
  BY <1>18 DEF ExpTimeout, TypeOK, IdsInOrder, Counting, InRequest,
       RequestPcs, PollPcs, DtorPcs
<1>19. ASSUME NEW s \in Sessions, ExpExit(s)
      PROVE  Counting'
  BY <1>19 DEF ExpExit, TypeOK, IdsInOrder, Counting, InRequest, RequestPcs,
       PollPcs, DtorPcs
<1>20. ASSUME NEW s \in Sessions, ExpExpire(s)
      PROVE  Counting'
  BY <1>20 DEF ExpExpire, TypeOK, IdsInOrder, Counting, InRequest, RequestPcs,
       PollPcs, DtorPcs
<1>21. ASSUME ShutdownBegin
      PROVE  Counting'
  BY <1>21 DEF ShutdownBegin, TypeOK, IdsInOrder, Counting, InRequest,
       RequestPcs, PollPcs, DtorPcs
<1>22. ASSUME ShutdownLoop
      PROVE  Counting'
  <2>1. \A s \in Sessions : pc'[s] \in {"tick", "sleep"} => remaining'[s] > 0
    BY <1>22 DEF ShutdownLoop, TypeOK, Counting, InRequest, ExpPcs,
         RequestPcs, PollPcs, DtorPcs
  <2>2. \A r \in Sessions, v \in Workers :
          pc'[r] \in {"tick", "sleep"} /\ InRequest(v, r)'
             => decs'[v] <= RequestTicks
    BY <1>22 DEF ShutdownLoop, TypeOK, Counting, InRequest, ExpPcs,
         RequestPcs, PollPcs, DtorPcs
  <2>3. QED
    BY <2>1, <2>2 DEF Counting
<1>23. ASSUME ShutdownGiveUp
      PROVE  Counting'
  BY <1>23 DEF ShutdownGiveUp, RequestOver, TypeOK, IdsInOrder, Counting,
       InRequest, RequestPcs, PollPcs, DtorPcs
<1>24. ASSUME ShutdownWait
      PROVE  Counting'
  BY <1>24 DEF ShutdownWait, TypeOK, IdsInOrder, Counting, InRequest,
       RequestPcs, PollPcs, DtorPcs
<1>25. CASE UNCHANGED vars
  BY <1>25 DEF vars, TypeOK, IdsInOrder, Counting, InRequest, RequestPcs,
       PollPcs, DtorPcs
<1> QED
  BY <1>1, <1>2, <1>3, <1>4, <1>5, <1>6, <1>7, <1>8, <1>9, <1>10, <1>11,
       <1>12, <1>13, <1>14, <1>15, <1>16, <1>17, <1>18, <1>19, <1>20, <1>21,
       <1>22, <1>23, <1>24, <1>25
     DEF Next, Request, WorkerStep, ExpStep, MainStep

\* Only GenerateSession inserts into the map, and under a new id.
LEMMA FreedStep ==
    ASSUME TypeOK, IdsInOrder, FreedUnregistered, [Next]_vars
    PROVE  FreedUnregistered'
<1>a. nextId \in Nat /\ \A a \in Agents : cur[a] \in Nat
  BY Numbers
<1> USE AgentSorts, <1>a DEF Goto, locks, registry, sessionFlags, history
<1>1. ASSUME NEW w \in Workers, PostSession(w)
      PROVE  FreedUnregistered'
  BY <1>1 DEF PostSession, TypeOK, IdsInOrder, FreedUnregistered
<1>2. ASSUME NEW w \in Workers, PostReply(w)
      PROVE  FreedUnregistered'
  BY <1>2 DEF GetSession, PostReply, TypeOK, IdsInOrder, FreedUnregistered
<1>3. ASSUME NEW w \in Workers, PostLostReply(w)
      PROVE  FreedUnregistered'
  BY <1>3 DEF PostLostReply, TypeOK, IdsInOrder, FreedUnregistered
<1>4. ASSUME NEW w \in Workers, PollFirstRead(w)
      PROVE  FreedUnregistered'
  BY <1>4 DEF PollFirstRead, TypeOK, IdsInOrder, FreedUnregistered
<1>5. ASSUME NEW w \in Workers, PollFirstClear(w)
      PROVE  FreedUnregistered'
  BY <1>5 DEF PollFirstClear, TypeOK, IdsInOrder, FreedUnregistered
<1>6. ASSUME NEW w \in Workers, PollNotify(w)
      PROVE  FreedUnregistered'
  BY <1>6 DEF PollNotify, TypeOK, IdsInOrder, FreedUnregistered
<1>7. ASSUME NEW w \in Workers, PollWait(w)
      PROVE  FreedUnregistered'
  BY <1>7 DEF PollWait, TypeOK, IdsInOrder, FreedUnregistered
<1>8. ASSUME NEW w \in Workers, PollLock(w)
      PROVE  FreedUnregistered'
  BY <1>8 DEF PollLock, TypeOK, IdsInOrder, FreedUnregistered
<1>9. ASSUME NEW w \in Workers, PollClear(w)
      PROVE  FreedUnregistered'
  BY <1>9 DEF PollClear, TypeOK, IdsInOrder, FreedUnregistered
<1>10. ASSUME NEW w \in Workers, PollUnlock(w)
      PROVE  FreedUnregistered'
  BY <1>10 DEF PollUnlock, TypeOK, IdsInOrder, FreedUnregistered
<1>11. ASSUME NEW w \in Workers, NEW s \in Sessions, ShortRequest(w, s)
      PROVE  FreedUnregistered'
  BY <1>11 DEF GetSession, Arrives, ShortRequest, TypeOK, IdsInOrder,
       FreedUnregistered
<1>12. ASSUME NEW w \in Workers, NEW s \in Sessions, PollBegin(w, s)
      PROVE  FreedUnregistered'
  BY <1>12 DEF GetSession, Arrives, PollBegin, TypeOK, IdsInOrder,
       FreedUnregistered
<1>13. ASSUME NEW w \in Workers, NEW s \in Sessions, DeleteBegin(w, s)
      PROVE  FreedUnregistered'
  BY <1>13 DEF GetSession, Arrives, DeleteBegin, TypeOK, IdsInOrder,
       FreedUnregistered
<1>14. ASSUME NEW t \in Agents, DeleteTry(t)
      PROVE  FreedUnregistered'
  BY <1>14 DEF DeleteTry, RequestOver, TypeOK, IdsInOrder, FreedUnregistered
<1>15. ASSUME NEW t \in Agents, DtorUnregister(t)
      PROVE  FreedUnregistered'
  BY <1>15 DEF DtorUnregister, ListAvailable, TypeOK, IdsInOrder,
       FreedUnregistered
<1>16. ASSUME NEW t \in Agents, DtorFree(t)
      PROVE  FreedUnregistered'
  BY <1>16 DEF DtorFree, ThreadGone, TypeOK, IdsInOrder, FreedUnregistered
<1>17. ASSUME NEW s \in Sessions, ExpTick(s)
      PROVE  FreedUnregistered'
  BY <1>17 DEF ExpTick, LastDecrement, TypeOK, IdsInOrder, FreedUnregistered
<1>18. ASSUME NEW s \in Sessions, ExpTimeout(s)
      PROVE  FreedUnregistered'
  BY <1>18 DEF ExpTimeout, TypeOK, IdsInOrder, FreedUnregistered
<1>19. ASSUME NEW s \in Sessions, ExpExit(s)
      PROVE  FreedUnregistered'
  BY <1>19 DEF ExpExit, TypeOK, IdsInOrder, FreedUnregistered
<1>20. ASSUME NEW s \in Sessions, ExpExpire(s)
      PROVE  FreedUnregistered'
  BY <1>20 DEF ExpExpire, TypeOK, IdsInOrder, FreedUnregistered
<1>21. ASSUME ShutdownBegin
      PROVE  FreedUnregistered'
  BY <1>21 DEF ShutdownBegin, TypeOK, IdsInOrder, FreedUnregistered
<1>22. ASSUME ShutdownLoop
      PROVE  FreedUnregistered'
  BY <1>22 DEF ShutdownLoop, TypeOK, IdsInOrder, FreedUnregistered
<1>23. ASSUME ShutdownGiveUp
      PROVE  FreedUnregistered'
  BY <1>23 DEF ShutdownGiveUp, RequestOver, TypeOK, IdsInOrder,
       FreedUnregistered
<1>24. ASSUME ShutdownWait
      PROVE  FreedUnregistered'
  BY <1>24 DEF ShutdownWait, TypeOK, IdsInOrder, FreedUnregistered
<1>25. CASE UNCHANGED vars
  BY <1>25 DEF vars, TypeOK, IdsInOrder, FreedUnregistered
<1> QED
  BY <1>1, <1>2, <1>3, <1>4, <1>5, <1>6, <1>7, <1>8, <1>9, <1>10, <1>11,
       <1>12, <1>13, <1>14, <1>15, <1>16, <1>17, <1>18, <1>19, <1>20, <1>21,
       <1>22, <1>23, <1>24, <1>25
     DEF Next, Request, WorkerStep, ExpStep, MainStep

\* ~CSession unregisters the session before its memory is released.
LEMMA AliveStep ==
    ASSUME TypeOK, IdsInOrder, FreedUnregistered, RegisteredAlive, [Next]_vars
    PROVE  RegisteredAlive'
<1>a. nextId \in Nat /\ \A a \in Agents : cur[a] \in Nat
  BY Numbers
<1> USE AgentSorts, <1>a DEF Goto, locks, registry, sessionFlags, history
<1>1. ASSUME NEW w \in Workers, PostSession(w)
      PROVE  RegisteredAlive'
  <2>1. nextId \in Sessions /\ registered' = registered \cup {nextId}
    BY <1>1 DEF PostSession, TypeOK, Sessions
  <2>2. \A s \in Sessions : heap'[s] = IF s = nextId THEN "live" ELSE heap[s]
    BY <1>1 DEF PostSession, TypeOK
  <2>3. QED
    BY <2>1, <2>2 DEF TypeOK, RegisteredAlive
<1>2. ASSUME NEW w \in Workers, PostReply(w)
      PROVE  RegisteredAlive'
  BY <1>2 DEF GetSession, PostReply, TypeOK, IdsInOrder, FreedUnregistered,
       RegisteredAlive
<1>3. ASSUME NEW w \in Workers, PostLostReply(w)
      PROVE  RegisteredAlive'
  BY <1>3 DEF PostLostReply, TypeOK, IdsInOrder, FreedUnregistered,
       RegisteredAlive
<1>4. ASSUME NEW w \in Workers, PollFirstRead(w)
      PROVE  RegisteredAlive'
  BY <1>4 DEF PollFirstRead, TypeOK, IdsInOrder, FreedUnregistered,
       RegisteredAlive
<1>5. ASSUME NEW w \in Workers, PollFirstClear(w)
      PROVE  RegisteredAlive'
  BY <1>5 DEF PollFirstClear, TypeOK, IdsInOrder, FreedUnregistered,
       RegisteredAlive
<1>6. ASSUME NEW w \in Workers, PollNotify(w)
      PROVE  RegisteredAlive'
  BY <1>6 DEF PollNotify, TypeOK, IdsInOrder, FreedUnregistered, RegisteredAlive
<1>7. ASSUME NEW w \in Workers, PollWait(w)
      PROVE  RegisteredAlive'
  BY <1>7 DEF PollWait, TypeOK, IdsInOrder, FreedUnregistered, RegisteredAlive
<1>8. ASSUME NEW w \in Workers, PollLock(w)
      PROVE  RegisteredAlive'
  BY <1>8 DEF PollLock, TypeOK, IdsInOrder, FreedUnregistered, RegisteredAlive
<1>9. ASSUME NEW w \in Workers, PollClear(w)
      PROVE  RegisteredAlive'
  BY <1>9 DEF PollClear, TypeOK, IdsInOrder, FreedUnregistered, RegisteredAlive
<1>10. ASSUME NEW w \in Workers, PollUnlock(w)
      PROVE  RegisteredAlive'
  BY <1>10 DEF PollUnlock, TypeOK, IdsInOrder, FreedUnregistered,
       RegisteredAlive
<1>11. ASSUME NEW w \in Workers, NEW s \in Sessions, ShortRequest(w, s)
      PROVE  RegisteredAlive'
  BY <1>11 DEF GetSession, Arrives, ShortRequest, TypeOK, IdsInOrder,
       FreedUnregistered, RegisteredAlive
<1>12. ASSUME NEW w \in Workers, NEW s \in Sessions, PollBegin(w, s)
      PROVE  RegisteredAlive'
  BY <1>12 DEF GetSession, Arrives, PollBegin, TypeOK, IdsInOrder,
       FreedUnregistered, RegisteredAlive
<1>13. ASSUME NEW w \in Workers, NEW s \in Sessions, DeleteBegin(w, s)
      PROVE  RegisteredAlive'
  BY <1>13 DEF GetSession, Arrives, DeleteBegin, TypeOK, IdsInOrder,
       FreedUnregistered, RegisteredAlive
<1>14. ASSUME NEW t \in Agents, DeleteTry(t)
      PROVE  RegisteredAlive'
  BY <1>14 DEF DeleteTry, RequestOver, TypeOK, IdsInOrder, FreedUnregistered,
       RegisteredAlive
<1>15. ASSUME NEW t \in Agents, DtorUnregister(t)
      PROVE  RegisteredAlive'
  BY <1>15 DEF DtorUnregister, ListAvailable, TypeOK, IdsInOrder,
       FreedUnregistered, RegisteredAlive
<1>16. ASSUME NEW t \in Agents, DtorFree(t)
      PROVE  RegisteredAlive'
  BY <1>16 DEF DtorFree, ThreadGone, TypeOK, IdsInOrder, FreedUnregistered,
       RegisteredAlive
<1>17. ASSUME NEW s \in Sessions, ExpTick(s)
      PROVE  RegisteredAlive'
  BY <1>17 DEF ExpTick, LastDecrement, TypeOK, IdsInOrder, FreedUnregistered,
       RegisteredAlive
<1>18. ASSUME NEW s \in Sessions, ExpTimeout(s)
      PROVE  RegisteredAlive'
  BY <1>18 DEF ExpTimeout, TypeOK, IdsInOrder, FreedUnregistered,
       RegisteredAlive
<1>19. ASSUME NEW s \in Sessions, ExpExit(s)
      PROVE  RegisteredAlive'
  BY <1>19 DEF ExpExit, TypeOK, IdsInOrder, FreedUnregistered, RegisteredAlive
<1>20. ASSUME NEW s \in Sessions, ExpExpire(s)
      PROVE  RegisteredAlive'
  BY <1>20 DEF ExpExpire, TypeOK, IdsInOrder, FreedUnregistered, RegisteredAlive
<1>21. ASSUME ShutdownBegin
      PROVE  RegisteredAlive'
  BY <1>21 DEF ShutdownBegin, TypeOK, IdsInOrder, FreedUnregistered,
       RegisteredAlive
<1>22. ASSUME ShutdownLoop
      PROVE  RegisteredAlive'
  BY <1>22 DEF ShutdownLoop, TypeOK, IdsInOrder, FreedUnregistered,
       RegisteredAlive
<1>23. ASSUME ShutdownGiveUp
      PROVE  RegisteredAlive'
  BY <1>23 DEF ShutdownGiveUp, RequestOver, TypeOK, IdsInOrder,
       FreedUnregistered, RegisteredAlive
<1>24. ASSUME ShutdownWait
      PROVE  RegisteredAlive'
  BY <1>24 DEF ShutdownWait, TypeOK, IdsInOrder, FreedUnregistered,
       RegisteredAlive
<1>25. CASE UNCHANGED vars
  BY <1>25 DEF vars, TypeOK, IdsInOrder, FreedUnregistered, RegisteredAlive
<1> QED
  BY <1>1, <1>2, <1>3, <1>4, <1>5, <1>6, <1>7, <1>8, <1>9, <1>10, <1>11,
       <1>12, <1>13, <1>14, <1>15, <1>16, <1>17, <1>18, <1>19, <1>20, <1>21,
       <1>22, <1>23, <1>24, <1>25
     DEF Next, Request, WorkerStep, ExpStep, MainStep

\* Handle_DeleteSession keeps the list mutex, so no poll begins on the session
\* it destroys.
LEMMA DeleterStep ==
    ASSUME PromptClients, TypeOK, TypeOK', IdsInOrder, Counting,
           DeleterExcludes, FlagMeansPoll, [Next]_vars
    PROVE  DeleterExcludes'
<1>a. nextId \in Nat /\ \A a \in Agents : cur[a] \in Nat
  BY Numbers
<1>p. ~LateRequests /\ ~OverlappingPolls /\ ~ShutdownPossible
  BY DEF PromptClients
<1> USE AgentSorts, <1>a, <1>p DEF Goto, locks, registry, sessionFlags, history
<1>1. ASSUME NEW w \in Workers, PostSession(w)
      PROVE  DeleterExcludes'
  BY <1>1 DEF PostSession, TypeOK, DeleterExcludes, DtorPcs
<1>2. ASSUME NEW w \in Workers, PostReply(w)
      PROVE  DeleterExcludes'
  BY <1>2 DEF GetSession, PostReply, TypeOK, DeleterExcludes, DtorPcs
<1>3. ASSUME NEW w \in Workers, PostLostReply(w)
      PROVE  DeleterExcludes'
  BY <1>3 DEF PostLostReply, TypeOK, DeleterExcludes, DtorPcs
<1>4. ASSUME NEW w \in Workers, PollFirstRead(w)
      PROVE  DeleterExcludes'
  BY <1>4 DEF PollFirstRead, TypeOK, DeleterExcludes, DtorPcs
<1>5. ASSUME NEW w \in Workers, PollFirstClear(w)
      PROVE  DeleterExcludes'
  BY <1>5 DEF PollFirstClear, TypeOK, DeleterExcludes, DtorPcs
<1>6. ASSUME NEW w \in Workers, PollNotify(w)
      PROVE  DeleterExcludes'
  BY <1>6 DEF PollNotify, TypeOK, DeleterExcludes, DtorPcs
<1>7. ASSUME NEW w \in Workers, PollWait(w)
      PROVE  DeleterExcludes'
  BY <1>7 DEF PollWait, TypeOK, DeleterExcludes, DtorPcs
<1>8. ASSUME NEW w \in Workers, PollLock(w)
      PROVE  DeleterExcludes'
  BY <1>8 DEF PollLock, TypeOK, DeleterExcludes, DtorPcs
<1>9. ASSUME NEW w \in Workers, PollClear(w)
      PROVE  DeleterExcludes'
  BY <1>9 DEF PollClear, TypeOK, DeleterExcludes, DtorPcs
<1>10. ASSUME NEW w \in Workers, PollUnlock(w)
      PROVE  DeleterExcludes'
  BY <1>10 DEF PollUnlock, TypeOK, DeleterExcludes, DtorPcs
<1>11. ASSUME NEW w \in Workers, NEW s \in Sessions, ShortRequest(w, s)
      PROVE  DeleterExcludes'
  BY <1>11 DEF GetSession, Arrives, ShortRequest, TypeOK, DeleterExcludes,
       DtorPcs
<1>12. ASSUME NEW w \in Workers, NEW s \in Sessions, PollBegin(w, s)
      PROVE  DeleterExcludes'
  BY <1>12 DEF GetSession, Arrives, PollBegin, TypeOK, DeleterExcludes, DtorPcs
<1>13. ASSUME NEW w \in Workers, NEW s \in Sessions, DeleteBegin(w, s)
      PROVE  DeleterExcludes'
  BY <1>13 DEF GetSession, Arrives, DeleteBegin, TypeOK, DeleterExcludes,
       DtorPcs
<1>14. ASSUME NEW t \in Agents, DeleteTry(t)
      PROVE  DeleterExcludes'
  BY <1>14 DEF DeleteTry, RequestOver, TypeOK, DeleterExcludes, DtorPcs
<1>15. ASSUME NEW t \in Agents, DtorUnregister(t)
      PROVE  DeleterExcludes'
  BY <1>15 DEF DtorUnregister, ListAvailable, TypeOK, DeleterExcludes, DtorPcs
<1>16. ASSUME NEW t \in Agents, DtorFree(t)
      PROVE  DeleterExcludes'
  BY <1>16 DEF DtorFree, ThreadGone, TypeOK, DeleterExcludes, DtorPcs
<1>17. ASSUME NEW s \in Sessions, ExpTick(s)
      PROVE  DeleterExcludes'
  BY <1>17 DEF ExpTick, LastDecrement, TypeOK, DeleterExcludes, DtorPcs
<1>18. ASSUME NEW s \in Sessions, ExpTimeout(s)
      PROVE  DeleterExcludes'
  BY <1>18 DEF ExpTimeout, TypeOK, DeleterExcludes, DtorPcs
<1>19. ASSUME NEW s \in Sessions, ExpExit(s)
      PROVE  DeleterExcludes'
  BY <1>19 DEF ExpExit, TypeOK, DeleterExcludes, DtorPcs
<1>20. ASSUME NEW s \in Sessions, ExpExpire(s)
      PROVE  DeleterExcludes'
  BY <1>20 DEF ExpExpire, TypeOK, DeleterExcludes, DtorPcs
<1>21. ASSUME ShutdownBegin
      PROVE  DeleterExcludes'
  BY <1>21 DEF ShutdownBegin, TypeOK, DeleterExcludes, DtorPcs
<1>22. ASSUME ShutdownLoop
      PROVE  DeleterExcludes'
  BY <1>22 DEF ShutdownLoop, TypeOK, DeleterExcludes, DtorPcs
<1>23. ASSUME ShutdownGiveUp
      PROVE  DeleterExcludes'
  BY <1>23 DEF ShutdownGiveUp, RequestOver, TypeOK, DeleterExcludes, DtorPcs
<1>24. ASSUME ShutdownWait
      PROVE  DeleterExcludes'
  BY <1>24 DEF ShutdownWait, TypeOK, DeleterExcludes, DtorPcs
<1>25. CASE UNCHANGED vars
  BY <1>25 DEF vars, TypeOK, DeleterExcludes, DtorPcs
<1> QED
  BY <1>1, <1>2, <1>3, <1>4, <1>5, <1>6, <1>7, <1>8, <1>9, <1>10, <1>11,
       <1>12, <1>13, <1>14, <1>15, <1>16, <1>17, <1>18, <1>19, <1>20, <1>21,
       <1>22, <1>23, <1>24, <1>25
     DEF Next, Request, WorkerStep, ExpStep, MainStep

\* m_bRequestInProgress rises and falls with the one poll of the session.
LEMMA FlagStep ==
    ASSUME PromptClients, TypeOK, TypeOK', IdsInOrder, Counting,
           DeleterExcludes, FlagMeansPoll, [Next]_vars
    PROVE  FlagMeansPoll'
<1>a. nextId \in Nat /\ \A a \in Agents : cur[a] \in Nat
  BY Numbers
<1>p. ~LateRequests /\ ~OverlappingPolls /\ ~ShutdownPossible
  BY DEF PromptClients
<1> USE AgentSorts, <1>a, <1>p DEF Goto, locks, registry, sessionFlags, history
<1>1. ASSUME NEW w \in Workers, PostSession(w)
      PROVE  FlagMeansPoll'
  <2>1. /\ nextId \in Sessions /\ nextId # w /\ nextId' = nextId + 1
        /\ registered' = registered \cup {nextId} /\ known' = known
    BY <1>1 DEF PostSession, TypeOK, Sessions
  <2>2. \A a \in Agents :
          /\ pc'[a] = IF a = nextId THEN "tick"
                      ELSE IF a = w THEN "postConnect" ELSE pc[a]
          /\ cur'[a] = IF a = w THEN nextId ELSE cur[a]
    BY <1>1, <2>1 DEF PostSession, TypeOK
  <2>3. /\ \A s \in Sessions :
             remaining'[s] = IF s = nextId THEN Lifetime ELSE remaining[s]
        /\ \A v \in Workers : decs'[v] = IF v = w THEN 0 ELSE decs[v]
    BY <1>1 DEF PostSession, TypeOK
  <2>4. \A s \in Sessions :
             inProgress'[s] = IF s = nextId THEN FALSE ELSE inProgress[s]
    BY <1>1 DEF PostSession, TypeOK
  <2>5. \A v \in Workers : cur[v] # nextId
    BY <2>1 DEF IdsInOrder
  <2>6. \A v \in Workers, s \in Sessions : Polling(v, s)' <=> Polling(v, s)
    <3> SUFFICES ASSUME NEW v \in Workers, NEW s \in Sessions
                 PROVE  Polling(v, s)' <=> Polling(v, s)
      OBVIOUS
    <3>1. v # nextId /\ v \in Agents
      BY <2>1
    <3>2. CASE v = w
      <4>1. pc[v] = "idle"
        BY <1>1, <3>2 DEF PostSession
      <4>2. pc'[v] = "postConnect"
        BY <2>2, <3>1, <3>2
      <4>3. QED
        BY <4>1, <4>2 DEF Polling, PollPcs
    <3>3. CASE v # w
      BY <2>2, <3>1, <3>3 DEF Polling
    <3>4. QED
      BY <3>2, <3>3
  <2>7. \A s \in Sessions : inProgress'[s] => \E v \in Workers : Polling(v, s)'
    BY <2>4, <2>6 DEF FlagMeansPoll
  <2>8. \A v \in Workers, s \in Sessions : Polling(v, s)' =>
          inProgress'[s] /\ \A u \in Workers : Polling(u, s)' => u = v
    <3>1. \A v \in Workers, s \in Sessions : Polling(v, s) => s # nextId
      BY <2>5 DEF Polling
    <3>2. QED
      BY <2>4, <2>6, <3>1, ZenonT(30) DEF FlagMeansPoll
  <2>9. QED
    BY <2>7, <2>8 DEF FlagMeansPoll
<1>2. ASSUME NEW w \in Workers, PostReply(w)
      PROVE  FlagMeansPoll'
  BY <1>2 DEF GetSession, PostReply, TypeOK, FlagMeansPoll, Polling,
       InRequest, RequestPcs, PollPcs
<1>3. ASSUME NEW w \in Workers, PostLostReply(w)
      PROVE  FlagMeansPoll'
  BY <1>3 DEF PostLostReply, TypeOK, FlagMeansPoll, Polling, InRequest,
       RequestPcs, PollPcs
<1>4. ASSUME NEW w \in Workers, PollFirstRead(w)
      PROVE  FlagMeansPoll'
  BY <1>4 DEF PollFirstRead, TypeOK, FlagMeansPoll, Polling, InRequest,
       RequestPcs, PollPcs
<1>5. ASSUME NEW w \in Workers, PollFirstClear(w)
      PROVE  FlagMeansPoll'
  BY <1>5 DEF PollFirstClear, TypeOK, FlagMeansPoll, Polling, InRequest,
       RequestPcs, PollPcs
<1>6. ASSUME NEW w \in Workers, PollNotify(w)
      PROVE  FlagMeansPoll'
  BY <1>6 DEF PollNotify, TypeOK, FlagMeansPoll, Polling, InRequest,
       RequestPcs, PollPcs
<1>7. ASSUME NEW w \in Workers, PollWait(w)
      PROVE  FlagMeansPoll'
  BY <1>7 DEF PollWait, TypeOK, FlagMeansPoll, Polling, InRequest, RequestPcs,
       PollPcs
<1>8. ASSUME NEW w \in Workers, PollLock(w)
      PROVE  FlagMeansPoll'
  BY <1>8 DEF PollLock, TypeOK, FlagMeansPoll, Polling, InRequest, RequestPcs,
       PollPcs
<1>9. ASSUME NEW w \in Workers, PollClear(w)
      PROVE  FlagMeansPoll'
  BY <1>9 DEF PollClear, TypeOK, FlagMeansPoll, Polling, InRequest,
       RequestPcs, PollPcs
<1>10. ASSUME NEW w \in Workers, PollUnlock(w)
      PROVE  FlagMeansPoll'
  BY <1>10 DEF PollUnlock, TypeOK, FlagMeansPoll, Polling, InRequest,
       RequestPcs, PollPcs
<1>11. ASSUME NEW w \in Workers, NEW s \in Sessions, ShortRequest(w, s)
      PROVE  FlagMeansPoll'
  BY <1>11 DEF GetSession, Arrives, ShortRequest, TypeOK, FlagMeansPoll,
       Polling, InRequest, RequestPcs, PollPcs
<1>12. ASSUME NEW w \in Workers, NEW s \in Sessions, PollBegin(w, s)
      PROVE  FlagMeansPoll'
  BY <1>12 DEF GetSession, Arrives, PollBegin, TypeOK, FlagMeansPoll, Polling,
       InRequest, RequestPcs, PollPcs
<1>13. ASSUME NEW w \in Workers, NEW s \in Sessions, DeleteBegin(w, s)
      PROVE  FlagMeansPoll'
  BY <1>13 DEF GetSession, Arrives, DeleteBegin, TypeOK, FlagMeansPoll,
       Polling, InRequest, RequestPcs, PollPcs
<1>14. ASSUME NEW t \in Agents, DeleteTry(t)
      PROVE  FlagMeansPoll'
  BY <1>14 DEF DeleteTry, RequestOver, TypeOK, FlagMeansPoll, Polling,
       InRequest, RequestPcs, PollPcs
<1>15. ASSUME NEW t \in Agents, DtorUnregister(t)
      PROVE  FlagMeansPoll'
  BY <1>15 DEF DtorUnregister, ListAvailable, TypeOK, FlagMeansPoll, Polling,
       InRequest, RequestPcs, PollPcs
<1>16. ASSUME NEW t \in Agents, DtorFree(t)
      PROVE  FlagMeansPoll'
  BY <1>16 DEF DtorFree, ThreadGone, TypeOK, FlagMeansPoll, Polling,
       InRequest, RequestPcs, PollPcs
<1>17. ASSUME NEW s \in Sessions, ExpTick(s)
      PROVE  FlagMeansPoll'
  BY <1>17 DEF ExpTick, LastDecrement, TypeOK, FlagMeansPoll, Polling,
       InRequest, RequestPcs, PollPcs
<1>18. ASSUME NEW s \in Sessions, ExpTimeout(s)
      PROVE  FlagMeansPoll'
  BY <1>18 DEF ExpTimeout, TypeOK, FlagMeansPoll, Polling, InRequest,
       RequestPcs, PollPcs
<1>19. ASSUME NEW s \in Sessions, ExpExit(s)
      PROVE  FlagMeansPoll'
  BY <1>19 DEF ExpExit, TypeOK, FlagMeansPoll, Polling, InRequest, RequestPcs,
       PollPcs
<1>20. ASSUME NEW s \in Sessions, ExpExpire(s)
      PROVE  FlagMeansPoll'
  BY <1>20 DEF ExpExpire, TypeOK, FlagMeansPoll, Polling, InRequest,
       RequestPcs, PollPcs
<1>21. ASSUME ShutdownBegin
      PROVE  FlagMeansPoll'
  BY <1>21 DEF ShutdownBegin, TypeOK, FlagMeansPoll, Polling, InRequest,
       RequestPcs, PollPcs
<1>22. ASSUME ShutdownLoop
      PROVE  FlagMeansPoll'
  BY <1>22 DEF ShutdownLoop, TypeOK, FlagMeansPoll, Polling, InRequest,
       RequestPcs, PollPcs
<1>23. ASSUME ShutdownGiveUp
      PROVE  FlagMeansPoll'
  BY <1>23 DEF ShutdownGiveUp, RequestOver, TypeOK, FlagMeansPoll, Polling,
       InRequest, RequestPcs, PollPcs
<1>24. ASSUME ShutdownWait
      PROVE  FlagMeansPoll'
  BY <1>24 DEF ShutdownWait, TypeOK, FlagMeansPoll, Polling, InRequest,
       RequestPcs, PollPcs
<1>25. CASE UNCHANGED vars
  BY <1>25 DEF vars, TypeOK, FlagMeansPoll, Polling, InRequest, RequestPcs,
       PollPcs
<1> QED
  BY <1>1, <1>2, <1>3, <1>4, <1>5, <1>6, <1>7, <1>8, <1>9, <1>10, <1>11,
       <1>12, <1>13, <1>14, <1>15, <1>16, <1>17, <1>18, <1>19, <1>20, <1>21,
       <1>22, <1>23, <1>24, <1>25
     DEF Next, Request, WorkerStep, ExpStep, MainStep

\* A decrement costs one unit of lifetime and one of the request's time; an
\* expired session is not refreshed by a prompt client.
LEMMA LifetimeStep ==
    ASSUME PromptClients, TypeOK, TypeOK', IdsInOrder, Counting,
           DeleterExcludes, LifetimeLeft, [Next]_vars
    PROVE  LifetimeLeft'
<1>a. nextId \in Nat /\ \A a \in Agents : cur[a] \in Nat
  BY Numbers
<1>p. ~LateRequests /\ ~OverlappingPolls /\ ~ShutdownPossible
  BY DEF PromptClients
<1> USE AgentSorts, <1>a, <1>p DEF Goto, locks, registry, sessionFlags, history
<1>1. ASSUME NEW w \in Workers, PostSession(w)
      PROVE  LifetimeLeft'
  BY <1>1 DEF PostSession, TypeOK, LifetimeLeft, InRequest, RequestPcs,
       PollPcs, DtorPcs
<1>2. ASSUME NEW w \in Workers, PostReply(w)
      PROVE  LifetimeLeft'
  BY <1>2 DEF GetSession, PostReply, TypeOK, LifetimeLeft, InRequest,
       RequestPcs, PollPcs, DtorPcs
<1>3. ASSUME NEW w \in Workers, PostLostReply(w)
      PROVE  LifetimeLeft'
  BY <1>3 DEF PostLostReply, TypeOK, LifetimeLeft, InRequest, RequestPcs,
       PollPcs, DtorPcs
<1>4. ASSUME NEW w \in Workers, PollFirstRead(w)
      PROVE  LifetimeLeft'
  BY <1>4 DEF PollFirstRead, TypeOK, LifetimeLeft, InRequest, RequestPcs,
       PollPcs, DtorPcs
<1>5. ASSUME NEW w \in Workers, PollFirstClear(w)
      PROVE  LifetimeLeft'
  BY <1>5 DEF PollFirstClear, TypeOK, LifetimeLeft, InRequest, RequestPcs,
       PollPcs, DtorPcs
<1>6. ASSUME NEW w \in Workers, PollNotify(w)
      PROVE  LifetimeLeft'
  BY <1>6 DEF PollNotify, TypeOK, LifetimeLeft, InRequest, RequestPcs,
       PollPcs, DtorPcs
<1>7. ASSUME NEW w \in Workers, PollWait(w)
      PROVE  LifetimeLeft'
  BY <1>7 DEF PollWait, TypeOK, LifetimeLeft, InRequest, RequestPcs, PollPcs,
       DtorPcs
<1>8. ASSUME NEW w \in Workers, PollLock(w)
      PROVE  LifetimeLeft'
  BY <1>8 DEF PollLock, TypeOK, LifetimeLeft, InRequest, RequestPcs, PollPcs,
       DtorPcs
<1>9. ASSUME NEW w \in Workers, PollClear(w)
      PROVE  LifetimeLeft'
  BY <1>9 DEF PollClear, TypeOK, LifetimeLeft, InRequest, RequestPcs, PollPcs,
       DtorPcs
<1>10. ASSUME NEW w \in Workers, PollUnlock(w)
      PROVE  LifetimeLeft'
  BY <1>10 DEF PollUnlock, TypeOK, LifetimeLeft, InRequest, RequestPcs,
       PollPcs, DtorPcs
<1>11. ASSUME NEW w \in Workers, NEW s \in Sessions, ShortRequest(w, s)
      PROVE  LifetimeLeft'
  BY <1>11 DEF GetSession, Arrives, ShortRequest, TypeOK, LifetimeLeft,
       InRequest, RequestPcs, PollPcs, DtorPcs
<1>12. ASSUME NEW w \in Workers, NEW s \in Sessions, PollBegin(w, s)
      PROVE  LifetimeLeft'
  BY <1>12 DEF GetSession, Arrives, PollBegin, TypeOK, LifetimeLeft,
       InRequest, RequestPcs, PollPcs, DtorPcs
<1>13. ASSUME NEW w \in Workers, NEW s \in Sessions, DeleteBegin(w, s)
      PROVE  LifetimeLeft'
  BY <1>13 DEF GetSession, Arrives, DeleteBegin, TypeOK, LifetimeLeft,
       InRequest, RequestPcs, PollPcs, DtorPcs
<1>14. ASSUME NEW t \in Agents, DeleteTry(t)
      PROVE  LifetimeLeft'
  BY <1>14 DEF DeleteTry, RequestOver, IdsInOrder, ExpPcs, TypeOK,
       LifetimeLeft, InRequest, RequestPcs, PollPcs, DtorPcs
<1>15. ASSUME NEW t \in Agents, DtorUnregister(t)
      PROVE  LifetimeLeft'
  BY <1>15 DEF DtorUnregister, ListAvailable, TypeOK, LifetimeLeft, InRequest,
       RequestPcs, PollPcs, DtorPcs
<1>16. ASSUME NEW t \in Agents, DtorFree(t)
      PROVE  LifetimeLeft'
  BY <1>16 DEF DtorFree, ThreadGone, TypeOK, LifetimeLeft, InRequest,
       RequestPcs, PollPcs, DtorPcs
<1>17. ASSUME NEW s \in Sessions, ExpTick(s)
      PROVE  LifetimeLeft'
  BY <1>17 DEF ExpTick, LastDecrement, TypeOK, LifetimeLeft, InRequest,
       RequestPcs, PollPcs, DtorPcs
<1>18. ASSUME NEW s \in Sessions, ExpTimeout(s)
      PROVE  LifetimeLeft'
  BY <1>18 DEF ExpTimeout, TypeOK, LifetimeLeft, InRequest, RequestPcs,
       PollPcs, DtorPcs
<1>19. ASSUME NEW s \in Sessions, ExpExit(s)
      PROVE  LifetimeLeft'
  BY <1>19 DEF ExpExit, TypeOK, LifetimeLeft, InRequest, RequestPcs, PollPcs,
       DtorPcs
<1>20. ASSUME NEW s \in Sessions, ExpExpire(s)
      PROVE  LifetimeLeft'
  BY <1>20 DEF ExpExpire, TypeOK, LifetimeLeft, InRequest, RequestPcs,
       PollPcs, DtorPcs
<1>21. ASSUME ShutdownBegin
      PROVE  LifetimeLeft'
  BY <1>21 DEF ShutdownBegin, TypeOK, LifetimeLeft, InRequest, RequestPcs,
       PollPcs, DtorPcs
<1>22. ASSUME ShutdownLoop
      PROVE  LifetimeLeft'
  BY <1>22 DEF ShutdownLoop, TypeOK, LifetimeLeft, InRequest, RequestPcs,
       PollPcs, DtorPcs
<1>23. ASSUME ShutdownGiveUp
      PROVE  LifetimeLeft'
  BY <1>23 DEF ShutdownGiveUp, RequestOver, TypeOK, LifetimeLeft, InRequest,
       RequestPcs, PollPcs, DtorPcs
<1>24. ASSUME ShutdownWait
      PROVE  LifetimeLeft'
  BY <1>24 DEF ShutdownWait, TypeOK, LifetimeLeft, InRequest, RequestPcs,
       PollPcs, DtorPcs
<1>25. CASE UNCHANGED vars
  BY <1>25 DEF vars, TypeOK, LifetimeLeft, InRequest, RequestPcs, PollPcs,
       DtorPcs
<1> QED
  BY <1>1, <1>2, <1>3, <1>4, <1>5, <1>6, <1>7, <1>8, <1>9, <1>10, <1>11,
       <1>12, <1>13, <1>14, <1>15, <1>16, <1>17, <1>18, <1>19, <1>20, <1>21,
       <1>22, <1>23, <1>24, <1>25
     DEF Next, Request, WorkerStep, ExpStep, MainStep

\* A destructor works for a DELETE, which has seen the flag down, or for an
\* expired session, which no request works on.
LEMMA DtorSparesPolls ==
    ASSUME TypeOK, IdsInOrder, DeleterExcludes, FlagMeansPoll, LifetimeLeft,
           NEW t \in Agents, pc[t] \in DtorPcs,
           NEW v \in Workers, pc[v] \in PollPcs
    PROVE  cur[v] \in Sessions /\ cur[v] # cur[t]
<1> USE AgentSorts
<1>1. cur[v] \in Sessions /\ Polling(v, cur[v]) /\ InRequest(v, cur[v])
  <2>1. pc[v] \in RequestPcs /\ v \in Agents
    BY DEF RequestPcs
  <2>2. cur[v] \in Sessions \cup {0} /\ cur[v] # 0
    BY <2>1 DEF TypeOK, IdsInOrder
  <2>3. QED
    BY <2>1, <2>2 DEF Polling, InRequest
<1>2. CASE t \in Workers
  BY <1>1, <1>2 DEF DeleterExcludes, FlagMeansPoll
<1>3. CASE t \in Sessions
  <2>1. remaining[t] = 0 /\ cur[t] = t
    BY <1>3 DEF LifetimeLeft, IdsInOrder
  <2>2. decs[v] \in 0..(RequestTicks + 1)
    BY DEF TypeOK
  <2>3. cur[v] = t => decs[v] >= Lifetime
    BY <1>1, <2>1, <2>2 DEF LifetimeLeft
  <2>4. QED
    BY <1>1, <2>1, <2>2, <2>3, SessionAssumption
<1>4. CASE t = Main
  BY <1>4 DEF DeleterExcludes, DtorPcs
<1>5. QED
  BY <1>1, <1>2, <1>3, <1>4

\* No poll works on a session that a destructor releases.
LEMMA FlagKeepsStep ==
    ASSUME PromptClients, TypeOK, TypeOK', IdsInOrder, Counting,
           RegisteredAlive, DeleterExcludes,
           FlagMeansPoll, LifetimeLeft, FlagKeepsSession, [Next]_vars
    PROVE  FlagKeepsSession'
<1>a. nextId \in Nat /\ \A a \in Agents : cur[a] \in Nat
  BY Numbers
<1>p. ~LateRequests /\ ~OverlappingPolls /\ ~ShutdownPossible
  BY DEF PromptClients
<1> USE AgentSorts, <1>a, <1>p DEF Goto, locks, registry, sessionFlags, history
<1>1. ASSUME NEW w \in Workers, PostSession(w)
      PROVE  FlagKeepsSession'
  BY <1>1 DEF PostSession, TypeOK, FlagKeepsSession, PollPcs
<1>2. ASSUME NEW w \in Workers, PostReply(w)
      PROVE  FlagKeepsSession'
  BY <1>2 DEF GetSession, PostReply, TypeOK, FlagKeepsSession, PollPcs
<1>3. ASSUME NEW w \in Workers, PostLostReply(w)
      PROVE  FlagKeepsSession'
  BY <1>3 DEF PostLostReply, TypeOK, FlagKeepsSession, PollPcs
<1>4. ASSUME NEW w \in Workers, PollFirstRead(w)
      PROVE  FlagKeepsSession'
  BY <1>4 DEF PollFirstRead, TypeOK, FlagKeepsSession, PollPcs
<1>5. ASSUME NEW w \in Workers, PollFirstClear(w)
      PROVE  FlagKeepsSession'
  BY <1>5 DEF PollFirstClear, TypeOK, FlagKeepsSession, PollPcs
<1>6. ASSUME NEW w \in Workers, PollNotify(w)
      PROVE  FlagKeepsSession'
  BY <1>6 DEF PollNotify, TypeOK, FlagKeepsSession, PollPcs
<1>7. ASSUME NEW w \in Workers, PollWait(w)
      PROVE  FlagKeepsSession'
  BY <1>7 DEF PollWait, TypeOK, FlagKeepsSession, PollPcs
<1>8. ASSUME NEW w \in Workers, PollLock(w)
      PROVE  FlagKeepsSession'
  BY <1>8 DEF PollLock, TypeOK, FlagKeepsSession, PollPcs
<1>9. ASSUME NEW w \in Workers, PollClear(w)
      PROVE  FlagKeepsSession'
  BY <1>9 DEF PollClear, TypeOK, FlagKeepsSession, PollPcs
<1>10. ASSUME NEW w \in Workers, PollUnlock(w)
      PROVE  FlagKeepsSession'
  BY <1>10 DEF PollUnlock, TypeOK, FlagKeepsSession, PollPcs
<1>11. ASSUME NEW w \in Workers, NEW s \in Sessions, ShortRequest(w, s)
      PROVE  FlagKeepsSession'
  BY <1>11 DEF GetSession, Arrives, ShortRequest, TypeOK, FlagKeepsSession,
       PollPcs
<1>12. ASSUME NEW w \in Workers, NEW s \in Sessions, PollBegin(w, s)
      PROVE  FlagKeepsSession'
  BY <1>12 DEF GetSession, Arrives, PollBegin, RegisteredAlive, TypeOK,
       FlagKeepsSession, PollPcs
<1>13. ASSUME NEW w \in Workers, NEW s \in Sessions, DeleteBegin(w, s)
      PROVE  FlagKeepsSession'
  BY <1>13 DEF GetSession, Arrives, DeleteBegin, TypeOK, FlagKeepsSession,
       PollPcs
<1>14. ASSUME NEW t \in Agents, DeleteTry(t)
      PROVE  FlagKeepsSession'
  BY <1>14 DEF DeleteTry, RequestOver, TypeOK, FlagKeepsSession, PollPcs
<1>15. ASSUME NEW t \in Agents, DtorUnregister(t)
      PROVE  FlagKeepsSession'
  BY <1>15 DEF DtorUnregister, ListAvailable, TypeOK, FlagKeepsSession, PollPcs
<1>16. ASSUME NEW t \in Agents, DtorFree(t)
      PROVE  FlagKeepsSession'
  <2>1. ASSUME NEW v \in Workers, pc[v] \in PollPcs
        PROVE  cur[v] # cur[t]
    BY <1>16, <2>1, DtorSparesPolls DEF DtorFree, DtorPcs
  <2>2. \A v \in Workers :
          pc'[v] \in PollPcs => pc'[v] = pc[v] /\ cur'[v] = cur[v]
    BY <1>16 DEF DtorFree, ThreadGone, TypeOK, PollPcs
  <2>3. cur[t] \in Sessions \cup {0}
    BY DEF TypeOK
  <2>4. \A s \in Sessions \ {cur[t]} : heap'[s] = heap[s]
    BY <1>16 DEF DtorFree, ThreadGone, TypeOK
  <2>5. ASSUME NEW v \in Workers, pc'[v] \in PollPcs
        PROVE  heap'[cur'[v]] = "live"
    <3>1. pc[v] \in PollPcs /\ cur'[v] = cur[v]
      BY <2>2, <2>5
    <3>2. cur[v] \in Sessions
      <4>1. pc[v] \in RequestPcs /\ v \in Agents
        BY <3>1 DEF RequestPcs
      <4>2. QED
        BY <4>1 DEF TypeOK, IdsInOrder
    <3>3. QED
      BY <2>1, <2>4, <3>1, <3>2 DEF FlagKeepsSession
  <2>6. QED
    BY <2>5 DEF FlagKeepsSession
<1>17. ASSUME NEW s \in Sessions, ExpTick(s)
      PROVE  FlagKeepsSession'
  BY <1>17 DEF ExpTick, LastDecrement, TypeOK, FlagKeepsSession, PollPcs
<1>18. ASSUME NEW s \in Sessions, ExpTimeout(s)
      PROVE  FlagKeepsSession'
  BY <1>18 DEF ExpTimeout, TypeOK, FlagKeepsSession, PollPcs
<1>19. ASSUME NEW s \in Sessions, ExpExit(s)
      PROVE  FlagKeepsSession'
  BY <1>19 DEF ExpExit, TypeOK, FlagKeepsSession, PollPcs
<1>20. ASSUME NEW s \in Sessions, ExpExpire(s)
      PROVE  FlagKeepsSession'
  BY <1>20 DEF ExpExpire, TypeOK, FlagKeepsSession, PollPcs
<1>21. ASSUME ShutdownBegin
      PROVE  FlagKeepsSession'
  BY <1>21 DEF ShutdownBegin, TypeOK, FlagKeepsSession, PollPcs
<1>22. ASSUME ShutdownLoop
      PROVE  FlagKeepsSession'
  BY <1>22 DEF ShutdownLoop, TypeOK, FlagKeepsSession, PollPcs
<1>23. ASSUME ShutdownGiveUp
      PROVE  FlagKeepsSession'
  BY <1>23 DEF ShutdownGiveUp, RequestOver, TypeOK, FlagKeepsSession, PollPcs
<1>24. ASSUME ShutdownWait
      PROVE  FlagKeepsSession'
  BY <1>24 DEF ShutdownWait, TypeOK, FlagKeepsSession, PollPcs
<1>25. CASE UNCHANGED vars
  BY <1>25 DEF vars, TypeOK, FlagKeepsSession, PollPcs
<1> QED
  BY <1>1, <1>2, <1>3, <1>4, <1>5, <1>6, <1>7, <1>8, <1>9, <1>10, <1>11,
       <1>12, <1>13, <1>14, <1>15, <1>16, <1>17, <1>18, <1>19, <1>20, <1>21,
       <1>22, <1>23, <1>24, <1>25
     DEF Next, Request, WorkerStep, ExpStep, MainStep

-----------------------------------------------------------------------------
(* In every environment *)

\* The freshly constructed interface satisfies SafeInv.
LEMMA SafeInit == Init => SafeInv
<1> SUFFICES ASSUME Init PROVE SafeInv
  OBVIOUS
<1>1. /\ Workers \cap Sessions = {}
      /\ Main \notin Sessions /\ Main \notin Workers
      /\ Threads = Workers \cup {Main} /\ Agents = Threads \cup Sessions
  BY SessionAssumption DEF Agents, Threads
<1>2. TypeOK
  BY <1>1, Labels, SessionAssumption DEF Init, TypeOK, Sessions
<1>3. \A s \in Sessions : pc[s] = "none" /\ cur[s] = s
  BY <1>1 DEF Init
<1>4. \A t \in Threads : cur[t] = 0 /\ pc[t] \in {"idle", "running"}
  BY <1>1 DEF Init
<1>5. IdsInOrder
  BY <1>1, <1>3, <1>4 DEF Init, IdsInOrder, RequestPcs, PollPcs, DtorPcs, ExpPcs
<1>6. Counting
  BY <1>3 DEF Counting
<1>7. FreedUnregistered /\ RegisteredAlive
  BY DEF Init, FreedUnregistered, RegisteredAlive
<1>8. QED
  BY <1>2, <1>5, <1>6, <1>7 DEF SafeInv

\* Every handler and thread step preserves SafeInv.
LEMMA SafeStep == SafeInv /\ [Next]_vars => SafeInv'
<1> SUFFICES ASSUME SafeInv, [Next]_vars PROVE SafeInv'
  OBVIOUS
<1>1. TypeOK'
  BY TypeStep DEF SafeInv
<1>2. IdsInOrder' /\ Counting' /\ FreedUnregistered' /\ RegisteredAlive'
  BY <1>1, IdsStep, CountingStep, FreedStep, AliveStep DEF SafeInv
<1>3. QED
  BY <1>1, <1>2 DEF SafeInv

\* SafeInv holds throughout (CLoggerInterface and CSession, all environments).
THEOREM Safe == Spec => []SafeInv
  BY SafeInit, SafeStep, PTL DEF Spec

\* The state of the server stays within its types, m_nRemainingS above zero
\* and ids within bounds, for any number of workers and sessions.
THEOREM TypeCorrect == Spec => []TypeOK
<1>1. SafeInv => TypeOK
  BY DEF SafeInv
<1>2. QED
  BY <1>1, Safe, PTL

\* However late, overlapping or concurrent with Shutdown requests are, a
\* session found in the map is an allocated object (~CSession).
THEOREM MapHoldsLiveSessions == Spec => []RegisteredAlive
<1>1. SafeInv => RegisteredAlive
  BY DEF SafeInv
<1>2. QED
  BY <1>1, Safe, PTL

-----------------------------------------------------------------------------
(* With prompt clients *)

\* The inductive invariant for the environment the code is written for.
PromptInv ==
    /\ SafeInv /\ DeleterExcludes /\ FlagMeansPoll /\ LifetimeLeft
    /\ FlagKeepsSession

\* The freshly constructed interface satisfies PromptInv.
LEMMA PromptInit == Init => PromptInv
<1> SUFFICES ASSUME Init PROVE PromptInv
  OBVIOUS
<1>1. SafeInv
  BY SafeInit
<1>2. /\ Workers \cap Sessions = {}
      /\ Main \notin Sessions /\ Main \notin Workers
      /\ Agents = Workers \cup {Main} \cup Sessions
  BY SessionAssumption DEF Agents, Threads
<1>3. /\ pc[Main] = "running"
      /\ \A w \in Workers : pc[w] = "idle"
      /\ \A s \in Sessions : pc[s] = "none" /\ ~inProgress[s]
  BY <1>2 DEF Init
<1>4. DeleterExcludes
  BY <1>3 DEF DeleterExcludes, DtorPcs
<1>5. FlagMeansPoll
  BY <1>3 DEF FlagMeansPoll, Polling, PollPcs
<1>6. LifetimeLeft
  BY <1>3 DEF LifetimeLeft, InRequest, RequestPcs, PollPcs, DtorPcs
<1>7. FlagKeepsSession
  BY <1>3 DEF FlagKeepsSession, PollPcs
<1>8. QED
  BY <1>1, <1>4, <1>5, <1>6, <1>7 DEF PromptInv

\* Every handler and thread step preserves PromptInv.
LEMMA PromptStep ==
    ASSUME PromptClients
    PROVE  PromptInv /\ [Next]_vars => PromptInv'
<1> SUFFICES ASSUME PromptInv, [Next]_vars PROVE PromptInv'
  OBVIOUS
<1>1. SafeInv'
  BY SafeStep DEF PromptInv
<1>2. TypeOK /\ TypeOK' /\ IdsInOrder /\ Counting /\ RegisteredAlive
  BY <1>1 DEF PromptInv, SafeInv
<1>3. DeleterExcludes' /\ FlagMeansPoll' /\ LifetimeLeft'
  BY <1>2, DeleterStep, FlagStep, LifetimeStep DEF PromptInv
<1>4. FlagKeepsSession'
  BY <1>2, FlagKeepsStep DEF PromptInv
<1>5. QED
  BY <1>1, <1>3, <1>4 DEF PromptInv

\* PromptInv holds throughout with prompt clients.
LEMMA Prompt == PromptClients => (Spec => []PromptInv)
<1>1. ASSUME PromptClients
      PROVE  PromptInv /\ [Next]_vars => PromptInv'
  BY <1>1, PromptStep
<1>2. ASSUME PromptClients
      PROVE  Spec => []PromptInv
  BY <1>1, <1>2, PromptInit, PTL DEF Spec
<1>3. QED
  BY <1>2

\* Until it lowers its flag a poll's session is allocated although the poll
\* holds no lock, for any number of workers and sessions and any lifetime
\* longer than a request (m_bRequestInProgress, Handle_EventPolling).
THEOREM FlaggedPollsAreSafe == PromptClients => (Spec => []FlagKeepsSession)
<1>1. PromptInv => FlagKeepsSession
  BY DEF PromptInv
<1>2. QED
  BY <1>1, Prompt, PTL

\* No session expires while a request on it is in progress, as the assertion
\* in MaintainExpirationThread says, up to the last Unlock of a poll.
THEOREM ExpiryIsSafe == PromptClients => (Spec => []ExpirySparesRequests)
<1>1. ASSUME PromptInv
      PROVE  ExpirySparesRequests
  <2>1. ASSUME NEW s \in Sessions, pc[s] \in {"expired"} \cup DtorPcs,
               NEW w \in Workers, InRequest(w, s)
        PROVE  FALSE
    <3>1. remaining[s] = 0 /\ remaining[s] + decs[w] >= Lifetime
      BY <1>1, <2>1 DEF PromptInv, LifetimeLeft
    <3>2. decs[w] \in 0..(RequestTicks + 1)
      BY <1>1 DEF PromptInv, SafeInv, TypeOK
    <3>3. QED
      BY <3>1, <3>2, SessionAssumption
  <2>2. ASSUME NEW s \in Sessions, pc[s] \in {"expired"} \cup DtorPcs,
               inProgress[s]
        PROVE  FALSE
    <3>1. PICK w \in Workers : Polling(w, s)
      BY <1>1, <2>2 DEF PromptInv, FlagMeansPoll
    <3>2. InRequest(w, s)
      BY <3>1 DEF Polling, InRequest, RequestPcs
    <3>3. QED
      BY <2>1, <2>2, <3>2
  <2>3. QED
    BY <2>1, <2>2 DEF ExpirySparesRequests
<1>2. QED
  BY <1>1, Prompt, PTL

-----------------------------------------------------------------------------
(* Once per session, with prompt clients *)

\* m_bExpThreadInProgress is up exactly while the expiration thread runs, and a
\* session that is not allocated has none; a thread that was told to stop does
\* not make its last decrement any more, and one that was not finds its
\* session in the map (MaintainExpirationThread).
ThreadTells ==
    \A s \in Sessions :
        /\ expRunning[s] <=> pc[s] \in {"tick", "sleep", "exit", "expired"}
        /\ pc[s] = "none" =>
              ~stop[s] /\ s \notin registered /\ heap[s] = "none"
        /\ pc[s] \in {"tick", "sleep"} =>
              IF stop[s] THEN remaining[s] > 1 ELSE s \in registered
        /\ pc[s] \in {"expired", "dtorUnregister"} => s \in registered

\* A DELETE works on a session of the map until it takes it out, and from its
\* destructor on the expiration thread has been told to stop and runs no
\* destructor of its own (Handle_DeleteSession).
OneDestroyer ==
    \A w \in Workers :
        /\ pc[w] \in {"deleteTry", "dtorUnregister"} => cur[w] \in registered
        /\ pc[w] \in DtorPcs =>
              stop[cur[w]] /\ pc[cur[w]] \in {"tick", "sleep", "exit", "done"}

\* Whoever announces a session is the first: m_bFirstPoll is up only before
\* that, and the one poll of the session takes it down (IsFirstPoll).
AnnouncedOnce ==
    /\ NotifiedOnce
    /\ \A s \in Sessions : firstPoll[s] \/ nextId <= s => notified[s] = 0
    /\ \A w \in Workers :
          /\ pc[w] \in {"pollFirstYes", "pollNotify"} => notified[cur[w]] = 0
          /\ pc[w] = "pollNotify" => ~firstPoll[cur[w]]

\* A DELETE that waits for the poll to end works on a session of the map,
\* whose expiration thread has more than its last decrement left: the request
\* has refreshed it, and is answered within RequestTicks.
LEMMA DeleteFinds ==
    ASSUME TypeOK, IdsInOrder, Counting, LifetimeLeft, ThreadTells,
           OneDestroyer, NEW w \in Workers, pc[w] = "deleteTry"
    PROVE  /\ cur[w] \in Sessions /\ cur[w] \in registered
           /\ pc[cur[w]] \in {"tick", "sleep", "exit", "done"}
           /\ pc[cur[w]] \in {"tick", "sleep"} => remaining[cur[w]] > 1
<1>1. cur[w] \in registered /\ cur[w] \in Sessions
  BY DEF OneDestroyer, TypeOK
<1>2. InRequest(w, cur[w])
  BY DEF InRequest, RequestPcs
<1>3. /\ remaining[cur[w]] \in 0..Lifetime /\ decs[w] \in 0..(RequestTicks + 1)
      /\ remaining[cur[w]] + decs[w] >= Lifetime
  BY <1>1, <1>2 DEF LifetimeLeft, TypeOK
<1>4. pc[cur[w]] \notin {"expired"} \cup DtorPcs
  BY <1>1, <1>3, SessionAssumption DEF LifetimeLeft
<1>5. pc[cur[w]] \in ExpPcs /\ pc[cur[w]] # "none"
  BY <1>1 DEF IdsInOrder, ThreadTells
<1>6. pc[cur[w]] \in {"tick", "sleep"} => decs[w] <= RequestTicks
  BY <1>1, <1>2 DEF Counting
<1>7. pc[cur[w]] \in {"tick", "sleep"} => remaining[cur[w]] > 1
  BY <1>3, <1>6, SessionAssumption
<1>8. QED
  BY <1>1, <1>4, <1>5, <1>7 DEF ExpPcs, DtorPcs

\* The expiration thread is told to stop by whoever deletes its session, and
\* before that it has most of its lifetime left (LifetimeLeft).
LEMMA TellsStep ==
    ASSUME PromptClients, TypeOK, TypeOK', IdsInOrder, Counting,
           DeleterExcludes, LifetimeLeft, OneDestroyer, ThreadTells, [Next]_vars
    PROVE  ThreadTells'
<1>a. nextId \in Nat /\ \A a \in Agents : cur[a] \in Nat
  BY Numbers
<1>p. ~LateRequests /\ ~OverlappingPolls /\ ~ShutdownPossible
  BY DEF PromptClients
<1> USE AgentSorts, <1>a, <1>p DEF Goto, locks, registry, sessionFlags, history
<1>1. ASSUME NEW w \in Workers, PostSession(w)
      PROVE  ThreadTells'
  BY <1>1 DEF PostSession, TypeOK, ThreadTells, IdsInOrder, ExpPcs
<1>2. ASSUME NEW w \in Workers, PostReply(w)
      PROVE  ThreadTells'
  BY <1>2 DEF PostReply, GetSession, TypeOK, ThreadTells, IdsInOrder, ExpPcs
<1>3. ASSUME NEW w \in Workers, PostLostReply(w)
      PROVE  ThreadTells'
  BY <1>3 DEF PostLostReply, TypeOK, ThreadTells, IdsInOrder, ExpPcs
<1>4. ASSUME NEW w \in Workers, PollFirstRead(w)
      PROVE  ThreadTells'
  BY <1>4 DEF PollFirstRead, TypeOK, ThreadTells, IdsInOrder, ExpPcs
<1>5. ASSUME NEW w \in Workers, PollFirstClear(w)
      PROVE  ThreadTells'
  BY <1>5 DEF PollFirstClear, TypeOK, ThreadTells, IdsInOrder, ExpPcs
<1>6. ASSUME NEW w \in Workers, PollNotify(w)
      PROVE  ThreadTells'
  BY <1>6 DEF PollNotify, TypeOK, ThreadTells, IdsInOrder, ExpPcs
<1>7. ASSUME NEW w \in Workers, PollWait(w)
      PROVE  ThreadTells'
  BY <1>7 DEF PollWait, TypeOK, ThreadTells, IdsInOrder, ExpPcs
<1>8. ASSUME NEW w \in Workers, PollLock(w)
      PROVE  ThreadTells'
  BY <1>8 DEF PollLock, TypeOK, ThreadTells, IdsInOrder, ExpPcs
<1>9. ASSUME NEW w \in Workers, PollClear(w)
      PROVE  ThreadTells'
  BY <1>9 DEF PollClear, TypeOK, ThreadTells, IdsInOrder, ExpPcs
<1>10. ASSUME NEW w \in Workers, PollUnlock(w)
      PROVE  ThreadTells'
  BY <1>10 DEF PollUnlock, TypeOK, ThreadTells, IdsInOrder, ExpPcs
<1>11. ASSUME NEW w \in Workers, NEW s \in Sessions, ShortRequest(w, s)
      PROVE  ThreadTells'
  BY <1>11 DEF ShortRequest, GetSession, Arrives, TypeOK, ThreadTells,
       IdsInOrder, ExpPcs
<1>12. ASSUME NEW w \in Workers, NEW s \in Sessions, PollBegin(w, s)
      PROVE  ThreadTells'
  BY <1>12 DEF PollBegin, GetSession, Arrives, TypeOK, ThreadTells, IdsInOrder,
       ExpPcs
<1>13. ASSUME NEW w \in Workers, NEW s \in Sessions, DeleteBegin(w, s)
      PROVE  ThreadTells'
  BY <1>13 DEF DeleteBegin, GetSession, Arrives, TypeOK, ThreadTells,
       IdsInOrder, ExpPcs
<1>14. ASSUME NEW t \in Agents, DeleteTry(t)
      PROVE  ThreadTells'
  <2>1. t \in Workers /\ pc[t] = "deleteTry"
    BY <1>14 DEF DeleteTry, IdsInOrder, ExpPcs, DtorPcs, DeleterExcludes
  <2>2. /\ cur[t] \in Sessions /\ cur[t] \in registered
        /\ pc[cur[t]] \in {"tick", "sleep", "exit", "done"}
        /\ pc[cur[t]] \in {"tick", "sleep"} => remaining[cur[t]] > 1
    BY <2>1, DeleteFinds
  <2>3. /\ \A s \in Sessions : pc'[s] = pc[s]
        /\ \A s \in Sessions :
              stop'[s] = IF s = cur[t] THEN TRUE ELSE stop[s]
        /\ UNCHANGED <<expRunning, registered, remaining, heap>>
    BY <1>14, <2>1, <2>2 DEF DeleteTry, TypeOK
  <2>4. QED
    BY <2>2, <2>3 DEF ThreadTells
<1>15. ASSUME NEW t \in Agents, DtorUnregister(t)
      PROVE  ThreadTells'
  <2>1. pc[t] = "dtorUnregister" /\ pc[t] \in DtorPcs
    BY <1>15 DEF DtorUnregister, DtorPcs
  <2>2. /\ registered' = registered \ {cur[t]}
        /\ \A a \in Agents : pc'[a] = IF a = t THEN "dtorFree" ELSE pc[a]
        /\ UNCHANGED <<expRunning, stop, remaining, heap>>
    BY <1>15 DEF DtorUnregister, TypeOK
  <2>3. CASE t \in Workers
    <3>1. stop[cur[t]] /\ pc[cur[t]] \in {"tick", "sleep", "exit", "done"}
      BY <2>1, <2>3 DEF OneDestroyer
    <3>2. \A s \in Sessions : pc'[s] = pc[s]
      BY <2>2, <2>3
    <3>3. QED
      BY <2>2, <3>1, <3>2 DEF ThreadTells
  <2>4. CASE t \in Sessions
    <3>1. cur[t] = t
      BY <2>4 DEF IdsInOrder
    <3>2. QED
      BY <2>1, <2>2, <2>4, <3>1 DEF ThreadTells
  <2>5. QED
    BY <2>1, <2>3, <2>4 DEF DeleterExcludes
<1>16. ASSUME NEW t \in Agents, DtorFree(t)
      PROVE  ThreadTells'
  <2>1. /\ pc[t] = "dtorFree" /\ pc[t] \in DtorPcs
        /\ cur[t] \in Sessions \cup {0} /\ ~expRunning[cur[t]]
        /\ \A s \in Sessions : s # cur[t] => heap'[s] = heap[s]
        /\ \A a \in Agents : a # t => pc'[a] = pc[a]
        /\ t \in Sessions => pc'[t] = "done"
        /\ UNCHANGED <<expRunning, stop, remaining, registered>>
    BY <1>16 DEF DtorFree, ThreadGone, TypeOK, DtorPcs
  <2>2. CASE t \in Workers
    <3>1. pc[cur[t]] # "none"
      BY <2>1, <2>2 DEF OneDestroyer
    <3>2. \A s \in Sessions : pc'[s] = pc[s]
      BY <2>1, <2>2
    <3>3. QED
      BY <2>1, <3>1, <3>2 DEF ThreadTells
  <2>3. CASE t \in Sessions
    <3>1. cur[t] = t
      BY <2>3 DEF IdsInOrder
    <3>2. QED
      BY <2>1, <2>3, <3>1 DEF ThreadTells
  <2>4. QED
    BY <2>1, <2>2, <2>3 DEF DeleterExcludes
<1>17. ASSUME NEW s \in Sessions, ExpTick(s)
      PROVE  ThreadTells'
  BY <1>17 DEF ExpTick, LastDecrement, TypeOK, ThreadTells, IdsInOrder, ExpPcs
<1>18. ASSUME NEW s \in Sessions, ExpTimeout(s)
      PROVE  ThreadTells'
  BY <1>18 DEF ExpTimeout, TypeOK, ThreadTells, IdsInOrder, ExpPcs
<1>19. ASSUME NEW s \in Sessions, ExpExit(s)
      PROVE  ThreadTells'
  BY <1>19 DEF ExpExit, TypeOK, ThreadTells, IdsInOrder, ExpPcs
<1>20. ASSUME NEW s \in Sessions, ExpExpire(s)
      PROVE  ThreadTells'
  BY <1>20 DEF ExpExpire, TypeOK, ThreadTells, IdsInOrder, ExpPcs
<1>21. ASSUME ShutdownBegin
      PROVE  ThreadTells'
  BY <1>21 DEF ShutdownBegin, TypeOK, ThreadTells, IdsInOrder, ExpPcs
<1>22. ASSUME ShutdownLoop
      PROVE  ThreadTells'
  BY <1>22 DEF ShutdownLoop, TypeOK, ThreadTells, IdsInOrder, ExpPcs
<1>23. ASSUME ShutdownGiveUp
      PROVE  ThreadTells'
  BY <1>23 DEF ShutdownGiveUp, RequestOver, TypeOK, ThreadTells, IdsInOrder,
       ExpPcs
<1>24. ASSUME ShutdownWait
      PROVE  ThreadTells'
  BY <1>24 DEF ShutdownWait, TypeOK, ThreadTells, IdsInOrder, ExpPcs
<1>25. CASE UNCHANGED vars
  BY <1>25 DEF vars, TypeOK, ThreadTells, IdsInOrder, ExpPcs
<1> QED
  BY <1>1, <1>2, <1>3, <1>4, <1>5, <1>6, <1>7, <1>8, <1>9, <1>10, <1>11, <1>12,
       <1>13, <1>14, <1>15, <1>16, <1>17, <1>18, <1>19, <1>20, <1>21, <1>22,
       <1>23, <1>24, <1>25
     DEF Next, Request, WorkerStep, ExpStep, MainStep

\* The list mutex keeps other deletions away, and a session that is refreshed
\* does not expire before its DELETE is through.
LEMMA DestroyerStep ==
    ASSUME PromptClients, TypeOK, TypeOK', IdsInOrder, Counting,
           DeleterExcludes, LifetimeLeft, ThreadTells, OneDestroyer, [Next]_vars
    PROVE  OneDestroyer'
<1>a. nextId \in Nat /\ \A a \in Agents : cur[a] \in Nat
  BY Numbers
<1>p. ~LateRequests /\ ~OverlappingPolls /\ ~ShutdownPossible
  BY DEF PromptClients
<1> USE AgentSorts, <1>a, <1>p DEF Goto, locks, registry, sessionFlags, history
<1>1. ASSUME NEW w \in Workers, PostSession(w)
      PROVE  OneDestroyer'
  BY <1>1 DEF PostSession, TypeOK, OneDestroyer, DeleterExcludes, IdsInOrder,
       RequestPcs, PollPcs, DtorPcs
<1>2. ASSUME NEW w \in Workers, PostReply(w)
      PROVE  OneDestroyer'
  BY <1>2 DEF PostReply, GetSession, TypeOK, OneDestroyer, DeleterExcludes,
       IdsInOrder, RequestPcs, PollPcs, DtorPcs
<1>3. ASSUME NEW w \in Workers, PostLostReply(w)
      PROVE  OneDestroyer'
  BY <1>3 DEF PostLostReply, TypeOK, OneDestroyer, DeleterExcludes, IdsInOrder,
       RequestPcs, PollPcs, DtorPcs
<1>4. ASSUME NEW w \in Workers, PollFirstRead(w)
      PROVE  OneDestroyer'
  BY <1>4 DEF PollFirstRead, TypeOK, OneDestroyer, DeleterExcludes, IdsInOrder,
       RequestPcs, PollPcs, DtorPcs
<1>5. ASSUME NEW w \in Workers, PollFirstClear(w)
      PROVE  OneDestroyer'
  BY <1>5 DEF PollFirstClear, TypeOK, OneDestroyer, DeleterExcludes,
       IdsInOrder, RequestPcs, PollPcs, DtorPcs
<1>6. ASSUME NEW w \in Workers, PollNotify(w)
      PROVE  OneDestroyer'
  BY <1>6 DEF PollNotify, TypeOK, OneDestroyer, DeleterExcludes, IdsInOrder,
       RequestPcs, PollPcs, DtorPcs
<1>7. ASSUME NEW w \in Workers, PollWait(w)
      PROVE  OneDestroyer'
  BY <1>7 DEF PollWait, TypeOK, OneDestroyer, DeleterExcludes, IdsInOrder,
       RequestPcs, PollPcs, DtorPcs
<1>8. ASSUME NEW w \in Workers, PollLock(w)
      PROVE  OneDestroyer'
  BY <1>8 DEF PollLock, TypeOK, OneDestroyer, DeleterExcludes, IdsInOrder,
       RequestPcs, PollPcs, DtorPcs
<1>9. ASSUME NEW w \in Workers, PollClear(w)
      PROVE  OneDestroyer'
  BY <1>9 DEF PollClear, TypeOK, OneDestroyer, DeleterExcludes, IdsInOrder,
       RequestPcs, PollPcs, DtorPcs
<1>10. ASSUME NEW w \in Workers, PollUnlock(w)
      PROVE  OneDestroyer'
  BY <1>10 DEF PollUnlock, TypeOK, OneDestroyer, DeleterExcludes, IdsInOrder,
       RequestPcs, PollPcs, DtorPcs
<1>11. ASSUME NEW w \in Workers, NEW s \in Sessions, ShortRequest(w, s)
      PROVE  OneDestroyer'
  BY <1>11 DEF ShortRequest, GetSession, Arrives, TypeOK, OneDestroyer,
       DeleterExcludes, IdsInOrder, RequestPcs, PollPcs, DtorPcs
<1>12. ASSUME NEW w \in Workers, NEW s \in Sessions, PollBegin(w, s)
      PROVE  OneDestroyer'
  BY <1>12 DEF PollBegin, GetSession, Arrives, TypeOK, OneDestroyer,
       DeleterExcludes, IdsInOrder, RequestPcs, PollPcs, DtorPcs
<1>13. ASSUME NEW w \in Workers, NEW s \in Sessions, DeleteBegin(w, s)
      PROVE  OneDestroyer'
  BY <1>13 DEF DeleteBegin, GetSession, Arrives, TypeOK, OneDestroyer,
       DeleterExcludes, IdsInOrder, RequestPcs, PollPcs, DtorPcs
<1>14. ASSUME NEW t \in Agents, DeleteTry(t)
      PROVE  OneDestroyer'
  <2>1. t \in Workers /\ pc[t] = "deleteTry"
    BY <1>14 DEF DeleteTry, IdsInOrder, ExpPcs, DtorPcs, DeleterExcludes
  <2>2. /\ cur[t] \in Sessions /\ cur[t] \in registered
        /\ pc[cur[t]] \in {"tick", "sleep", "exit", "done"}
    BY <2>1, DeleteFinds
  <2>3. /\ \A a \in Agents : pc'[a] = IF a = t THEN "dtorUnregister" ELSE pc[a]
        /\ \A s \in Sessions :
              stop'[s] = IF s = cur[t] THEN TRUE ELSE stop[s]
        /\ UNCHANGED <<cur, registered>>
    BY <1>14, <2>1, <2>2 DEF DeleteTry, TypeOK
  <2>4. \A w \in Workers : pc[w] \in DtorPcs => cur[w] \in Sessions
    BY DEF TypeOK, IdsInOrder
  <2>5. \A s \in Sessions : s # t /\ pc'[s] = pc[s]
    BY <2>1, <2>3
  <2>6. pc'[t] = "dtorUnregister" /\ stop'[cur[t]]
        /\ pc'[cur[t]] \in {"tick", "sleep", "exit", "done"}
    BY <2>1, <2>2, <2>3, <2>5
  <2>7. ASSUME NEW w \in Workers, w # t
        PROVE  /\ pc'[w] \in {"deleteTry", "dtorUnregister"} =>
                      cur'[w] \in registered'
               /\ pc'[w] \in DtorPcs =>
                      /\ stop'[cur'[w]]
                      /\ pc'[cur'[w]] \in {"tick", "sleep", "exit", "done"}
    BY <2>3, <2>4, <2>5, <2>7 DEF OneDestroyer
  <2>8. QED
    BY <2>2, <2>3, <2>6, <2>7 DEF OneDestroyer
<1>15. ASSUME NEW t \in Agents, DtorUnregister(t)
      PROVE  OneDestroyer'
  BY <1>15 DEF DtorUnregister, ListAvailable, TypeOK, OneDestroyer,
       DeleterExcludes, IdsInOrder, RequestPcs, PollPcs, DtorPcs
<1>16. ASSUME NEW t \in Agents, DtorFree(t)
      PROVE  OneDestroyer'
  BY <1>16 DEF DtorFree, ThreadGone, TypeOK, OneDestroyer, DeleterExcludes,
       IdsInOrder, RequestPcs, PollPcs, DtorPcs
<1>17. ASSUME NEW s \in Sessions, ExpTick(s)
      PROVE  OneDestroyer'
  <2>1. /\ pc[s] = "tick"
        /\ \A w \in Workers : pc'[w] = pc[w]
        /\ \A r \in Sessions : pc'[r] = pc[r] \/ r = s
        /\ pc'[s] = IF remaining[s] = 1 THEN "expired"
                    ELSE IF stop[s] THEN "exit" ELSE "sleep"
        /\ UNCHANGED <<cur, registered, stop>>
    BY <1>17 DEF ExpTick, LastDecrement, TypeOK
  <2>2. stop[s] => pc'[s] = "exit"
    BY <2>1 DEF ThreadTells
  <2>3. \A w \in Workers : pc[w] \in DtorPcs => cur[w] \in Sessions
    BY DEF TypeOK, IdsInOrder
  <2>4. QED
    BY <2>1, <2>2, <2>3 DEF OneDestroyer
<1>18. ASSUME NEW s \in Sessions, ExpTimeout(s)
      PROVE  OneDestroyer'
  BY <1>18 DEF ExpTimeout, TypeOK, OneDestroyer, DeleterExcludes, IdsInOrder,
       RequestPcs, PollPcs, DtorPcs
<1>19. ASSUME NEW s \in Sessions, ExpExit(s)
      PROVE  OneDestroyer'
  BY <1>19 DEF ExpExit, TypeOK, OneDestroyer, DeleterExcludes, IdsInOrder,
       RequestPcs, PollPcs, DtorPcs
<1>20. ASSUME NEW s \in Sessions, ExpExpire(s)
      PROVE  OneDestroyer'
  BY <1>20 DEF ExpExpire, TypeOK, OneDestroyer, DeleterExcludes, IdsInOrder,
       RequestPcs, PollPcs, DtorPcs
<1>21. ASSUME ShutdownBegin
      PROVE  OneDestroyer'
  BY <1>21 DEF ShutdownBegin, TypeOK, OneDestroyer, DeleterExcludes,
       IdsInOrder, RequestPcs, PollPcs, DtorPcs
<1>22. ASSUME ShutdownLoop
      PROVE  OneDestroyer'
  BY <1>22 DEF ShutdownLoop, TypeOK, OneDestroyer, DeleterExcludes, IdsInOrder,
       RequestPcs, PollPcs, DtorPcs
<1>23. ASSUME ShutdownGiveUp
      PROVE  OneDestroyer'
  BY <1>23 DEF ShutdownGiveUp, RequestOver, TypeOK, OneDestroyer,
       DeleterExcludes, IdsInOrder, RequestPcs, PollPcs, DtorPcs
<1>24. ASSUME ShutdownWait
      PROVE  OneDestroyer'
  BY <1>24 DEF ShutdownWait, TypeOK, OneDestroyer, DeleterExcludes, IdsInOrder,
       RequestPcs, PollPcs, DtorPcs
<1>25. CASE UNCHANGED vars
  BY <1>25 DEF vars, TypeOK, OneDestroyer, DeleterExcludes, IdsInOrder,
       RequestPcs, PollPcs, DtorPcs
<1> QED
  BY <1>1, <1>2, <1>3, <1>4, <1>5, <1>6, <1>7, <1>8, <1>9, <1>10, <1>11, <1>12,
       <1>13, <1>14, <1>15, <1>16, <1>17, <1>18, <1>19, <1>20, <1>21, <1>22,
       <1>23, <1>24, <1>25
     DEF Next, Request, WorkerStep, ExpStep, MainStep

\* Two polls of one session do not overlap, so the first clears m_bFirstPoll
\* before anybody else reads it.
LEMMA AnnouncedStep ==
    ASSUME PromptClients, TypeOK, TypeOK', IdsInOrder, FlagMeansPoll,
           AnnouncedOnce, [Next]_vars
    PROVE  AnnouncedOnce'
<1>a. nextId \in Nat /\ \A a \in Agents : cur[a] \in Nat
  BY Numbers
<1>p. ~LateRequests /\ ~OverlappingPolls /\ ~ShutdownPossible
  BY DEF PromptClients
<1> USE AgentSorts, <1>a, <1>p DEF Goto, locks, registry, sessionFlags, history
<1>1. ASSUME NEW w \in Workers, PostSession(w)
      PROVE  AnnouncedOnce'
  BY <1>1 DEF PostSession, TypeOK, AnnouncedOnce, NotifiedOnce, IdsInOrder,
       RequestPcs, PollPcs, DtorPcs
<1>2. ASSUME NEW w \in Workers, PostReply(w)
      PROVE  AnnouncedOnce'
  BY <1>2 DEF PostReply, GetSession, TypeOK, AnnouncedOnce, NotifiedOnce,
       IdsInOrder, RequestPcs, PollPcs, DtorPcs
<1>3. ASSUME NEW w \in Workers, PostLostReply(w)
      PROVE  AnnouncedOnce'
  BY <1>3 DEF PostLostReply, TypeOK, AnnouncedOnce, NotifiedOnce, IdsInOrder,
       RequestPcs, PollPcs, DtorPcs
<1>4. ASSUME NEW w \in Workers, PollFirstRead(w)
      PROVE  AnnouncedOnce'
  BY <1>4 DEF PollFirstRead, TypeOK, AnnouncedOnce, NotifiedOnce, IdsInOrder,
       RequestPcs, PollPcs, DtorPcs
<1>5. ASSUME NEW w \in Workers, PollFirstClear(w)
      PROVE  AnnouncedOnce'
  BY <1>5 DEF PollFirstClear, TypeOK, AnnouncedOnce, NotifiedOnce, IdsInOrder,
       RequestPcs, PollPcs, DtorPcs
<1>6. ASSUME NEW w \in Workers, PollNotify(w)
      PROVE  AnnouncedOnce'
  <2>1. /\ pc[w] = "pollNotify" /\ cur[w] \in Sessions /\ cur[w] < nextId
        /\ notified[cur[w]] = 0 /\ ~firstPoll[cur[w]]
    BY <1>6
       DEF PollNotify, TypeOK, IdsInOrder, AnnouncedOnce, RequestPcs, PollPcs
  <2>2. /\ \A s \in Sessions :
             notified'[s] = IF s = cur[w] THEN 1 ELSE notified[s]
        /\ \A v \in Workers : pc'[v] = IF v = w THEN "pollWait" ELSE pc[v]
        /\ UNCHANGED <<cur, firstPoll, nextId>>
    BY <1>6, <2>1 DEF PollNotify, TypeOK
  <2>3. ASSUME NEW v \in Workers, v # w,
               pc[v] \in {"pollFirstYes", "pollNotify"}
        PROVE  cur[v] # cur[w] /\ cur[v] \in Sessions
    <3>1. cur[v] = cur[w] => Polling(v, cur[w]) /\ Polling(w, cur[w])
      BY <2>1, <2>3 DEF Polling, PollPcs
    <3>2. cur[v] \in Sessions
      BY <2>3 DEF TypeOK, IdsInOrder, RequestPcs, PollPcs
    <3>3. QED
      BY <2>1, <2>3, <3>1, <3>2 DEF FlagMeansPoll
  <2>4. NotifiedOnce'
    BY <2>1, <2>2 DEF AnnouncedOnce, NotifiedOnce
  <2>5. QED
    BY <2>1, <2>2, <2>3, <2>4 DEF AnnouncedOnce
<1>7. ASSUME NEW w \in Workers, PollWait(w)
      PROVE  AnnouncedOnce'
  BY <1>7 DEF PollWait, TypeOK, AnnouncedOnce, NotifiedOnce, IdsInOrder,
       RequestPcs, PollPcs, DtorPcs
<1>8. ASSUME NEW w \in Workers, PollLock(w)
      PROVE  AnnouncedOnce'
  BY <1>8 DEF PollLock, TypeOK, AnnouncedOnce, NotifiedOnce, IdsInOrder,
       RequestPcs, PollPcs, DtorPcs
<1>9. ASSUME NEW w \in Workers, PollClear(w)
      PROVE  AnnouncedOnce'
  BY <1>9 DEF PollClear, TypeOK, AnnouncedOnce, NotifiedOnce, IdsInOrder,
       RequestPcs, PollPcs, DtorPcs
<1>10. ASSUME NEW w \in Workers, PollUnlock(w)
      PROVE  AnnouncedOnce'
  BY <1>10 DEF PollUnlock, TypeOK, AnnouncedOnce, NotifiedOnce, IdsInOrder,
       RequestPcs, PollPcs, DtorPcs
<1>11. ASSUME NEW w \in Workers, NEW s \in Sessions, ShortRequest(w, s)
      PROVE  AnnouncedOnce'
  BY <1>11 DEF ShortRequest, GetSession, Arrives, TypeOK, AnnouncedOnce,
       NotifiedOnce, IdsInOrder, RequestPcs, PollPcs, DtorPcs
<1>12. ASSUME NEW w \in Workers, NEW s \in Sessions, PollBegin(w, s)
      PROVE  AnnouncedOnce'
  BY <1>12 DEF PollBegin, GetSession, Arrives, TypeOK, AnnouncedOnce,
       NotifiedOnce, IdsInOrder, RequestPcs, PollPcs, DtorPcs
<1>13. ASSUME NEW w \in Workers, NEW s \in Sessions, DeleteBegin(w, s)
      PROVE  AnnouncedOnce'
  BY <1>13 DEF DeleteBegin, GetSession, Arrives, TypeOK, AnnouncedOnce,
       NotifiedOnce, IdsInOrder, RequestPcs, PollPcs, DtorPcs
<1>14. ASSUME NEW t \in Agents, DeleteTry(t)
      PROVE  AnnouncedOnce'
  BY <1>14 DEF DeleteTry, RequestOver, TypeOK, AnnouncedOnce, NotifiedOnce,
       IdsInOrder, RequestPcs, PollPcs, DtorPcs
<1>15. ASSUME NEW t \in Agents, DtorUnregister(t)
      PROVE  AnnouncedOnce'
  BY <1>15 DEF DtorUnregister, ListAvailable, TypeOK, AnnouncedOnce,
       NotifiedOnce, IdsInOrder, RequestPcs, PollPcs, DtorPcs
<1>16. ASSUME NEW t \in Agents, DtorFree(t)
      PROVE  AnnouncedOnce'
  BY <1>16 DEF DtorFree, ThreadGone, TypeOK, AnnouncedOnce, NotifiedOnce,
       IdsInOrder, RequestPcs, PollPcs, DtorPcs
<1>17. ASSUME NEW s \in Sessions, ExpTick(s)
      PROVE  AnnouncedOnce'
  BY <1>17 DEF ExpTick, LastDecrement, TypeOK, AnnouncedOnce, NotifiedOnce,
       IdsInOrder, RequestPcs, PollPcs, DtorPcs
<1>18. ASSUME NEW s \in Sessions, ExpTimeout(s)
      PROVE  AnnouncedOnce'
  BY <1>18 DEF ExpTimeout, TypeOK, AnnouncedOnce, NotifiedOnce, IdsInOrder,
       RequestPcs, PollPcs, DtorPcs
<1>19. ASSUME NEW s \in Sessions, ExpExit(s)
      PROVE  AnnouncedOnce'
  BY <1>19 DEF ExpExit, TypeOK, AnnouncedOnce, NotifiedOnce, IdsInOrder,
       RequestPcs, PollPcs, DtorPcs
<1>20. ASSUME NEW s \in Sessions, ExpExpire(s)
      PROVE  AnnouncedOnce'
  BY <1>20 DEF ExpExpire, TypeOK, AnnouncedOnce, NotifiedOnce, IdsInOrder,
       RequestPcs, PollPcs, DtorPcs
<1>21. ASSUME ShutdownBegin
      PROVE  AnnouncedOnce'
  BY <1>21 DEF ShutdownBegin, TypeOK, AnnouncedOnce, NotifiedOnce, IdsInOrder,
       RequestPcs, PollPcs, DtorPcs
<1>22. ASSUME ShutdownLoop
      PROVE  AnnouncedOnce'
  BY <1>22 DEF ShutdownLoop, TypeOK, AnnouncedOnce, NotifiedOnce, IdsInOrder,
       RequestPcs, PollPcs, DtorPcs
<1>23. ASSUME ShutdownGiveUp
      PROVE  AnnouncedOnce'
  BY <1>23 DEF ShutdownGiveUp, RequestOver, TypeOK, AnnouncedOnce,
       NotifiedOnce, IdsInOrder, RequestPcs, PollPcs, DtorPcs
<1>24. ASSUME ShutdownWait
      PROVE  AnnouncedOnce'
  BY <1>24 DEF ShutdownWait, TypeOK, AnnouncedOnce, NotifiedOnce, IdsInOrder,
       RequestPcs, PollPcs, DtorPcs
<1>25. CASE UNCHANGED vars
  BY <1>25 DEF vars, TypeOK, AnnouncedOnce, NotifiedOnce, IdsInOrder,
       RequestPcs, PollPcs, DtorPcs
<1> QED
  BY <1>1, <1>2, <1>3, <1>4, <1>5, <1>6, <1>7, <1>8, <1>9, <1>10, <1>11, <1>12,
       <1>13, <1>14, <1>15, <1>16, <1>17, <1>18, <1>19, <1>20, <1>21, <1>22,
       <1>23, <1>24, <1>25
     DEF Next, Request, WorkerStep, ExpStep, MainStep

\* No two destructors run on a session, and a destructor waits for the
\* expiration thread.
LEMMA OwnsStep ==
    ASSUME PromptClients, TypeOK, TypeOK', IdsInOrder, Counting,
           RegisteredAlive, DeleterExcludes, LifetimeLeft, ThreadTells,
           OneDestroyer, DestructorOwnsSession, [Next]_vars
    PROVE  DestructorOwnsSession'
<1>a. nextId \in Nat /\ \A a \in Agents : cur[a] \in Nat
  BY Numbers
<1>p. ~LateRequests /\ ~OverlappingPolls /\ ~ShutdownPossible
  BY DEF PromptClients
<1> USE AgentSorts, <1>a, <1>p DEF Goto, locks, registry, sessionFlags, history
<1>1. ASSUME NEW w \in Workers, PostSession(w)
      PROVE  DestructorOwnsSession'
  BY <1>1 DEF PostSession, TypeOK, DestructorOwnsSession, RequestPcs, PollPcs,
       DtorPcs
<1>2. ASSUME NEW w \in Workers, PostReply(w)
      PROVE  DestructorOwnsSession'
  BY <1>2 DEF PostReply, GetSession, TypeOK, DestructorOwnsSession, RequestPcs,
       PollPcs, DtorPcs
<1>3. ASSUME NEW w \in Workers, PostLostReply(w)
      PROVE  DestructorOwnsSession'
  BY <1>3 DEF PostLostReply, TypeOK, DestructorOwnsSession, RequestPcs,
       PollPcs, DtorPcs
<1>4. ASSUME NEW w \in Workers, PollFirstRead(w)
      PROVE  DestructorOwnsSession'
  BY <1>4 DEF PollFirstRead, TypeOK, DestructorOwnsSession, RequestPcs,
       PollPcs, DtorPcs
<1>5. ASSUME NEW w \in Workers, PollFirstClear(w)
      PROVE  DestructorOwnsSession'
  BY <1>5 DEF PollFirstClear, TypeOK, DestructorOwnsSession, RequestPcs,
       PollPcs, DtorPcs
<1>6. ASSUME NEW w \in Workers, PollNotify(w)
      PROVE  DestructorOwnsSession'
  BY <1>6 DEF PollNotify, TypeOK, DestructorOwnsSession, RequestPcs, PollPcs,
       DtorPcs
<1>7. ASSUME NEW w \in Workers, PollWait(w)
      PROVE  DestructorOwnsSession'
  BY <1>7 DEF PollWait, TypeOK, DestructorOwnsSession, RequestPcs, PollPcs,
       DtorPcs
<1>8. ASSUME NEW w \in Workers, PollLock(w)
      PROVE  DestructorOwnsSession'
  BY <1>8 DEF PollLock, TypeOK, DestructorOwnsSession, RequestPcs, PollPcs,
       DtorPcs
<1>9. ASSUME NEW w \in Workers, PollClear(w)
      PROVE  DestructorOwnsSession'
  BY <1>9 DEF PollClear, TypeOK, DestructorOwnsSession, RequestPcs, PollPcs,
       DtorPcs
<1>10. ASSUME NEW w \in Workers, PollUnlock(w)
      PROVE  DestructorOwnsSession'
  BY <1>10 DEF PollUnlock, TypeOK, DestructorOwnsSession, RequestPcs, PollPcs,
       DtorPcs
<1>11. ASSUME NEW w \in Workers, NEW s \in Sessions, ShortRequest(w, s)
      PROVE  DestructorOwnsSession'
  BY <1>11 DEF ShortRequest, GetSession, Arrives, TypeOK,
       DestructorOwnsSession, RequestPcs, PollPcs, DtorPcs
<1>12. ASSUME NEW w \in Workers, NEW s \in Sessions, PollBegin(w, s)
      PROVE  DestructorOwnsSession'
  BY <1>12 DEF PollBegin, GetSession, Arrives, TypeOK, DestructorOwnsSession,
       RequestPcs, PollPcs, DtorPcs
<1>13. ASSUME NEW w \in Workers, NEW s \in Sessions, DeleteBegin(w, s)
      PROVE  DestructorOwnsSession'
  BY <1>13 DEF DeleteBegin, GetSession, Arrives, TypeOK, DestructorOwnsSession,
       RequestPcs, PollPcs, DtorPcs
<1>14. ASSUME NEW t \in Agents, DeleteTry(t)
      PROVE  DestructorOwnsSession'
  <2>1. t \in Workers /\ pc[t] = "deleteTry"
    BY <1>14 DEF DeleteTry, IdsInOrder, ExpPcs, DtorPcs, DeleterExcludes
  <2>2. heap[cur[t]] = "live"
    BY <2>1, DeleteFinds DEF RegisteredAlive
  <2>3. /\ \A a \in Agents : pc'[a] = IF a = t THEN "dtorUnregister" ELSE pc[a]
        /\ UNCHANGED <<cur, heap>>
    BY <1>14, <2>1, <2>2 DEF DeleteTry, TypeOK
  <2>4. QED
    BY <2>1, <2>2, <2>3 DEF DestructorOwnsSession
<1>15. ASSUME NEW t \in Agents, DtorUnregister(t)
      PROVE  DestructorOwnsSession'
  BY <1>15 DEF DtorUnregister, ListAvailable, TypeOK, DestructorOwnsSession,
       RequestPcs, PollPcs, DtorPcs
<1>16. ASSUME NEW t \in Agents, DtorFree(t)
      PROVE  DestructorOwnsSession'
  <2>1. /\ pc[t] = "dtorFree" /\ pc[t] \in DtorPcs
        /\ cur[t] \in Sessions \cup {0} /\ cur' = cur /\ ~expRunning[cur[t]]
        /\ \A s \in Sessions : s # cur[t] => heap'[s] = heap[s]
        /\ \A a \in Agents : a # t => pc'[a] = pc[a]
        /\ pc'[t] \in {"idle", "shutdownLoop", "done"}
    BY <1>16 DEF DtorFree, ThreadGone, TypeOK, DtorPcs
  <2>2. ASSUME NEW a \in Agents, a # t, pc[a] \in DtorPcs
        PROVE  cur[a] # cur[t] /\ cur[a] \in Sessions
    <3>1. \A b \in Agents : pc[b] \in DtorPcs =>
             b \in Workers \/ (b \in Sessions /\ cur[b] = b)
      BY DEF DeleterExcludes, IdsInOrder, DtorPcs
    <3>2. \A b \in Workers : pc[b] \in DtorPcs =>
             cur[b] \in Sessions /\ pc[cur[b]] \notin DtorPcs
      BY DEF OneDestroyer, TypeOK, IdsInOrder, DtorPcs
    <3>3. ~(a \in Workers /\ t \in Workers)
      BY <2>1, <2>2 DEF DeleterExcludes
    <3>4. CASE a \in Workers
      BY <2>1, <2>2, <3>1, <3>2, <3>3, <3>4
    <3>5. CASE t \in Workers
      BY <2>1, <2>2, <3>1, <3>2, <3>3, <3>5
    <3>6. CASE a \notin Workers /\ t \notin Workers
      BY <2>1, <2>2, <3>1, <3>6
    <3>7. QED
      BY <3>4, <3>5, <3>6
  <2>3. \A a \in Agents : pc'[a] \in DtorPcs => heap'[cur'[a]] = "live"
    BY <2>1, <2>2 DEF DestructorOwnsSession, DtorPcs
  <2>4. \A s \in Sessions :
           pc'[s] \in {"tick", "sleep", "exit", "expired"} => heap'[s] = "live"
    BY <2>1 DEF DestructorOwnsSession, ThreadTells
  <2>5. QED
    BY <2>3, <2>4 DEF DestructorOwnsSession
<1>17. ASSUME NEW s \in Sessions, ExpTick(s)
      PROVE  DestructorOwnsSession'
  BY <1>17 DEF ExpTick, LastDecrement, TypeOK, DestructorOwnsSession,
       RequestPcs, PollPcs, DtorPcs
<1>18. ASSUME NEW s \in Sessions, ExpTimeout(s)
      PROVE  DestructorOwnsSession'
  BY <1>18 DEF ExpTimeout, TypeOK, DestructorOwnsSession, RequestPcs, PollPcs,
       DtorPcs
<1>19. ASSUME NEW s \in Sessions, ExpExit(s)
      PROVE  DestructorOwnsSession'
  BY <1>19 DEF ExpExit, TypeOK, DestructorOwnsSession, RequestPcs, PollPcs,
       DtorPcs
<1>20. ASSUME NEW s \in Sessions, ExpExpire(s)
      PROVE  DestructorOwnsSession'
  BY <1>20 DEF ExpExpire, TypeOK, DestructorOwnsSession, IdsInOrder, RequestPcs,
       PollPcs, DtorPcs
<1>21. ASSUME ShutdownBegin
      PROVE  DestructorOwnsSession'
  BY <1>21 DEF ShutdownBegin, TypeOK, DestructorOwnsSession, RequestPcs,
       PollPcs, DtorPcs
<1>22. ASSUME ShutdownLoop
      PROVE  DestructorOwnsSession'
  BY <1>22 DEF ShutdownLoop, TypeOK, DestructorOwnsSession, RequestPcs,
       PollPcs, DtorPcs
<1>23. ASSUME ShutdownGiveUp
      PROVE  DestructorOwnsSession'
  BY <1>23 DEF ShutdownGiveUp, RequestOver, TypeOK, DestructorOwnsSession,
       RequestPcs, PollPcs, DtorPcs
<1>24. ASSUME ShutdownWait
      PROVE  DestructorOwnsSession'
  BY <1>24 DEF ShutdownWait, TypeOK, DestructorOwnsSession, RequestPcs,
       PollPcs, DtorPcs
<1>25. CASE UNCHANGED vars
  BY <1>25 DEF vars, TypeOK, DestructorOwnsSession, RequestPcs, PollPcs,
       DtorPcs
<1> QED
  BY <1>1, <1>2, <1>3, <1>4, <1>5, <1>6, <1>7, <1>8, <1>9, <1>10, <1>11, <1>12,
       <1>13, <1>14, <1>15, <1>16, <1>17, <1>18, <1>19, <1>20, <1>21, <1>22,
       <1>23, <1>24, <1>25
     DEF Next, Request, WorkerStep, ExpStep, MainStep

\* The inductive invariant of what happens once per session.
OnceInv ==
    /\ PromptInv /\ ThreadTells /\ OneDestroyer /\ AnnouncedOnce
    /\ DestructorOwnsSession

\* The freshly constructed interface satisfies OnceInv.
LEMMA OnceInit == Init => OnceInv
<1> SUFFICES ASSUME Init PROVE OnceInv
  OBVIOUS
<1>1. PromptInv
  BY PromptInit
<1>2. /\ \A w \in Workers : pc[w] = "idle"
      /\ \A s \in Sessions : pc[s] = "none"
      /\ \A a \in Agents : pc[a] \in {"idle", "running", "none"}
  BY AgentSorts DEF Init
<1>3. ThreadTells
  BY <1>2 DEF Init, ThreadTells
<1>4. OneDestroyer /\ DestructorOwnsSession
  BY <1>2 DEF OneDestroyer, DestructorOwnsSession, DtorPcs
<1>5. AnnouncedOnce
  BY <1>2 DEF Init, AnnouncedOnce, NotifiedOnce
<1>6. QED
  BY <1>1, <1>3, <1>4, <1>5 DEF OnceInv

\* Every handler and thread step preserves OnceInv.
LEMMA OnceStep ==
    ASSUME PromptClients
    PROVE  OnceInv /\ [Next]_vars => OnceInv'
<1> SUFFICES ASSUME OnceInv, [Next]_vars PROVE OnceInv'
  OBVIOUS
<1>1. PromptInv'
  BY PromptStep DEF OnceInv
<1>2. /\ TypeOK /\ TypeOK' /\ IdsInOrder /\ Counting /\ RegisteredAlive
      /\ DeleterExcludes /\ FlagMeansPoll /\ LifetimeLeft
  BY <1>1 DEF OnceInv, PromptInv, SafeInv
<1>3. ThreadTells' /\ OneDestroyer'
  BY <1>2, TellsStep, DestroyerStep DEF OnceInv
<1>4. AnnouncedOnce' /\ DestructorOwnsSession'
  BY <1>2, AnnouncedStep, OwnsStep DEF OnceInv
<1>5. QED
  BY <1>1, <1>3, <1>4 DEF OnceInv

\* OnceInv holds throughout with prompt clients.
LEMMA Once == PromptClients => (Spec => []OnceInv)
<1>1. ASSUME PromptClients
      PROVE  OnceInv /\ [Next]_vars => OnceInv'
  BY <1>1, OnceStep
<1>2. ASSUME PromptClients
      PROVE  Spec => []OnceInv
  BY <1>1, <1>2, OnceInit, PTL DEF Spec
<1>3. QED
  BY <1>2

\* With prompt clients every session is announced at most once, UnregisterSession
\* finds it (assert(bUnregisterSuccess) in ~CSession), and its destructor and
\* its expiration thread work on allocated memory, however a DELETE and the end
\* of the lifetime fall together.
THEOREM OnceIsSafe == PromptClients => (Spec => []OncePerSession)
<1>1. ASSUME OnceInv
      PROVE  OncePerSession
  <2>1. UnregisterSucceeds
    <3> SUFFICES ASSUME NEW t \in Agents, pc[t] = "dtorUnregister"
                 PROVE  cur[t] \in registered
      BY DEF UnregisterSucceeds
    <3>1. t \in Workers \/ t \in Sessions
      BY <1>1, AgentSorts DEF OnceInv, PromptInv, DeleterExcludes
    <3>2. t \in Sessions => cur[t] = t
      BY <1>1 DEF OnceInv, PromptInv, SafeInv, IdsInOrder
    <3>3. QED
      BY <1>1, <3>1, <3>2 DEF OnceInv, OneDestroyer, ThreadTells
  <2>2. QED
    BY <1>1, <2>1 DEF OnceInv, AnnouncedOnce, OncePerSession
<1>2. QED
  BY <1>1, Once, PTL

-----------------------------------------------------------------------------
(* SessionLifecycle implements SessionContract *)

\* What the contract sees of a worker.
Serving(w) == IF pc[w] \in PollPcs THEN cur[w] ELSE 0

\* No session exists and no poll runs at first.
LEMMA ContractInit == Init => Contract!Init
<1> SUFFICES ASSUME Init PROVE Contract!Init
  OBVIOUS
<1>1. \A w \in Workers : pc[w] \notin PollPcs
  BY AgentSorts DEF Init, PollPcs
<1>2. QED
  BY <1>1 DEF Init, Contract!Init

\* A step that changes neither the heap nor what a worker serves is a stutter.
LEMMA ContractStutters ==
    ASSUME UNCHANGED heap, \A w \in Workers : Serving(w)' = Serving(w)
    PROVE  UNCHANGED Contract!vars
  BY DEF Contract!vars, Serving

\* Every step of the server is one of the contract or invisible to it: POST
\* /session creates, GET /event serves until the flag falls, and the destructor
\* destroys, with no poll in progress.
LEMMA ContractStep ==
    ASSUME PromptClients, OnceInv, OnceInv', [Next]_vars
    PROVE  [Contract!Next]_Contract!vars
<1>a. /\ TypeOK /\ TypeOK' /\ IdsInOrder /\ RegisteredAlive /\ ThreadTells
      /\ DeleterExcludes /\ FlagMeansPoll /\ LifetimeLeft
      /\ DestructorOwnsSession
  BY DEF OnceInv, PromptInv, SafeInv
<1>b. /\ pc \in [Agents -> Pcs] /\ cur \in [Agents -> Sessions \cup {0}]
      /\ heap \in [Sessions -> {"none", "live", "freed"}]
  BY <1>a DEF TypeOK
<1> USE AgentSorts, <1>b DEF Goto, locks, registry, sessionFlags, history
<1>1. ASSUME NEW w \in Workers, PostSession(w)
      PROVE  Contract!Next
  <2>1. nextId \in Sessions /\ w # nextId
    BY <1>1, <1>a DEF PostSession, TypeOK, Sessions
  <2>2. heap[nextId] = "none"
    BY <2>1, <1>a, Numbers DEF IdsInOrder, ThreadTells
  <2>3. heap' = [heap EXCEPT ![nextId] = "live"]
    BY <1>1 DEF PostSession
  <2>4. \A v \in Workers : Serving(v)' = Serving(v)
    BY <1>1, <2>1 DEF PostSession, Serving, PollPcs
  <2>5. Contract!Create(nextId)
    BY <2>2, <2>3, <2>4 DEF Contract!Create, Serving
  <2>6. QED
    BY <2>1, <2>5 DEF Contract!Next
<1>2. ASSUME NEW w \in Workers, NEW s \in Sessions, PollBegin(w, s)
      PROVE  Contract!Next
  <2>1. heap[s] = "live" /\ UNCHANGED heap
    BY <1>2, <1>a DEF PollBegin, GetSession, RegisteredAlive
  <2>2. Serving(w) = 0
    BY <1>2 DEF PollBegin, Arrives, Serving, PollPcs
  <2>3. \A v \in Workers : Serving(v)' = IF v = w THEN s ELSE Serving(v)
    BY <1>2 DEF PollBegin, Serving, PollPcs
  <2>4. Contract!Serve(w, s)
    BY <2>1, <2>2, <2>3 DEF Contract!Serve, Serving
  <2>5. QED
    BY <2>4 DEF Contract!Next
<1>3. ASSUME NEW w \in Workers, PollClear(w)
      PROVE  Contract!Next
  <2>1. cur[w] # 0
    BY <1>3, <1>a DEF PollClear, IdsInOrder, RequestPcs, PollPcs
  <2>2. Serving(w) # 0
    BY <1>3, <2>1 DEF PollClear, Serving, PollPcs
  <2>3. \A v \in Workers : Serving(v)' = IF v = w THEN 0 ELSE Serving(v)
    BY <1>3 DEF PollClear, Serving, PollPcs
  <2>4. UNCHANGED heap
    BY <1>3 DEF PollClear
  <2>5. Contract!Answer(w)
    BY <2>2, <2>3, <2>4 DEF Contract!Answer, Serving
  <2>6. QED
    BY <2>5 DEF Contract!Next
<1>4. ASSUME NEW t \in Agents, DtorFree(t)
      PROVE  Contract!Next
  <2>1. pc[t] \in DtorPcs /\ heap' = [heap EXCEPT ![cur[t]] = "freed"]
    BY <1>4 DEF DtorFree, DtorPcs
  <2>2. heap[cur[t]] = "live" /\ cur[t] \in Sessions
    <3>1. t \in Workers \/ t \in Sessions
      BY <2>1, <1>a DEF DeleterExcludes, DtorPcs
    <3>2. cur[t] # 0
      BY <2>1, <3>1, <1>a DEF IdsInOrder
    <3>3. QED
      BY <2>1, <3>2, <1>a DEF DestructorOwnsSession
  <2>3. \A v \in Workers : Serving(v) # cur[t]
    BY <1>a, <2>1, <2>2, DtorSparesPolls DEF Serving
  <2>4. \A v \in Workers : Serving(v)' = Serving(v)
    BY <1>4 DEF DtorFree, Serving, PollPcs
  <2>5. Contract!Destroy(cur[t])
    BY <2>1, <2>2, <2>3, <2>4 DEF Contract!Destroy, Serving
  <2>6. QED
    BY <2>2, <2>5 DEF Contract!Next
<1>5. ASSUME NEW w \in Workers,
             \/ PostReply(w) \/ PostLostReply(w) \/ PollFirstRead(w)
             \/ PollFirstClear(w) \/ PollNotify(w) \/ PollWait(w)
             \/ PollLock(w) \/ PollUnlock(w)
      PROVE  UNCHANGED Contract!vars
  <2>1. UNCHANGED <<heap, cur>>
    BY <1>5 DEF PostReply, PostLostReply, PollFirstRead, PollFirstClear,
         PollNotify, PollWait, PollLock, PollUnlock
  <2>2. \A v \in Workers : v # w => pc'[v] = pc[v]
    BY <1>5 DEF PostReply, PostLostReply, PollFirstRead, PollFirstClear,
         PollNotify, PollWait, PollLock, PollUnlock
  <2>3. pc'[w] \in PollPcs <=> pc[w] \in PollPcs
    BY <1>5 DEF PostReply, PostLostReply, PollFirstRead, PollFirstClear,
         PollNotify, PollWait, PollLock, PollUnlock, PollPcs
  <2>4. QED
    BY <2>1, <2>2, <2>3, ContractStutters DEF Serving
<1>6. ASSUME NEW w \in Workers, NEW s \in Sessions,
             ShortRequest(w, s) \/ DeleteBegin(w, s)
      PROVE  UNCHANGED Contract!vars
  <2>1. UNCHANGED heap
    BY <1>6 DEF ShortRequest, DeleteBegin
  <2>2. \A v \in Workers : Serving(v)' = Serving(v)
    BY <1>6 DEF ShortRequest, DeleteBegin, Arrives, Serving, PollPcs
  <2>3. QED
    BY <2>1, <2>2, ContractStutters
<1>7. ASSUME NEW t \in Agents, DeleteTry(t) \/ DtorUnregister(t)
      PROVE  UNCHANGED Contract!vars
  <2>1. UNCHANGED <<heap, cur>>
    BY <1>7 DEF DeleteTry, DtorUnregister
  <2>2. \A v \in Workers :
           pc'[v] = pc[v] \/ (pc[v] \notin PollPcs /\ pc'[v] \notin PollPcs)
    BY <1>7 DEF DeleteTry, DtorUnregister, PollPcs
  <2>3. QED
    BY <2>1, <2>2, ContractStutters DEF Serving
<1>8. ASSUME NEW s \in Sessions,
             ExpTick(s) \/ ExpTimeout(s) \/ ExpExit(s) \/ ExpExpire(s)
      PROVE  UNCHANGED Contract!vars
  <2>1. UNCHANGED <<heap, cur>>
    BY <1>8 DEF ExpTick, ExpTimeout, ExpExit, ExpExpire
  <2>2. \A v \in Workers : pc'[v] = pc[v]
    BY <1>8 DEF ExpTick, ExpTimeout, ExpExit, ExpExpire
  <2>3. QED
    BY <2>1, <2>2, ContractStutters DEF Serving
<1>9. ~ShutdownBegin /\ ~ShutdownLoop /\ ~ShutdownGiveUp /\ ~ShutdownWait
  BY <1>a DEF PromptClients, DeleterExcludes, ShutdownBegin, ShutdownLoop,
       ShutdownGiveUp, ShutdownWait
<1>10. CASE UNCHANGED vars
  BY <1>10, ContractStutters DEF vars, Serving
<1>11. QED
  BY <1>1, <1>2, <1>3, <1>4, <1>5, <1>6, <1>7, <1>8, <1>9, <1>10
     DEF Next, Request, WorkerStep, ExpStep, MainStep

\* The server keeps the abstract contract: a session is created once, destroyed
\* at most once, and never while an event poll is served on it, for any number
\* of workers and sessions (Handle_EventPolling, Handle_DeleteSession,
\* MaintainExpirationThread).
THEOREM LifecycleImplementsContract == PromptClients => (Spec => ContractHolds)
<1>1. Init => Contract!Init
  BY ContractInit
<1>2. ASSUME PromptClients
      PROVE  OnceInv /\ OnceInv' /\ [Next]_vars
                => [Contract!Next]_Contract!vars
  BY <1>2, ContractStep
<1>3. PromptClients => (Spec => []OnceInv)
  BY Once
<1>4. ASSUME PromptClients
      PROVE  Spec => ContractHolds
  BY <1>1, <1>2, <1>3, <1>4, PTL DEF Spec, ContractHolds, Contract!Spec
<1>5. QED
  BY <1>4
=============================================================================
