------------------------ MODULE EventDeliveryProofs ------------------------
(***************************************************************************)
(* Proofs about EventDelivery, for any number of senders, sessions and     *)
(* events.  DeliveryInv is inductive: one sender fires at a time, since it *)
(* holds the list mutex, which also keeps the sessions it goes through     *)
(* alive; a session's mutex separates the sender from the poll's copying.  *)
(* From it follow the order of events and the end of a wait, and that the  *)
(* whole service implements EventChannel.                                  *)
(***************************************************************************)
EXTENDS EventDelivery, TLAPS, SequenceTheorems, WellFoundedInduction,
        FiniteSetTheorems

-----------------------------------------------------------------------------
(* Numbers and sequences. *)

\* A set of numbers has a least element.
LEMMA Least ==
    ASSUME NEW T, T \subseteq Nat, T # {}
    PROVE  \E x \in T : \A y \in T : x <= y
<1> DEFINE R == OpToRel(<, Nat)
<1>1. IsWellFoundedOn(R, Nat)
  BY NatLessThanWellFounded
<1>2. PICK x \in T : \A y \in T : <<y, x>> \notin R
  <2> HIDE DEF R
  <2>1. QED
    BY <1>1, WFMin
<1>3. ASSUME NEW y \in T PROVE x <= y
  <2>1. <<y, x>> \notin {ss \in Nat \X Nat : ss[1] < ss[2]}
    BY <1>2 DEF OpToRel
  <2>2. x \in Nat /\ y \in Nat
    OBVIOUS
  <2>3. QED
    BY <2>1, <2>2
<1>4. QED
  BY <1>3

\* Sequences taken apart where they were put together.
LEMMA ConcatApart ==
    ASSUME NEW S, NEW s \in Seq(S), NEW t \in Seq(S)
    PROVE  /\ SubSeq(s \o t, 1, Len(s)) = s
           /\ SubSeq(s \o t, Len(s) + 1, Len(s \o t)) = t
           /\ Len(s) \in 0..Len(s \o t)
<1>1. Len(s) \in Nat /\ Len(t) \in Nat /\ Len(s \o t) = Len(s) + Len(t)
  BY ConcatProperties, LenProperties
<1>2. SubSeq(s \o t, 1, Len(s)) = s
  <2>1. CASE s = <<>>
    BY <2>1, SubSeqEmpty, EmptySeq
  <2>2. CASE s # <<>>
    <3>1. Len(s) \in Nat \ {0}
      BY <2>2, EmptySeq
    <3>2. SubSeq(s \o t, 1, Len(s)) = SubSeq(s, 1, Len(s))
      BY <3>1, SubSeqOfConcat1
    <3>3. QED
      BY <3>2, SubSeqFull
  <2>3. QED
    BY <2>1, <2>2
<1>3. SubSeq(s \o t, Len(s) + 1, Len(s \o t)) = t
  <2>1. CASE t = <<>>
    <3>1. Len(t) = 0
      BY <2>1, EmptySeq
    <3>2. QED
      BY <1>1, <2>1, <3>1, SubSeqEmpty
  <2>2. CASE t # <<>>
    <3>1. Len(t) \in Nat \ {0}
      BY <2>2, EmptySeq
    <3>2. SubSeq(s \o t, Len(s) + 1, Len(s) + Len(t))
            = SubSeq(t, Len(s) + 1 - Len(s), Len(s) + Len(t) - Len(s))
      <4>1. Len(s) + 1 \in Len(s) + 1 .. Len(s) + Len(t)
            /\ Len(s) + Len(t) \in Len(s) + 1 .. Len(s) + Len(t)
        BY <1>1, <3>1
      <4>2. QED
        BY <4>1, SubSeqOfConcat2
    <3>3. Len(s) + 1 - Len(s) = 1 /\ Len(s) + Len(t) - Len(s) = Len(t)
      BY <1>1
    <3>4. QED
      BY <1>1, <3>2, <3>3, SubSeqFull
  <2>3. QED
    BY <2>1, <2>2
<1>4. Len(s) \in 0..Len(s \o t)
  BY <1>1
<1>5. QED
  BY <1>2, <1>3, <1>4

\* Appending to the second of two sequences appends to both together.
LEMMA AppendBehind ==
    ASSUME NEW S, NEW s \in Seq(S), NEW t \in Seq(S), NEW e \in S
    PROVE  s \o Append(t, e) = Append(s \o t, e)
<1>1. Append(t, e) = t \o <<e>>
  BY AppendIsConcat
<1>2. s \o t \in Seq(S) /\ <<e>> \in Seq(S)
  BY ConcatProperties
<1>3. Append(s \o t, e) = (s \o t) \o <<e>>
  BY <1>2, AppendIsConcat
<1>4. (s \o t) \o <<e>> = s \o (t \o <<e>>)
  BY <1>2, ConcatAssociative
<1>5. QED
  BY <1>1, <1>3, <1>4

-----------------------------------------------------------------------------
(* The invariant. *)

\* The session a sender serves next is the first of those it has to.
LEMMA TargetIn ==
    ASSUME TypeOK, NEW t \in Senders, sender[t].todo # {}
    PROVE  /\ Target(t) \in sender[t].todo /\ Target(t) \in Sessions
           /\ \A s \in sender[t].todo : Target(t) <= s
<1>1. sender[t].todo \subseteq Nat /\ sender[t].todo \subseteq Sessions
  <2>1. sender[t] \in SenderStates
    BY DEF TypeOK
  <2>2. sender[t].todo \subseteq Sessions
    BY <2>1 DEF SenderStates
  <2>3. Sessions \subseteq Nat
    BY DeliveryAssumption DEF Sessions
  <2>4. QED
    BY <2>2, <2>3
<1>2. \E s \in sender[t].todo : \A r \in sender[t].todo : s <= r
  BY <1>1, Least
<1>3. QED
  BY <1>1, <1>2 DEF Target

\* It stays the same while the sender has the same sessions to serve.
LEMMA TargetSame ==
    ASSUME NEW t \in Senders, sender'[t].todo = sender[t].todo
    PROVE  Target(t)' = Target(t)
  BY DEF Target

\* DeliveryInv holds at first: nobody fires, and no session exists.
LEMMA DeliveryInit == Init => DeliveryInv
<1> SUFFICES ASSUME Init PROVE DeliveryInv
  OBVIOUS
<1> USE DeliveryAssumption DEF Init
<1>1. TypeOK
  BY DEF TypeOK, IdleSender, SenderStates, Kinds, PollPcs, Sessions
<1>2. OneSender /\ IdsFresh /\ NobodyWaits
  BY DEF OneSender, IdsFresh, NobodyWaits, Busy, Serving, IdleSender
<1>3. Lives /\ PollSteps /\ IdsIncrease /\ FiringEndsWait
  BY DEF Lives, PollSteps, IdsIncrease, FiringEndsWait
<1>4. QED
  BY <1>1, <1>2, <1>3 DEF DeliveryInv

\* A step that leaves the variables of DeliveryInv alone preserves it.
LEMMA DeliveryUntouched ==
    ASSUME DeliveryInv, UNCHANGED vars
    PROVE  DeliveryInv'
<1> USE DEF vars, DeliveryInv
<1>1. TypeOK'
  BY DEF TypeOK
<1>2. \A t \in Senders : Target(t)' = Target(t)
  BY DEF Target
<1>3. OneSender'
  BY <1>2 DEF OneSender, Busy, Serving
<1>4. IdsFresh'
  BY <1>2 DEF IdsFresh, Busy, Serving
<1>5. NobodyWaits'
  BY <1>2 DEF NobodyWaits
<1>6. Lives' /\ PollSteps' /\ IdsIncrease' /\ FiringEndsWait'
  BY DEF Lives, PollSteps, IdsIncrease, FiringEndsWait
<1>7. QED
  BY <1>1, <1>3, <1>4, <1>5, <1>6

\* What only the senders' side speaks of is kept while they do nothing.
LEMMA SendersUntouched ==
    ASSUME DeliveryInv, UNCHANGED <<senderVars, queued>>,
           alive \subseteq alive',
           \A t \in Senders : sessOwner'[Target(t)] = sessOwner[Target(t)]
                             \/ ~Serving(t)
    PROVE  OneSender' /\ IdsFresh' /\ IdsIncrease'
<1> USE DEF DeliveryInv, senderVars, Busy, Serving
<1>1. \A t \in Senders : Target(t)' = Target(t)
  BY TargetSame
<1>2. OneSender'
  BY <1>1 DEF OneSender
<1>3. IdsFresh'
  BY <1>1 DEF IdsFresh
<1>4. IdsIncrease'
  BY DEF IdsIncrease
<1>5. QED
  BY <1>2, <1>3, <1>4

\* A new session has a new id and an empty queue (POST /session).
LEMMA NewSessionStep ==
    ASSUME DeliveryInv, NewSession
    PROVE  DeliveryInv'
<1> USE DEF DeliveryInv, NewSession, senderVars, pollVars
<1>1. TypeOK'
  BY DeliveryAssumption, SMTT(30) DEF TypeOK, Sessions
<1>2. OneSender' /\ IdsFresh' /\ IdsIncrease'
  BY SendersUntouched
<1>3. Lives' /\ nextId \notin alive
  BY DeliveryAssumption DEF Lives, TypeOK, Sessions
<1>4. PollSteps'
  BY DEF PollSteps
<1>5. NobodyWaits'
  BY TargetSame DEF NobodyWaits
<1>6. FiringEndsWait'
  BY <1>3 DEF FiringEndsWait, PollSteps
<1>7. QED
  BY <1>1, <1>2, <1>3, <1>4, <1>5, <1>6

\* No sender is busy while a session is deleted.
LEMMA DropSessionStep ==
    ASSUME DeliveryInv, NEW s \in Sessions, DropSession(s)
    PROVE  DeliveryInv'
<1> USE DEF DeliveryInv, DropSession, senderVars, pollVars
<1>0. \A t \in Senders : ~Busy(t)
  BY DeliveryAssumption DEF OneSender
<1>1. TypeOK'
  BY DEF TypeOK
<1>2. OneSender' /\ IdsFresh' /\ NobodyWaits'
  BY <1>0 DEF OneSender, IdsFresh, NobodyWaits, Busy, Serving
<1>3. IdsIncrease'
  BY DEF IdsIncrease
<1>4. Lives'
  BY DEF Lives, TypeOK
<1>5. PollSteps' /\ FiringEndsWait'
  BY DEF PollSteps, FiringEndsWait, TypeOK
<1>6. QED
  BY <1>1, <1>2, <1>3, <1>4, <1>5

-----------------------------------------------------------------------------
(* The senders' steps. *)

\* A sender that takes the free list mutex is the only one that is busy, and
\* its event is newer than all others.
LEMMA FiringBegins ==
    ASSUME DeliveryInv, NEW t \in Senders, NEW todo \in SUBSET alive,
           NEW kind \in Kinds, listOwner = Nobody, listOwner' = t,
           nextEvent \in EventIds, nextEvent' = nextEvent + 1,
           sender' = [sender EXCEPT ![t] = [pc |-> "next", id |-> nextEvent,
                                            todo |-> todo, kind |-> kind]],
           UNCHANGED <<sessOwner, mapVars, queue, eventSet, pollVars, queued>>
    PROVE  DeliveryInv'
<1> USE DEF DeliveryInv, mapVars, pollVars, EventIds
<1>0. \A r \in Senders : ~Busy(r)
  BY DeliveryAssumption DEF OneSender
<1>1. TypeOK'
  <2>1. [pc |-> "next", id |-> nextEvent, todo |-> todo, kind |-> kind]
           \in SenderStates
    BY DeliveryAssumption DEF TypeOK, SenderStates
  <2>2. sender' \in [Senders -> SenderStates]
    BY <2>1 DEF TypeOK
  <2>3. nextEvent' \in 1..(MaxEvents + 1)
    BY DeliveryAssumption
  <2>4. QED
    BY <2>2, <2>3 DEF TypeOK
<1>2. /\ sender'[t].pc = "next" /\ sender'[t].id = nextEvent
      /\ sender'[t].todo = todo
      /\ \A r \in Senders : r # t => sender'[r].pc = "idle"
  BY <1>0 DEF TypeOK, Busy
<1>3. OneSender'
  BY <1>2, DeliveryAssumption DEF OneSender, Busy, Serving, TypeOK
<1>4. IdsIncrease'
  <2>1. ASSUME NEW s \in Sessions, NEW i \in DOMAIN queued[s]
        PROVE  queued[s][i].id < nextEvent'
    <3>1. queued[s] \in Seq(Events) /\ queued[s][i] \in Events
      BY ElementOfSeq, LenProperties DEF TypeOK
    <3>2. queued[s][i].id \in Int /\ nextEvent \in Int
      BY <3>1, DeliveryAssumption DEF Events
    <3>3. QED
      BY <3>2 DEF IdsIncrease
  <2>2. QED
    BY <2>1 DEF IdsIncrease
<1>5. IdsFresh'
  BY <1>2 DEF IdsFresh, IdsIncrease, Busy, TypeOK
<1>6. NobodyWaits'
  BY <1>2 DEF NobodyWaits
<1>7. Lives' /\ PollSteps' /\ FiringEndsWait'
  BY DEF Lives, PollSteps, FiringEndsWait
<1>8. QED
  BY <1>1, <1>3, <1>4, <1>5, <1>6, <1>7

\* A sender takes the list mutex and the next event (FireEventToAllClients).
LEMMA BroadcastStep ==
    ASSUME DeliveryInv, NEW t \in Senders, Broadcast(t)
    PROVE  DeliveryInv'
<1>1. alive \in SUBSET alive /\ "broadcast" \in Kinds
  BY DEF Kinds
<1>2. QED
  BY <1>1, FiringBegins DEF Broadcast

\* An event for one client is fired (Handle_PutClientEvent, IdentifyClient).
LEMMA FireToOneStep ==
    ASSUME DeliveryInv, NEW t \in Senders, NEW s \in Sessions,
           PrivateEvent(t, s) \/ IdentifyOne(t, s)
    PROVE  DeliveryInv'
<1>1. PICK kind \in Kinds : FireToOne(t, s, kind)
  BY DEF PrivateEvent, IdentifyOne, Kinds
<1>2. {s} \in SUBSET alive
  BY <1>1 DEF FireToOne
<1>3. QED
  BY <1>1, <1>2, FiringBegins DEF FireToOne

\* The event a sender writes into a queue.
EventOf(t) ==
    [id |-> sender[t].id,
     role |-> IF sender[t].kind = "private" THEN "primary"
              ELSE GetClientRole(Target(t)),
     kind |-> sender[t].kind]

\* It is an event, with the id of the sender's.
LEMMA EventIs ==
    ASSUME DeliveryInv, NEW t \in Senders, sender[t].id \in EventIds
    PROVE  EventOf(t) \in Events /\ EventOf(t).id = sender[t].id
<1>1. sender[t].kind \in Kinds
  BY DEF DeliveryInv, TypeOK, SenderStates
<1>2. (IF sender[t].kind = "private" THEN "primary"
       ELSE GetClientRole(Target(t))) \in Roles
  BY DEF Roles, GetClientRole
<1>3. QED
  BY <1>1, <1>2 DEF EventOf, Events

\* Who else is busy while t is?
LEMMA AloneBusy ==
    ASSUME OneSender, NEW t \in Senders, Busy(t)
    PROVE  \A r \in Senders : r # t => ~Busy(r)
  BY DEF OneSender

\* The sender puts the event into the queue of one session.
LEMMA FireQueueStep ==
    ASSUME DeliveryInv, NEW t \in Senders, FireQueue(t)
    PROVE  DeliveryInv'
<1> DEFINE s == Target(t)
           e == EventOf(t)
<1> USE DEF DeliveryInv
<1>0. /\ sender[t].pc = "next" /\ sender[t].todo # {} /\ sessOwner[s] = Nobody
      /\ sessOwner' = [sessOwner EXCEPT ![s] = t]
      /\ queue' = [queue EXCEPT ![s] = Append(@, e)]
      /\ queued' = [queued EXCEPT ![s] = Append(@, e)]
      /\ sender' = [sender EXCEPT ![t].pc = "set"]
      /\ UNCHANGED <<mapVars, eventSet, pollVars, nextEvent, listOwner>>
  BY DEF FireQueue, EventOf
<1>1. s \in sender[t].todo /\ s \in Sessions /\ s \in alive /\ Busy(t)
  BY <1>0, TargetIn DEF OneSender, Busy
<1>2. \A r \in Senders : r # t => ~Busy(r)
  BY <1>1, AloneBusy
<1>3. sender[t].id \in EventIds /\ sender[t].id < nextEvent
  BY <1>1, DeliveryAssumption DEF OneSender, EventIds, TypeOK
<1>4. e \in Events /\ e.id = sender[t].id
  BY <1>3, EventIs
<1> HIDE DEF s, e
<1>5. /\ sender'[t].pc = "set" /\ sender'[t].id = sender[t].id
      /\ sender'[t].todo = sender[t].todo
      /\ \A r \in Senders : r # t => sender'[r] = sender[r]
  BY <1>0 DEF TypeOK, SenderStates
<1>6. s = Target(t)'
  BY <1>5, TargetSame DEF s
<1>7. TypeOK'
  <2>1. sender' \in [Senders -> SenderStates]
    <3>1. sender[t] \in SenderStates
      BY DEF TypeOK
    <3>2. [sender[t] EXCEPT !.pc = "set"] \in SenderStates
      BY <3>1 DEF SenderStates
    <3>3. QED
      BY <1>0, <3>2 DEF TypeOK
  <2>2. /\ queue' \in [Sessions -> Seq(Events)]
        /\ queued' \in [Sessions -> Seq(Events)]
    BY <1>0, <1>4, AppendProperties, ZenonT(30) DEF TypeOK
  <2>3. sessOwner' \in [Sessions -> Senders \cup Sessions \cup {Nobody}]
    BY <1>0 DEF TypeOK
  <2>4. QED
    BY <1>0, <2>1, <2>2, <2>3 DEF TypeOK, mapVars, pollVars
<1>8. OneSender'
  <2>1. ASSUME NEW r \in Senders, Busy(r)' PROVE r = t
    BY <1>2, <1>5, <2>1 DEF Busy
  <2>2. /\ listOwner' = t /\ sender'[t].id \in 1..(nextEvent' - 1)
        /\ sender'[t].todo \subseteq alive' /\ sender'[t].todo # {}
    BY <1>0, <1>1, <1>5 DEF OneSender, mapVars
  <2>3. sessOwner'[Target(t)'] = t
    BY <1>0, <1>1, <1>6 DEF TypeOK
  <2>4. \A r \in Senders : Serving(r)' => Busy(r)'
    BY DEF Busy, Serving
  <2>5. QED
    BY <2>1, <2>2, <2>3, <2>4 DEF OneSender
<1>9. Lives' /\ PollSteps'
  <2>1. Lives'
    BY <1>0, <1>1 DEF Lives, mapVars, TypeOK
  <2>2. \A r \in Sessions : poll[r] \in {"locked", "copied"} => r # s
    BY <1>0, DeliveryAssumption DEF PollSteps, s
  <2>3. PollSteps'
    BY <1>0, <2>2 DEF PollSteps, mapVars, pollVars, TypeOK
  <2>4. QED
    BY <2>1, <2>3
<1>10. queued[s] \in Seq(Events) /\ Len(queued[s]) \in Nat
  BY <1>1 DEF TypeOK
<1>11. \A i \in DOMAIN queued'[s] :
          \/ i \in DOMAIN queued[s] /\ queued'[s][i] = queued[s][i]
          \/ queued'[s][i] = e /\ i = Len(queued[s]) + 1
  BY <1>0, <1>1, <1>4, <1>10, AppendProperties DEF TypeOK
<1>12. \A r \in Sessions : r # s => queued'[r] = queued[r]
  BY <1>0 DEF TypeOK
<1>13. \A i \in DOMAIN queued[s] : queued[s][i].id < sender[t].id
  BY <1>0, <1>1 DEF IdsFresh, Serving, s
<1>14. IdsIncrease'
  <2>1. ASSUME NEW i \in DOMAIN queued'[s] PROVE queued'[s][i].id < nextEvent'
    BY <1>0, <1>1, <1>3, <1>4, <1>11 DEF IdsIncrease
  <2>2. ASSUME NEW i \in DOMAIN queued'[s], NEW j \in DOMAIN queued'[s], i < j
        PROVE  queued'[s][i].id < queued'[s][j].id
    <3>1. i \in DOMAIN queued[s]
      BY <1>10, <1>11, <2>2
    <3>2. CASE j \in DOMAIN queued[s] /\ queued'[s][j] = queued[s][j]
      BY <1>1, <1>10, <1>11, <2>2, <3>1, <3>2 DEF IdsIncrease
    <3>3. CASE queued'[s][j] = e
      BY <1>4, <1>10, <1>11, <1>13, <2>2, <3>1, <3>3
    <3>4. QED
      BY <1>11, <3>2, <3>3
  <2>3. QED
    BY <1>0, <1>12, <2>1, <2>2 DEF IdsIncrease
<1>15. IdsFresh'
  BY <1>1, <1>2, <1>5, <1>6, <1>12, <1>0 DEF IdsFresh, Busy, Serving, s
<1>16. NobodyWaits'
  BY <1>2, <1>5 DEF NobodyWaits, Busy
<1>17. FiringEndsWait'
  BY <1>0, <1>1, DeliveryAssumption
  DEF FiringEndsWait, mapVars, pollVars, TypeOK
<1>18. QED
  BY <1>7, <1>8, <1>9, <1>14, <1>15, <1>16, <1>17

\* The sender sets the event of the session, which ends a wait.
LEMMA FireSetStep ==
    ASSUME DeliveryInv, NEW t \in Senders, FireSet(t)
    PROVE  DeliveryInv'
<1> DEFINE s == Target(t)
<1> USE DEF DeliveryInv
<1>0. /\ sender[t].pc = "set"
      /\ eventSet' = [eventSet EXCEPT ![s] = TRUE]
      /\ poll' = [poll EXCEPT ![s] = IF @ = "waiting" THEN "awake" ELSE @]
      /\ sender' = [sender EXCEPT ![t].pc = "reset"]
      /\ UNCHANGED <<sessOwner, mapVars, queue, response, inbox, missed,
                     nextEvent, listOwner, queued>>
  BY DEF FireSet
<1>1. Busy(t) /\ Serving(t) /\ sender[t].todo # {}
  BY <1>0 DEF Busy, Serving, OneSender
<1>2. s \in sender[t].todo /\ s \in Sessions /\ s \in alive
  BY <1>1, TargetIn DEF OneSender
<1>3. \A r \in Senders : r # t => ~Busy(r)
  BY <1>1, AloneBusy
<1> HIDE DEF s
<1>4. /\ sender'[t].pc = "reset" /\ sender'[t].id = sender[t].id
      /\ sender'[t].todo = sender[t].todo
      /\ \A r \in Senders : r # t => sender'[r] = sender[r]
  BY <1>0 DEF TypeOK, SenderStates
<1>5. s = Target(t)'
  BY <1>4, TargetSame DEF s
<1>6. \A r \in Sessions :
         \/ poll'[r] = poll[r]
         \/ poll[r] = "waiting" /\ poll'[r] = "awake"
  BY <1>0, <1>2 DEF TypeOK
<1>7. TypeOK'
  <2>1. sender' \in [Senders -> SenderStates]
    <3> DEFINE q == [sender[t] EXCEPT !.pc = "reset"]
    <3>1. sender \in [Senders -> SenderStates]
      BY DEF TypeOK
    <3> HIDE DEF DeliveryInv
    <3>2. sender[t] \in SenderStates
      BY <3>1
    <3>3. q \in SenderStates
      BY <3>2 DEF SenderStates
    <3>4. sender' = [sender EXCEPT ![t] = q]
      BY <1>0
    <3> HIDE DEF q
    <3>5. QED
      BY <3>1, <3>3, <3>4
  <2>2. poll' \in [Sessions -> PollPcs] /\ eventSet' \in [Sessions -> BOOLEAN]
    BY <1>0 DEF TypeOK, PollPcs
  <2>3. QED
    BY <1>0, <2>1, <2>2 DEF TypeOK, mapVars
<1>8. OneSender'
  BY <1>0, <1>1, <1>3, <1>4, <1>5 DEF OneSender, Busy, Serving, mapVars, s
<1>9. Lives' /\ IdsIncrease'
  BY <1>0 DEF Lives, IdsIncrease, mapVars
<1>10. PollSteps'
  BY <1>0, <1>6 DEF PollSteps, mapVars
<1>11. IdsFresh'
  BY <1>0, <1>1, <1>3, <1>4, <1>5 DEF IdsFresh, Busy, Serving, s
<1>12. NobodyWaits'
  BY <1>0, <1>2, <1>3, <1>4, <1>5 DEF NobodyWaits, Busy, TypeOK
<1>13. FiringEndsWait'
  BY <1>0, <1>6 DEF FiringEndsWait, mapVars
<1>14. QED
  BY <1>7, <1>8, <1>9, <1>10, <1>11, <1>12, <1>13

\* Nobody waits for the session whose mutex the sender gives back.
LEMMA FireResetStep ==
    ASSUME DeliveryInv, NEW t \in Senders, FireReset(t)
    PROVE  DeliveryInv'
<1> DEFINE s == Target(t)
<1> USE DEF DeliveryInv
<1>0. /\ sender[t].pc = "reset"
      /\ eventSet' = [eventSet EXCEPT ![s] = FALSE]
      /\ sessOwner' = [sessOwner EXCEPT ![s] = Nobody]
      /\ sender' = [sender EXCEPT ![t].pc = "next", ![t].todo = @ \ {s}]
      /\ UNCHANGED <<mapVars, queue, pollVars, nextEvent, listOwner, queued>>
  BY DEF FireReset
<1>1. Busy(t) /\ Serving(t) /\ sender[t].todo # {}
  BY <1>0 DEF Busy, Serving, OneSender
<1>2. s \in sender[t].todo /\ s \in Sessions /\ s \in alive /\ sessOwner[s] = t
  BY <1>1, TargetIn DEF OneSender
<1>3. \A r \in Senders : r # t => ~Busy(r)
  BY <1>1, AloneBusy
<1>3a. poll[s] # "waiting"
  BY <1>0 DEF NobodyWaits
<1> HIDE DEF s
<1>4. /\ sender'[t].pc = "next" /\ sender'[t].id = sender[t].id
      /\ sender'[t].todo = sender[t].todo \ {s}
      /\ \A r \in Senders : r # t => sender'[r] = sender[r]
  BY <1>0 DEF TypeOK, SenderStates
<1>5. TypeOK'
  <2>1. sender' \in [Senders -> SenderStates]
    <3>1. sender[t] \in SenderStates
      BY DEF TypeOK
    <3>2. [sender[t] EXCEPT !.pc = "next", !.todo = @ \ {s}] \in SenderStates
      BY <3>1 DEF SenderStates
    <3>3. QED
      BY <1>0, <3>2 DEF TypeOK
  <2>2. eventSet' \in [Sessions -> BOOLEAN]
        /\ sessOwner' \in [Sessions -> Senders \cup Sessions \cup {Nobody}]
    BY <1>0 DEF TypeOK
  <2>3. QED
    BY <1>0, <2>1, <2>2 DEF TypeOK, mapVars, pollVars
<1>6. OneSender'
  <2>1. ASSUME NEW r \in Senders, Busy(r)' PROVE r = t
    BY <1>3, <1>4, <2>1 DEF Busy
  <2>2. /\ listOwner' = t /\ sender'[t].id \in 1..(nextEvent' - 1)
        /\ sender'[t].todo \subseteq alive'
    BY <1>0, <1>1, <1>4 DEF OneSender, mapVars
  <2>3. \A r \in Senders : ~Serving(r)'
    BY <1>3, <1>4 DEF Busy, Serving
  <2>4. QED
    BY <2>1, <2>2, <2>3 DEF OneSender
<1>7. Lives' /\ IdsIncrease'
  BY <1>0 DEF Lives, IdsIncrease, mapVars
<1>8. PollSteps'
  <2>1. \A r \in Sessions : poll[r] \in {"locked", "copied"} => r # s
    BY <1>2, DeliveryAssumption DEF PollSteps
  <2>2. QED
    BY <1>0, <2>1 DEF PollSteps, mapVars, pollVars, TypeOK
<1>9. IdsFresh'
  <2>1. ASSUME NEW r \in Senders, Busy(r)' PROVE r = t
    BY <1>3, <1>4, <2>1 DEF Busy
  <2>2. \A r \in sender[t].todo \ {s} :
            \A i \in DOMAIN queued[r] : queued[r][i].id < sender[t].id
    BY <1>1 DEF IdsFresh, Busy, s
  <2>3. queued' = queued
    BY <1>0
  <2>4. \A r \in sender'[t].todo :
            \A i \in DOMAIN queued'[r] : queued'[r][i].id < sender'[t].id
    BY <1>4, <2>2, <2>3
  <2>5. QED
    BY <2>1, <2>4 DEF IdsFresh
<1>10. NobodyWaits'
  BY <1>3, <1>4 DEF NobodyWaits, Busy
<1>11. FiringEndsWait'
  BY <1>0, <1>2, <1>3a DEF FiringEndsWait, mapVars, pollVars, TypeOK
<1>12. QED
  BY <1>5, <1>6, <1>7, <1>8, <1>9, <1>10, <1>11

\* All sessions are served, and the list mutex is released.
LEMMA FireDoneStep ==
    ASSUME DeliveryInv, NEW t \in Senders, FireDone(t)
    PROVE  DeliveryInv'
<1> USE DEF DeliveryInv, FireDone, mapVars, pollVars
<1>1. \A r \in Senders : sender'[r].pc = "idle"
  <2>1. Busy(t)
    BY DEF Busy
  <2>2. QED
    BY <2>1, AloneBusy DEF Busy, IdleSender, TypeOK
<1>2. TypeOK'
  <2>1. IdleSender \in SenderStates
    BY DeliveryAssumption DEF IdleSender, SenderStates, Kinds
  <2>2. QED
    BY <2>1 DEF TypeOK
<1>3. OneSender' /\ IdsFresh' /\ NobodyWaits'
  BY <1>1 DEF OneSender, IdsFresh, NobodyWaits, Busy, Serving
<1>4. Lives' /\ PollSteps' /\ IdsIncrease' /\ FiringEndsWait'
  BY DEF Lives, PollSteps, IdsIncrease, FiringEndsWait
<1>5. QED
  BY <1>2, <1>3, <1>4

-----------------------------------------------------------------------------
(* The poll's steps. *)

\* A step of the poll of s that leaves the queues and the mutexes alone, and
\* keeps to what PollSteps says.
LEMMA PollGoesOn ==
    ASSUME DeliveryInv, NEW s \in Sessions, NEW pc \in PollPcs,
           poll' = [poll EXCEPT ![s] = pc],
           pc \notin {"locked", "copied"},
           pc \notin {"idle", "sending"} => s \in alive,
           pc # "sending" => response[s] = <<>>,
           pc = "waiting" => ~eventSet[s] /\ missed'[s] = Len(queue[s]),
           missed' \in [Sessions -> Nat],
           \A r \in Sessions : r # s => missed'[r] = missed[r],
           UNCHANGED <<sessOwner, mapVars, queue, eventSet, response, inbox,
                       senderVars, queued>>
    PROVE  DeliveryInv'
<1> USE DEF DeliveryInv, mapVars, senderVars
<1>1. TypeOK'
  BY DEF TypeOK
<1>2. OneSender' /\ IdsFresh' /\ IdsIncrease'
  BY SendersUntouched
<1>3. \A r \in Sessions : r # s => poll'[r] = poll[r]
  BY DEF TypeOK
<1>4. poll'[s] = pc
  BY DEF TypeOK
<1>5. Lives'
  BY DEF Lives
<1>6. PollSteps'
  BY <1>3, <1>4 DEF PollSteps
<1>7. NobodyWaits'
  <2>1. ASSUME NEW t \in Senders, sender[t].pc = "reset"
        PROVE  eventSet[Target(t)] /\ Target(t) \in Sessions
    BY <2>1, TargetIn DEF OneSender, NobodyWaits, Serving
  <2>2. \A t \in Senders : Target(t)' = Target(t)
    BY TargetSame
  <2>3. QED
    BY <1>3, <1>4, <2>1, <2>2 DEF NobodyWaits
<1>8. FiringEndsWait'
  BY <1>3, <1>4 DEF FiringEndsWait
<1>9. QED
  BY <1>1, <1>2, <1>5, <1>6, <1>7, <1>8

\* A poll looks its session up.
LEMMA PollBeginStep ==
    ASSUME DeliveryInv, NEW s \in Sessions, PollBegin(s)
    PROVE  DeliveryInv'
<1>1. response[s] = <<>> /\ missed' \in [Sessions -> Nat]
  BY DEF PollBegin, DeliveryInv, PollSteps, TypeOK
<1>2. QED
  BY <1>1, PollGoesOn DEF PollBegin, PollPcs

\* A poll begins to wait, unless the event is set already.
LEMMA PollEnterWaitStep ==
    ASSUME DeliveryInv, NEW s \in Sessions, PollEnterWait(s)
    PROVE  DeliveryInv'
<1> USE DEF DeliveryInv, PollEnterWait
<1>1. response[s] = <<>> /\ s \in alive
  BY DEF PollSteps
<1>2. queue[s] \in Seq(Events) /\ Len(queue[s]) \in Nat
  BY LenProperties DEF TypeOK
<1>3. /\ missed' \in [Sessions -> Nat] /\ missed'[s] = Len(queue[s])
      /\ \A r \in Sessions : r # s => missed'[r] = missed[r]
  BY <1>2 DEF TypeOK
<1>4. CASE eventSet[s]
  BY <1>1, <1>3, <1>4, PollGoesOn DEF PollPcs
<1>5. CASE ~eventSet[s]
  BY <1>1, <1>3, <1>5, PollGoesOn DEF PollPcs
<1>6. QED
  BY <1>4, <1>5

\* A poll has waited long enough.
LEMMA PollTimeoutStep ==
    ASSUME DeliveryInv, NEW s \in Sessions, PollTimeout(s)
    PROVE  DeliveryInv'
<1>1. response[s] = <<>> /\ s \in alive /\ missed' \in [Sessions -> Nat]
  BY DEF PollTimeout, DeliveryInv, PollSteps, TypeOK
<1>2. QED
  BY <1>1, PollGoesOn DEF PollTimeout, PollPcs

\* What a poll does with its session's mutex does not touch a sender's.
LEMMA PollLockStep ==
    ASSUME DeliveryInv, NEW s \in Sessions, PollLock(s)
    PROVE  DeliveryInv'
<1> USE DEF DeliveryInv, PollLock, mapVars, senderVars
<1>1. \A t \in Senders : Serving(t) => Target(t) # s
  BY DeliveryAssumption DEF OneSender
<1>2. OneSender' /\ IdsFresh' /\ IdsIncrease'
  <2>1. \A t \in Senders : sessOwner'[Target(t)] = sessOwner[Target(t)]
                           \/ ~Serving(t)
    BY <1>1, TargetIn DEF TypeOK, OneSender
  <2>2. QED
    BY <2>1, SendersUntouched
<1>3. TypeOK'
  BY DEF TypeOK, PollPcs
<1>4. Lives' /\ PollSteps'
  BY DEF Lives, PollSteps, TypeOK
<1>5. NobodyWaits'
  BY <1>1, TargetIn, TargetSame DEF NobodyWaits, TypeOK, Serving, OneSender
<1>6. FiringEndsWait'
  BY DEF FiringEndsWait, TypeOK
<1>7. QED
  BY <1>2, <1>3, <1>4, <1>5, <1>6

\* A poll copies the queue under the mutex of its session.
LEMMA PollCopyStep ==
    ASSUME DeliveryInv, NEW s \in Sessions, PollCopy(s)
    PROVE  DeliveryInv'
<1> USE DEF DeliveryInv, PollCopy, mapVars, senderVars
<1>1. OneSender' /\ IdsFresh' /\ IdsIncrease'
  BY SendersUntouched
<1>2. TypeOK'
  BY DEF TypeOK, PollPcs
<1>3. Lives' /\ PollSteps'
  BY DEF Lives, PollSteps, TypeOK
<1>4. NobodyWaits'
  BY TargetIn, TargetSame DEF NobodyWaits, TypeOK, Serving, OneSender
<1>5. FiringEndsWait'
  BY DEF FiringEndsWait, TypeOK
<1>6. QED
  BY <1>1, <1>2, <1>3, <1>4, <1>5

\* A poll empties the queue and unlocks the session.
LEMMA PollFlushStep ==
    ASSUME DeliveryInv, NEW s \in Sessions, PollFlush(s)
    PROVE  DeliveryInv'
<1> USE DEF DeliveryInv, PollFlush, mapVars, senderVars
<1>1. \A t \in Senders : Serving(t) => Target(t) # s
  BY DeliveryAssumption DEF OneSender, PollSteps
<1>2. OneSender' /\ IdsFresh' /\ IdsIncrease'
  <2>1. \A t \in Senders : sessOwner'[Target(t)] = sessOwner[Target(t)]
                           \/ ~Serving(t)
    BY <1>1, TargetIn DEF TypeOK, OneSender
  <2>2. QED
    BY <2>1, SendersUntouched
<1>3. TypeOK'
  BY EmptySeq DEF TypeOK, PollPcs
<1>4. Lives' /\ PollSteps'
  BY DEF Lives, PollSteps, TypeOK
<1>5. NobodyWaits'
  BY <1>1, TargetIn, TargetSame DEF NobodyWaits, TypeOK, Serving, OneSender
<1>6. FiringEndsWait'
  BY DEF FiringEndsWait, TypeOK
<1>7. QED
  BY <1>2, <1>3, <1>4, <1>5, <1>6

\* The answer is sent, or lost.
LEMMA PollAnsweredStep ==
    ASSUME DeliveryInv, NEW s \in Sessions, PollAnswered(s)
    PROVE  DeliveryInv'
<1> USE DEF DeliveryInv, PollAnswered, mapVars, senderVars
<1>1. OneSender' /\ IdsFresh' /\ IdsIncrease'
  BY SendersUntouched
<1>2. TypeOK'
  <2>1. response[s] \in Seq(Events) /\ inbox[s] \in Seq(Events)
    BY DEF TypeOK
  <2>2. inbox[s] \o response[s] \in Seq(Events)
    BY <2>1, ConcatProperties
  <2>3. inbox' \in [Sessions -> Seq(Events)]
    BY <2>2 DEF TypeOK
  <2>4. QED
    BY <2>3, EmptySeq DEF TypeOK, PollPcs
<1>3. Lives' /\ PollSteps'
  BY DEF Lives, PollSteps, TypeOK
<1>4. NobodyWaits'
  BY TargetIn, TargetSame DEF NobodyWaits, TypeOK, Serving, OneSender
<1>5. FiringEndsWait'
  BY DEF FiringEndsWait, TypeOK
<1>6. QED
  BY <1>1, <1>2, <1>3, <1>4, <1>5

\* Every step preserves DeliveryInv.
LEMMA DeliveryStep == DeliveryInv /\ [Next]_vars => DeliveryInv'
<1> SUFFICES ASSUME DeliveryInv, [Next]_vars PROVE DeliveryInv'
  OBVIOUS
<1>1. CASE UNCHANGED vars
  BY <1>1, DeliveryUntouched
<1>2. CASE NewSession
  BY <1>2, NewSessionStep
<1>3. ASSUME NEW s \in Sessions, DropSession(s) \/ PollStep(s)
      PROVE  DeliveryInv'
  BY <1>3, DropSessionStep, PollBeginStep, PollEnterWaitStep, PollTimeoutStep,
     PollLockStep, PollCopyStep, PollFlushStep, PollAnsweredStep DEF PollStep
<1>4. ASSUME NEW t \in Senders, Broadcast(t) \/ Fire(t)
      PROVE  DeliveryInv'
  BY <1>4, BroadcastStep, FireQueueStep, FireSetStep, FireResetStep,
     FireDoneStep DEF Fire
<1>5. ASSUME NEW t \in Senders, NEW s \in Sessions,
             PrivateEvent(t, s) \/ IdentifyOne(t, s)
      PROVE  DeliveryInv'
  BY <1>5, FireToOneStep
<1>6. QED
  BY <1>1, <1>2, <1>3, <1>4, <1>5 DEF Next

\* DeliveryInv holds in every state of the service.
THEOREM DeliveryInvariant == Spec => []DeliveryInv
  BY DeliveryInit, DeliveryStep, PTL DEF Spec

\* The types hold for any number of senders, sessions and events.
THEOREM DeliveryTypes == Spec => []TypeOK
<1>1. DeliveryInv => TypeOK
  BY DEF DeliveryInv
<1>2. QED
  BY <1>1, DeliveryInvariant, PTL

\* However many threads fire at once, a poll that waits is woken by the next
\* event (FireEvent sets and resets the event under the session's mutex).
THEOREM FiringWakesPolls == Spec => []FiringEndsWait
<1>1. DeliveryInv => FiringEndsWait
  BY DEF DeliveryInv
<1>2. QED
  BY <1>1, DeliveryInvariant, PTL

\* Position finds the event with an id that a queue holds.
LEMMA PositionIs ==
    ASSUME NEW q, NEW id \in Ids(q)
    PROVE  Position(q, id) \in DOMAIN q /\ q[Position(q, id)].id = id
<1>1. \E i \in DOMAIN q : q[i].id = id
  BY DEF Ids
<1>2. QED
  BY <1>1 DEF Position

\* However many threads fire at once, and sessions come and go, all clients
\* see events in the order of their ids (FireEventToAllClients).
THEOREM EventsInOneOrder == Spec => []SameOrderEverywhere
<1>1. ASSUME DeliveryInv PROVE SameOrderEverywhere
  <2> SUFFICES ASSUME NEW r \in Sessions, NEW s \in Sessions,
                      NEW a \in Ids(queued[r]) \cap Ids(queued[s]),
                      NEW b \in Ids(queued[r]) \cap Ids(queued[s]),
                      Position(queued[r], a) < Position(queued[r], b)
               PROVE  Position(queued[s], a) < Position(queued[s], b)
    BY DEF SameOrderEverywhere
  <2> DEFINE ra == Position(queued[r], a)
             rb == Position(queued[r], b)
             sa == Position(queued[s], a)
             sb == Position(queued[s], b)
  <2>1. /\ ra \in DOMAIN queued[r] /\ queued[r][ra].id = a
        /\ rb \in DOMAIN queued[r] /\ queued[r][rb].id = b
        /\ sa \in DOMAIN queued[s] /\ queued[s][sa].id = a
        /\ sb \in DOMAIN queued[s] /\ queued[s][sb].id = b
    BY PositionIs
  <2>2. /\ queued[r] \in Seq(Events) /\ queued[s] \in Seq(Events)
    BY <1>1 DEF DeliveryInv, TypeOK
  <2> HIDE DEF ra, rb, sa, sb
  <2>3. sa \in Nat /\ sb \in Nat
    BY <2>1, <2>2, LenProperties
  <2>4. a \in Int /\ b \in Int
    <3>1. queued[s][sa] \in Events /\ queued[s][sb] \in Events
      BY <2>1, <2>2, LenProperties, ElementOfSeq
    <3>2. QED
      BY <2>1, <3>1 DEF Events, EventIds
  <2>5. a < b
    <3>1. ra < rb
      BY DEF ra, rb
    <3>2. QED
      BY <1>1, <2>1, <3>1 DEF DeliveryInv, IdsIncrease
  <2>6. ~(sb < sa)
    <3>1. sb < sa => b < a
      BY <1>1, <2>1 DEF DeliveryInv, IdsIncrease
    <3>2. QED
      BY <2>4, <2>5, <3>1
  <2>7. sa # sb
    BY <2>1, <2>4, <2>5
  <2>8. QED
    BY <2>3, <2>6, <2>7 DEF sa, sb
<1>2. QED
  BY <1>1, DeliveryInvariant, PTL

-----------------------------------------------------------------------------
(* The service implements EventChannel. *)

\* Until an answer is copied what is on its way to s is its queue behind what
\* is being sent.
LEMMA OnTheWayIs ==
    ASSUME DeliveryInv, NEW s \in Sessions
    PROVE  /\ response[s] \in Seq(Events) /\ queue[s] \in Seq(Events)
           /\ poll[s] # "copied" => OnTheWay(s) = response[s] \o queue[s]
           /\ poll[s] = "copied" => OnTheWay(s) = response[s]
<1>1. response[s] \in Seq(Events) /\ queue[s] \in Seq(Events)
  BY DEF DeliveryInv, TypeOK
<1>2. s \notin alive => response[s] \o queue[s] = response[s]
  BY <1>1, ConcatEmptySeq DEF DeliveryInv, Lives
<1>3. QED
  BY <1>1, <1>2 DEF OnTheWay

\* The channels are empty at first.
LEMMA ChannelInit == Init => Channel!Init
<1> SUFFICES ASSUME Init PROVE Channel!Init
  OBVIOUS
<1>1. \A s \in Sessions : OnTheWay(s) = <<>>
  BY DEF Init, OnTheWay
<1>2. QED
  BY <1>1 DEF Init, Channel!Init

\* A step that leaves what is on its way to each session is a stutter.
LEMMA ChannelStutters ==
    ASSUME \A s \in Sessions : OnTheWay(s)' = OnTheWay(s), UNCHANGED inbox
    PROVE  UNCHANGED Channel!vars
  BY DEF Channel!vars

\* One session's events are appended to, received or discarded.
LEMMA ChannelMoves ==
    ASSUME NEW s \in Sessions, NEW q, OnTheWay(s)' = q,
           \A r \in Sessions : r # s => OnTheWay(r)' = OnTheWay(r)
    PROVE  [r \in Sessions |-> OnTheWay(r)]'
             = [[r \in Sessions |-> OnTheWay(r)] EXCEPT ![s] = q]
  OBVIOUS

\* Steps that touch neither the queues nor the answers.
LEMMA ChannelUntouched ==
    ASSUME UNCHANGED <<queue, response, inbox, alive>>,
           \A s \in Sessions : poll'[s] = "copied" <=> poll[s] = "copied"
    PROVE  UNCHANGED Channel!vars
<1>1. \A s \in Sessions : OnTheWay(s)' = OnTheWay(s)
  BY DEF OnTheWay
<1>2. QED
  BY <1>1, ChannelStutters

\* A new session has nothing on its way.
LEMMA ChannelNewSession ==
    ASSUME DeliveryInv, DeliveryInv', NewSession
    PROVE  UNCHANGED Channel!vars
<1> USE DEF NewSession, pollVars
<1>1. ASSUME NEW s \in Sessions PROVE OnTheWay(s)' = OnTheWay(s)
  <2>1. CASE poll[s] = "copied"
    BY <2>1 DEF OnTheWay
  <2>2. CASE poll[s] # "copied"
    <3>1. OnTheWay(s) = response[s] \o queue[s]
      BY <2>2, OnTheWayIs
    <3>2. s \notin alive' => response[s] \o queue[s] = response[s]
      <4>1. s \notin alive' => queue[s] = <<>>
        BY DEF DeliveryInv, Lives
      <4>2. QED
        BY <4>1, OnTheWayIs, ConcatEmptySeq
    <3>3. QED
      BY <2>2, <3>1, <3>2 DEF OnTheWay
  <2>3. QED
    BY <2>1, <2>2
<1>2. QED
  BY <1>1, ChannelStutters

\* What is queued for a deleted session is discarded, what is being sent not.
LEMMA ChannelDropSession ==
    ASSUME DeliveryInv, DeliveryInv', NEW s \in Sessions, DropSession(s)
    PROVE  Channel!Next
<1> USE DEF DropSession, pollVars
<1> DEFINE pending == [r \in Sessions |-> OnTheWay(r)]
           n == Len(response[s])
<1>1. /\ response[s] \in Seq(Events) /\ queue[s] \in Seq(Events)
      /\ OnTheWay(s) = response[s] \o queue[s]
  BY OnTheWayIs
<1>2. OnTheWay(s)' = response[s]
  BY DEF OnTheWay
<1>3. \A a, b \in Seq(Events) :
         SubSeq(a \o b, 1, Len(a)) = a /\ Len(a) \in 0..Len(a \o b)
  BY ConcatApart
<1>4. SubSeq(OnTheWay(s), 1, n) = response[s] /\ n \in 0..Len(OnTheWay(s))
  BY <1>1, <1>3, Zenon
<1>5. \A r \in Sessions : r # s => OnTheWay(r)' = OnTheWay(r)
  BY DEF OnTheWay, DeliveryInv, TypeOK
<1>6. pending' = [pending EXCEPT ![s] = SubSeq(OnTheWay(s), 1, n)]
  BY <1>2, <1>4, <1>5, ChannelMoves
<1>7. pending[s] = OnTheWay(s)
  OBVIOUS
<1>8. Channel!Close(s, n)
  BY <1>6, <1>7 DEF Channel!Close
<1>9. n \in 0..Len(pending[s])
  BY <1>4, <1>7
<1>10. QED
  BY <1>8, <1>9 DEF Channel!Next

\* Writing an event into the queue of s queues it.
LEMMA ChannelQueues ==
    ASSUME DeliveryInv, NEW s \in Sessions, NEW e \in Events,
           s \in alive, poll[s] # "copied",
           queue' = [queue EXCEPT ![s] = Append(@, e)],
           UNCHANGED <<mapVars, pollVars>>
    PROVE  Channel!Next
<1> DEFINE pending == [r \in Sessions |-> OnTheWay(r)]
<1> USE DEF mapVars, pollVars
<1>1. /\ response[s] \in Seq(Events) /\ queue[s] \in Seq(Events)
      /\ OnTheWay(s) = response[s] \o queue[s]
  BY OnTheWayIs
<1>2. OnTheWay(s)' = response[s] \o Append(queue[s], e)
  BY DEF OnTheWay, DeliveryInv, TypeOK
<1>3. response[s] \o Append(queue[s], e) = Append(OnTheWay(s), e)
  <2>1. \A a, b \in Seq(Events) : a \o Append(b, e) = Append(a \o b, e)
    BY AppendBehind
  <2>2. response[s] \o Append(queue[s], e) = Append(response[s] \o queue[s], e)
    BY <1>1, <2>1, Zenon
  <2>3. QED
    BY <1>1, <2>2, Zenon
<1>4. \A r \in Sessions : r # s => OnTheWay(r)' = OnTheWay(r)
  BY DEF OnTheWay, DeliveryInv, TypeOK
<1>5. pending' = [pending EXCEPT ![s] = Append(OnTheWay(s), e)]
  BY <1>2, <1>3, <1>4, ChannelMoves
<1>6. pending[s] = OnTheWay(s)
  OBVIOUS
<1>7. Channel!Queue(s, e)
  BY <1>5, <1>6 DEF Channel!Queue
<1>8. QED
  BY <1>7 DEF Channel!Next

\* Queueing an event is sending it on the channel.
LEMMA ChannelFireQueue ==
    ASSUME DeliveryInv, NEW t \in Senders, FireQueue(t)
    PROVE  Channel!Next
<1>1. sender[t].pc = "next" /\ sender[t].todo # {} /\ Busy(t)
  BY DEF FireQueue, Busy
<1>2. Target(t) \in Sessions /\ Target(t) \in alive
  BY <1>1, TargetIn DEF DeliveryInv, OneSender
<1>3. sender[t].id \in EventIds
  BY <1>1, DeliveryAssumption DEF DeliveryInv, OneSender, EventIds, TypeOK
<1>4. EventOf(t) \in Events
  BY <1>3, EventIs
<1>5. poll[Target(t)] # "copied"
  BY <1>2, DeliveryAssumption DEF FireQueue, DeliveryInv, PollSteps
<1>6. PICK s \in Sessions, e \in Events : s = Target(t) /\ e = EventOf(t)
  BY <1>2, <1>4
<1>7. /\ queue' = [queue EXCEPT ![s] = Append(@, e)]
      /\ UNCHANGED <<mapVars, pollVars>>
  BY <1>6 DEF FireQueue, EventOf
<1>8. QED
  BY <1>2, <1>5, <1>6, <1>7, ChannelQueues

\* Copying the queue into the answer, and flushing it, moves no event.
LEMMA ChannelPollCopy ==
    ASSUME DeliveryInv, DeliveryInv', NEW s \in Sessions,
           PollCopy(s) \/ PollFlush(s)
    PROVE  UNCHANGED Channel!vars
<1> USE DEF mapVars
<1>1. \A r \in Sessions : r # s => OnTheWay(r)' = OnTheWay(r)
  BY ZenonT(30) DEF PollCopy, PollFlush, OnTheWay, DeliveryInv, TypeOK
<1>2. response[s] \in Seq(Events) /\ queue[s] \in Seq(Events)
  BY OnTheWayIs
<1>3. CASE PollCopy(s)
  <2>1. OnTheWay(s) = <<>> \o queue[s]
    BY <1>3 DEF PollCopy, OnTheWay, DeliveryInv, PollSteps
  <2>2. OnTheWay(s)' = queue[s]
    BY <1>3 DEF PollCopy, OnTheWay, DeliveryInv, TypeOK
  <2>3. OnTheWay(s)' = OnTheWay(s)
    BY <1>2, <2>1, <2>2, ConcatEmptySeq
  <2>4. QED
    BY <1>1, <1>3, <2>3, ChannelStutters DEF PollCopy
<1>4. CASE PollFlush(s)
  <2>1. OnTheWay(s) = response[s]
    BY <1>4 DEF PollFlush, OnTheWay
  <2>2. OnTheWay(s)' = response[s] \o <<>>
    BY <1>4 DEF PollFlush, OnTheWay, DeliveryInv, TypeOK, PollSteps
  <2>3. OnTheWay(s)' = OnTheWay(s)
    BY <1>2, <2>1, <2>2, ConcatEmptySeq
  <2>4. QED
    BY <1>1, <1>4, <2>3, ChannelStutters DEF PollFlush
<1>5. QED
  BY <1>3, <1>4

\* An answer takes along what it carries; an empty one nothing.
LEMMA ChannelPollAnswered ==
    ASSUME DeliveryInv, NEW s \in Sessions, PollAnswered(s)
    PROVE  Channel!Next \/ UNCHANGED Channel!vars
<1> DEFINE pending == [r \in Sessions |-> OnTheWay(r)]
           n == Len(response[s])
<1>0. /\ poll[s] = "sending"
      /\ response' = [response EXCEPT ![s] = <<>>]
      /\ poll' = [poll EXCEPT ![s] = "idle"]
      /\ \/ inbox' = [inbox EXCEPT ![s] = @ \o response[s]]
         \/ Lossy /\ UNCHANGED inbox
      /\ UNCHANGED <<queue, alive>>
  BY DEF PollAnswered, mapVars
<1>1. /\ response[s] \in Seq(Events) /\ queue[s] \in Seq(Events)
      /\ inbox[s] \in Seq(Events) /\ inbox \in [Sessions -> Seq(Events)]
      /\ OnTheWay(s) = response[s] \o queue[s]
  BY <1>0, OnTheWayIs DEF DeliveryInv, TypeOK
<1>2. OnTheWay(s)' = queue[s]
  <2>1. OnTheWay(s)' = IF s \notin alive THEN <<>> ELSE <<>> \o queue[s]
    BY <1>0 DEF OnTheWay, DeliveryInv, TypeOK
  <2>2. s \notin alive => queue[s] = <<>>
    BY DEF DeliveryInv, Lives
  <2>3. <<>> \o queue[s] = queue[s]
    BY <1>1, ConcatEmptySeq
  <2>4. QED
    BY <2>1, <2>2, <2>3
<1>3. \A r \in Sessions : r # s => OnTheWay(r)' = OnTheWay(r)
  BY <1>0 DEF OnTheWay, DeliveryInv, TypeOK
<1>4. CASE response[s] = <<>>
  <2>1. OnTheWay(s)' = OnTheWay(s)
    BY <1>1, <1>2, <1>4, ConcatEmptySeq
  <2>2. inbox[s] \o response[s] = inbox[s]
    BY <1>1, <1>4, ConcatEmptySeq
  <2>3. UNCHANGED inbox
    BY <1>0, <1>1, <2>2
  <2>4. QED
    BY <1>3, <2>1, <2>3, ChannelStutters
<1>5. CASE response[s] # <<>>
  <2>1. /\ SubSeq(response[s] \o queue[s], 1, n) = response[s]
        /\ SubSeq(response[s] \o queue[s], n + 1,
                  Len(response[s] \o queue[s])) = queue[s]
        /\ n \in 0..Len(response[s] \o queue[s])
    <3>1. response[s] \in Seq(Events) /\ queue[s] \in Seq(Events)
      BY <1>1
    <3>2. QED
      BY <3>1, ConcatApart
  <2>2. /\ SubSeq(OnTheWay(s), 1, n) = response[s]
        /\ SubSeq(OnTheWay(s), n + 1, Len(OnTheWay(s))) = queue[s]
        /\ n \in 0..Len(OnTheWay(s))
    <3>1. OnTheWay(s) = response[s] \o queue[s]
      BY <1>1
    <3>2. QED
      BY <2>1, <3>1
  <2>3. n \in 1..Len(OnTheWay(s))
    <3>1. n \in Nat \ {0}
      BY <1>1, <1>5, EmptySeq
    <3>2. QED
      BY <2>2, <3>1
  <2>4. pending[s] = OnTheWay(s)
    OBVIOUS
  <2>5. pending' = [pending EXCEPT ![s] = SubSeq(OnTheWay(s), n + 1,
                                                 Len(OnTheWay(s)))]
    BY <1>2, <1>3, <2>2, ChannelMoves
  <2>6. \/ inbox' = [inbox EXCEPT ![s] = @ \o SubSeq(pending[s], 1, n)]
        \/ Lossy /\ UNCHANGED inbox
    BY <1>0, <2>2, <2>4
  <2>7. Channel!Receive(s, n)
    BY <2>4, <2>5, <2>6 DEF Channel!Receive
  <2>8. n \in 1..Len(pending[s])
    BY <2>3, <2>4
  <2>9. QED
    BY <2>7, <2>8 DEF Channel!Next
<1>6. QED
  BY <1>4, <1>5

\* Every step of the delivery is one of the channels or none.
LEMMA ChannelStep ==
    ASSUME DeliveryInv, DeliveryInv', [Next]_vars
    PROVE  [Channel!Next]_(Channel!vars)
<1>1. CASE UNCHANGED vars
  BY <1>1, ChannelUntouched DEF vars, mapVars
<1>2. CASE NewSession
  BY <1>2, ChannelNewSession
<1>3. ASSUME NEW s \in Sessions, DropSession(s)
      PROVE  Channel!Next
  BY <1>3, ChannelDropSession
<1>4. ASSUME NEW t \in Senders, FireQueue(t)
      PROVE  Channel!Next
  BY <1>4, ChannelFireQueue
<1>5. ASSUME NEW s \in Sessions, PollCopy(s) \/ PollFlush(s)
      PROVE  UNCHANGED Channel!vars
  BY <1>5, ChannelPollCopy
<1>6. ASSUME NEW s \in Sessions, PollAnswered(s)
      PROVE  Channel!Next \/ UNCHANGED Channel!vars
  BY <1>6, ChannelPollAnswered
<1>7. ASSUME NEW t \in Senders,
             \/ Broadcast(t) \/ FireSet(t) \/ FireReset(t) \/ FireDone(t)
             \/ \E s \in Sessions : PrivateEvent(t, s) \/ IdentifyOne(t, s)
      PROVE  UNCHANGED Channel!vars
  <2>1. UNCHANGED <<queue, response, inbox, alive>>
    BY <1>7 DEF Broadcast, FireSet, FireReset, FireDone, PrivateEvent,
                IdentifyOne, FireToOne, mapVars, pollVars
  <2>2. \A s \in Sessions : poll'[s] = "copied" <=> poll[s] = "copied"
    <3>1. UNCHANGED poll
          \/ poll' = [poll EXCEPT ![Target(t)] =
                         IF @ = "waiting" THEN "awake" ELSE @]
      BY <1>7 DEF Broadcast, FireSet, FireReset, FireDone, PrivateEvent,
                  IdentifyOne, FireToOne, pollVars
    <3>2. poll \in [Sessions -> PollPcs]
      BY DEF DeliveryInv, TypeOK
    <3>3. QED
      BY <3>1, <3>2
  <2>3. QED
    BY <2>1, <2>2, ChannelUntouched
<1>8. ASSUME NEW s \in Sessions,
             PollBegin(s) \/ PollEnterWait(s) \/ PollTimeout(s) \/ PollLock(s)
      PROVE  UNCHANGED Channel!vars
  <2>1. UNCHANGED <<queue, response, inbox, alive>>
    BY <1>8 DEF PollBegin, PollEnterWait, PollTimeout, PollLock, mapVars
  <2>2. \A r \in Sessions : poll'[r] = "copied" <=> poll[r] = "copied"
    BY <1>8 DEF PollBegin, PollEnterWait, PollTimeout, PollLock, DeliveryInv,
                TypeOK
  <2>3. QED
    BY <2>1, <2>2, ChannelUntouched
<1>9. QED
  BY <1>1, <1>2, <1>3, <1>4, <1>5, <1>6, <1>7, <1>8
  DEF Next, PollStep, Fire

\* For any number of senders, sessions and events, each client receives the
\* events that were queued for it in order and once, and only a lost answer or
\* the end of its session loses any (Handle_EventPolling, CEventQueue).
THEOREM DeliveryImplementsChannel == Spec => ChannelHolds
<1>1. Spec => [][Channel!Next]_(Channel!vars)
  <2>1. DeliveryInv /\ DeliveryInv' /\ [Next]_vars
          => [Channel!Next]_(Channel!vars)
    BY ChannelStep
  <2>2. Spec => [][Next]_vars
    BY PTL DEF Spec
  <2>3. QED
    BY <2>1, <2>2, DeliveryInvariant, PTL
<1>2. Spec => Channel!Init
  BY ChannelInit DEF Spec
<1>3. QED
  BY <1>1, <1>2, PTL DEF ChannelHolds, Channel!Spec

-----------------------------------------------------------------------------
(* Roles *)

\* Session s was sent event id, was sent it by a sender that names a primary,
\* and was sent it as primary.
Sent(s, id) == \E i \in DOMAIN queued[s] : queued[s][i].id = id
SentRanked(s, id) ==
    \E i \in DOMAIN queued[s] :
        queued[s][i].id = id /\ queued[s][i].kind # "identify"
SentPrimary(s, id) ==
    \E i \in DOMAIN queued[s] :
        queued[s][i].id = id /\ queued[s][i].role = "primary"

\* The sessions sender t has not yet sent its event to.
Ahead(t) ==
    IF Serving(t) THEN sender[t].todo \ {Target(t)} ELSE sender[t].todo

\* Among the clients of a class that were sent an event at most one is primary,
\* and one is, unless the event is IdentifyClient's.
OnePrimary ==
    /\ \A r, s \in Sessions, id \in EventIds :
          /\ SentPrimary(r, id) /\ SentPrimary(s, id)
          /\ ClassOf[r] = ClassOf[s]
          => r = s
    /\ \A s \in Sessions, id \in EventIds :
          SentRanked(s, id) => \E r \in Sessions : /\ ClassOf[r] = ClassOf[s]
                                                   /\ SentPrimary(r, id)

\* A broadcast has reached the sessions up to the one it is at, in the order
\* of their ids, and none behind it; any other event goes to one session.
FollowsMap(t) ==
    IF sender[t].kind = "broadcast"
    THEN /\ \A r \in Sessions :
               /\ Sent(r, sender[t].id) <=> r \in alive \ Ahead(t)
               /\ Sent(r, sender[t].id) => SentRanked(r, sender[t].id)
         /\ \A r \in alive \ Ahead(t), s \in Ahead(t) : r < s
    ELSE /\ \A r, s \in sender[t].todo : r = s
         /\ \A r \in Sessions : Sent(r, sender[t].id) => Ahead(t) = {}
InMapOrder == \A t \in Senders : Busy(t) => FollowsMap(t)

\* Inductive, with DeliveryInv.
RolesInv == OnePrimary /\ InMapOrder

\* Nobody fires at first.
LEMMA RolesInit == Init => RolesInv
<1> SUFFICES ASSUME Init PROVE RolesInv
  OBVIOUS
<1>1. \A s \in Sessions, id \in EventIds :
         ~Sent(s, id) /\ ~SentRanked(s, id) /\ ~SentPrimary(s, id)
  BY DEF Init, Sent, SentRanked, SentPrimary
<1>2. \A t \in Senders : ~Busy(t)
  BY DEF Init, Busy, IdleSender
<1>3. QED
  BY <1>1, <1>2 DEF RolesInv, OnePrimary, InMapOrder

\* What a sender has sent and has ahead of it changes only where it says so.
LEMMA RolesKept ==
    ASSUME RolesInv, UNCHANGED queued,
           \A t \in Senders : Busy(t)' =>
              /\ Busy(t) /\ Ahead(t)' = Ahead(t) /\ UNCHANGED alive
              /\ sender'[t].id = sender[t].id
              /\ sender'[t].kind = sender[t].kind
              /\ sender'[t].todo \subseteq sender[t].todo
    PROVE  RolesInv'
<1>1. \A s, id : /\ Sent(s, id)' = Sent(s, id)
                 /\ SentRanked(s, id)' = SentRanked(s, id)
  BY DEF Sent, SentRanked
<1>2. \A s, id : SentPrimary(s, id)' = SentPrimary(s, id)
  BY DEF SentPrimary
<1>3. OnePrimary'
  BY <1>1, <1>2 DEF RolesInv, OnePrimary
<1>4. InMapOrder'
  <2> SUFFICES ASSUME NEW t \in Senders, Busy(t)'
               PROVE  FollowsMap(t)'
    BY DEF InMapOrder
  <2>1. /\ Busy(t) /\ Ahead(t)' = Ahead(t) /\ UNCHANGED alive
        /\ sender'[t].id = sender[t].id
        /\ sender'[t].kind = sender[t].kind
        /\ sender'[t].todo \subseteq sender[t].todo
    OBVIOUS
  <2>2. FollowsMap(t)
    BY <2>1 DEF RolesInv, InMapOrder
  <2>3. QED
    BY <1>1, <2>1, <2>2 DEF FollowsMap
<1>5. QED
  BY <1>3, <1>4 DEF RolesInv

\* An event that nobody was sent is fired at the sessions of todo, all there
\* are or one.
LEMMA RolesBegin ==
    ASSUME DeliveryInv, RolesInv, NEW t \in Senders, NEW todo \in SUBSET alive,
           NEW kind \in Kinds, listOwner = Nobody, nextEvent \in EventIds,
           sender' = [sender EXCEPT ![t] = [pc |-> "next", id |-> nextEvent,
                                            todo |-> todo, kind |-> kind]],
           UNCHANGED <<alive, queued>>,
           IF kind = "broadcast" THEN todo = alive ELSE \A r, s \in todo : r = s
    PROVE  RolesInv'
<1>1. \A r \in Senders : ~Busy(r)
  BY DeliveryAssumption DEF DeliveryInv, OneSender
<1>2. /\ sender'[t].pc = "next" /\ sender'[t].id = nextEvent
      /\ sender'[t].todo = todo /\ sender'[t].kind = kind
      /\ \A r \in Senders : r # t => sender'[r] = sender[r]
  BY DEF DeliveryInv, TypeOK
<1>3. \A s, id : /\ Sent(s, id)' = Sent(s, id)
                 /\ SentRanked(s, id)' = SentRanked(s, id)
  BY DEF Sent, SentRanked
<1>4. \A s, id : SentPrimary(s, id)' = SentPrimary(s, id)
  BY DEF SentPrimary
<1>5. OnePrimary'
  BY <1>3, <1>4 DEF RolesInv, OnePrimary
<1>6. \A s \in Sessions : ~Sent(s, nextEvent)
  <2> SUFFICES ASSUME NEW s \in Sessions, NEW i \in DOMAIN queued[s],
                      queued[s][i].id = nextEvent
               PROVE  FALSE
    BY DEF Sent
  <2>1. nextEvent < nextEvent
    BY DEF DeliveryInv, IdsIncrease
  <2>2. QED
    BY <2>1 DEF EventIds
<1>7. Ahead(t)' = todo
  BY <1>2 DEF Ahead, Serving
<1>8. FollowsMap(t)'
  BY <1>2, <1>3, <1>6, <1>7 DEF FollowsMap
<1>9. InMapOrder'
  BY <1>1, <1>2, <1>8 DEF InMapOrder, Busy
<1>10. QED
  BY <1>5, <1>9 DEF RolesInv

\* The queue of the session that is served grows by the event.
LEMMA SentGrows ==
    ASSUME DeliveryInv, NEW t \in Senders, FireQueue(t)
    PROVE  /\ \A s \in Sessions, id \in EventIds :
                 Sent(s, id)' <=>
                    Sent(s, id) \/ (s = Target(t) /\ id = sender[t].id)
           /\ \A s \in Sessions, id \in EventIds :
                 SentRanked(s, id)' <=>
                    \/ SentRanked(s, id)
                    \/ /\ s = Target(t) /\ id = sender[t].id
                       /\ sender[t].kind # "identify"
           /\ \A s \in Sessions, id \in EventIds :
                 SentPrimary(s, id)' <=>
                    \/ SentPrimary(s, id)
                    \/ /\ s = Target(t) /\ id = sender[t].id
                       /\ EventOf(t).role = "primary"
<1> DEFINE s == Target(t)
           e == EventOf(t)
<1>1. /\ sender[t].pc = "next" /\ sender[t].todo # {}
      /\ queued' = [queued EXCEPT ![s] = Append(@, e)]
  BY DEF FireQueue, EventOf
<1>2. s \in Sessions /\ Busy(t)
  BY <1>1, TargetIn DEF DeliveryInv, OneSender, Busy
<1>3. sender[t].id \in EventIds
  BY <1>2, DeliveryAssumption DEF DeliveryInv, OneSender, EventIds, TypeOK
<1>4. e \in Events /\ e.id = sender[t].id /\ e.kind = sender[t].kind
  BY <1>3, EventIs DEF EventOf
<1>5. queued[s] \in Seq(Events) /\ Len(queued[s]) \in Nat
  BY <1>2 DEF DeliveryInv, TypeOK
<1> HIDE DEF s, e
<1>6. queued'[s] = Append(queued[s], e)
  BY <1>1, <1>2 DEF DeliveryInv, TypeOK
<1>7. \A r \in Sessions : r # s => queued'[r] = queued[r]
  BY <1>1 DEF DeliveryInv, TypeOK
<1>8. /\ DOMAIN queued'[s] = DOMAIN queued[s] \cup {Len(queued[s]) + 1}
      /\ \A i \in DOMAIN queued[s] : queued'[s][i] = queued[s][i]
      /\ queued'[s][Len(queued[s]) + 1] = e
  BY <1>4, <1>5, <1>6, AppendProperties
<1>9. ASSUME NEW r \in Sessions, r = s, NEW id
      PROVE  /\ Sent(r, id)' <=> Sent(r, id) \/ id = sender[t].id
             /\ SentRanked(r, id)' <=>
                   \/ SentRanked(r, id)
                   \/ id = sender[t].id /\ sender[t].kind # "identify"
             /\ SentPrimary(r, id)' <=>
                   \/ SentPrimary(r, id)
                   \/ id = sender[t].id /\ e.role = "primary"
  BY <1>4, <1>8, <1>9 DEF Sent, SentRanked, SentPrimary
<1>10. ASSUME NEW r \in Sessions, r # s, NEW id
       PROVE  /\ Sent(r, id)' <=> Sent(r, id)
              /\ SentRanked(r, id)' <=> SentRanked(r, id)
              /\ SentPrimary(r, id)' <=> SentPrimary(r, id)
  BY <1>7, <1>10 DEF Sent, SentRanked, SentPrimary
<1>11. ASSUME NEW r \in Sessions, NEW id \in EventIds
       PROVE  /\ Sent(r, id)' <=> Sent(r, id) \/ (r = s /\ id = sender[t].id)
              /\ SentRanked(r, id)' <=>
                    \/ SentRanked(r, id)
                    \/ /\ r = s /\ id = sender[t].id
                       /\ sender[t].kind # "identify"
              /\ SentPrimary(r, id)' <=>
                    \/ SentPrimary(r, id)
                    \/ r = s /\ id = sender[t].id /\ e.role = "primary"
  <2>1. CASE r = s
    BY <1>9, <2>1
  <2>2. CASE r # s
    BY <1>10, <2>2
  <2>3. QED
    BY <2>1, <2>2
<1>12. QED
  BY <1>11 DEF s, e

\* The session that is served is primary unless one of its class comes before
\* it in the map, and then that one was served before.
LEMMA RolesQueue ==
    ASSUME DeliveryInv, RolesInv, NEW t \in Senders, FireQueue(t)
    PROVE  RolesInv'
<1> DEFINE s == Target(t)
           id0 == sender[t].id
           role == EventOf(t).role
<1>1. /\ sender[t].pc = "next" /\ sender[t].todo # {} /\ UNCHANGED alive
      /\ sender' = [sender EXCEPT ![t].pc = "set"]
  BY DEF FireQueue, mapVars
<1>2. /\ Busy(t) /\ s \in sender[t].todo /\ s \in Sessions /\ s \in alive
      /\ \A r \in sender[t].todo : s <= r
  BY <1>1, TargetIn DEF DeliveryInv, OneSender, Busy
<1>3. \A r \in Senders : r # t => ~Busy(r)
  BY <1>2, AloneBusy DEF DeliveryInv
<1>4. /\ sender'[t].pc = "set" /\ sender'[t].id = id0
      /\ sender'[t].todo = sender[t].todo
      /\ sender'[t].kind = sender[t].kind
      /\ \A r \in Senders : r # t => sender'[r] = sender[r]
  BY <1>1 DEF DeliveryInv, TypeOK, SenderStates
<1>5. id0 \in EventIds
  BY <1>2, DeliveryAssumption DEF DeliveryInv, OneSender, EventIds, TypeOK
<1>6. Ahead(t) = sender[t].todo
  BY <1>1 DEF Ahead, Serving
<1>7. Ahead(t)' = sender[t].todo \ {s}
  BY <1>4, TargetSame DEF Ahead, Serving
<1>8. FollowsMap(t)
  BY <1>2 DEF RolesInv, InMapOrder
<1>9. \A r, id : SentPrimary(r, id) => Sent(r, id)
  BY DEF Sent, SentPrimary
<1>10. ~Sent(s, id0)
  BY <1>2, <1>6, <1>8 DEF FollowsMap
<1>11. \A r \in Sessions : Sent(r, id0) =>
          /\ sender[t].kind = "broadcast" /\ r \in alive /\ r < s
          /\ r \notin sender[t].todo
  BY <1>1, <1>2, <1>6, <1>8 DEF FollowsMap
<1>12. role = IF sender[t].kind = "private" THEN "primary"
              ELSE GetClientRole(s)
  BY DEF EventOf
<1>13. /\ \A r \in Sessions, id \in EventIds :
             Sent(r, id)' <=> Sent(r, id) \/ (r = s /\ id = id0)
       /\ \A r \in Sessions, id \in EventIds :
             SentRanked(r, id)' <=>
                \/ SentRanked(r, id)
                \/ r = s /\ id = id0 /\ sender[t].kind # "identify"
       /\ \A r \in Sessions, id \in EventIds :
             SentPrimary(r, id)' <=>
                \/ SentPrimary(r, id)
                \/ r = s /\ id = id0 /\ role = "primary"
  BY SentGrows
<1> HIDE DEF s, id0, role
<1>14. \A r \in alive :
          r < s /\ sender[t].kind = "broadcast" => SentRanked(r, id0)
  <2>1. alive \subseteq Sessions /\ Sessions \subseteq Nat
    BY DeliveryAssumption DEF DeliveryInv, TypeOK, Sessions
  <2>2. \A r \in alive : r < s => r \notin sender[t].todo
    BY <1>2, <2>1
  <2>3. QED
    BY <1>6, <1>8, <2>1, <2>2 DEF FollowsMap, id0
<1>15. ASSUME NEW r \in Sessions, SentPrimary(r, id0), role = "primary"
       PROVE  ClassOf[r] # ClassOf[s]
  BY <1>9, <1>11, <1>12, <1>15 DEF GetClientRole
<1>16. ASSUME role # "primary", sender[t].kind # "identify"
       PROVE  \E r \in Sessions : ClassOf[r] = ClassOf[s] /\ SentPrimary(r, id0)
  <2>1. PICK r \in alive : ClassOf[r] = ClassOf[s] /\ r < s
    BY <1>12, <1>16 DEF GetClientRole
  <2>2. sender[t].kind = "broadcast"
    BY <1>12, <1>16 DEF DeliveryInv, TypeOK, SenderStates, Kinds
  <2>3. r \in Sessions /\ SentRanked(r, id0)
    BY <1>14, <2>1, <2>2 DEF DeliveryInv, TypeOK
  <2>4. QED
    BY <1>5, <2>1, <2>3 DEF RolesInv, OnePrimary
<1>17. OnePrimary'
  <2>1. ASSUME NEW r \in Sessions, NEW q \in Sessions, NEW id \in EventIds,
               SentPrimary(r, id)', SentPrimary(q, id)',
               ClassOf[r] = ClassOf[q]
        PROVE  r = q
    <3>1. CASE SentPrimary(r, id) /\ SentPrimary(q, id)
      BY <2>1, <3>1 DEF RolesInv, OnePrimary
    <3>2. CASE ~SentPrimary(r, id)
      BY <1>13, <1>15, <2>1, <3>2
    <3>3. CASE ~SentPrimary(q, id)
      BY <1>13, <1>15, <2>1, <3>3
    <3>4. QED
      BY <3>1, <3>2, <3>3
  <2>2. ASSUME NEW q \in Sessions, NEW id \in EventIds,
               SentRanked(q, id)'
        PROVE  \E r \in Sessions : ClassOf[r] = ClassOf[q]
                                  /\ SentPrimary(r, id)'
    <3>1. CASE SentRanked(q, id)
      BY <1>13, <3>1 DEF RolesInv, OnePrimary
    <3>2. CASE q = s /\ id = id0 /\ role = "primary"
      BY <1>13, <3>2
    <3>3. CASE /\ q = s /\ id = id0 /\ role # "primary"
               /\ sender[t].kind # "identify"
      BY <1>13, <1>16, <3>3
    <3>4. QED
      BY <1>13, <2>2, <3>1, <3>2, <3>3
  <2>3. QED
    BY <2>1, <2>2 DEF OnePrimary
<1>18. FollowsMap(t)'
  <2>1. CASE sender[t].kind # "broadcast"
    BY <1>2, <1>4, <1>7, <1>8, <2>1 DEF FollowsMap
  <2>2. CASE sender[t].kind = "broadcast"
    <3>1. \A r \in Sessions :
             /\ Sent(r, id0) <=> r \in alive \ sender[t].todo
             /\ Sent(r, id0) => SentRanked(r, id0)
      BY <1>6, <1>8, <2>2 DEF FollowsMap, id0
    <3>2. \A r \in Sessions :
             Sent(r, sender[t].id)' <=> r \in alive \ (sender[t].todo \ {s})
      <4>1. \A r \in Sessions :
               Sent(r, sender[t].id)' <=> Sent(r, id0) \/ r = s
        BY <1>4, <1>5, <1>13
      <4>2. QED
        BY <1>2, <3>1, <4>1
    <3>3. \A r \in Sessions :
             Sent(r, sender[t].id)' => SentRanked(r, sender[t].id)'
      BY <1>4, <1>5, <1>13, <2>2, <3>1
    <3>4. \A r \in alive \ (sender[t].todo \ {s}),
            q \in sender[t].todo \ {s} : r < q
      <4>1. sender[t].todo \subseteq Nat
        <5>1. sender[t].todo \subseteq alive /\ alive \subseteq Sessions
          BY <1>2 DEF DeliveryInv, OneSender, TypeOK
        <5>2. QED
          BY <5>1, DeliveryAssumption DEF Sessions
      <4>2. \A r \in alive \ sender[t].todo, q \in sender[t].todo : r < q
        BY <1>6, <1>8, <2>2 DEF FollowsMap
      <4>3. \A q \in sender[t].todo \ {s} : s < q
        BY <1>2, <4>1
      <4>4. QED
        BY <4>2, <4>3
    <3>5. QED
      BY <1>1, <1>4, <1>7, <2>2, <3>2, <3>3, <3>4 DEF FollowsMap
  <2>3. QED
    BY <2>1, <2>2
<1>19. InMapOrder'
  BY <1>3, <1>4, <1>18 DEF InMapOrder, Busy
<1>20. QED
  BY <1>17, <1>19 DEF RolesInv

\* Setting and resetting the event of a session changes nothing that was sent,
\* and the session stays behind the sender.
LEMMA RolesServed ==
    ASSUME DeliveryInv, RolesInv, NEW t \in Senders,
           FireSet(t) \/ FireReset(t) \/ FireDone(t)
    PROVE  RolesInv'
<1>1. UNCHANGED <<queued, alive>>
  BY DEF FireSet, FireReset, FireDone, mapVars
<1>2. Busy(t) => \A r \in Senders : r # t => ~Busy(r)
  BY AloneBusy DEF DeliveryInv
<1>3. Busy(t)
  BY DEF FireSet, FireReset, FireDone, Busy
<1>4. \A r \in Senders : r # t => sender'[r] = sender[r]
  BY DEF FireSet, FireReset, FireDone, DeliveryInv, TypeOK
<1>5. ASSUME Busy(t)'
      PROVE  /\ Ahead(t)' = Ahead(t)
             /\ sender'[t].id = sender[t].id
             /\ sender'[t].kind = sender[t].kind
             /\ sender'[t].todo \subseteq sender[t].todo
  <2>1. sender[t] \in SenderStates
    BY DEF DeliveryInv, TypeOK
  <2>2. CASE FireSet(t)
    <3>1. /\ sender[t].pc = "set"
          /\ sender' = [sender EXCEPT ![t].pc = "reset"]
      BY <2>2 DEF FireSet
    <3>2. /\ sender'[t].pc = "reset" /\ sender'[t].id = sender[t].id
          /\ sender'[t].todo = sender[t].todo
          /\ sender'[t].kind = sender[t].kind
      BY <2>1, <3>1 DEF DeliveryInv, TypeOK, SenderStates
    <3>3. Target(t)' = Target(t)
      BY <3>2, TargetSame
    <3>4. QED
      BY <3>1, <3>2, <3>3 DEF Ahead, Serving
  <2>3. CASE FireReset(t)
    <3>1. /\ sender[t].pc = "reset"
          /\ sender' = [sender EXCEPT ![t].pc = "next",
                                      ![t].todo = @ \ {Target(t)}]
      BY <2>3 DEF FireReset
    <3>2. /\ sender'[t].pc = "next" /\ sender'[t].id = sender[t].id
          /\ sender'[t].todo = sender[t].todo \ {Target(t)}
          /\ sender'[t].kind = sender[t].kind
      BY <2>1, <3>1 DEF DeliveryInv, TypeOK, SenderStates
    <3>3. QED
      BY <3>1, <3>2 DEF Ahead, Serving
  <2>4. CASE FireDone(t)
    <3>1. sender'[t] = IdleSender
      BY <2>4 DEF FireDone, DeliveryInv, TypeOK
    <3>2. QED
      BY <1>5, <3>1 DEF Busy, IdleSender
  <2>5. QED
    BY <2>2, <2>3, <2>4
<1>6. \A r \in Senders : Busy(r)' => r = t
  BY <1>2, <1>3, <1>4 DEF Busy
<1>7. QED
  BY <1>1, <1>3, <1>5, <1>6, RolesKept

\* Every step preserves RolesInv: the map changes only while nobody fires.
LEMMA RolesStep == DeliveryInv /\ RolesInv /\ [Next]_vars => RolesInv'
<1> SUFFICES ASSUME DeliveryInv, RolesInv, [Next]_vars PROVE RolesInv'
  OBVIOUS
<1>1. ASSUME UNCHANGED <<sender, alive, queued>>
      PROVE  RolesInv'
  <2>1. \A t \in Senders : Target(t)' = Target(t)
    BY <1>1, TargetSame
  <2>2. \A t \in Senders : Ahead(t)' = Ahead(t)
    BY <1>1, <2>1 DEF Ahead, Serving
  <2>3. QED
    BY <1>1, <2>2, RolesKept DEF Busy
<1>2. ASSUME UNCHANGED <<sender, queued>>, listOwner = Nobody
      PROVE  RolesInv'
  <2>1. \A t \in Senders : ~Busy(t)
    BY <1>2, DeliveryAssumption DEF DeliveryInv, OneSender
  <2>2. \A t \in Senders : ~Busy(t)'
    BY <1>2, <2>1 DEF Busy
  <2>3. QED
    BY <1>2, <2>2, RolesKept
<1>3. CASE UNCHANGED vars
  BY <1>1, <1>3 DEF vars
<1>4. CASE NewSession
  BY <1>2, <1>4 DEF NewSession, senderVars
<1>5. ASSUME NEW s \in Sessions, DropSession(s)
      PROVE  RolesInv'
  BY <1>2, <1>5 DEF DropSession, senderVars
<1>6. ASSUME NEW s \in Sessions, PollStep(s)
      PROVE  RolesInv'
  BY <1>1, <1>6 DEF PollStep, PollBegin, PollEnterWait, PollTimeout, PollLock,
       PollCopy, PollFlush, PollAnswered, senderVars, mapVars
<1>7. ASSUME NEW t \in Senders, Broadcast(t)
      PROVE  RolesInv'
  <2>1. alive \in SUBSET alive /\ "broadcast" \in Kinds
    BY DEF Kinds
  <2>2. QED
    BY <1>7, <2>1, RolesBegin DEF Broadcast, mapVars
<1>8. ASSUME NEW t \in Senders, NEW s \in Sessions,
             PrivateEvent(t, s) \/ IdentifyOne(t, s)
      PROVE  RolesInv'
  <2>1. PICK kind \in Kinds : FireToOne(t, s, kind) /\ kind # "broadcast"
    BY <1>8 DEF PrivateEvent, IdentifyOne, Kinds
  <2>2. {s} \in SUBSET alive /\ \A q, r \in {s} : q = r
    BY <2>1 DEF FireToOne
  <2>3. QED
    BY <2>1, <2>2, RolesBegin DEF FireToOne, mapVars
<1>9. ASSUME NEW t \in Senders, Fire(t)
      PROVE  RolesInv'
  BY <1>9, RolesQueue, RolesServed DEF Fire
<1>10. QED
  BY <1>3, <1>4, <1>5, <1>6, <1>7, <1>8, <1>9 DEF Next

\* RolesInv holds throughout.
LEMMA RolesInvariant == Spec => []RolesInv
<1>1. Init /\ [][Next]_vars /\ []DeliveryInv => []RolesInv
  BY RolesInit, RolesStep, PTL
<1>2. QED
  BY <1>1, DeliveryInvariant, PTL DEF Spec

\* What a session was sent as event id is found at one position of its queue.
LEMMA SentIs ==
    ASSUME DeliveryInv, NEW s \in Sessions, NEW id
    PROVE  /\ id \in Ids(queued[s]) <=> Sent(s, id)
           /\ \A i \in DOMAIN queued[s] :
                 queued[s][i].id = id => queued[s][i] = SentTo(s, id)
           /\ id \in Ids(queued[s]) =>
                 \E i \in DOMAIN queued[s] :
                    queued[s][i].id = id /\ queued[s][i] = SentTo(s, id)
<1> DEFINE q == queued[s]
<1>1. q \in Seq(Events) /\ DOMAIN q \subseteq Int
  BY DEF DeliveryInv, TypeOK
<1>2. \A i, j \in DOMAIN q : i < j => q[i].id < q[j].id
  BY DEF DeliveryInv, IdsIncrease
<1>3. \A i \in DOMAIN q : q[i].id \in Int
  <2>1. \A i \in DOMAIN q : q[i] \in Events
    BY <1>1
  <2>2. \A e \in Events : e.id \in EventIds
    BY DEF Events
  <2>3. QED
    BY <2>1, <2>2, DeliveryAssumption DEF EventIds
<1>4. id \in Ids(q) <=> Sent(s, id)
  BY DEF Ids, Sent
<1>5. SentTo(s, id) = q[Position(q, id)]
  BY DEF SentTo
<1> HIDE DEF q
<1>6. ASSUME NEW i \in DOMAIN q, NEW j \in DOMAIN q, q[i].id = q[j].id
      PROVE  i = j
  BY <1>1, <1>2, <1>3, <1>6
<1>7. ASSUME id \in Ids(q)
      PROVE  Position(q, id) \in DOMAIN q /\ q[Position(q, id)].id = id
  BY <1>7, PositionIs
<1>8. ASSUME NEW i \in DOMAIN q, q[i].id = id
      PROVE  q[i] = SentTo(s, id)
  <2>1. id \in Ids(q)
    BY <1>8 DEF Ids
  <2>2. QED
    BY <1>5, <1>6, <1>7, <1>8, <2>1
<1>9. QED
  BY <1>4, <1>5, <1>7, <1>8 DEF q

\* The primaries of an event are the sessions that were sent it as primary.
LEMMA PrimariesAre ==
    ASSUME DeliveryInv, NEW id, NEW c
    PROVE  Primaries(id, c) =
              {s \in Sessions : ClassOf[s] = c /\ SentPrimary(s, id)}
<1> SUFFICES ASSUME NEW s \in Sessions
             PROVE  id \in Ids(queued[s]) /\ SentTo(s, id).role = "primary"
                    <=> SentPrimary(s, id)
  BY DEF Primaries, Recipients
<1>1. ASSUME id \in Ids(queued[s]), SentTo(s, id).role = "primary"
      PROVE  SentPrimary(s, id)
  BY <1>1, SentIs DEF SentPrimary
<1>2. ASSUME SentPrimary(s, id)
      PROVE  id \in Ids(queued[s]) /\ SentTo(s, id).role = "primary"
  <2>1. PICK i \in DOMAIN queued[s] :
           queued[s][i].id = id /\ queued[s][i].role = "primary"
    BY <1>2 DEF SentPrimary
  <2>2. QED
    BY <2>1, SentIs DEF Ids
<1>3. QED
  BY <1>1, <1>2

\* However many threads fire and however sessions come and go, no event has two
\* primaries among the clients of a class, and one fired to all clients, or by
\* a client to itself, has one among those of the class it went to
\* (OnGetClientRole under FireEventToAllClients's list mutex).
THEOREM OnePrimaryHolds == Spec => []OnePrimaryPerClass
<1>1. ASSUME DeliveryInv, RolesInv
      PROVE  OnePrimaryPerClass
  <2> SUFFICES ASSUME NEW id \in 1..(nextEvent - 1), NEW c \in Classes
               PROVE  /\ Cardinality(Primaries(id, c)) <= 1
                      /\ (\E s \in Recipients(id, c) :
                             SentTo(s, id).kind # "identify")
                            => Cardinality(Primaries(id, c)) = 1
    BY DEF OnePrimaryPerClass
  <2>1. id \in EventIds
    BY <1>1, DeliveryAssumption DEF DeliveryInv, TypeOK, EventIds
  <2> DEFINE P == Primaries(id, c)
  <2>2. P = {s \in Sessions : ClassOf[s] = c /\ SentPrimary(s, id)}
    BY <1>1, PrimariesAre
  <2>3. \A r, s \in P : r = s
    BY <1>1, <2>1, <2>2 DEF RolesInv, OnePrimary
  <2>4. ASSUME NEW s \in Recipients(id, c), SentTo(s, id).kind # "identify"
        PROVE  P # {}
    <3>1. s \in Sessions /\ ClassOf[s] = c /\ id \in Ids(queued[s])
      BY DEF Recipients
    <3>2. SentRanked(s, id)
      BY <1>1, <2>4, <3>1, SentIs DEF SentRanked
    <3>3. \E r \in Sessions : ClassOf[r] = c /\ SentPrimary(r, id)
      BY <1>1, <2>1, <3>1, <3>2 DEF RolesInv, OnePrimary
    <3>4. QED
      BY <2>2, <3>3
  <2> HIDE DEF P
  <2>5. CASE P = {}
    BY <2>4, <2>5, FS_EmptySet DEF P
  <2>6. CASE P # {}
    <3>1. PICK s : P = {s}
      BY <2>3, <2>6, SMTT(30)
    <3>2. Cardinality(P) = 1
      BY <3>1, FS_Singleton
    <3>3. QED
      BY <3>2 DEF P
  <2>7. QED
    BY <2>5, <2>6
<1>2. QED
  BY <1>1, DeliveryInvariant, RolesInvariant, PTL
=============================================================================
