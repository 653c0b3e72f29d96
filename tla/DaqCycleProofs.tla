--------------------------- MODULE DaqCycleProofs ---------------------------
(***************************************************************************)
(* Proofs about DaqCycle, for any names, lists, cycles and number of DAQ   *)
(* objects: the types; the lists of the DAQs, by what a PUT has added and  *)
(* has still to add; and, as long as no PUT names a DAQ of the other kind, *)
(* that threads, polls and handlers work on DAQs that exist, by who holds  *)
(* the session's mutex and which DAQ is being destroyed.                   *)
(***************************************************************************)
EXTENDS DaqCycle, TLAPS, SequenceTheorems, WellFoundedInduction

PutPcs == {"clear", "add", "cycle", "set", "reset", "fireSet", "fireReset"}

\* The record of the handler fits what it does.
HandlerFits ==
    /\ h.pc \notin {"idle", "next"} => h.obj \in Objects
    /\ h.pc = "cycle" => h.cycle # 0

Typed == TypeOK /\ HandlerFits

\* What a DAQ's list holds in every state: what its last PUT asked for, or
\* how far the PUT in progress has come with it.
Listed(o) ==
    IF h.obj = o /\ h.pc = "clear" THEN h.list = requested[o]
    ELSE IF h.obj = o /\ h.pc = "add"
         THEN vars_[o] \o Resolved(h.list) = Resolved(requested[o])
         ELSE vars_[o] = Resolved(requested[o])

ListsInv == Typed /\ \A o \in Objects : Listed(o)

\* Which DAQ the handler works on, and who holds the session's mutex.
Working ==
    /\ h.pc # "idle" => sessionAlive
    /\ h.ending => h.pc \in {"signal", "join", "next"} /\ poll = "idle"
    /\ h.pc = "next" => h.ending
    /\ h.pc \in PutPcs => h.obj \in Mapped
    /\ h.pc \in {"signal", "join"} /\ ~h.ending => sessOwner = "h"
    /\ poll = "format" <=> sessOwner = "poll"
    /\ poll # "idle" => sessionAlive

\* The map and the DAQ that is being destroyed are all there is.
Allocated ==
    /\ allocated = Mapped \cup
                   (IF h.pc \in {"signal", "join"} THEN {h.obj} ELSE {})
    /\ h.pc \in {"signal", "join"} => h.obj \notin Mapped
    /\ \A m, n \in Names : daqMap[m] = daqMap[n] /\ daqMap[m] # 0 => m = n

\* A cycle thread belongs to an allocated DAQ, a new object has none yet.
Threads ==
    /\ \A o \in Objects : active[o] <=> thread[o] \notin {"none", "done"}
    /\ \A o \in Objects : o >= nextObject =>
           o \notin allocated /\ thread[o] = "none"

Safe ==
    /\ Working /\ Allocated /\ Threads
    /\ ThreadOwnsLiveObject /\ FormattedDaqsAlive /\ NobodySleepsThroughSet

SafeInv == Typed /\ Safe

-----------------------------------------------------------------------------
(* Types. *)

\* The values of the constants, as the steps use them.
LEMMA Constants ==
    /\ Objects \subseteq Nat \ {0}
    /\ \A l \in VarLists : l \in Seq(ListNames) /\ l # NoList
    /\ \A c \in Cycles : c # 0
    /\ List \in Kinds /\ Trend \in Kinds /\ Default \in AllCycles
    /\ IdleHandler \in Handler
<1>1. Objects \subseteq Nat \ {0}
  BY DaqAssumption DEF Objects
<1>2. <<>> \in Seq(ListNames)
  OBVIOUS
<1>3. IdleHandler \in Handler
  BY <1>2 DEF IdleHandler, Handler, HandlerPcs
<1>4. \A l \in VarLists : l \in Seq(ListNames) /\ l # NoList
  BY DaqAssumption
<1>5. QED
  BY <1>1, <1>3, <1>4, DaqAssumption DEF Kinds, Default, AllCycles

\* Everything starts with its type.
LEMMA TypedInit == Init => Typed
<1> SUFFICES ASSUME Init PROVE Typed
  OBVIOUS
<1> USE Constants DEF Init
<1>1. <<>> \in Seq(ListNames \ {Unknown}) /\ 1 \in 1..MaxObject + 1
  BY DaqAssumption
<1>2. vars_ \in [Objects -> Seq(ListNames \ {Unknown})]
      /\ requested \in [Objects -> VarLists \cup {<<>>}]
  BY <1>1
<1>3. HandlerFits
  BY DEF HandlerFits, IdleHandler
<1>4. thread \in [Objects -> ThreadPcs]
  BY DEF ThreadPcs
<1>5. sleeping \in [Objects -> AllCycles \cup {0}]
      /\ cycle \in [Objects -> AllCycles] /\ puts \in 0..MaxPut
  BY DaqAssumption
<1>6. QED
  BY <1>1, <1>2, <1>3, <1>4, <1>5 DEF Typed, TypeOK

\* What a PUT hands on has its type.
LEMMA UpdateTyped ==
    ASSUME Typed, h.pc = "idle", puts < MaxPut,
           NEW o \in Objects, NEW l \in VarLists \cup {NoList},
           NEW c \in Cycles \cup {0}, Update(o, l, c)
    PROVE  /\ h' \in Handler /\ HandlerFits' /\ puts' \in 0..MaxPut
           /\ requested' \in [Objects -> VarLists \cup {<<>>}]
<1> USE Constants, DaqAssumption DEF Typed, TypeOK, Update
<1>1. (IF l = NoList THEN <<>> ELSE l) \in Seq(ListNames)
  OBVIOUS
<1>2. c \in AllCycles \cup {0}
  BY DEF AllCycles
<1>3. h' \in Handler
  BY <1>1, <1>2 DEF Handler, HandlerPcs
<1>4. HandlerFits'
  BY DEF HandlerFits
<1>5. puts' \in 0..MaxPut
  OBVIOUS
<1>6. requested' \in [Objects -> VarLists \cup {<<>>}]
  OBVIOUS
<1>7. QED
  BY <1>3, <1>4, <1>5, <1>6

\* Every step keeps the types.
LEMMA TypedStep ==
    ASSUME Typed, [Next]_vars
    PROVE  Typed'
<1> USE DEF Typed, TypeOK, HandlerFits,
            mapVars, objVars, threadVars, pollVars, histVars
<1>1. ASSUME NEW n \in Names, NEW k \in Kinds,
            NEW l \in VarLists \cup {NoList}, NEW c \in Cycles \cup {0},
            PutExisting(n, k, l, c)
      PROVE Typed'
  <2>1. Existing(n, k) \in Objects
    BY <1>1 DEF PutExisting, Existing
  <2>2. h.pc = "idle" /\ puts < MaxPut
    BY <1>1 DEF PutExisting, PutAllowed
  <2>3. Update(Existing(n, k), l, c)
    BY <1>1 DEF PutExisting
  <2>4. h' \in Handler /\ HandlerFits' /\ puts' \in 0..MaxPut
        /\ requested' \in [Objects -> VarLists \cup {<<>>}]
    BY <2>1, <2>2, <2>3, UpdateTyped
  <2>5. QED
    BY <1>1, <2>4 DEF PutExisting
<1>2. ASSUME NEW n \in Names, NEW k \in Kinds,
            NEW l \in VarLists \cup {NoList}, NEW c \in Cycles \cup {0},
            PutNew(n, k, l, c)
      PROVE Typed'
  <2>1. nextObject \in Objects /\ nextObject' \in 1..(MaxObject + 1)
    <3>1. nextObject \in Objects /\ nextObject' = nextObject + 1
      BY <1>2 DEF PutNew
    <3>2. QED
      BY <3>1, DaqAssumption DEF Objects
  <2>2. h.pc = "idle" /\ puts < MaxPut
    BY <1>2 DEF PutNew, PutAllowed
  <2>3. Update(nextObject, l, c)
    BY <1>2 DEF PutNew
  <2>4. h' \in Handler /\ HandlerFits' /\ puts' \in 0..MaxPut
        /\ requested' \in [Objects -> VarLists \cup {<<>>}]
    BY <2>1, <2>2, <2>3, UpdateTyped
  <2>5. QED
    <3>1. thread' \in [Objects -> ThreadPcs]
          /\ active' \in [Objects -> BOOLEAN]
      BY <1>2, DaqAssumption DEF PutNew, ThreadPcs
    <3>2. allocated' \subseteq Objects /\ kind' \in [Objects -> Kinds]
          /\ daqMap' \in [Names -> Objects \cup {0}]
      BY <1>2, <2>1 DEF PutNew
    <3>3. QED
      BY <1>2, <2>1, <2>4, <3>1, <3>2 DEF PutNew
<1>3. ASSUME NEW n \in Names, DeleteDaq(n) PROVE Typed'
  <2>1. h' = [IdleHandler EXCEPT !.pc = "signal", !.obj = daqMap[n]]
        /\ daqMap[n] \in Objects
    BY <1>3 DEF DeleteDaq
  <2>2. h' \in Handler /\ HandlerFits'
    BY <2>1, Constants DEF Handler, HandlerPcs
  <2>3. QED
    BY <1>3, <2>2 DEF DeleteDaq
<1>4. CASE EndSession
  <2>1. h' \in Handler /\ HandlerFits'
    BY <1>4, Constants DEF EndSession, Handler, HandlerPcs
  <2>2. QED
    BY <1>4, <2>1 DEF EndSession
<1>5. CASE PutClear
  <2>1. vars_' \in [Objects -> Seq(ListNames \ {Unknown})]
    <3>1. <<>> \in Seq(ListNames \ {Unknown})
      OBVIOUS
    <3>2. QED
      BY <1>5, <3>1 DEF PutClear
  <2>2. h' \in Handler /\ HandlerFits'
    BY <1>5 DEF PutClear, Handler, HandlerPcs
  <2>3. QED
    BY <1>5, <2>1, <2>2 DEF PutClear
<1>6. CASE PutAdd
  <2>1. h.pc = "add" /\ h.list \in Seq(ListNames) /\ h.list # <<>>
        /\ h.obj \in Objects
    BY <1>6 DEF PutAdd, Handler, HandlerPcs
  <2>2. Head(h.list) \in ListNames /\ Tail(h.list) \in Seq(ListNames)
        /\ <<>> \in Seq(ListNames)
    BY <2>1, HeadTailProperties
  <2>3. h' \in Handler /\ HandlerFits'
    <3>1. CASE h' = [h EXCEPT !.list = <<>>]
      BY <2>1, <2>2, <3>1 DEF Handler
    <3>2. CASE h' = [h EXCEPT !.list = Tail(@)]
      BY <2>1, <2>2, <3>2 DEF Handler
    <3>3. QED
      BY <1>6, <3>1, <3>2 DEF PutAdd
  <2>4. vars_' \in [Objects -> Seq(ListNames \ {Unknown})]
    <3>1. CASE Head(h.list) = Unknown
      BY <1>6, <3>1 DEF PutAdd
    <3>2. CASE Head(h.list) # Unknown
      <4>1. vars_[h.obj] \in Seq(ListNames \ {Unknown})
        BY <2>1
      <4>2. Append(vars_[h.obj], Head(h.list)) \in Seq(ListNames \ {Unknown})
        BY <4>1, <2>2, <3>2, AppendProperties
      <4>3. vars_' = [vars_ EXCEPT ![h.obj] =
                                      Append(vars_[h.obj], Head(h.list))]
        BY <1>6, <3>2 DEF PutAdd
      <4>4. QED
        BY <4>2, <4>3
    <3>3. QED
      BY <3>1, <3>2
  <2>5. QED
    BY <1>6, <2>3, <2>4 DEF PutAdd
<1>7. CASE PutListDone
  BY <1>7, ZenonT(30) DEF PutListDone, Handler, HandlerPcs
<1>8. CASE SetCycle
  BY <1>8 DEF SetCycle, Handler, HandlerPcs
<1>9. CASE FireSet
  BY <1>9, ZenonT(30) DEF FireSet, SetWake, Handler, HandlerPcs, ThreadPcs
<1>10. CASE FireReset
  <2>1. h' \in Handler /\ HandlerFits'
    <3>1. CASE h' = IdleHandler
      BY <3>1, Constants DEF IdleHandler
    <3>2. CASE h' # IdleHandler
      BY <1>10, <3>2 DEF FireReset, Handler, HandlerPcs
    <3>3. QED
      BY <3>1, <3>2
  <2>2. QED
    BY <1>10, <2>1 DEF FireReset
<1>11. CASE DtorSignal
  BY <1>11, ZenonT(30) DEF DtorSignal, SetWake, Handler, HandlerPcs, ThreadPcs
<1>12. CASE DtorJoin
  <2>1. h' \in Handler /\ HandlerFits'
    <3>1. CASE h' = IdleHandler
      BY <3>1, Constants DEF IdleHandler
    <3>2. CASE h' # IdleHandler
      BY <1>12, <3>2 DEF DtorJoin, Handler, HandlerPcs
    <3>3. QED
      BY <3>1, <3>2
  <2>2. QED
    BY <1>12, <2>1 DEF DtorJoin
<1>13. CASE NextDaq
  <2>1. CASE Mapped = {} /\ h' = IdleHandler /\ UNCHANGED <<daqMap, terminate>>
    <3>1. h' \in Handler /\ HandlerFits'
      BY <2>1, Constants DEF IdleHandler
    <3>2. QED
      BY <1>13, <2>1, <3>1 DEF NextDaq
  <2>2. ASSUME NEW n \in Names, daqMap[n] # 0,
               terminate' = [terminate EXCEPT ![daqMap[n]] = TRUE],
               h' = [h EXCEPT !.pc = "signal", !.obj = daqMap[n]],
               daqMap' = [daqMap EXCEPT ![n] = 0]
        PROVE  Typed'
    <3>1. h' \in Handler /\ HandlerFits'
      BY <2>2 DEF Handler, HandlerPcs
    <3>2. QED
      BY <1>13, <2>2, <3>1 DEF NextDaq
  <2>3. QED
    BY <1>13, <2>1, <2>2 DEF NextDaq
<1>14. CASE PollBegin
  BY <1>14 DEF PollBegin
<1>15. CASE PollTimeout
  BY <1>15 DEF PollTimeout
<1>16. CASE PollLock
  BY <1>16 DEF PollLock, Mapped
<1>17. CASE PollUnlock
  BY <1>17 DEF PollUnlock
<1>18. ASSUME NEW o \in Objects, PollDaq(o) PROVE Typed'
  BY <1>18 DEF PollDaq
<1>19. ASSUME NEW o \in Objects, CycleRead(o) PROVE Typed'
  BY <1>19 DEF CycleRead, ThreadPcs
<1>20. ASSUME NEW o \in Objects, CycleEnterSleep(o) PROVE Typed'
  BY <1>20 DEF CycleEnterSleep, ThreadPcs
<1>21. ASSUME NEW o \in Objects, CycleTimeout(o) PROVE Typed'
  BY <1>21 DEF CycleTimeout, ThreadPcs
<1>22. ASSUME NEW o \in Objects, CycleWoken(o) PROVE Typed'
  BY <1>22 DEF CycleWoken, ThreadPcs
<1>23. ASSUME NEW o \in Objects, TimerTic(o) PROVE Typed'
  BY <1>23 DEF TimerTic, ThreadPcs
<1>24. ASSUME NEW o \in Objects, TimerTicFire(o) PROVE Typed'
  BY <1>24 DEF TimerTicFire, ThreadPcs
<1>25. ASSUME NEW o \in Objects, ExternalTic(o) PROVE Typed'
  BY <1>25 DEF ExternalTic
<1>26. CASE UNCHANGED vars
  BY <1>26 DEF vars
<1>27. QED
  BY <1>1, <1>2, <1>3, <1>4, <1>5, <1>6, <1>7, <1>8, <1>9, <1>10,
     <1>11, <1>12, <1>13, <1>14, <1>15, <1>16, <1>17, <1>18, <1>19, <1>20,
     <1>21, <1>22, <1>23, <1>24, <1>25, <1>26
  DEF Next, Request, HandlerStep, PollStep, CycleStep

-----------------------------------------------------------------------------
(* Lists: a PUT that stops at the first unknown variable, one AddVar after *)
(* the other, adds what the list resolves to.                              *)

\* A set of numbers has a least element.
LEMMA Least ==
    ASSUME NEW T, T \subseteq Nat, T # {}
    PROVE  \E x \in T : \A y \in T : x <= y
<1> DEFINE R == OpToRel(<, Nat)
<1>1. IsWellFoundedOn(R, Nat)
  BY NatLessThanWellFounded
<1>2. PICK x \in T : \A y \in T : <<y, x>> \notin R
  <2> HIDE DEF R
  <2>1. QED
    BY <1>1, WFMin
<1>3. ASSUME NEW y \in T PROVE x <= y
  <2>1. <<y, x>> \notin {ss \in Nat \X Nat : ss[1] < ss[2]}
    BY <1>2 DEF OpToRel
  <2>2. x \in Nat /\ y \in Nat
    OBVIOUS
  <2>3. QED
    BY <2>1, <2>2
<1>4. QED
  BY <1>3

\* Where a list is cut: before the first unknown variable.
CutAt(l, n) ==
    /\ n \in 0..Len(l)
    /\ \A i \in 1..n : l[i] # Unknown
    /\ n < Len(l) => l[n + 1] = Unknown

\* What a list resolves to is its part up to the cut.
LEMMA ResolvedIsCut ==
    ASSUME NEW l \in Seq(ListNames)
    PROVE  \E n \in 0..Len(l) : CutAt(l, n) /\ Resolved(l) = SubSeq(l, 1, n)
<1> DEFINE bad == {i \in DOMAIN l : l[i] = Unknown}
<1> Len(l) \in Nat /\ DOMAIN l = 1..Len(l)
  BY LenProperties, SMTT(30)
<1>1. CASE bad = {}
  <2>1. Resolved(l) = SubSeq(l, 1, Len(l))
    BY <1>1 DEF Resolved
  <2>2. CutAt(l, Len(l))
    BY <1>1 DEF CutAt
  <2>3. Len(l) \in 0..Len(l)
    OBVIOUS
  <2>4. QED
    BY <2>1, <2>2, <2>3
<1>2. CASE bad # {}
  <2>1. bad \subseteq Nat
    OBVIOUS
  <2>2. \E i \in bad : \A j \in bad : i <= j
    BY <1>2, <2>1, Least
  <2> DEFINE m == CHOOSE i \in bad : \A j \in bad : i <= j
  <2>3. Resolved(l) = SubSeq(l, 1, m - 1)
    BY <1>2 DEF Resolved
  <2>4. m \in bad /\ \A j \in bad : m <= j
    <3> HIDE DEF bad
    <3>1. QED
      BY <2>2
  <2> HIDE DEF m
  <2>6. CutAt(l, m - 1)
    BY <2>4 DEF CutAt
  <2>7. m - 1 \in 0..Len(l)
    BY <2>4
  <2>8. QED
    BY <2>3, <2>6, <2>7
<1>3. QED
  BY <1>1, <1>2

\* It is resolved as AddVar goes through it.
LEMMA ResolvedIs ==
    /\ Resolved(<<>>) = <<>>
    /\ \A l \in Seq(ListNames) :
          /\ Resolved(l) \in Seq(ListNames)
          /\ l # <<>> /\ Head(l) = Unknown => Resolved(l) = <<>>
          /\ l # <<>> /\ Head(l) # Unknown =>
                Resolved(l) = <<Head(l)>> \o Resolved(Tail(l))
<1>1. ASSUME NEW l \in Seq(ListNames)
      PROVE  Resolved(l) \in Seq(ListNames) /\ (l = <<>> => Resolved(l) = <<>>)
  <2>1. PICK n \in 0..Len(l) : Resolved(l) = SubSeq(l, 1, n)
    BY ResolvedIsCut
  <2>2. SubSeq(l, 1, n) \in Seq(ListNames)
    BY LenProperties, ElementOfSeq, SubSeqProperties
  <2>3. ASSUME l = <<>> PROVE Resolved(l) = <<>>
    BY <2>1, <2>3, SubSeqEmpty
  <2>4. QED
    BY <2>1, <2>2, <2>3
<1>2. ASSUME NEW l \in Seq(ListNames), l # <<>>, Head(l) = Unknown
      PROVE  Resolved(l) = <<>>
  <2>1. PICK n \in 0..Len(l) : CutAt(l, n) /\ Resolved(l) = SubSeq(l, 1, n)
    BY ResolvedIsCut
  <2>2. Len(l) \in Nat \ {0} /\ Head(l) = l[1]
    BY <1>2, LenProperties, EmptySeq
  <2>3. n = 0
    BY <1>2, <2>1, <2>2 DEF CutAt
  <2>4. QED
    BY <2>1, <2>3, SubSeqEmpty
<1>3. ASSUME NEW l \in Seq(ListNames), l # <<>>, Head(l) # Unknown
      PROVE  Resolved(l) = <<Head(l)>> \o Resolved(Tail(l))
  <2>1. Tail(l) \in Seq(ListNames) /\ Len(Tail(l)) = Len(l) - 1
        /\ \A i \in 1..Len(l) - 1 : Tail(l)[i] = l[i + 1]
    BY <1>3, HeadTailProperties
  <2>2. Len(l) \in Nat \ {0} /\ Head(l) = l[1]
    BY <1>3, LenProperties, EmptySeq
  <2>3. PICK n \in 0..Len(l) : CutAt(l, n) /\ Resolved(l) = SubSeq(l, 1, n)
    BY ResolvedIsCut
  <2>4. PICK m \in 0..Len(Tail(l)) : CutAt(Tail(l), m)
                            /\ Resolved(Tail(l)) = SubSeq(Tail(l), 1, m)
    BY <2>1, ResolvedIsCut
  <2>5. n = m + 1
    <3>1. n # 0
      BY <1>3, <2>2, <2>3 DEF CutAt
    <3>2. ~(n < m + 1)
      <4> SUFFICES ASSUME n < m + 1 PROVE FALSE
        OBVIOUS
      <4>1. n \in 1..m /\ n < Len(l)
        BY <2>1, <2>2, <2>3, <2>4, <3>1
      <4>2. l[n + 1] = Unknown /\ Tail(l)[n] # Unknown
        BY <2>3, <2>4, <4>1 DEF CutAt
      <4>3. Tail(l)[n] = l[n + 1]
        BY <2>1, <2>2, <4>1
      <4>4. QED
        BY <4>2, <4>3
    <3>3. ~(m + 1 < n)
      <4> SUFFICES ASSUME m + 1 < n PROVE FALSE
        OBVIOUS
      <4>1. m + 1 \in 1..Len(l) - 1 /\ m + 2 \in 1..n /\ m < Len(Tail(l))
        BY <2>1, <2>2, <2>3, <2>4
      <4>2. Tail(l)[m + 1] = Unknown
        BY <2>4, <4>1 DEF CutAt
      <4>3. l[m + 2] # Unknown
        BY <2>3, <4>1 DEF CutAt
      <4>4. Tail(l)[m + 1] = l[(m + 1) + 1] /\ (m + 1) + 1 = m + 2
        BY <2>1, <4>1
      <4>5. QED
        BY <4>2, <4>3, <4>4
    <3>4. QED
      BY <2>3, <2>4, <3>2, <3>3
  <2>6. SubSeq(l, 1, n) = <<l[1]>> \o SubSeq(l, 2, n)
    <3>1. 1 \in 1..Len(l) /\ n \in 1..Len(l)
      BY <2>2, <2>3, <2>4, <2>5
    <3>2. QED
      BY <3>1, SubSeqRecursiveFirst
  <2>7. SubSeq(l, 2, n) = SubSeq(Tail(l), 1, m)
    <3>1. m \in 0..Len(l) - 1
      BY <2>1, <2>4
    <3>2. \A i \in 2..n : l[i] \in ListNames
      BY <2>2, <2>3, ElementOfSeq
    <3>3. \A i \in 1..m : Tail(l)[i] \in ListNames
      BY <2>1, <3>1, ElementOfSeq
    <3>4. SubSeq(l, 2, n) \in Seq(ListNames) /\ Len(SubSeq(l, 2, n)) = m
          /\ \A i \in 1..m : SubSeq(l, 2, n)[i] = l[i + 1]
      BY <2>3, <2>4, <2>5, <3>2, SubSeqProperties
    <3>5. SubSeq(Tail(l), 1, m) \in Seq(ListNames)
          /\ Len(SubSeq(Tail(l), 1, m)) = m
          /\ \A i \in 1..m : SubSeq(Tail(l), 1, m)[i] = Tail(l)[i]
      BY <2>4, <3>3, SubSeqProperties, SMTT(30)
    <3>6. \A i \in 1..m : l[i + 1] = Tail(l)[i]
      BY <2>1, <3>1
    <3>7. QED
      BY <3>4, <3>5, <3>6, SeqEqual
  <2>8. QED
    BY <2>2, <2>3, <2>4, <2>6, <2>7
<1>4. <<>> \in Seq(ListNames)
  OBVIOUS
<1>5. QED
  BY <1>1, <1>2, <1>3, <1>4

\* At the beginning nobody has asked for anything.
LEMMA ListsInit == Init => ListsInv
<1> SUFFICES ASSUME Init PROVE ListsInv
  OBVIOUS
<1>1. \A o \in Objects : Listed(o)
  BY ResolvedIs DEF Init, Listed, IdleHandler
<1>2. QED
  BY <1>1, TypedInit DEF ListsInv

\* Steps that work on no list.
LEMMA ListsKept ==
    ASSUME \A o \in Objects : Listed(o), UNCHANGED <<vars_, requested>>,
           \/ UNCHANGED h
           \/ h.pc \notin {"clear", "add"} /\ h'.pc \notin {"clear", "add"}
    PROVE  \A o \in Objects : Listed(o)'
<1>1. CASE UNCHANGED h
  BY <1>1 DEF Listed
<1>2. CASE h.pc \notin {"clear", "add"} /\ h'.pc \notin {"clear", "add"}
  BY <1>2 DEF Listed
<1>3. QED
  BY <1>1, <1>2

\* A PUT begins: the list it brings is what is now asked for.
LEMMA ListsUpdate ==
    ASSUME ListsInv, h.pc = "idle", NEW o \in Objects,
           NEW l \in VarLists \cup {NoList}, NEW c \in Cycles \cup {0},
           Update(o, l, c), UNCHANGED vars_
    PROVE  \A p \in Objects : Listed(p)'
<1> USE Constants DEF ListsInv, Typed, TypeOK, Listed, Update
<1>1. CASE l = NoList
  <2>1. requested' = requested /\ h'.pc \notin {"clear", "add"}
    BY <1>1
  <2>2. QED
    BY <2>1
<1>2. ASSUME l # NoList, NEW p \in Objects PROVE Listed(p)'
  <2>1. h'.pc = "clear" /\ h'.obj = o /\ h'.list = l
    BY <1>2
  <2>2. requested'[p] = IF p = o THEN l ELSE requested[p]
    BY <1>2
  <2>3. QED
    BY <2>1, <2>2
<1>3. QED
  BY <1>1, <1>2

\* ClearList, and AddVar again and again: what is added and what is still
\* to be added make up the request.
LEMMA ListsClear ==
    ASSUME ListsInv, PutClear
    PROVE  \A o \in Objects : Listed(o)'
<1> USE DEF ListsInv, Typed, TypeOK, Listed
<1>1. h.obj \in Objects /\ h'.pc = "add" /\ h'.obj = h.obj /\ h'.list = h.list
      /\ h.list \in Seq(ListNames) /\ requested' = requested
  BY DEF PutClear, HandlerFits, Handler, histVars
<1>2. vars_'[h.obj] = <<>> /\ \A o \in Objects \ {h.obj} : vars_'[o] = vars_[o]
  BY <1>1 DEF PutClear
<1>3. <<>> \o Resolved(h.list) = Resolved(h.list)
  BY <1>1, ResolvedIs, ConcatEmptySeq
<1>4. h.list = requested[h.obj]
  BY <1>1 DEF PutClear
<1>5. QED
  BY <1>1, <1>2, <1>3, <1>4 DEF PutClear

\* One more variable of the list is added: the table still holds what was put.
LEMMA ListsAdd ==
    ASSUME ListsInv, PutAdd
    PROVE  \A o \in Objects : Listed(o)'
<1> USE DEF ListsInv, Typed, TypeOK
<1>1. h.pc = "add" /\ h.obj \in Objects /\ h.list \in Seq(ListNames)
      /\ h.list # <<>> /\ requested' = requested
  BY DEF PutAdd, HandlerFits, Handler, histVars
<1>2. vars_[h.obj] \in Seq(ListNames)
      /\ vars_[h.obj] \o Resolved(h.list) = Resolved(requested[h.obj])
  <2>1. vars_[h.obj] \in Seq(ListNames \ {Unknown})
    BY <1>1
  <2>2. vars_[h.obj] \in Seq(ListNames)
    BY <2>1, SeqDef
  <2>3. QED
    BY <1>1, <2>2 DEF Listed
<1>3. h'.pc = "add" /\ h'.obj = h.obj
  BY <1>1 DEF PutAdd, Handler
<1>4. Head(h.list) \in ListNames /\ Tail(h.list) \in Seq(ListNames)
  BY <1>1, HeadTailProperties
<1>5. vars_'[h.obj] \o Resolved(h'.list) = Resolved(requested[h.obj])
  <2>1. CASE Head(h.list) = Unknown
    <3>1. h'.list = <<>> /\ vars_' = vars_
      BY <1>1, <2>1 DEF PutAdd, Handler
    <3>2. Resolved(h.list) = <<>> /\ Resolved(<<>>) = <<>>
      BY <1>1, <2>1, ResolvedIs
    <3>3. QED
      BY <1>2, <3>1, <3>2
  <2>2. CASE Head(h.list) # Unknown
    <3>1. h'.list = Tail(h.list)
          /\ vars_'[h.obj] = Append(vars_[h.obj], Head(h.list))
      BY <1>1, <2>2 DEF PutAdd, Handler
    <3>2. Resolved(h.list) = <<Head(h.list)>> \o Resolved(Tail(h.list))
          /\ Resolved(Tail(h.list)) \in Seq(ListNames)
      BY <1>1, <1>4, <2>2, ResolvedIs
    <3>3. Append(vars_[h.obj], Head(h.list)) =
                vars_[h.obj] \o <<Head(h.list)>>
      <4>1. \A a \in Seq(ListNames), e \in ListNames :
                Append(a, e) = a \o <<e>>
        BY AppendIsConcat
      <4>2. QED
        BY <1>2, <1>4, <4>1
    <3>4. <<Head(h.list)>> \in Seq(ListNames)
      BY <1>4
    <3>5. (vars_[h.obj] \o <<Head(h.list)>>) \o Resolved(Tail(h.list))
          = vars_[h.obj] \o (<<Head(h.list)>> \o Resolved(Tail(h.list)))
      <4>1. \A a, b, c \in Seq(ListNames) : (a \o b) \o c = a \o (b \o c)
        BY ConcatAssociative, SMTT(30)
      <4>2. QED
        BY <1>2, <3>2, <3>4, <4>1
    <3>6. QED
      BY <1>2, <3>1, <3>2, <3>3, <3>5
  <2>3. QED
    BY <2>1, <2>2
<1>6. \A o \in Objects \ {h.obj} : vars_'[o] = vars_[o]
  BY <1>1 DEF PutAdd
<1>7. QED
  BY <1>1, <1>3, <1>5, <1>6 DEF Listed

\* So does the end of a request.
LEMMA ListsDone ==
    ASSUME ListsInv, PutListDone
    PROVE  \A o \in Objects : Listed(o)'
<1> USE DEF ListsInv, Typed, TypeOK
<1>1. h.pc = "add" /\ h.obj \in Objects /\ h.list = <<>>
      /\ requested' = requested /\ vars_' = vars_
  BY DEF PutListDone, HandlerFits, Handler, histVars, objVars
<1>2. h'.pc \notin {"clear", "add"}
  BY <1>1 DEF PutListDone, Handler
<1>3. vars_[h.obj] = Resolved(requested[h.obj])
  <2>1. vars_[h.obj] \in Seq(ListNames \ {Unknown})
    BY <1>1
  <2>2. vars_[h.obj] \o <<>> = vars_[h.obj]
    BY <2>1, ConcatEmptySeq
  <2>3. vars_[h.obj] \o Resolved(h.list) = Resolved(requested[h.obj])
    BY <1>1 DEF Listed
  <2>4. QED
    BY <1>1, <2>2, <2>3, ResolvedIs
<1>4. QED
  BY <1>1, <1>2, <1>3 DEF Listed

\* Every step keeps the lists.
LEMMA ListsStep == ListsInv /\ [Next]_vars => ListsInv'
<1> SUFFICES ASSUME ListsInv, [Next]_vars PROVE \A o \in Objects : Listed(o)'
  BY TypedStep DEF ListsInv
<1> USE DEF mapVars, objVars, threadVars, pollVars, histVars
<1>0. Typed /\ \A o \in Objects : Listed(o)
  BY DEF ListsInv
<1>1. ASSUME NEW n \in Names, NEW k \in Kinds,
            NEW l \in VarLists \cup {NoList}, NEW c \in Cycles \cup {0},
            PutExisting(n, k, l, c) \/ PutNew(n, k, l, c)
      PROVE \A o \in Objects : Listed(o)'
  <2>1. h.pc = "idle" /\ UNCHANGED vars_
    BY <1>1 DEF PutExisting, PutNew, PutAllowed
  <2>2. \E o \in Objects : Update(o, l, c)
    BY <1>1 DEF PutExisting, PutNew, Existing, ListsInv, Typed, TypeOK
  <2>3. QED
    BY <2>1, <2>2, ListsUpdate
<1>2. ASSUME NEW n \in Names, DeleteDaq(n) PROVE \A o \in Objects : Listed(o)'
  <2>1. UNCHANGED <<vars_, requested>> /\ h.pc = "idle" /\ h'.pc = "signal"
    BY <1>2 DEF DeleteDaq, IdleHandler
  <2>2. QED
    BY <1>0, <2>1, ListsKept
<1>3. CASE EndSession
  <2>1. UNCHANGED <<vars_, requested>> /\ h.pc = "idle" /\ h'.pc = "next"
    BY <1>3 DEF EndSession, IdleHandler
  <2>2. QED
    BY <1>0, <2>1, ListsKept
<1>4. CASE PutClear
  BY <1>4, ListsClear
<1>5. CASE PutAdd
  BY <1>5, ListsAdd
<1>6. CASE PutListDone
  BY <1>6, ListsDone
<1>7. CASE SetCycle \/ FireSet \/ FireReset
  <2>1. UNCHANGED <<vars_, requested>>
    BY <1>7 DEF SetCycle, FireSet, FireReset
  <2>2. h.pc \notin {"clear", "add"} /\ h'.pc \notin {"clear", "add"}
    <3>1. h \in Handler
      BY <1>0 DEF Typed, TypeOK
    <3>2. CASE SetCycle
      BY <3>1, <3>2 DEF SetCycle, Handler
    <3>3. CASE FireSet
      BY <3>1, <3>3 DEF FireSet, Handler
    <3>4. CASE FireReset
      BY <3>1, <3>4 DEF FireReset, Handler, IdleHandler
    <3>5. QED
      BY <1>7, <3>2, <3>3, <3>4
  <2>3. QED
    BY <1>0, <2>1, <2>2, ListsKept
<1>8. CASE DtorSignal \/ DtorJoin \/ NextDaq
  <2>1. UNCHANGED <<vars_, requested>>
    BY <1>8 DEF DtorSignal, DtorJoin, NextDaq
  <2>2. h.pc \notin {"clear", "add"} /\ h'.pc \notin {"clear", "add"}
    <3>1. h \in Handler
      BY <1>0 DEF Typed, TypeOK
    <3>2. CASE DtorSignal
      BY <3>1, <3>2 DEF DtorSignal, Handler
    <3>3. CASE DtorJoin
      BY <3>1, <3>3 DEF DtorJoin, Handler, IdleHandler
    <3>4. CASE NextDaq
      <4>1. h' = IdleHandler
            \/ \E o \in Objects : h' = [h EXCEPT !.pc = "signal", !.obj = o]
        BY <1>0, <3>4 DEF NextDaq, Typed, TypeOK
      <4>2. h'.pc \in {"idle", "signal"}
        <5>1. \A o : [h EXCEPT !.pc = "signal", !.obj = o].pc = "signal"
          BY <3>1 DEF Handler
        <5>2. IdleHandler.pc = "idle"
          BY DEF IdleHandler
        <5>3. QED
          BY <4>1, <5>1, <5>2
      <4>3. QED
        BY <3>4, <4>2 DEF NextDaq
    <3>5. QED
      BY <1>8, <3>2, <3>3, <3>4
  <2>3. QED
    BY <1>0, <2>1, <2>2, ListsKept
<1>9. CASE PollStep
  <2>1. UNCHANGED <<vars_, requested, h>>
    BY <1>9 DEF PollStep, PollBegin, PollTimeout, PollLock, PollUnlock, PollDaq
  <2>2. QED
    BY <1>0, <2>1, ListsKept
<1>10. ASSUME NEW o \in Objects, CycleStep(o) \/ ExternalTic(o)
      PROVE \A p \in Objects : Listed(p)'
  <2>1. UNCHANGED <<vars_, requested, h>>
    BY <1>10 DEF CycleStep, CycleRead, CycleEnterSleep, CycleTimeout,
                 CycleWoken, TimerTic, TimerTicFire, ExternalTic
  <2>2. QED
    BY <1>0, <2>1, ListsKept
<1>11. CASE UNCHANGED vars
  <2>1. UNCHANGED <<vars_, requested, h>>
    BY <1>11 DEF vars
  <2>2. QED
    BY <1>0, <2>1, ListsKept
<1>12. QED
  BY <1>1, <1>2, <1>3, <1>4, <1>5, <1>6, <1>7, <1>8, <1>9, <1>10,
     <1>11
  DEF Next, Request, HandlerStep

\* The lists are always in order.
LEMMA ListsInvariant == Spec => []ListsInv
<1>1. QED
  BY ListsInit, ListsStep, PTL DEF Spec

\* AnswersMatchRequest: what a poll sends of a DAQ is all its last PUT asked
\* for, or, while a PUT is working on it, from ClearList on, an initial part of
\* that, and nothing of the list before (ClearList, AddVar and FormatAllData,
\* Daq.cpp), also when a PUT can find its name taken by a DAQ of the other kind.
THEOREM AnswersMatch == Spec => AnswersMatchRequest
<1>1. ASSUME ListsInv, NEW o \in Objects
      PROVE  LET all == Resolved(requested[o])
             IN  /\ h.obj # o => vars_[o] = all
                 /\ h.obj = o /\ h.pc # "clear" =>
                       /\ Len(vars_[o]) <= Len(all)
                       /\ vars_[o] = SubSeq(all, 1, Len(vars_[o]))
  <2>1. CASE h.obj = o /\ h.pc = "clear"
    BY <2>1
  <2>2. CASE h.obj = o /\ h.pc = "add"
    <3>1. vars_[o] \in Seq(ListNames) /\ h.list \in Seq(ListNames)
      BY <1>1, <2>2 DEF ListsInv, Typed, TypeOK, Handler
    <3>2. Resolved(h.list) \in Seq(ListNames)
      BY <3>1, ResolvedIs
    <3>3. Resolved(requested[o]) = vars_[o] \o Resolved(h.list)
      BY <1>1, <2>2 DEF ListsInv, Listed
    <3>4. Len(vars_[o]) \in Nat
      BY <3>1, LenProperties
    <3>5. SubSeq(vars_[o] \o Resolved(h.list), 1, Len(vars_[o])) = vars_[o]
      <4>1. CASE vars_[o] = <<>>
        <5>1. Len(vars_[o]) = 0 /\ 0 < 1
          BY <4>1, EmptySeq
        <5>2. SubSeq(vars_[o] \o Resolved(h.list), 1, 0) = <<>>
          BY SubSeqEmpty
        <5>3. QED
          BY <4>1, <5>1, <5>2
      <4>2. CASE vars_[o] # <<>>
        <5>1. 1 \in 1..Len(vars_[o]) /\ Len(vars_[o]) \in 1..Len(vars_[o])
          BY <3>1, <3>4, <4>2, EmptySeq
        <5>2. SubSeq(vars_[o] \o Resolved(h.list), 1, Len(vars_[o]))
                = SubSeq(vars_[o], 1, Len(vars_[o]))
          BY <3>1, <3>2, <5>1, SubSeqOfConcat1
        <5>3. QED
          BY <3>1, <5>2, SubSeqFull
      <4>3. QED
        BY <4>1, <4>2
    <3>6. Len(vars_[o]) <= Len(vars_[o] \o Resolved(h.list))
      <4>1. Len(vars_[o] \o Resolved(h.list))
              = Len(vars_[o]) + Len(Resolved(h.list))
        BY <3>1, <3>2, ConcatProperties, Zenon
      <4>2. Len(Resolved(h.list)) \in Nat
        BY <3>2, LenProperties
      <4>3. \A i, j \in Nat : i <= i + j
        OBVIOUS
      <4>4. Len(vars_[o]) <= Len(vars_[o]) + Len(Resolved(h.list))
        BY <3>4, <4>2, <4>3, Zenon
      <4>5. QED
        BY <4>1, <4>4, Zenon
    <3>7. QED
      BY <2>2, <3>3, <3>5, <3>6
  <2>3. CASE ~(h.obj = o /\ h.pc \in {"clear", "add"})
    <3>1. vars_[o] \in Seq(ListNames)
      BY <1>1 DEF ListsInv, Typed, TypeOK
    <3>2. vars_[o] = Resolved(requested[o])
      BY <1>1, <2>3 DEF ListsInv, Listed
    <3>3. SubSeq(vars_[o], 1, Len(vars_[o])) = vars_[o]
      BY <3>1, SubSeqFull
    <3>4. Len(vars_[o]) <= Len(vars_[o])
      BY <3>1, LenProperties
    <3>5. QED
      BY <3>2, <3>3, <3>4
  <2>4. QED
    BY <2>1, <2>2, <2>3
<1>2. ListsInv /\ [Next]_vars =>
         [\A o \in Objects : PollDaq(o) /\ pending[o] =>
             LET all == Resolved(requested[o])
             IN  /\ h.obj # o => vars_[o] = all
                 /\ h.obj = o /\ h.pc # "clear" =>
                       /\ Len(vars_[o]) <= Len(all)
                       /\ vars_[o] = SubSeq(all, 1, Len(vars_[o]))]_vars
  BY <1>1
<1>3. QED
  BY <1>2, ListsInvariant, PTL DEF Spec, AnswersMatchRequest

-----------------------------------------------------------------------------
(* Safety. *)

\* There is no DAQ at first.
LEMMA SafeInit == Init => SafeInv
<1> SUFFICES ASSUME Init PROVE Safe
  BY TypedInit DEF SafeInv
<1> USE DEF Init, IdleHandler
<1>1. Working
  BY DEF Working, PutPcs
<1>2. Allocated
  BY DEF Allocated, Mapped
<1>3. Threads
  BY DEF Threads
<1>4. ThreadOwnsLiveObject /\ FormattedDaqsAlive /\ NobodySleepsThroughSet
  BY SMTT(30)
  DEF ThreadOwnsLiveObject, FormattedDaqsAlive, NobodySleepsThroughSet
<1>5. QED
  BY <1>1, <1>2, <1>3, <1>4 DEF Safe

\* Every step keeps what the handler, the poll and the threads rely on.
LEMMA SafeStep == ~NameClashes /\ SafeInv /\ [Next]_vars => SafeInv'
<1> SUFFICES ASSUME ~NameClashes, SafeInv, [Next]_vars PROVE Safe'
  BY TypedStep DEF SafeInv, Safe
<1>0. h.pc = "next" => allocated = Mapped
  BY DEF SafeInv, Safe, Allocated
<1> USE Constants DEF mapVars, objVars, threadVars, pollVars, histVars,
        SafeInv, Safe, Typed, TypeOK, Handler, HandlerFits, Working, PutPcs,
        Allocated, Mapped, Threads, ThreadOwnsLiveObject, FormattedDaqsAlive,
        NobodySleepsThroughSet
<1>1. ASSUME NEW n \in Names, NEW k \in Kinds,
            NEW l \in VarLists \cup {NoList}, NEW c \in Cycles \cup {0},
            PutExisting(n, k, l, c)
      PROVE Safe'
  BY <1>1 DEF PutExisting, PutAllowed, Existing, Update
<1>2. ASSUME NEW n \in Names, NEW k \in Kinds,
            NEW l \in VarLists \cup {NoList}, NEW c \in Cycles \cup {0},
            PutNew(n, k, l, c)
      PROVE Safe'
  <2>1. Working'
    BY <1>2 DEF PutNew, PutAllowed, Existing, Update
  <2>2. Allocated'
    BY <1>2 DEF PutNew, PutAllowed, Existing, Update
  <2>3. PICK external \in BOOLEAN :
           /\ active' = [active EXCEPT ![nextObject] = ~external]
           /\ thread' = [thread EXCEPT ![nextObject] =
                                          IF external THEN "none" ELSE "read"]
    BY <1>2, DaqAssumption DEF PutNew
  <2>4. nextObject' = nextObject + 1
        /\ allocated' = allocated \cup {nextObject}
    BY <1>2 DEF PutNew
  <2>5. Threads'
    <3>1. \A o \in Objects : active'[o] <=> thread'[o] \notin {"none", "done"}
      <4>1. CASE external
        BY <2>3, <4>1
      <4>2. CASE ~external
        <5>1. active' = [active EXCEPT ![nextObject] = TRUE]
          BY <2>3, <4>2, Zenon
        <5>2. QED
          BY <2>3, <4>2, <5>1
      <4>3. QED
        BY <4>1, <4>2
    <3>2. \A o \in Objects : o >= nextObject' =>
             o \notin allocated' /\ thread'[o] = "none"
      BY <2>3, <2>4
    <3>3. QED
      BY <3>1, <3>2
  <2>6. ThreadOwnsLiveObject'
    BY <1>2, <2>3, <2>4 DEF PutNew, PutAllowed
  <2>7. FormattedDaqsAlive'
    BY <1>2, <2>4 DEF PutNew
  <2>8. NobodySleepsThroughSet'
    BY <1>2, <2>3 DEF PutNew
  <2>9. QED
    BY <2>1, <2>2, <2>5, <2>6, <2>7, <2>8
<1>3. ASSUME NEW n \in Names, DeleteDaq(n) PROVE Safe'
  <2>1. h'.pc = "signal" /\ h'.obj = daqMap[n] /\ ~h'.ending
    BY <1>3 DEF DeleteDaq, IdleHandler
  <2>2. Working'
    <3>1. sessionAlive' /\ sessOwner' = "h" /\ UNCHANGED poll
          /\ poll # "format"
      BY <1>3 DEF DeleteDaq, SessionUnlocked
    <3>2. QED
      BY <2>1, <3>1
  <2>3. Allocated'
    BY <1>3, <2>1 DEF DeleteDaq
  <2>4. Threads' /\ ThreadOwnsLiveObject' /\ FormattedDaqsAlive'
        /\ NobodySleepsThroughSet'
    BY <1>3 DEF DeleteDaq
  <2>5. QED
    BY <2>2, <2>3, <2>4
<1>4. CASE EndSession
  BY <1>4 DEF EndSession, IdleHandler
<1>5. CASE PutClear
  BY <1>5 DEF PutClear
<1>6. CASE PutAdd
  <2>1. h'.pc = h.pc /\ h'.obj = h.obj /\ h'.ending = h.ending
    BY <1>6 DEF PutAdd
  <2>2. Working'
    BY <1>6, <2>1 DEF PutAdd
  <2>3. Allocated' /\ Threads' /\ ThreadOwnsLiveObject'
        /\ FormattedDaqsAlive' /\ NobodySleepsThroughSet'
    BY <1>6, <2>1 DEF PutAdd
  <2>4. QED
    BY <2>2, <2>3
<1>7. CASE PutListDone
  BY <1>7 DEF PutListDone
<1>8. CASE SetCycle
  BY <1>8 DEF SetCycle
<1>9. CASE FireSet
  BY <1>9 DEF FireSet, SetWake
<1>10. CASE FireReset
  BY <1>10 DEF FireReset, IdleHandler
<1>11. CASE DtorSignal
  <2>1. Working' /\ Allocated' /\ FormattedDaqsAlive'
    BY <1>11 DEF DtorSignal
  <2>2. CASE active[h.obj] /\ SetWake(h.obj)
    BY <1>11, <2>1, <2>2 DEF DtorSignal, SetWake
  <2>3. CASE UNCHANGED <<wake, thread>>
    BY <1>11, <2>1, <2>3 DEF DtorSignal
  <2>4. QED
    BY <1>11, <2>2, <2>3 DEF DtorSignal
<1>12. CASE DtorJoin
  BY <1>12, SMTT(30) DEF DtorJoin, IdleHandler
<1>13. CASE NextDaq
  <2>1. CASE /\ Mapped = {} /\ sessionAlive' = FALSE /\ h' = IdleHandler
             /\ UNCHANGED <<daqMap, terminate>>
    <3>1. /\ h.pc = "next" /\ UNCHANGED <<sessOwner, daqMap, thread>>
          /\ UNCHANGED <<allocated, nextObject, active, wake, poll, todo>>
          /\ h'.pc = "idle" /\ ~h'.ending /\ allocated = {}
      <4>1. h.pc = "next" /\ allocated = {}
        BY <1>0, <1>13, <2>1, Zenon DEF NextDaq
      <4>2. h'.pc = "idle" /\ ~h'.ending
        BY <2>1 DEF IdleHandler
      <4>3. QED
        BY <1>13, <2>1, <4>1, <4>2 DEF NextDaq
    <3>2. Working'
      BY <2>1, <3>1
    <3>3. Allocated'
      <4>1. Mapped' = Mapped
        BY <3>1
      <4>2. Mapped' = {} /\ allocated' = {}
        BY <2>1, <3>1, <4>1, Zenon
      <4>3. QED
        BY <3>1, <4>2
    <3>4. Threads' /\ FormattedDaqsAlive' /\ NobodySleepsThroughSet'
      BY <3>1
    <3>5. ThreadOwnsLiveObject'
      BY <3>1
    <3>6. QED
      BY <3>2, <3>3, <3>4, <3>5
  <2>2. ASSUME NEW n \in Names, daqMap[n] # 0,
               h' = [h EXCEPT !.pc = "signal", !.obj = daqMap[n]],
               daqMap' = [daqMap EXCEPT ![n] = 0], UNCHANGED sessionAlive
        PROVE  Safe'
    <3>1. h'.pc = "signal" /\ h'.obj = daqMap[n] /\ h'.ending = h.ending
      BY <2>2
    <3>2. Working'
      <4>1. h.ending /\ sessionAlive /\ UNCHANGED <<poll, sessOwner>>
        BY <1>13 DEF NextDaq
      <4>2. QED
        BY <2>2, <3>1, <4>1
    <3>3. Allocated'
      <4>1. h.pc = "next" /\ UNCHANGED allocated
        BY <1>13 DEF NextDaq
      <4>2. Mapped' = Mapped \ {daqMap[n]} /\ daqMap[n] \in Mapped
        BY <2>2
      <4>3. QED
        BY <2>2, <3>1, <4>1, <4>2
    <3>4. Threads' /\ ThreadOwnsLiveObject' /\ FormattedDaqsAlive'
          /\ NobodySleepsThroughSet'
      BY <1>13, <2>2 DEF NextDaq
    <3>5. QED
      BY <3>2, <3>3, <3>4
  <2>3. QED
    BY <1>13, <2>1, <2>2 DEF NextDaq
<1>14. CASE PollBegin
  <2>1. Working'
    BY <1>14 DEF PollBegin
  <2>2. Allocated' /\ Threads' /\ ThreadOwnsLiveObject'
        /\ FormattedDaqsAlive' /\ NobodySleepsThroughSet'
    BY <1>14 DEF PollBegin
  <2>3. QED
    BY <2>1, <2>2
<1>15. CASE PollTimeout
  BY <1>15 DEF PollTimeout
<1>16. CASE PollLock
  BY <1>16 DEF PollLock, SessionUnlocked
<1>17. CASE PollUnlock
  BY <1>17 DEF PollUnlock
<1>18. ASSUME NEW o \in Objects, PollDaq(o) PROVE Safe'
  BY <1>18 DEF PollDaq
<1>19. ASSUME NEW o \in Objects, CycleRead(o) PROVE Safe'
  BY <1>19, SMTT(30) DEF CycleRead
<1>20. ASSUME NEW o \in Objects, CycleEnterSleep(o) PROVE Safe'
  BY <1>20, SMTT(30) DEF CycleEnterSleep
<1>21. ASSUME NEW o \in Objects, CycleTimeout(o) PROVE Safe'
  BY <1>21, SMTT(30) DEF CycleTimeout
<1>22. ASSUME NEW o \in Objects, CycleWoken(o) PROVE Safe'
  <2>1. CASE terminate[o]
    <3>1. active' = [active EXCEPT ![o] = FALSE]
      BY <1>22, <2>1, Zenon DEF CycleWoken
    <3>2. QED
      BY <1>22, <2>1, <3>1 DEF CycleWoken
  <2>2. CASE ~terminate[o]
    <3>1. active' = [active EXCEPT ![o] = TRUE]
      BY <1>22, <2>2, Zenon DEF CycleWoken
    <3>2. QED
      BY <1>22, <2>2, <3>1, SMTT(30) DEF CycleWoken
  <2>3. QED
    BY <2>1, <2>2
<1>23. ASSUME NEW o \in Objects, TimerTic(o) PROVE Safe'
  BY <1>23 DEF TimerTic
<1>24. ASSUME NEW o \in Objects, TimerTicFire(o) PROVE Safe'
  BY <1>24, SMTT(30) DEF TimerTicFire
<1>25. ASSUME NEW o \in Objects, ExternalTic(o) PROVE Safe'
  BY <1>25 DEF ExternalTic
<1>26. CASE UNCHANGED vars
  BY <1>26 DEF vars
<1>27. QED
  BY <1>1, <1>2, <1>3, <1>4, <1>5, <1>6, <1>7, <1>8, <1>9, <1>10,
     <1>11, <1>12, <1>13, <1>14, <1>15, <1>16, <1>17, <1>18, <1>19,
     <1>20, <1>21, <1>22, <1>23, <1>24, <1>25, <1>26
  DEF Next, Request, HandlerStep, PollStep, CycleStep

\* DaqInv: threads, polls and handlers find the DAQ they work on, and a DAQ
\* can be found until it is destroyed (Daq.cpp, Session.cpp), for any number
\* of DAQs, if no PUT names a DAQ of the other kind: then a DAQ the map does
\* not take would outlive its session.
THEOREM DaqsAreSafe == ~NameClashes => (Spec => []DaqInv)
<1> SUFFICES ASSUME ~NameClashes PROVE Spec => []DaqInv
  OBVIOUS
<1>1. SafeInv /\ [Next]_vars => SafeInv'
  BY SafeStep
<1>2. SafeInv => DaqInv
  BY DEF SafeInv, Safe, Typed, DaqInv, DaqsReachable, Allocated
<1>3. QED
  BY SafeInit, <1>1, <1>2, PTL DEF Spec
=============================================================================
