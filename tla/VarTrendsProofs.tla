-------------------------- MODULE VarTrendsProofs --------------------------
(***************************************************************************)
(* Proofs about VarTrends, for any number of workers, variables, trends,   *)
(* ticks and builds of the list, when clients keep the variable of a trend *)
(* and the HTTP server is stopped before the interface (Orderly).          *)
(*                                                                         *)
(* ControlInv says what the workers, the list, the trend lists and the     *)
(* pace thread agree on: who holds the session list is alone with a trend  *)
(* between its two halves; one request builds the list, object by object;  *)
(* a registered trend is traced from where it is registered; the pace      *)
(* thread holds the mutex of the variable it feeds, so that the trends it  *)
(* has still to write to stay on that variable's list.  RecordInv then     *)
(* counts what a trend has recorded against the value of its variable.     *)
(***************************************************************************)
EXTENDS VarTrends, TLAPS, SequenceTheorems, WellFoundedInduction

\* The deployment in which clients keep the variable of a trend and the HTTP
\* server is stopped before the interface.
Orderly == ~SwitchesVar /\ ServerStopsFirst

\* Trends the pace thread has still to write the newest value to.
Pending(t) == pace.pc \in {"feed", "write"}
              /\ (t \in pace.left \/ (t = pace.trend /\ t # None))

\* Who holds the session list.
Holds(w) == pc[w] \in {"found", "setVar", "remove"}

\* The arguments of a request fit what it is doing.
WorkersFit ==
    /\ \A w \in Workers :
          /\ pc[w] \in {"idle", "dispatch"} => arg[w] = NoArg
          /\ pc[w] = "build" => /\ arg[w].n < NumVars /\ arg[w].var = None
                                /\ built > 0
          /\ pc[w] \in {"found", "setVar"} =>
                /\ arg[w].var \in Vars /\ arg[w].trend \in Trends
                /\ life[arg[w].trend] = "live"
                /\ traced[arg[w].trend] = arg[w].var
                   \/ (pc[w] = "found" /\ traced[arg[w].trend] = None)
          /\ pc[w] = "remove" => /\ arg[w].trend \in Trends
                                 /\ life[arg[w].trend] = "dying"
    /\ \A u, w \in Workers : Holds(u) /\ Holds(w) => u = w
    /\ main # "serving" => \A w \in Workers : pc[w] = "idle"
    /\ RequestVarAlive

\* The list and what the logger links to belong to the last builds of it.
ListFits ==
    /\ firstRequest => built <= changes
    /\ \A v \in allocated :
          /\ v[2] <= built
          /\ \A w \in Workers :
                pc[w] = "build" /\ v[2] = built => v[1] <= arg[w].n
    /\ \A u, w \in Workers : pc[u] = "build" /\ pc[w] = "build" => u = w
    /\ \A n \in Names : link[n] # None =>
          /\ link[n] \in Vars /\ link[n][1] = n
          /\ main # "done" => link[n] \in allocated
    /\ \A i \in DOMAIN measVars : measVars[i] \in allocated
    /\ changes = 0 =>
          /\ \A v \in allocated : link[v[1]] = v
          /\ firstRequest => \A w \in Workers : pc[w] = "idle"
    /\ NoReaderWhileBuilding

\* A trend is on the list of the variable it traces, and has one name.
Registered ==
    /\ \A v \in Vars : \A t \in trendsOf[v] :
          v \in allocated /\ traced[t] = v /\ life[t] \in {"live", "dying"}
    /\ \A d \in DaqNames : daqs[d] # None => life[daqs[d]] = "live"
    /\ \A c, d \in DaqNames : daqs[c] = daqs[d] /\ daqs[c] # None => c = d
    /\ \A t \in Trends : life[t] = "none" => traced[t] = None

\* In a round the variables up to the pace thread's are one tick ahead.
Values ==
    /\ pace.pc = "sleep" => \A m, n \in Names : value[m] = value[n]
    /\ pace.pc = "var" => \A m \in Names :
          /\ m < pace.n => value[m] = value[pace.n] + 1
          /\ m >= pace.n => value[m] = value[pace.n] /\ value[m] < MaxTick
    /\ pace.pc \in {"feed", "write"} => \A m \in Names :
          /\ m <= pace.n => value[m] = value[pace.n]
          /\ m > pace.n => value[m] + 1 = value[pace.n]

\* The pace thread holds what it feeds, and the array it writes to.
PaceFits ==
    /\ pace.pc = "sleep" <=> pace.n = 0
    /\ main \notin {"serving", "stopPace"} => pace.pc = "sleep"
    /\ pace.pc \in {"feed", "write"} =>
          /\ pace.var \in allocated /\ pace.var[1] = pace.n
          /\ varOwner[pace.var] = Pace
          /\ \A t \in Trends : Pending(t) => t \in trendsOf[pace.var]
    /\ pace.pc # "write" => pace.trend = None
    /\ pace.pc = "write" =>
          /\ pace.trend \in Trends /\ pace.trend \notin pace.left
          /\ life[pace.trend] = "live" => array[pace.trend] = pace.array

\* What a trend has recorded is complete up to the value it has to get next.
Recorded(t) == sent[t] \o queue[t]

Gathered(t) ==
    /\ life[t] = "none" => Recorded(t) = <<>>
    /\ life[t] = "live" =>
          /\ \E d \in DaqNames : daqs[d] = t
          /\ \A i \in DOMAIN Recorded(t) : Recorded(t)[i] = since[t] + i
          /\ (\A v \in Vars : t \notin trendsOf[v]) => Recorded(t) = <<>>
          /\ Pending(t) => Len(Recorded(t)) + 1 = value[pace.n] - since[t]
          /\ ~Pending(t) => \A v \in Vars :
                 t \in trendsOf[v] /\ link[v[1]] = v =>
                     Len(Recorded(t)) = value[v[1]] - since[t]

ControlInv ==
    TypeOK /\ WorkersFit /\ ListFits /\ Registered /\ Values /\ PaceFits
RecordInv == \A t \in Trends : Gathered(t)
-----------------------------------------------------------------------------
(* Types. *)

\* The locals of a worker and of the pace thread.
Args == [var : Vars \cup {None}, trend : Trends \cup {None}, n : 0..NumVars]
Paces == [pc : {"sleep", "var", "feed", "write"}, n : 0..NumVars,
          var : Vars \cup {None}, left : SUBSET Trends,
          trend : Trends \cup {None}, array : Nat]

\* A set of numbers has a least element.
LEMMA Least ==
    ASSUME NEW T, T \subseteq Nat, T # {}
    PROVE  \E x \in T : \A y \in T : x <= y
<1> DEFINE R == OpToRel(<, Nat)
<1>1. IsWellFoundedOn(R, Nat)
  BY NatLessThanWellFounded
<1>2. PICK x \in T : \A y \in T : <<y, x>> \notin R
  <2> HIDE DEF R
  <2>1. QED
    BY <1>1, WFMin
<1>3. ASSUME NEW y \in T PROVE x <= y
  <2>1. <<y, x>> \notin {ss \in Nat \X Nat : ss[1] < ss[2]}
    BY <1>2 DEF OpToRel
  <2>2. x \in Nat /\ y \in Nat
    OBVIOUS
  <2>3. QED
    BY <2>1, <2>2
<1>4. QED
  BY <1>3

\* Whoever looks for a variable finds an object in the list, or None.
LEMMA FindIs ==
    ASSUME TypeOK, NEW n \in Names
    PROVE  /\ FindVariable(n) \in Vars \cup {None}
           /\ FindVariable(n) # None =>
                 \E i \in DOMAIN measVars : FindVariable(n) = measVars[i]
<1> DEFINE hits == {i \in DOMAIN measVars : measVars[i][1] = n}
           first == CHOOSE i \in hits : \A j \in hits : i <= j
<1>1. measVars \in Seq(Vars) /\ DOMAIN measVars = 1..Len(measVars)
      /\ Len(measVars) \in Nat
  BY LenProperties DEF TypeOK
<1>2. CASE hits = {}
  BY <1>2 DEF FindVariable
<1>3. CASE hits # {}
  <2>1. hits \subseteq Nat
    BY <1>1
  <2>2. first \in hits
    <3> HIDE DEF hits
    <3>1. \E i \in hits : \A j \in hits : i <= j
      BY <1>3, <2>1, Least
    <3>2. QED
      BY <3>1
  <2>3. FindVariable(n) = measVars[first]
    BY <1>3 DEF FindVariable
  <2> HIDE DEF first
  <2>4. first \in DOMAIN measVars
    BY <2>2
  <2>5. measVars[first] \in Vars
    BY <1>1, <2>4, ElementOfSeq
  <2>6. QED
    BY <2>3, <2>4, <2>5
<1>4. QED
  BY <1>2, <1>3

\* The values of the constants, as the steps use them.
LEMMA Constants ==
    /\ NoArg \in Args /\ Asleep \in Paces
    /\ None \notin Vars /\ None \notin Trends /\ None # Pace
    /\ NumVars \in Names /\ Names \subseteq Nat \ {0}
    /\ \A n \in Nat : n < NumVars => n + 1 \in Names
    /\ \A v \in Vars : v[1] \in Names
<1>1. None \notin Vars /\ None \notin Trends /\ None # Pace
  BY TrendAssumption DEF Pace
<1>2. NoArg \in Args
  BY TrendAssumption DEF NoArg, Args
<1>3. Asleep \in Paces
  BY TrendAssumption DEF Asleep, Paces
<1>4. NumVars \in Names /\ Names \subseteq Nat \ {0}
      /\ \A n \in Nat : n < NumVars => n + 1 \in Names
  BY TrendAssumption DEF Names
<1>5. \A v \in Vars : v[1] \in Names
  BY DEF Vars
<1>6. QED
  BY <1>1, <1>2, <1>3, <1>4, <1>5

\* Everything starts with its type.
LEMMA TypeInit == Init => TypeOK
<1> SUFFICES ASSUME Init PROVE TypeOK
  OBVIOUS
<1> USE DEF Init
<1>1. /\ firstRequest \in BOOLEAN /\ changes \in 0..(MaxBuild - 1)
      /\ built \in 0..(changes + 1)
  BY TrendAssumption
<1>2. /\ measVars \in Seq(Vars) /\ allocated \subseteq Vars
      /\ link \in [Names -> Vars \cup {None}]
      /\ trendsOf \in [Vars -> SUBSET Trends]
      /\ varOwner \in [Vars -> {None, Pace}]
      /\ daqs \in [DaqNames -> Trends \cup {None}]
      /\ life \in [Trends -> {"none", "live", "dying", "freed"}]
      /\ traced \in [Trends -> Vars \cup {None}]
  OBVIOUS
<1>3. /\ array \in [Trends -> Nat]
      /\ queue \in [Trends -> Seq(Nat)] /\ sent \in [Trends -> Seq(Nat)]
  OBVIOUS
<1>4. since \in [Trends -> 0..MaxTick] /\ value \in [Names -> 0..MaxTick]
  BY TrendAssumption
<1>5. pace \in Paces /\ arg \in [Workers -> Args]
  BY Constants
<1>6. /\ pc \in [Workers -> {"idle", "build", "dispatch", "use", "found",
                             "setVar", "remove"}]
      /\ main \in {"serving", "stopPace", "destroy", "clear", "done"}
  OBVIOUS
<1>7. QED
  BY <1>1, <1>2, <1>3, <1>4, <1>5, <1>6 DEF TypeOK, Paces, Args

\* What a worker and the pace thread look at has its type.
LEMMA Locals ==
    ASSUME TypeOK
    PROVE  /\ arg \in [Workers -> Args] /\ pace \in Paces
           /\ \A v \in Vars \cup {None}, t \in Trends \cup {None} :
                 \A w \in Workers :
                    /\ [arg[w] EXCEPT !.var = v, !.trend = t] \in Args
                    /\ [arg[w] EXCEPT !.var = v] \in Args
                    /\ [arg[w] EXCEPT !.trend = t] \in Args
           /\ \A w \in Workers : \A n \in Names :
                 [arg[w] EXCEPT !.n = n] \in Args
<1>1. arg \in [Workers -> Args] /\ pace \in Paces
  BY DEF TypeOK, Args, Paces
<1>2. \A w \in Workers : arg[w] \in Args
  BY <1>1
<1>3. \A n \in Names : n \in 0..NumVars
  BY TrendAssumption DEF Names
<1>4. QED
  BY <1>1, <1>2, <1>3 DEF Args

\* An argument is replaced.
LEMMA ArgSet ==
    ASSUME TypeOK, NEW w \in Workers, NEW a \in Args,
           arg' = [arg EXCEPT ![w] = a]
    PROVE  arg' \in [Workers -> Args]
<1>1. arg \in [Workers -> Args]
  BY Locals
<1>2. QED
  BY <1>1

\* The steps of the workers keep the types.
LEMMA TypeWorkers ==
    ASSUME TypeOK, ListFits, WorkersFit, NEW w \in Workers,
           Arrive(w) \/ WorkerStep(w)
    PROVE  TypeOK'
<1> USE Constants DEF TypeOK, list, heap, records, registry, thePace, Goto
<1>0. arg \in [Workers -> Args] /\ arg[w] \in Args
  BY Locals
<1>a. ASSUME arg' \in [Workers -> Args]
      PROVE  arg' \in [Workers -> [var : Vars \cup {None},
                                  trend : Trends \cup {None}, n : 0..NumVars]]
  BY <1>a DEF Args
<1>b. ASSUME Answer(w)
      PROVE  arg' \in [Workers -> Args] /\ pc' = [pc EXCEPT ![w] = "idle"]
  BY <1>b, <1>0 DEF Answer
<1>1. CASE Arrive(w)
  <2>1. built' \in 0..(changes' + 1)
    BY <1>1, SMTT(30) DEF Arrive, ListFits
  <2>2. QED
    BY <1>1, <2>1, ZenonT(30) DEF Arrive
<1>2. CASE OnGetVariableList(w)
  <2>1. arg[w].n \in Nat /\ arg[w].n < NumVars /\ arg[w].n + 1 \in Names
    <3>1. arg[w].n \in 0..NumVars
      BY <1>0 DEF Args
    <3>2. arg[w].n < NumVars
      BY <1>2 DEF OnGetVariableList, WorkersFit
    <3>3. QED
      BY <3>1, <3>2, TrendAssumption
  <2>2. built \in 1..MaxBuild
    <3>1. built > 0
      BY <1>2 DEF OnGetVariableList, WorkersFit
    <3>2. built \in 0..(changes + 1) /\ changes \in 0..(MaxBuild - 1)
      OBVIOUS
    <3>3. QED
      BY <3>1, <3>2, TrendAssumption
  <2>3. <<arg[w].n + 1, built>> \in Vars
    BY <2>1, <2>2 DEF Vars
  <2>4. arg' \in [Workers -> Args]
    <3>1. [arg[w] EXCEPT !.n = arg[w].n + 1] \in Args
      BY <2>1, Locals
    <3>2. CASE arg[w].n + 1 < NumVars
      <4>1. arg' = [arg EXCEPT ![w].n = arg[w].n + 1]
        BY <1>2, <3>2 DEF OnGetVariableList
      <4>2. arg' = [arg EXCEPT ![w] = [arg[w] EXCEPT !.n = arg[w].n + 1]]
        BY <4>1
      <4>3. QED
        BY <3>1, <4>2, ArgSet
    <3>3. CASE ~(arg[w].n + 1 < NumVars)
      <4>1. arg' = [arg EXCEPT ![w] = NoArg]
        BY <1>2, <3>3 DEF OnGetVariableList
      <4>2. QED
        BY <4>1, ArgSet
    <3>4. QED
      BY <3>2, <3>3
  <2>5. pc' \in [Workers -> {"idle", "build", "dispatch", "use", "found",
                             "setVar", "remove"}]
    BY <1>2 DEF OnGetVariableList
  <2>6. /\ measVars' \in Seq(Vars) /\ allocated' \subseteq Vars
        /\ link' \in [Names -> Vars \cup {None}]
    BY <1>2, <2>1, <2>3, AppendProperties, ZenonT(30) DEF OnGetVariableList
  <2>7. QED
    BY <1>2, <1>a, <2>4, <2>5, <2>6, ZenonT(30) DEF OnGetVariableList
<1>3. CASE UseVariable(w)
  <2>1. PICK n \in Names :
           LET v == FindVariable(n)
           IN  IF v = None THEN Answer(w)
               ELSE arg' = [arg EXCEPT ![w].var = v] /\ Goto(w, "use")
    BY <1>3 DEF UseVariable
  <2>2. arg' \in [Workers -> Args] /\ \E p \in {"idle", "use"} :
                                        pc' = [pc EXCEPT ![w] = p]
    <3>1. CASE Answer(w)
      BY <1>b, <3>1
    <3>2. CASE arg' = [arg EXCEPT ![w].var = FindVariable(n)] /\ Goto(w, "use")
      <4>1. [arg[w] EXCEPT !.var = FindVariable(n)] \in Args
        BY FindIs, Locals
      <4>2. QED
        BY <1>0, <3>2, <4>1
    <3>3. QED
      BY <2>1, <3>1, <3>2
  <2>3. pc' \in [Workers -> {"idle", "build", "dispatch", "use", "found",
                             "setVar", "remove"}]
    BY <2>2, SMTT(30)
  <2>4. QED
    BY <1>3, <1>a, <2>2, <2>3, ZenonT(30) DEF UseVariable
<1>4. CASE UsedVariable(w)
  BY <1>4, <1>a, <1>b, ZenonT(30) DEF UsedVariable
<1>5. CASE PutDaqTrend(w)
  <2> DEFINE new == CHOOSE u \in Trends : life[u] = "none"
  <2>1. PICK d \in DaqNames, n \in Names :
           LET v == FindVariable(n)
               t == daqs[d]
           IN  \/ /\ v = None
                  /\ Answer(w)
                  /\ UNCHANGED <<daqs, life, array>>
               \/ /\ v # None /\ t # None
                  /\ SwitchesVar \/ traced[t] = v
                  /\ arg' = [arg EXCEPT ![w] =
                                [@ EXCEPT !.var = v, !.trend = t]]
                  /\ Goto(w, "found")
                  /\ UNCHANGED <<daqs, life, array>>
               \/ /\ v # None /\ t = None
                  /\ \E u \in Trends : life[u] = "none"
                  /\ daqs' = [daqs EXCEPT ![d] = new]
                  /\ life' = [life EXCEPT ![new] = "live"]
                  /\ array' = [array EXCEPT ![new] = 1]
                  /\ arg' = [arg EXCEPT ![w] =
                               [@ EXCEPT !.var = v, !.trend = new]]
                  /\ Goto(w, "found")
    BY <1>5 DEF PutDaqTrend
  <2>2. FindVariable(n) \in Vars \cup {None}
    BY FindIs
  <2>3. CASE Answer(w) /\ UNCHANGED <<daqs, life, array>>
    <3>1. arg' \in [Workers -> Args] /\ pc' = [pc EXCEPT ![w] = "idle"]
      BY <1>b, <2>3
    <3>2. pc' \in [Workers -> {"idle", "build", "dispatch", "use", "found",
                               "setVar", "remove"}]
      BY <3>1
    <3>3. QED
      BY <1>5, <1>a, <2>3, <3>1, <3>2, ZenonT(30) DEF PutDaqTrend
  <2>4. CASE /\ arg' = [arg EXCEPT ![w] = [@ EXCEPT !.var = FindVariable(n),
                                                    !.trend = daqs[d]]]
             /\ Goto(w, "found") /\ UNCHANGED <<daqs, life, array>>
    <3>1. arg' \in [Workers -> Args]
      <4>1. [arg[w] EXCEPT !.var = FindVariable(n), !.trend = daqs[d]] \in Args
        BY <2>2, Locals
      <4>2. QED
        BY <1>0, <2>4, <4>1
    <3>2. QED
      BY <1>5, <1>a, <2>4, <3>1, ZenonT(30) DEF PutDaqTrend
  <2>5. CASE /\ \E u \in Trends : life[u] = "none"
             /\ daqs' = [daqs EXCEPT ![d] = new]
             /\ life' = [life EXCEPT ![new] = "live"]
             /\ array' = [array EXCEPT ![new] = 1]
             /\ arg' = [arg EXCEPT ![w] = [@ EXCEPT !.var = FindVariable(n),
                                                    !.trend = new]]
             /\ Goto(w, "found")
    <3>1. new \in Trends
      BY <2>5
    <3> HIDE DEF new
    <3>2. arg' \in [Workers -> Args]
      <4>1. [arg[w] EXCEPT !.var = FindVariable(n), !.trend = new] \in Args
        BY <2>2, <3>1, Locals
      <4>2. QED
        BY <1>0, <2>5, <4>1
    <3>3. QED
      BY <1>5, <1>a, <2>5, <3>1, <3>2, ZenonT(30) DEF PutDaqTrend
  <2>6. QED
    BY <2>1, <2>3, <2>4, <2>5
<1>6. CASE SetVar(w)
  <2>1. arg[w].var \in Vars \cup {None}
    BY <1>0 DEF Args
  <2>2. QED
    BY <1>6, <2>1, ZenonT(30) DEF SetVar
<1>7. CASE AddTrend(w)
  <2>1. arg[w].var \in Vars /\ arg[w].trend \in Trends
    BY <1>7 DEF AddTrend, WorkersFit
  <2>2. value[arg[w].var[1]] \in 0..MaxTick
    BY <2>1
  <2>3. since' \in [Trends -> 0..MaxTick]
    BY <1>7, <2>2 DEF AddTrend
  <2>4. trendsOf' \in [Vars -> SUBSET Trends]
    BY <1>7, <2>1, SMTT(30) DEF AddTrend
  <2>5. QED
    BY <1>7, <1>a, <1>b, <2>3, <2>4, ZenonT(30) DEF AddTrend
<1>8. CASE DeleteDaq(w)
  <2>1. PICK d \in DaqNames :
           IF daqs[d] = None
           THEN Answer(w) /\ UNCHANGED <<daqs, life, array>>
           ELSE /\ daqs' = [daqs EXCEPT ![d] = None]
                /\ DeleteArray(daqs[d])
                /\ arg' = [arg EXCEPT ![w].trend = daqs[d]]
                /\ Goto(w, "remove")
    BY <1>8 DEF DeleteDaq
  <2>2. CASE daqs[d] = None
    <3>1. Answer(w) /\ UNCHANGED <<daqs, life, array>>
      BY <2>1, <2>2
    <3>2. arg' \in [Workers -> Args] /\ pc' = [pc EXCEPT ![w] = "idle"]
      BY <1>b, <3>1
    <3>3. pc' \in [Workers -> {"idle", "build", "dispatch", "use", "found",
                               "setVar", "remove"}]
      BY <3>2
    <3>4. QED
      BY <1>8, <1>a, <3>1, <3>2, <3>3 DEF DeleteDaq
  <2>3. CASE daqs[d] # None
    <3>1. arg' \in [Workers -> Args]
      <4>1. [arg[w] EXCEPT !.trend = daqs[d]] \in Args
        BY Locals
      <4>2. QED
        <5>1. arg' = [arg EXCEPT ![w] = [arg[w] EXCEPT !.trend = daqs[d]]]
          BY <2>1, <2>3
        <5>2. QED
          BY <4>1, <5>1, ArgSet
    <3>2. QED
      <4>1. /\ life' \in [Trends -> {"none", "live", "dying", "freed"}]
            /\ array' \in [Trends -> Nat]
            /\ daqs' \in [DaqNames -> Trends \cup {None}]
        <5>1. life' \in [Trends -> {"none", "live", "dying", "freed"}]
          BY <2>1, <2>3 DEF DeleteArray
        <5>2. array' \in [Trends -> Nat]
          <6>1. array' = [array EXCEPT ![daqs[d]] = 0]
            BY <2>1, <2>3 DEF DeleteArray
          <6>2. array \in [Trends -> Nat]
            OBVIOUS
          <6>3. QED
            BY <6>1, <6>2, Zenon
        <5>3. daqs' \in [DaqNames -> Trends \cup {None}]
          BY <2>1, <2>3
        <5>4. QED
          BY <5>1, <5>2, <5>3
      <4>2. pc' \in [Workers -> {"idle", "build", "dispatch", "use", "found",
                                 "setVar", "remove"}]
        BY <2>1, <2>3
      <4>3. QED
        BY <1>8, <1>a, <3>1, <4>1, <4>2, ZenonT(30) DEF DeleteDaq
  <2>4. QED
    BY <2>2, <2>3
<1>9. CASE DeleteDaqEnd(w)
  <2>1. /\ trendsOf' \in [Vars -> SUBSET Trends]
        /\ life' \in [Trends -> {"none", "live", "dying", "freed"}]
    BY <1>9 DEF DeleteDaqEnd, RemoveTrend
  <2>2. QED
    BY <1>9, <1>a, <1>b, <2>1, ZenonT(30) DEF DeleteDaqEnd
<1>10. CASE PollTrend(w)
  <2>1. PICK d \in DaqNames : daqs[d] # None /\ FormatAllData(daqs[d])
    BY <1>10 DEF PollTrend
  <2>2. daqs[d] \in Trends
    BY <2>1
  <2>3. sent[daqs[d]] \o queue[daqs[d]] \in Seq(Nat) /\ <<>> \in Seq(Nat)
    BY <2>2, ConcatProperties
  <2>4. /\ array' \in [Trends -> Nat]
        /\ queue' \in [Trends -> Seq(Nat)] /\ sent' \in [Trends -> Seq(Nat)]
    <3>1. array[daqs[d]] + 1 \in Nat
      BY <2>2, SMTT(30)
    <3>2. QED
      BY <2>1, <2>2, <2>3, <3>1 DEF FormatAllData
  <2>5. QED
    BY <1>10, <1>a, <1>b, <2>4, ZenonT(30) DEF PollTrend
<1>11. QED
  BY <1>1, <1>2, <1>3, <1>4, <1>5, <1>6, <1>7, <1>8, <1>9, <1>10
  DEF WorkerStep

\* The steps of the pace thread and of main keep the types.
LEMMA TypeOthers ==
    ASSUME TypeOK, ListFits, Values, PaceFits,
           PaceStep \/ VarlistChanged \/ StopServer \/ MainStep
    PROVE  TypeOK'
<1> USE Constants DEF TypeOK, list, heap, records, registry, thePace
<1>0. pace \in Paces
  BY Locals
<1>a. ASSUME pace' \in Paces
      PROVE  pace' \in [pc : {"sleep", "var", "feed", "write"}, n : 0..NumVars,
                        var : Vars \cup {None}, left : SUBSET Trends,
                        trend : Trends \cup {None}, array : Nat]
  BY <1>a DEF Paces
<1>b. ASSUME pace.pc # "sleep" PROVE pace.n \in Names
  <2>1. pace.n \in 0..NumVars /\ pace.n # 0
    BY <1>0, <1>b DEF Paces, PaceFits
  <2>2. QED
    BY <2>1, TrendAssumption DEF Names
<1>c. ASSUME pace.pc # "sleep" PROVE NextVar \in Paces
  <2>1. CASE pace.n < NumVars
    <3>1. pace.n + 1 \in 0..NumVars
      BY <1>b, <1>c, <2>1, TrendAssumption, SMTT(30) DEF Names
    <3>2. [Asleep EXCEPT !.pc = "var", !.n = pace.n + 1] \in Paces
      BY <3>1 DEF Paces
    <3>3. QED
      BY <2>1, <3>2 DEF NextVar
  <2>2. CASE ~(pace.n < NumVars)
    BY <2>2 DEF NextVar
  <2>3. QED
    BY <2>1, <2>2
<1>1. CASE Tick
  <2>1. 1 \in 0..NumVars
    BY TrendAssumption
  <2>2. pace' \in Paces
    BY <1>1, <2>1 DEF Tick, Paces
  <2>3. QED
    BY <1>1, <1>a, <2>2 DEF Tick, PaceOnly
<1>2. CASE FeedTrend
  <2>1. pace.pc = "var" /\ pace.n \in Names /\ NextVar \in Paces
    BY <1>2, <1>b, <1>c DEF FeedTrend
  <2>2. value[pace.n] + 1 \in 0..MaxTick
    <3>1. value[pace.n] < MaxTick /\ value[pace.n] \in 0..MaxTick
      BY <2>1 DEF Values
    <3>2. QED
      BY <3>1, TrendAssumption, SMTT(30)
  <2>3. value' \in [Names -> 0..MaxTick]
    BY <1>2, <2>1, <2>2 DEF FeedTrend
  <2>4. pace' \in Paces /\ varOwner' \in [Vars -> {None, Pace}]
    <3>1. CASE link[pace.n] = None
      BY <1>2, <2>1, <3>1 DEF FeedTrend
    <3>2. CASE link[pace.n] # None
      <4>1. link[pace.n] \in Vars /\ trendsOf[link[pace.n]] \in SUBSET Trends
        BY <2>1, <3>2
      <4>2. pace' = [pace EXCEPT !.pc = "feed", !.var = link[pace.n],
                                 !.left = trendsOf[link[pace.n]]]
        BY <1>2, <3>2 DEF FeedTrend
      <4>3. pace' \in Paces
        BY <1>0, <4>1, <4>2 DEF Paces
      <4>4. varOwner' = [varOwner EXCEPT ![link[pace.n]] = Pace]
        BY <1>2, <3>2 DEF FeedTrend
      <4>5. QED
        BY <4>3, <4>4
    <3>3. QED
      BY <3>1, <3>2
  <2>5. QED
    BY <1>2, <1>a, <2>3, <2>4 DEF FeedTrend, PaceOnly
<1>3. CASE FeedLock
  <2>1. PICK t \in pace.left :
           pace' = [pace EXCEPT !.pc = "write", !.left = @ \ {t},
                                !.trend = t, !.array = array[t]]
    BY <1>3 DEF FeedLock
  <2>2. t \in Trends /\ pace.left \ {t} \in SUBSET Trends
    BY <1>0 DEF Paces
  <2>3. pace' \in Paces
    BY <1>0, <2>1, <2>2 DEF Paces
  <2>4. QED
    BY <1>3, <1>a, <2>3 DEF FeedLock, PaceOnly
<1>4. CASE FeedWrite
  <2>1. pace' \in Paces
    BY <1>0, <1>4 DEF FeedWrite, Paces
  <2>2. value[pace.n] \in Nat
    BY <1>4, <1>b DEF FeedWrite
  <2>3. queue' \in [Trends -> Seq(Nat)]
    <3>1. CASE queue' = queue
      BY <3>1
    <3>2. CASE queue' = [queue EXCEPT ![pace.trend] =
                            Append(@, value[pace.n])]
      <4>1. \A s \in Seq(Nat) : Append(s, value[pace.n]) \in Seq(Nat)
        BY <2>2, AppendProperties
      <4>2. QED
        BY <3>2, <4>1
    <3>3. QED
      BY <1>4, <3>1, <3>2 DEF FeedWrite
  <2>4. QED
    BY <1>4, <1>a, <2>1, <2>3 DEF FeedWrite, PaceOnly
<1>5. CASE FeedEnd
  <2>1. pace' \in Paces
    BY <1>5, <1>c DEF FeedEnd
  <2>2. QED
    BY <1>5, <1>a, <2>1 DEF FeedEnd, PaceOnly
<1>6. CASE VarlistChanged
  <2>1. /\ changes' \in 0..(MaxBuild - 1) /\ built \in 0..(changes' + 1)
    BY <1>6, TrendAssumption DEF VarlistChanged
  <2>2. QED
    BY <1>6, <2>1 DEF VarlistChanged
<1>7. CASE StopServer
  BY <1>7 DEF StopServer, MainOnly
<1>8. CASE DestroyTrend
  <2>1. PICK d \in DaqNames : /\ daqs[d] # None
                              /\ daqs' = [daqs EXCEPT ![d] = None]
                              /\ DeleteArray(daqs[d])
    BY <1>8 DEF DestroyTrend
  <2>2. /\ life' \in [Trends -> {"none", "live", "dying", "freed"}]
        /\ array' \in [Trends -> Nat]
    BY <2>1 DEF DeleteArray
  <2>3. daqs' \in [DaqNames -> Trends \cup {None}]
    BY <2>1
  <2>4. QED
    BY <1>8, <2>2, <2>3 DEF DestroyTrend, MainOnly
<1>9. CASE DestroyTrendEnd
  <2>1. PICK t \in Trends : life[t] = "dying" /\ RemoveTrend(t)
    BY <1>9 DEF DestroyTrendEnd
  <2>2. /\ trendsOf' \in [Vars -> SUBSET Trends]
        /\ life' \in [Trends -> {"none", "live", "dying", "freed"}]
    BY <2>1 DEF RemoveTrend
  <2>3. QED
    BY <1>9, <2>2 DEF DestroyTrendEnd, MainOnly
<1>10. CASE ClearVars
  <2>1. /\ trendsOf' \in [Vars -> SUBSET Trends]
        /\ measVars' \in Seq(Vars)
    BY <1>10 DEF ClearVars
  <2>2. QED
    BY <1>10, <2>1 DEF ClearVars, MainOnly
<1>11. QED
  BY <1>1, <1>2, <1>3, <1>4, <1>5, <1>6, <1>7, <1>8, <1>9, <1>10
  DEF PaceStep, MainStep

-----------------------------------------------------------------------------
(* What the workers are doing. *)

\* One worker moves on; what it finds fits, and nobody else is disturbed.
LEMMA OneMoves ==
    ASSUME TypeOK, WorkersFit, main' = main, built' \in {built, built + 1},
           allocated \subseteq allocated',
           NEW w \in Workers, NEW p, NEW a,
           \A x \in Workers : /\ pc'[x] = IF x = w THEN p ELSE pc[x]
                              /\ arg'[x] = IF x = w THEN a ELSE arg[x],
           main # "serving" => p = "idle",
           \A x \in Workers \ {w} :
              /\ pc[x] \in {"found", "setVar"} =>
                    /\ life'[arg[x].trend] = life[arg[x].trend]
                    /\ traced'[arg[x].trend] = traced[arg[x].trend]
              /\ pc[x] = "remove" => life'[arg[x].trend] = life[arg[x].trend],
           p \in {"found", "setVar", "remove"} =>
              \A x \in Workers \ {w} : ~Holds(x),
           p \in {"idle", "dispatch"} => a = NoArg,
           p = "build" => a.n < NumVars /\ a.var = None /\ built' > 0,
           p \in {"found", "setVar"} =>
              /\ a.var \in Vars /\ a.trend \in Trends
              /\ life'[a.trend] = "live"
              /\ traced'[a.trend] = a.var
                 \/ (p = "found" /\ traced'[a.trend] = None),
           p = "remove" => a.trend \in Trends /\ life'[a.trend] = "dying",
           a.var # None => a.var \in allocated'
    PROVE  WorkersFit'
<1>1. ASSUME NEW x \in Workers
      PROVE  /\ pc'[x] \in {"idle", "dispatch"} => arg'[x] = NoArg
             /\ pc'[x] = "build" => /\ arg'[x].n < NumVars
                                    /\ arg'[x].var = None /\ built' > 0
             /\ pc'[x] = "remove" => /\ arg'[x].trend \in Trends
                                     /\ life'[arg'[x].trend] = "dying"
  BY <1>1, SMTT(30) DEF WorkersFit, TypeOK
<1>2. ASSUME NEW x \in Workers, pc'[x] \in {"found", "setVar"}
      PROVE  /\ arg'[x].var \in Vars /\ arg'[x].trend \in Trends
             /\ life'[arg'[x].trend] = "live"
             /\ traced'[arg'[x].trend] = arg'[x].var
                \/ (pc'[x] = "found" /\ traced'[arg'[x].trend] = None)
  BY <1>2 DEF WorkersFit
<1>3. \A u, x \in Workers : Holds(u)' /\ Holds(x)' => u = x
  BY DEF WorkersFit, Holds
<1>4. main' # "serving" => \A x \in Workers : pc'[x] = "idle"
  BY DEF WorkersFit
<1>5. RequestVarAlive'
  BY DEF WorkersFit, RequestVarAlive
<1>6. QED
  BY <1>1, <1>2, <1>3, <1>4, <1>5 DEF WorkersFit

\* The list grows by the object being built.
LEMMA ListWhole ==
    ASSUME TypeOK, ListFits, NEW n \in Names, FindVariable(n) # None
    PROVE  FindVariable(n) \in Vars /\ FindVariable(n) \in allocated
BY FindIs DEF ListFits

\* Nobody holds the session list: what ListHeld says of the workers.
LEMMA NobodyHolds ==
    ASSUME ~ListHeld
    PROVE  main # "destroy" /\ \A x \in Workers : ~Holds(x)
BY DEF ListHeld, Holds

\* A request arrives.
LEMMA WorkersArrive ==
    ASSUME Orderly, ControlInv, NEW w \in Workers, Arrive(w)
    PROVE  WorkersFit'
<1> USE DEF ControlInv
<1>1. /\ main' = main /\ allocated' = allocated /\ arg' = arg
      /\ life' = life /\ traced' = traced /\ pc[w] = "idle"
      /\ main = "serving" /\ built' \in {built, built + 1}
  BY DEF Arrive, Serving, Orderly
<1>2. arg[w] = NoArg /\ NoArg.var = None /\ NoArg.n < NumVars
  BY <1>1, TrendAssumption DEF WorkersFit, NoArg
<1>3. PICK p \in {"build", "dispatch"} :
           Goto(w, p) /\ (p = "build" => built' = built + 1)
  BY DEF Arrive
<1>4. \A x \in Workers : /\ pc'[x] = IF x = w THEN p ELSE pc[x]
                         /\ arg'[x] = IF x = w THEN NoArg ELSE arg[x]
  BY <1>1, <1>2, <1>3 DEF Goto, TypeOK
<1>5. p = "build" => built' > 0
  BY <1>3 DEF TypeOK
<1>6. QED
  BY <1>1, <1>2, <1>3, <1>4, <1>5, OneMoves

\* The request that builds the list goes on.
LEMMA WorkersBuild ==
    ASSUME ControlInv, NEW w \in Workers, OnGetVariableList(w)
    PROVE  WorkersFit'
<1> USE DEF ControlInv
<1>1. arg \in [Workers -> Args] /\ arg[w] \in Args /\ DOMAIN pc = Workers
  BY Locals DEF TypeOK
<1>2. /\ main' = main /\ built' = built /\ allocated \subseteq allocated'
      /\ life' = life /\ traced' = traced /\ pc[w] = "build"
  BY DEF OnGetVariableList, list, heap
<1>3. main = "serving" /\ arg[w].var = None /\ built > 0
  BY <1>2 DEF WorkersFit
<1>4. CASE arg[w].n + 1 < NumVars
  <2> DEFINE a == [arg[w] EXCEPT !.n = arg[w].n + 1]
  <2>1. \A x \in Workers : /\ pc'[x] = IF x = w THEN "build" ELSE pc[x]
                           /\ arg'[x] = IF x = w THEN a ELSE arg[x]
    BY <1>1, <1>2, <1>4 DEF OnGetVariableList
  <2>2. a.n = arg[w].n + 1 /\ a.var = None
    BY <1>1, <1>3 DEF Args
  <2> HIDE DEF a
  <2>3. QED
    BY <1>2, <1>3, <1>4, <2>1, <2>2, OneMoves
<1>5. CASE ~(arg[w].n + 1 < NumVars)
  <2>1. \A x \in Workers : /\ pc'[x] = IF x = w THEN "dispatch" ELSE pc[x]
                           /\ arg'[x] = IF x = w THEN NoArg ELSE arg[x]
    BY <1>1, <1>2, <1>5 DEF OnGetVariableList, Goto
  <2>2. NoArg.var = None
    BY DEF NoArg
  <2>3. QED
    BY <1>2, <1>3, <2>1, <2>2, OneMoves
<1>6. QED
  BY <1>4, <1>5

\* A request is answered.
LEMMA Answered ==
    ASSUME TypeOK, NEW w \in Workers, Answer(w)
    PROVE  /\ NoArg.var = None
           /\ \A x \in Workers : /\ pc'[x] = IF x = w THEN "idle" ELSE pc[x]
                                 /\ arg'[x] = IF x = w THEN NoArg ELSE arg[x]
BY DEF TypeOK, Answer, Goto, NoArg

\* A request looks a variable up.
LEMMA WorkersUse ==
    ASSUME ControlInv, NEW w \in Workers, UseVariable(w)
    PROVE  WorkersFit'
<1> USE DEF ControlInv
<1>1. /\ main' = main /\ built' = built /\ allocated' = allocated
      /\ life' = life /\ traced' = traced /\ pc[w] = "dispatch"
  BY DEF UseVariable, list, heap
<1>2. main = "serving"
  BY <1>1 DEF WorkersFit
<1>3. PICK n \in Names :
         LET v == FindVariable(n)
         IN  IF v = None THEN Answer(w)
             ELSE arg' = [arg EXCEPT ![w].var = v] /\ Goto(w, "use")
  BY DEF UseVariable
<1>4. CASE FindVariable(n) = None
  BY <1>1, <1>2, <1>3, <1>4, Answered, OneMoves
<1>5. CASE FindVariable(n) # None
  <2> DEFINE a == [arg[w] EXCEPT !.var = FindVariable(n)]
  <2>1. arg \in [Workers -> Args] /\ arg[w] \in Args /\ DOMAIN pc = Workers
    BY Locals DEF TypeOK
  <2>2. \A x \in Workers : /\ pc'[x] = IF x = w THEN "use" ELSE pc[x]
                           /\ arg'[x] = IF x = w THEN a ELSE arg[x]
    BY <1>3, <1>5, <2>1 DEF Goto
  <2>3. a.var \in allocated
    <3>1. a.var = FindVariable(n)
      BY <2>1 DEF Args
    <3>2. QED
      BY <1>5, <3>1, ListWhole
  <2> HIDE DEF a
  <2>4. QED
    BY <1>1, <1>2, <2>2, <2>3, OneMoves
<1>6. QED
  BY <1>4, <1>5

\* A PUT finds its trend or creates it: nobody else holds the session list.
LEMMA WorkersPut ==
    ASSUME Orderly, ControlInv, NEW w \in Workers, PutDaqTrend(w)
    PROVE  WorkersFit'
<1> USE DEF ControlInv
<1> DEFINE new == CHOOSE u \in Trends : life[u] = "none"
<1>1. /\ main' = main /\ built' = built /\ allocated' = allocated
      /\ traced' = traced /\ pc[w] = "dispatch" /\ \A x \in Workers : ~Holds(x)
  BY NobodyHolds DEF PutDaqTrend, list
<1>2. main = "serving"
  BY <1>1, SMTT(30) DEF WorkersFit
<1>3. arg \in [Workers -> Args] /\ arg[w] \in Args /\ DOMAIN pc = Workers
  BY Locals, ZenonT(30) DEF TypeOK
<1>4. PICK d \in DaqNames, n \in Names :
         LET v == FindVariable(n)
             t == daqs[d]
         IN  \/ /\ v = None
                /\ Answer(w)
                /\ UNCHANGED <<daqs, life, array>>
             \/ /\ v # None /\ t # None
                /\ SwitchesVar \/ traced[t] = v
                /\ arg' = [arg EXCEPT ![w] =
                              [@ EXCEPT !.var = v, !.trend = t]]
                /\ Goto(w, "found")
                /\ UNCHANGED <<daqs, life, array>>
             \/ /\ v # None /\ t = None
                /\ \E u \in Trends : life[u] = "none"
                /\ daqs' = [daqs EXCEPT ![d] = new]
                /\ life' = [life EXCEPT ![new] = "live"]
                /\ array' = [array EXCEPT ![new] = 1]
                /\ arg' = [arg EXCEPT ![w] =
                             [@ EXCEPT !.var = v, !.trend = new]]
                /\ Goto(w, "found")
  BY DEF PutDaqTrend
<1>5. CASE Answer(w) /\ life' = life
  BY <1>1, <1>2, <1>5, Answered, OneMoves
<1>6. ASSUME NEW t \in Trends, FindVariable(n) # None,
             life'[t] = "live", traced[t] \in {FindVariable(n), None},
             arg' = [arg EXCEPT ![w] = [@ EXCEPT !.var = FindVariable(n),
                                                 !.trend = t]],
             Goto(w, "found")
      PROVE  WorkersFit'
  <2> DEFINE a == [arg[w] EXCEPT !.var = FindVariable(n), !.trend = t]
  <2>1. \A x \in Workers : /\ pc'[x] = IF x = w THEN "found" ELSE pc[x]
                           /\ arg'[x] = IF x = w THEN a ELSE arg[x]
    BY <1>3, <1>6 DEF Goto
  <2>2. a.var = FindVariable(n) /\ a.trend = t
    BY <1>3 DEF Args
  <2> HIDE DEF a
  <2>3. a.var \in allocated /\ a.var \in Vars
    BY <1>6, <2>2, ListWhole
  <2>4. \A x \in Workers : pc[x] \notin {"found", "setVar", "remove"}
    BY <1>1 DEF Holds
  <2>5. QED
    BY <1>1, <1>2, <1>6, <2>1, <2>2, <2>3, <2>4, OneMoves
<1>7. CASE /\ daqs[d] # None /\ life' = life /\ FindVariable(n) # None
           /\ SwitchesVar \/ traced[daqs[d]] = FindVariable(n)
           /\ arg' = [arg EXCEPT ![w] = [@ EXCEPT !.var = FindVariable(n),
                                                  !.trend = daqs[d]]]
           /\ Goto(w, "found")
  <2>1. daqs[d] \in Trends /\ life[daqs[d]] = "live"
        /\ traced[daqs[d]] = FindVariable(n)
    BY <1>7 DEF TypeOK, Registered, Orderly
  <2>2. QED
    BY <1>6, <1>7, <2>1
<1>8. CASE /\ \E u \in Trends : life[u] = "none"
           /\ life' = [life EXCEPT ![new] = "live"]
           /\ FindVariable(n) # None
           /\ arg' = [arg EXCEPT ![w] = [@ EXCEPT !.var = FindVariable(n),
                                                  !.trend = new]]
           /\ Goto(w, "found")
  <2>1. new \in Trends /\ life[new] = "none"
    BY <1>8
  <2> HIDE DEF new
  <2>2. traced[new] = None /\ life'[new] = "live"
    BY <1>8, <2>1 DEF TypeOK, Registered
  <2>3. QED
    BY <1>6, <1>8, <2>1, <2>2
<1>9. QED
  BY <1>4, <1>5, <1>7, <1>8

\* A DELETE takes the name of a trend away.
LEMMA WorkersDelete ==
    ASSUME ControlInv, NEW w \in Workers, DeleteDaq(w)
    PROVE  WorkersFit'
<1> USE DEF ControlInv
<1>1. /\ main' = main /\ built' = built /\ allocated' = allocated
      /\ traced' = traced /\ pc[w] = "dispatch" /\ \A x \in Workers : ~Holds(x)
  BY NobodyHolds DEF DeleteDaq, list
<1>2. main = "serving" /\ arg[w] = NoArg
  BY <1>1 DEF WorkersFit
<1>3. PICK d \in DaqNames :
         IF daqs[d] = None
         THEN Answer(w) /\ UNCHANGED <<daqs, life, array>>
         ELSE /\ daqs' = [daqs EXCEPT ![d] = None]
              /\ DeleteArray(daqs[d])
              /\ arg' = [arg EXCEPT ![w].trend = daqs[d]]
              /\ Goto(w, "remove")
  BY DEF DeleteDaq
<1>4. CASE daqs[d] = None
  BY <1>1, <1>2, <1>3, <1>4, Answered, OneMoves
<1>5. CASE daqs[d] # None
  <2> DEFINE a == [arg[w] EXCEPT !.trend = daqs[d]]
  <2>1. arg \in [Workers -> Args] /\ arg[w] \in Args /\ DOMAIN pc = Workers
        /\ daqs[d] \in Trends
    BY <1>5, Locals DEF TypeOK
  <2>2. \A x \in Workers : /\ pc'[x] = IF x = w THEN "remove" ELSE pc[x]
                           /\ arg'[x] = IF x = w THEN a ELSE arg[x]
    BY <1>3, <1>5, <2>1 DEF Goto
  <2>3. a.trend = daqs[d] /\ a.var = None
    BY <1>2, <2>1 DEF Args, NoArg
  <2> HIDE DEF a
  <2>4. life'[daqs[d]] = "dying"
    BY <1>3, <1>5, <2>1 DEF DeleteArray, TypeOK
  <2>5. \A x \in Workers : pc[x] \notin {"found", "setVar", "remove"}
    BY <1>1 DEF Holds
  <2>6. QED
    BY <1>1, <1>2, <2>1, <2>2, <2>3, <2>4, <2>5, OneMoves
<1>6. QED
  BY <1>4, <1>5

\* Requests that are answered, and the second half of a PUT.
LEMMA WorkersAnswer ==
    ASSUME ControlInv, NEW w \in Workers, Answer(w), main' = main,
           main = "serving", built' = built, allocated' = allocated,
           traced' = traced,
           \A x \in Workers \ {w} : pc[x] \in {"found", "setVar", "remove"} =>
               life'[arg[x].trend] = life[arg[x].trend]
    PROVE  WorkersFit'
BY Answered, OneMoves DEF ControlInv

\* The other steps of requests.
LEMMA WorkersServe ==
    ASSUME ControlInv, NEW w \in Workers,
           \/ UsedVariable(w) \/ SetVar(w) \/ AddTrend(w)
           \/ DeleteDaqEnd(w) \/ PollTrend(w)
    PROVE  WorkersFit'
<1> USE DEF ControlInv
<1>1. /\ main' = main /\ built' = built /\ allocated' = allocated
      /\ pc[w] \in {"use", "found", "setVar", "remove", "dispatch"}
  BY DEF UsedVariable, SetVar, AddTrend, DeleteDaqEnd, PollTrend, list, heap
<1>2. main = "serving"
  BY <1>1 DEF WorkersFit
<1>3. CASE UsedVariable(w) \/ AddTrend(w) \/ PollTrend(w)
  <2>1. Answer(w) /\ traced' = traced /\ life' = life
    BY <1>3 DEF UsedVariable, AddTrend, PollTrend, heap
  <2>2. QED
    BY <1>1, <1>2, <2>1, WorkersAnswer
<1>4. CASE DeleteDaqEnd(w)
  <2>1. Answer(w) /\ traced' = traced /\ pc[w] = "remove"
    BY <1>4 DEF DeleteDaqEnd
  <2>2. \A x \in Workers \ {w} : pc[x] \notin {"found", "setVar", "remove"}
    BY <2>1 DEF WorkersFit, Holds
  <2>3. QED
    BY <1>1, <1>2, <2>1, <2>2, WorkersAnswer
<1>5. CASE SetVar(w)
  <2> DEFINE a == arg[w]
  <2>1. /\ traced' = [traced EXCEPT ![a.trend] = a.var] /\ life' = life
        /\ arg' = arg /\ pc' = [pc EXCEPT ![w] = "setVar"] /\ pc[w] = "found"
    BY <1>5 DEF SetVar, Goto, heap
  <2>2. \A x \in Workers : /\ pc'[x] = IF x = w THEN "setVar" ELSE pc[x]
                           /\ arg'[x] = IF x = w THEN a ELSE arg[x]
    BY <2>1 DEF TypeOK
  <2>3. \A x \in Workers \ {w} : pc[x] \notin {"found", "setVar", "remove"}
    BY <2>1 DEF WorkersFit, Holds
  <2>4. /\ a.var \in Vars /\ a.trend \in Trends /\ life[a.trend] = "live"
        /\ a.var # None => a.var \in allocated
    BY <2>1 DEF WorkersFit, RequestVarAlive
  <2> HIDE DEF a
  <2>5. traced'[a.trend] = a.var
    BY <2>1, <2>4, SMTT(30) DEF TypeOK
  <2>6. \A x \in Workers \ {w} : ~Holds(x)
    BY <2>3, SMTT(30) DEF Holds
  <2>7. QED
    BY <1>1, <1>2, <2>1, <2>2, <2>3, <2>4, <2>5, <2>6, OneMoves
<1>6. QED
  BY <1>3, <1>4, <1>5

\* Every step keeps what the workers are doing in order.
LEMMA WorkersStep ==
    ASSUME Orderly, ControlInv, [Next]_vars
    PROVE  WorkersFit'
<1> USE Constants DEF ControlInv, TypeOK, WorkersFit, RequestVarAlive,
             list, heap, records,
           registry, thePace, NoArg, Holds, Orderly
<1>1. ASSUME NEW w \in Workers, Arrive(w) PROVE WorkersFit'
  BY <1>1, WorkersArrive
<1>2. ASSUME NEW w \in Workers, OnGetVariableList(w) PROVE WorkersFit'
  BY <1>2, WorkersBuild
<1>3. ASSUME NEW w \in Workers, UseVariable(w) PROVE WorkersFit'
  BY <1>3, WorkersUse
<1>4. ASSUME NEW w \in Workers, UsedVariable(w) PROVE WorkersFit'
  BY <1>4, WorkersServe
<1>5. ASSUME NEW w \in Workers, PutDaqTrend(w) PROVE WorkersFit'
  BY <1>5, WorkersPut
<1>6. ASSUME NEW w \in Workers, SetVar(w) PROVE WorkersFit'
  BY <1>6, WorkersServe
<1>7. ASSUME NEW w \in Workers, AddTrend(w) PROVE WorkersFit'
  BY <1>7, WorkersServe
<1>8. ASSUME NEW w \in Workers, DeleteDaq(w) PROVE WorkersFit'
  BY <1>8, WorkersDelete
<1>9. ASSUME NEW w \in Workers, DeleteDaqEnd(w) PROVE WorkersFit'
  BY <1>9, WorkersServe
<1>10. ASSUME NEW w \in Workers, PollTrend(w) PROVE WorkersFit'
  BY <1>10, WorkersServe
<1>11. CASE Tick
  BY <1>11 DEF Tick, PaceOnly
<1>12. CASE FeedTrend
  BY <1>12 DEF FeedTrend, PaceOnly, NextVar
<1>13. CASE FeedLock
  BY <1>13 DEF FeedLock, PaceOnly
<1>14. CASE FeedWrite
  BY <1>14 DEF FeedWrite, PaceOnly
<1>15. CASE FeedEnd
  BY <1>15 DEF FeedEnd, PaceOnly, NextVar
<1>16. CASE VarlistChanged
  BY <1>16 DEF VarlistChanged
<1>17. CASE StopServer
  BY <1>17 DEF StopServer, MainOnly
<1>18. CASE DestroyTrend
  BY <1>18 DEF DestroyTrend, DeleteArray, MainOnly, ListHeld
<1>19. CASE DestroyTrendEnd
  BY <1>19 DEF DestroyTrendEnd, RemoveTrend, MainOnly
<1>20. CASE ClearVars
  BY <1>20 DEF ClearVars, MainOnly, ListHeld
<1>21. CASE UNCHANGED vars
  BY <1>21 DEF vars
<1>22. QED
  BY <1>1, <1>2, <1>3, <1>4, <1>5, <1>6, <1>7, <1>8, <1>9, <1>10,
     <1>11, <1>12, <1>13, <1>14, <1>15, <1>16, <1>17,
     <1>18, <1>19, <1>20, <1>21, ZenonT(30)
  DEF Next, WorkerStep, PaceStep, MainStep

-----------------------------------------------------------------------------
(* The list and the objects in it. *)

\* A request beyond the list only changes the worker that handles it.
LEMMA Moves ==
    ASSUME TypeOK, NEW w \in Workers,
           \/ UseVariable(w) \/ UsedVariable(w) \/ PutDaqTrend(w)
           \/ SetVar(w) \/ AddTrend(w)
           \/ DeleteDaq(w) \/ DeleteDaqEnd(w) \/ PollTrend(w)
    PROVE  /\ pc[w] \notin {"idle", "build"} /\ pc'[w] # "build"
           /\ \A x \in Workers \ {w} : pc'[x] = pc[x] /\ arg'[x] = arg[x]
           /\ UNCHANGED <<list, allocated, main>>
<1> USE DEF TypeOK, heap, Answer, Goto
<1>1. CASE UseVariable(w) \/ UsedVariable(w)
  BY <1>1, SMTT(30) DEF UseVariable, UsedVariable
<1>2. CASE PutDaqTrend(w)
  <2>1. pc[w] = "dispatch" /\ UNCHANGED <<list, allocated, main>>
    BY <1>2, ZenonT(30) DEF PutDaqTrend
  <2>2. PICK p \in {"idle", "found"} : pc' = [pc EXCEPT ![w] = p]
    BY <1>2, ZenonT(30) DEF PutDaqTrend
  <2>3. \E a : arg' = [arg EXCEPT ![w] = a]
    BY <1>2 DEF PutDaqTrend
  <2>4. QED
    BY <2>1, <2>2, <2>3, SMTT(30)
<1>3. CASE SetVar(w) \/ AddTrend(w)
  BY <1>3, SMTT(30) DEF SetVar, AddTrend
<1>4. CASE DeleteDaq(w) \/ DeleteDaqEnd(w)
  BY <1>4, SMTT(30) DEF DeleteDaq, DeleteDaqEnd
<1>5. CASE PollTrend(w)
  BY <1>5 DEF PollTrend
<1>6. QED
  BY <1>1, <1>2, <1>3, <1>4, <1>5

\* Who neither arrives nor builds leaves the list as it is.
LEMMA ListKept ==
    ASSUME ListFits, NEW w \in Workers,
           pc[w] \notin {"idle", "build"}, pc'[w] # "build",
           \A x \in Workers \ {w} : pc'[x] = pc[x] /\ arg'[x] = arg[x],
           UNCHANGED <<list, allocated, main>>
    PROVE  ListFits'
<1> USE DEF list, NoReaderWhileBuilding, Building
<1>1. \A x \in Workers : pc'[x] = "build" =>
          pc[x] = "build" /\ x # w /\ arg'[x] = arg[x]
  OBVIOUS
<1>2. changes = 0 => ~firstRequest
  BY DEF ListFits
<1>3. NoReaderWhileBuilding'
  BY <1>1 DEF ListFits
<1>4. QED
  BY <1>1, <1>2, <1>3 DEF ListFits

\* Only a request that arrives while nobody builds the list starts to.
LEMMA ListArrive ==
    ASSUME Orderly, ControlInv, NEW w \in Workers, Arrive(w)
    PROVE  ListFits'
<1> USE DEF ControlInv
<1>1. /\ changes' = changes /\ measVars' = measVars /\ link' = link
      /\ allocated' = allocated /\ arg' = arg /\ main' = main
      /\ main = "serving" /\ pc[w] = "idle"
      /\ \A x \in Workers : pc[x] # "build"
  BY DEF Arrive, Serving, Orderly, Building
<1>2. \A x \in Workers \ {w} : pc'[x] = pc[x]
  BY DEF Arrive, Goto, TypeOK
<1>3. \A v \in allocated : v[2] <= built /\ v[2] \in Int
  BY DEF ListFits, TypeOK, Vars
<1>4. CASE firstRequest
  <2>1. firstRequest' = FALSE /\ built' = built + 1 /\ pc'[w] = "build"
    BY <1>4 DEF Arrive, Goto, TypeOK
  <2>2. \A v \in allocated : v[2] <= built' /\ v[2] # built'
    BY <1>3, <2>1, SMTT(30) DEF TypeOK
  <2>3. NoReaderWhileBuilding'
    BY <1>1, <1>2, <1>4, <2>1 DEF ListFits, NoReaderWhileBuilding, Building
  <2>4. QED
    BY <1>1, <1>2, <2>1, <2>2, <2>3 DEF ListFits
<1>5. CASE ~firstRequest
  <2>1. firstRequest' = FALSE /\ built' = built /\ pc'[w] = "dispatch"
    BY <1>5 DEF Arrive, Goto, TypeOK
  <2>2. NoReaderWhileBuilding'
    BY <1>1, <1>2, <2>1 DEF NoReaderWhileBuilding, Building
  <2>3. QED
    BY <1>1, <1>2, <2>1, <2>2 DEF ListFits
<1>6. QED
  BY <1>4, <1>5 DEF TypeOK

\* The builder adds one object after the other, ...
LEMMA ListBuild ==
    ASSUME ControlInv, NEW w \in Workers, OnGetVariableList(w)
    PROVE  ListFits'
<1> DEFINE n == arg[w].n + 1
           v == <<n, built>>
<1> USE DEF ControlInv
<1>1. /\ firstRequest' = firstRequest /\ built' = built /\ changes' = changes
      /\ allocated' = allocated \cup {v} /\ main' = main /\ pc[w] = "build"
      /\ link' = [link EXCEPT ![n] = v] /\ measVars' = Append(measVars, v)
  BY DEF OnGetVariableList
<1>2. n \in Names /\ n \in Nat /\ v \in Vars /\ v[1] = n /\ v[2] = built
  <2>1. arg[w].n \in 0..NumVars /\ arg[w].n < NumVars /\ built > 0
    BY <1>1, Locals DEF WorkersFit, Args
  <2>2. built \in 1..MaxBuild
    BY <2>1, TrendAssumption DEF TypeOK
  <2>3. n \in Names
    BY <2>1, TrendAssumption DEF Names
  <2>4. QED
    BY <2>2, <2>3, SMTT(30) DEF Vars, Names
<1>3. \A x \in Workers \ {w} : pc'[x] = pc[x] /\ arg'[x] = arg[x]
                               /\ pc[x] # "build"
  <2>1. \A x \in Workers \ {w} : pc'[x] = pc[x] /\ arg'[x] = arg[x]
    BY DEF OnGetVariableList, Goto, TypeOK
  <2>2. \A x \in Workers \ {w} : pc[x] # "build"
    BY <1>1 DEF ListFits
  <2>3. QED
    BY <2>1, <2>2
<1>4. \/ pc'[w] = "build" /\ arg'[w].n = n
      \/ pc'[w] = "dispatch"
  <2>1. CASE n < NumVars
    <3>1. arg[w] \in Args /\ arg' = [arg EXCEPT ![w].n = n] /\ pc' = pc
      BY <2>1, Locals DEF OnGetVariableList
    <3>2. QED
      BY <1>1, <3>1, Locals DEF Args
  <2>2. CASE ~(n < NumVars)
    BY <2>2 DEF OnGetVariableList, Goto, TypeOK
  <2>3. QED
    BY <2>1, <2>2
<1>5. \A u \in allocated : /\ u \in Vars /\ u[2] <= built
                           /\ u[2] = built => u[1] < n
  <2>1. \A u \in allocated : u[1] \in Nat
    BY DEF TypeOK, Vars, Names
  <2>2. \A u \in allocated : u[2] = built => u[1] <= arg[w].n
    BY <1>1 DEF ListFits
  <2>3. arg[w].n \in Nat
    <3>1. arg \in [Workers -> Args]
      BY Locals
    <3>2. QED
      BY <3>1, TrendAssumption DEF Args
  <2>4. QED
    BY <2>1, <2>2, <2>3 DEF ListFits, TypeOK
<1> HIDE DEF n, v
<1>6. \A u \in allocated' :
         /\ u[2] <= built'
         /\ \A x \in Workers : pc'[x] = "build" /\ u[2] = built' =>
                                   u[1] <= arg'[x].n
  <2>1. ASSUME NEW u \in allocated' PROVE u[2] <= built'
    BY <1>1, <1>2, <1>5 DEF TypeOK
  <2>2. ASSUME NEW u \in allocated', u[2] = built', pc'[w] = "build"
        PROVE  u[1] <= arg'[w].n
    <3>1. u[1] = n \/ u[1] < n
      BY <1>1, <1>2, <1>5, <2>2
    <3>2. u[1] \in Nat
      BY <1>1, <1>2 DEF TypeOK, Vars, Names
    <3>3. QED
      BY <1>2, <1>4, <2>2, <3>1, <3>2
  <2>3. QED
    BY <1>3, <2>1, <2>2
<1>7. \A m \in Names : link'[m] # None =>
          /\ link'[m] \in Vars /\ link'[m][1] = m
          /\ main' # "done" => link'[m] \in allocated'
  BY <1>1, <1>2 DEF ListFits, TypeOK
<1>8. \A i \in DOMAIN measVars' : measVars'[i] \in allocated'
  <2>1. /\ Len(measVars') = Len(measVars) + 1
        /\ \A i \in 1..Len(measVars) : measVars'[i] = measVars[i]
        /\ measVars'[Len(measVars) + 1] = v
    BY <1>1, <1>2, AppendProperties DEF TypeOK
  <2>2. /\ DOMAIN measVars = 1..Len(measVars) /\ Len(measVars) \in Nat
        /\ DOMAIN measVars' = 1..Len(measVars')
    <3>1. measVars \in Seq(Vars) /\ measVars' \in Seq(Vars)
      BY <1>1, <1>2, AppendProperties DEF TypeOK
    <3>2. QED
      BY <3>1, LenProperties
  <2>3. QED
    BY <1>1, <2>1, <2>2 DEF ListFits
<1>9. changes' = 0 =>
          /\ \A u \in allocated' : link'[u[1]] = u
          /\ firstRequest' => \A x \in Workers : pc'[x] = "idle"
  <2>1. ASSUME changes = 0, NEW u \in allocated
        PROVE  u[1] # n /\ link[u[1]] = u /\ u[1] \in Names
    <3>1. u[2] = 1 /\ u[2] <= built /\ built <= 1
      BY <1>5, <2>1 DEF TypeOK, Vars
    <3>2. u[1] < n /\ u[1] \in Names /\ u[1] \in Nat
      BY <1>5, <3>1 DEF Vars, Names, TypeOK
    <3>3. QED
      BY <1>2, <2>1, <3>2 DEF ListFits
  <2>2. changes = 0 => ~firstRequest
    BY <1>1 DEF ListFits
  <2>3. QED
    BY <1>1, <1>2, <2>1, <2>2, SMTT(30) DEF TypeOK
<1>10. NoReaderWhileBuilding'
  BY <1>1, <1>3, <1>4 DEF ListFits, NoReaderWhileBuilding, Building
<1>11. \A u, x \in Workers : pc'[u] = "build" /\ pc'[x] = "build" => u = x
  BY <1>3
<1>12. firstRequest' => built' <= changes'
  BY <1>1 DEF ListFits
<1>13. QED
  BY <1>6, <1>7, <1>8, <1>9, <1>10, <1>11, <1>12 DEF ListFits

-----------------------------------------------------------------------------
(* The trends registered with the objects. *)

\* A new trend has its name to itself and is not registered yet.
LEMMA RegisteredPut ==
    ASSUME ControlInv, NEW w \in Workers, PutDaqTrend(w)
    PROVE  Registered'
<1> USE DEF ControlInv
<1> DEFINE new == CHOOSE u \in Trends : life[u] = "none"
<1>1. /\ trendsOf' = trendsOf /\ allocated' = allocated /\ traced' = traced
  BY DEF PutDaqTrend, registry
<1>2. CASE UNCHANGED <<daqs, life>>
  BY <1>1, <1>2 DEF Registered
<1>3. ASSUME NEW d \in DaqNames, daqs[d] = None,
             \E u \in Trends : life[u] = "none",
             daqs' = [daqs EXCEPT ![d] = new],
             life' = [life EXCEPT ![new] = "live"]
      PROVE  Registered'
  <2>1. new \in Trends /\ life[new] = "none"
    BY <1>3
  <2> HIDE DEF new
  <2>2. \A c \in DaqNames : daqs[c] # new
    BY <2>1, Constants DEF Registered
  <2>3. \A v \in Vars : \A t \in trendsOf[v] :
           v \in allocated /\ traced[t] = v /\ life'[t] \in {"live", "dying"}
    BY <1>3, <2>1 DEF Registered, TypeOK
  <2>a. \A c \in DaqNames : daqs'[c] = IF c = d THEN new ELSE daqs[c]
    BY <1>3 DEF TypeOK
  <2>b. \A u \in Trends : life'[u] = IF u = new THEN "live" ELSE life[u]
    BY <1>3 DEF TypeOK
  <2>4. \A c \in DaqNames : daqs'[c] # None => life'[daqs'[c]] = "live"
    <3>1. ASSUME NEW c \in DaqNames, c # d, daqs[c] # None
          PROVE  life'[daqs[c]] = "live"
      <4>1. daqs[c] \in Trends /\ life[daqs[c]] = "live"
        BY <3>1 DEF Registered, TypeOK
      <4>2. QED
        BY <2>2, <2>b, <4>1
    <3>2. life'[new] = "live"
      BY <2>1, <2>b
    <3>3. QED
      BY <2>a, <3>1, <3>2
  <2>5. \A c, e \in DaqNames : daqs'[c] = daqs'[e] /\ daqs'[c] # None => c = e
    BY <2>2, <2>a DEF Registered
  <2>6. \A t \in Trends : life'[t] = "none" => traced[t] = None
    BY <1>3, <2>1 DEF Registered, TypeOK
  <2>7. QED
    BY <1>1, <2>3, <2>4, <2>5, <2>6 DEF Registered
<1>4. QED
  BY <1>2, <1>3 DEF PutDaqTrend

\* A trend that traces nothing is on no list when it gets its variable.
LEMMA RegisteredSetVar ==
    ASSUME ControlInv, NEW w \in Workers, SetVar(w)
    PROVE  Registered'
<1> USE DEF ControlInv
<1> DEFINE a == arg[w]
<1>1. /\ traced' = [traced EXCEPT ![a.trend] = a.var]
      /\ UNCHANGED <<trendsOf, allocated, life, daqs>> /\ pc[w] = "found"
  BY DEF SetVar, registry, heap
<1>2. /\ a.trend \in Trends /\ life[a.trend] = "live"
      /\ traced[a.trend] \in {a.var, None}
  BY <1>1 DEF WorkersFit
<1> HIDE DEF a
<1>3. \A v \in Vars : \A t \in trendsOf[v] : traced'[t] = v
  BY <1>1, <1>2, Constants, SMTT(30) DEF Registered, TypeOK
<1>4. \A t \in Trends : life[t] = "none" => traced'[t] = None
  BY <1>1, <1>2 DEF Registered, TypeOK
<1>5. QED
  BY <1>1, <1>3, <1>4 DEF Registered

\* It is put on the list of the variable it traces.
LEMMA RegisteredAdd ==
    ASSUME ControlInv, NEW w \in Workers, AddTrend(w)
    PROVE  Registered'
<1> USE DEF ControlInv
<1> DEFINE a == arg[w]
<1>1. /\ trendsOf' = [trendsOf EXCEPT ![a.var] = @ \cup {a.trend}]
      /\ UNCHANGED <<traced, allocated, life, daqs>> /\ pc[w] = "setVar"
  BY DEF AddTrend, heap
<1>2. /\ a.trend \in Trends /\ life[a.trend] = "live"
      /\ traced[a.trend] = a.var /\ a.var \in Vars /\ a.var \in allocated
  BY <1>1, Constants DEF WorkersFit, RequestVarAlive
<1> HIDE DEF a
<1>3. ASSUME NEW v \in Vars, NEW t \in trendsOf'[v]
      PROVE  v \in allocated /\ traced[t] = v /\ life[t] \in {"live", "dying"}
  <2>1. t \in trendsOf[v] \/ (v = a.var /\ t = a.trend)
    BY <1>1, <1>2 DEF TypeOK
  <2>2. QED
    BY <1>2, <2>1 DEF Registered
<1>4. QED
  BY <1>1, <1>3 DEF Registered

\* A trend loses its name before it is deleted.
LEMMA RegisteredDelete ==
    ASSUME ControlInv, NEW d \in DaqNames, daqs[d] # None,
           daqs' = [daqs EXCEPT ![d] = None], DeleteArray(daqs[d]),
           UNCHANGED <<trendsOf, allocated, traced>>
    PROVE  Registered'
<1> USE DEF ControlInv
<1>1. daqs[d] \in Trends /\ life[daqs[d]] = "live"
      /\ life' = [life EXCEPT ![daqs[d]] = "dying"]
  BY DEF TypeOK, Registered, DeleteArray
<1>2. \A v \in Vars : \A t \in trendsOf[v] :
         v \in allocated /\ traced[t] = v /\ life'[t] \in {"live", "dying"}
  BY <1>1 DEF Registered, TypeOK
<1>3. \A c \in DaqNames : daqs'[c] # None =>
         daqs'[c] = daqs[c] /\ life'[daqs[c]] = "live"
  BY <1>1 DEF Registered, TypeOK
<1>4. \A c, e \in DaqNames : daqs'[c] = daqs'[e] /\ daqs'[c] # None => c = e
  BY <1>3 DEF Registered
<1>5. \A t \in Trends : life'[t] = "none" => traced[t] = None
  BY <1>1 DEF Registered, TypeOK
<1>6. QED
  BY <1>2, <1>3, <1>4, <1>5 DEF Registered

\* It is taken off the list of the variable it traces before it goes.
LEMMA RegisteredRemove ==
    ASSUME ControlInv, NEW t \in Trends, life[t] = "dying", RemoveTrend(t),
           UNCHANGED <<daqs, allocated, traced>>
    PROVE  Registered'
<1> USE DEF ControlInv
<1>1. /\ trendsOf' = [trendsOf EXCEPT ![traced[t]] = @ \ {t}]
      /\ life' = [life EXCEPT ![t] = "freed"]
  BY DEF RemoveTrend
<1>2. ASSUME NEW v \in Vars, NEW u \in trendsOf'[v]
      PROVE  /\ v \in allocated /\ traced[u] = v
             /\ life'[u] \in {"live", "dying"}
  <2>1. u \in trendsOf[v] /\ traced[u] = v /\ v \in allocated
        /\ life[u] \in {"live", "dying"} /\ u \in Trends
    BY <1>1 DEF Registered, TypeOK
  <2>2. u # t
    BY <1>1, <2>1 DEF TypeOK
  <2>3. QED
    BY <1>1, <2>1, <2>2 DEF TypeOK
<1>3. \A d \in DaqNames : daqs[d] # None => life'[daqs[d]] = "live"
  BY <1>1 DEF Registered, TypeOK
<1>4. \A u \in Trends : life'[u] = "none" => traced[u] = None
  BY <1>1 DEF Registered, TypeOK
<1>5. QED
  BY <1>2, <1>3, <1>4 DEF Registered

\* The two halves of a DELETE.
LEMMA RegisteredRequests ==
    ASSUME ControlInv, NEW w \in Workers, DeleteDaq(w) \/ DeleteDaqEnd(w)
    PROVE  Registered'
<1> USE DEF ControlInv, registry
<1>1. CASE DeleteDaq(w)
  <2>1. UNCHANGED <<trendsOf, allocated, traced>>
    BY <1>1 DEF DeleteDaq
  <2>2. PICK d \in DaqNames :
           IF daqs[d] = None
           THEN Answer(w) /\ UNCHANGED <<daqs, life, array>>
           ELSE /\ daqs' = [daqs EXCEPT ![d] = None]
                /\ DeleteArray(daqs[d])
                /\ arg' = [arg EXCEPT ![w].trend = daqs[d]]
                /\ Goto(w, "remove")
    BY <1>1 DEF DeleteDaq
  <2>3. CASE daqs[d] = None
    BY <2>1, <2>2, <2>3 DEF Registered
  <2>4. CASE daqs[d] # None
    BY <2>1, <2>2, <2>4, RegisteredDelete
  <2>5. QED
    BY <2>3, <2>4
<1>2. CASE DeleteDaqEnd(w)
  <2>1. arg[w].trend \in Trends /\ life[arg[w].trend] = "dying"
    BY <1>2 DEF DeleteDaqEnd, WorkersFit
  <2>2. QED
    BY <1>2, <2>1, RegisteredRemove DEF DeleteDaqEnd
<1>3. QED
  BY <1>1, <1>2

-----------------------------------------------------------------------------
(* The pace thread. *)

\* Where the pace thread is when it is not asleep, and where it goes next.
LEMMA Walk ==
    ASSUME TypeOK, PaceFits, pace.pc # "sleep"
    PROVE  /\ pace.n \in Names /\ pace.n \in 1..NumVars
           /\ NextVar = IF pace.n < NumVars
                        THEN [Asleep EXCEPT !.pc = "var", !.n = pace.n + 1]
                        ELSE Asleep
           /\ pace.n < NumVars => /\ NextVar.pc = "var"
                                  /\ NextVar.n = pace.n + 1
           /\ ~(pace.n < NumVars) => /\ NextVar.pc = "sleep" /\ NextVar.n = 0
                                     /\ pace.n = NumVars
           /\ NextVar.trend = None
<1>1. pace.n \in 0..NumVars /\ pace.n # 0
  BY Locals DEF Paces, PaceFits
<1>2. pace.n \in Names /\ pace.n \in 1..NumVars
  BY <1>1, TrendAssumption DEF Names
<1>3. ~(pace.n < NumVars) => pace.n = NumVars
  BY <1>2, TrendAssumption
<1>4. QED
  BY <1>2, <1>3 DEF NextVar, Asleep

\* A trend that is created is not one it is feeding.
LEMMA PacePut ==
    ASSUME ControlInv, NEW w \in Workers, PutDaqTrend(w)
    PROVE  PaceFits'
<1> USE DEF ControlInv
<1> DEFINE new == CHOOSE u \in Trends : life[u] = "none"
<1>1. UNCHANGED <<allocated, trendsOf, varOwner, pace, main>>
  BY DEF PutDaqTrend, registry, thePace
<1>2. CASE UNCHANGED <<life, array>>
  BY <1>1, <1>2 DEF PaceFits, Pending
<1>3. CASE /\ \E u \in Trends : life[u] = "none"
           /\ life' = [life EXCEPT ![new] = "live"]
           /\ array' = [array EXCEPT ![new] = 1]
  <2>1. new \in Trends /\ life[new] = "none"
    BY <1>3
  <2> HIDE DEF new
  <2>2. pace.pc = "write" => /\ pace.trend \in Trends /\ pace.trend # new
                             /\ life[pace.trend] = "live" =>
                                   array[pace.trend] = pace.array
    <3>1. ASSUME pace.pc = "write" PROVE pace.trend # new
      <4>1. Pending(pace.trend) /\ pace.trend \in Trends
            /\ pace.var \in allocated
        BY <3>1, Constants DEF Pending, PaceFits
      <4>2. pace.trend \in trendsOf[pace.var] /\ pace.var \in Vars
        BY <3>1, <4>1 DEF PaceFits, TypeOK
      <4>3. QED
        BY <2>1, <4>2 DEF Registered
    <3>2. QED
      BY <3>1 DEF PaceFits
  <2>3. pace.pc = "write" /\ life'[pace.trend] = "live" =>
            array'[pace.trend] = pace.array
    BY <1>3, <2>1, <2>2 DEF TypeOK
  <2>4. QED
    BY <1>1, <2>3 DEF PaceFits, Pending
<1>4. QED
  BY <1>2, <1>3 DEF PutDaqTrend

\* What requests do to trends leaves the pace thread's alone.
LEMMA PaceRequests ==
    ASSUME ControlInv, NEW w \in Workers, DeleteDaqEnd(w) \/ PollTrend(w)
    PROVE  PaceFits'
<1> USE DEF ControlInv
<1>1. UNCHANGED <<allocated, varOwner, pace, main>>
  BY DEF DeleteDaqEnd, PollTrend, heap, thePace
<1>2. CASE DeleteDaqEnd(w)
  <2> DEFINE t == arg[w].trend
  <2>1. /\ trendsOf' = [trendsOf EXCEPT ![traced[t]] = @ \ {t}]
        /\ life' = [life EXCEPT ![t] = "freed"] /\ array' = array
        /\ varOwner[traced[t]] = None
    BY <1>2 DEF DeleteDaqEnd, RemoveTrend, records
  <2> HIDE DEF t
  <2>2. \A u \in Trends : life'[u] = "live" => life[u] = "live"
    BY <2>1 DEF TypeOK
  <2>3. pace.pc \in {"feed", "write"} =>
            trendsOf'[pace.var] = trendsOf[pace.var]
    <3>1. pace.pc \in {"feed", "write"} => traced[t] # pace.var
      BY <2>1, Constants DEF PaceFits
    <3>2. QED
      BY <2>1, <3>1 DEF TypeOK
  <2>4. QED
    BY <1>1, <2>1, <2>2, <2>3 DEF PaceFits, Pending
<1>3. CASE PollTrend(w)
  <2>1. trendsOf' = trendsOf /\ life' = life
    BY <1>3 DEF PollTrend, registry, heap
  <2>2. pace.pc = "write" => array'[pace.trend] = array[pace.trend]
    <3>1. PICK d \in DaqNames : daqs[d] # None /\ FormatAllData(daqs[d])
      BY <1>3 DEF PollTrend
    <3>2. QED
      BY <3>1 DEF FormatAllData, TrendLocked, TypeOK
  <2>3. QED
    BY <1>1, <2>1, <2>2 DEF PaceFits, Pending
<1>4. QED
  BY <1>2, <1>3

\* It takes the mutex of an object in the list, and its trends.
LEMMA PaceFeed ==
    ASSUME ControlInv, FeedTrend
    PROVE  PaceFits'
<1> USE DEF ControlInv
<1>1. /\ pace.pc = "var" /\ pace.n \in Names /\ pace.n # 0
      /\ UNCHANGED <<main, allocated, trendsOf, life, array>>
  BY Walk, Constants DEF FeedTrend, PaceOnly, heap, registry
<1>2. main \in {"serving", "stopPace"}
  BY <1>1 DEF PaceFits
<1>3. CASE link[pace.n] = None
  <2>1. pace' = NextVar
    BY <1>3 DEF FeedTrend
  <2>2. /\ \/ pace'.pc = "var" /\ pace'.n # 0
           \/ pace'.pc = "sleep" /\ pace'.n = 0
        /\ pace'.trend = None
    <3>1. pace.n + 1 # 0
      BY <1>1, Walk, TrendAssumption
    <3>2. QED
      BY <1>1, <2>1, <3>1, Walk
  <2>3. QED
    BY <1>1, <1>2, <2>2 DEF PaceFits, Pending
<1>4. CASE link[pace.n] # None
  <2> DEFINE v == link[pace.n]
  <2>1. v \in allocated /\ v \in Vars /\ v[1] = pace.n
    BY <1>1, <1>2, <1>4 DEF ListFits
  <2>2. varOwner' = [varOwner EXCEPT ![v] = Pace]
        /\ pace' = [pace EXCEPT !.pc = "feed", !.var = v, !.left = trendsOf[v]]
    BY <1>4 DEF FeedTrend
  <2> HIDE DEF v
  <2>3. pace.trend = None
    BY <1>1 DEF PaceFits
  <2>4. /\ pace'.pc = "feed" /\ pace'.n = pace.n /\ pace'.var = v
        /\ pace'.left = trendsOf[v] /\ pace'.trend = None
    BY <2>2, <2>3, Locals DEF Paces
  <2>5. varOwner'[v] = Pace
    BY <2>1, <2>2 DEF TypeOK
  <2>6. QED
    BY <1>1, <1>2, <2>1, <2>4, <2>5, Constants DEF PaceFits, Pending
<1>5. QED
  BY <1>3, <1>4

\* Its values: all alike while it sleeps, the first ones new in a round.
LEMMA ValuesTick ==
    ASSUME ControlInv, Tick
    PROVE  Values'
<1> USE DEF ControlInv
<1>1. /\ pace'.pc = "var" /\ pace'.n = 1 /\ value' = value
      /\ pace.pc = "sleep" /\ value[NumVars] < MaxTick
  BY DEF Tick, Asleep
<1>2. \A m \in Names : value[m] = value[1] /\ value[m] < MaxTick
  <2>1. 1 \in Names /\ NumVars \in Names
    BY TrendAssumption DEF Names
  <2>2. QED
    BY <1>1, <2>1 DEF Values
<1>3. \A m \in Names : ~(m < 1)
  BY DEF Names
<1>4. QED
  BY <1>1, <1>2, <1>3 DEF Values

\* The round goes on to the next variable, or ends with all of them alike.
LEMMA ValuesNext ==
    ASSUME ControlInv, NEW nv \in [Names -> 0..MaxTick], pace.pc # "sleep",
           pace' = NextVar, value' = nv,
           \A m \in Names : /\ m <= pace.n => nv[m] = nv[pace.n]
                            /\ m > pace.n => nv[m] + 1 = nv[pace.n]
    PROVE  Values'
<1> USE DEF ControlInv
<1>1. pace.n \in Names /\ pace.n \in 1..NumVars /\ Names \subseteq Nat
  BY Walk, Constants
<1>2. CASE pace.n < NumVars
  <2>1. pace'.pc = "var" /\ pace'.n = pace.n + 1 /\ pace.n + 1 \in Names
    BY <1>1, <1>2, Walk, Constants
  <2>2. nv[pace.n + 1] + 1 = nv[pace.n]
    BY <1>1, <2>1
  <2>3. ASSUME NEW m \in Names
        PROVE  /\ m < pace.n + 1 => nv[m] = nv[pace.n + 1] + 1
               /\ m >= pace.n + 1 => /\ nv[m] = nv[pace.n + 1]
                                     /\ nv[m] < MaxTick
    <3>1. m \in Nat /\ nv[m] \in 0..MaxTick /\ nv[pace.n] \in 0..MaxTick
          /\ nv[pace.n + 1] \in 0..MaxTick
      BY <1>1, <2>1
    <3>2. CASE m <= pace.n
      BY <1>1, <2>2, <3>1, <3>2
    <3>3. CASE m > pace.n
      BY <1>1, <2>2, <3>1, <3>3, TrendAssumption
    <3>4. QED
      BY <1>1, <3>1, <3>2, <3>3
  <2>4. QED
    BY <2>1, <2>3 DEF Values
<1>3. CASE ~(pace.n < NumVars)
  <2>1. pace'.pc = "sleep" /\ pace.n = NumVars
    BY <1>1, <1>3, Walk
  <2>2. \A m \in Names : m <= pace.n
    BY <2>1 DEF Names
  <2>3. \A m \in Names : nv[m] = nv[pace.n]
    BY <2>2
  <2>4. QED
    BY <2>1, <2>3 DEF Values
<1>4. QED
  BY <1>2, <1>3

\* The variable the pace thread is at gets the new value.
LEMMA ValuesFeed ==
    ASSUME ControlInv, TypeOK', FeedTrend
    PROVE  Values'
<1> USE DEF ControlInv
<1>1. /\ pace.pc = "var" /\ pace.n \in Names /\ Names \subseteq Nat
      /\ value' = [value EXCEPT ![pace.n] = value[pace.n] + 1]
  BY Walk, Constants DEF FeedTrend
<1>2. ASSUME NEW m \in Names
      PROVE  /\ m <= pace.n => value'[m] = value'[pace.n]
             /\ m > pace.n => value'[m] + 1 = value'[pace.n]
  <2>1. /\ m < pace.n => value[m] = value[pace.n] + 1
        /\ m >= pace.n => value[m] = value[pace.n]
    BY <1>1 DEF Values
  <2>2. value'[pace.n] = value[pace.n] + 1
        /\ (m # pace.n => value'[m] = value[m])
    BY <1>1 DEF TypeOK
  <2>3. value[m] \in Nat /\ value[pace.n] \in Nat /\ m \in Nat
        /\ pace.n \in Nat
    BY <1>1 DEF TypeOK
  <2>4. QED
    BY <2>1, <2>2, <2>3
<1>3. CASE link[pace.n] = None
  <2>1. pace' = NextVar
    BY <1>3 DEF FeedTrend
  <2>2. value' \in [Names -> 0..MaxTick]
    BY DEF TypeOK
  <2>3. QED
    BY <1>1, <1>2, <2>1, <2>2, ValuesNext
<1>4. CASE link[pace.n] # None
  <2>1. pace' = [pace EXCEPT !.pc = "feed", !.var = link[pace.n],
                             !.left = trendsOf[link[pace.n]]]
    BY <1>4 DEF FeedTrend
  <2>2. pace'.pc = "feed" /\ pace'.n = pace.n
    BY <2>1, Locals DEF Paces
  <2>3. QED
    BY <1>2, <2>2 DEF Values
<1>5. QED
  BY <1>3, <1>4

\* When its trends are fed the thread goes on.
LEMMA ValuesEnd ==
    ASSUME ControlInv, FeedEnd
    PROVE  Values'
<1>1. pace.pc = "feed" /\ pace' = NextVar /\ value' = value
  BY SMTT(30) DEF FeedEnd
<1>2. QED
  BY <1>1, ValuesNext, SMTT(30) DEF ControlInv, TypeOK, Values

-----------------------------------------------------------------------------
(* Every step keeps the invariant. *)

\* The list stays whole.
LEMMA ListStep ==
    ASSUME Orderly, ControlInv, TypeOK', WorkersFit', [Next]_vars
    PROVE  ListFits'
<1> USE Constants DEF ControlInv, TypeOK, list, heap, records,
           registry, thePace, ListFits, WorkersFit, Orderly, Asleep,
           NoReaderWhileBuilding, Building
<1>1. ASSUME NEW w \in Workers, Arrive(w) PROVE ListFits'
  BY <1>1, ListArrive
<1>2. ASSUME NEW w \in Workers, OnGetVariableList(w) PROVE ListFits'
  BY <1>2, ListBuild
<1>3. ASSUME NEW w \in Workers, UseVariable(w) PROVE ListFits'
  BY <1>3, Moves, ListKept, ZenonT(30)
<1>4. ASSUME NEW w \in Workers, UsedVariable(w) PROVE ListFits'
  BY <1>4, Moves, ListKept, ZenonT(30)
<1>5. ASSUME NEW w \in Workers, PutDaqTrend(w) PROVE ListFits'
  BY <1>5, Moves, ListKept, ZenonT(30)
<1>6. ASSUME NEW w \in Workers, SetVar(w) PROVE ListFits'
  BY <1>6, Moves, ListKept, ZenonT(30)
<1>7. ASSUME NEW w \in Workers, AddTrend(w) PROVE ListFits'
  BY <1>7, Moves, ListKept, ZenonT(30)
<1>8. ASSUME NEW w \in Workers, DeleteDaq(w) PROVE ListFits'
  BY <1>8, Moves, ListKept, ZenonT(30)
<1>9. ASSUME NEW w \in Workers, DeleteDaqEnd(w) PROVE ListFits'
  BY <1>9, Moves, ListKept, ZenonT(30)
<1>10. ASSUME NEW w \in Workers, PollTrend(w) PROVE ListFits'
  BY <1>10, Moves, ListKept, ZenonT(30)
<1>11. CASE Tick
  BY <1>11 DEF Tick, PaceOnly
<1>12. CASE FeedTrend
  BY <1>12 DEF FeedTrend, PaceOnly, NextVar
<1>13. CASE FeedLock
  BY <1>13 DEF FeedLock, PaceOnly
<1>14. CASE FeedWrite
  BY <1>14 DEF FeedWrite, PaceOnly
<1>15. CASE FeedEnd
  BY <1>15 DEF FeedEnd, PaceOnly, NextVar
<1>16. CASE VarlistChanged
  BY <1>16, SMTT(30) DEF VarlistChanged
<1>17. CASE StopServer
  BY <1>17 DEF StopServer, MainOnly
<1>18. CASE DestroyTrend
  BY <1>18 DEF DestroyTrend, DeleteArray, MainOnly, ListHeld
<1>19. CASE DestroyTrendEnd
  BY <1>19 DEF DestroyTrendEnd, RemoveTrend, MainOnly
<1>20. CASE ClearVars
  BY <1>20 DEF ClearVars, MainOnly, ListHeld
<1>21. CASE UNCHANGED vars
  BY <1>21 DEF vars
<1>22. QED
  BY <1>1, <1>2, <1>3, <1>4, <1>5, <1>6, <1>7, <1>8, <1>9, <1>10,
     <1>11, <1>12, <1>13, <1>14, <1>15, <1>16, <1>17,
     <1>18, <1>19, <1>20, <1>21, ZenonT(30)
  DEF Next, WorkerStep, PaceStep, MainStep

\* The trends stay registered.
LEMMA RegisteredStep ==
    ASSUME Orderly, ControlInv, TypeOK', WorkersFit', [Next]_vars
    PROVE  Registered'
<1> USE Constants DEF ControlInv, TypeOK, list, heap, records,
           registry, thePace, Registered
<1>1. ASSUME NEW w \in Workers, Arrive(w) PROVE Registered'
  BY <1>1 DEF Arrive, Goto, Serving, Building
<1>2. ASSUME NEW w \in Workers, OnGetVariableList(w) PROVE Registered'
  BY <1>2 DEF OnGetVariableList, Goto
<1>3. ASSUME NEW w \in Workers, UseVariable(w) PROVE Registered'
  BY <1>3 DEF UseVariable, Answer, Goto
<1>4. ASSUME NEW w \in Workers, UsedVariable(w) PROVE Registered'
  BY <1>4 DEF UsedVariable, Answer, Goto
<1>5. ASSUME NEW w \in Workers, PutDaqTrend(w) PROVE Registered'
  BY <1>5, RegisteredPut
<1>6. ASSUME NEW w \in Workers, SetVar(w) PROVE Registered'
  BY <1>6, RegisteredSetVar
<1>7. ASSUME NEW w \in Workers, AddTrend(w) PROVE Registered'
  BY <1>7, RegisteredAdd
<1>8. ASSUME NEW w \in Workers, DeleteDaq(w) PROVE Registered'
  BY <1>8, RegisteredRequests
<1>9. ASSUME NEW w \in Workers, DeleteDaqEnd(w) PROVE Registered'
  BY <1>9, RegisteredRequests
<1>10. ASSUME NEW w \in Workers, PollTrend(w) PROVE Registered'
  BY <1>10 DEF PollTrend, FormatAllData, TrendLocked, Answer, Goto
<1>11. CASE Tick
  BY <1>11 DEF Tick, PaceOnly
<1>12. CASE FeedTrend
  BY <1>12 DEF FeedTrend, PaceOnly, NextVar
<1>13. CASE FeedLock
  BY <1>13 DEF FeedLock, PaceOnly
<1>14. CASE FeedWrite
  BY <1>14 DEF FeedWrite, PaceOnly
<1>15. CASE FeedEnd
  BY <1>15 DEF FeedEnd, PaceOnly, NextVar
<1>16. CASE VarlistChanged
  BY <1>16 DEF VarlistChanged
<1>17. CASE StopServer
  BY <1>17 DEF StopServer, MainOnly
<1>18. CASE DestroyTrend
  BY <1>18, RegisteredDelete DEF DestroyTrend, MainOnly
<1>19. CASE DestroyTrendEnd
  BY <1>19, RegisteredRemove, ZenonT(30) DEF DestroyTrendEnd, MainOnly
<1>20. CASE ClearVars
  BY <1>20 DEF ClearVars, MainOnly, ListHeld
<1>21. CASE UNCHANGED vars
  BY <1>21, SMTT(30) DEF vars
<1>22. QED
  BY <1>1, <1>2, <1>3, <1>4, <1>5, <1>6, <1>7, <1>8, <1>9, <1>10,
     <1>11, <1>12, <1>13, <1>14, <1>15, <1>16, <1>17,
     <1>18, <1>19, <1>20, <1>21, ZenonT(30)
  DEF Next, WorkerStep, PaceStep, MainStep

\* The pace thread keeps to its round.
LEMMA PaceFitsStep ==
    ASSUME Orderly, ControlInv, TypeOK', WorkersFit', [Next]_vars
    PROVE  PaceFits'
<1> USE Constants DEF ControlInv, TypeOK, list, heap, records,
           registry, thePace, Registered, WorkersFit,
           PaceFits, Pending, Asleep, Pace, Orderly, Holds
<1>1. ASSUME NEW w \in Workers, Arrive(w) PROVE PaceFits'
  BY <1>1 DEF Arrive, Goto, Serving, Building
<1>2. ASSUME NEW w \in Workers, OnGetVariableList(w) PROVE PaceFits'
  BY <1>2 DEF OnGetVariableList, Goto
<1>3. ASSUME NEW w \in Workers, UseVariable(w) PROVE PaceFits'
  BY <1>3 DEF UseVariable, Answer, Goto
<1>4. ASSUME NEW w \in Workers, UsedVariable(w) PROVE PaceFits'
  BY <1>4 DEF UsedVariable, Answer, Goto
<1>5. ASSUME NEW w \in Workers, PutDaqTrend(w) PROVE PaceFits'
  BY <1>5, PacePut
<1>6. ASSUME NEW w \in Workers, SetVar(w) PROVE PaceFits'
  BY <1>6 DEF SetVar, Goto
<1>7. ASSUME NEW w \in Workers, AddTrend(w) PROVE PaceFits'
  BY <1>7 DEF AddTrend, Answer, Goto
<1>8. ASSUME NEW w \in Workers, DeleteDaq(w) PROVE PaceFits'
  BY <1>8, SMTT(30) DEF DeleteDaq, DeleteArray, Answer, Goto, ListHeld
<1>9. ASSUME NEW w \in Workers, DeleteDaqEnd(w) PROVE PaceFits'
  BY <1>9, PaceRequests
<1>10. ASSUME NEW w \in Workers, PollTrend(w) PROVE PaceFits'
  BY <1>10, PaceRequests
<1>11. CASE Tick
  BY <1>11 DEF Tick, PaceOnly
<1>12. CASE FeedTrend
  BY <1>12, PaceFeed
<1>13. CASE FeedLock
  BY <1>13 DEF FeedLock, PaceOnly
<1>14. CASE FeedWrite
  BY <1>14 DEF FeedWrite, PaceOnly
<1>15. CASE FeedEnd
  BY <1>15 DEF FeedEnd, PaceOnly, NextVar
<1>16. CASE VarlistChanged
  BY <1>16 DEF VarlistChanged
<1>17. CASE StopServer
  BY <1>17 DEF StopServer, MainOnly
<1>18. CASE DestroyTrend
  BY <1>18 DEF DestroyTrend, DeleteArray, MainOnly, ListHeld
<1>19. CASE DestroyTrendEnd
  BY <1>19 DEF DestroyTrendEnd, RemoveTrend, MainOnly
<1>20. CASE ClearVars
  BY <1>20 DEF ClearVars, MainOnly, ListHeld
<1>21. CASE UNCHANGED vars
  BY <1>21 DEF vars
<1>22. QED
  BY <1>1, <1>2, <1>3, <1>4, <1>5, <1>6, <1>7, <1>8, <1>9, <1>10,
     <1>11, <1>12, <1>13, <1>14, <1>15, <1>16, <1>17,
     <1>18, <1>19, <1>20, <1>21, ZenonT(30)
  DEF Next, WorkerStep, PaceStep, MainStep

\* Its values stay in step.
LEMMA ValuesStep ==
    ASSUME Orderly, ControlInv, TypeOK', WorkersFit', [Next]_vars
    PROVE  Values'
<1> USE Constants DEF ControlInv, TypeOK, list, heap, records,
           registry, thePace, Values
<1>1. ASSUME NEW w \in Workers, Arrive(w) PROVE Values'
  BY <1>1 DEF Arrive, Goto, Serving, Building
<1>2. ASSUME NEW w \in Workers, OnGetVariableList(w) PROVE Values'
  BY <1>2 DEF OnGetVariableList, Goto
<1>3. ASSUME NEW w \in Workers, UseVariable(w) PROVE Values'
  BY <1>3 DEF UseVariable, Answer, Goto
<1>4. ASSUME NEW w \in Workers, UsedVariable(w) PROVE Values'
  BY <1>4 DEF UsedVariable, Answer, Goto
<1>5. ASSUME NEW w \in Workers, PutDaqTrend(w) PROVE Values'
  BY <1>5 DEF PutDaqTrend, Answer, Goto, ListHeld
<1>6. ASSUME NEW w \in Workers, SetVar(w) PROVE Values'
  BY <1>6 DEF SetVar, Goto
<1>7. ASSUME NEW w \in Workers, AddTrend(w) PROVE Values'
  BY <1>7 DEF AddTrend, Answer, Goto
<1>8. ASSUME NEW w \in Workers, DeleteDaq(w) PROVE Values'
  BY <1>8 DEF DeleteDaq, DeleteArray, Answer, Goto, ListHeld
<1>9. ASSUME NEW w \in Workers, DeleteDaqEnd(w) PROVE Values'
  BY <1>9 DEF DeleteDaqEnd, RemoveTrend, Answer, Goto
<1>10. ASSUME NEW w \in Workers, PollTrend(w) PROVE Values'
  BY <1>10 DEF PollTrend, FormatAllData, TrendLocked, Answer, Goto
<1>11. CASE Tick
  BY <1>11, ValuesTick
<1>12. CASE FeedTrend
  BY <1>12, ValuesFeed
<1>13. CASE FeedLock
  BY <1>13 DEF FeedLock, PaceOnly
<1>14. CASE FeedWrite
  BY <1>14 DEF FeedWrite, PaceOnly
<1>15. CASE FeedEnd
  BY <1>15, ValuesEnd
<1>16. CASE VarlistChanged
  BY <1>16 DEF VarlistChanged
<1>17. CASE StopServer
  BY <1>17 DEF StopServer, MainOnly
<1>18. CASE DestroyTrend
  BY <1>18, SMTT(30) DEF DestroyTrend, DeleteArray, MainOnly, ListHeld
<1>19. CASE DestroyTrendEnd
  BY <1>19 DEF DestroyTrendEnd, RemoveTrend, MainOnly
<1>20. CASE ClearVars
  BY <1>20 DEF ClearVars, MainOnly, ListHeld
<1>21. CASE UNCHANGED vars
  BY <1>21 DEF vars
<1>22. QED
  BY <1>1, <1>2, <1>3, <1>4, <1>5, <1>6, <1>7, <1>8, <1>9, <1>10,
     <1>11, <1>12, <1>13, <1>14, <1>15, <1>16, <1>17,
     <1>18, <1>19, <1>20, <1>21, ZenonT(30)
  DEF Next, WorkerStep, PaceStep, MainStep

\* What the control of the trends rests on holds from the start ...
LEMMA ControlInit == Init => ControlInv
<1> SUFFICES ASSUME Init PROVE ControlInv
  OBVIOUS
<1> USE Constants DEF Init, Asleep, NoArg
<1>1. TypeOK
  BY TypeInit
<1>2. WorkersFit
  BY DEF WorkersFit, RequestVarAlive, Holds
<1>3. ListFits
  BY DEF ListFits, NoReaderWhileBuilding, Building
<1>4. Registered
  BY DEF Registered
<1>5. Values /\ PaceFits
  BY DEF Values, PaceFits, Pending
<1>6. QED
  BY <1>1, <1>2, <1>3, <1>4, <1>5 DEF ControlInv

\* ... and with every step.
LEMMA ControlStep ==
    ASSUME Orderly, ControlInv, [Next]_vars
    PROVE  ControlInv'
<1>1. TypeOK'
  <2>1. CASE UNCHANGED vars
    BY <2>1 DEF vars, TypeOK, ControlInv
  <2>2. CASE Next
    BY <2>2, TypeWorkers, TypeOthers DEF Next, ControlInv
  <2>3. QED
    BY <2>1, <2>2
<1>2. WorkersFit'
  BY WorkersStep
<1>3. ListFits' /\ Registered'
  BY <1>1, <1>2, ListStep, RegisteredStep
<1>4. PaceFits' /\ Values'
  BY <1>1, <1>2, PaceFitsStep, ValuesStep
<1>5. QED
  BY <1>1, <1>2, <1>3, <1>4 DEF ControlInv

\* What a run checks follows.
LEMMA ControlSuffices == ControlInv => TrendsInv
<1> SUFFICES ASSUME ControlInv PROVE TrendsInv
  OBVIOUS
<1> USE DEF ControlInv
<1>1. TypeOK /\ NoReaderWhileBuilding /\ RequestVarAlive
  BY DEF ListFits, WorkersFit
<1>2. FeedsWhatExists
  <2> SUFFICES ASSUME pace.pc \in {"feed", "write"}
               PROVE  /\ pace.var \in allocated
                      /\ \A t \in pace.left \cup ({pace.trend} \ {None}) :
                            life[t] \in {"live", "dying"}
    BY DEF FeedsWhatExists, PaceFits
  <2>1. pace.var \in allocated /\ pace.var \in Vars
    BY DEF PaceFits, TypeOK
  <2>2. ASSUME NEW t \in pace.left \cup ({pace.trend} \ {None})
        PROVE  life[t] \in {"live", "dying"}
    <3>1. t \in Trends /\ Pending(t)
      BY <2>2 DEF TypeOK, Pending
    <3>2. t \in trendsOf[pace.var]
      BY <3>1 DEF PaceFits
    <3>3. QED
      BY <2>1, <3>2 DEF Registered
  <2>3. QED
    BY <2>1, <2>2
<1>3. TrendsAreFed
  BY DEF TrendsAreFed, Registered, ListFits, TypeOK
<1>4. QED
  BY <1>1, <1>2, <1>3 DEF TrendsInv

\* Whoever uses a variable or a trend, the pace thread, a request or a poll,
\* finds the object allocated, the list whole, and the trend where it is fed;
\* the array of a trend that is being deleted is not part of this, as the
\* code deletes it under the pace thread (FeedsOnlyAnArray).
THEOREM TrendsAreSafe == Orderly => (Spec => []TrendsInv)
<1> SUFFICES ASSUME Orderly PROVE Spec => []TrendsInv
  OBVIOUS
<1>1. Init => ControlInv
  BY ControlInit
<1>2. ControlInv /\ [Next]_vars => ControlInv'
  BY ControlStep
<1>3. ControlInv => TrendsInv
  BY ControlSuffices
<1>4. QED
  BY <1>1, <1>2, <1>3, PTL DEF Spec

-----------------------------------------------------------------------------
(* The records of the trends. *)

\* A trend that is pending is registered with the variable being fed.
LEMMA PendingIs ==
    ASSUME ControlInv, NEW t \in Trends, Pending(t)
    PROVE  /\ pace.pc \in {"feed", "write"} /\ pace.n \in Names
           /\ pace.var \in Vars /\ pace.var[1] = pace.n
           /\ t \in trendsOf[pace.var] /\ traced[t] = pace.var
           /\ varOwner[pace.var] = Pace /\ life[t] \in {"live", "dying"}
<1> USE DEF ControlInv
<1>1. pace.pc \in {"feed", "write"}
  BY DEF Pending
<1>2. /\ pace.var \in allocated /\ pace.var \in Vars /\ pace.var[1] = pace.n
      /\ t \in trendsOf[pace.var] /\ varOwner[pace.var] = Pace
  BY <1>1 DEF PaceFits, TypeOK
<1>3. pace.n \in Names
  BY <1>1, Walk
<1>4. QED
  BY <1>1, <1>2, <1>3 DEF Registered

\* What a step leaves alone stays gathered.
LEMMA Kept ==
    ASSUME NEW t \in Trends, Gathered(t), life'[t] = life[t],
           Recorded(t)' = Recorded(t), since' = since,
           UNCHANGED <<link, value>>, Pending(t)' <=> Pending(t),
           Pending(t) => pace'.n = pace.n,
           \A v \in Vars : t \in trendsOf'[v] <=> t \in trendsOf[v],
           life[t] = "live" /\ (\E d \in DaqNames : daqs[d] = t) =>
              \E d \in DaqNames : daqs'[d] = t
    PROVE  Gathered(t)'
BY DEF Gathered

\* A new object has no trends.
LEMMA GatheredBuild ==
    ASSUME ControlInv, NEW t \in Trends, Gathered(t),
           NEW w \in Workers, OnGetVariableList(w)
    PROVE  Gathered(t)'
<1> USE DEF ControlInv
<1> DEFINE n == arg[w].n + 1
           new == <<n, built>>
<1>1. /\ link' = [link EXCEPT ![n] = new] /\ pc[w] = "build"
      /\ UNCHANGED <<life, since, trendsOf, value, pace, daqs>>
      /\ Recorded(t)' = Recorded(t) /\ Pending(t)' = Pending(t)
  BY DEF OnGetVariableList, registry, records, thePace, Recorded, Pending
<1>2. new \notin allocated
  <2>1. arg[w].n \in Nat
    <3>1. arg \in [Workers -> Args]
      BY Locals
    <3>2. QED
      BY <3>1, TrendAssumption DEF Args
  <2>2. new \in allocated => n <= arg[w].n
    BY <1>1 DEF ListFits
  <2>3. QED
    BY <2>1, <2>2
<1>3. \A v \in Vars : t \in trendsOf[v] => v \in allocated
  BY DEF Registered
<1> HIDE DEF n, new
<1>4. \A v \in Vars : t \in trendsOf[v] /\ link'[v[1]] = v => link[v[1]] = v
  BY <1>1, <1>2, <1>3, Constants DEF TypeOK
<1>5. QED
  BY <1>1, <1>4 DEF Gathered

\* A new trend has recorded nothing.
LEMMA GatheredPut ==
    ASSUME ControlInv, NEW t \in Trends, Gathered(t),
           NEW w \in Workers, PutDaqTrend(w)
    PROVE  Gathered(t)'
<1> USE DEF ControlInv
<1> DEFINE new == CHOOSE u \in Trends : life[u] = "none"
<1>1. /\ UNCHANGED <<link, since, trendsOf, value, pace>>
      /\ Recorded(t)' = Recorded(t) /\ Pending(t)' = Pending(t)
  BY DEF PutDaqTrend, list, registry, thePace, Recorded, Pending
<1>2. CASE UNCHANGED <<daqs, life>>
  BY <1>1, <1>2, Kept
<1>3. ASSUME NEW d \in DaqNames, daqs[d] = None,
             \E u \in Trends : life[u] = "none",
             daqs' = [daqs EXCEPT ![d] = new],
             life' = [life EXCEPT ![new] = "live"]
      PROVE  Gathered(t)'
  <2>1. new \in Trends /\ life[new] = "none"
    BY <1>3
  <2> HIDE DEF new
  <2>2. CASE t = new
    <3>1. Recorded(t) = <<>> /\ life'[t] = "live" /\ daqs'[d] = t
      BY <1>3, <2>1, <2>2 DEF Gathered, TypeOK
    <3>2. ~Pending(t) /\ \A v \in Vars : t \notin trendsOf[v]
      BY <2>1, <2>2, PendingIs DEF Registered
    <3>3. DOMAIN Recorded(t)' = {}
      BY <1>1, <3>1
    <3>4. QED
      BY <1>1, <3>1, <3>2, <3>3 DEF Gathered
  <2>3. CASE t # new
    <3>1. life'[t] = life[t]
      BY <1>3, <2>3 DEF TypeOK
    <3>2. \A c \in DaqNames : daqs[c] = t => daqs'[c] = t
      BY <1>3, Constants DEF TypeOK
    <3>3. QED
      BY <1>1, <3>1, <3>2, Kept
  <2>4. QED
    BY <2>2, <2>3
<1>4. QED
  BY <1>2, <1>3 DEF PutDaqTrend

\* A trend that is registered has recorded nothing yet.
LEMMA GatheredAdd ==
    ASSUME ControlInv, NEW t \in Trends, Gathered(t),
           NEW w \in Workers, AddTrend(w)
    PROVE  Gathered(t)'
<1> USE DEF ControlInv
<1> DEFINE a == arg[w]
<1>1. /\ trendsOf' = [trendsOf EXCEPT ![a.var] = @ \cup {a.trend}]
      /\ since' = IF a.trend \in trendsOf[a.var] THEN since
                  ELSE [since EXCEPT ![a.trend] = value[a.var[1]]]
      /\ UNCHANGED <<link, life, value, pace, daqs>> /\ pc[w] = "setVar"
      /\ Recorded(t)' = Recorded(t) /\ Pending(t)' = Pending(t)
  BY DEF AddTrend, list, heap, records, thePace, Recorded, Pending
<1>2. /\ a.trend \in Trends /\ life[a.trend] = "live" /\ a.var \in Vars
      /\ traced[a.trend] = a.var
  BY <1>1 DEF WorkersFit
<1> HIDE DEF a
<1>3. CASE t # a.trend \/ t \in trendsOf[a.var]
  <2>1. \A v \in Vars : t \in trendsOf'[v] <=> t \in trendsOf[v]
    BY <1>1, <1>2, <1>3 DEF TypeOK
  <2>2. since'[t] = since[t]
    BY <1>1, <1>2, <1>3 DEF TypeOK
  <2>3. QED
    BY <1>1, <2>1, <2>2 DEF Gathered
<1>4. CASE t = a.trend /\ t \notin trendsOf[a.var]
  <2>1. \A v \in Vars : t \notin trendsOf[v]
    BY <1>2, <1>4 DEF Registered
  <2>2. ~Pending(t)
    BY <2>1, PendingIs
  <2>3. Recorded(t) = <<>> /\ DOMAIN Recorded(t)' = {} /\ Len(Recorded(t)') = 0
        /\ \E d \in DaqNames : daqs[d] = t
    BY <1>1, <1>2, <1>4, <2>1 DEF Gathered
  <2>4. \A v \in Vars : t \in trendsOf'[v] => v = a.var
    BY <1>1, <1>2, <2>1 DEF TypeOK
  <2>5. since'[t] = value[a.var[1]] /\ value[a.var[1]] \in Nat
    <3>1. value[a.var[1]] \in 0..MaxTick
      BY <1>2, Constants DEF TypeOK
    <3>2. since'[t] = value[a.var[1]]
      BY <1>1, <1>2, <1>4 DEF TypeOK
    <3>3. QED
      BY <3>1, <3>2, TrendAssumption
  <2>6. a.var \in Vars /\ t \in trendsOf'[a.var]
    BY <1>1, <1>2, <1>4 DEF TypeOK
  <2>7. QED
    BY <1>1, <1>2, <1>4, <2>2, <2>3, <2>4, <2>5, <2>6 DEF Gathered
<1>5. QED
  BY <1>3, <1>4

\* Others than the trend that is deleted keep their names ...
LEMMA GatheredDelete ==
    ASSUME ControlInv, NEW t \in Trends, Gathered(t), NEW d \in DaqNames,
           daqs[d] # None, daqs' = [daqs EXCEPT ![d] = None],
           DeleteArray(daqs[d]),
           UNCHANGED <<link, since, trendsOf, value, pace, queue, sent>>
    PROVE  Gathered(t)'
<1> USE DEF ControlInv
<1>1. life' = [life EXCEPT ![daqs[d]] = "dying"] /\ daqs[d] \in Trends
  BY DEF DeleteArray, TypeOK
<1>2. Recorded(t)' = Recorded(t) /\ Pending(t)' = Pending(t)
  BY DEF Recorded, Pending
<1>3. CASE t = daqs[d]
  BY <1>1, <1>3 DEF Gathered, TypeOK
<1>4. CASE t # daqs[d]
  <2>1. life'[t] = life[t] /\ \A c \in DaqNames : daqs[c] = t => daqs'[c] = t
    BY <1>1, <1>4 DEF TypeOK
  <2>2. QED
    BY <1>2, <2>1, Kept
<1>5. QED
  BY <1>3, <1>4

\* ... and their places.
LEMMA GatheredRemove ==
    ASSUME ControlInv, NEW t \in Trends, Gathered(t), NEW u \in Trends,
           RemoveTrend(u),
           UNCHANGED <<link, since, daqs, value, pace, queue, sent>>
    PROVE  Gathered(t)'
<1> USE DEF ControlInv
<1>1. /\ trendsOf' = [trendsOf EXCEPT ![traced[u]] = @ \ {u}]
      /\ life' = [life EXCEPT ![u] = "freed"]
  BY DEF RemoveTrend
<1>2. Recorded(t)' = Recorded(t) /\ Pending(t)' = Pending(t)
  BY DEF Recorded, Pending
<1>3. CASE t = u
  BY <1>1, <1>3 DEF Gathered, TypeOK
<1>4. CASE t # u
  <2>1. \A v \in Vars : t \in trendsOf'[v] <=> t \in trendsOf[v]
    BY <1>1, <1>4 DEF TypeOK
  <2>2. life'[t] = life[t]
    BY <1>1, <1>4 DEF TypeOK
  <2>3. QED
    BY <1>2, <2>1, <2>2, Kept
<1>5. QED
  BY <1>3, <1>4

\* The two halves of a DELETE.
LEMMA GatheredRequests ==
    ASSUME ControlInv, NEW t \in Trends, Gathered(t),
           NEW w \in Workers, DeleteDaq(w) \/ DeleteDaqEnd(w)
    PROVE  Gathered(t)'
<1> USE DEF ControlInv, list, records, registry, thePace
<1>1. CASE DeleteDaq(w)
  <2>1. UNCHANGED <<link, since, trendsOf, value, pace, queue, sent>>
    BY <1>1 DEF DeleteDaq
  <2>2. PICK d \in DaqNames :
           IF daqs[d] = None
           THEN Answer(w) /\ UNCHANGED <<daqs, life, array>>
           ELSE /\ daqs' = [daqs EXCEPT ![d] = None]
                /\ DeleteArray(daqs[d])
                /\ arg' = [arg EXCEPT ![w].trend = daqs[d]]
                /\ Goto(w, "remove")
    BY <1>1 DEF DeleteDaq
  <2>3. CASE daqs[d] = None
    BY <2>1, <2>2, <2>3, Kept DEF Recorded, Pending
  <2>4. CASE daqs[d] # None
    BY <2>1, <2>2, <2>4, GatheredDelete
  <2>5. QED
    BY <2>3, <2>4
<1>2. CASE DeleteDaqEnd(w)
  <2>1. arg[w].trend \in Trends
    BY <1>2 DEF DeleteDaqEnd, WorkersFit
  <2>2. QED
    BY <1>2, <2>1, GatheredRemove DEF DeleteDaqEnd
<1>3. QED
  BY <1>1, <1>2

\* A poll moves the values from the array into the answer.
LEMMA GatheredPoll ==
    ASSUME ControlInv, NEW t \in Trends, Gathered(t),
           NEW w \in Workers, PollTrend(w)
    PROVE  Gathered(t)'
<1> USE DEF ControlInv
<1>1. UNCHANGED <<link, since, trendsOf, value, pace, life, daqs>>
      /\ Pending(t)' = Pending(t)
  BY DEF PollTrend, list, heap, registry, thePace, Pending
<1>2. PICK d \in DaqNames : daqs[d] # None /\ FormatAllData(daqs[d])
  BY DEF PollTrend
<1>3. /\ sent' = [sent EXCEPT ![daqs[d]] = @ \o queue[daqs[d]]]
      /\ queue' = [queue EXCEPT ![daqs[d]] = <<>>]
  BY <1>2 DEF FormatAllData
<1>4. Recorded(t)' = Recorded(t)
  <2>1. CASE t = daqs[d]
    <3>1. sent'[t] = sent[t] \o queue[t] /\ queue'[t] = <<>>
      BY <1>3, <2>1 DEF TypeOK
    <3>2. sent[t] \o queue[t] \in Seq(Nat)
      BY ConcatProperties DEF TypeOK
    <3>3. \A s \in Seq(Nat) : s \o <<>> = s
      BY ConcatEmptySeq
    <3>4. QED
      BY <3>1, <3>2, <3>3 DEF Recorded
  <2>2. CASE t # daqs[d]
    BY <1>3, <2>2 DEF Recorded, TypeOK
  <2>3. QED
    BY <2>1, <2>2
<1>5. QED
  BY <1>1, <1>4, Kept

\* The variable that is fed makes its trends pending.
LEMMA GatheredFeed ==
    ASSUME ControlInv, NEW t \in Trends, Gathered(t), FeedTrend
    PROVE  Gathered(t)'
<1> USE DEF ControlInv
<1>1. /\ UNCHANGED <<link, since, trendsOf, life, daqs, queue, sent>>
      /\ Recorded(t)' = Recorded(t) /\ pace.pc = "var" /\ pace.n \in Names
      /\ value' = [value EXCEPT ![pace.n] = @ + 1] /\ ~Pending(t)
  BY Walk DEF FeedTrend, PaceOnly, list, heap, registry, Recorded, Pending
<1>2. \A m \in Names : /\ m # pace.n => value'[m] = value[m]
                       /\ m = pace.n => value'[m] = value[m] + 1
                       /\ value[m] \in Int
  BY <1>1 DEF TypeOK
<1>3. CASE link[pace.n] = None
  <2>1. pace' = NextVar
    BY <1>3 DEF FeedTrend
  <2>2. ~Pending(t)'
    BY <1>1, <2>1, Walk DEF Pending
  <2>3. \A v \in Vars : link[v[1]] = v => v[1] # pace.n
    BY <1>3, Constants
  <2>4. QED
    BY <1>1, <1>2, <2>2, <2>3, Constants DEF Gathered
<1>4. CASE link[pace.n] # None
  <2> DEFINE v == link[pace.n]
  <2>1. v \in Vars /\ v[1] = pace.n
    BY <1>1, <1>4 DEF ListFits
  <2>2. pace' = [pace EXCEPT !.pc = "feed", !.var = v, !.left = trendsOf[v]]
    BY <1>4 DEF FeedTrend
  <2>3. pace.trend = None
    BY <1>1 DEF PaceFits
  <2>4. /\ pace'.pc = "feed" /\ pace'.n = pace.n /\ pace'.var = v
        /\ pace'.left = trendsOf[v] /\ pace'.trend = None
    BY <2>2, <2>3, Locals DEF Paces
  <2>5. Pending(t)' <=> t \in trendsOf[v]
    BY <2>4 DEF Pending
  <2>6. \A u \in Vars : link[u[1]] = u /\ u[1] = pace.n => u = v
    OBVIOUS
  <2>7. link[v[1]] = v
    BY <2>1
  <2> HIDE DEF v
  <2>8. ASSUME life[t] = "live", t \in trendsOf[v]
        PROVE  Len(Recorded(t)) + 1 = value'[pace.n] - since[t]
    <3>1. Len(Recorded(t)) = value[pace.n] - since[t]
      BY <1>1, <2>1, <2>7, <2>8 DEF Gathered
    <3>2. since[t] \in Int /\ value[pace.n] \in Int
      BY <1>1, <1>2 DEF TypeOK
    <3>3. QED
      BY <1>1, <1>2, <3>1, <3>2
  <2>9. ASSUME life[t] = "live", t \notin trendsOf[v], NEW u \in Vars,
               t \in trendsOf[u], link[u[1]] = u
        PROVE  Len(Recorded(t)) = value'[u[1]] - since[t]
    <3>1. u[1] # pace.n
      BY <2>6, <2>9
    <3>2. QED
      BY <1>1, <1>2, <2>9, <3>1, Constants DEF Gathered
  <2>10. QED
    BY <1>1, <2>4, <2>5, <2>8, <2>9 DEF Gathered
<1>5. QED
  BY <1>3, <1>4

\* The trend that is locked stays pending.
LEMMA GatheredLock ==
    ASSUME ControlInv, NEW t \in Trends, Gathered(t), FeedLock
    PROVE  Gathered(t)'
<1> USE DEF ControlInv
<1>1. /\ UNCHANGED <<link, since, trendsOf, life, daqs, value>>
      /\ Recorded(t)' = Recorded(t) /\ pace.pc = "feed"
  BY DEF FeedLock, PaceOnly, list, heap, registry, Recorded
<1>2. PICK u \in pace.left :
         pace' = [pace EXCEPT !.pc = "write", !.left = @ \ {u},
                              !.trend = u, !.array = array[u]]
  BY DEF FeedLock
<1>3. u \in Trends /\ pace.trend = None /\ pace.left \subseteq Trends
  BY <1>1 DEF TypeOK, PaceFits
<1>4. /\ pace'.pc = "write" /\ pace'.n = pace.n
      /\ pace'.left = pace.left \ {u} /\ pace'.trend = u
  BY <1>2, Locals DEF Paces
<1>5. Pending(t)' <=> Pending(t)
  BY <1>1, <1>3, <1>4, Constants DEF Pending
<1>6. QED
  BY <1>1, <1>4, <1>5, Kept

\* Appending to the second of two sequences appends to both together.
LEMMA AppendBehind ==
    ASSUME NEW S, NEW s \in Seq(S), NEW t \in Seq(S), NEW e \in S
    PROVE  s \o Append(t, e) = Append(s \o t, e)
<1>1. Append(t, e) = t \o <<e>>
  BY AppendIsConcat
<1>2. s \o t \in Seq(S) /\ <<e>> \in Seq(S)
  BY ConcatProperties
<1>3. Append(s \o t, e) = (s \o t) \o <<e>>
  BY <1>2, AppendIsConcat
<1>4. (s \o t) \o <<e>> = s \o (t \o <<e>>)
  BY <1>2, ConcatAssociative
<1>5. QED
  BY <1>1, <1>3, <1>4

\* The value is written behind the others.
LEMMA GatheredWrite ==
    ASSUME ControlInv, NEW t \in Trends, Gathered(t), FeedWrite
    PROVE  Gathered(t)'
<1> USE DEF ControlInv
<1> DEFINE x == value[pace.n]
<1>1. /\ UNCHANGED <<link, since, trendsOf, life, daqs, value, sent>>
      /\ pace.pc = "write" /\ pace.n \in Names
      /\ pace.trend \in Trends /\ pace.trend \notin pace.left
  BY Walk DEF FeedWrite, PaceOnly, list, heap, registry, PaceFits
<1> DEFINE fed == [queue EXCEPT ![pace.trend] = Append(@, x)]
<1>2. /\ pace' = [pace EXCEPT !.pc = "feed", !.trend = None]
      /\ queue' = queue \/ queue' = fed
      /\ life[pace.trend] = "live" /\ array[pace.trend] = pace.array =>
            queue' = fed
  <2> HIDE DEF x
  <2>1. IF life[pace.trend] = "live" /\ array[pace.trend] = pace.array
        THEN queue' = fed ELSE queue' \in {queue, fed}
    BY DEF FeedWrite, x
  <2> HIDE DEF fed
  <2>2. QED
    BY <2>1 DEF FeedWrite
<1>3. /\ pace'.pc = "feed" /\ pace'.n = pace.n
      /\ pace'.left = pace.left /\ pace'.trend = None
  BY <1>2, Locals DEF Paces
<1> HIDE DEF x
<1>4. CASE t # pace.trend
  <2>1. queue'[t] = queue[t]
    <3>1. fed[t] = queue[t]
      BY <1>4 DEF TypeOK
    <3>2. QED
      BY <1>2, <3>1
  <2>2. Recorded(t)' = Recorded(t)
    BY <1>1, <2>1 DEF Recorded
  <2>3. Pending(t)' <=> Pending(t)
    BY <1>1, <1>3, <1>4, Constants DEF Pending
  <2>4. QED
    BY <1>1, <1>3, <2>2, <2>3, Kept
<1>5. CASE t = pace.trend
  <2>1. Pending(t) /\ ~Pending(t)'
    BY <1>1, <1>3, <1>5, Constants DEF Pending
  <2>2. life[t] # "none" /\ t \in trendsOf[pace.var] /\ pace.var \in Vars
    BY <2>1, PendingIs
  <2>3. CASE life[t] # "live"
    BY <1>1, <2>2, <2>3 DEF Gathered
  <2>4. CASE life[t] = "live"
    <3> DEFINE r == Recorded(t)
    <3>1. queue'[t] = Append(queue[t], x)
      <4>1. life[pace.trend] = "live" /\ array[pace.trend] = pace.array
        BY <1>1, <1>5, <2>4 DEF PaceFits
      <4>2. QED
        BY <1>2, <1>5, <4>1 DEF TypeOK
    <3>2. x \in Nat /\ since[t] \in Nat
      BY <1>1, TrendAssumption DEF x, TypeOK
    <3>3. sent[t] \in Seq(Nat) /\ queue[t] \in Seq(Nat)
      BY DEF TypeOK
    <3>4. r \in Seq(Nat) /\ Recorded(t)' = Append(r, x)
      <4>1. Recorded(t)' = sent[t] \o Append(queue[t], x)
        BY <1>1, <3>1 DEF Recorded
      <4>2. sent[t] \o Append(queue[t], x) = Append(sent[t] \o queue[t], x)
        <5>1. \A a, b \in Seq(Nat) : \A e \in Nat :
                  a \o Append(b, e) = Append(a \o b, e)
          BY AppendBehind
        <5>2. QED
          BY <3>2, <3>3, <5>1
      <4>3. sent[t] \o queue[t] \in Seq(Nat)
        BY <3>3, ConcatProperties
      <4>4. QED
        BY <4>1, <4>2, <4>3 DEF Recorded
    <3>5. Len(r) + 1 = x - since[t]
      BY <2>1, <2>4 DEF Gathered, x
    <3>6. \A i \in DOMAIN r : r[i] = since[t] + i
      BY <2>4 DEF Gathered
    <3> HIDE DEF r
    <3>7. /\ Len(Append(r, x)) = Len(r) + 1 /\ Len(r) \in Nat
          /\ \A i \in DOMAIN Append(r, x) : Append(r, x)[i] = since[t] + i
      BY <3>2, <3>4, <3>5, <3>6
    <3>8. Len(Recorded(t)') = x - since[t]
          /\ \A i \in DOMAIN Recorded(t)' : Recorded(t)'[i] = since[t] + i
      BY <3>2, <3>4, <3>5, <3>7
    <3>9. \A v \in Vars : t \in trendsOf[v] => v[1] = pace.n
      BY <2>1, PendingIs DEF Registered
    <3>10. \E d \in DaqNames : daqs[d] = t
      BY <2>4 DEF Gathered
    <3>11. QED
      BY <1>1, <2>1, <2>2, <2>4, <3>8, <3>9, <3>10 DEF Gathered, x
  <2>5. QED
    BY <2>3, <2>4
<1>6. QED
  BY <1>4, <1>5

\* Nobody is pending at the end of a variable.
LEMMA GatheredEnd ==
    ASSUME ControlInv, NEW t \in Trends, Gathered(t), FeedEnd
    PROVE  Gathered(t)'
<1> USE DEF ControlInv
<1>1. /\ UNCHANGED <<link, since, trendsOf, life, daqs, value>>
      /\ Recorded(t)' = Recorded(t) /\ pace.pc = "feed"
      /\ pace.left = {} /\ pace' = NextVar
  BY DEF FeedEnd, PaceOnly, list, heap, registry, Recorded
<1>2. ~Pending(t)
  BY <1>1 DEF Pending, PaceFits
<1>3. ~Pending(t)'
  BY <1>1, Walk DEF Pending
<1>4. QED
  BY <1>1, <1>2, <1>3, Kept

\* The session is deleted at the end of the server.
LEMMA GatheredMain ==
    ASSUME ControlInv, NEW t \in Trends, Gathered(t),
           DestroyTrend \/ DestroyTrendEnd
    PROVE  Gathered(t)'
<1> USE DEF MainOnly, registry, thePace
<1>1. CASE DestroyTrend
  BY <1>1, GatheredDelete DEF DestroyTrend
<1>2. CASE DestroyTrendEnd
  BY <1>2, GatheredRemove, SMTT(30) DEF DestroyTrendEnd
<1>3. QED
  BY <1>1, <1>2, SMTT(30)

\* Every step keeps the records.
LEMMA RecordStep ==
    ASSUME Orderly, ControlInv, ControlInv', RecordInv, [Next]_vars,
           NEW t \in Trends
    PROVE  Gathered(t)'
<1> USE Constants DEF ControlInv, TypeOK, list, heap, records,
           registry, thePace,
           Gathered, Recorded, Pending, Registered, Orderly
<1>0. Gathered(t)
  BY DEF RecordInv
<1>1. ASSUME NEW w \in Workers, Arrive(w) PROVE Gathered(t)'
  BY <1>0, <1>1, ZenonT(30) DEF Arrive, Goto, Serving, Building
<1>2. ASSUME NEW w \in Workers, OnGetVariableList(w) PROVE Gathered(t)'
  BY <1>2, <1>0, GatheredBuild
<1>3. ASSUME NEW w \in Workers, UseVariable(w) PROVE Gathered(t)'
  BY <1>0, <1>3 DEF UseVariable, Answer, Goto
<1>4. ASSUME NEW w \in Workers, UsedVariable(w) PROVE Gathered(t)'
  BY <1>0, <1>4, ZenonT(30) DEF UsedVariable, Answer, Goto
<1>5. ASSUME NEW w \in Workers, PutDaqTrend(w) PROVE Gathered(t)'
  BY <1>5, <1>0, GatheredPut
<1>6. ASSUME NEW w \in Workers, SetVar(w) PROVE Gathered(t)'
  BY <1>0, <1>6, ZenonT(30) DEF SetVar, Goto
<1>7. ASSUME NEW w \in Workers, AddTrend(w) PROVE Gathered(t)'
  BY <1>7, <1>0, GatheredAdd
<1>8. ASSUME NEW w \in Workers, DeleteDaq(w) PROVE Gathered(t)'
  BY <1>8, <1>0, GatheredRequests
<1>9. ASSUME NEW w \in Workers, DeleteDaqEnd(w) PROVE Gathered(t)'
  BY <1>9, <1>0, GatheredRequests
<1>10. ASSUME NEW w \in Workers, PollTrend(w) PROVE Gathered(t)'
  BY <1>10, <1>0, GatheredPoll
<1>11. CASE Tick
  BY <1>0, <1>11, ZenonT(30) DEF Tick, PaceOnly
<1>12. CASE FeedTrend
  BY <1>12, <1>0, GatheredFeed
<1>13. CASE FeedLock
  BY <1>13, <1>0, GatheredLock
<1>14. CASE FeedWrite
  BY <1>14, <1>0, GatheredWrite
<1>15. CASE FeedEnd
  BY <1>15, <1>0, GatheredEnd
<1>16. CASE VarlistChanged
  BY <1>0, <1>16 DEF VarlistChanged
<1>17. CASE StopServer
  BY <1>0, <1>17, ZenonT(30) DEF StopServer, MainOnly
<1>18. CASE DestroyTrend
  BY <1>18, <1>0, GatheredMain
<1>19. CASE DestroyTrendEnd
  BY <1>19, <1>0, GatheredMain
<1>20. CASE ClearVars
  BY <1>0, <1>20 DEF ClearVars, MainOnly, ListHeld
<1>21. CASE UNCHANGED vars
  BY <1>0, <1>21 DEF vars
<1>22. QED
  BY <1>1, <1>2, <1>3, <1>4, <1>5, <1>6, <1>7, <1>8, <1>9, <1>10,
     <1>11, <1>12, <1>13, <1>14, <1>15, <1>16, <1>17,
     <1>18, <1>19, <1>20, <1>21, ZenonT(30)
  DEF Next, WorkerStep, PaceStep, MainStep

\* Nothing is recorded at the start.
LEMMA RecordInit == Init => RecordInv
BY DEF Init, RecordInv, Gathered, Recorded

\* Every value since a trend was registered is sent once, in order and
\* without a gap; while the logger feeds its variable nothing is missing.
THEOREM TransferIsOrdered == Orderly => (Spec => []TransferInOrder)
<1> SUFFICES ASSUME Orderly PROVE Spec => []TransferInOrder
  OBVIOUS
<1>1. Init => ControlInv /\ RecordInv
  BY ControlInit, RecordInit
<1>2. ControlInv /\ RecordInv /\ [Next]_vars => (ControlInv /\ RecordInv)'
  BY ControlStep, RecordStep DEF RecordInv
<1>3. ControlInv /\ RecordInv => TransferInOrder
  <2> SUFFICES ASSUME RecordInv, NEW t \in Trends, life[t] = "live"
               PROVE  LET s == sent[t] \o queue[t]
                      IN  /\ \A i \in DOMAIN s : s[i] = since[t] + i
                          /\ \A v \in Vars :
                                t \in trendsOf[v] /\ link[v[1]] = v
                                /\ pace.pc = "sleep"
                                   => Len(s) = value[v[1]] - since[t]
    BY DEF TransferInOrder
  <2>1. Gathered(t)
    BY DEF RecordInv
  <2>2. pace.pc = "sleep" => ~Pending(t)
    BY DEF Pending
  <2>3. QED
    BY <2>1, <2>2 DEF Gathered, Recorded
<1>4. QED
  BY <1>1, <1>2, <1>3, PTL DEF Spec
=============================================================================
