---------------------------- MODULE ServerEvents ----------------------------
(***************************************************************************)
(* What the server's functions that fire events put into them              *)
(* (CLoggerInterface), and what a client makes of an event with the        *)
(* functions of CAbkServerEvent::CData.  How events travel is the subject  *)
(* of EventDelivery and ClientPolling; this module is about their meaning: *)
(* three functions of the server share the type "Alert", and the data of   *)
(* an alert is a text of its own, with members that may be missing.        *)
(***************************************************************************)
EXTENDS Integers, Sequences, FiniteSets, FiniteSetsExt

CONSTANT
    KnownVars   \* variables of the server

\* No argument, a null pointer; others carry their type, <<"str", x>>.
Null == <<>>

-----------------------------------------------------------------------------
(* Server. *)

\* The value a variable has when it is asked for, later than the violation.
ValueNow == <<"num", "now">>

\* Alert and AlertVarLimit: class and name if there are any, with the name
\* the value at the time of the violation or else the one the variable, if it
\* is found, has now; the application's own members come last.
AlertMembers(kind, a) ==
    (IF a.class = Null THEN <<>> ELSE <<<<"Class", a.class>>>>)
    \o (IF a.name = Null THEN <<>>
        ELSE <<<<"Name", a.name>>>>
             \o (IF a.value # Null THEN <<<<"Value", a.value>>>>
                 ELSE IF a.name[2] \in KnownVars THEN <<<<"Value", ValueNow>>>>
                 ELSE <<>>))
    \o (IF kind = "Alert"
        THEN <<<<"_NoClientSideSuppress", <<"bool", a.noSuppress>>>>>>
        ELSE <<>>)
    \o a.extra

MsgBoxMembers(b) ==
    <<<<"Caption", <<"str", "caption">>>>, <<"Text", <<"str", "text">>>>,
      <<"ID", <<"num", 1>>>>, <<"Buttons", <<"array", b>>>>>>

Fired(type, text, p1, p2) ==
    [type |-> type, text |-> text, param1 |-> p1, param2 |-> p2]
Bare(type) == Fired(type, "", 0, 0)

Alert(a)         == Fired("Alert", AlertMembers("Alert", a), a.priority, 0)
AlertVarLimit(a) == Fired("LimitAlert", AlertMembers("LimitAlert", a),
                          a.priority, 0)
MsgBox(b)        == Fired("Alert", MsgBoxMembers(b), 1, 0)

NotifyAppChanged           == Bare("AppChanged")
FireVarlistChanged         == Bare("VarlistChanged")
FireMeasurementStarted     == Bare("MeasurementStarted")
FireMeasurementStopped     == Bare("MeasurementStopped")
IdentifyClient(message)    == Fired("Identify", message, 0, 0)
RequestOpenForm(name)      == Fired("FormRequired", name, 0, 0)

\* Mutant of RequestCloseForm: it fires what RequestOpenForm does.
RequestCloseFormOpens(name) == Fired("FormRequired", name, 0, 0)

RequestCloseForm(name)     == Fired("FormClose", name, 0, 0)
FireFormClose(name)        == Fired("FormClose", name, 0, 0)
RequestAudioRec(id, limit) == Fired("AudioRecRequest", "", id, limit)
StopAudioRec(id)           == Fired("AudioRecStop", "", id, 0)

-----------------------------------------------------------------------------
(* Client. *)

IsIdentification(e) == e.type = "Identify"
IsLimitAlert(e)     == e.type \in {"LimitAlert", "Alert"}
IsFormOpen(e)       == e.type = "FormRequired"
IsFormClose(e)      == e.type = "FormClose"
IsVarlistChanged(e) == e.type = "VarlistChanged"
IsAppChanged(e)     == e.type = "AppChanged"
IsAudioRecReq(e)    == e.type = "AudioRecRequest"
IsAudioRecStop(e)   == e.type = "AudioRecStop"

GetFormName(e) == e.text
GetIndentificationMessage(e) == e.text
GetAudioRecId(e) == e.param1

\* The limit goes through an int: tenths are cut off.
GetAudioRecTimeLimit(e) == 10 * (e.param2 \div 10)

\* GetLimitParams: the members by their names and types, of several the last
\* one; a class alone, or a name with a value, make an alert.
GetLimitParams(e) ==
    LET found(name, types) ==
            {i \in DOMAIN e.text :
                e.text[i][1] = name /\ e.text[i][2][1] \in types}
        get(name, types) == IF found(name, types) = {} THEN Null
                            ELSE e.text[Max(found(name, types))][2]
        name  == get("Name", {"str"})
        value == get("Value", {"str", "num", "bool"})
        class == get("Class", {"str"})
    IN  [ok |-> (name # Null /\ value # Null) \/ class # Null,
         name |-> name, value |-> value, class |-> class,
         noSuppress |-> get("_NoClientSideSuppress", {"bool"})
                          = <<"bool", TRUE>>]

=============================================================================
