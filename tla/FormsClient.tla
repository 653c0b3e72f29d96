---------------------------- MODULE FormsClient ----------------------------
(***************************************************************************)
(* The client that shows forms (CAbkFormsDlg with CMyAbkClient): its poll  *)
(* thread is called back with each event of the server and notes the name  *)
(* of a form for the window thread, which asks for the form, runs a modal  *)
(* dialog and sends back what the user has left in it.  While a dialog     *)
(* runs, its loop dispatches the messages of the next form, so that modal  *)
(* dialogs nest: an answer waits for the dialogs opened after its own,     *)
(* while the user and the timers go on closing any of them.                *)
(*                                                                         *)
(* Forms holds the way of the elements, ServerEvents what events mean; how *)
(* events get here is the subject of EventDelivery and ClientPolling.      *)
(***************************************************************************)
EXTENDS Forms, ServerEvents

CONSTANTS
    FormOf,     \* FormOf[name]: the application's form, [controls, timed]
    Reloads,    \* Reloads[name]: forms it may be reloaded with
    Texts,      \* bound: what the user enters into an input
    Calls,      \* calls of functions that fire events, <<function, argument>>
    CallWeight, \* CallWeight[f]: how much of MaxFired a call of f uses up
    MaxFired,   \* bound: calls, by weight
    MaxEntered, \* bound: changes by the user and reloads
    NoForm      \* no name, no event, no answer

\* A control as the application describes it.
Control ==
    [t : {"Input"}, name : STRING, initial : STRING, maxLen : Int,
     readOnly : BOOLEAN, password : BOOLEAN, upd : BOOLEAN]
    \cup [t : {"Checkbox"}, name : STRING, initial : BOOLEAN, upd : BOOLEAN]
    \cup [t : {"List"}, name : STRING, initial : Int, upd : BOOLEAN,
          options : Seq(STRING)]
    \cup [t : {"Button"}, name : STRING, submit : BOOLEAN, cancel : BOOLEAN,
          upd : BOOLEAN]
Submits(c) == c.t = "Button" /\ c.submit
Cancels(c) == c.t = "Button" /\ ~c.submit /\ c.cancel

\* The controls of a form are told apart by their names; only one button
\* takes the place of OK, and one that of Cancel.
IsForm(form) ==
    /\ form \in [controls : Seq(Control), timed : BOOLEAN]
    /\ \A i, j \in DOMAIN form.controls :
          LET c == form.controls[i]
              d == form.controls[j]
          IN  \/ c.name = d.name
              \/ Submits(c) /\ Submits(d)
              \/ Cancels(c) /\ Cancels(d)
              => i = j

\* A form is reloaded with one that has all its updateable controls; controls
\* of the same name are of the same kind.
IsReload(form, of) ==
    /\ IsForm(form)
    /\ \A i \in DOMAIN of.controls, j \in DOMAIN form.controls :
          LET c == of.controls[i]
              d == form.controls[j]
          IN  c.name = d.name =>
                /\ c.t = d.t /\ c.upd = d.upd
                /\ c.t = "Button" => c.submit = d.submit /\ c.cancel = d.cancel
    /\ \A i \in DOMAIN of.controls :
          of.controls[i].upd => \E j \in DOMAIN form.controls :
                                  form.controls[j].name = of.controls[i].name

\* An alert's arguments; its own members have names of their own.
IsAlert(a) ==
    /\ {a.class, a.name} \subseteq {Null} \cup ({"str"} \X STRING)
    /\ a.value # Null => a.value[1] \in {"str", "num", "bool"}
    /\ a.noSuppress \in BOOLEAN
    /\ a.extra \in Seq(Range(a.extra))
    /\ \A i \in DOMAIN a.extra :
          a.extra[i][1] \notin {"Class", "Name", "Value",
                               "_NoClientSideSuppress"}

\* What fires an event about a form, and what needs no argument.
FormFunctions == {"RequestOpenForm", "RequestCloseForm", "FormClose"}
PlainFunctions ==
    {"MsgBox", "NotifyAppChanged", "VarlistChanged", "MeasurementStarted",
     "MeasurementStopped", "IdentifyClient", "StopAudioRec"}

\* What an application gives these functions.
ASSUME FormsAssumption ==
    /\ \A name \in DOMAIN FormOf : IsForm(FormOf[name])
    /\ DOMAIN Reloads = DOMAIN FormOf
    /\ \A name \in DOMAIN FormOf : \A form \in Reloads[name] :
          IsReload(form, FormOf[name])
    /\ \A call \in Calls :
          /\ CallWeight[call[1]] \in Nat
          /\ \/ call[1] \in {"Alert", "AlertVarLimit"} /\ IsAlert(call[2])
             \/ call[1] \in FormFunctions /\ call[2] \in DOMAIN FormOf
             \/ call[1] = "RequestAudioRec" /\ call[2] \in Nat
             \/ call[1] \in PlainFunctions
    /\ MaxFired \in Nat /\ MaxEntered \in Nat
    /\ NoForm \notin DOMAIN FormOf

VARIABLES
    under,      \* events that have arrived: what was called, and its event
    fired,      \* count of calls, by weight
    entered,    \* count of changes by the user and of reloads
    heard,      \* the event OnServerEvent was called with last
    formName,   \* m_strFormName
    posted,     \* messages posted to the window thread
    dialogs,    \* the modal dialogs of the window thread, innermost last
    answer,     \* the form that was sent in the last step
    requested,  \* history: the form last requested
    opened,     \* history: the form GetForm was last called for
    closing     \* history: a request to close a form has come

clientVars == <<heard, formName, posted, requested, closing>>
windowVars == <<dialogs, opened>>
boundVars == <<fired, entered>>
formsVars == <<under, clientVars, windowVars, answer, boundVars>>

FormsInit ==
    /\ under = <<>> /\ fired = 0 /\ entered = 0
    /\ heard = NoForm /\ formName = NoForm /\ posted = <<>>
    /\ dialogs = <<>> /\ answer = NoForm
    /\ requested = NoForm /\ opened = NoForm /\ closing = FALSE

-----------------------------------------------------------------------------
(* The server's application fires an event; the client may be the primary  *)
(* one of its class for it or not.                                         *)

EventOf(call) ==
    CASE call[1] = "Alert"              -> Alert(call[2])
      [] call[1] = "AlertVarLimit"      -> AlertVarLimit(call[2])
      [] call[1] = "MsgBox"             -> MsgBox(call[2])
      [] call[1] = "NotifyAppChanged"   -> NotifyAppChanged
      [] call[1] = "VarlistChanged"     -> FireVarlistChanged
      [] call[1] = "MeasurementStarted" -> FireMeasurementStarted
      [] call[1] = "MeasurementStopped" -> FireMeasurementStopped
      [] call[1] = "IdentifyClient"     -> IdentifyClient(call[2])
      [] call[1] = "RequestOpenForm"    -> RequestOpenForm(call[2])
      [] call[1] = "RequestCloseForm"   -> RequestCloseForm(call[2])
      [] call[1] = "FormClose"          -> FireFormClose(call[2])
      [] call[1] = "RequestAudioRec"    -> RequestAudioRec(1, call[2])
      [] call[1] = "StopAudioRec"       -> StopAudioRec(1)

FireEvent(call, primary) ==
    /\ fired + CallWeight[call[1]] <= MaxFired
    /\ fired' = fired + CallWeight[call[1]]
    /\ under' = Append(under, [call |-> call, event |-> EventOf(call),
                               primary |-> primary])
    /\ UNCHANGED <<clientVars, windowVars, entered>>

-----------------------------------------------------------------------------
(* The poll thread. *)

IsRequest(e) == e.primary /\ (IsFormOpen(e.event) \/ IsFormClose(e.event))

OnServerEvent ==
    /\ under # <<>>
    /\ LET e == Head(under)
           open == IsFormOpen(e.event)
       IN  /\ heard' = [call |-> e.call, event |-> e.event]
           /\ IF IsRequest(e)
              THEN /\ formName' = GetFormName(e.event)
                   /\ posted' = Append(posted, IF open THEN "open" ELSE "close")
                   /\ requested' = IF open THEN e.call[2] ELSE requested
                   /\ closing' = (closing \/ ~open)
              ELSE UNCHANGED <<formName, posted, requested, closing>>
    /\ under' = Tail(under)
    /\ UNCHANGED <<windowVars, boundVars>>

-----------------------------------------------------------------------------
(* The window thread.  A dialog that has ended leaves its loop, and with   *)
(* it its caller sends the answer, as soon as it is the innermost; until   *)
(* then its window lives on, hidden.                                       *)

Top == Len(dialogs)
Leaves == Top > 0 /\ dialogs[Top].ended

\* history: what a control shows by what the application said; a list shows
\* no option for a number that none has.
Told(c) ==
    CASE c.t = "Input"    -> Str(c.initial)
      [] c.t = "Checkbox" -> Bool(c.initial)
      [] c.t = "List"     -> <<"int", IF c.initial \in 0..(Len(c.options) - 1)
                                      THEN c.initial ELSE -1>>
      [] OTHER            -> <<"empty", "">>

\* The dialog of a form that has been asked for.
Dialog ==
    [name \in DOMAIN FormOf |->
       LET form == FormOf[name]
           els == Elements(form.controls)
       IN  [name |-> name, els |-> els, cs |-> InitModal(els),
            timed |-> form.timed, ended |-> FALSE, pressed |-> 0,
            shown |-> [i \in DOMAIN els |-> Told(form.controls[i])]]]

\* Mutant of NextForm: the window thread keeps the name it read first.
NextFormStale == IF opened = NoForm THEN formName ELSE opened

\* The window thread finds the name where the last event has put it.
NextForm == formName

\* MESSAGE_FORM_OPEN: GetForm may fail; otherwise DoModal begins.  Nothing is
\* done for MESSAGE_FORM_CLOSE in a release build.
WindowProc ==
    /\ posted # <<>> /\ ~Leaves
    /\ posted' = Tail(posted)
    /\ \/ /\ Head(posted) = "open"
          /\ opened' = NextForm
          /\ \/ /\ FormArrives(Dialog[NextForm].els)
                /\ dialogs' = Append(dialogs, Dialog[NextForm])
             \/ UNCHANGED dialogs
       \/ Head(posted) = "close" /\ UNCHANGED <<opened, dialogs>>
    /\ UNCHANGED <<under, boundVars, heard, formName, requested, closing>>

\* The user changes an enabled control.
Offered(c) ==
    IF ~c.enabled THEN {}
    ELSE CASE c.type = "Input"    -> {Str(x) : x \in Texts}
           [] c.type = "Checkbox" -> {Bool(TRUE), Bool(FALSE)}
           [] c.type = "List"     -> {<<"int", o>> : o \in 0..(c.options - 1)}
           [] OTHER               -> {}
Enter(k, i, x) ==
    /\ entered < MaxEntered /\ ~dialogs[k].ended
    /\ x # dialogs[k].cs[i].content
    /\ dialogs' = [dialogs EXCEPT ![k].cs[i].content = x, ![k].shown[i] = x]
    /\ entered' = entered + 1
    /\ UNCHANGED <<under, clientVars, opened, fired>>

\* UpdateData and EndDialog.
EndDialog(k, focus) ==
    dialogs' = [dialogs EXCEPT
        ![k].els = ToData(dialogs[k].els, dialogs[k].cs, focus),
        ![k].ended = TRUE,
        ![k].pressed = IF dialogs[k].ended THEN @ ELSE focus]

\* OnOK and OnCancel, which a key calls whatever control has the focus.
OnOK(k, focus) ==
    /\ ~dialogs[k].ended /\ ~Leaves
    /\ EndDialog(k, focus)
    /\ UNCHANGED <<under, clientVars, boundVars, opened>>

\* OnTimer, CloseForm and then OnCancel: the timer does not stop with the
\* dialog, so that the data of one that waits for its answer are read again,
\* when the focus is elsewhere.
OnTimer(k, focus) ==
    /\ dialogs[k].timed /\ ~Leaves
    /\ dialogs[k].ended => focus = 0
    /\ EndDialog(k, focus)
    /\ UNCHANGED <<under, clientVars, boundVars, opened>>

\* An owner of the form has it show the form the application has now.
Reload(k, form) ==
    /\ entered < MaxEntered /\ ~dialogs[k].ended /\ ~Leaves
    /\ entered' = entered + 1
    /\ LET d == dialogs[k]
           new == Elements(form.controls)
           told(i) == {j \in DOMAIN new : new[j].name = d.els[i].name
                                          /\ form.controls[j].upd}
       IN  dialogs' = [dialogs EXCEPT ![k] =
             [d EXCEPT !.els = Updated(d.els, new),
                       !.cs = UpdateContent(d.els, d.cs, new),
                       !.timed = form.timed,
                       !.shown = [i \in DOMAIN @ |->
                          IF told(i) = {} THEN @[i]
                          ELSE Told(form.controls[Max(told(i))])]]]
    /\ UNCHANGED <<under, clientVars, fired, opened>>

\* DoModal returns, and the form is sent, which may fail.
Return ==
    /\ Leaves
    /\ LET d == dialogs[Top]
       IN  \/ answer' = [sent |-> SendForm(d.els), name |-> d.name,
                         shown |-> d.shown, pressed |-> d.pressed,
                         timed |-> d.timed]
           \/ UNCHANGED answer
    /\ dialogs' = Front(dialogs)
    /\ UNCHANGED <<under, clientVars, boundVars, opened>>

-----------------------------------------------------------------------------
\* The button that has the focus, 0 when none has.
Focusable(k) ==
    {0} \cup {i \in DOMAIN dialogs[k].cs : dialogs[k].cs[i].type = "Button"}

WindowStep ==
    \/ WindowProc
    \/ \E k \in DOMAIN dialogs :
          \/ \E i \in DOMAIN dialogs[k].cs :
                \E x \in Offered(dialogs[k].cs[i]) : Enter(k, i, x)
          \/ \E focus \in Focusable(k) : OnOK(k, focus) \/ OnTimer(k, focus)
          \/ \E form \in Reloads[dialogs[k].name] : Reload(k, form)

FormsNext ==
    \/ /\ \/ \E call \in Calls, primary \in BOOLEAN : FireEvent(call, primary)
          \/ OnServerEvent
          \/ WindowStep
       /\ answer' = NoForm
    \/ Return

FormsSpec == FormsInit /\ [][FormsNext]_formsVars

-----------------------------------------------------------------------------
(* Properties. *)

\* Every control of a dialog belongs to one element, the names that are noted
\* are names of forms, and a message is posted for each.
FormsTypeOK ==
    /\ fired \in 0..MaxFired /\ entered \in 0..MaxEntered
    /\ \A i \in DOMAIN under : under[i].call \in Calls
    /\ {formName, requested, opened} \subseteq DOMAIN FormOf \cup {NoForm}
    /\ posted \in Seq({"open", "close"}) /\ closing \in BOOLEAN
    /\ formName = NoForm => posted = <<>> /\ dialogs = <<>>
    /\ \A k \in DOMAIN dialogs :
          /\ dialogs[k].name \in DOMAIN FormOf
          /\ DOMAIN dialogs[k].els = DOMAIN dialogs[k].cs
          /\ DOMAIN dialogs[k].shown = DOMAIN dialogs[k].cs

\* A dialog shows in each control what was said last about its element, by
\* the application in the form or in a reload of it, or by the user; a reload
\* leaves alone what the user has entered into an element that is not
\* updateable (DoDataExchange, UpdateContent).
ShowsWhatWasSaid ==
    \A k \in DOMAIN dialogs :
        \A i \in DOMAIN dialogs[k].els :
            dialogs[k].els[i].type # "Button" /\ ~dialogs[k].ended
                => dialogs[k].cs[i].content = dialogs[k].shown[i]

\* Every element of a form comes back under its name and with what its own
\* control showed when the dialog ended, whatever stands before it in the form
\* and whichever other dialogs have run since; a button tells whether it was
\* the one with the focus, unless a timer has the data read once more.  The
\* identifiers that CreateTemplate and both directions of DoDataExchange count
\* on their own agree.
FormComesBack ==
    answer # NoForm =>
        \A i \in DOMAIN answer.sent :
            LET c == FormOf[answer.name].controls[i]
            IN  /\ answer.sent[i][1] = c.name
                /\ c.t # "Button" => answer.sent[i][2] = answer.shown[i]
                /\ c.t = "Button" /\ ~answer.timed
                      => answer.sent[i][2] = Bool(i = answer.pressed)

\* Each dialog is whole, from the server's elements to what is sent back.
FormsInv == FormsTypeOK /\ ShowsWhatWasSaid /\ FormComesBack

\* When all messages are dispatched, the form last asked for is the one last
\* requested, although the poll thread overwrites the name while messages wait
\* (unless the server has the form closed, which overwrites it too).
LastRequestIsShown == posted = <<>> /\ ~closing => opened = requested

\* What the client makes of the event it was called with last.
Recognised(e) ==
    UNION {IF IsIdentification(e) THEN {"identification"} ELSE {},
           IF IsLimitAlert(e) THEN {"alert"} ELSE {},
           IF IsFormOpen(e) THEN {"open"} ELSE {},
           IF IsFormClose(e) THEN {"close"} ELSE {},
           IF IsVarlistChanged(e) THEN {"varlist"} ELSE {},
           IF IsAppChanged(e) THEN {"app"} ELSE {},
           IF IsAudioRecReq(e) THEN {"record"} ELSE {},
           IF IsAudioRecStop(e) THEN {"stop"} ELSE {}}

\* Every event is recognised by the one function meant for it, with its
\* parameters: forms are opened and closed by name, recordings stopped by the
\* id they were requested with, within the limit if that is in whole seconds
\* (GetAudioRecTimeLimit cuts off the rest: half a second arrives as 0, which
\* means no limit); a message box, fired under the type of an alert, has none
\* of its members, and the start and the end of a measurement are recognised
\* by none.
EventsAreToldApart ==
    heard # NoForm =>
        LET e == heard.event
            a == heard.call[2]
        IN  CASE heard.call[1] \in {"Alert", "AlertVarLimit"} ->
                   Recognised(e) = {"alert"}
              [] heard.call[1] = "MsgBox" ->
                   Recognised(e) = {"alert"} /\ ~GetLimitParams(e).ok
              [] heard.call[1] = "NotifyAppChanged" -> Recognised(e) = {"app"}
              [] heard.call[1] = "VarlistChanged" -> Recognised(e) = {"varlist"}
              [] heard.call[1] \in
                    {"MeasurementStarted", "MeasurementStopped"} ->
                   Recognised(e) = {}
              [] heard.call[1] = "IdentifyClient" ->
                   /\ Recognised(e) = {"identification"}
                   /\ GetIndentificationMessage(e) = a
              [] heard.call[1] = "RequestOpenForm" ->
                   Recognised(e) = {"open"} /\ GetFormName(e) = a
              [] heard.call[1] \in {"RequestCloseForm", "FormClose"} ->
                   Recognised(e) = {"close"} /\ GetFormName(e) = a
              [] heard.call[1] = "RequestAudioRec" ->
                   /\ Recognised(e) = {"record"}
                   /\ GetAudioRecId(e) = GetAudioRecId(StopAudioRec(1))
                   /\ a % 10 = 0 => GetAudioRecTimeLimit(e) = a
              [] heard.call[1] = "StopAudioRec" -> Recognised(e) = {"stop"}

\* An alert is understood whenever the application names a class, or a
\* variable with a value or one that is known; what the client then knows is
\* what the application said: the value at the time of the violation, unless
\* there was none, and suppression as the default of a LimitAlert.
AlertIsUnderstood ==
    heard # NoForm /\ heard.call[1] \in {"Alert", "AlertVarLimit"} =>
        LET a == heard.call[2]
            got == GetLimitParams(heard.event)
            hasValue == /\ a.name # Null
                        /\ a.value # Null \/ a.name[2] \in KnownVars
        IN  /\ heard.event.param1 = a.priority
            /\ got.ok <=> a.class # Null \/ hasValue
            /\ got.class = a.class /\ got.name = a.name
            /\ got.value = IF ~hasValue THEN Null
                           ELSE IF a.value # Null THEN a.value ELSE ValueNow
            /\ got.noSuppress <=> heard.call[1] = "Alert" /\ a.noSuppress

\* A client understands every event as it was meant (CAbkServerEvent::CData
\* against the functions of CLoggerInterface that fire events).
EventsAreUnderstood == EventsAreToldApart /\ AlertIsUnderstood
=============================================================================
