------------------------------- MODULE Forms -------------------------------
(***************************************************************************)
(* The way of a form through the system: the server's application writes   *)
(* its controls (FormWriteInput.. of CLoggerInterface), the client decodes *)
(* them (CFormElement::DecodeJson) and builds a dialog from them           *)
(* (CDlgAbkForm), the user fills it, and what the dialog's controls hold   *)
(* goes back under the names of the elements (CAbkClient::SendForm).       *)
(*                                                                         *)
(* The elements of a form and the controls of its dialog are connected by  *)
(* numbers that three loops count up independently of each other.          *)
(*                                                                         *)
(* Values carry their type: <<"str", x>>, <<"int", x>>, <<"bool", x>>.     *)
(***************************************************************************)
EXTENDS Integers, Sequences, FiniteSets, SequencesExt, FiniteSetsExt

-----------------------------------------------------------------------------
(* Server: the members that describe a control, <<name, value>>. *)

Str(x) == <<"str", x>>
Bool(x) == <<"bool", x>>

Head3(c) == <<<<"Type", Str(c.t)>>, <<"Name", Str(c.name)>>,
              <<"Caption", Str(c.name)>>>>
Updateable(c) == <<<<"Updateable", Bool(c.upd)>>>>

FormWriteInput(c) ==
    Head3(c) \o <<<<"InitialValue", Str(c.initial)>>>>
    \o (IF c.maxLen >= 0 THEN <<<<"MaxLen", <<"int", c.maxLen>>>>>> ELSE <<>>)
    \o <<<<"ReadOnly", Bool(c.readOnly)>>, <<"Password", Bool(c.password)>>>>
    \o Updateable(c)

FormWriteCheckbox(c) ==
    Head3(c) \o <<<<"InitialValue", Bool(c.initial)>>>> \o Updateable(c)

FormWriteList(c) ==
    Head3(c) \o <<<<"InitialValue", <<"int", c.initial>>>>>> \o Updateable(c)
    \o <<<<"Options", <<"array", c.options>>>>>>

FormWriteButton(c) ==
    Head3(c) \o <<<<"Submit", Bool(c.submit)>>, <<"Cancel", Bool(c.cancel)>>>>
    \o Updateable(c)

FormWrite(c) ==
    CASE c.t = "Input"    -> FormWriteInput(c)
      [] c.t = "Checkbox" -> FormWriteCheckbox(c)
      [] c.t = "List"     -> FormWriteList(c)
      [] c.t = "Button"   -> FormWriteButton(c)

-----------------------------------------------------------------------------
(* Client: the elements. *)

\* A member of one of the types that its reader accepts, and the last such.
Sent(ms, name, types) ==
    \E i \in DOMAIN ms : ms[i][1] = name /\ ms[i][2][1] \in types
LastOf(ms, name) ==
    ms[Max({i \in DOMAIN ms : ms[i][1] = name})][2]
Scalars == {"str", "int", "bool"}

Flags == {"ReadOnly", "Password", "Numeric", "Submit", "Cancel", "Updateable"}

\* CFormElement::DecodeJson.
DecodeJson(ms) ==
    LET type == IF Sent(ms, "Type", {"str"}) THEN LastOf(ms, "Type")[2] ELSE ""
    IN  [ok |-> /\ Sent(ms, "Name", {"str"}) /\ Sent(ms, "Caption", {"str"})
                /\ type \in {"Input", "Checkbox", "List", "Button"}
                /\ type # "Button" => Sent(ms, "InitialValue", Scalars),
         type |-> type,
         name |-> LastOf(ms, "Name")[2],
         value |-> IF Sent(ms, "InitialValue", Scalars)
                   THEN LastOf(ms, "InitialValue") ELSE <<"empty", "">>,
         options |-> IF Sent(ms, "Options", {"array"})
                     THEN LastOf(ms, "Options")[2] ELSE <<>>,
         flags |-> {f \in Flags : /\ Sent(ms, f, {"bool"})
                                  /\ LastOf(ms, f) = Bool(TRUE)}]

\* CAbkClient::GetForm fails with the first element that does.
Elements(form) == [i \in DOMAIN form |-> DecodeJson(FormWrite(form[i]))]
FormArrives(els) == \A i \in DOMAIN els : els[i].ok

-----------------------------------------------------------------------------
(* The dialog: its controls in the order of the template. *)

IDOK == 1
IDCANCEL == 2
DLGCONTROLID_BASE == 100

\* The identifier CreateTemplate gives to the control of an element.
ControlId(els, i) ==
    IF els[i].type # "Button" THEN DLGCONTROLID_BASE + i - 1
    ELSE IF "Submit" \in els[i].flags THEN IDOK
    ELSE IF "Cancel" \in els[i].flags THEN IDCANCEL
    ELSE DLGCONTROLID_BASE + i - 1

\* CreateTemplate: an input shows its text at once, READONLY disables.
CreateTemplate(els) ==
    [i \in DOMAIN els |->
       [id |-> ControlId(els, i), type |-> els[i].type,
        enabled |-> "ReadOnly" \notin els[i].flags,
        options |-> Len(els[i].options),
        content |-> IF els[i].type # "Button" /\ els[i].value[1] = "str"
                    THEN els[i].value ELSE <<"empty", "">>]]

\* Windows looks for the first control of the dialog with an identifier.
GetDlgItem(cs, id) ==
    LET found == {i \in DOMAIN cs : cs[i].id = id}
    IN  IF found = {} THEN 0 ELSE Min(found)

\* FormatVariant, as far as it is used: what an input shows of a value.
FormatVariant(v) == IF v[1] = "empty" THEN Str("") ELSE Str(v[2])

\* What a control shows of its element's value; a list shows no option for a
\* number that none has.
Shown(e) ==
    CASE e.type = "Input" -> FormatVariant(e.value)
      [] e.type = "List" ->
           <<"int", IF e.value[2] \in 0..(Len(e.options) - 1)
                    THEN e.value[2] ELSE -1>>
      [] OTHER -> e.value

\* Mutant of Refreshed: the attribute is not asked for.
RefreshedAll(e, initial) == TRUE

\* An element whose control DoDataExchange writes to.
Refreshed(e, initial) == initial \/ "Updateable" \in e.flags

\* DoDataExchange, from the data to the controls.
ToControls(els, cs, initial) ==
    [k \in DOMAIN cs |->
       LET writers == {i \in DOMAIN els :
                         /\ GetDlgItem(cs, DLGCONTROLID_BASE + i - 1) = k
                         /\ Refreshed(els[i], initial)}
       IN  IF writers = {} \/ cs[k].type = "Button" THEN cs[k]
           ELSE [cs[k] EXCEPT !.content = Shown(els[Max(writers)])]]

\* Where DoDataExchange looks for the control of an element to save it.
SavedFrom(els, cs, i) ==
    GetDlgItem(cs,
        IF els[i].type # "Button" THEN DLGCONTROLID_BASE + i - 1
        ELSE IF "Submit" \in els[i].flags THEN IDOK
        ELSE IF "Cancel" \in els[i].flags THEN IDCANCEL
        ELSE DLGCONTROLID_BASE + i - 1)

\* DoDataExchange, from the controls to the data: a button was pressed if it
\* has the focus.
ToData(els, cs, focus) ==
    [i \in DOMAIN els |->
       LET k == SavedFrom(els, cs, i)
       IN  [els[i] EXCEPT !.value =
              IF k = 0 THEN <<"empty", "">>
              ELSE IF els[i].type = "Button" THEN Bool(k = focus)
              ELSE cs[k].content]]

\* The constructor and InitModal up to the first UpdateData: the dialog that
\* the user gets to see.
InitModal(els) == ToControls(els, CreateTemplate(els), TRUE)

\* UpdateContent: the elements of a reloaded form replace those of their name
\* that have a control and are marked; then UpdateData, not the initial one.
Updated(els, new) ==
    LET first(e) == Min({j \in DOMAIN els : els[j].name = e.name})
        by(j) == {i \in DOMAIN new : /\ new[i].name = els[j].name
                                     /\ first(new[i]) = j
                                     /\ "Updateable" \in new[i].flags}
    IN  [j \in DOMAIN els |-> IF by(j) = {} THEN els[j] ELSE new[Max(by(j))]]

UpdateContent(els, cs, new) == ToControls(Updated(els, new), cs, FALSE)

\* SendForm: the elements' values under their names.
SendForm(els) ==
    [i \in DOMAIN els |->
       <<els[i].name, IF els[i].value[1] = "empty" THEN <<"null", "">>
                      ELSE els[i].value>>]

=============================================================================
