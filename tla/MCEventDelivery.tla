--------------------------- MODULE MCEventDelivery ---------------------------
(* The instance for TLC of EventDelivery, the way of events to the clients, *)
(* and of FormsClient, what a client makes of them.  The two machines share *)
(* no state: a behaviour is one of either.                                  *)
EXTENDS EventDelivery, FormsClient

VARIABLE part  \* the machine that runs: "delivery" or "forms"

Delivery(A) == part = "delivery" /\ A /\ UNCHANGED <<part, formsVars>>
InForms(A)  == part = "forms" /\ A /\ UNCHANGED <<part, vars>>

MCInit == part \in {"delivery", "forms"} /\ Init /\ FormsInit
MCNext == Delivery(Next) \/ InForms(FormsNext)
MCSpec ==
    /\ MCInit /\ [][MCNext]_<<part, vars, formsVars>>
    /\ \A t \in Senders : WF_vars(Delivery(Fire(t)))
    /\ \A s \in Sessions : WF_vars(Delivery(PollStep(s)))

\* Both clients are of one device class.
OneClass == <<"display", "display">>

\* Forms: the example server's, and one with each kind of button before, in
\* the midst of and behind the other controls, and with a list that shows no
\* option at first.
Input(name, initial, readOnly, upd) ==
    [t |-> "Input", name |-> name, initial |-> initial, maxLen |-> -1,
     readOnly |-> readOnly, password |-> FALSE, upd |-> upd]
Checkbox(name, initial, upd) ==
    [t |-> "Checkbox", name |-> name, initial |-> initial, upd |-> upd]
List(name, initial, upd) ==
    [t |-> "List", name |-> name, initial |-> initial, upd |-> upd,
     options |-> <<"o1", "o2">>]
Button(name, submit, cancel) ==
    [t |-> "Button", name |-> name, submit |-> submit, cancel |-> cancel,
     upd |-> TRUE]

DemoForm(text, checked, option) ==
    <<Input("input1", text, FALSE, TRUE), Input("input2", "", FALSE, FALSE),
      Input("input3", "fixed", TRUE, FALSE),
      Checkbox("check1", checked, TRUE), List("list1", option, TRUE),
      Button("button1", TRUE, FALSE)>>
ButtonForm(text, checked, option) ==
    <<Button("ok", TRUE, FALSE), Input("input1", text, FALSE, TRUE),
      Button("again", FALSE, FALSE), Checkbox("check1", checked, FALSE),
      Button("cancel", FALSE, TRUE), List("list1", option, TRUE)>>
TheForms ==
    [demo |-> [controls |-> DemoForm("enter", TRUE, 0), timed |-> FALSE],
     other |-> [controls |-> ButtonForm("enter", FALSE, -1), timed |-> TRUE]]
TheReloads ==
    [demo |-> {[controls |-> DemoForm("new", FALSE, 1), timed |-> TRUE]},
     other |-> {[controls |-> ButtonForm("new", TRUE, 0), timed |-> TRUE]}]

\* Alerts with and without each argument; a member of the application's own.
TheAlerts ==
    [class : {<<>>, <<"str", "KickDown">>},
     name : {<<>>, <<"str", "Speed">>, <<"str", "Gone">>},
     value : {<<>>, <<"str", "8500">>}, noSuppress : BOOLEAN, priority : {1},
     extra : {<<>>, <<<<"Title", <<"str", "t">>>>>>}]

TheCalls ==
    {<<f, a>> : f \in {"Alert", "AlertVarLimit"}, a \in TheAlerts}
    \cup {<<"MsgBox", b>> : b \in {{"Ok"}, {"Yes", "No"}}}
    \cup {<<f, n>> : f \in {"IdentifyClient", "RequestOpenForm",
                            "RequestCloseForm", "FormClose"},
                     n \in {"demo", "other"}}
    \cup {<<"RequestAudioRec", limit>> : limit \in {0, 5, 10, 15, 300}}
    \cup {<<f, 0>> : f \in {"NotifyAppChanged", "VarlistChanged",
                            "MeasurementStarted", "MeasurementStopped",
                            "StopAudioRec"}}

\* Two requests of the server for a form, and instead of them one event of
\* another kind.
Weights ==
    [f \in {call[1] : call \in TheCalls} |->
       IF f \in {"RequestOpenForm", "RequestCloseForm"} THEN 1
       ELSE 2]
==============================================================================
