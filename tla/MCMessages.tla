----------------------------- MODULE MCMessages -----------------------------
(* The instance for TLC of JsonText, the texts that are exchanged, and of   *)
(* Discovery, which finds whom to exchange them with.  The two machines     *)
(* share no state: a behaviour is one of either.                            *)
EXTENDS JsonText, Discovery

CONSTANTS s1, s2

VARIABLE part  \* the machine that runs: "text" or "discovery"

InText(A)      == part = "text" /\ A /\ UNCHANGED <<part, vars>>
InDiscovery(A) == part = "discovery" /\ A /\ UNCHANGED <<part, textVars>>

\* The machine that does not run stands still in one of its initial states.
MCInit ==
    /\ part \in {"text", "discovery"} /\ TextInit /\ Init
    /\ part = "discovery" => metas = <<>>
MCNext == InText(TextNext) \/ InDiscovery(Next)

\* The fairness is that of Discovery's FairSpec.
MCSpec ==
    /\ MCInit /\ [][MCNext]_<<part, textVars, vars>>
    /\ WF_vars(InDiscovery(WalkEnds)) /\ WF_vars(InDiscovery(GetCount))
    /\ \A s \in Servers :
          WF_vars(InDiscovery(Walk(s))) /\ WF_vars(InDiscovery(ThreadStep(s)))

\* Names that begin alike; values of every type, with every kind of character
\* that a writer escapes or that is punctuation elsewhere.
TheNames == {<<"n">>, <<"n", "\"">>, <<"/", "\\">>}
TheInputs ==
    <<{<<<<"n">>, <<"int", "5">>>>, <<<<"n", "\"">>, <<"double", "5.5">>>>,
       <<<<"n">>, <<"double", "inf">>>>, <<<<"n">>, <<"bool", "true">>>>,
       <<<<"n">>, <<"date", "date">>>>, <<<<"/", "\\">>, <<"str", <<>>>>>>,
       <<<<"n">>, <<"str", <<"\\", "nl">>>>>>,
       <<<<"n">>, <<"cstr", <<"\"", ",", "'">>>>>>},
      {<<<<"n", "\"">>, <<"str", <<"n", "}", "\\">>>>>>,
       <<<<"n">>, <<"double", "5">>>>},
      {<<<<"n">>, <<"cstr", <<"/", "]">>>>>>},
      {<<<<"/", "\\">>, <<"double", "nan">>>>}>>

Meta == [name |-> <<"n">>, flags |-> {}, disp |-> <<>>, min |-> "1",
         max |-> "5", factor |-> "2", offset |-> "3",
         thresholds |-> <<"0", "1", "2", "3", "5">>,
         table |-> <<>>, fallback |-> <<>>]
Entity(v, t) == [value |-> v, text |-> t]
TheMetas ==
    {Meta,
     [Meta EXCEPT !.flags = {"DISPNAME", "RANGE"}, !.disp = <<"\"">>],
     [Meta EXCEPT !.flags = {"DISPNAME", "THRESHOLDS", "FACTOFFS"}],
     [Meta EXCEPT !.flags = {"RANGE", "THRESHOLDS"},
                  !.thresholds = <<"0", "1", "3", "2", "5">>],
     [Meta EXCEPT !.flags = {"VALUETABLE"}, !.fallback = <<<<"'">>>>,
                  !.table = <<Entity("1", <<<<"nl">>>>),
                              Entity("2", <<<<>>>>)>>],
     [Meta EXCEPT !.flags = {"VALUETABLE", "RANGE"},
                  !.table = <<Entity("0", <<<<"n">>>>), Entity("1", <<>>),
                              Entity("2", <<<<"n">>>>)>>]}
=============================================================================
