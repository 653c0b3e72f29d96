----------------------------- MODULE MCDaqCycle -----------------------------
(* Instances of DaqCycle for TLC.                                          *)
EXTENDS DaqCycle

\* Lists that share a variable, and one that names an unknown variable.
SomeLists == {<<"u", "v">>, <<"v", "nil", "u">>}
NoLists == {}
=============================================================================
