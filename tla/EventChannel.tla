---------------------------- MODULE EventChannel ----------------------------
(***************************************************************************)
(* What the event service promises to one client each: events queued for   *)
(* a session reach its client in the order of queueing, each at most once. *)
(* A client receives everything pending at once; a reply that is lost on   *)
(* its way takes the oldest events with it, and the end of the session the *)
(* newest.                                                                 *)
(***************************************************************************)
EXTENDS Sequences, Integers

CONSTANTS Sessions, \* the session ids
          Events,   \* what can be queued
          Lossy,    \* may a reply be lost?
          Leave     \* may a session end before everything was received?

VARIABLES pending,  \* pending[s]: queued for s, not yet received
          inbox     \* inbox[s]: received by the client of s

vars == <<pending, inbox>>

Init == /\ pending = [s \in Sessions |-> <<>>]
        /\ inbox = [s \in Sessions |-> <<>>]

Queue(s, e) == /\ pending' = [pending EXCEPT ![s] = Append(@, e)]
               /\ UNCHANGED inbox

\* The first n pending events reach the client, or, on a lossy link, nobody.
Receive(s, n) ==
    /\ pending' = [pending EXCEPT ![s] = SubSeq(@, n + 1, Len(@))]
    /\ \/ inbox' = [inbox EXCEPT ![s] = @ \o SubSeq(pending[s], 1, n)]
       \/ Lossy /\ UNCHANGED inbox

\* The session ends; what was not on its way by then is discarded.
Close(s, n) == /\ Leave
               /\ pending' = [pending EXCEPT ![s] = SubSeq(@, 1, n)]
               /\ UNCHANGED inbox

Next == \E s \in Sessions :
          \/ \E e \in Events : Queue(s, e)
          \/ \E n \in 1..Len(pending[s]) : Receive(s, n)
          \/ \E n \in 0..Len(pending[s]) : Close(s, n)

Spec == Init /\ [][Next]_vars
=============================================================================
