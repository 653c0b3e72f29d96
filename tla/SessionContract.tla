--------------------------- MODULE SessionContract ---------------------------
(***************************************************************************)
(* What the server promises about the life of a session, without threads,  *)
(* locks, timers or flags: a session object is created once, it is         *)
(* destroyed at most once, and never while an event poll is being served   *)
(* on it.  SessionLifecycle is shown to implement this specification.      *)
(***************************************************************************)
EXTENDS Integers

CONSTANTS Workers,  \* the threads that serve HTTP requests
          Sessions  \* the session ids; 0 is not one of them

VARIABLES phase,    \* phase[s]: "none", "live" or "freed"
          serving   \* serving[w]: the session whose poll w serves, or 0

vars == <<phase, serving>>

Init == /\ phase = [s \in Sessions |-> "none"]
        /\ serving = [w \in Workers |-> 0]

\* A session object comes to life.
Create(s) == /\ phase[s] = "none"
             /\ phase' = [phase EXCEPT ![s] = "live"]
             /\ UNCHANGED serving

\* A worker starts to serve a poll; only a live session can be polled.
Serve(w, s) == /\ serving[w] = 0
               /\ phase[s] = "live"
               /\ serving' = [serving EXCEPT ![w] = s]
               /\ UNCHANGED phase

\* The answer is composed; the worker no longer depends on the session.
Answer(w) == /\ serving[w] # 0
             /\ serving' = [serving EXCEPT ![w] = 0]
             /\ UNCHANGED phase

\* The object is destroyed; nobody may be serving a poll on it.
Destroy(s) == /\ phase[s] = "live"
              /\ \A w \in Workers : serving[w] # s
              /\ phase' = [phase EXCEPT ![s] = "freed"]
              /\ UNCHANGED serving

Next == \/ \E s \in Sessions : Create(s) \/ Destroy(s)
        \/ \E w \in Workers : Answer(w)
        \/ \E w \in Workers, s \in Sessions : Serve(w, s)

Spec == Init /\ [][Next]_vars
=============================================================================
