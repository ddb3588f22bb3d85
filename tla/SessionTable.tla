----------------------------- MODULE SessionTable -----------------------------
(***************************************************************************)
(* What SessionLocalStorage promises its clients: every thread is in no    *)
(* session (0) or in one, sessions are never shared and never given twice. *)
(***************************************************************************)
EXTENDS Naturals

CONSTANTS
  Threads,
  SessionIds  \* positive numbers

VARIABLES
  session,  \* the session of each thread
  issued    \* the sessions ever given

vars == <<session, issued>>

Init == session = [t \in Threads |-> 0] /\ issued = {}

Start(t) ==
  /\ session[t] = 0
  /\ \E s \in SessionIds \ issued :
       /\ session' = [session EXCEPT ![t] = s]
       /\ issued' = issued \cup {s}

End(t) ==
  /\ session[t] # 0
  /\ session' = [session EXCEPT ![t] = 0]
  /\ UNCHANGED issued

Next == \E t \in Threads : Start(t) \/ End(t)

Spec == Init /\ [][Next]_vars

===============================================================================
