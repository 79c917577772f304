---------------------------- MODULE ServicioIdeal ----------------------------
(***************************************************************************)
(* What an interface promises: a server with a queue.  Requests are done   *)
(* one by one in the order they came, and who asked waits until its own is *)
(* done.                                                                   *)
(***************************************************************************)
EXTENDS Integers, Sequences

CONSTANTS Pid, Proceso, Operacion, NADIE
VARIABLES cola,      \* server -> requests not yet answered, in order
          hecho,     \* server -> the request it has done and not yet answered
          esperando  \* who waits

vars == <<cola, hecho, esperando>>

Init == /\ cola = [c \in Proceso |-> <<>>] /\ hecho = [c \in Proceso |-> NADIE]
        /\ esperando = {}

Pedir(c) ==
  /\ \E p \in Pid \ esperando, op \in Operacion :
       /\ cola' = [cola EXCEPT ![c] = Append(@, [pid |-> p, op |-> op])]
       /\ esperando' = esperando \cup {p}
  /\ UNCHANGED hecho

Hacer(c) ==
  /\ cola[c] # <<>> /\ hecho[c] = NADIE
  /\ hecho' = [hecho EXCEPT ![c] = Head(cola[c])]
  /\ UNCHANGED <<cola, esperando>>

Volver(c) ==
  /\ hecho[c] # NADIE
  /\ cola' = [cola EXCEPT ![c] = Tail(@)]
  /\ esperando' = esperando \ {hecho[c].pid}
  /\ hecho' = [hecho EXCEPT ![c] = NADIE]

Next == \E c \in Proceso : Pedir(c) \/ Hacer(c) \/ Volver(c)
Spec == Init /\ [][Next]_vars
=============================================================================
