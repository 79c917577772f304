---------------------------- MODULE CincoEstados ----------------------------
(***************************************************************************)
(* What the planner promises, without threads, semaphores or queues: the   *)
(* five-state diagram of a process under a degree of multiprogramming, on  *)
(* a single CPU.  Planificacion implements it (PropsPlanificacion).        *)
(***************************************************************************)
EXTENDS Integers, FiniteSets

CONSTANTS Proceso, LimiteInicial

VARIABLES estado, limite

Con(e) == {p \in Proceso : estado[p] = e}
Admitido == Con("READY") \cup Con("RUNNING") \cup Con("WAITING")
Pasar(S, e) == estado' = [p \in Proceso |-> IF p \in S THEN e ELSE estado[p]]

Init ==
  /\ estado = [p \in Proceso |-> "SIN_CREAR"]
  /\ limite = LimiteInicial

(* Processes are created, and admitted, in the order of their pids.        *)
Crear(p) ==
  /\ p \in Con("SIN_CREAR") /\ \A q \in Con("SIN_CREAR") : p <= q
  /\ Pasar({p}, "NEW")

Admitir(p) ==
  /\ p \in Con("NEW") /\ \A q \in Con("NEW") : p <= q
  /\ Cardinality(Admitido) < limite
  /\ Pasar({p}, "READY")

Despachar(p) ==
  /\ p \in Con("READY") /\ Con("RUNNING") = {}
  /\ Pasar({p}, "RUNNING")

(* The CPU is left by a preemption, a wait or the end of the process.      *)
Dejar(p) ==
  /\ p \in Con("RUNNING")
  /\ \E e \in {"READY", "WAITING", "TERMINATED"} : Pasar({p}, e)

Despertar ==
  \E S \in SUBSET Con("WAITING") : Pasar(S, "READY")

(* The degree may grow at will and shrinks only over free places.          *)
CambiarLimite ==
  /\ limite' \in Nat /\ limite' >= Cardinality(Admitido)
  /\ UNCHANGED estado

Next ==
  \/ /\ UNCHANGED limite
     /\ \/ \E p \in Proceso : Crear(p) \/ Admitir(p) \/ Despachar(p) \/ Dejar(p)
        \/ Despertar
  \/ CambiarLimite

Spec == Init /\ [][Next]_<<estado, limite>>
=============================================================================
