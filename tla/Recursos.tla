------------------------------ MODULE Recursos ------------------------------
(***************************************************************************)
(* kernel/src/recursos.c: the resources of kernel.config, who holds them   *)
(* and who waits for them.  lista_recursos_pcb is the function asignados,  *)
(* keyed by pid as the C list is; the queue of a resource holds PCBs.      *)
(* Every operator below is the effect of one C function on that state; the *)
(* effect on the PCB, on READY and on sem_exec is the caller's             *)
(* (Planificacion).  X_algo is X with a slip a property must notice.       *)
(***************************************************************************)
EXTENDS Integers, SequencesExt

CONSTANTS
  NProcesos,      \* processes the console ever creates (bound)
  ListaRecursos,  \* RECURSOS of kernel.config, in its order
  Instancias      \* INSTANCIAS_RECURSOS of kernel.config

Pid == 0 .. NProcesos - 1
Recurso == {ListaRecursos[i] : i \in DOMAIN ListaRecursos}

ASSUME NProcesosAssumption == NProcesos \in Nat \ {0}
ASSUME RecursosAssumption ==
  /\ ListaRecursos \in Seq(Recurso) /\ ListaRecursos # <<>>
  /\ \A i, j \in DOMAIN ListaRecursos :
       ListaRecursos[i] = ListaRecursos[j] => i = j
  /\ Instancias \in [Recurso -> Nat]

VARIABLES
  instancias,  \* recurso->instancias
  asignados,   \* recurso_pcb->instancias, 0 when the list has no such entry
  bloqueados   \* recurso->cola_bloqueados

recursosVars == <<instancias, asignados, bloqueados>>

RecursosTypeOK ==
  /\ instancias \in [Recurso -> Nat]
  /\ asignados \in [Pid -> [Recurso -> Nat]]
  /\ bloqueados \in [Recurso -> Seq(Pid)]

RecursosInit ==
  /\ instancias = Instancias
  /\ asignados = [p \in Pid |-> [r \in Recurso |-> 0]]
  /\ bloqueados = [r \in Recurso |-> <<>>]

-----------------------------------------------------------------------------
(* recurso->instancias has no mutex: d is 0 when another thread, between   *)
(* its read and its write, undoes the update, and 1 otherwise.             *)

(* ejecutar_wait with an instance to give *)
Otorgar(pid, r, d) ==
  /\ instancias' = [instancias EXCEPT ![r] = @ - d]
  /\ asignados' = [asignados EXCEPT ![pid][r] = @ + 1]

(* ejecutar_wait with none left *)
Encolar(p, r) ==
  /\ bloqueados' = [bloqueados EXCEPT ![r] = Append(@, p)]
  /\ UNCHANGED <<instancias, asignados>>

(* Whom an instance of r that comes back wakes: the oldest, if any waits.  *)
Despertados(r) == SubSeq(bloqueados[r], 1, IF bloqueados[r] = <<>> THEN 0 ELSE 1)

Despertar_SinQuitar(r) == UNCHANGED bloqueados
Despertar(r) ==
  bloqueados' = [bloqueados EXCEPT ![r] = SubSeq(@, Len(Despertados(r)) + 1, Len(@))]

Devolver_BorraEntrada(pid, r, d) ==
  /\ instancias' = [instancias EXCEPT ![r] = @ + d]
  /\ asignados' = [asignados EXCEPT ![pid][r] = 0]

(* recurso->instancias++ and quitar_recurso_pcb, in ejecutar_signal and in *)
(* the inner loop of liberar_recursos.                                     *)
Devolver(pid, r, d) ==
  /\ instancias' = [instancias EXCEPT ![r] = @ + d]
  /\ asignados' = [asignados EXCEPT ![pid][r] = IF @ > 0 THEN @ - 1 ELSE @]

(* quitar_recurso_pcb frees the local aux, which it sets only when the     *)
(* entry is there and has one instance, and never initialises: otherwise   *)
(* nothing happens or the kernel dies.                                     *)
PosibleCaida(pid, r) == IF asignados[pid][r] # 1 THEN BOOLEAN ELSE {FALSE}

(* buscar_pcb_bloqueados_recursos: take position i out of the queue of r.  *)
QuitarBloqueado(r, i) ==
  /\ bloqueados' = [bloqueados EXCEPT ![r] = RemoveAt(@, i)]
  /\ UNCHANGED <<instancias, asignados>>
=============================================================================
