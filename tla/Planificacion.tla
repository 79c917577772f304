--------------------------- MODULE Planificacion ---------------------------
(***************************************************************************)
(* The kernel (kernel/src) around the CPU of CicloCpu and the resources of *)
(* Recursos: the console thread, the long and the short term planner, and  *)
(* the thread that serves the CPU's dispatch connection.  An interface is  *)
(* what the planner needs of it: it takes a PCB and some day gives it back *)
(* (module Interfaces of the plan details it).                             *)
(*                                                                         *)
(* Each action is what one thread does between two points where it can     *)
(* block or where another thread can see its work.  Writes to a queue and  *)
(* the sem_post that follows are one step: every reader waits on the       *)
(* semaphore first.                                                        *)
(*                                                                         *)
(* A definition named X_algo before X is X with a plausible slip, which a  *)
(* property must notice; no action uses it.                                *)
(***************************************************************************)
EXTENDS CicloCpu

CONSTANTS
  Algoritmos,       \* ALGORITMO_PLANIFICACION, one chosen at start
  Grado,            \* GRADO_MULTIPROGRAMACION of kernel.config
  Grados,           \* values the user may type in option 7
  Interfaz,         \* names of the connected interfaces
  Eliminables,      \* pids the user may type in option 3
  MaxOrdenes,       \* bound on the uses of options 3, 4, 5 and 7
  MaxRelojes,       \* bound on the timers of one process that sleep at once
  ArranqueConCarrera \* the planner may run before iniciar_proceso returns

ASSUME ConfiguracionAssumption ==
  /\ Algoritmos \subseteq {"FIFO", "RR", "VRR"}
  /\ Grado \in Nat /\ Grados \subseteq Nat
  /\ Interfaz \subseteq Operando
  /\ MaxOrdenes \in Nat /\ MaxRelojes \in Nat
  /\ ArranqueConCarrera \in BOOLEAN

VARIABLES
  algoritmo,     \* planificador
  pcb,           \* t_pcb of each process, NEW only once created
  contador_pcb,
  cola_new, cola_ready, cola_vrr,
  en_io,         \* how many times each PCB waits in an interface
  sem_new, sem_ready, sem_grado,
  sem_exec,      \* the mutexes: TRUE when locked
  sem_detener, sem_detener_largo, sem_detener_conexion,
  running, detener, primero,
  grado,         \* grado_multiprogramacion_ini
  a_bajar,       \* sem_wait calls option 7 still has to make
  pc,            \* where each kernel thread is
  pedido,        \* the request in the connection thread's hands
  fin,           \* locals of the threads that can run finalizar_pcb: the PCB
                 \* and pid, where to return, and those of liberar_recursos: the
                 \* resource under way, instances still to give back, next step
  caido,         \* the kernel dereferenced NULL or freed garbage
  ordenes        \* uses of the bounded console options

colas == <<cola_new, cola_ready, cola_vrr, en_io>>
semaforos == <<sem_new, sem_ready, sem_grado>>
pausa == <<detener, sem_detener, sem_detener_largo, sem_detener_conexion>>
consolaVars == <<contador_pcb, primero, grado, a_bajar, ordenes>>
kernelVars == <<algoritmo, pcb, colas, semaforos, sem_exec, pausa, running,
                consolaVars, pc, pedido, fin, caido>>
vars == <<recursosVars, cicloVars, kernelVars>>

Estado == {"SIN_CREAR", "NEW", "READY", "RUNNING", "WAITING", "TERMINATED"}
Pcb == [estado : Estado, pid : Pid, pc : Int, resto : BOOLEAN]
Hilo == {"consola", "largo", "corto", "conexion"}
Punto == {"menu", "arranque", "bajar", "new", "grado", "ready", "exec", "recv",
          "detenido", "pasar", "despachar", "atender", "bloquear", "liberar",
          "devolver", "soltar"}
LiberarDesde(i, p, pid, luego) ==
  [pcb |-> p, pid |-> pid, luego |-> luego, i |-> i, faltan |-> 0, vuelta |-> "mirar"]
FinNulo == LiberarDesde(1, 0, 0, "menu")
Fin == {f \in [pcb : Pid, pid : Pid, luego : Punto, i : Nat \ {0}, faltan : Nat,
               vuelta : {"mirar", "despertar", "devolver"}] :
          f.vuelta # "mirar" => f.faltan > 0}

(* The values every variable takes.                                        *)
TypeOK ==
  /\ RecursosTypeOK /\ CicloTypeOK
  /\ algoritmo \in Algoritmos
  /\ pcb \in [Pid -> Pcb]
  /\ contador_pcb \in 0 .. NProcesos
  /\ cola_new \in Seq(Pid) /\ cola_ready \in Seq(Pid) /\ cola_vrr \in Seq(Pid)
  /\ en_io \in [Pid -> Nat]
  /\ sem_new \in Nat /\ sem_ready \in Nat /\ sem_grado \in Nat
  /\ sem_exec \in BOOLEAN /\ detener \in BOOLEAN /\ primero \in BOOLEAN
  /\ sem_detener \in BOOLEAN /\ sem_detener_largo \in BOOLEAN
  /\ sem_detener_conexion \in BOOLEAN
  /\ running \in Pid \cup {NADIE}
  /\ grado \in Nat /\ a_bajar \in Nat /\ ordenes \in 0 .. MaxOrdenes
  /\ pc \in [Hilo -> Punto]
  /\ pedido \in Respuesta \cup {NADIE}
  /\ fin \in [{"consola", "conexion"} -> Fin]
  /\ caido \in BOOLEAN

Init ==
  /\ RecursosInit /\ CicloInit
  /\ algoritmo \in Algoritmos
  /\ pcb = [p \in Pid |-> [estado |-> "SIN_CREAR", pid |-> p, pc |-> 0, resto |-> FALSE]]
  /\ contador_pcb = 0
  /\ cola_new = <<>> /\ cola_ready = <<>> /\ cola_vrr = <<>> /\ en_io = [p \in Pid |-> 0]
  /\ sem_new = 0 /\ sem_ready = 0 /\ sem_grado = Grado
  /\ sem_exec = FALSE /\ detener = FALSE /\ primero = TRUE
  /\ sem_detener = TRUE /\ sem_detener_largo = TRUE /\ sem_detener_conexion = TRUE
  /\ running = NADIE
  /\ grado = Grado /\ a_bajar = 0 /\ ordenes = 0
  /\ pc = [consola |-> "menu", largo |-> "new", corto |-> "ready", conexion |-> "recv"]
  /\ pedido = NADIE
  /\ fin = [h \in {"consola", "conexion"} |-> FinNulo]
  /\ caido = FALSE

-----------------------------------------------------------------------------
Ir(h, punto) == pc' = [pc EXCEPT ![h] = punto]

(* running->contexto = contexto *)
ConContexto(p, ctx) == [pcb EXCEPT ![p].pid = ctx.pid, ![p].pc = ctx.pc]

(* agregar_cola_ready, once per element of s, on the PCBs f *)
AgregarReady(f, s) ==
  /\ pcb' = [p \in Pid |-> IF p \in ToSet(s) THEN [f[p] EXCEPT !.estado = "READY"]
                                           ELSE f[p]]
  /\ cola_ready' = cola_ready \o s
  /\ sem_ready' = sem_ready + Len(s)

AgregarVrr_SinPost(p) ==
  /\ pcb' = [pcb EXCEPT ![p].estado = "READY"]
  /\ cola_vrr' = Append(cola_vrr, p)
  /\ UNCHANGED sem_ready

(* agregar_cola_vrr *)
AgregarVrr(p) ==
  /\ pcb' = [pcb EXCEPT ![p].estado = "READY"]
  /\ cola_vrr' = Append(cola_vrr, p)
  /\ sem_ready' = sem_ready + 1

AgregarNew_DosPost(p) ==
  /\ cola_new' = Append(cola_new, p)
  /\ sem_new' = sem_new + 2

(* agregar_cola_new *)
AgregarNew(p) ==
  /\ cola_new' = Append(cola_new, p)
  /\ sem_new' = sem_new + 1

TomarLugar_SinEspera == sem_grado' = sem_grado - 1

(* sem_wait(&sem_grado_multiprogramacion) *)
TomarLugar == sem_grado > 0 /\ sem_grado' = sem_grado - 1

(* liberar_proceso: whoever holds sem_exec, it is unlocked.                *)
LiberarProceso(p) ==
  /\ pcb' = [pcb EXCEPT ![p].estado = "TERMINATED"]
  /\ sem_exec' = FALSE
  /\ sem_grado' = sem_grado + 1

FinalizarPcb_DesdeElSegundo(h, p, pid, luego) ==
  /\ Ir(h, "liberar")
  /\ fin' = [fin EXCEPT ![h] = LiberarDesde(2, p, pid, luego)]

(* Thread h enters finalizar_pcb(p), whose context holds pid, and goes on  *)
(* at luego when it returns.                                               *)
FinalizarPcb(h, p, pid, luego) ==
  /\ Ir(h, "liberar")
  /\ fin' = [fin EXCEPT ![h] = LiberarDesde(1, p, pid, luego)]

-----------------------------------------------------------------------------
(* The console thread: iniciar_consola.                                    *)

(* Option 2, or a line of a script: iniciar_proceso.  The round trip to    *)
(* memoria (sem_memoria) is over when it returns.                          *)
IniciarProceso ==
  /\ pc["consola"] = "menu" /\ contador_pcb < NProcesos
  /\ contador_pcb' = contador_pcb + 1
  /\ pcb' = [pcb EXCEPT ![contador_pcb].estado = "NEW"]
  /\ AgregarNew(contador_pcb)
  /\ Ir("consola", IF primero THEN "arranque" ELSE "menu")
  /\ UNCHANGED <<recursosVars, cicloVars, algoritmo, cola_ready, cola_vrr, en_io,
                 sem_ready, sem_grado, sem_exec, pausa, running, primero, grado,
                 a_bajar, ordenes, pedido, fin, caido>>

(* ... and its tail, the first time: sem_exec is unlocked, free or not.    *)
ConsolaArranque ==
  /\ pc["consola"] = "arranque"
  /\ sem_exec' = FALSE
  /\ primero' = FALSE
  /\ Ir("consola", "menu")
  /\ UNCHANGED <<recursosVars, cicloVars, algoritmo, pcb, colas, semaforos, pausa,
                 running, contador_pcb, grado, a_bajar, ordenes, pedido, fin, caido>>

Orden ==
  /\ pc["consola"] = "menu" /\ ordenes < MaxOrdenes
  /\ ordenes' = ordenes + 1

(* Option 4 *)
DetenerPlanificacion ==
  /\ Orden
  /\ detener' = TRUE
  /\ UNCHANGED <<recursosVars, cicloVars, algoritmo, pcb, colas, semaforos, sem_exec,
                 sem_detener, sem_detener_largo, sem_detener_conexion, running,
                 contador_pcb, primero, grado, a_bajar, pc, pedido, fin, caido>>

(* Option 5: three unlocks, whether or not a thread waits.                 *)
IniciarPlanificacion ==
  /\ Orden
  /\ detener' = FALSE
  /\ sem_detener' = FALSE /\ sem_detener_largo' = FALSE /\ sem_detener_conexion' = FALSE
  /\ UNCHANGED <<recursosVars, cicloVars, algoritmo, pcb, colas, semaforos, sem_exec,
                 running, contador_pcb, primero, grado, a_bajar, pc, pedido, fin, caido>>

SubirGrado_UnoDeMas(nuevo) ==
  /\ sem_grado' = sem_grado + (nuevo - grado) + 1
  /\ grado' = nuevo

(* Option 7: posts at once when the degree grows ...                       *)
SubirGrado(nuevo) ==
  /\ sem_grado' = sem_grado + (nuevo - grado)
  /\ grado' = nuevo

CambiarGrado ==
  /\ Orden
  /\ \E nuevo \in Grados :
       IF nuevo > grado
       THEN SubirGrado(nuevo) /\ UNCHANGED <<a_bajar, pc>>
       ELSE /\ a_bajar' = grado - nuevo
            /\ Ir("consola", "bajar")
            /\ UNCHANGED <<sem_grado, grado>>
  /\ UNCHANGED <<recursosVars, cicloVars, algoritmo, pcb, colas, sem_new, sem_ready,
                 sem_exec, pausa, running, contador_pcb, primero, pedido, fin, caido>>

(* ... and waits, one sem_wait at a time, when it shrinks.  grado follows  *)
(* each wait here; the C variable, which only the console reads, jumps at  *)
(* the end.                                                                *)
BajarGrado ==
  /\ pc["consola"] = "bajar"
  /\ IF a_bajar = 0
     THEN Ir("consola", "menu") /\ UNCHANGED <<sem_grado, grado, a_bajar>>
     ELSE /\ TomarLugar
          /\ grado' = grado - 1
          /\ a_bajar' = a_bajar - 1
          /\ UNCHANGED pc
  /\ UNCHANGED <<recursosVars, cicloVars, algoritmo, pcb, colas, sem_new, sem_ready,
                 sem_exec, pausa, running, contador_pcb, primero, ordenes, pedido, fin,
                 caido>>

(* encontrar_pcb: the first PCB of a queue whose context says pid.         *)
Esta(q, pid) == \E i \in DOMAIN q : pcb[q[i]].pid = pid
Primera(q, pid, i) ==
  /\ i \in DOMAIN q /\ pcb[q[i]].pid = pid
  /\ \A j \in 1 .. i - 1 : pcb[q[j]].pid # pid
EnRecursos(pid) == \E r \in Recurso : Esta(bloqueados[r], pid)

(* Option 3, eliminar_pcb: the PCB found leaves its queue, not sem_ready.  *)
EliminarBloqueado(pid) ==
  /\ \E k \in DOMAIN ListaRecursos :
       LET r == ListaRecursos[k]
       IN  /\ \A j \in 1 .. k - 1 : ~Esta(bloqueados[ListaRecursos[j]], pid)
           /\ \E i \in DOMAIN bloqueados[r] :
                /\ Primera(bloqueados[r], pid, i)
                /\ QuitarBloqueado(r, i)
                /\ FinalizarPcb("consola", bloqueados[r][i], pid, "menu")
  /\ UNCHANGED <<cola_ready, finalizar_en_vuelo, caido>>

EliminarListo(pid) ==
  /\ ~EnRecursos(pid)
  /\ \E i \in DOMAIN cola_ready :
       /\ Primera(cola_ready, pid, i)
       /\ cola_ready' = RemoveAt(cola_ready, i)
       /\ FinalizarPcb("consola", cola_ready[i], pid, "menu")
  /\ UNCHANGED <<recursosVars, finalizar_en_vuelo, caido>>

(* A PCB in NEW makes encontrar_pcb return NULL, as does an unknown pid    *)
(* before the first dispatch.                                              *)
EliminarNulo(pid) ==
  /\ ~EnRecursos(pid) /\ ~Esta(cola_ready, pid)
  /\ Esta(cola_new, pid) \/ running = NADIE
  /\ caido' = TRUE
  /\ UNCHANGED <<recursosVars, cola_ready, finalizar_en_vuelo, pc, fin>>

(* Any other pid: the running process, whichever it is.                    *)
EliminarRunning(pid) ==
  /\ ~EnRecursos(pid) /\ ~Esta(cola_ready, pid) /\ ~Esta(cola_new, pid)
  /\ running # NADIE
  /\ finalizar_en_vuelo' = finalizar_en_vuelo + 1
  /\ FinalizarPcb("consola", running, pcb[running].pid, "menu")
  /\ UNCHANGED <<recursosVars, cola_ready, caido>>

EliminarPcb ==
  /\ Orden
  /\ \E pid \in Eliminables :
       \/ EliminarBloqueado(pid)
       \/ EliminarListo(pid)
       \/ EliminarNulo(pid)
       \/ EliminarRunning(pid)
  /\ UNCHANGED <<script, dispatch, respuestas, cpuVars, relojes, algoritmo, pcb,
                 cola_new, cola_vrr, en_io, semaforos, sem_exec, pausa, running,
                 contador_pcb, primero, grado, a_bajar, pedido>>

-----------------------------------------------------------------------------
(* finalizar_pcb, in the console or in the connection thread.              *)

(* liberar_recursos, also after an INVALID_RESOURCE.  With option 3 two    *)
(* threads may be in it, even for the same pid.                            *)
EnVuelta(h, paso) ==
  /\ pc[h] \in {"liberar", "devolver"}
  /\ fin[h].i <= Len(ListaRecursos) /\ fin[h].vuelta = paso
RecursoDe(h) == ListaRecursos[fin[h].i]

(* What an update of recurso->instancias by h may count: nothing, if       *)
(* another thread is updating it too.                                      *)
OtroActualiza(h, r) ==
  \/ \E o \in {"consola", "conexion"} \ {h} : EnVuelta(o, "devolver") /\ RecursoDe(o) = r
  \/ /\ h = "consola" /\ pc["conexion"] = "atender"
     /\ pedido.op \in {"EJECUTAR_WAIT", "EJECUTAR_SIGNAL"} /\ pedido.arg = r
Cuenta(h, r) == IF OtroActualiza(h, r) THEN {0, 1} ELSE {1}

(* buscar_recurso_pcb, and how many instances its entry says.              *)
MirarRecurso(h) ==
  /\ EnVuelta(h, "mirar")
  /\ LET n == asignados[fin[h].pid][RecursoDe(h)]
     IN  fin' = IF n = 0 THEN [fin EXCEPT ![h].i = @ + 1]
                ELSE [fin EXCEPT ![h].vuelta = "despertar", ![h].faltan = n]
  /\ UNCHANGED <<recursosVars, cicloVars, algoritmo, pcb, colas, semaforos, sem_exec,
                 pausa, running, consolaVars, pc, pedido, caido>>

(* One turn of the inner loop: first a process that waits goes to READY ...*)
DespertarUno(h) ==
  /\ EnVuelta(h, "despertar")
  /\ fin' = [fin EXCEPT ![h].vuelta = "devolver"]
  /\ Despertar(RecursoDe(h))
  /\ AgregarReady(pcb, Despertados(RecursoDe(h)))
  /\ UNCHANGED <<instancias, asignados, cicloVars, algoritmo, cola_new, cola_vrr, en_io,
                 sem_new, sem_grado, sem_exec, pausa, running, consolaVars, pc, pedido,
                 caido>>

(* ... and then the instance comes back.                                   *)
DevolverUna(h) ==
  /\ EnVuelta(h, "devolver")
  /\ fin' = IF fin[h].faltan = 1
            THEN [fin EXCEPT ![h].i = @ + 1, ![h].vuelta = "mirar", ![h].faltan = 0]
            ELSE [fin EXCEPT ![h].vuelta = "despertar", ![h].faltan = @ - 1]
  /\ \E d \in Cuenta(h, RecursoDe(h)) : Devolver(fin[h].pid, RecursoDe(h), d)
  /\ caido' \in PosibleCaida(fin[h].pid, RecursoDe(h))
  /\ UNCHANGED <<bloqueados, cicloVars, algoritmo, pcb, colas, semaforos, sem_exec, pausa,
                 running, consolaVars, pc, pedido>>

LiberarRecurso(h) == MirarRecurso(h) \/ DespertarUno(h) \/ DevolverUna(h)

(* liberar_proceso, and the message that lets memoria drop the process.    *)
TerminarProceso(h) ==
  /\ pc[h] = "liberar" /\ fin[h].i > Len(ListaRecursos)
  /\ LiberarProceso(fin[h].pcb)
  /\ Ir(h, fin[h].luego)
  /\ fin' = [fin EXCEPT ![h] = FinNulo]
  /\ UNCHANGED <<recursosVars, cicloVars, algoritmo, colas, sem_new, sem_ready, pausa,
                 running, consolaVars, pedido, caido>>

(* After an INVALID_RESOURCE liberar_proceso has already run, and memoria  *)
(* is never told.                                                          *)
TerminarDevolucion ==
  /\ pc["conexion"] = "devolver" /\ fin["conexion"].i > Len(ListaRecursos)
  /\ Ir("conexion", "recv")
  /\ fin' = [fin EXCEPT !["conexion"] = FinNulo]
  /\ UNCHANGED <<recursosVars, cicloVars, algoritmo, pcb, colas, semaforos, sem_exec,
                 pausa, running, consolaVars, pedido, caido>>

-----------------------------------------------------------------------------
(* planificador_largo_plazo                                                *)
LargoEspera ==
  /\ \/ /\ pc["largo"] = "new" /\ sem_new > 0
        /\ sem_new' = sem_new - 1 /\ UNCHANGED sem_grado
        /\ Ir("largo", "grado")
     \/ /\ pc["largo"] = "grado"
        /\ TomarLugar /\ UNCHANGED sem_new
        /\ Ir("largo", IF detener THEN "detenido" ELSE "pasar")
  /\ UNCHANGED <<recursosVars, cicloVars, algoritmo, pcb, colas, sem_ready, sem_exec,
                 pausa, running, consolaVars, pedido, fin, caido>>

LargoDetenido ==
  /\ pc["largo"] = "detenido" /\ ~sem_detener_largo
  /\ sem_detener_largo' = TRUE
  /\ Ir("largo", "pasar")
  /\ UNCHANGED <<recursosVars, cicloVars, algoritmo, pcb, colas, semaforos, sem_exec,
                 detener, sem_detener, sem_detener_conexion, running, consolaVars,
                 pedido, fin, caido>>

LargoPasa ==
  /\ pc["largo"] = "pasar"
  /\ IF cola_new = <<>>
     THEN caido' = TRUE /\ UNCHANGED <<pcb, cola_new, cola_ready, sem_ready, pc>>
     ELSE /\ cola_new' = Tail(cola_new)
          /\ AgregarReady(pcb, <<Head(cola_new)>>)
          /\ Ir("largo", "new")
          /\ UNCHANGED caido
  /\ UNCHANGED <<recursosVars, cicloVars, algoritmo, cola_vrr, en_io, sem_new,
                 sem_grado, sem_exec, pausa, running, consolaVars, pedido, fin>>

-----------------------------------------------------------------------------
(* planificador_corto_plazo                                                *)
CortoEspera ==
  /\ \/ /\ pc["corto"] = "ready" /\ sem_ready > 0
        /\ sem_ready' = sem_ready - 1 /\ UNCHANGED sem_exec
        /\ Ir("corto", "exec")
     \/ /\ pc["corto"] = "exec" /\ ~sem_exec
        /\ primero => ArranqueConCarrera
        /\ sem_exec' = TRUE /\ UNCHANGED sem_ready
        /\ Ir("corto", IF detener THEN "detenido" ELSE "despachar")
  /\ UNCHANGED <<recursosVars, cicloVars, algoritmo, pcb, colas, sem_new, sem_grado,
                 pausa, running, consolaVars, pedido, fin, caido>>

CortoDetenido ==
  /\ pc["corto"] = "detenido" /\ ~sem_detener
  /\ sem_detener' = TRUE
  /\ Ir("corto", "despachar")
  /\ UNCHANGED <<recursosVars, cicloVars, algoritmo, pcb, colas, semaforos, sem_exec,
                 detener, sem_detener_largo, sem_detener_conexion, running, consolaVars,
                 pedido, fin, caido>>

(* enviar_pcb(p->contexto, conexion_cpu, RECIBIR_PCB)                      *)
EnviarPcb(p, con_quantum) ==
  dispatch' = Append(dispatch, [ctx |-> [pid |-> pcb[p].pid, pc |-> pcb[p].pc],
                                con_quantum |-> con_quantum])

ConQuantum_SoloVrr == algoritmo = "VRR"

(* iniciar_quantum, iniciar_quantum_vrr: which algorithms start a timer.   *)
ConQuantum == algoritmo \in {"RR", "VRR"}

EnviarPorDispatch_RunningViejo(p) ==
  /\ ConQuantum => relojes[pcb[p].pid] < MaxRelojes
  /\ pcb' = [pcb EXCEPT ![p].estado = "RUNNING"]
  /\ running' = IF running = NADIE THEN p ELSE running
  /\ EnviarPcb(p, ConQuantum)
  /\ relojes' = [relojes EXCEPT ![pcb[p].pid] = IF ConQuantum THEN @ + 1 ELSE @]
  /\ Ir("corto", "ready")

(* enviar_por_dispatch: the timer thread starts with the dispatch.         *)
EnviarPorDispatch(p) ==
  /\ ConQuantum => relojes[pcb[p].pid] < MaxRelojes
  /\ pcb' = [pcb EXCEPT ![p].estado = "RUNNING"]
  /\ running' = p
  /\ EnviarPcb(p, ConQuantum)
  /\ relojes' = [relojes EXCEPT ![pcb[p].pid] = IF ConQuantum THEN @ + 1 ELSE @]
  /\ Ir("corto", "ready")

(* de_ready_a_fifo, de_ready_a_round_robin, de_ready_a_vrr                 *)
DespachaVrr ==
  /\ algoritmo = "VRR" /\ cola_vrr # <<>>
  /\ EnviarPorDispatch(Head(cola_vrr))
  /\ cola_vrr' = Tail(cola_vrr)
  /\ UNCHANGED <<cola_ready, caido>>

DespachaReady ==
  /\ algoritmo # "VRR" \/ cola_vrr = <<>>
  /\ cola_ready # <<>>
  /\ EnviarPorDispatch(Head(cola_ready))
  /\ cola_ready' = Tail(cola_ready)
  /\ UNCHANGED <<cola_vrr, caido>>

(* sem_ready promised a PCB that is not there: the NULL is dereferenced.   *)
DespachaNulo ==
  /\ algoritmo # "VRR" \/ cola_vrr = <<>>
  /\ cola_ready = <<>>
  /\ caido' = TRUE
  /\ UNCHANGED <<pcb, running, dispatch, relojes, cola_ready, cola_vrr, pc>>

CortoDespacha ==
  /\ pc["corto"] = "despachar"
  /\ DespachaVrr \/ DespachaReady \/ DespachaNulo
  /\ UNCHANGED <<recursosVars, script, respuestas, cpuVars, finalizar_en_vuelo,
                 algoritmo, cola_new, en_io, semaforos, sem_exec, pausa, consolaVars,
                 pedido, fin>>

-----------------------------------------------------------------------------
(* procesar_conexion on the socket of the CPU's dispatch.                  *)

(* case RECIBIR_PCB: the context comes home, then the pause is looked at.  *)
RecibirPedido ==
  /\ Head(respuestas).op \in Pedidos
  /\ pcb' = ConContexto(running, Head(respuestas).ctx)
  /\ pedido' = Head(respuestas)
  /\ Ir("conexion", IF detener THEN "detenido" ELSE "atender")
  /\ UNCHANGED <<cola_ready, sem_ready, sem_exec, fin>>

RecibirDesalojo ==
  /\ Head(respuestas).op = "ENVIAR_DESALOJAR"
  /\ AgregarReady([ConContexto(running, Head(respuestas).ctx) EXCEPT ![running].resto = FALSE],
                  <<running>>)
  /\ sem_exec' = FALSE
  /\ UNCHANGED <<pedido, pc, fin>>

(* The console runs finalizar_pcb for this one.                            *)
RecibirFinalizado ==
  /\ Head(respuestas).op = "ENVIAR_FINALIZAR"
  /\ pcb' = ConContexto(running, Head(respuestas).ctx)
  /\ UNCHANGED <<cola_ready, sem_ready, sem_exec, pedido, pc, fin>>

RecibirFin ==
  /\ Head(respuestas).op = "FINALIZAR"
  /\ pcb' = ConContexto(running, Head(respuestas).ctx)
  /\ FinalizarPcb("conexion", running, Head(respuestas).ctx.pid, "recv")
  /\ UNCHANGED <<cola_ready, sem_ready, sem_exec, pedido>>

ConexionRecibe ==
  /\ pc["conexion"] = "recv" /\ respuestas # <<>>
  /\ respuestas' = Tail(respuestas)
  /\ RecibirPedido \/ RecibirDesalojo \/ RecibirFinalizado \/ RecibirFin
  /\ UNCHANGED <<recursosVars, script, dispatch, cpuVars, relojes, finalizar_en_vuelo,
                 algoritmo, cola_new, cola_vrr, en_io, sem_new, sem_grado, pausa,
                 running, consolaVars, caido>>

ConexionDetenida ==
  /\ pc["conexion"] = "detenido" /\ ~sem_detener_conexion
  /\ sem_detener_conexion' = TRUE
  /\ Ir("conexion", "atender")
  /\ UNCHANGED <<recursosVars, cicloVars, algoritmo, pcb, colas, semaforos, sem_exec,
                 detener, sem_detener, sem_detener_largo, running, consolaVars, pedido,
                 fin, caido>>

Conceder_ConUnlock(p, r) ==
  /\ \E d \in Cuenta("conexion", r) : Otorgar(pcb[p].pid, r, d)
  /\ EnviarPcb(p, FALSE)
  /\ sem_exec' = FALSE
  /\ UNCHANGED <<bloqueados, pcb>>

(* ejecutar_wait: the process goes on with the instance ...                *)
Conceder(p, r) ==
  /\ \E d \in Cuenta("conexion", r) : Otorgar(pcb[p].pid, r, d)
  /\ EnviarPcb(p, FALSE)
  /\ UNCHANGED <<bloqueados, pcb, sem_exec>>

Bloquear_SinRebobinar(p, r) ==
  /\ Encolar(p, r)
  /\ pcb' = [pcb EXCEPT ![p].estado = "WAITING"]
  /\ sem_exec' = FALSE
  /\ UNCHANGED dispatch

Bloquear_SinUnlock(p, r) ==
  /\ Encolar(p, r)
  /\ pcb' = [pcb EXCEPT ![p].estado = "WAITING", ![p].pc = @ - 1]
  /\ UNCHANGED <<dispatch, sem_exec>>

(* ... or waits for one, and will execute the WAIT again.                  *)
Bloquear(p, r) ==
  /\ Encolar(p, r)
  /\ pcb' = [pcb EXCEPT ![p].estado = "WAITING", ![p].pc = @ - 1]
  /\ sem_exec' = FALSE
  /\ UNCHANGED dispatch

EjecutarWait ==
  /\ pedido.op = "EJECUTAR_WAIT" /\ pedido.arg \in Recurso
  /\ IF instancias[pedido.arg] > 0
     THEN Conceder(running, pedido.arg)
     ELSE Bloquear(running, pedido.arg)
  /\ Ir("conexion", "recv")
  /\ UNCHANGED <<cola_ready, en_io, sem_ready, sem_grado, fin, caido>>

(* ejecutar_signal of a resource the process holds                         *)
EjecutarSignal ==
  /\ pedido.op = "EJECUTAR_SIGNAL" /\ pedido.arg \in Recurso
  /\ asignados[pcb[running].pid][pedido.arg] > 0
  /\ \E d \in Cuenta("conexion", pedido.arg) : Devolver(pcb[running].pid, pedido.arg, d)
  /\ Despertar(pedido.arg)
  /\ caido' \in PosibleCaida(pcb[running].pid, pedido.arg)
  /\ EnviarPcb(running, FALSE)
  /\ AgregarReady(pcb, Despertados(pedido.arg))
  /\ Ir("conexion", "recv")
  /\ UNCHANGED <<en_io, sem_grado, sem_exec, fin>>

(* INVALID_RESOURCE: an unknown name, or a SIGNAL without the WAIT.        *)
RecursoInvalido ==
  /\ pedido.op \in {"EJECUTAR_WAIT", "EJECUTAR_SIGNAL"}
  /\ pedido.arg \in Recurso =>
       pedido.op = "EJECUTAR_SIGNAL" /\ asignados[pcb[running].pid][pedido.arg] = 0
  /\ LiberarProceso(running)
  /\ Ir("conexion", "devolver")
  /\ fin' = [fin EXCEPT !["conexion"] = LiberarDesde(1, running, pcb[running].pid, "recv")]
  /\ UNCHANGED <<recursosVars, dispatch, cola_ready, en_io, sem_ready, caido>>

SinMemoria ==
  /\ pedido.op = "OUT_OF_MEMORY"
  /\ FinalizarPcb("conexion", running, pcb[running].pid, "soltar")
  /\ UNCHANGED <<recursosVars, dispatch, pcb, cola_ready, en_io, sem_ready, sem_grado,
                 sem_exec, caido>>

(* ejecutar_io_sleep2, ejecutar_io_stdin_read, ejecutar_io_fs_create, ...: *)
(* what is left of the quantum is measured from the clock of the last      *)
(* dispatch, so only whether any is left matters here.                     *)
EjecutarIO(p, luego) ==
  IF pedido.arg \in Interfaz
  THEN /\ \E queda \in IF algoritmo = "VRR" THEN BOOLEAN ELSE {FALSE} :
            pcb' = [pcb EXCEPT ![p].estado = "WAITING", ![p].resto = queda]
       /\ en_io' = [en_io EXCEPT ![p] = @ + 1]
       /\ Ir("conexion", luego)
       /\ fin' = [fin EXCEPT !["conexion"] = FinNulo]
  ELSE /\ FinalizarPcb("conexion", p, pcb[p].pid, luego)
       /\ UNCHANGED <<pcb, en_io>>

IoSleep ==
  /\ pedido.op = "IO_SLEEP"
  /\ EjecutarIO(running, "soltar")
  /\ UNCHANGED <<recursosVars, dispatch, cola_ready, sem_ready, sem_grado, sem_exec,
                 caido>>

(* STDIN and STDOUT keep the PCB before the unlock, DIALFS does not.       *)
IoSuelta ==
  /\ pedido.op \in {"IO_STD", "IO_FS"}
  /\ sem_exec' = FALSE
  /\ fin' = [fin EXCEPT !["conexion"].pcb = running]
  /\ Ir("conexion", "bloquear")
  /\ UNCHANGED <<recursosVars, dispatch, pcb, cola_ready, en_io, sem_ready, sem_grado,
                 caido>>

ConexionAtiende ==
  /\ pc["conexion"] = "atender"
  /\ \/ EjecutarWait \/ EjecutarSignal \/ RecursoInvalido
     \/ SinMemoria \/ IoSleep \/ IoSuelta
  /\ pedido' = IF pc'["conexion"] = "bloquear" THEN pedido ELSE NADIE
  /\ UNCHANGED <<script, respuestas, cpuVars, relojes, finalizar_en_vuelo, algoritmo,
                 cola_new, cola_vrr, sem_new, pausa, running, consolaVars>>

ConexionBloquea ==
  /\ pc["conexion"] = "bloquear"
  /\ EjecutarIO(IF pedido.op = "IO_STD" THEN fin["conexion"].pcb ELSE running, "recv")
  /\ pedido' = NADIE
  /\ UNCHANGED <<recursosVars, cicloVars, algoritmo, cola_new, cola_ready, cola_vrr,
                 semaforos, sem_exec, pausa, running, consolaVars, caido>>

(* The unlock that follows finalizar_pcb and ejecutar_io_sleep2.           *)
ConexionSuelta ==
  /\ pc["conexion"] = "soltar"
  /\ sem_exec' = FALSE
  /\ Ir("conexion", "recv")
  /\ UNCHANGED <<recursosVars, cicloVars, algoritmo, pcb, colas, semaforos, pausa,
                 running, consolaVars, pedido, fin, caido>>

-----------------------------------------------------------------------------
(* The end of an operation: control_acceso and vuelta_io_vrr.              *)
VueltaIO(p) ==
  /\ en_io[p] > 0
  /\ en_io' = [en_io EXCEPT ![p] = @ - 1]
  /\ IF algoritmo = "VRR" /\ pcb[p].resto
     THEN AgregarVrr(p) /\ UNCHANGED cola_ready
     ELSE AgregarReady(pcb, <<p>>) /\ UNCHANGED cola_vrr
  /\ UNCHANGED <<recursosVars, cicloVars, algoritmo, cola_new, sem_new, sem_grado,
                 sem_exec, pausa, running, consolaVars, pc, pedido, fin, caido>>

-----------------------------------------------------------------------------
Menu ==
  \/ IniciarProceso \/ DetenerPlanificacion \/ IniciarPlanificacion
  \/ CambiarGrado \/ EliminarPcb

PasoConsola ==
  \/ ConsolaArranque \/ BajarGrado
  \/ LiberarRecurso("consola") \/ TerminarProceso("consola")
PasoLargo == LargoEspera \/ LargoDetenido \/ LargoPasa
PasoCorto == CortoEspera \/ CortoDetenido \/ CortoDespacha
PasoConexion ==
  \/ ConexionRecibe \/ ConexionDetenida \/ ConexionAtiende \/ ConexionBloquea
  \/ ConexionSuelta
  \/ LiberarRecurso("conexion") \/ TerminarProceso("conexion") \/ TerminarDevolucion

Cpu == CpuPaso /\ UNCHANGED <<recursosVars, kernelVars>>
FinQuantum(p) == InterrupcionQuantum(p) /\ UNCHANGED <<recursosVars, kernelVars>>
LlegaFinalizar == InterrupcionFinalizar /\ UNCHANGED <<recursosVars, kernelVars>>

(* A kernel that has crashed takes no step and is nobody's peer.           *)
Next ==
  /\ ~caido
  /\ \/ Menu \/ PasoConsola \/ PasoLargo \/ PasoCorto \/ PasoConexion
     \/ Cpu \/ LlegaFinalizar
     \/ \E p \in Pid : FinQuantum(p) \/ VueltaIO(p)

Spec == Init /\ [][Next]_vars

(* Every thread is scheduled, every timer fires, every packet arrives and  *)
(* every interface answers; nothing obliges the user.  The CPU is strongly *)
(* fair in each process's instructions: one is far shorter than a quantum, *)
(* so a process that keeps being dispatched gets some of them done.        *)
Vivo(A) == ~caido /\ A
Avanza(p) ==
  /\ cpu_pcb # NADIE /\ cpu_pcb.pid = p
  /\ CpuInstruccion /\ UNCHANGED <<recursosVars, kernelVars>>
Equidad ==
  /\ WF_vars(Vivo(PasoConsola)) /\ WF_vars(Vivo(PasoLargo))
  /\ WF_vars(Vivo(PasoCorto)) /\ WF_vars(Vivo(PasoConexion))
  /\ WF_vars(Vivo(Cpu)) /\ WF_vars(Vivo(LlegaFinalizar))
  /\ \A p \in Pid :
       /\ WF_vars(Vivo(FinQuantum(p))) /\ WF_vars(Vivo(VueltaIO(p)))
       /\ SF_vars(Vivo(Avanza(p)))
EquidadSpec == Spec /\ Equidad

=============================================================================
