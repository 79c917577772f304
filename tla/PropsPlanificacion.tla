------------------------- MODULE PropsPlanificacion -------------------------
(***************************************************************************)
(* What the planner promises of Planificacion.  The first group holds when *)
(* the user does not kill a process, no process runs out of memory, DIALFS *)
(* is not used, every IO names a connected interface and the planner does  *)
(* not overtake the end of the first iniciar_proceso (Serial); the README  *)
(* says which of them fail otherwise.                                      *)
(***************************************************************************)
EXTENDS Planificacion

Serial ==
  /\ ~ArranqueConCarrera
  /\ Eliminables = {}
  /\ \A s \in Script : \A i \in DOMAIN Codigo[s] :
       /\ Codigo[s][i].op \notin {"RESIZE", "IO_FS"}
       /\ Codigo[s][i].op \in {"IO_GEN_SLEEP", "IO_STD"} => Codigo[s][i].arg \in Interfaz

-----------------------------------------------------------------------------
(* Who has the CPU, from the lock that grants it to the answer that        *)
(* returns it.                                                             *)
Dueno == {"nadie", "corto", "viaje", "ciclo", "vuelta", "conexion"}
Tiene(d) ==
  CASE d = "nadie" -> ~sem_exec
    [] d = "corto" -> pc["corto"] \in {"detenido", "despachar"}
    [] d = "viaje" -> dispatch # <<>>
    [] d = "ciclo" -> cpu_estado = "ciclo"
    [] d = "vuelta" -> respuestas # <<>>
    [] d = "conexion" -> pc["conexion"] \in {"detenido", "atender", "liberar", "soltar"}

(* One dispatch at a time: the mutex sem_exec is free, or exactly one      *)
(* thread or packet carries the right to the CPU, across kernel and CPU    *)
(* (planificadores.c:87, global.c:191, kernel.c:209, 243, 345).            *)
ExclusionCpu ==
  /\ \E d \in Dueno : \A e \in Dueno : Tiene(e) <=> e = d
  /\ Len(dispatch) <= 1 /\ Len(respuestas) <= 1

(* running is the process whose context travels, executes or comes back,   *)
(* so that running->contexto = contexto (kernel.c:186, 342, 394, 404)      *)
(* never writes one process's registers into another's PCB.                *)
RunningCorrecto ==
  /\ \A p \in Pid : pcb[p].pid = p
  /\ \A i \in DOMAIN dispatch : dispatch[i].ctx.pid = running
  /\ cpu_estado = "ciclo" => cpu_pcb.pid = running
  /\ \A i \in DOMAIN respuestas : respuestas[i].ctx.pid = running
  /\ Tiene("viaje") \/ Tiene("ciclo") \/ Tiene("vuelta") =>
       pcb[running].estado = "RUNNING"

(* p is in the CPU's, the dispatch's or the connection thread's hands.     *)
EnManos(p) ==
  \/ /\ running = p
     /\ \/ Tiene("viaje") \/ Tiene("ciclo") \/ Tiene("vuelta")
        \/ pc["conexion"] \in {"detenido", "atender"}
  \/ pc["conexion"] \in {"liberar", "bloquear"} /\ fin["conexion"].pcb = p
Veces(q, p) == Cardinality({i \in DOMAIN q : q[i] = p})
Esperas(p) ==
  UNION {{<<r, i>> : i \in {j \in DOMAIN bloqueados[r] : bloqueados[r][j] = p}} :
           r \in Recurso}
EnEspera(p) == en_io[p] + Cardinality(Esperas(p))
EnListos(p) == Veces(cola_ready, p) + Veces(cola_vrr, p)

(* Every live process is in exactly one queue, interface or hand, the one  *)
(* its state names, and a dead one in none: nothing is lost between        *)
(* threads and nothing is scheduled twice (planificadores.c:10-58,         *)
(* recursos.c:138-148, interfaces.c:752-757, 849-850).                     *)
UnSoloLugar ==
  \A p \in Pid :
    LET lugar == <<Veces(cola_new, p), EnListos(p), IF EnManos(p) THEN 1 ELSE 0,
                   EnEspera(p)>>
    IN  lugar = CASE pcb[p].estado = "NEW" -> <<1, 0, 0, 0>>
                  [] pcb[p].estado = "READY" -> <<0, 1, 0, 0>>
                  [] pcb[p].estado = "RUNNING" -> <<0, 0, 1, 0>>
                  [] pcb[p].estado = "WAITING" -> <<0, 0, 0, 1>>
                  [] OTHER -> <<0, 0, 0, 0>>

(* The semaphores promise the planners what the queues hold, so that no    *)
(* thread pops an empty queue (planificadores.c:62-68, 84-111).            *)
CuentaNew ==
  sem_new + (IF pc["largo"] = "new" THEN 0 ELSE 1) = Len(cola_new)
CuentaReady ==
  sem_ready + (IF pc["corto"] = "ready" THEN 0 ELSE 1) = Len(cola_ready) + Len(cola_vrr)

(* The degree of multiprogramming: free places plus processes admitted     *)
(* make the configured degree, whatever the user does with option 7        *)
(* (kernel.c:84-113, planificadores.c:64, global.c:193).                   *)
Admitidos ==
  Cardinality({p \in Pid : pcb[p].estado \in {"READY", "RUNNING", "WAITING"}})
CuentaGrado ==
  sem_grado + Admitidos + (IF pc["largo"] \in {"detenido", "pasar"} THEN 1 ELSE 0) = grado

(* The instances of r that the processes of S hold, told apart by number.  *)
Tenencias(S, r) == UNION {{<<p, i>> : i \in 1 .. asignados[p][r]} : p \in S}

(* Instances are only ever free or held by a process that can still give   *)
(* them back: none is created, and none dies with its holder               *)
(* (recursos.c:14-15, 51-52, 156-167).                                     *)
PuedeDevolver(p) ==
  \/ pcb[p].estado \in {"READY", "RUNNING", "WAITING"}
  \/ \E h \in {"consola", "conexion"} : pc[h] \in {"liberar", "devolver"} /\ fin[h].pid = p
SinFuga ==
  \A r \in Recurso :
    instancias[r] + Cardinality(Tenencias({p \in Pid : PuedeDevolver(p)}, r)) = Instancias[r]

(* The same count over every process, dead or alive.                       *)
InstanciasCuadran ==
  \A r \in Recurso :
    instancias[r] + Cardinality(Tenencias(Pid, r)) = Instancias[r]

(* Until the user can have used option 3, it is right in any other         *)
(* disorder: the counter and the entries of the list never disagree        *)
(* (recursos.c:14-15, 51-52, 93-135, 149-170).  Option 3 breaks it: two    *)
(* threads then give back what one entry says.                             *)
SinEliminar == Eliminables = {} \/ ordenes = 0
Conservacion == SinEliminar => InstanciasCuadran

(* p has been woken, or never slept, and will execute (or is executing) a  *)
(* WAIT of r as its next instruction.                                      *)
Proxima(p, n, r) ==
  LET codigo == Codigo[script[p]]
  IN  n + 1 \in DOMAIN codigo /\ codigo[n + 1].op = "WAIT" /\ codigo[n + 1].arg = r
PideWait(m, r) == m.op = "EJECUTAR_WAIT" /\ m.arg = r
VaAPedir(p, r) ==
  \/ EnListos(p) > 0 /\ Proxima(p, pcb[p].pc, r)
  \/ /\ running = p
     /\ \/ dispatch # <<>> /\ Proxima(p, Head(dispatch).ctx.pc, r)
        \/ cpu_estado = "ciclo" /\ Proxima(p, cpu_pcb.pc, r)
        \/ respuestas # <<>> /\ Head(respuestas).op \in {"ENVIAR_DESALOJAR"}
           /\ Proxima(p, Head(respuestas).ctx.pc, r)
        \/ respuestas # <<>> /\ PideWait(Head(respuestas), r)
        \/ pc["conexion"] \in {"detenido", "atender"} /\ PideWait(pedido, r)

(* A blocked process waits for instances that exist only while as many     *)
(* woken ones are on their way to take them: no wake-up is lost by the     *)
(* rewind of the program counter and the second WAIT (recursos.c:24-26,    *)
(* 56-60, 159-162).                                                        *)
NoDespertarPerdido ==
  \A r \in Recurso :
    bloqueados[r] # <<>> =>
      instancias[r] <= Cardinality({p \in Pid : VaAPedir(p, r)})

(* STDIN, STDOUT and DIALFS unlock the CPU before they write WAITING in    *)
(* the PCB (kernel.c:226-304): the process has left the CPU at the unlock. *)
EstadoVisible ==
  [p \in Pid |-> IF pc["conexion"] = "bloquear" /\ fin["conexion"].pcb = p
                 THEN "WAITING" ELSE pcb[p].estado]
Abstracto == INSTANCE CincoEstados
  WITH Proceso <- Pid, LimiteInicial <- Grado, estado <- EstadoVisible, limite <- grado

(* The threads, semaphores and queues implement the five-state diagram:    *)
(* one process RUNNING, admissions in order and within the degree, and no  *)
(* way to READY, WAITING or TERMINATED but the diagram's                   *)
(* (planificadores.c:10-58, 115-125, kernel.c:339-350, global.c:184-194).  *)
CumpleCincoEstados == Abstracto!Spec

(* A terminated process stays so: no queue, timer or interface that still  *)
(* knows it brings it back (kernel.c:339-350, interfaces.c:849-850).       *)
TerminadoNoRevive ==
  [][\A p \in Pid : pcb[p].estado = "TERMINATED" => pcb'[p].estado = "TERMINATED"]_vars

(* The kernel never dereferences the NULL of an empty queue nor frees an   *)
(* uninitialised pointer (recursos.c:119-133, planificadores.c:68, 111).   *)
NuncaCae == ~caido

-----------------------------------------------------------------------------
SinSaltos(p) == \A i \in DOMAIN Codigo[script[p]] : Codigo[script[p]][i].op # "SALTO"

(* A process created whose script has no jump runs to its end, whatever    *)
(* the timers do and though another one loops for ever: the quantum takes  *)
(* the CPU from the loop (planificadores.c:163-203, cpu.c:228-243).        *)
EventualmenteTermina ==
  \A p \in Pid :
    pcb[p].estado = "NEW" /\ SinSaltos(p) ~> pcb[p].estado = "TERMINATED"

(* With a quantum, a process in READY gets the CPU in the end.             *)
ListoLlegaAlCpu ==
  \A p \in Pid : pcb[p].estado = "READY" ~> pcb[p].estado # "READY"

(* Option 3 finishes the process whose pid the user typed (kernel.c:62).   *)
EliminaLoPedido ==
  [][pc["consola"] = "menu" /\ pc'["consola"] = "liberar" =>
       fin'["consola"].pid \in Eliminables]_vars

(* A thread that stopped for the pause stays stopped until option 5        *)
(* (kernel.c:41, 69-80).                                                   *)
PausaRespetada ==
  [][\A h \in {"largo", "corto", "conexion"} :
       detener /\ detener' /\ pc[h] = "detenido" => pc'[h] = "detenido"]_vars
=============================================================================
