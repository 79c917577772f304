------------------------ MODULE Planificacion_proofs ------------------------
(***************************************************************************)
(* Theorems about Planificacion for every number of processes, every set   *)
(* of resources and scripts, every algorithm and every use of the console: *)
(* the types; the semaphores sem_new and sem_ready, which promise the      *)
(* planners exactly what the queues hold; the right to the CPU, which is   *)
(* in one place in a Serial system; and that no planner pops an empty      *)
(* queue and nothing is freed that was not found.                          *)
(***************************************************************************)
EXTENDS PropsPlanificacion, TLAPS, FiniteSetTheorems, SequenceTheorems

-----------------------------------------------------------------------------
(* Type correctness.                                                       *)

(* running is NULL only before the first dispatch, and nobody works for a  *)
(* process then.                                                           *)
SinDespachos ==
  running = NADIE =>
    /\ dispatch = <<>> /\ respuestas = <<>> /\ cpu_estado = "ocioso"
    /\ pc["conexion"] = "recv"

(* The CPU never executes without a context, and the packet it is taking   *)
(* is still at the head of the socket.                                     *)
CicloConContexto ==
  /\ cpu_estado # "ocioso" => cpu_pcb # NADIE
  /\ cpu_estado = "recibiendo" => dispatch # <<>>

(* Option 7 never waits for more places than there are.                    *)
BajaPosible == a_bajar <= grado

TipoInd == TypeOK /\ SinDespachos /\ CicloConContexto /\ BajaPosible

(* The PCBs that a resource wakes are processes.                           *)
LEMMA DespertadosTipo ==
  ASSUME RecursosTypeOK, NEW r \in Recurso
  PROVE  Despertados(r) \in Seq(Pid)
<1> DEFINE m == IF bloqueados[r] = <<>> THEN 0 ELSE 1
<1>1. bloqueados[r] \in Seq(Pid)
  BY DEF RecursosTypeOK
<1>2. /\ Len(bloqueados[r]) \in Nat /\ DOMAIN bloqueados[r] = 1 .. Len(bloqueados[r])
      /\ bloqueados[r] # <<>> => Len(bloqueados[r]) > 0
  BY <1>1, LenProperties, EmptySeq
<1>3. m \in Nat /\ m <= Len(bloqueados[r])
  BY <1>2
<1>4. \A i \in 1 .. m : bloqueados[r][i] \in Pid
  BY <1>1, <1>2, <1>3, ElementOfSeq
<1>5. SubSeq(bloqueados[r], 1, m) \in Seq(Pid)
  BY <1>3, <1>4, SubSeqProperties
<1> QED
  BY <1>5 DEF Despertados

(* What is left of the queue are processes.                                *)
LEMMA DespertarTipo ==
  ASSUME RecursosTypeOK, NEW r \in Recurso, Despertar(r)
  PROVE  bloqueados' \in [Recurso -> Seq(Pid)]
<1> DEFINE d == Despertados(r)
           q == bloqueados[r]
           k == Len(d) + 1
           l == Len(q)
<1>1. d \in Seq(Pid) /\ q \in Seq(Pid)
  BY DespertadosTipo DEF RecursosTypeOK
<1> HIDE DEF d
<1>2. k \in Nat \ {0} /\ l \in Nat /\ DOMAIN q = 1 .. l
  BY <1>1, LenProperties
<1>3. \A i \in k .. l : q[i] \in Pid
  BY <1>1, <1>2, ElementOfSeq
<1>4. SubSeq(q, k, l) \in Seq(Pid)
  BY <1>2, <1>3, SubSeqProperties
<1> QED
  BY <1>4 DEF Despertar, RecursosTypeOK, d

(* An instance taken, when there is one, or given back keeps the types.    *)
LEMMA OtorgarTipo ==
  ASSUME RecursosTypeOK, NEW pid \in Pid, NEW r \in Recurso, NEW d \in {0, 1},
         instancias[r] > 0, Otorgar(pid, r, d)
  PROVE  instancias' \in [Recurso -> Nat] /\ asignados' \in [Pid -> [Recurso -> Nat]]
<1>1. instancias[r] - d \in Nat /\ asignados[pid][r] + 1 \in Nat
  BY DEF RecursosTypeOK
<1>2. instancias' \in [Recurso -> Nat]
  BY <1>1 DEF Otorgar, RecursosTypeOK
<1>3. asignados' \in [Pid -> [Recurso -> Nat]]
  BY <1>1 DEF Otorgar, RecursosTypeOK
<1> QED
  BY <1>2, <1>3

LEMMA DevolverTipo ==
  ASSUME RecursosTypeOK, NEW pid \in Pid, NEW r \in Recurso, NEW d \in {0, 1},
         Devolver(pid, r, d)
  PROVE  instancias' \in [Recurso -> Nat] /\ asignados' \in [Pid -> [Recurso -> Nat]]
<1>1. instancias[r] + d \in Nat
  BY DEF RecursosTypeOK
<1>2. instancias' \in [Recurso -> Nat]
  BY <1>1 DEF Devolver, RecursosTypeOK
<1>3. asignados' \in [Pid -> [Recurso -> Nat]]
  BY DEF Devolver, RecursosTypeOK
<1> QED
  BY <1>2, <1>3

(* No update counts for more than one instance, nor for less than none.    *)
LEMMA CuentaTipo == \A h, r : Cuenta(h, r) \subseteq {0, 1}
  BY DEF Cuenta

(* Taking one position out of a queue of processes.                        *)
LEMMA QuitarTipo ==
  ASSUME NEW q \in Seq(Pid), NEW i \in DOMAIN q
  PROVE  RemoveAt(q, i) \in Seq(Pid) /\ q[i] \in Pid
<1>1. Len(q) \in Nat /\ DOMAIN q = 1 .. Len(q)
  BY LenProperties
<1>2. /\ \A j \in 1 .. i - 1 : q[j] \in Pid
      /\ \A j \in i + 1 .. Len(q) : q[j] \in Pid
      /\ q[i] \in Pid
  BY <1>1, ElementOfSeq
<1>3. SubSeq(q, 1, i - 1) \in Seq(Pid) /\ SubSeq(q, i + 1, Len(q)) \in Seq(Pid)
  BY <1>1, <1>2, SubSeqProperties
<1> QED
  BY <1>2, <1>3, ConcatProperties DEF RemoveAt

(* agregar_cola_ready keeps PCBs, queue and semaphore well-typed.          *)
LEMMA AgregarReadyTipo ==
  ASSUME cola_ready \in Seq(Pid), sem_ready \in Nat,
         NEW f \in [Pid -> Pcb], NEW s \in Seq(Pid), AgregarReady(f, s)
  PROVE  pcb' \in [Pid -> Pcb] /\ cola_ready' \in Seq(Pid) /\ sem_ready' \in Nat
<1>1. Len(s) \in Nat
  BY LenProperties
<1>2. pcb' \in [Pid -> Pcb]
  <2>1. \A p \in Pid : f[p] \in Pcb
    OBVIOUS
  <2>2. \A x \in Pcb : [x EXCEPT !.estado = "READY"] \in Pcb
    BY DEF Pcb, Estado
  <2> QED
    BY <2>1, <2>2 DEF AgregarReady
<1> QED
  BY <1>1, <1>2, ConcatProperties DEF AgregarReady

(* The value of an idle thread's local is a pid.                           *)
LEMMA PidCero == 0 \in Pid /\ Pid \subseteq Nat
  BY NProcesosAssumption DEF Pid

(* The locals of a thread outside finalizar_pcb have their type.           *)
LEMMA FinNuloTipo == FinNulo \in Fin
  BY PidCero DEF FinNulo, LiberarDesde, Fin, Punto

(* The context of a PCB that is sent, and one that comes back.             *)
LEMMA ContextoTipo ==
  ASSUME pcb \in [Pid -> Pcb], NEW p \in Pid
  PROVE  /\ pcb[p].pid \in Pid
         /\ [pid |-> pcb[p].pid, pc |-> pcb[p].pc] \in Contexto
         /\ \A ctx \in Contexto : ConContexto(p, ctx) \in [Pid -> Pcb]
<1>1. pcb[p] \in Pcb
  OBVIOUS
<1>2. \A ctx \in Contexto : [pcb[p] EXCEPT !.pid = ctx.pid, !.pc = ctx.pc] \in Pcb
  BY <1>1 DEF Contexto, Pcb
<1>3. \A ctx \in Contexto : ConContexto(p, ctx) \in [Pid -> Pcb]
  BY <1>2 DEF ConContexto
<1> QED
  BY <1>1, <1>3 DEF Contexto, Pcb

-----------------------------------------------------------------------------
(* The initial states have the types.                                      *)
LEMMA TipoInicial == Init => TipoInd
<1> SUFFICES ASSUME Init PROVE TipoInd
  OBVIOUS
<1>1. RecursosTypeOK
  BY RecursosAssumption, PidCero DEF Init, RecursosInit, RecursosTypeOK
<1>2. CicloTypeOK
  BY PidCero DEF Init, CicloInit, CicloTypeOK
<1>3. pcb \in [Pid -> Pcb]
  BY DEF Init, Pcb, Estado
<1>4. pc \in [Hilo -> Punto]
  BY DEF Init, Hilo, Punto
<1>5. fin \in [{"consola", "conexion"} -> Fin]
  BY FinNuloTipo DEF Init
<1>6. contador_pcb \in 0 .. NProcesos /\ ordenes \in 0 .. MaxOrdenes
  BY NProcesosAssumption, ConfiguracionAssumption DEF Init
<1>7. /\ cola_new \in Seq(Pid) /\ cola_ready \in Seq(Pid) /\ cola_vrr \in Seq(Pid)
      /\ en_io \in [Pid -> Nat] /\ sem_new \in Nat /\ sem_ready \in Nat
      /\ sem_grado \in Nat /\ grado \in Nat /\ a_bajar \in Nat
  BY ConfiguracionAssumption DEF Init
<1>8. /\ algoritmo \in Algoritmos /\ running \in Pid \cup {NADIE}
      /\ pedido \in Respuesta \cup {NADIE}
      /\ sem_exec \in BOOLEAN /\ detener \in BOOLEAN /\ primero \in BOOLEAN
      /\ sem_detener \in BOOLEAN /\ sem_detener_largo \in BOOLEAN
      /\ sem_detener_conexion \in BOOLEAN /\ caido \in BOOLEAN
  BY DEF Init
<1>9. TypeOK
  BY <1>1, <1>2, <1>3, <1>4, <1>5, <1>6, <1>7, <1>8 DEF TypeOK
<1> QED
  BY <1>9, ConfiguracionAssumption
  DEF Init, CicloInit, TipoInd, SinDespachos, CicloConContexto, BajaPosible

(* A stutter keeps them.                                                   *)
LEMMA TipoIgual == TipoInd /\ UNCHANGED vars => TipoInd'
  BY DEF TipoInd, TypeOK, RecursosTypeOK, CicloTypeOK, SinDespachos, CicloConContexto,
         BajaPosible, vars, recursosVars, cicloVars, canales, cpuVars, kernelVars, colas,
         semaforos, pausa, consolaVars

(* Steps that leave the resources alone keep their types.                  *)
LEMMA RecursosIgual == RecursosTypeOK /\ UNCHANGED recursosVars => RecursosTypeOK'
  BY DEF RecursosTypeOK, recursosVars

(* Steps that leave the CPU and its channels alone keep their types.       *)
LEMMA CicloIgual == CicloTypeOK /\ UNCHANGED cicloVars => CicloTypeOK'
  BY DEF CicloTypeOK, cicloVars, canales, cpuVars

(* One field of one PCB changes.                                           *)
LEMMA EstadoTipo ==
  ASSUME NEW f \in [Pid -> Pcb], NEW p \in Pid, NEW e \in Estado
  PROVE  [f EXCEPT ![p].estado = e] \in [Pid -> Pcb]
<1>1. [f[p] EXCEPT !.estado = e] \in Pcb
  BY DEF Pcb
<1> QED
  BY <1>1

(* Where a thread goes is a place of the kernel.                           *)
LEMMA IrTipo ==
  ASSUME pc \in [Hilo -> Punto], NEW h \in Hilo, NEW x \in Punto, Ir(h, x)
  PROVE  /\ pc' \in [Hilo -> Punto]
         /\ pc'[h] = x
         /\ \A g \in Hilo : g # h => pc'[g] = pc[g]
  BY DEF Ir

(* So is where finalizar_pcb goes, and what it remembers.                  *)
LEMMA FinalizarTipo ==
  ASSUME TypeOK, NEW h \in {"consola", "conexion"}, NEW p \in Pid, NEW pid \in Pid,
         NEW luego \in {"menu", "recv", "soltar"}, FinalizarPcb(h, p, pid, luego)
  PROVE  /\ pc' \in [Hilo -> Punto]
         /\ pc'[h] = "liberar"
         /\ \A g \in {"consola", "conexion", "largo", "corto"} : g # h => pc'[g] = pc[g]
         /\ fin' \in [{"consola", "conexion"} -> Fin]
<1>1. h \in Hilo /\ "liberar" \in Punto /\ Ir(h, "liberar")
  BY DEF FinalizarPcb, Hilo, Punto
<1>2. LiberarDesde(1, p, pid, luego) \in Fin
  BY DEF LiberarDesde, Fin, Punto
<1>3. fin' \in [{"consola", "conexion"} -> Fin]
  BY <1>2 DEF FinalizarPcb, TypeOK
<1> QED
  BY <1>1, <1>3, IrTipo DEF TypeOK, Hilo

(* The options of the console's menu.                                      *)
LEMMA TipoMenu == TipoInd /\ Menu => TipoInd'
<1> SUFFICES ASSUME TipoInd, Menu PROVE TipoInd'
  OBVIOUS
<1> USE DEF TipoInd, SinDespachos, CicloConContexto, BajaPosible
<1>1. CASE IniciarProceso
  <2>1. RecursosTypeOK' /\ CicloTypeOK'
    BY <1>1, RecursosIgual, CicloIgual DEF IniciarProceso, TypeOK
  <2>2. pcb' \in [Pid -> Pcb] /\ cola_new' \in Seq(Pid) /\ sem_new' \in Nat
        /\ contador_pcb' \in 0 .. NProcesos
    <3>1. contador_pcb \in Pid /\ contador_pcb + 1 \in 0 .. NProcesos
      BY <1>1, NProcesosAssumption DEF IniciarProceso, TypeOK, Pid
    <3>2. pcb' \in [Pid -> Pcb]
      <4>1. pcb' = [pcb EXCEPT ![contador_pcb].estado = "NEW"]
        BY <1>1 DEF IniciarProceso
      <4>2. pcb \in [Pid -> Pcb] /\ "NEW" \in Estado
        BY DEF TypeOK, Estado
      <4> QED
        BY <4>1, <4>2, <3>1, EstadoTipo
    <3>3. cola_new' \in Seq(Pid) /\ sem_new' \in Nat
      BY <1>1, <3>1 DEF IniciarProceso, AgregarNew, TypeOK
    <3> QED
      BY <1>1, <3>1, <3>2, <3>3 DEF IniciarProceso
  <2>3. pc' \in [Hilo -> Punto] /\ pc'["conexion"] = pc["conexion"]
    BY <1>1 DEF IniciarProceso, Ir, TypeOK, Hilo, Punto
  <2>4. TypeOK'
    BY <1>1, <2>1, <2>2, <2>3 DEF IniciarProceso, TypeOK, pausa
  <2> QED
    BY <1>1, <2>3, <2>4 DEF IniciarProceso, cicloVars, canales, cpuVars
<1>2. CASE DetenerPlanificacion
  <2>1. RecursosTypeOK' /\ CicloTypeOK'
    BY <1>2, RecursosIgual, CicloIgual DEF DetenerPlanificacion, TypeOK
  <2>2. ordenes' \in 0 .. MaxOrdenes
    BY <1>2, ConfiguracionAssumption DEF DetenerPlanificacion, Orden, TypeOK
  <2>3. TypeOK'
    BY <1>2, <2>1, <2>2 DEF DetenerPlanificacion, TypeOK, colas, semaforos
  <2> QED
    BY <1>2, <2>3 DEF DetenerPlanificacion, cicloVars, canales, cpuVars
<1>5. CASE IniciarPlanificacion
  <2>1. RecursosTypeOK' /\ CicloTypeOK'
    BY <1>5, RecursosIgual, CicloIgual DEF IniciarPlanificacion, TypeOK
  <2>2. ordenes' \in 0 .. MaxOrdenes
    BY <1>5, ConfiguracionAssumption DEF IniciarPlanificacion, Orden, TypeOK
  <2>3. TypeOK'
    BY <1>5, <2>1, <2>2 DEF IniciarPlanificacion, TypeOK, colas, semaforos
  <2> QED
    BY <1>5, <2>3 DEF IniciarPlanificacion, cicloVars, canales, cpuVars
<1>3. CASE CambiarGrado
  <2>1. RecursosTypeOK' /\ CicloTypeOK'
    BY <1>3, RecursosIgual, CicloIgual DEF CambiarGrado, TypeOK
  <2>2. /\ sem_grado' \in Nat /\ grado' \in Nat /\ a_bajar' \in Nat /\ a_bajar' <= grado'
        /\ pc' \in [Hilo -> Punto] /\ pc'["conexion"] = pc["conexion"]
    <3> PICK nuevo \in Grados :
          IF nuevo > grado
          THEN SubirGrado(nuevo) /\ UNCHANGED <<a_bajar, pc>>
          ELSE /\ a_bajar' = grado - nuevo
               /\ Ir("consola", "bajar")
               /\ UNCHANGED <<sem_grado, grado>>
      BY <1>3 DEF CambiarGrado
    <3>1. nuevo \in Nat /\ grado \in Nat /\ sem_grado \in Nat
      BY ConfiguracionAssumption DEF TypeOK
    <3>2. CASE nuevo > grado
      BY <3>1, <3>2 DEF SubirGrado, TypeOK
    <3>3. CASE ~(nuevo > grado)
      <4>1. Ir("consola", "bajar") /\ "consola" \in Hilo /\ "conexion" \in Hilo
            /\ "bajar" \in Punto
        BY <3>3 DEF Hilo, Punto
      <4>2. pc' \in [Hilo -> Punto] /\ pc'["conexion"] = pc["conexion"]
        BY <4>1, IrTipo DEF TypeOK
      <4> QED
        BY <3>1, <3>3, <4>2
    <3> QED
      BY <3>2, <3>3
  <2>3. TypeOK'
    BY <1>3, <2>1, <2>2, ConfiguracionAssumption
    DEF CambiarGrado, Orden, TypeOK, colas, pausa
  <2> QED
    BY <1>3, <2>2, <2>3 DEF CambiarGrado, cicloVars, canales, cpuVars
<1>4. CASE EliminarPcb
  <2> PICK pid \in Eliminables :
        \/ EliminarBloqueado(pid)
        \/ EliminarListo(pid)
        \/ EliminarNulo(pid)
        \/ EliminarRunning(pid)
    BY <1>4 DEF EliminarPcb
  <2>1. \A i : \A q \in Seq(Pid) : Primera(q, pid, i) =>
          RemoveAt(q, i) \in Seq(Pid) /\ q[i] \in Pid /\ pid \in Pid
    <3> SUFFICES ASSUME NEW i, NEW q \in Seq(Pid), Primera(q, pid, i)
                 PROVE  RemoveAt(q, i) \in Seq(Pid) /\ q[i] \in Pid /\ pid \in Pid
      OBVIOUS
    <3>1. i \in DOMAIN q /\ pcb[q[i]].pid = pid
      BY DEF Primera
    <3>2. RemoveAt(q, i) \in Seq(Pid) /\ q[i] \in Pid
      BY <3>1, QuitarTipo
    <3> QED
      BY <3>1, <3>2, ContextoTipo DEF TypeOK
  <2>2. /\ RecursosTypeOK' /\ cola_ready' \in Seq(Pid) /\ finalizar_en_vuelo' \in Nat
        /\ caido' \in BOOLEAN
        /\ pc' \in [Hilo -> Punto] /\ pc'["conexion"] = pc["conexion"]
        /\ fin' \in [{"consola", "conexion"} -> Fin]
    <3>1. CASE EliminarBloqueado(pid)
      <4> PICK k \in DOMAIN ListaRecursos :
            \E i \in DOMAIN bloqueados[ListaRecursos[k]] :
              /\ Primera(bloqueados[ListaRecursos[k]], pid, i)
              /\ QuitarBloqueado(ListaRecursos[k], i)
              /\ FinalizarPcb("consola", bloqueados[ListaRecursos[k]][i], pid, "menu")
        BY <3>1 DEF EliminarBloqueado
      <4> DEFINE r == ListaRecursos[k]
      <4> PICK i \in DOMAIN bloqueados[r] :
            /\ Primera(bloqueados[r], pid, i)
            /\ QuitarBloqueado(r, i)
            /\ FinalizarPcb("consola", bloqueados[r][i], pid, "menu")
        OBVIOUS
      <4>1. r \in Recurso
        BY DEF Recurso
      <4>2. bloqueados[r] \in Seq(Pid)
        BY <4>1 DEF TypeOK, RecursosTypeOK
      <4>3. RemoveAt(bloqueados[r], i) \in Seq(Pid) /\ bloqueados[r][i] \in Pid
            /\ pid \in Pid
        BY <2>1, <4>2
      <4>4. RecursosTypeOK'
        BY <4>1, <4>3 DEF QuitarBloqueado, TypeOK, RecursosTypeOK
      <4>5. FinalizarPcb("consola", bloqueados[r][i], pid, "menu")
        OBVIOUS
      <4> HIDE DEF r
      <4> QED
        BY <3>1, <4>3, <4>4, <4>5, FinalizarTipo DEF EliminarBloqueado, TypeOK, CicloTypeOK
    <3>2. CASE EliminarListo(pid)
      <4> PICK i \in DOMAIN cola_ready :
            /\ Primera(cola_ready, pid, i)
            /\ cola_ready' = RemoveAt(cola_ready, i)
            /\ FinalizarPcb("consola", cola_ready[i], pid, "menu")
        BY <3>2 DEF EliminarListo
      <4>1. cola_ready' \in Seq(Pid) /\ cola_ready[i] \in Pid /\ pid \in Pid
        BY <2>1 DEF TypeOK
      <4>2. RecursosTypeOK'
        BY <3>2, RecursosIgual DEF EliminarListo, TypeOK
      <4> QED
        BY <3>2, <4>1, <4>2, FinalizarTipo DEF EliminarListo, TypeOK, CicloTypeOK
    <3>3. CASE EliminarNulo(pid)
      <4>1. RecursosTypeOK'
        BY <3>3, RecursosIgual DEF EliminarNulo, TypeOK
      <4> QED
        BY <3>3, <4>1 DEF EliminarNulo, TypeOK, CicloTypeOK
    <3>4. CASE EliminarRunning(pid)
      <4>1. RecursosTypeOK'
        BY <3>4, RecursosIgual DEF EliminarRunning, TypeOK
      <4>2. running \in Pid /\ pcb[running].pid \in Pid
        BY <3>4, ContextoTipo DEF EliminarRunning, TypeOK
      <4>3. FinalizarPcb("consola", running, pcb[running].pid, "menu")
        BY <3>4 DEF EliminarRunning
      <4>4. finalizar_en_vuelo' \in Nat
        BY <3>4 DEF EliminarRunning, TypeOK, CicloTypeOK
      <4> QED
        BY <3>4, <4>1, <4>2, <4>3, <4>4, FinalizarTipo DEF EliminarRunning, TypeOK
    <3> QED
      BY <3>1, <3>2, <3>3, <3>4
  <2>3. CicloTypeOK'
    BY <1>4, <2>2 DEF EliminarPcb, TypeOK, CicloTypeOK, cpuVars
  <2>4. TypeOK'
    BY <1>4, <2>2, <2>3, ConfiguracionAssumption
    DEF EliminarPcb, Orden, TypeOK, semaforos, pausa
  <2> QED
    BY <1>4, <2>2, <2>4 DEF EliminarPcb, cpuVars
<1> QED
  BY <1>1, <1>2, <1>3, <1>4, <1>5 DEF Menu

(* liberar_proceso leaves a PCB and the semaphores well-typed.             *)
LEMMA LiberarTipo ==
  ASSUME pcb \in [Pid -> Pcb], sem_grado \in Nat, NEW p \in Pid, LiberarProceso(p)
  PROVE  pcb' \in [Pid -> Pcb] /\ sem_exec' \in BOOLEAN /\ sem_grado' \in Nat
<1>1. "TERMINATED" \in Estado
  BY DEF Estado
<1>2. [pcb EXCEPT ![p].estado = "TERMINATED"] \in [Pid -> Pcb]
  BY <1>1, EstadoTipo
<1>3. /\ pcb' = [pcb EXCEPT ![p].estado = "TERMINATED"]
      /\ sem_exec' = FALSE /\ sem_grado' = sem_grado + 1
  BY DEF LiberarProceso
<1>4. sem_exec' \in BOOLEAN
  BY <1>3
<1>5. pcb' \in [Pid -> Pcb] /\ sem_grado' \in Nat
  BY <1>2, <1>3
<1> QED
  BY <1>4, <1>5

(* What liberar_recursos never touches.                                    *)
LEMMA LiberarQuieto ==
  ASSUME NEW h, LiberarRecurso(h)
  PROVE  UNCHANGED <<cicloVars, algoritmo, cola_new, cola_vrr, en_io, sem_new, sem_grado,
                     sem_exec, pausa, running, consolaVars, pc, pedido>>
  BY DEF LiberarRecurso, MirarRecurso, DespertarUno, DevolverUna, colas, semaforos

(* It goes on with the same process.                                       *)
LEMMA LiberarMismo ==
  ASSUME fin \in [{"consola", "conexion"} -> Fin],
         NEW h \in {"consola", "conexion"}, LiberarRecurso(h)
  PROVE  /\ fin'[h].pcb = fin[h].pcb /\ fin'[h].pid = fin[h].pid
         /\ fin'[h].luego = fin[h].luego
         /\ \A g \in {"consola", "conexion"} : g # h => fin'[g] = fin[g]
  BY DEF LiberarRecurso, MirarRecurso, DespertarUno, DevolverUna, Fin

(* The thread is at a resource of the list, for a process.                 *)
LEMMA TipoVuelta ==
  ASSUME TypeOK, NEW h \in {"consola", "conexion"}, fin[h].i <= Len(ListaRecursos)
  PROVE  fin[h] \in Fin /\ fin[h].pid \in Pid /\ RecursoDe(h) \in Recurso
<1>1. fin[h] \in Fin
  BY DEF TypeOK
<1>2. fin[h].pid \in Pid /\ fin[h].i \in Nat \ {0}
  BY <1>1 DEF Fin
<1>3. RecursoDe(h) \in Recurso
  BY <1>2, RecursosAssumption DEF RecursoDe, Recurso
<1> QED
  BY <1>1, <1>2, <1>3

(* The steps of liberar_recursos.                                          *)
LEMMA TipoLiberar ==
  ASSUME TipoInd, NEW h \in {"consola", "conexion"}, LiberarRecurso(h)
  PROVE  TipoInd'
<1> DEFINE r == RecursoDe(h)
           p == fin[h].pid
<1>1. fin[h] \in Fin /\ p \in Pid /\ r \in Recurso
  BY TipoVuelta DEF TipoInd, LiberarRecurso, MirarRecurso, DespertarUno, DevolverUna, EnVuelta
<1>2. asignados[p][r] \in Nat /\ RecursosTypeOK /\ caido \in BOOLEAN
      /\ pcb \in [Pid -> Pcb] /\ cola_ready \in Seq(Pid) /\ sem_ready \in Nat
      /\ fin \in [{"consola", "conexion"} -> Fin]
  BY <1>1 DEF TipoInd, TypeOK, RecursosTypeOK
<1>3. UNCHANGED <<cicloVars, algoritmo, cola_new, cola_vrr, en_io, sem_new, sem_grado,
                  sem_exec, pausa, running, consolaVars, pc, pedido>>
  BY LiberarQuieto
<1>4. CicloTypeOK'
  BY <1>3, CicloIgual DEF TipoInd, TypeOK
<1> DEFINE Bien == /\ RecursosTypeOK' /\ fin' \in [{"consola", "conexion"} -> Fin]
                   /\ pcb' \in [Pid -> Pcb] /\ cola_ready' \in Seq(Pid)
                   /\ sem_ready' \in Nat
<1>5. caido' \in BOOLEAN
  BY <1>2 DEF LiberarRecurso, MirarRecurso, DespertarUno, DevolverUna, PosibleCaida
<1>6. ASSUME MirarRecurso(h) PROVE Bien
  <2> DEFINE n == asignados[p][r]
             f == IF n = 0 THEN [fin[h] EXCEPT !.i = @ + 1]
                  ELSE [fin[h] EXCEPT !.vuelta = "despertar", !.faltan = n]
  <2>1. fin' = [fin EXCEPT ![h] = f]
    BY <1>2, <1>6 DEF MirarRecurso
  <2>2. n \in Nat
    BY <1>2
  <2> HIDE DEF n
  <2>3. f \in Fin
    <3>1. CASE n = 0
      <4>1. fin[h].i + 1 \in Nat \ {0} /\ fin[h].vuelta = "mirar"
        BY <1>1, <1>6 DEF Fin, EnVuelta, MirarRecurso
      <4> QED
        BY <1>1, <3>1, <4>1 DEF Fin
    <3>2. CASE n # 0
      <4>1. n > 0
        BY <2>2, <3>2
      <4>2. f = [fin[h] EXCEPT !.vuelta = "despertar", !.faltan = n]
        BY <3>2
      <4> HIDE DEF f
      <4> QED
        BY <1>1, <2>2, <4>1, <4>2 DEF Fin
    <3> QED
      BY <3>1, <3>2
  <2> HIDE DEF f
  <2>4. fin' \in [{"consola", "conexion"} -> Fin]
    BY <1>2, <2>1, <2>3
  <2>5. RecursosTypeOK'
    BY <1>2, <1>6, RecursosIgual DEF MirarRecurso
  <2> QED
    BY <1>2, <1>6, <2>4, <2>5 DEF MirarRecurso, colas, semaforos
<1>7. ASSUME DespertarUno(h) PROVE Bien
  <2>1. Despertar(r) /\ AgregarReady(pcb, Despertados(r)) /\ EnVuelta(h, "despertar")
        /\ fin' = [fin EXCEPT ![h].vuelta = "devolver"]
        /\ UNCHANGED <<instancias, asignados>>
    BY <1>7 DEF DespertarUno
  <2>2. [fin[h] EXCEPT !.vuelta = "devolver"] \in Fin
    BY <1>1, <2>1 DEF Fin, EnVuelta
  <2>3. fin' \in [{"consola", "conexion"} -> Fin]
    BY <1>2, <2>1, <2>2
  <2> HIDE DEF r
  <2>4. RecursosTypeOK'
    BY <1>1, <1>2, <2>1, DespertarTipo DEF RecursosTypeOK
  <2>5. pcb' \in [Pid -> Pcb] /\ cola_ready' \in Seq(Pid) /\ sem_ready' \in Nat
    BY <1>1, <1>2, <2>1, DespertadosTipo, AgregarReadyTipo
  <2> QED
    BY <2>3, <2>4, <2>5
<1>8. ASSUME DevolverUna(h) PROVE Bien
  <2> DEFINE f == IF fin[h].faltan = 1
                  THEN [fin[h] EXCEPT !.i = @ + 1, !.vuelta = "mirar", !.faltan = 0]
                  ELSE [fin[h] EXCEPT !.vuelta = "despertar", !.faltan = @ - 1]
  <2>1. fin' = [fin EXCEPT ![h] = f]
    BY <1>2, <1>8 DEF DevolverUna
  <2>2. f \in Fin
    <3>1. fin[h].vuelta = "devolver"
      BY <1>8 DEF DevolverUna, EnVuelta
    <3>2. fin[h].faltan \in Nat /\ fin[h].faltan > 0 /\ fin[h].i + 1 \in Nat \ {0}
      BY <1>1, <3>1 DEF Fin
    <3>3. CASE fin[h].faltan = 1
      BY <1>1, <3>2, <3>3 DEF Fin
    <3>4. CASE fin[h].faltan # 1
      <4>1. fin[h].faltan - 1 \in Nat /\ fin[h].faltan - 1 > 0
        BY <3>2, <3>4
      <4> QED
        BY <1>1, <3>4, <4>1 DEF Fin
    <3> QED
      BY <3>3, <3>4
  <2> HIDE DEF f
  <2>3. fin' \in [{"consola", "conexion"} -> Fin]
    BY <1>2, <2>1, <2>2
  <2>4. PICK d \in Cuenta(h, r) : Devolver(p, r, d)
    BY <1>8 DEF DevolverUna
  <2>5. d \in {0, 1} /\ UNCHANGED <<bloqueados, pcb, cola_ready, sem_ready>>
    BY <1>8, CuentaTipo DEF DevolverUna, colas, semaforos
  <2> HIDE DEF r, p
  <2>6. RecursosTypeOK'
    BY <1>1, <1>2, <2>4, <2>5, DevolverTipo DEF RecursosTypeOK
  <2> QED
    BY <1>2, <2>3, <2>5, <2>6
<1>9. Bien
  BY <1>6, <1>7, <1>8 DEF LiberarRecurso
<1>10. TypeOK'
  BY <1>3, <1>4, <1>5, <1>9 DEF TipoInd, TypeOK, pausa, consolaVars
<1> QED
  BY <1>3, <1>10
  DEF TipoInd, SinDespachos, CicloConContexto, BajaPosible, cicloVars, canales, cpuVars,
      consolaVars

(* The end of finalizar_pcb, in either thread.                             *)
LEMMA TipoTerminar ==
  ASSUME TipoInd, NEW h \in {"consola", "conexion"}, TerminarProceso(h)
  PROVE  TipoInd'
<1>1. /\ fin[h] \in Fin /\ FinNulo \in Fin /\ h \in Hilo /\ pc[h] = "liberar"
      /\ fin' = [fin EXCEPT ![h] = FinNulo] /\ Ir(h, fin[h].luego)
  BY FinNuloTipo DEF TipoInd, TypeOK, TerminarProceso, Hilo
<1>2. fin[h].luego \in Punto /\ fin[h].pcb \in Pid
  BY <1>1 DEF Fin
<1>3. fin' \in [{"consola", "conexion"} -> Fin]
  BY <1>1 DEF TipoInd, TypeOK
<1>4. pc' \in [Hilo -> Punto] /\ \A g \in Hilo : g # h => pc'[g] = pc[g]
  BY <1>1, <1>2, IrTipo DEF TipoInd, TypeOK
<1>5. pcb' \in [Pid -> Pcb] /\ sem_exec' \in BOOLEAN /\ sem_grado' \in Nat
  <2>1. LiberarProceso(fin[h].pcb)
    BY DEF TerminarProceso
  <2> QED
    BY <1>2, <2>1, LiberarTipo DEF TipoInd, TypeOK, TerminarProceso
<1>6. UNCHANGED <<recursosVars, cicloVars, algoritmo, colas, sem_new, sem_ready, pausa,
                  running, consolaVars, pedido, caido>>
  BY DEF TerminarProceso
<1>7. RecursosTypeOK' /\ CicloTypeOK'
  BY <1>6, RecursosIgual, CicloIgual DEF TipoInd, TypeOK
<1>8. TypeOK'
  BY <1>3, <1>4, <1>5, <1>6, <1>7 DEF TipoInd, TypeOK, colas, pausa, consolaVars
<1>9. pc["conexion"] = "recv" => pc'["conexion"] = "recv"
  BY <1>1, <1>4 DEF Hilo
<1> QED
  BY <1>6, <1>8, <1>9
  DEF TipoInd, SinDespachos, CicloConContexto, BajaPosible, cicloVars, canales, cpuVars,
      consolaVars

(* Every step of the console outside its menu.                             *)
LEMMA TipoConsola == TipoInd /\ PasoConsola => TipoInd'
<1> SUFFICES ASSUME TipoInd, PasoConsola PROVE TipoInd'
  OBVIOUS
<1> USE DEF TipoInd, SinDespachos, CicloConContexto, BajaPosible
<1>1. CASE ConsolaArranque
  <2>1. RecursosTypeOK' /\ CicloTypeOK'
    BY <1>1, RecursosIgual, CicloIgual DEF ConsolaArranque, TypeOK
  <2>2. pc' \in [Hilo -> Punto] /\ pc'["conexion"] = pc["conexion"]
    BY <1>1, IrTipo DEF ConsolaArranque, TypeOK, Hilo, Punto
  <2>3. TypeOK'
    BY <1>1, <2>1, <2>2 DEF ConsolaArranque, TypeOK, colas, semaforos, pausa
  <2> QED
    BY <1>1, <2>2, <2>3 DEF ConsolaArranque, cicloVars, canales, cpuVars
<1>2. CASE BajarGrado
  <2>1. RecursosTypeOK' /\ CicloTypeOK'
    BY <1>2, RecursosIgual, CicloIgual DEF BajarGrado, TypeOK
  <2>2. /\ sem_grado' \in Nat /\ grado' \in Nat /\ a_bajar' \in Nat /\ a_bajar' <= grado'
        /\ pc' \in [Hilo -> Punto] /\ pc'["conexion"] = pc["conexion"]
    <3>1. CASE a_bajar = 0
      BY <1>2, <3>1, IrTipo DEF BajarGrado, TypeOK, Hilo, Punto
    <3>2. CASE a_bajar # 0
      BY <1>2, <3>2 DEF BajarGrado, TomarLugar, TypeOK
    <3> QED
      BY <3>1, <3>2
  <2>3. TypeOK'
    BY <1>2, <2>1, <2>2 DEF BajarGrado, TypeOK, colas, pausa
  <2> QED
    BY <1>2, <2>2, <2>3 DEF BajarGrado, cicloVars, canales, cpuVars
<1> QED
  BY <1>1, <1>2, TipoLiberar, TipoTerminar DEF PasoConsola

(* Every step of planificador_largo_plazo.                                 *)
LEMMA TipoLargo == TipoInd /\ PasoLargo => TipoInd'
<1> SUFFICES ASSUME TipoInd, PasoLargo PROVE TipoInd'
  OBVIOUS
<1> USE DEF TipoInd, SinDespachos, CicloConContexto, BajaPosible
<1>1. CASE LargoEspera
  <2>1. RecursosTypeOK' /\ CicloTypeOK'
    BY <1>1, RecursosIgual, CicloIgual DEF LargoEspera, TypeOK
  <2>2. sem_new' \in Nat /\ sem_grado' \in Nat
    BY <1>1 DEF LargoEspera, TomarLugar, TypeOK
  <2>3. pc' \in [Hilo -> Punto] /\ pc'["conexion"] = pc["conexion"]
    BY <1>1 DEF LargoEspera, Ir, TypeOK, Hilo, Punto
  <2>4. TypeOK'
    BY <1>1, <2>1, <2>2, <2>3 DEF LargoEspera, TypeOK, colas, pausa, consolaVars
  <2> QED
    BY <1>1, <2>3, <2>4 DEF LargoEspera, cicloVars, canales, cpuVars, consolaVars
<1>2. CASE LargoDetenido
  <2>1. RecursosTypeOK' /\ CicloTypeOK'
    BY <1>2, RecursosIgual, CicloIgual DEF LargoDetenido, TypeOK
  <2>2. pc' \in [Hilo -> Punto] /\ pc'["conexion"] = pc["conexion"]
    BY <1>2 DEF LargoDetenido, Ir, TypeOK, Hilo, Punto
  <2>3. TypeOK'
    BY <1>2, <2>1, <2>2 DEF LargoDetenido, TypeOK, colas, semaforos, consolaVars
  <2> QED
    BY <1>2, <2>2, <2>3 DEF LargoDetenido, cicloVars, canales, cpuVars, consolaVars
<1>3. CASE LargoPasa
  <2>1. RecursosTypeOK' /\ CicloTypeOK'
    BY <1>3, RecursosIgual, CicloIgual DEF LargoPasa, TypeOK
  <2>2. /\ cola_new' \in Seq(Pid) /\ cola_ready' \in Seq(Pid) /\ sem_ready' \in Nat
        /\ pcb' \in [Pid -> Pcb] /\ caido' \in BOOLEAN
    <3>1. CASE cola_new = <<>>
      BY <1>3, <3>1 DEF LargoPasa, TypeOK
    <3>2. CASE cola_new # <<>>
      <4>1. Head(cola_new) \in Pid /\ Tail(cola_new) \in Seq(Pid)
        BY <3>2, HeadTailProperties DEF TypeOK
      <4>2. <<Head(cola_new)>> \in Seq(Pid)
        BY <4>1
      <4>3. AgregarReady(pcb, <<Head(cola_new)>>) /\ cola_new' = Tail(cola_new)
            /\ UNCHANGED caido
        BY <1>3, <3>2 DEF LargoPasa
      <4>4. pcb' \in [Pid -> Pcb] /\ cola_ready' \in Seq(Pid) /\ sem_ready' \in Nat
        BY <4>2, <4>3, AgregarReadyTipo DEF TypeOK
      <4> QED
        BY <4>1, <4>3, <4>4 DEF TypeOK
    <3> QED
      BY <3>1, <3>2
  <2>3. pc' \in [Hilo -> Punto] /\ pc'["conexion"] = pc["conexion"]
    BY <1>3 DEF LargoPasa, Ir, TypeOK, Hilo, Punto
  <2>4. TypeOK'
    BY <1>3, <2>1, <2>2, <2>3 DEF LargoPasa, TypeOK, pausa, consolaVars
  <2> QED
    BY <1>3, <2>3, <2>4 DEF LargoPasa, cicloVars, canales, cpuVars, consolaVars
<1> QED
  BY <1>1, <1>2, <1>3 DEF PasoLargo

(* A PCB goes to the CPU.                                                  *)
LEMMA EnviarTipo ==
  ASSUME pcb \in [Pid -> Pcb], dispatch \in Seq(Despacho), NEW p \in Pid,
         NEW q \in BOOLEAN, EnviarPcb(p, q)
  PROVE  dispatch' \in Seq(Despacho) /\ dispatch' # <<>>
<1>1. [pid |-> pcb[p].pid, pc |-> pcb[p].pc] \in Contexto
  BY ContextoTipo
<1>2. [ctx |-> [pid |-> pcb[p].pid, pc |-> pcb[p].pc], con_quantum |-> q] \in Despacho
  BY <1>1 DEF Despacho
<1> QED
  BY <1>2 DEF EnviarPcb

(* What enviar_por_dispatch puts on the wire is a context.                 *)
LEMMA DespacharTipo ==
  ASSUME TypeOK, NEW p \in Pid, EnviarPorDispatch(p)
  PROVE  /\ pcb' \in [Pid -> Pcb] /\ running' \in Pid
         /\ dispatch' \in Seq(Despacho) /\ dispatch' # <<>>
         /\ relojes' \in [Pid -> Nat]
         /\ pc' \in [Hilo -> Punto]
<1>1. pcb \in [Pid -> Pcb] /\ "RUNNING" \in Estado
  BY DEF TypeOK, Estado
<1>2. pcb' \in [Pid -> Pcb]
  BY <1>1, EstadoTipo DEF EnviarPorDispatch
<1>3. dispatch' \in Seq(Despacho) /\ dispatch' # <<>>
  <2>1. EnviarPcb(p, ConQuantum) /\ ConQuantum \in BOOLEAN
    BY DEF EnviarPorDispatch, ConQuantum
  <2> QED
    BY <2>1, <1>1, EnviarTipo DEF TypeOK, CicloTypeOK
<1>4. relojes' \in [Pid -> Nat]
  <2> DEFINE x == pcb[p].pid
  <2>1. x \in Pid /\ relojes \in [Pid -> Nat]
    BY <1>1, ContextoTipo DEF TypeOK, CicloTypeOK
  <2>2. relojes' = [relojes EXCEPT ![x] = IF ConQuantum THEN @ + 1 ELSE @]
    BY DEF EnviarPorDispatch
  <2> HIDE DEF x
  <2> QED
    BY <2>1, <2>2
<1>5. pc' \in [Hilo -> Punto]
  BY DEF EnviarPorDispatch, Ir, TypeOK, Hilo, Punto
<1> QED
  BY <1>2, <1>3, <1>4, <1>5 DEF EnviarPorDispatch

(* Every step of planificador_corto_plazo.                                 *)
LEMMA TipoCorto == TipoInd /\ PasoCorto => TipoInd'
<1> SUFFICES ASSUME TipoInd, PasoCorto PROVE TipoInd'
  OBVIOUS
<1> USE DEF TipoInd, SinDespachos, CicloConContexto, BajaPosible
<1>1. CASE CortoEspera
  <2>0. UNCHANGED <<recursosVars, cicloVars>>
    BY <1>1 DEF CortoEspera
  <2>1. RecursosTypeOK' /\ CicloTypeOK'
    BY <2>0, RecursosIgual, CicloIgual DEF TypeOK
  <2>2. sem_ready' \in Nat
    BY <1>1 DEF CortoEspera, TypeOK
  <2>5. sem_exec' \in BOOLEAN
    BY <1>1, Zenon DEF CortoEspera, TypeOK
  <2>3. pc' \in [Hilo -> Punto] /\ pc'["conexion"] = pc["conexion"]
    BY <1>1 DEF CortoEspera, Ir, TypeOK, Hilo, Punto
  <2>4. TypeOK'
    BY <1>1, <2>1, <2>2, <2>3, <2>5 DEF CortoEspera, TypeOK, colas, pausa, consolaVars
  <2> QED
    BY <1>1, <2>3, <2>4 DEF CortoEspera, cicloVars, canales, cpuVars, consolaVars
<1>2. CASE CortoDetenido
  <2>1. RecursosTypeOK' /\ CicloTypeOK'
    BY <1>2, RecursosIgual, CicloIgual DEF CortoDetenido, TypeOK
  <2>2. pc' \in [Hilo -> Punto] /\ pc'["conexion"] = pc["conexion"]
    BY <1>2 DEF CortoDetenido, Ir, TypeOK, Hilo, Punto
  <2>3. TypeOK'
    BY <1>2, <2>1, <2>2 DEF CortoDetenido, TypeOK, colas, semaforos, consolaVars
  <2> QED
    BY <1>2, <2>2, <2>3 DEF CortoDetenido, cicloVars, canales, cpuVars, consolaVars
<1>3. CASE CortoDespacha
  <2>1. UNCHANGED <<recursosVars, script, respuestas, cpuVars, finalizar_en_vuelo,
                    algoritmo, cola_new, en_io, semaforos, sem_exec, pausa,
                    consolaVars, pedido, fin>>
    BY <1>3 DEF CortoDespacha
  <2>2. \/ DespachaNulo
        \/ /\ running' \in Pid /\ pcb' \in [Pid -> Pcb]
           /\ dispatch' \in Seq(Despacho) /\ dispatch' # <<>>
           /\ relojes' \in [Pid -> Nat]
           /\ pc' \in [Hilo -> Punto] /\ UNCHANGED caido
           /\ cola_ready' \in Seq(Pid) /\ cola_vrr' \in Seq(Pid)
    <3>1. CASE DespachaVrr
      <4>1. Head(cola_vrr) \in Pid /\ Tail(cola_vrr) \in Seq(Pid)
        BY <3>1, HeadTailProperties DEF DespachaVrr, TypeOK
      <4> QED
        BY <3>1, <4>1, DespacharTipo DEF DespachaVrr, TypeOK
    <3>2. CASE DespachaReady
      <4>1. Head(cola_ready) \in Pid /\ Tail(cola_ready) \in Seq(Pid)
        BY <3>2, HeadTailProperties DEF DespachaReady, TypeOK
      <4> QED
        BY <3>2, <4>1, DespacharTipo DEF DespachaReady, TypeOK
    <3> QED
      BY <1>3, <3>1, <3>2 DEF CortoDespacha
  <2>3. /\ running' \in Pid \cup {NADIE} /\ pcb' \in [Pid -> Pcb]
        /\ dispatch' \in Seq(Despacho) /\ relojes' \in [Pid -> Nat]
        /\ pc' \in [Hilo -> Punto] /\ caido' \in BOOLEAN
        /\ cola_ready' \in Seq(Pid) /\ cola_vrr' \in Seq(Pid)
    BY <2>2 DEF DespachaNulo, TypeOK, CicloTypeOK
  <2>4. RecursosTypeOK'
    BY <2>1, RecursosIgual DEF TypeOK
  <2>5. CicloTypeOK'
    BY <2>1, <2>3 DEF TypeOK, CicloTypeOK, cpuVars
  <2>6. TypeOK'
    BY <2>1, <2>3, <2>4, <2>5 DEF TypeOK, semaforos, pausa, consolaVars
  <2>7. SinDespachos'
    BY <2>1, <2>2, NadieAssumption DEF DespachaNulo, cpuVars
  <2>8. CicloConContexto'
    BY <2>1, <2>2 DEF DespachaNulo, cpuVars
  <2> QED
    BY <2>1, <2>6, <2>7, <2>8 DEF consolaVars
<1> QED
  BY <1>1, <1>2, <1>3 DEF PasoCorto

-----------------------------------------------------------------------------
(* The CPU.                                                                *)

(* The instruction under the program counter.                              *)
LEMMA LeidaTipo ==
  ASSUME CicloTypeOK, cpu_pcb \in Contexto, cpu_pcb.pc + 1 \in DOMAIN Archivo
  PROVE  Leida \in Instruccion
<1>1. script[cpu_pcb.pid] \in Script
  BY DEF CicloTypeOK, Contexto
<1>2. Archivo \in Seq(Instruccion)
  BY <1>1, CodigoAssumption DEF Archivo
<1> QED
  BY <1>2, ElementOfSeq, LenProperties DEF Leida

(* What the CPU answers is a request with a context.                       *)
LEMMA ResponderTipo ==
  ASSUME CicloTypeOK, NEW op, NEW arg, NEW ctx \in Contexto,
         [op |-> op, arg |-> arg, ctx |-> ctx] \in Respuesta,
         Responder(op, arg, ctx), hay_desalojo' \in BOOLEAN
  PROVE  CicloTypeOK' /\ cpu_estado' = "ocioso" /\ UNCHANGED dispatch
<1>1. respuestas' \in Seq(Respuesta)
  BY DEF Responder, CicloTypeOK
<1> QED
  BY <1>1 DEF Responder, CicloTypeOK

(* Every step of the CPU keeps its types and never leaves a cycle without  *)
(* a context.                                                              *)
LEMMA TipoCpuPaso ==
  ASSUME CicloTypeOK, CicloConContexto, CpuPaso
  PROVE  CicloTypeOK' /\ CicloConContexto'
<1>1. CASE CpuRecibe
  <2>1. Head(dispatch) \in Despacho
    BY <1>1, HeadTailProperties DEF CpuRecibe, CicloTypeOK
  <2>2. cpu_pcb' \in Contexto
    BY <1>1, <2>1 DEF CpuRecibe, Despacho
  <2>3. CicloTypeOK'
    BY <1>1, <2>2 DEF CpuRecibe, CicloTypeOK, canales
  <2>4. CicloConContexto'
    BY <1>1, <2>2, NadieAssumption DEF CpuRecibe, CicloConContexto, canales
  <2> QED
    BY <2>3, <2>4
<1>2. CASE CpuBajaBanderas
  <2>1. dispatch' \in Seq(Despacho)
    BY <1>2, HeadTailProperties DEF CpuBajaBanderas, CicloTypeOK, CicloConContexto
  <2> QED
    BY <1>2, <2>1 DEF CpuBajaBanderas, CicloTypeOK, CicloConContexto
<1>3. CASE cpu_estado = "ciclo" /\ ~CpuRecibe /\ ~CpuBajaBanderas
  <2>1. cpu_pcb \in Contexto
    BY <1>3 DEF CicloTypeOK, CicloConContexto
  <2>2. CASE CpuFinaliza \/ CpuDesaloja
    <3>1. PICK op \in {"ENVIAR_FINALIZAR", "ENVIAR_DESALOJAR"} : Responder(op, "-", cpu_pcb)
      BY <2>2 DEF CpuFinaliza, CpuDesaloja
    <3>2. [op |-> op, arg |-> "-", ctx |-> cpu_pcb] \in Respuesta
      BY <2>1 DEF Respuesta
    <3>3. hay_desalojo' \in BOOLEAN
      BY <2>2 DEF CpuFinaliza, CpuDesaloja, CicloTypeOK
    <3> QED
      BY <2>1, <3>1, <3>2, <3>3, ResponderTipo DEF CicloConContexto
  <2>3. CASE CpuInstruccion
    <3>1. Leida \in Instruccion
      BY <2>1, <2>3, LeidaTipo
      DEF CpuInstruccion, CpuCalcula, CpuSalta, CpuPide, CpuTermina, EnFetch
    <3>2. Avanzado \in Contexto /\ [cpu_pcb EXCEPT !.pc = Leida.destino] \in Contexto
          /\ Leida.arg \in Operando
      BY <2>1, <3>1 DEF Avanzado, Contexto, Instruccion
    <3>3. CASE CpuCalcula \/ CpuSalta
      <4>1. PICK ctx \in Contexto : Seguir(ctx)
        BY <3>2, <3>3 DEF CpuCalcula, CpuSalta
      <4> QED
        BY <4>1, NadieAssumption DEF Seguir, CicloTypeOK, CicloConContexto, canales
    <3>4. CASE CpuPide
      <4>1. PICK op \in Pedidos : Responder(op, Leida.arg, Avanzado)
        BY <3>4 DEF CpuPide, Pedidos
      <4>2. [op |-> op, arg |-> Leida.arg, ctx |-> Avanzado] \in Respuesta
        BY <3>2 DEF Respuesta
      <4>3. hay_desalojo' \in BOOLEAN
        BY <3>4 DEF CpuPide, CicloTypeOK
      <4> QED
        BY <3>2, <4>1, <4>2, <4>3, ResponderTipo DEF CicloConContexto
    <3>5. CASE CpuTermina
      <4>1. [op |-> "FINALIZAR", arg |-> "-", ctx |-> Avanzado] \in Respuesta
        BY <3>2 DEF Respuesta
      <4> QED
        BY <3>2, <3>5, <4>1, ResponderTipo DEF CpuTermina, CicloConContexto
    <3> QED
      BY <2>3, <3>3, <3>4, <3>5 DEF CpuInstruccion
  <2> QED
    BY <1>3, <2>2, <2>3 DEF CpuPaso
<1> QED
  BY <1>1, <1>2, <1>3
  DEF CpuPaso, CpuFinaliza, CpuDesaloja, CpuInstruccion, CpuCalcula, CpuSalta, CpuPide,
      CpuTermina, EnFetch

-----------------------------------------------------------------------------
(* The connection thread.                                                  *)
LEMMA RestoTipo ==
  ASSUME NEW f \in [Pid -> Pcb], NEW p \in Pid, NEW b \in BOOLEAN
  PROVE  [f EXCEPT ![p].resto = b] \in [Pid -> Pcb]
<1>1. [f[p] EXCEPT !.resto = b] \in Pcb
  BY DEF Pcb
<1> QED
  BY <1>1

(* A rewound program counter is still an integer.                          *)
LEMMA PcTipo ==
  ASSUME NEW f \in [Pid -> Pcb], NEW p \in Pid, NEW n \in Int
  PROVE  [f EXCEPT ![p].pc = n] \in [Pid -> Pcb]
<1>1. [f[p] EXCEPT !.pc = n] \in Pcb
  BY DEF Pcb
<1> QED
  BY <1>1

(* The connection thread takes an answer of the CPU.                       *)
LEMMA TipoConexionRecibe ==
  ASSUME TipoInd, ConexionRecibe
  PROVE  TipoInd'
<1> DEFINE m == Head(respuestas)
<1>1. m \in Respuesta /\ respuestas' \in Seq(Respuesta)
  BY HeadTailProperties DEF ConexionRecibe, TipoInd, TypeOK, CicloTypeOK
<1>2. m.ctx \in Contexto /\ m.ctx.pid \in Pid
  BY <1>1 DEF Respuesta, Contexto
<1>3. running \in Pid
  BY DEF ConexionRecibe, TipoInd, SinDespachos, TypeOK
<1>4. ConContexto(running, m.ctx) \in [Pid -> Pcb]
  BY <1>2, <1>3, ContextoTipo DEF TipoInd, TypeOK
<1>5. /\ pcb' \in [Pid -> Pcb] /\ cola_ready' \in Seq(Pid) /\ sem_ready' \in Nat
      /\ sem_exec' \in BOOLEAN /\ pedido' \in Respuesta \cup {NADIE}
      /\ pc' \in [Hilo -> Punto] /\ fin' \in [{"consola", "conexion"} -> Fin]
  <2>1. CASE RecibirPedido
    <3>1. pc' \in [Hilo -> Punto]
      BY <2>1 DEF RecibirPedido, Ir, TipoInd, TypeOK, Hilo, Punto
    <3>2. pcb' \in [Pid -> Pcb] /\ pedido' \in Respuesta
      BY <2>1, <1>1, <1>4 DEF RecibirPedido
    <3> QED
      BY <2>1, <3>1, <3>2 DEF RecibirPedido, TipoInd, TypeOK
  <2>2. CASE RecibirDesalojo
    <3> DEFINE f == [ConContexto(running, m.ctx) EXCEPT ![running].resto = FALSE]
    <3>1. f \in [Pid -> Pcb]
      BY <1>3, <1>4, RestoTipo
    <3>2. AgregarReady(f, <<running>>) /\ <<running>> \in Seq(Pid)
      BY <2>2, <1>3 DEF RecibirDesalojo
    <3> HIDE DEF f
    <3>3. pcb' \in [Pid -> Pcb] /\ cola_ready' \in Seq(Pid) /\ sem_ready' \in Nat
      BY <3>1, <3>2, AgregarReadyTipo DEF TipoInd, TypeOK
    <3>4. sem_exec' \in BOOLEAN
      BY <2>2 DEF RecibirDesalojo
    <3> QED
      BY <2>2, <3>3, <3>4 DEF RecibirDesalojo, TipoInd, TypeOK
  <2>3. CASE RecibirFinalizado
    <3>1. pcb' \in [Pid -> Pcb]
      BY <2>3, <1>4 DEF RecibirFinalizado
    <3> QED
      BY <2>3, <3>1 DEF RecibirFinalizado, TipoInd, TypeOK
  <2>4. CASE RecibirFin
    <3>1. pcb' \in [Pid -> Pcb]
      BY <2>4, <1>4 DEF RecibirFin
    <3>2. FinalizarPcb("conexion", running, m.ctx.pid, "recv")
      BY <2>4 DEF RecibirFin
    <3>3. pc' \in [Hilo -> Punto] /\ fin' \in [{"consola", "conexion"} -> Fin]
      BY <1>2, <1>3, <3>2, FinalizarTipo DEF TipoInd
    <3> QED
      BY <2>4, <3>1, <3>3 DEF RecibirFin, TipoInd, TypeOK
  <2> QED
    BY <2>1, <2>2, <2>3, <2>4 DEF ConexionRecibe
<1>6. UNCHANGED <<recursosVars, script, dispatch, cpuVars, relojes, finalizar_en_vuelo,
                  algoritmo, cola_new, cola_vrr, en_io, sem_new, sem_grado, pausa,
                  running, consolaVars, caido>>
  BY DEF ConexionRecibe
<1>7. RecursosTypeOK'
  BY <1>6, RecursosIgual DEF TipoInd, TypeOK
<1>8. CicloTypeOK'
  BY <1>1, <1>6 DEF TipoInd, TypeOK, CicloTypeOK, cpuVars
<1>9. TypeOK'
  BY <1>5, <1>6, <1>7, <1>8 DEF TipoInd, TypeOK, pausa, consolaVars
<1> QED
  BY <1>3, <1>6, <1>9, NadieAssumption
  DEF TipoInd, SinDespachos, CicloConContexto, BajaPosible, cpuVars, consolaVars

(* An operation of an interface, or the end of the process that asked one  *)
(* that is not there.                                                      *)
LEMMA EjecutarIOTipo ==
  ASSUME TypeOK, NEW p \in Pid, NEW luego \in {"recv", "soltar"}, EjecutarIO(p, luego)
  PROVE  /\ pcb' \in [Pid -> Pcb] /\ en_io' \in [Pid -> Nat]
         /\ pc' \in [Hilo -> Punto] /\ fin' \in [{"consola", "conexion"} -> Fin]
<1>1. CASE pedido.arg \in Interfaz
  <2> PICK queda \in BOOLEAN :
        pcb' = [pcb EXCEPT ![p].estado = "WAITING", ![p].resto = queda]
    BY <1>1 DEF EjecutarIO
  <2> DEFINE f == [pcb EXCEPT ![p].estado = "WAITING"]
  <2>1. f \in [Pid -> Pcb]
    <3>1. "WAITING" \in Estado /\ pcb \in [Pid -> Pcb]
      BY DEF Estado, TypeOK
    <3> QED
      BY <3>1, EstadoTipo
  <2>2. pcb' = [f EXCEPT ![p].resto = queda]
    OBVIOUS
  <2>3. pcb' \in [Pid -> Pcb]
    <3> HIDE DEF f
    <3>1. [f EXCEPT ![p].resto = queda] \in [Pid -> Pcb]
      BY <2>1, RestoTipo
    <3> QED
      BY <2>2, <3>1
  <2>4. Ir("conexion", luego) /\ "conexion" \in Hilo /\ luego \in Punto
    BY <1>1 DEF EjecutarIO, Hilo, Punto
  <2>5. en_io' \in [Pid -> Nat]
    <3>1. en_io \in [Pid -> Nat] /\ en_io' = [en_io EXCEPT ![p] = @ + 1]
      BY <1>1 DEF EjecutarIO, TypeOK
    <3> QED
      BY <3>1
  <2>6. fin' \in [{"consola", "conexion"} -> Fin]
    BY <1>1, FinNuloTipo DEF EjecutarIO, TypeOK
  <2> QED
    BY <2>3, <2>4, <2>5, <2>6, IrTipo DEF TypeOK
<1>2. CASE pedido.arg \notin Interfaz
  <2>1. FinalizarPcb("conexion", p, pcb[p].pid, luego) /\ UNCHANGED <<pcb, en_io>>
    BY <1>2 DEF EjecutarIO
  <2>2. pcb[p].pid \in Pid
    BY ContextoTipo DEF TypeOK
  <2> QED
    BY <2>1, <2>2, FinalizarTipo DEF TypeOK
<1> QED
  BY <1>1, <1>2

(* The connection thread serves a request.                                 *)
LEMMA TipoConexionAtiende ==
  ASSUME TipoInd, ConexionAtiende
  PROVE  TipoInd'
<1> DEFINE p == running
           pid == pcb[running].pid
           r == pedido.arg
           Tipos == /\ RecursosTypeOK'
                    /\ pcb' \in [Pid -> Pcb] /\ cola_ready' \in Seq(Pid)
                    /\ en_io' \in [Pid -> Nat] /\ sem_ready' \in Nat
                    /\ sem_grado' \in Nat
                    /\ pc' \in [Hilo -> Punto]
                    /\ fin' \in [{"consola", "conexion"} -> Fin]
                    /\ dispatch' \in Seq(Despacho)
                    /\ dispatch # <<>> => dispatch' # <<>>
           Booleanos == sem_exec' \in BOOLEAN /\ caido' \in BOOLEAN
<1>1. p \in Pid /\ pid \in Pid
  <2>1. running \in Pid
    BY DEF ConexionAtiende, TipoInd, SinDespachos, TypeOK
  <2> QED
    BY <2>1, ContextoTipo DEF TipoInd, TypeOK
<1>2. TypeOK /\ RecursosTypeOK /\ pcb \in [Pid -> Pcb] /\ dispatch \in Seq(Despacho)
      /\ cola_ready \in Seq(Pid) /\ sem_ready \in Nat /\ sem_grado \in Nat
      /\ pc \in [Hilo -> Punto] /\ fin \in [{"consola", "conexion"} -> Fin]
      /\ en_io \in [Pid -> Nat] /\ sem_exec \in BOOLEAN /\ caido \in BOOLEAN
  BY DEF TipoInd, TypeOK, CicloTypeOK
<1>3. ASSUME EjecutarWait PROVE Tipos /\ Booleanos
  <2>1. r \in Recurso /\ Ir("conexion", "recv")
        /\ UNCHANGED <<cola_ready, en_io, sem_ready, sem_grado, fin, caido>>
    BY <1>3 DEF EjecutarWait
  <2>2. pc' \in [Hilo -> Punto]
    BY <2>1, <1>2, IrTipo DEF Hilo, Punto
  <2>3. CASE instancias[r] > 0
    <3>1. /\ \E d \in Cuenta("conexion", r) : Otorgar(pid, r, d)
          /\ EnviarPcb(p, FALSE) /\ UNCHANGED <<bloqueados, pcb, sem_exec>>
      BY <1>3, <2>3 DEF EjecutarWait, Conceder
    <3>2. RecursosTypeOK'
      <4>1. PICK d \in Cuenta("conexion", r) : Otorgar(pid, r, d)
        BY <3>1
      <4>2. d \in {0, 1}
        BY CuentaTipo
      <4>3. instancias' \in [Recurso -> Nat] /\ asignados' \in [Pid -> [Recurso -> Nat]]
        BY <1>1, <1>2, <2>1, <2>3, <4>1, <4>2, OtorgarTipo
      <4> QED
        BY <1>2, <3>1, <4>3 DEF RecursosTypeOK
    <3>3. dispatch' \in Seq(Despacho) /\ dispatch' # <<>>
      BY <1>1, <1>2, <3>1, EnviarTipo
    <3>4. Tipos
      BY <1>2, <2>1, <2>2, <3>1, <3>2, <3>3
    <3>5. Booleanos
      BY <1>2, <2>1, <2>2, <3>1, <3>2, <3>3
    <3> QED
      BY <3>4, <3>5
  <2>4. CASE ~(instancias[r] > 0)
    <3>1. /\ Encolar(p, r) /\ sem_exec' = FALSE /\ UNCHANGED dispatch
          /\ pcb' = [pcb EXCEPT ![p].estado = "WAITING", ![p].pc = @ - 1]
      BY <1>3, <2>4 DEF EjecutarWait, Bloquear
    <3>2. RecursosTypeOK'
      BY <1>1, <1>2, <2>1, <3>1 DEF Encolar, RecursosTypeOK
    <3>3. pcb' \in [Pid -> Pcb]
      <4> DEFINE f == [pcb EXCEPT ![p].estado = "WAITING"]
      <4>1. f \in [Pid -> Pcb]
        BY <1>1, <1>2, EstadoTipo DEF Estado
      <4>2. pcb' = [f EXCEPT ![p].pc = @ - 1]
        BY <3>1
      <4> HIDE DEF f
      <4>3. f[p].pc - 1 \in Int
        BY <1>1, <4>1 DEF Pcb
      <4>4. pcb' = [f EXCEPT ![p].pc = f[p].pc - 1]
        BY <4>2
      <4> QED
        BY <1>1, <4>1, <4>3, <4>4, PcTipo
    <3>4. sem_exec' \in BOOLEAN
      BY <3>1
    <3>5. Tipos
      BY <1>2, <2>1, <2>2, <3>1, <3>2, <3>3, <3>4
    <3>6. Booleanos
      BY <1>2, <2>1, <2>2, <3>1, <3>2, <3>3, <3>4
    <3> QED
      BY <3>5, <3>6
  <2> QED
    BY <2>3, <2>4
<1>4. ASSUME EjecutarSignal PROVE Tipos /\ Booleanos
  <2>1. /\ r \in Recurso /\ Despertar(r)
        /\ \E d \in Cuenta("conexion", r) : Devolver(pid, r, d)
        /\ caido' \in PosibleCaida(pid, r) /\ EnviarPcb(p, FALSE)
        /\ AgregarReady(pcb, Despertados(r)) /\ Ir("conexion", "recv")
        /\ UNCHANGED <<en_io, sem_grado, sem_exec, fin>>
    BY <1>4 DEF EjecutarSignal
  <2>2. RecursosTypeOK'
    <3>1. PICK d \in Cuenta("conexion", r) : Devolver(pid, r, d)
      BY <2>1
    <3>2. d \in {0, 1}
      BY CuentaTipo
    <3>3. instancias' \in [Recurso -> Nat] /\ asignados' \in [Pid -> [Recurso -> Nat]]
      BY <1>1, <1>2, <2>1, <3>1, <3>2, DevolverTipo
    <3>4. bloqueados' \in [Recurso -> Seq(Pid)]
      BY <1>2, <2>1, DespertarTipo
    <3> QED
      BY <3>3, <3>4 DEF RecursosTypeOK
  <2>3. pcb' \in [Pid -> Pcb] /\ cola_ready' \in Seq(Pid) /\ sem_ready' \in Nat
    <3>1. Despertados(r) \in Seq(Pid)
      BY <1>2, <2>1, DespertadosTipo
    <3> QED
      BY <1>2, <2>1, <3>1, AgregarReadyTipo
  <2>4. pc' \in [Hilo -> Punto]
    BY <1>2, <2>1, IrTipo DEF Hilo, Punto
  <2>5. dispatch' \in Seq(Despacho) /\ dispatch' # <<>>
    BY <1>1, <1>2, <2>1, EnviarTipo
  <2>6. caido' \in BOOLEAN
    BY <2>1 DEF PosibleCaida
  <2>7. Tipos
    BY <1>2, <2>1, <2>2, <2>3, <2>4, <2>5, <2>6
  <2>8. Booleanos
    BY <1>2, <2>1, <2>2, <2>3, <2>4, <2>5, <2>6
  <2> QED
    BY <2>7, <2>8
<1>5. ASSUME RecursoInvalido PROVE Tipos /\ Booleanos
  <2>1. /\ LiberarProceso(p) /\ Ir("conexion", "devolver")
        /\ fin' = [fin EXCEPT !["conexion"] = LiberarDesde(1, p, pid, "recv")]
        /\ UNCHANGED <<recursosVars, dispatch, cola_ready, en_io, sem_ready, caido>>
    BY <1>5 DEF RecursoInvalido
  <2>2. RecursosTypeOK'
    BY <1>2, <2>1, RecursosIgual
  <2>3. pcb' \in [Pid -> Pcb] /\ sem_exec' \in BOOLEAN /\ sem_grado' \in Nat
    BY <1>1, <1>2, <2>1, LiberarTipo
  <2>4. fin' \in [{"consola", "conexion"} -> Fin]
    <3>1. LiberarDesde(1, p, pid, "recv") \in Fin
      BY <1>1 DEF LiberarDesde, Fin, Punto
    <3> QED
      BY <1>2, <2>1, <3>1
  <2>5. pc' \in [Hilo -> Punto]
    BY <1>2, <2>1, IrTipo DEF Hilo, Punto
  <2>6. Tipos
    BY <1>2, <2>1, <2>2, <2>3, <2>4, <2>5
  <2>7. Booleanos
    BY <1>2, <2>1, <2>2, <2>3, <2>4, <2>5
  <2> QED
    BY <2>6, <2>7
<1>6. ASSUME SinMemoria PROVE Tipos /\ Booleanos
  <2>1. /\ FinalizarPcb("conexion", p, pid, "soltar")
        /\ UNCHANGED <<recursosVars, dispatch, pcb, cola_ready, en_io, sem_ready,
                       sem_grado, sem_exec, caido>>
    BY <1>6 DEF SinMemoria
  <2>2. RecursosTypeOK'
    BY <1>2, <2>1, RecursosIgual
  <2>3. pc' \in [Hilo -> Punto] /\ fin' \in [{"consola", "conexion"} -> Fin]
    BY <1>1, <1>2, <2>1, FinalizarTipo
  <2>4. Tipos
    BY <1>2, <2>1, <2>2, <2>3
  <2>5. Booleanos
    BY <1>2, <2>1, <2>2, <2>3
  <2> QED
    BY <2>4, <2>5
<1>7. ASSUME IoSleep PROVE Tipos /\ Booleanos
  <2>1. /\ EjecutarIO(p, "soltar")
        /\ UNCHANGED <<recursosVars, dispatch, cola_ready, sem_ready, sem_grado,
                       sem_exec, caido>>
    BY <1>7 DEF IoSleep
  <2>2. RecursosTypeOK'
    BY <1>2, <2>1, RecursosIgual
  <2>3. /\ pcb' \in [Pid -> Pcb] /\ en_io' \in [Pid -> Nat]
        /\ pc' \in [Hilo -> Punto] /\ fin' \in [{"consola", "conexion"} -> Fin]
    BY <1>1, <1>2, <2>1, EjecutarIOTipo
  <2>4. Tipos
    BY <1>2, <2>1, <2>2, <2>3
  <2>5. Booleanos
    BY <1>2, <2>1, <2>2, <2>3
  <2> QED
    BY <2>4, <2>5
<1>8. ASSUME IoSuelta PROVE Tipos /\ Booleanos
  <2>1. /\ sem_exec' = FALSE /\ fin' = [fin EXCEPT !["conexion"].pcb = p]
        /\ Ir("conexion", "bloquear")
        /\ UNCHANGED <<recursosVars, dispatch, pcb, cola_ready, en_io, sem_ready,
                       sem_grado, caido>>
    BY <1>8 DEF IoSuelta
  <2>2. RecursosTypeOK'
    BY <1>2, <2>1, RecursosIgual
  <2>3. fin' \in [{"consola", "conexion"} -> Fin]
    <3>1. [fin["conexion"] EXCEPT !.pcb = p] \in Fin
      BY <1>1, <1>2 DEF Fin
    <3> QED
      BY <1>2, <2>1, <3>1
  <2>4. pc' \in [Hilo -> Punto]
    BY <1>2, <2>1, IrTipo DEF Hilo, Punto
  <2>5. sem_exec' \in BOOLEAN
    BY <2>1
  <2>6. Tipos
    BY <1>2, <2>1, <2>2, <2>3, <2>4, <2>5
  <2>7. Booleanos
    BY <1>2, <2>1, <2>2, <2>3, <2>4, <2>5
  <2> QED
    BY <2>6, <2>7
<1> HIDE DEF Tipos, Booleanos
<1>9. Tipos /\ Booleanos
  BY <1>3, <1>4, <1>5, <1>6, <1>7, <1>8 DEF ConexionAtiende
<1>10. UNCHANGED <<script, respuestas, cpuVars, relojes, finalizar_en_vuelo, algoritmo,
                   cola_new, cola_vrr, sem_new, pausa, running, consolaVars>>
  BY DEF ConexionAtiende
<1>11. pedido' \in Respuesta \cup {NADIE}
  BY DEF ConexionAtiende, TipoInd, TypeOK
<1>12. CicloTypeOK'
  BY <1>9, <1>10 DEF Tipos, TipoInd, TypeOK, CicloTypeOK, cpuVars
<1>13. TypeOK'
  BY <1>9, <1>10, <1>11, <1>12 DEF Tipos, Booleanos, TipoInd, TypeOK, pausa, consolaVars
<1>14. CicloConContexto'
  BY <1>9, <1>10 DEF Tipos, TipoInd, CicloConContexto, cpuVars
<1>15. running' # NADIE
  BY <1>1, <1>10, NadieAssumption
<1> QED
  BY <1>10, <1>13, <1>14, <1>15 DEF TipoInd, SinDespachos, BajaPosible, consolaVars

(* Every step of the connection thread.                                    *)
LEMMA TipoConexion == TipoInd /\ PasoConexion => TipoInd'
<1> SUFFICES ASSUME TipoInd, PasoConexion PROVE TipoInd'
  OBVIOUS
<1> USE DEF TipoInd, SinDespachos, CicloConContexto, BajaPosible
<1>1. CASE ConexionDetenida
  <2>1. UNCHANGED <<recursosVars, cicloVars>>
    BY <1>1 DEF ConexionDetenida
  <2>2. RecursosTypeOK' /\ CicloTypeOK'
    BY <2>1, RecursosIgual, CicloIgual DEF TypeOK
  <2>3. pc' \in [Hilo -> Punto] /\ pc["conexion"] # "recv"
    BY <1>1 DEF ConexionDetenida, Ir, TypeOK, Hilo, Punto
  <2>4. TypeOK'
    BY <1>1, <2>2, <2>3 DEF ConexionDetenida, TypeOK, colas, semaforos, consolaVars
  <2> QED
    BY <1>1, <2>1, <2>3, <2>4 DEF ConexionDetenida, cicloVars, canales, cpuVars, consolaVars
<1>2. CASE ConexionBloquea
  <2>1. UNCHANGED <<recursosVars, cicloVars>>
    BY <1>2 DEF ConexionBloquea
  <2>2. RecursosTypeOK' /\ CicloTypeOK'
    BY <2>1, RecursosIgual, CicloIgual DEF TypeOK
  <2>3. running \in Pid /\ fin["conexion"].pcb \in Pid /\ TypeOK
    BY <1>2 DEF ConexionBloquea, TypeOK, Fin
  <2>4. /\ pcb' \in [Pid -> Pcb] /\ en_io' \in [Pid -> Nat]
        /\ pc' \in [Hilo -> Punto] /\ fin' \in [{"consola", "conexion"} -> Fin]
    <3>1. EjecutarIO(IF pedido.op = "IO_STD" THEN fin["conexion"].pcb ELSE running, "recv")
      BY <1>2 DEF ConexionBloquea
    <3>2. (IF pedido.op = "IO_STD" THEN fin["conexion"].pcb ELSE running) \in Pid
      BY <2>3
    <3> QED
      BY <2>3, <3>1, <3>2, EjecutarIOTipo
  <2>5. TypeOK'
    BY <1>2, <2>2, <2>4 DEF ConexionBloquea, TypeOK, semaforos, pausa, consolaVars
  <2>6. running' # NADIE
    BY <1>2, <2>3, NadieAssumption DEF ConexionBloquea
  <2> QED
    BY <1>2, <2>1, <2>5, <2>6
    DEF ConexionBloquea, cicloVars, canales, cpuVars, consolaVars
<1>3. CASE ConexionSuelta
  <2>1. UNCHANGED <<recursosVars, cicloVars>>
    BY <1>3 DEF ConexionSuelta
  <2>2. RecursosTypeOK' /\ CicloTypeOK'
    BY <2>1, RecursosIgual, CicloIgual DEF TypeOK
  <2>3. pc' \in [Hilo -> Punto] /\ pc["conexion"] # "recv"
    BY <1>3 DEF ConexionSuelta, Ir, TypeOK, Hilo, Punto
  <2>4. sem_exec' \in BOOLEAN
    BY <1>3 DEF ConexionSuelta
  <2>5. TypeOK'
    BY <1>3, <2>2, <2>3, <2>4 DEF ConexionSuelta, TypeOK, colas, semaforos, pausa, consolaVars
  <2> QED
    BY <1>3, <2>1, <2>3, <2>5 DEF ConexionSuelta, cicloVars, canales, cpuVars, consolaVars
<1>4. CASE TerminarDevolucion
  <2>1. UNCHANGED <<recursosVars, cicloVars>>
    BY <1>4 DEF TerminarDevolucion
  <2>2. RecursosTypeOK' /\ CicloTypeOK'
    BY <2>1, RecursosIgual, CicloIgual DEF TypeOK
  <2>3. pc' \in [Hilo -> Punto] /\ pc["conexion"] # "recv"
    BY <1>4 DEF TerminarDevolucion, Ir, TypeOK, Hilo, Punto
  <2>4. fin' \in [{"consola", "conexion"} -> Fin]
    BY <1>4, FinNuloTipo DEF TerminarDevolucion, TypeOK
  <2>5. TypeOK'
    BY <1>4, <2>2, <2>3, <2>4
    DEF TerminarDevolucion, TypeOK, colas, semaforos, pausa, consolaVars
  <2> QED
    BY <1>4, <2>1, <2>3, <2>5
    DEF TerminarDevolucion, cicloVars, canales, cpuVars, consolaVars
<1> QED
  BY <1>1, <1>2, <1>3, <1>4, TipoConexionRecibe, TipoConexionAtiende, TipoLiberar,
     TipoTerminar DEF PasoConexion

-----------------------------------------------------------------------------
(* The CPU, its interrupts and the interfaces.                             *)
LEMMA KernelIgual ==
  ASSUME TypeOK, UNCHANGED <<recursosVars, kernelVars>>, CicloTypeOK'
  PROVE  TypeOK'
<1>1. RecursosTypeOK'
  BY RecursosIgual DEF TypeOK
<1> QED
  BY <1>1 DEF TypeOK, kernelVars, colas, semaforos, pausa, consolaVars

(* The timers not yet on the run are a natural number.                     *)
LEMMA RelojesNuevosTipo ==
  ASSUME CicloTypeOK, NEW p \in Pid
  PROVE  RelojesNuevos(p) \in Nat
<1> DEFINE S == {i \in DOMAIN dispatch :
                   dispatch[i].con_quantum /\ dispatch[i].ctx.pid = p}
<1>1. Len(dispatch) \in Nat /\ DOMAIN dispatch = 1 .. Len(dispatch)
  BY LenProperties DEF CicloTypeOK
<1>2. IsFiniteSet(1 .. Len(dispatch))
  BY <1>1, FS_Interval
<1>3. IsFiniteSet(S)
  BY <1>1, <1>2, FS_Subset
<1> QED
  BY <1>3, FS_CardinalityType DEF RelojesNuevos

(* Every step of the CPU.                                                  *)
LEMMA TipoCpu == TipoInd /\ Cpu => TipoInd'
<1> SUFFICES ASSUME TipoInd, Cpu PROVE TipoInd'
  OBVIOUS
<1>1. CicloTypeOK' /\ CicloConContexto'
  BY TipoCpuPaso DEF TipoInd, TypeOK, Cpu
<1>2. TypeOK' /\ UNCHANGED <<running, grado, a_bajar, pc>>
  BY <1>1, KernelIgual DEF TipoInd, Cpu, kernelVars, consolaVars
<1>3. running # NADIE
  BY DEF TipoInd, SinDespachos, Cpu, CpuPaso, CpuRecibe, CpuBajaBanderas, CpuFinaliza,
         CpuDesaloja, CpuInstruccion, CpuCalcula, CpuSalta, CpuPide, CpuTermina, EnFetch
<1> QED
  BY <1>1, <1>2, <1>3 DEF TipoInd, SinDespachos, BajaPosible

(* Timers and ENVIAR_FINALIZAR.                                            *)
LEMMA TipoInterrupciones ==
  ASSUME TipoInd, LlegaFinalizar \/ \E p \in Pid : FinQuantum(p)
  PROVE  TipoInd'
<1>1. CASE LlegaFinalizar
  <2>1. CicloTypeOK' /\ UNCHANGED <<dispatch, respuestas, cpu_estado, cpu_pcb>>
    BY <1>1 DEF LlegaFinalizar, InterrupcionFinalizar, TipoInd, TypeOK, CicloTypeOK, canales
  <2>2. TypeOK' /\ UNCHANGED <<running, grado, a_bajar, pc>>
    BY <1>1, <2>1, KernelIgual DEF TipoInd, LlegaFinalizar, kernelVars, consolaVars
  <2> QED
    BY <2>1, <2>2 DEF TipoInd, SinDespachos, CicloConContexto, BajaPosible
<1>2. ASSUME NEW p \in Pid, FinQuantum(p) PROVE TipoInd'
  <2>1. relojes' \in [Pid -> Nat]
    <3>1. relojes[p] \in Nat /\ RelojesNuevos(p) \in Nat /\ relojes[p] > RelojesNuevos(p)
      BY <1>2, RelojesNuevosTipo
      DEF FinQuantum, InterrupcionQuantum, TipoInd, TypeOK, CicloTypeOK
    <3>2. relojes[p] - 1 \in Nat
      BY <3>1
    <3> QED
      BY <1>2, <3>2 DEF FinQuantum, InterrupcionQuantum, TipoInd, TypeOK, CicloTypeOK
  <2>2. hay_desalojo' \in BOOLEAN
    BY <1>2 DEF FinQuantum, InterrupcionQuantum
  <2>3. CicloTypeOK' /\ UNCHANGED <<dispatch, respuestas, cpu_estado, cpu_pcb>>
    BY <1>2, <2>1, <2>2
    DEF FinQuantum, InterrupcionQuantum, TipoInd, TypeOK, CicloTypeOK, canales
  <2>4. TypeOK' /\ UNCHANGED <<running, grado, a_bajar, pc>>
    BY <1>2, <2>3, KernelIgual DEF TipoInd, FinQuantum, kernelVars, consolaVars
  <2> QED
    BY <2>3, <2>4 DEF TipoInd, SinDespachos, CicloConContexto, BajaPosible
<1> QED
  BY <1>1, <1>2

(* An interface gives a PCB back.                                          *)
LEMMA TipoVueltaIO ==
  ASSUME TipoInd, NEW p \in Pid, VueltaIO(p)
  PROVE  TipoInd'
<1>1. UNCHANGED <<recursosVars, cicloVars, algoritmo, cola_new, sem_new, sem_grado,
                  sem_exec, pausa, running, consolaVars, pc, pedido, fin, caido>>
  BY DEF VueltaIO
<1>2. RecursosTypeOK' /\ CicloTypeOK'
  BY <1>1, RecursosIgual, CicloIgual DEF TipoInd, TypeOK
<1>3. en_io' \in [Pid -> Nat]
  <2>1. en_io \in [Pid -> Nat] /\ en_io[p] > 0 /\ en_io' = [en_io EXCEPT ![p] = @ - 1]
    BY DEF VueltaIO, TipoInd, TypeOK
  <2>2. en_io[p] - 1 \in Nat
    BY <2>1
  <2> QED
    BY <2>1, <2>2
<1>4. /\ pcb' \in [Pid -> Pcb] /\ sem_ready' \in Nat
      /\ cola_ready' \in Seq(Pid) /\ cola_vrr' \in Seq(Pid)
  <2>1. /\ pcb \in [Pid -> Pcb] /\ sem_ready \in Nat
        /\ cola_ready \in Seq(Pid) /\ cola_vrr \in Seq(Pid) /\ "READY" \in Estado
    BY DEF TipoInd, TypeOK, Estado
  <2>2. CASE AgregarVrr(p) /\ UNCHANGED cola_ready
    <3>1. pcb' = [pcb EXCEPT ![p].estado = "READY"]
      BY <2>2 DEF AgregarVrr
    <3>2. pcb' \in [Pid -> Pcb]
      BY <2>1, <3>1, EstadoTipo
    <3> QED
      BY <2>1, <2>2, <3>2 DEF AgregarVrr
  <2>3. CASE AgregarReady(pcb, <<p>>) /\ UNCHANGED cola_vrr
    <3>1. <<p>> \in Seq(Pid)
      OBVIOUS
    <3> QED
      BY <2>1, <2>3, <3>1, AgregarReadyTipo
  <2> QED
    BY <2>2, <2>3 DEF VueltaIO
<1>5. TypeOK'
  BY <1>1, <1>2, <1>3, <1>4 DEF TipoInd, TypeOK, pausa, consolaVars
<1> QED
  BY <1>1, <1>5
  DEF TipoInd, SinDespachos, CicloConContexto, BajaPosible, cicloVars, canales, cpuVars,
      consolaVars

-----------------------------------------------------------------------------
(* Every step of the system keeps the types.                               *)
LEMMA TipoPaso == TipoInd /\ Next => TipoInd'
  BY TipoMenu, TipoConsola, TipoLargo, TipoCorto, TipoConexion, TipoCpu,
     TipoInterrupciones, TipoVueltaIO DEF Next

(* Every reachable state of the kernel and the CPU has the types of        *)
(* TypeOK: in particular no semaphore and no count of instances goes below *)
(* zero, and every index, pid and message is one the code defines.         *)
THEOREM TiposCorrectos == Spec => []TypeOK
<1>1. Init => TipoInd
  BY TipoInicial
<1>2. TipoInd /\ [Next]_vars => TipoInd'
  BY TipoPaso, TipoIgual
<1>3. TipoInd => TypeOK
  BY DEF TipoInd
<1> QED
  BY <1>1, <1>2, <1>3, PTL DEF Spec

-----------------------------------------------------------------------------
(* The semaphores.                                                         *)

(* A step of a thread moves no other thread.                               *)
LEMMA IrOtro ==
  ASSUME pc \in [Hilo -> Punto], NEW h, NEW g \in Hilo, g # h,
         pc' = pc \/ \E x : Ir(h, x)
  PROVE  pc'[g] = pc[g]
  BY DEF Ir

-----------------------------------------------------------------------------
(* NEW.                                                                    *)

(* Only iniciar_proceso and the long term planner touch NEW.               *)
LEMMA NewQuieta ==
  ASSUME TypeOK, Next, ~IniciarProceso, ~PasoLargo
  PROVE  UNCHANGED <<cola_new, sem_new>> /\ pc'["largo"] = pc["largo"]
<1>1. pc \in [Hilo -> Punto] /\ "largo" \in Hilo
  BY DEF TypeOK, Hilo
<1>2. CASE Menu
  <2>1. UNCHANGED <<cola_new, sem_new>>
    BY <1>2 DEF Menu, DetenerPlanificacion, IniciarPlanificacion, CambiarGrado, EliminarPcb,
              colas, semaforos
  <2>2. pc' = pc \/ \E x : Ir("consola", x)
    BY <1>2 DEF Menu, DetenerPlanificacion, IniciarPlanificacion, CambiarGrado, EliminarPcb,
              EliminarBloqueado, EliminarListo, EliminarNulo, EliminarRunning, FinalizarPcb
  <2> QED
    BY <1>1, <2>1, <2>2, IrOtro
<1>3. CASE PasoConsola
  <2>1. UNCHANGED <<cola_new, sem_new>>
    BY <1>3, LiberarQuieto
    DEF PasoConsola, ConsolaArranque, BajarGrado, TerminarProceso, colas, semaforos
  <2>2. pc' = pc \/ \E x : Ir("consola", x)
    BY <1>3, LiberarQuieto DEF PasoConsola, ConsolaArranque, BajarGrado, TerminarProceso
  <2> QED
    BY <1>1, <2>1, <2>2, IrOtro
<1>4. CASE PasoCorto
  <2>1. UNCHANGED <<cola_new, sem_new>>
    BY <1>4 DEF PasoCorto, CortoEspera, CortoDetenido, CortoDespacha, colas, semaforos
  <2>2. pc' = pc \/ \E x : Ir("corto", x)
    BY <1>4 DEF PasoCorto, CortoEspera, CortoDetenido, CortoDespacha, DespachaVrr,
              DespachaReady, DespachaNulo, EnviarPorDispatch
  <2> QED
    BY <1>1, <2>1, <2>2, IrOtro
<1>5. CASE PasoConexion
  <2>1. UNCHANGED <<cola_new, sem_new>>
    BY <1>5, LiberarQuieto
    DEF PasoConexion, ConexionRecibe, ConexionDetenida, ConexionAtiende, ConexionBloquea,
        ConexionSuelta, TerminarProceso, TerminarDevolucion, colas, semaforos
  <2>2. pc' = pc \/ \E x : Ir("conexion", x)
    <3>1. CASE ConexionAtiende
      BY <3>1 DEF ConexionAtiende, EjecutarWait, EjecutarSignal, RecursoInvalido, SinMemoria,
                IoSleep, IoSuelta, EjecutarIO, FinalizarPcb
    <3>2. CASE ConexionRecibe
      BY <3>2 DEF ConexionRecibe, RecibirPedido, RecibirDesalojo, RecibirFinalizado,
                RecibirFin, FinalizarPcb
    <3>3. CASE ~ConexionAtiende /\ ~ConexionRecibe
      BY <1>5, <3>3, LiberarQuieto
      DEF PasoConexion, ConexionDetenida, ConexionBloquea, ConexionSuelta, TerminarProceso,
          TerminarDevolucion, EjecutarIO, FinalizarPcb
    <3> QED
      BY <3>1, <3>2, <3>3
  <2> QED
    BY <1>1, <2>1, <2>2, IrOtro
<1>6. CASE Cpu \/ LlegaFinalizar \/ \E p \in Pid : FinQuantum(p) \/ VueltaIO(p)
  BY <1>6 DEF Cpu, LlegaFinalizar, FinQuantum, VueltaIO, kernelVars, colas, semaforos
<1> QED
  BY <1>2, <1>3, <1>4, <1>5, <1>6 DEF Next

(* Every step keeps the count of NEW.                                      *)
LEMMA NewPaso ==
  ASSUME TypeOK, CuentaNew, Next
  PROVE  CuentaNew'
<1>1. /\ sem_new \in Nat /\ cola_new \in Seq(Pid) /\ Len(cola_new) \in Nat
      /\ pc \in [Hilo -> Punto]
  BY LenProperties DEF TypeOK
<1>2. CASE IniciarProceso
  <2>1. contador_pcb \in Pid
    BY <1>2, NProcesosAssumption DEF IniciarProceso, TypeOK, Pid
  <2>2. cola_new' = Append(cola_new, contador_pcb) /\ sem_new' = sem_new + 1
        /\ pc'["largo"] = pc["largo"]
    BY <1>1, <1>2 DEF IniciarProceso, AgregarNew, Ir, Hilo
  <2>3. Len(cola_new') = Len(cola_new) + 1
    BY <1>1, <2>1, <2>2
  <2> QED
    BY <1>1, <2>2, <2>3 DEF CuentaNew
<1>3. CASE LargoEspera
  <2>1. CASE pc["largo"] = "new"
    <3>1. sem_new' = sem_new - 1 /\ pc'["largo"] = "grado" /\ UNCHANGED cola_new
      BY <1>1, <1>3, <2>1 DEF LargoEspera, Ir, Hilo, colas
    <3> QED
      BY <1>1, <2>1, <3>1 DEF CuentaNew
  <2>2. CASE pc["largo"] = "grado"
    <3>1. UNCHANGED <<sem_new, cola_new>> /\ pc'["largo"] # "new"
      BY <1>1, <1>3, <2>2 DEF LargoEspera, Ir, Hilo, colas
    <3> QED
      BY <1>1, <2>2, <3>1 DEF CuentaNew
  <2> QED
    BY <1>3, <2>1, <2>2 DEF LargoEspera
<1>4. CASE LargoDetenido
  <2>1. /\ UNCHANGED <<sem_new, cola_new>> /\ pc["largo"] = "detenido"
        /\ pc'["largo"] = "pasar"
    BY <1>1, <1>4 DEF LargoDetenido, Ir, Hilo, colas, semaforos
  <2> QED
    BY <1>1, <2>1 DEF CuentaNew
<1>5. CASE LargoPasa
  <2>1. pc["largo"] = "pasar" /\ UNCHANGED sem_new
    BY <1>5 DEF LargoPasa
  <2>2. cola_new # <<>>
    BY <1>1, <2>1, EmptySeq DEF CuentaNew
  <2>3. cola_new' = Tail(cola_new) /\ pc'["largo"] = "new"
    BY <1>1, <1>5, <2>2 DEF LargoPasa, Ir, Hilo
  <2>4. Len(cola_new') = Len(cola_new) - 1
    BY <1>1, <2>2, <2>3, HeadTailProperties
  <2> QED
    BY <1>1, <2>1, <2>3, <2>4 DEF CuentaNew
<1>6. CASE ~IniciarProceso /\ ~PasoLargo
  BY <1>6, NewQuieta DEF CuentaNew
<1> QED
  BY <1>2, <1>3, <1>4, <1>5, <1>6 DEF PasoLargo

(* sem_new counts the processes in NEW that the long term planner has not  *)
(* taken yet, whatever the user does.                                      *)
THEOREM SemNewExacto == Spec => []CuentaNew
<1> DEFINE Ind == TipoInd /\ CuentaNew
<1>1. Init => Ind
  <2>1. Init => CuentaNew
    BY EmptySeq DEF Init, CuentaNew
  <2> QED
    BY <2>1, TipoInicial
<1>2. Ind /\ [Next]_vars => Ind'
  <2>1. Ind /\ Next => Ind'
    BY TipoPaso, NewPaso DEF TipoInd
  <2>2. Ind /\ UNCHANGED vars => Ind'
    BY TipoIgual DEF CuentaNew, vars, kernelVars, colas, semaforos
  <2> QED
    BY <2>1, <2>2
<1> QED
  BY <1>1, <1>2, PTL DEF Spec

-----------------------------------------------------------------------------
(* READY and the queue of VRR.                                             *)

(* Only VRR uses its second queue.                                         *)
VrrVacia == algoritmo # "VRR" => cola_vrr = <<>>
ReadyInd == CuentaReady /\ VrrVacia

(* agregar_cola_ready posts once per PCB.                                  *)
LEMMA AgregarReadyCuenta ==
  ASSUME TypeOK, ReadyInd, NEW f, NEW s \in Seq(Pid), AgregarReady(f, s),
         UNCHANGED <<cola_vrr, algoritmo>>, pc'["corto"] = pc["corto"]
  PROVE  ReadyInd'
<1>1. /\ sem_ready \in Nat /\ Len(cola_ready) \in Nat /\ Len(cola_vrr) \in Nat
      /\ Len(s) \in Nat
  BY LenProperties DEF TypeOK
<1>2. Len(cola_ready') = Len(cola_ready) + Len(s) /\ sem_ready' = sem_ready + Len(s)
  BY ConcatProperties DEF AgregarReady, TypeOK
<1> QED
  BY <1>1, <1>2 DEF ReadyInd, CuentaReady, VrrVacia

(* Steps that leave READY and its semaphore alone keep the count.          *)
LEMMA ReadyIgual ==
  ASSUME ReadyInd, UNCHANGED <<cola_ready, cola_vrr, sem_ready, algoritmo>>,
         pc'["corto"] = pc["corto"]
  PROVE  ReadyInd'
  BY DEF ReadyInd, CuentaReady, VrrVacia

(* liberar_recursos posts once per process it wakes.                       *)
LEMMA ReadyLiberar ==
  ASSUME TypeOK, ReadyInd, NEW h \in {"consola", "conexion"}, LiberarRecurso(h)
  PROVE  ReadyInd'
<1>1. UNCHANGED <<cola_vrr, algoritmo, pc>>
  BY LiberarQuieto
<1>2. CASE DespertarUno(h)
  <2> DEFINE r == RecursoDe(h)
  <2>1. r \in Recurso /\ RecursosTypeOK
    BY <1>2, TipoVuelta DEF DespertarUno, EnVuelta, TypeOK
  <2>2. AgregarReady(pcb, Despertados(r))
    BY <1>2 DEF DespertarUno
  <2> HIDE DEF r
  <2>3. Despertados(r) \in Seq(Pid)
    BY <2>1, DespertadosTipo
  <2> QED
    BY <1>1, <2>2, <2>3, AgregarReadyCuenta
<1>3. CASE MirarRecurso(h) \/ DevolverUna(h)
  BY <1>1, <1>3, ReadyIgual DEF MirarRecurso, DevolverUna, colas, semaforos
<1> QED
  BY <1>2, <1>3 DEF LiberarRecurso

(* What the console does that is not finalizar_pcb, and the long term      *)
(* planner.                                                                *)
LEMMA ReadyConsola ==
  ASSUME Eliminables = {}, TypeOK, ReadyInd, Menu \/ PasoConsola \/ PasoLargo
  PROVE  ReadyInd'
<1>1. pc \in [Hilo -> Punto] /\ "corto" \in Hilo
  BY DEF TypeOK, Hilo
<1>2. CASE LiberarRecurso("consola") \/ LargoPasa
  <2>1. CASE LiberarRecurso("consola")
    BY <2>1, ReadyLiberar
  <2>2. CASE LargoPasa
    <3>1. pc' = pc \/ \E x : Ir("largo", x)
      BY <2>2 DEF LargoPasa
    <3>2. pc'["corto"] = pc["corto"] /\ UNCHANGED <<cola_vrr, algoritmo>>
      BY <1>1, <2>2, <3>1, IrOtro DEF LargoPasa
    <3>3. CASE cola_new = <<>>
      BY <2>2, <3>2, <3>3, ReadyIgual DEF LargoPasa
    <3>4. CASE cola_new # <<>>
      <4>1. AgregarReady(pcb, <<Head(cola_new)>>)
        BY <2>2, <3>4 DEF LargoPasa
      <4>2. Head(cola_new) \in Pid
        BY <3>4, HeadTailProperties DEF TypeOK
      <4>3. <<Head(cola_new)>> \in Seq(Pid)
        BY <4>2
      <4> QED
        BY <3>2, <4>1, <4>3, AgregarReadyCuenta
    <3> QED
      BY <3>3, <3>4
  <2> QED
    BY <1>2, <2>1, <2>2
<1>3. CASE ~LiberarRecurso("consola") /\ ~LargoPasa
  <2>1. ~EliminarPcb
    BY DEF EliminarPcb
  <2>2. UNCHANGED <<cola_ready, cola_vrr, sem_ready, algoritmo>>
    <3>1. CASE Menu
      BY <2>1, <3>1
      DEF Menu, IniciarProceso, DetenerPlanificacion, IniciarPlanificacion, CambiarGrado,
          colas, semaforos
    <3>2. CASE PasoConsola \/ PasoLargo
      BY <1>3, <3>2
      DEF PasoConsola, PasoLargo, ConsolaArranque, BajarGrado, TerminarProceso, LargoEspera,
          LargoDetenido, colas, semaforos
    <3> QED
      BY <3>1, <3>2
  <2>3. pc'["corto"] = pc["corto"]
    <3>1. CASE Menu
      <4>1. pc' = pc \/ \E x : Ir("consola", x)
        BY <2>1, <3>1
        DEF Menu, IniciarProceso, DetenerPlanificacion, IniciarPlanificacion, CambiarGrado
      <4> QED
        BY <1>1, <4>1, IrOtro
    <3>2. CASE PasoConsola
      <4>1. pc' = pc \/ \E x : Ir("consola", x)
        BY <1>3, <3>2 DEF PasoConsola, ConsolaArranque, BajarGrado, TerminarProceso
      <4> QED
        BY <1>1, <4>1, IrOtro
    <3>3. CASE PasoLargo
      <4>1. pc' = pc \/ \E x : Ir("largo", x)
        BY <1>3, <3>3 DEF PasoLargo, LargoEspera, LargoDetenido
      <4> QED
        BY <1>1, <4>1, IrOtro
    <3> QED
      BY <1>3, <3>1, <3>2, <3>3
  <2> QED
    BY <2>2, <2>3, ReadyIgual
<1> QED
  BY <1>2, <1>3

(* The short term planner takes the PCB that sem_ready promised.           *)
LEMMA ReadyCorto ==
  ASSUME TypeOK, ReadyInd, PasoCorto
  PROVE  ReadyInd' /\ ~(CortoDespacha /\ DespachaNulo)
<1>1. /\ sem_ready \in Nat /\ Len(cola_ready) \in Nat /\ Len(cola_vrr) \in Nat
      /\ cola_ready \in Seq(Pid) /\ cola_vrr \in Seq(Pid) /\ pc \in [Hilo -> Punto]
  BY LenProperties DEF TypeOK
<1>2. CASE CortoEspera
  <2>1. UNCHANGED <<cola_ready, cola_vrr, algoritmo>>
    BY <1>2 DEF CortoEspera, colas
  <2>2. pc["corto"] \in {"ready", "exec"}
    BY <1>2 DEF CortoEspera
  <2>3. CASE pc["corto"] = "ready"
    <3>1. sem_ready' = sem_ready - 1 /\ pc'["corto"] = "exec"
      BY <1>1, <1>2, <2>3 DEF CortoEspera, Ir, Hilo
    <3> QED
      BY <1>1, <1>2, <2>1, <2>3, <3>1 DEF ReadyInd, CuentaReady, VrrVacia, CortoDespacha
  <2>4. CASE pc["corto"] = "exec"
    <3>1. UNCHANGED sem_ready /\ pc'["corto"] # "ready"
      BY <1>1, <1>2, <2>4 DEF CortoEspera, Ir, Hilo
    <3> QED
      BY <1>1, <1>2, <2>1, <2>4, <3>1 DEF ReadyInd, CuentaReady, VrrVacia, CortoDespacha
  <2> QED
    BY <2>2, <2>3, <2>4
<1>3. CASE CortoDetenido
  <2>1. /\ UNCHANGED <<cola_ready, cola_vrr, algoritmo, sem_ready>>
        /\ pc["corto"] = "detenido" /\ pc'["corto"] = "despachar"
    BY <1>1, <1>3 DEF CortoDetenido, Ir, Hilo, colas, semaforos
  <2> QED
    BY <1>1, <2>1 DEF ReadyInd, CuentaReady, VrrVacia, CortoDespacha
<1>4. CASE CortoDespacha
  <2>1. pc["corto"] = "despachar" /\ UNCHANGED <<sem_ready, algoritmo>>
    BY <1>4 DEF CortoDespacha, semaforos
  <2>2. Len(cola_ready) + Len(cola_vrr) >= 1 /\ VrrVacia
    BY <1>1, <2>1 DEF ReadyInd, CuentaReady
  <2>3. ~DespachaNulo
    <3> SUFFICES ASSUME DespachaNulo PROVE FALSE
      OBVIOUS
    <3>1. cola_ready = <<>> /\ cola_vrr = <<>>
      BY <2>2 DEF DespachaNulo, VrrVacia
    <3> QED
      BY <2>2, <3>1, EmptySeq
  <2>4. CASE DespachaVrr
    <3>1. /\ cola_vrr # <<>> /\ cola_vrr' = Tail(cola_vrr) /\ UNCHANGED cola_ready
          /\ algoritmo = "VRR" /\ Ir("corto", "ready")
      BY <2>4 DEF DespachaVrr, EnviarPorDispatch
    <3>2. Len(cola_vrr') = Len(cola_vrr) - 1
      BY <1>1, <3>1, HeadTailProperties
    <3>3. pc'["corto"] = "ready"
      BY <1>1, <3>1 DEF Ir, Hilo
    <3> QED
      BY <1>1, <2>1, <2>3, <3>1, <3>2, <3>3 DEF ReadyInd, CuentaReady, VrrVacia
  <2>5. CASE DespachaReady
    <3>1. /\ cola_ready # <<>> /\ cola_ready' = Tail(cola_ready) /\ UNCHANGED cola_vrr
          /\ Ir("corto", "ready")
      BY <2>5 DEF DespachaReady, EnviarPorDispatch
    <3>2. Len(cola_ready') = Len(cola_ready) - 1
      BY <1>1, <3>1, HeadTailProperties
    <3>3. pc'["corto"] = "ready"
      BY <1>1, <3>1 DEF Ir, Hilo
    <3> QED
      BY <1>1, <2>1, <2>2, <2>3, <3>1, <3>2, <3>3 DEF ReadyInd, CuentaReady, VrrVacia
  <2> QED
    BY <1>4, <2>3, <2>4, <2>5 DEF CortoDespacha
<1> QED
  BY <1>2, <1>3, <1>4 DEF PasoCorto

(* The connection thread puts in READY what it preempts and what it wakes. *)
LEMMA ReadyConexion ==
  ASSUME TipoInd, ReadyInd, PasoConexion
  PROVE  ReadyInd'
<1>1. pc \in [Hilo -> Punto] /\ "corto" \in Hilo /\ TypeOK
  BY DEF TipoInd, TypeOK, Hilo
<1>2. CASE LiberarRecurso("conexion")
  BY <1>1, <1>2, ReadyLiberar
<1>3. CASE ConexionRecibe
  <2>1. UNCHANGED <<cola_vrr, algoritmo>>
    BY <1>3 DEF ConexionRecibe
  <2>2. pc' = pc \/ \E x : Ir("conexion", x)
    BY <1>3 DEF ConexionRecibe, RecibirPedido, RecibirDesalojo, RecibirFinalizado,
              RecibirFin, FinalizarPcb
  <2>3. pc'["corto"] = pc["corto"]
    BY <1>1, <2>2, IrOtro
  <2>4. CASE RecibirDesalojo
    <3>1. PICK f : AgregarReady(f, <<running>>)
      BY <2>4 DEF RecibirDesalojo
    <3>2. running \in Pid
      BY <1>3 DEF ConexionRecibe, TipoInd, SinDespachos, TypeOK
    <3>3. <<running>> \in Seq(Pid)
      BY <3>2
    <3> QED
      BY <1>1, <2>1, <2>3, <3>1, <3>3, AgregarReadyCuenta
  <2>5. CASE ~RecibirDesalojo
    <3>1. UNCHANGED <<cola_ready, sem_ready>>
      BY <1>3, <2>5 DEF ConexionRecibe, RecibirPedido, RecibirFinalizado, RecibirFin
    <3> QED
      BY <2>1, <2>3, <3>1, ReadyIgual
  <2> QED
    BY <2>4, <2>5
<1>4. CASE ConexionAtiende
  <2>1. UNCHANGED <<cola_vrr, algoritmo>>
    BY <1>4 DEF ConexionAtiende
  <2>2. pc' = pc \/ \E x : Ir("conexion", x)
    BY <1>4 DEF ConexionAtiende, EjecutarWait, EjecutarSignal, RecursoInvalido, SinMemoria,
              IoSleep, IoSuelta, EjecutarIO, FinalizarPcb
  <2>3. pc'["corto"] = pc["corto"]
    BY <1>1, <2>2, IrOtro
  <2>4. CASE EjecutarSignal
    <3>1. AgregarReady(pcb, Despertados(pedido.arg)) /\ pedido.arg \in Recurso
      BY <2>4 DEF EjecutarSignal
    <3>2. Despertados(pedido.arg) \in Seq(Pid)
      BY <1>1, <3>1, DespertadosTipo DEF TypeOK
    <3> QED
      BY <1>1, <2>1, <2>3, <3>1, <3>2, AgregarReadyCuenta
  <2>5. CASE ~EjecutarSignal
    <3>1. UNCHANGED <<cola_ready, sem_ready>>
      BY <1>4, <2>5 DEF ConexionAtiende, EjecutarWait, RecursoInvalido, SinMemoria, IoSleep,
                      IoSuelta
    <3> QED
      BY <2>1, <2>3, <3>1, ReadyIgual
  <2> QED
    BY <2>4, <2>5
<1>5. CASE ~LiberarRecurso("conexion") /\ ~ConexionRecibe /\ ~ConexionAtiende
  <2>1. UNCHANGED <<cola_ready, cola_vrr, sem_ready, algoritmo>>
    BY <1>5 DEF PasoConexion, ConexionDetenida, ConexionBloquea, ConexionSuelta,
              TerminarProceso, TerminarDevolucion, colas, semaforos
  <2>2. pc' = pc \/ \E x : Ir("conexion", x)
    BY <1>5 DEF PasoConexion, ConexionDetenida, ConexionBloquea, ConexionSuelta,
              TerminarProceso, TerminarDevolucion, EjecutarIO, FinalizarPcb
  <2> QED
    BY <1>1, <2>1, <2>2, IrOtro, ReadyIgual
<1> QED
  BY <1>2, <1>3, <1>4, <1>5

(* An interface gives its PCB back to one of the two queues.               *)
LEMMA ReadyVuelta ==
  ASSUME TypeOK, ReadyInd, NEW p \in Pid, VueltaIO(p)
  PROVE  ReadyInd'
<1>1. /\ sem_ready \in Nat /\ Len(cola_ready) \in Nat /\ Len(cola_vrr) \in Nat
      /\ cola_vrr \in Seq(Pid)
  BY LenProperties DEF TypeOK
<1>2. UNCHANGED <<pc, algoritmo>>
  BY DEF VueltaIO
<1>3. CASE algoritmo = "VRR" /\ pcb[p].resto
  <2>1. cola_vrr' = Append(cola_vrr, p) /\ sem_ready' = sem_ready + 1 /\ UNCHANGED cola_ready
    BY <1>3 DEF VueltaIO, AgregarVrr
  <2>2. Len(cola_vrr') = Len(cola_vrr) + 1
    BY <1>1, <2>1
  <2> QED
    BY <1>1, <1>2, <1>3, <2>1, <2>2 DEF ReadyInd, CuentaReady, VrrVacia
<1>4. CASE ~(algoritmo = "VRR" /\ pcb[p].resto)
  <2>1. AgregarReady(pcb, <<p>>) /\ UNCHANGED cola_vrr
    BY <1>4 DEF VueltaIO
  <2>2. <<p>> \in Seq(Pid)
    OBVIOUS
  <2> QED
    BY <1>2, <2>1, <2>2, AgregarReadyCuenta
<1> QED
  BY <1>3, <1>4

(* Every step keeps the count of READY, and VRR's queue empty elsewhere.   *)
LEMMA ReadyPaso ==
  ASSUME Eliminables = {}, TipoInd, ReadyInd, Next
  PROVE  ReadyInd'
<1>1. TypeOK
  BY DEF TipoInd
<1>2. CASE Cpu \/ LlegaFinalizar \/ \E p \in Pid : FinQuantum(p)
  <2>1. UNCHANGED <<cola_ready, cola_vrr, sem_ready, algoritmo, pc>>
    BY <1>2 DEF Cpu, LlegaFinalizar, FinQuantum, kernelVars, colas, semaforos
  <2> QED
    BY <2>1, ReadyIgual
<1> QED
  BY <1>1, <1>2, ReadyConsola, ReadyCorto, ReadyConexion, ReadyVuelta DEF Next

(* sem_ready counts the PCBs of both ready queues that the short term      *)
(* planner has not been promised yet, as long as the user kills nobody:    *)
(* option 3 takes a PCB out of READY and leaves its post behind.           *)
THEOREM SemReadyExacto == Eliminables = {} => (Spec => []CuentaReady)
<1> DEFINE Ind == TipoInd /\ ReadyInd
<1>1. Init => Ind
  <2>1. Init => ReadyInd
    BY EmptySeq DEF Init, ReadyInd, CuentaReady, VrrVacia
  <2> QED
    BY <2>1, TipoInicial
<1>2. ASSUME Eliminables = {} PROVE Ind /\ [Next]_vars => Ind'
  <2>1. Ind /\ Next => Ind'
    BY <1>2, TipoPaso, ReadyPaso
  <2>2. Ind /\ UNCHANGED vars => Ind'
    BY TipoIgual, ReadyIgual DEF vars, kernelVars, colas, semaforos
  <2> QED
    BY <2>1, <2>2
<1>3. Ind => CuentaReady
  BY DEF ReadyInd
<1> QED
  <2> SUFFICES ASSUME Eliminables = {} PROVE Spec => []CuentaReady
    OBVIOUS
  <2> QED
    BY <1>1, <1>2, <1>3, PTL DEF Spec

-----------------------------------------------------------------------------
(* No resource of kernel.config has more than one instance.                *)
DeUnaInstancia == \A r \in Recurso : Instancias[r] <= 1

(* Whoever holds such a resource is the only one, and it is not free.      *)
Exclusivo ==
  \A r \in Recurso :
    /\ instancias[r] <= 1
    /\ \A p \in Pid : asignados[p][r] + instancias[r] <= 1
    /\ \A p, q \in Pid : p # q => asignados[p][r] + asignados[q][r] <= 1

(* While nobody uses option 3 only the connection thread gives resources   *)
(* back, and what its inner loop still owes is what the entry says.        *)
Deuda(h) ==
  fin[h].vuelta # "mirar" =>
    /\ pc[h] \in {"liberar", "devolver"} /\ fin[h].i <= Len(ListaRecursos)
    /\ fin[h].faltan = asignados[fin[h].pid][RecursoDe(h)]
Sola == pc["consola"] \in {"menu", "arranque", "bajar"} /\ Deuda("conexion")

(* Its updates are never undone.                                           *)
LEMMA CuentaSola == Sola => \A r : Cuenta("conexion", r) = {1}
<1> SUFFICES ASSUME Sola, NEW r PROVE Cuenta("conexion", r) = {1}
  OBVIOUS
<1>1. ~EnVuelta("consola", "devolver")
  BY DEF Sola, EnVuelta
<1>2. ~OtroActualiza("conexion", r)
  BY <1>1 DEF OtroActualiza
<1> QED
  BY <1>2 DEF Cuenta

(* An instance it gives back is one the entry has.                         *)
LEMMA DeudaPositiva ==
  ASSUME TypeOK, Sola, DevolverUna("conexion")
  PROVE  /\ fin["conexion"].pid \in Pid /\ RecursoDe("conexion") \in Recurso
         /\ asignados[fin["conexion"].pid][RecursoDe("conexion")] \in Nat \ {0}
         /\ fin["conexion"].faltan = asignados[fin["conexion"].pid][RecursoDe("conexion")]
<1>1. EnVuelta("conexion", "devolver")
  BY DEF DevolverUna
<1>2. /\ fin["conexion"] \in Fin /\ fin["conexion"].pid \in Pid
      /\ RecursoDe("conexion") \in Recurso
  BY <1>1, TipoVuelta DEF EnVuelta
<1>3. fin["conexion"].faltan \in Nat \ {0}
  BY <1>1, <1>2 DEF EnVuelta, Fin
<1>4. fin["conexion"].faltan = asignados[fin["conexion"].pid][RecursoDe("conexion")]
  BY <1>1 DEF EnVuelta, Sola, Deuda
<1> QED
  BY <1>2, <1>3, <1>4

(* Steps that leave the entries, the place of the thread and its locals    *)
(* alone keep the debt.                                                    *)
LEMMA DeudaIgual ==
  ASSUME Sola, UNCHANGED <<asignados, fin>>, pc'["conexion"] = pc["conexion"],
         pc'["consola"] \in {"menu", "arranque", "bajar"}
  PROVE  Sola'
  BY DEF Sola, Deuda, RecursoDe

(* So do those that end with nothing owed.                                 *)
LEMMA DeudaSaldada ==
  ASSUME Sola, fin'["conexion"].vuelta = "mirar", pc'["consola"] = pc["consola"]
  PROVE  Sola'
  BY DEF Sola, Deuda

(* liberar_recursos.                                                       *)
LEMMA SolaLiberar ==
  ASSUME TypeOK, Sola, LiberarRecurso("conexion")
  PROVE  Sola'
<1> DEFINE f == fin["conexion"]
           p == fin["conexion"].pid
           r == RecursoDe("conexion")
<1>1. fin \in [{"consola", "conexion"} -> Fin] /\ UNCHANGED pc
  BY LiberarQuieto DEF TypeOK
<1>2. CASE MirarRecurso("conexion")
  <2>1. EnVuelta("conexion", "mirar") /\ UNCHANGED asignados
    BY <1>2 DEF MirarRecurso, recursosVars
  <2>2. CASE asignados[p][r] = 0
    <3>1. fin'["conexion"].vuelta = "mirar"
      BY <1>1, <1>2, <2>1, <2>2 DEF MirarRecurso, EnVuelta, Fin
    <3> QED
      BY <1>1, <3>1, DeudaSaldada
  <2>3. CASE asignados[p][r] # 0
    <3>1. /\ fin'["conexion"].i = f.i /\ fin'["conexion"].pid = p
          /\ fin'["conexion"].faltan = asignados[p][r]
      BY <1>1, <1>2, <2>3 DEF MirarRecurso, Fin
    <3>2. pc["conexion"] \in {"liberar", "devolver"} /\ f.i <= Len(ListaRecursos)
      BY <2>1 DEF EnVuelta
    <3> QED
      BY <1>1, <2>1, <3>1, <3>2 DEF Sola, Deuda, RecursoDe
  <2> QED
    BY <2>2, <2>3
<1>3. CASE DespertarUno("conexion")
  <2>1. EnVuelta("conexion", "despertar") /\ UNCHANGED asignados
        /\ fin' = [fin EXCEPT !["conexion"].vuelta = "devolver"]
    BY <1>3 DEF DespertarUno
  <2>2. /\ fin'["conexion"].i = f.i /\ fin'["conexion"].pid = p
        /\ fin'["conexion"].faltan = f.faltan
    BY <1>1, <2>1 DEF Fin
  <2> QED
    BY <1>1, <2>1, <2>2 DEF Sola, Deuda, RecursoDe, EnVuelta
<1>4. CASE DevolverUna("conexion")
  <2>1. /\ p \in Pid /\ r \in Recurso /\ asignados[p][r] \in Nat \ {0}
        /\ f.faltan = asignados[p][r]
    BY <1>4, DeudaPositiva
  <2>2. CASE f.faltan = 1
    <3>1. fin'["conexion"].vuelta = "mirar"
      BY <1>1, <1>4, <2>2 DEF DevolverUna, Fin
    <3> QED
      BY <1>1, <3>1, DeudaSaldada
  <2>3. CASE f.faltan # 1
    <3>1. /\ fin'["conexion"].i = f.i /\ fin'["conexion"].pid = p
          /\ fin'["conexion"].faltan = f.faltan - 1
      BY <1>1, <1>4, <2>3 DEF DevolverUna, Fin
    <3>2. asignados'[p][r] = asignados[p][r] - 1
      <4>1. PICK d : Devolver(p, r, d)
        BY <1>4 DEF DevolverUna
      <4> QED
        BY <2>1, <4>1 DEF Devolver, TypeOK, RecursosTypeOK
    <3>3. pc["conexion"] \in {"liberar", "devolver"} /\ f.i <= Len(ListaRecursos)
      BY <1>4 DEF DevolverUna, EnVuelta
    <3>4. RecursoDe("conexion")' = r
      BY <3>1 DEF RecursoDe
    <3> HIDE DEF r, p, f
    <3>5. fin'["conexion"].faltan = asignados'[fin'["conexion"].pid][RecursoDe("conexion")']
      BY <2>1, <3>1, <3>2, <3>4
    <3> QED
      BY <1>1, <3>1, <3>3, <3>5 DEF Sola, Deuda, f
  <2> QED
    BY <2>2, <2>3
<1> QED
  BY <1>2, <1>3, <1>4 DEF LiberarRecurso

(* Every step keeps it, but for the one that uses option 3.                *)
LEMMA SolaSinEliminar ==
  ASSUME ~EliminarPcb, TypeOK, Sola, Next
  PROVE  Sola'
<1>1. /\ pc \in [Hilo -> Punto] /\ {"consola", "largo", "corto", "conexion"} \subseteq Hilo
      /\ fin \in [{"consola", "conexion"} -> Fin]
      /\ pc["consola"] \in {"menu", "arranque", "bajar"}
  BY DEF TypeOK, Hilo, Sola
<1>2. CASE Menu \/ PasoConsola
  <2>1. ~EliminarPcb
    OBVIOUS
  <2>2. ~LiberarRecurso("consola") /\ ~TerminarProceso("consola")
    BY <1>1
    DEF LiberarRecurso, MirarRecurso, DespertarUno, DevolverUna, EnVuelta, TerminarProceso
  <2>3. UNCHANGED <<asignados, fin>>
    BY <1>2, <2>1, <2>2
    DEF Menu, PasoConsola, IniciarProceso, DetenerPlanificacion, IniciarPlanificacion,
        CambiarGrado, ConsolaArranque, BajarGrado, recursosVars
  <2>4. pc' = pc \/ \E x \in {"menu", "arranque", "bajar"} : Ir("consola", x)
    BY <1>2, <2>1, <2>2
    DEF Menu, PasoConsola, IniciarProceso, DetenerPlanificacion, IniciarPlanificacion,
        CambiarGrado, ConsolaArranque, BajarGrado
  <2>5. pc'["conexion"] = pc["conexion"] /\ pc'["consola"] \in {"menu", "arranque", "bajar"}
    BY <1>1, <2>4 DEF Ir
  <2> QED
    BY <2>3, <2>5, DeudaIgual
<1>3. CASE PasoLargo \/ PasoCorto
  <2>1. UNCHANGED <<asignados, fin>>
    BY <1>3
    DEF PasoLargo, PasoCorto, LargoEspera, LargoDetenido, LargoPasa, CortoEspera,
        CortoDetenido, CortoDespacha, DespachaVrr, DespachaReady, DespachaNulo, recursosVars
  <2>2. pc' = pc \/ \E h \in {"largo", "corto"} : \E x : Ir(h, x)
    BY <1>3
    DEF PasoLargo, PasoCorto, LargoEspera, LargoDetenido, LargoPasa, CortoEspera,
        CortoDetenido, CortoDespacha, DespachaVrr, DespachaReady, DespachaNulo,
        EnviarPorDispatch
  <2>3. pc'["conexion"] = pc["conexion"] /\ pc'["consola"] = pc["consola"]
    BY <1>1, <2>2 DEF Ir
  <2> QED
    BY <1>1, <2>1, <2>3, DeudaIgual
<1>4. CASE LiberarRecurso("conexion")
  BY <1>4, SolaLiberar
<1>5. CASE PasoConexion /\ ~LiberarRecurso("conexion")
  <2>1. pc' = pc \/ \E x : Ir("conexion", x)
    <3>1. CASE ConexionAtiende
      BY <3>1 DEF ConexionAtiende, EjecutarWait, EjecutarSignal, RecursoInvalido, SinMemoria,
                IoSleep, IoSuelta, EjecutarIO, FinalizarPcb
    <3>2. CASE ConexionRecibe
      BY <3>2 DEF ConexionRecibe, RecibirPedido, RecibirDesalojo, RecibirFinalizado,
                RecibirFin, FinalizarPcb
    <3>3. CASE ~ConexionAtiende /\ ~ConexionRecibe
      BY <1>5, <3>3
      DEF PasoConexion, ConexionDetenida, ConexionBloquea, ConexionSuelta, TerminarProceso,
          TerminarDevolucion, EjecutarIO, FinalizarPcb
    <3> QED
      BY <3>1, <3>2, <3>3
  <2>2. pc'["consola"] = pc["consola"]
    BY <1>1, <2>1 DEF Ir
  <2>3. fin'["conexion"].vuelta = "mirar"
    <3>1. CASE TerminarProceso("conexion") \/ TerminarDevolucion
      BY <1>1, <3>1 DEF TerminarProceso, TerminarDevolucion, FinNulo, LiberarDesde
    <3>2. CASE ~(TerminarProceso("conexion") \/ TerminarDevolucion)
      <4>1. pc["conexion"] \notin {"liberar", "devolver"}
        BY <1>5, <3>2
        DEF PasoConexion, ConexionRecibe, ConexionDetenida, ConexionAtiende,
            ConexionBloquea, ConexionSuelta
      <4>2. fin["conexion"].vuelta = "mirar"
        BY <4>1 DEF Sola, Deuda
      <4>3. \/ UNCHANGED fin
            \/ RecursoInvalido
            \/ IoSuelta
            \/ \E p, luego : EjecutarIO(p, luego)
            \/ \E p, pid, luego : FinalizarPcb("conexion", p, pid, luego)
        <5>1. CASE ConexionAtiende
          BY <5>1 DEF ConexionAtiende, EjecutarWait, EjecutarSignal, SinMemoria, IoSleep
        <5>2. CASE ConexionRecibe
          BY <5>2 DEF ConexionRecibe, RecibirPedido, RecibirDesalojo, RecibirFinalizado,
                    RecibirFin
        <5>3. CASE ~ConexionAtiende /\ ~ConexionRecibe
          BY <1>5, <3>2, <5>3
          DEF PasoConexion, ConexionDetenida, ConexionBloquea, ConexionSuelta
        <5> QED
          BY <5>1, <5>2, <5>3
      <4>4. CASE UNCHANGED fin
        BY <4>2, <4>4
      <4>5. CASE RecursoInvalido
        BY <1>1, <4>5 DEF RecursoInvalido, LiberarDesde
      <4>6. CASE IoSuelta
        BY <1>1, <4>2, <4>6 DEF IoSuelta, Fin
      <4>7. CASE \E p, pid, luego : FinalizarPcb("conexion", p, pid, luego)
        BY <1>1, <4>7 DEF FinalizarPcb, LiberarDesde
      <4>8. CASE \E p, luego : EjecutarIO(p, luego)
        <5>1. \/ fin' = [fin EXCEPT !["conexion"] = FinNulo]
              \/ \E p, pid, luego : FinalizarPcb("conexion", p, pid, luego)
          BY <4>8 DEF EjecutarIO
        <5>2. CASE fin' = [fin EXCEPT !["conexion"] = FinNulo]
          BY <1>1, <5>2 DEF FinNulo, LiberarDesde
        <5> QED
          BY <4>7, <5>1, <5>2
      <4> QED
        BY <4>3, <4>4, <4>5, <4>6, <4>7, <4>8
    <3> QED
      BY <3>1, <3>2
  <2> QED
    BY <2>2, <2>3, DeudaSaldada
<1>6. CASE Cpu \/ LlegaFinalizar \/ \E p \in Pid : FinQuantum(p) \/ VueltaIO(p)
  <2>1. UNCHANGED <<asignados, fin, pc>>
    BY <1>6 DEF Cpu, LlegaFinalizar, FinQuantum, VueltaIO, recursosVars, kernelVars
  <2> QED
    BY <1>1, <2>1, DeudaIgual
<1> QED
  BY <1>2, <1>3, <1>4, <1>5, <1>6 DEF Next

LEMMA SolaPaso ==
  ASSUME Eliminables = {}, TypeOK, Sola, Next
  PROVE  Sola'
<1>1. ~EliminarPcb
  BY DEF EliminarPcb
<1> QED
  BY <1>1, SolaSinEliminar

(* It holds at the start, and a stutter keeps it.                          *)
LEMMA SolaInicial == Init => Sola
  BY DEF Init, Sola, Deuda, FinNulo, LiberarDesde
LEMMA SolaIgual == Sola /\ UNCHANGED vars => Sola'
  BY DeudaIgual DEF Sola, vars, recursosVars, kernelVars

(* Granting a free resource leaves it with a single holder.                *)
LEMMA ExclusivoOtorgar ==
  ASSUME RecursosTypeOK, Exclusivo, NEW pid \in Pid, NEW r \in Recurso,
         instancias[r] > 0, Otorgar(pid, r, 1)
  PROVE  Exclusivo'
<1>1. /\ \A s \in Recurso : instancias'[s] = IF s = r THEN instancias[s] - 1 ELSE instancias[s]
      /\ \A p \in Pid, s \in Recurso :
           asignados'[p][s] = IF p = pid /\ s = r THEN asignados[p][s] + 1 ELSE asignados[p][s]
  BY DEF Otorgar, RecursosTypeOK
<1>2. /\ \A s \in Recurso : instancias[s] \in Nat
      /\ \A p \in Pid, s \in Recurso : asignados[p][s] \in Nat
  BY DEF RecursosTypeOK
<1> QED
  BY <1>1, <1>2 DEF Exclusivo

(* Giving one's only instance back leaves the resource without a holder.   *)
LEMMA ExclusivoDevolver ==
  ASSUME RecursosTypeOK, Exclusivo, NEW pid \in Pid, NEW r \in Recurso,
         asignados[pid][r] > 0, Devolver(pid, r, 1)
  PROVE  Exclusivo'
<1>1. /\ \A s \in Recurso : instancias'[s] = IF s = r THEN instancias[s] + 1 ELSE instancias[s]
      /\ \A p \in Pid, s \in Recurso :
           asignados'[p][s] = IF p = pid /\ s = r THEN asignados[p][s] - 1 ELSE asignados[p][s]
  BY DEF Devolver, RecursosTypeOK
<1>2. /\ \A s \in Recurso : instancias[s] \in Nat
      /\ \A p \in Pid, s \in Recurso : asignados[p][s] \in Nat
  BY DEF RecursosTypeOK
<1> QED
  BY <1>1, <1>2 DEF Exclusivo

(* Steps that touch neither instances nor entries keep single holders.     *)
LEMMA ExclusivoIgual ==
  Exclusivo /\ UNCHANGED <<instancias, asignados>> => Exclusivo'
  BY DEF Exclusivo

(* The connection thread gives back what the process holds and no more.    *)
LEMMA ExclusivoLiberar ==
  ASSUME TypeOK, Exclusivo, Sola, ~caido, LiberarRecurso("conexion")
  PROVE  Exclusivo' /\ ~caido'
<1>1. CASE MirarRecurso("conexion") \/ DespertarUno("conexion")
  <2>1. UNCHANGED <<instancias, asignados, caido>>
    BY <1>1 DEF MirarRecurso, DespertarUno, recursosVars
  <2> QED
    BY <2>1, ExclusivoIgual
<1>2. CASE DevolverUna("conexion")
  <2> DEFINE p == fin["conexion"].pid
             r == RecursoDe("conexion")
  <2>1. p \in Pid /\ r \in Recurso /\ asignados[p][r] \in Nat \ {0}
    BY <1>2, DeudaPositiva
  <2>2. Devolver(p, r, 1) /\ caido' \in PosibleCaida(p, r)
    BY <1>2, CuentaSola DEF DevolverUna
  <2>3. RecursosTypeOK /\ instancias[r] \in Nat
    BY <2>1 DEF TypeOK, RecursosTypeOK
  <2>4. asignados[p][r] = 1
    BY <2>1, <2>3 DEF Exclusivo
  <2>5. ~caido'
    BY <2>2, <2>4 DEF PosibleCaida
  <2> HIDE DEF p, r
  <2> QED
    BY <2>1, <2>2, <2>3, <2>5, ExclusivoDevolver
<1> QED
  BY <1>1, <1>2 DEF LiberarRecurso

(* Requests of the CPU.                                                    *)
LEMMA ExclusivoAtiende ==
  ASSUME TipoInd, Exclusivo, Sola, ~caido, ConexionAtiende
  PROVE  Exclusivo' /\ ~caido'
<1> DEFINE pid == pcb[running].pid
           r == pedido.arg
<1>1. running \in Pid /\ pid \in Pid /\ RecursosTypeOK /\ caido \in BOOLEAN
  <2>1. running \in Pid
    BY DEF ConexionAtiende, TipoInd, SinDespachos, TypeOK
  <2> QED
    BY <2>1, ContextoTipo DEF TipoInd, TypeOK
<1>2. CASE EjecutarWait
  <2>1. r \in Recurso /\ UNCHANGED caido
    BY <1>2 DEF EjecutarWait
  <2>2. CASE instancias[r] > 0
    <3>1. Otorgar(pid, r, 1)
      BY <1>2, <2>2, CuentaSola DEF EjecutarWait, Conceder
    <3> QED
      BY <1>1, <2>1, <2>2, <3>1, ExclusivoOtorgar
  <2>3. CASE ~(instancias[r] > 0)
    <3>1. UNCHANGED <<instancias, asignados>>
      BY <1>2, <2>3 DEF EjecutarWait, Bloquear, Encolar
    <3> QED
      BY <2>1, <3>1, ExclusivoIgual
  <2> QED
    BY <2>2, <2>3
<1>3. CASE EjecutarSignal
  <2>1. /\ r \in Recurso /\ asignados[pid][r] > 0 /\ Devolver(pid, r, 1)
        /\ caido' \in PosibleCaida(pid, r)
    BY <1>3, CuentaSola DEF EjecutarSignal
  <2>2. asignados[pid][r] \in Nat /\ instancias[r] \in Nat
    BY <1>1, <2>1 DEF RecursosTypeOK
  <2>3. asignados[pid][r] = 1
    BY <1>1, <2>1, <2>2 DEF Exclusivo
  <2>4. caido' = FALSE
    <3>1. PosibleCaida(pid, r) = {FALSE}
      BY <2>3 DEF PosibleCaida
    <3> QED
      BY <2>1, <3>1
  <2>5. Exclusivo'
    BY <1>1, <2>1, <2>2, ExclusivoDevolver
  <2> QED
    BY <2>4, <2>5
<1>4. CASE ~EjecutarWait /\ ~EjecutarSignal
  <2>1. UNCHANGED <<instancias, asignados, caido>>
    BY <1>4 DEF ConexionAtiende, RecursoInvalido, SinMemoria, IoSleep, IoSuelta, recursosVars
  <2> QED
    BY <2>1, ExclusivoIgual
<1> QED
  BY <1>2, <1>3, <1>4

CaidaInd == TipoInd /\ ReadyInd /\ CuentaNew /\ Sola /\ Exclusivo /\ ~caido

(* No step of a system with single holders dereferences NULL.              *)
LEMMA CaidaPaso ==
  ASSUME Eliminables = {}, CaidaInd, Next
  PROVE  Exclusivo' /\ ~caido'
<1>1. TipoInd /\ TypeOK /\ ReadyInd /\ CuentaNew /\ Sola /\ Exclusivo /\ ~caido
  BY DEF CaidaInd, TipoInd
<1>10. ~LiberarRecurso("consola")
  BY <1>1 DEF Sola, LiberarRecurso, MirarRecurso, DespertarUno, DevolverUna, EnVuelta
<1>2. CASE LiberarRecurso("conexion")
  BY <1>1, <1>2, ExclusivoLiberar
<1>3. CASE ConexionAtiende
  BY <1>1, <1>3, ExclusivoAtiende
<1>4. CASE LargoPasa
  <2>1. pc["largo"] = "pasar" /\ UNCHANGED <<instancias, asignados>>
    BY <1>4 DEF LargoPasa, recursosVars
  <2>2. cola_new # <<>>
    BY <1>1, <2>1, EmptySeq DEF CuentaNew, TypeOK
  <2>3. UNCHANGED caido
    BY <1>4, <2>2 DEF LargoPasa
  <2> QED
    BY <1>1, <2>1, <2>3, ExclusivoIgual
<1>5. CASE CortoDespacha
  <2>1. ~DespachaNulo
    BY <1>1, <1>5, ReadyCorto DEF PasoCorto
  <2>2. UNCHANGED <<instancias, asignados, caido>>
    BY <1>5, <2>1 DEF CortoDespacha, DespachaVrr, DespachaReady, recursosVars
  <2> QED
    BY <1>1, <2>2, ExclusivoIgual
<1>6. CASE Menu
  <2>1. ~EliminarPcb
    BY DEF EliminarPcb
  <2>2. UNCHANGED <<instancias, asignados, caido>>
    BY <1>6, <2>1 DEF Menu, IniciarProceso, DetenerPlanificacion, IniciarPlanificacion,
                    CambiarGrado, recursosVars
  <2> QED
    BY <1>1, <2>2, ExclusivoIgual
<1>7. CASE ConsolaArranque \/ BajarGrado \/ TerminarProceso("consola") \/ LargoEspera
           \/ LargoDetenido \/ CortoEspera \/ CortoDetenido
  <2>1. UNCHANGED <<instancias, asignados, caido>>
    BY <1>7 DEF ConsolaArranque, BajarGrado, TerminarProceso, LargoEspera, LargoDetenido,
              CortoEspera, CortoDetenido, recursosVars
  <2> QED
    BY <1>1, <2>1, ExclusivoIgual
<1>8. CASE ConexionRecibe \/ ConexionDetenida \/ ConexionBloquea \/ ConexionSuelta
           \/ TerminarProceso("conexion") \/ TerminarDevolucion
  <2>1. UNCHANGED <<instancias, asignados, caido>>
    BY <1>8 DEF ConexionRecibe, ConexionDetenida, ConexionBloquea, ConexionSuelta,
              TerminarProceso, TerminarDevolucion, recursosVars
  <2> QED
    BY <1>1, <2>1, ExclusivoIgual
<1>9. CASE Cpu \/ LlegaFinalizar \/ \E p \in Pid : FinQuantum(p) \/ VueltaIO(p)
  <2>1. UNCHANGED <<instancias, asignados, caido>>
    BY <1>9 DEF Cpu, LlegaFinalizar, FinQuantum, VueltaIO, recursosVars, kernelVars
  <2> QED
    BY <1>1, <2>1, ExclusivoIgual
<1> QED
  BY <1>2, <1>3, <1>4, <1>5, <1>6, <1>7, <1>8, <1>9, <1>10
  DEF Next, PasoConsola, PasoLargo, PasoCorto, PasoConexion

(* While the user kills nobody and no resource has a second instance, the  *)
(* kernel never dereferences the NULL of an empty queue nor frees garbage, *)
(* and a resource has one holder at a time.                                *)
THEOREM SinCaidas ==
  Eliminables = {} /\ DeUnaInstancia => (Spec => []NuncaCae)
<1>1. ASSUME DeUnaInstancia PROVE Init => CaidaInd
  <2> SUFFICES ASSUME Init PROVE CaidaInd
    OBVIOUS
  <2>1. ReadyInd /\ CuentaNew
    BY EmptySeq DEF Init, ReadyInd, CuentaReady, VrrVacia, CuentaNew
  <2>2. \A r \in Recurso : /\ instancias[r] = Instancias[r] /\ Instancias[r] \in Nat
                           /\ \A p \in Pid : asignados[p][r] = 0
    BY RecursosAssumption DEF Init, RecursosInit
  <2>3. Exclusivo
    BY <1>1, <2>2 DEF Exclusivo, DeUnaInstancia
  <2>4. ~caido
    BY DEF Init
  <2> QED
    BY <2>1, <2>3, <2>4, TipoInicial, SolaInicial DEF CaidaInd
<1>2. ASSUME Eliminables = {} PROVE CaidaInd /\ [Next]_vars => CaidaInd'
  <2>1. CaidaInd /\ Next => CaidaInd'
    BY <1>2, CaidaPaso, TipoPaso, ReadyPaso, NewPaso, SolaPaso DEF CaidaInd, TipoInd
  <2>2. ASSUME CaidaInd, UNCHANGED vars PROVE CaidaInd'
    <3>1. UNCHANGED <<instancias, asignados, cola_ready, cola_vrr, cola_new, sem_ready,
                      sem_new, algoritmo, pc, caido>>
      BY <2>2 DEF vars, recursosVars, kernelVars, colas, semaforos
    <3>2. TipoInd' /\ ReadyInd' /\ Exclusivo' /\ Sola'
      BY <2>2, <3>1, TipoIgual, ReadyIgual, ExclusivoIgual, SolaIgual DEF CaidaInd
    <3>3. CuentaNew'
      BY <2>2, <3>1 DEF CaidaInd, CuentaNew
    <3> QED
      BY <2>2, <3>1, <3>2, <3>3 DEF CaidaInd
  <2> QED
    BY <2>1, <2>2
<1>3. CaidaInd => NuncaCae
  BY DEF CaidaInd, NuncaCae
<1> QED
  <2> SUFFICES ASSUME Eliminables = {}, DeUnaInstancia PROVE Spec => []NuncaCae
    OBVIOUS
  <2> QED
    BY <1>1, <1>2, <1>3, PTL DEF Spec

-----------------------------------------------------------------------------
(* sem_exec in a Serial system.  The invariant says of each state who has  *)
(* the CPU (Manos) and, since the connection thread unlocks sem_exec in    *)
(* some of its branches only, which branches a Serial system can reach     *)
(* (Pedible, PedidosBuenos, SinMuertes).                                   *)

(* d has the CPU and nobody else does.                                     *)
Manos(d) ==
  /\ sem_exec = FALSE <=> d = "nadie"
  /\ pc["corto"] \in {"detenido", "despachar"} <=> d = "corto"
  /\ dispatch # <<>> <=> d = "viaje"
  /\ cpu_estado = "ciclo" <=> d = "ciclo"
  /\ respuestas # <<>> <=> d = "vuelta"
  /\ pc["conexion"] \in {"detenido", "atender", "liberar", "soltar"} <=> d = "conexion"
  /\ Len(dispatch) <= 1 /\ Len(respuestas) <= 1

(* The console never runs finalizar_pcb, and the mutex is free until the   *)
(* tail of the first iniciar_proceso has unlocked it.                      *)
Arranque ==
  /\ pc["consola"] \in {"menu", "arranque", "bajar"}
  /\ pc["consola"] = "arranque" => primero = TRUE
  /\ primero = TRUE => sem_exec = FALSE

(* Nobody asks the CPU to finish a process.                                *)
SinMuertes == hay_finalizar = FALSE /\ finalizar_en_vuelo = 0

(* The requests of a Serial system: no process runs out of memory, uses    *)
(* DIALFS or names an interface that is not connected.                     *)
Pedible(m) ==
  /\ m.op \notin {"OUT_OF_MEMORY", "IO_FS", "ENVIAR_FINALIZAR"}
  /\ m.op \in {"IO_SLEEP", "IO_STD"} => m.arg \in Interfaz
PedidosBuenos ==
  /\ respuestas # <<>> => Pedible(Head(respuestas))
  /\ pc["conexion"] \in {"detenido", "atender", "bloquear"} => Pedible(pedido)
  /\ pc["conexion"] = "bloquear" => pedido.op = "IO_STD"
  /\ pc["conexion"] = "liberar" => fin["conexion"].luego = "recv"

Reglas == Arranque /\ SinMuertes /\ PedidosBuenos
ExcInd == TipoInd /\ Reglas /\ \E d \in Dueno : Manos(d)

(* The invariant says who holds the CPU, hence that only one does.         *)
LEMMA ExclusionDeManos == ExcInd => ExclusionCpu
<1> SUFFICES ASSUME ExcInd PROVE ExclusionCpu
  OBVIOUS
<1> PICK d \in Dueno : Manos(d)
  BY DEF ExcInd
<1>1. sem_exec \in BOOLEAN
  BY DEF ExcInd, TipoInd, TypeOK
<1>2. ~sem_exec <=> sem_exec = FALSE
  BY <1>1
<1>3. \A e \in Dueno : Tiene(e) <=> e = d
  BY <1>2 DEF Manos, Tiene, Dueno
<1> QED
  BY <1>3 DEF ExclusionCpu, Manos

(* At the start sem_exec is free and every channel is empty.               *)
LEMMA ExcInicial == Init => ExcInd
<1> SUFFICES ASSUME Init PROVE ExcInd
  OBVIOUS
<1>1. Manos("nadie")
  BY DEF Init, CicloInit, Manos
<1>2. Reglas
  BY DEF Init, CicloInit, Reglas, Arranque, SinMuertes, PedidosBuenos
<1> QED
  BY <1>1, <1>2, TipoInicial DEF ExcInd, Dueno

(* What a step leaves where it was.                                        *)
LEMMA ManosQuietas ==
  ASSUME NEW d, Manos(d), UNCHANGED <<sem_exec, dispatch, respuestas, cpu_estado>>,
         pc'["corto"] = pc["corto"], pc'["conexion"] = pc["conexion"]
  PROVE  Manos(d)'
  BY DEF Manos

(* Requests stay grantable while nobody writes to the channel.             *)
LEMMA PedidosQuietos ==
  ASSUME PedidosBuenos, UNCHANGED <<respuestas, pedido, fin>>,
         pc'["conexion"] = pc["conexion"]
  PROVE  PedidosBuenos'
  BY DEF PedidosBuenos, Pedible

(* No ENVIAR_FINALIZAR appears while nobody sends one.                     *)
LEMMA MuertesQuietas ==
  SinMuertes /\ UNCHANGED <<hay_finalizar, finalizar_en_vuelo>> => SinMuertes'
  BY DEF SinMuertes

(* A stutter keeps the invariant.                                          *)
LEMMA ExcIgual == ExcInd /\ UNCHANGED vars => ExcInd'
<1> SUFFICES ASSUME ExcInd, UNCHANGED vars PROVE ExcInd'
  OBVIOUS
<1> PICK d \in Dueno : Manos(d)
  BY DEF ExcInd
<1>1. UNCHANGED <<sem_exec, dispatch, respuestas, cpu_estado, pedido, fin, pc, primero,
                  hay_finalizar, finalizar_en_vuelo>>
  BY DEF vars, kernelVars, consolaVars, cicloVars
<1>2. Manos(d)' /\ PedidosBuenos' /\ SinMuertes'
  BY <1>1, ManosQuietas, PedidosQuietos, MuertesQuietas DEF ExcInd, Reglas
<1>3. Arranque'
  BY <1>1 DEF ExcInd, Reglas, Arranque
<1> QED
  BY <1>2, <1>3, TipoIgual DEF ExcInd, Reglas

-----------------------------------------------------------------------------
(* The console: in a Serial system it touches nothing but its own place.   *)
LEMMA ExcConsola ==
  ASSUME Serial, ExcInd, Menu \/ PasoConsola
  PROVE  Reglas' /\ \E d \in Dueno : Manos(d)'
<1> PICK d \in Dueno : Manos(d)
  BY DEF ExcInd
<1>1. /\ pc \in [Hilo -> Punto] /\ primero \in BOOLEAN
      /\ pc["consola"] \in {"menu", "arranque", "bajar"}
      /\ pc["consola"] = "arranque" => primero = TRUE
      /\ primero = TRUE => sem_exec = FALSE
      /\ PedidosBuenos /\ SinMuertes
  BY DEF ExcInd, TipoInd, TypeOK, Reglas, Arranque
<1>2. ~EliminarPcb
  BY DEF Serial, EliminarPcb
<1>3. ~LiberarRecurso("consola") /\ ~TerminarProceso("consola")
  BY <1>1
  DEF LiberarRecurso, MirarRecurso, DespertarUno, DevolverUna, EnVuelta, TerminarProceso
<1>4. /\ UNCHANGED <<dispatch, respuestas, cpu_estado, pedido, fin, hay_finalizar,
                     finalizar_en_vuelo>>
      /\ pc'["corto"] = pc["corto"] /\ pc'["conexion"] = pc["conexion"]
      /\ UNCHANGED sem_exec /\ Arranque'
  <2>1. CASE IniciarProceso
    <3>1. UNCHANGED <<dispatch, respuestas, cpu_estado, pedido, fin, hay_finalizar,
                      finalizar_en_vuelo, sem_exec, primero>>
      BY <2>1 DEF IniciarProceso, cicloVars
    <3>2. CASE primero = TRUE
      BY <1>1, <2>1, <3>1, <3>2 DEF IniciarProceso, Ir, Hilo, Arranque
    <3>3. CASE primero = FALSE
      BY <1>1, <2>1, <3>1, <3>3 DEF IniciarProceso, Ir, Hilo, Arranque
    <3> QED
      BY <1>1, <3>2, <3>3
  <2>2. CASE DetenerPlanificacion
    BY <1>1, <2>2 DEF DetenerPlanificacion, cicloVars, Arranque
  <2>3. CASE IniciarPlanificacion
    BY <1>1, <2>3 DEF IniciarPlanificacion, cicloVars, Arranque
  <2>4. CASE CambiarGrado
    <3>1. UNCHANGED <<dispatch, respuestas, cpu_estado, pedido, fin, hay_finalizar,
                      finalizar_en_vuelo, sem_exec, primero>>
      BY <2>4 DEF CambiarGrado, cicloVars
    <3>2. pc' = pc \/ Ir("consola", "bajar")
      BY <2>4 DEF CambiarGrado
    <3> QED
      BY <1>1, <3>1, <3>2 DEF Ir, Hilo, Arranque
  <2>5. CASE BajarGrado
    <3>1. UNCHANGED <<dispatch, respuestas, cpu_estado, pedido, fin, hay_finalizar,
                      finalizar_en_vuelo, sem_exec, primero>>
      BY <2>5 DEF BajarGrado, cicloVars
    <3>2. pc' = pc \/ Ir("consola", "menu")
      BY <2>5 DEF BajarGrado
    <3> QED
      BY <1>1, <3>1, <3>2 DEF Ir, Hilo, Arranque
  <2>6. CASE ConsolaArranque
    <3>1. UNCHANGED <<dispatch, respuestas, cpu_estado, pedido, fin, hay_finalizar,
                      finalizar_en_vuelo>>
      BY <2>6 DEF ConsolaArranque, cicloVars
    <3>2. sem_exec' = FALSE /\ sem_exec = FALSE /\ primero' = FALSE /\ Ir("consola", "menu")
      BY <1>1, <2>6 DEF ConsolaArranque
    <3> QED
      BY <1>1, <3>1, <3>2 DEF Ir, Hilo, Arranque
  <2> QED
    BY <1>2, <1>3, <2>1, <2>2, <2>3, <2>4, <2>5, <2>6 DEF Menu, PasoConsola
<1>5. Manos(d)' /\ PedidosBuenos' /\ SinMuertes'
  BY <1>1, <1>4, ManosQuietas, PedidosQuietos, MuertesQuietas
<1> QED
  BY <1>4, <1>5 DEF Reglas

(* The long term planner never touches the CPU.                            *)
LEMMA ExcLargo ==
  ASSUME Serial, ExcInd, PasoLargo
  PROVE  Reglas' /\ \E d \in Dueno : Manos(d)'
<1> PICK d \in Dueno : Manos(d)
  BY DEF ExcInd
<1>1. pc \in [Hilo -> Punto] /\ PedidosBuenos /\ SinMuertes /\ Arranque
  BY DEF ExcInd, TipoInd, TypeOK, Reglas
<1>2. /\ UNCHANGED <<dispatch, respuestas, cpu_estado, pedido, fin, hay_finalizar,
                     finalizar_en_vuelo, sem_exec, primero>>
      /\ pc' = pc \/ \E x : Ir("largo", x)
  <2>1. CASE LargoEspera
    BY <2>1 DEF LargoEspera, cicloVars, cpuVars, canales, consolaVars
  <2>2. CASE LargoDetenido
    BY <2>2 DEF LargoDetenido, cicloVars, cpuVars, canales, consolaVars
  <2>3. CASE LargoPasa
    BY <2>3 DEF LargoPasa, cicloVars, cpuVars, canales, consolaVars
  <2> QED
    BY <2>1, <2>2, <2>3 DEF PasoLargo
<1>3. \A h \in {"consola", "corto", "conexion"} : pc'[h] = pc[h]
  BY <1>1, <1>2 DEF Ir, Hilo
<1>4. Manos(d)' /\ PedidosBuenos' /\ SinMuertes'
  BY <1>1, <1>2, <1>3, ManosQuietas, PedidosQuietos, MuertesQuietas
<1>5. Arranque'
  BY <1>1, <1>2, <1>3 DEF Arranque
<1> QED
  BY <1>4, <1>5 DEF Reglas

(* The short term planner takes the mutex and hands the CPU over.          *)
LEMMA ExcCorto ==
  ASSUME Serial, ExcInd, PasoCorto
  PROVE  Reglas' /\ \E d \in Dueno : Manos(d)'
<1> PICK d \in Dueno : Manos(d)
  BY DEF ExcInd
<1>1. /\ pc \in [Hilo -> Punto] /\ PedidosBuenos /\ SinMuertes /\ Arranque
      /\ sem_exec \in BOOLEAN /\ primero \in BOOLEAN /\ dispatch \in Seq(Despacho)
  BY DEF ExcInd, TipoInd, TypeOK, CicloTypeOK, Reglas
<1>2. UNCHANGED <<respuestas, cpu_estado, pedido, fin, hay_finalizar,
                  finalizar_en_vuelo, primero>>
  BY DEF PasoCorto, CortoEspera, CortoDetenido, CortoDespacha, cicloVars, canales, cpuVars,
         consolaVars
<1>3. pc' = pc \/ \E x : Ir("corto", x)
  BY DEF PasoCorto, CortoEspera, CortoDetenido, CortoDespacha, DespachaVrr, DespachaReady,
         DespachaNulo, EnviarPorDispatch
<1>4. \A h \in {"consola", "conexion"} : pc'[h] = pc[h]
  BY <1>1, <1>3 DEF Ir, Hilo
<1>5. PedidosBuenos' /\ SinMuertes'
  BY <1>1, <1>2, <1>4, PedidosQuietos, MuertesQuietas
<1>6. (primero = TRUE => sem_exec' = FALSE) /\ \E e \in Dueno : Manos(e)'
  <2>1. CASE CortoEspera
    <3>1. UNCHANGED dispatch
      BY <2>1 DEF CortoEspera, cicloVars, canales
    <3>2. CASE pc["corto"] = "ready"
      <4>1. pc'["corto"] = "exec" /\ UNCHANGED sem_exec
        BY <1>1, <2>1, <3>2 DEF CortoEspera, Ir, Hilo
      <4>2. Manos(d)'
        BY <1>2, <1>4, <3>1, <3>2, <4>1 DEF Manos
      <4> QED
        BY <1>1, <4>1, <4>2 DEF Arranque
    <3>3. CASE pc["corto"] = "exec"
      <4>1. /\ ~sem_exec
            /\ primero => ArranqueConCarrera
            /\ sem_exec' = TRUE /\ pc'["corto"] \in {"detenido", "despachar"}
        BY <1>1, <2>1, <3>3 DEF CortoEspera, Ir, Hilo
      <4>2. sem_exec = FALSE /\ primero = FALSE
        <5>1. ~primero
          BY <4>1 DEF Serial
        <5> QED
          BY <1>1, <4>1, <5>1
      <4>3. d = "nadie"
        BY <4>2 DEF Manos
      <4>4. Manos("corto")'
        BY <1>2, <1>4, <3>1, <4>1, <4>3 DEF Manos
      <4> QED
        BY <4>2, <4>4 DEF Dueno
    <3> QED
      BY <2>1, <3>2, <3>3 DEF CortoEspera
  <2>2. CASE CortoDetenido
    <3>1. UNCHANGED <<dispatch, sem_exec>>
      BY <2>2 DEF CortoDetenido, cicloVars, canales
    <3>2. pc["corto"] = "detenido" /\ pc'["corto"] = "despachar"
      BY <1>1, <2>2 DEF CortoDetenido, Ir, Hilo
    <3>3. Manos(d)'
      BY <1>2, <1>4, <3>1, <3>2 DEF Manos
    <3> QED
      BY <1>1, <3>1, <3>3 DEF Arranque
  <2>3. CASE CortoDespacha
    <3>1. pc["corto"] = "despachar" /\ UNCHANGED sem_exec
      BY <2>3 DEF CortoDespacha
    <3>2. d = "corto"
      BY <3>1 DEF Manos
    <3>3. CASE DespachaNulo
      <4>1. Manos(d)'
        BY <1>2, <3>1, <3>3, ManosQuietas DEF DespachaNulo
      <4> QED
        BY <1>1, <3>1, <4>1 DEF Arranque
    <3>4. CASE ~DespachaNulo
      <4>1. PICK p : EnviarPorDispatch(p)
        BY <2>3, <3>4 DEF CortoDespacha, DespachaVrr, DespachaReady
      <4>2. pc'["corto"] = "ready"
        BY <1>1, <4>1 DEF EnviarPorDispatch, Ir, Hilo
      <4>3. \E x : dispatch' = Append(dispatch, x)
        BY <4>1 DEF EnviarPorDispatch, EnviarPcb
      <4>4. dispatch = <<>>
        BY <3>2 DEF Manos
      <4>5. dispatch' # <<>> /\ Len(dispatch') <= 1
        BY <4>3, <4>4
      <4>6. Manos("viaje")'
        BY <1>2, <1>4, <3>1, <3>2, <4>2, <4>5 DEF Manos
      <4> QED
        BY <1>1, <3>1, <4>6 DEF Arranque, Dueno
    <3> QED
      BY <3>3, <3>4
  <2> QED
    BY <2>1, <2>2, <2>3 DEF PasoCorto
<1>7. Arranque'
  BY <1>1, <1>2, <1>4, <1>6 DEF Arranque
<1> QED
  BY <1>5, <1>6, <1>7 DEF Reglas

-----------------------------------------------------------------------------
(* A queue of one is empty once its head is taken.                         *)
LEMMA ColaDeUno ==
  ASSUME NEW S, NEW q \in Seq(S), q # <<>>, Len(q) <= 1
  PROVE  Tail(q) = <<>>
<1>1. Len(Tail(q)) = Len(q) - 1 /\ Tail(q) \in Seq(S) /\ Len(q) \in Nat \ {0}
  BY HeadTailProperties, EmptySeq
<1>2. Len(Tail(q)) = 0
  BY <1>1
<1> QED
  BY <1>1, <1>2, EmptySeq

(* The CPU takes the context that travels, executes it and sends it back;  *)
(* what it asks of a Serial system the kernel can grant.                   *)
LEMMA ExcCpu ==
  ASSUME Serial, ExcInd, Cpu
  PROVE  Reglas' /\ \E d \in Dueno : Manos(d)'
<1> PICK d \in Dueno : Manos(d)
  BY DEF ExcInd
<1>1. /\ PedidosBuenos /\ SinMuertes /\ Arranque /\ CicloTypeOK /\ CicloConContexto
      /\ dispatch \in Seq(Despacho) /\ respuestas \in Seq(Respuesta)
  BY DEF ExcInd, TipoInd, TypeOK, CicloTypeOK, Reglas
<1>2. UNCHANGED <<sem_exec, pc, pedido, fin, primero>>
  BY DEF Cpu, kernelVars, consolaVars
<1>3. CpuPaso
  BY DEF Cpu
<1>4. Arranque'
  BY <1>1, <1>2 DEF Arranque
<1>5. SinMuertes'
  BY <1>1, <1>3
  DEF SinMuertes, CpuPaso, CpuRecibe, CpuBajaBanderas, CpuFinaliza, CpuDesaloja,
      CpuInstruccion, CpuCalcula, CpuSalta, CpuPide, CpuTermina, Seguir, Responder
<1>6. PedidosBuenos' /\ \E e \in Dueno : Manos(e)'
  <2>1. CASE CpuRecibe
    <3>1. UNCHANGED <<dispatch, respuestas>> /\ cpu_estado = "ocioso"
          /\ cpu_estado' = "recibiendo"
      BY <2>1 DEF CpuRecibe, canales
    <3>2. Manos(d)'
      BY <1>2, <3>1 DEF Manos
    <3> QED
      BY <1>1, <1>2, <3>1, <3>2, PedidosQuietos
  <2>2. CASE CpuBajaBanderas
    <3>1. UNCHANGED respuestas /\ cpu_estado = "recibiendo" /\ cpu_estado' = "ciclo"
          /\ dispatch' = Tail(dispatch) /\ dispatch # <<>>
      BY <1>1, <2>2 DEF CpuBajaBanderas, CicloConContexto
    <3>2. d = "viaje" /\ Len(dispatch) <= 1
      BY <3>1 DEF Manos
    <3>3. dispatch' = <<>>
      BY <1>1, <3>1, <3>2, ColaDeUno
    <3>4. Len(dispatch') <= 1
      BY <3>3
    <3>5. Manos("ciclo")'
      BY <1>2, <3>1, <3>2, <3>3, <3>4 DEF Manos
    <3> QED
      BY <1>1, <1>2, <3>1, <3>5, PedidosQuietos DEF Dueno
  <2>3. CASE CpuCalcula \/ CpuSalta
    <3>1. UNCHANGED <<dispatch, respuestas, cpu_estado>>
      BY <2>3 DEF CpuCalcula, CpuSalta, Seguir, canales
    <3> QED
      BY <1>1, <1>2, <3>1, ManosQuietas, PedidosQuietos
  <2>4. CASE CpuFinaliza \/ CpuDesaloja \/ CpuPide \/ CpuTermina
    <3>1. PICK op, arg, ctx : Responder(op, arg, ctx) /\ Pedible([op |-> op, arg |-> arg, ctx |-> ctx])
      <4>1. CASE CpuFinaliza
        BY <1>1, <4>1 DEF CpuFinaliza, SinMuertes
      <4>2. CASE CpuDesaloja
        <5>1. Pedible([op |-> "ENVIAR_DESALOJAR", arg |-> "-", ctx |-> cpu_pcb])
          BY DEF Pedible
        <5> QED
          BY <4>2, <5>1 DEF CpuDesaloja
      <4>3. CASE CpuTermina
        <5>1. Pedible([op |-> "FINALIZAR", arg |-> "-", ctx |-> Avanzado])
          BY DEF Pedible
        <5> QED
          BY <4>3, <5>1 DEF CpuTermina
      <4>4. CASE CpuPide
        <5>1. PICK i \in {<<"WAIT", "EJECUTAR_WAIT">>, <<"SIGNAL", "EJECUTAR_SIGNAL">>,
                          <<"IO_GEN_SLEEP", "IO_SLEEP">>, <<"IO_STD", "IO_STD">>,
                          <<"IO_FS", "IO_FS">>, <<"RESIZE", "OUT_OF_MEMORY">>} :
                EnFetch({i[1]}) /\ Responder(i[2], Leida.arg, Avanzado)
          BY <4>4 DEF CpuPide
        <5>2. /\ Leida.op \notin {"RESIZE", "IO_FS"}
              /\ Leida.op \in {"IO_GEN_SLEEP", "IO_STD"} => Leida.arg \in Interfaz
          <6>1. cpu_pcb.pc + 1 \in DOMAIN Archivo /\ cpu_pcb \in Contexto
            BY <1>1, <5>1 DEF EnFetch, CicloTypeOK, CicloConContexto
          <6>2. script[cpu_pcb.pid] \in Script
            BY <1>1, <6>1 DEF CicloTypeOK, Contexto
          <6> QED
            BY <6>1, <6>2 DEF Serial, Leida, Archivo
        <5>3. Leida.op = i[1]
          BY <5>1 DEF EnFetch
        <5>4. Pedible([op |-> i[2], arg |-> Leida.arg, ctx |-> Avanzado])
          BY <5>2, <5>3 DEF Pedible
        <5> QED
          BY <5>1, <5>4
      <4> QED
        BY <2>4, <4>1, <4>2, <4>3, <4>4
    <3>2. cpu_estado = "ciclo"
      BY <2>4 DEF CpuFinaliza, CpuDesaloja, CpuPide, CpuTermina, EnFetch
    <3>3. d = "ciclo" /\ respuestas = <<>>
      BY <3>2 DEF Manos
    <3>4. /\ respuestas' = <<[op |-> op, arg |-> arg, ctx |-> ctx]>>
          /\ cpu_estado' = "ocioso" /\ UNCHANGED dispatch
      BY <3>1, <3>3 DEF Responder
    <3>5. respuestas' # <<>> /\ Len(respuestas') <= 1 /\ Pedible(Head(respuestas'))
      BY <3>1, <3>4
    <3>6. Manos("vuelta")'
      BY <1>2, <3>2, <3>3, <3>4, <3>5 DEF Manos
    <3>7. PedidosBuenos'
      BY <1>1, <1>2, <3>5 DEF PedidosBuenos, Pedible
    <3> QED
      BY <3>6, <3>7 DEF Dueno
  <2> QED
    BY <1>3, <2>1, <2>2, <2>3, <2>4 DEF CpuPaso, CpuInstruccion
<1> QED
  BY <1>4, <1>5, <1>6 DEF Reglas

(* Timers and interfaces leave the CPU where it is.                        *)
LEMMA ExcOtros ==
  ASSUME Serial, ExcInd, LlegaFinalizar \/ \E p \in Pid : FinQuantum(p) \/ VueltaIO(p)
  PROVE  Reglas' /\ \E d \in Dueno : Manos(d)'
<1> PICK d \in Dueno : Manos(d)
  BY DEF ExcInd
<1>1. PedidosBuenos /\ SinMuertes /\ Arranque
  BY DEF ExcInd, Reglas
<1>2. ~LlegaFinalizar
  BY <1>1 DEF LlegaFinalizar, InterrupcionFinalizar, SinMuertes
<1>3. PICK p \in Pid : FinQuantum(p) \/ VueltaIO(p)
  BY <1>2
<1>4. UNCHANGED <<sem_exec, pc, pedido, fin, primero, dispatch, respuestas, cpu_estado,
                  hay_finalizar, finalizar_en_vuelo>>
  BY <1>3
  DEF FinQuantum, InterrupcionQuantum, VueltaIO, kernelVars, consolaVars, cicloVars,
      canales, cpuVars
<1>5. Manos(d)' /\ PedidosBuenos' /\ SinMuertes'
  BY <1>1, <1>4, ManosQuietas, PedidosQuietos, MuertesQuietas
<1>6. Arranque'
  BY <1>1, <1>4 DEF Arranque
<1> QED
  BY <1>5, <1>6 DEF Reglas

-----------------------------------------------------------------------------
(* The connection thread: its first step on an answer of the CPU ...       *)
LEMMA ExcRecibe ==
  ASSUME Serial, ExcInd, ConexionRecibe
  PROVE  Reglas' /\ \E d \in Dueno : Manos(d)'
<1> PICK d \in Dueno : Manos(d)
  BY DEF ExcInd
<1>1. /\ pc \in [Hilo -> Punto] /\ PedidosBuenos /\ SinMuertes /\ Arranque
      /\ respuestas \in Seq(Respuesta) /\ fin \in [{"consola", "conexion"} -> Fin]
  BY DEF ExcInd, TipoInd, TypeOK, CicloTypeOK, Reglas
<1>2. /\ pc["conexion"] = "recv" /\ respuestas # <<>> /\ respuestas' = Tail(respuestas)
      /\ UNCHANGED <<dispatch, cpu_estado, hay_finalizar, finalizar_en_vuelo, primero>>
  BY DEF ConexionRecibe, cpuVars, consolaVars
<1>3. d = "vuelta" /\ Len(respuestas) <= 1 /\ Pedible(Head(respuestas))
  BY <1>1, <1>2 DEF Manos, PedidosBuenos
<1>4. respuestas' = <<>> /\ Len(respuestas') <= 1
  BY <1>1, <1>2, <1>3, ColaDeUno
<1>5. SinMuertes'
  BY <1>1, <1>2, MuertesQuietas
<1>6. pc' = pc \/ \E x : Ir("conexion", x)
  BY DEF ConexionRecibe, RecibirPedido, RecibirDesalojo, RecibirFinalizado, RecibirFin,
         FinalizarPcb
<1>7. pc'["consola"] = pc["consola"] /\ pc'["corto"] = pc["corto"]
  BY <1>1, <1>6 DEF Ir, Hilo
<1>8. /\ PedidosBuenos' /\ \E e \in Dueno : Manos(e)'
      /\ sem_exec' = FALSE \/ UNCHANGED sem_exec
  <2>1. CASE RecibirPedido
    <3>1. pc'["conexion"] \in {"detenido", "atender"} /\ pedido' = Head(respuestas)
          /\ UNCHANGED sem_exec
      BY <1>1, <2>1 DEF RecibirPedido, Ir, Hilo
    <3>2. Manos("conexion")'
      BY <1>2, <1>3, <1>4, <1>7, <3>1 DEF Manos
    <3>3. PedidosBuenos'
      BY <1>3, <1>4, <3>1 DEF PedidosBuenos, Pedible
    <3> QED
      BY <3>1, <3>2, <3>3 DEF Dueno
  <2>2. CASE RecibirDesalojo
    <3>1. sem_exec' = FALSE /\ UNCHANGED <<pc, pedido, fin>>
      BY <2>2 DEF RecibirDesalojo
    <3>2. Manos("nadie")'
      BY <1>2, <1>3, <1>4, <1>7, <3>1 DEF Manos
    <3>3. PedidosBuenos'
      BY <1>2, <1>4, <3>1 DEF PedidosBuenos
    <3> QED
      BY <3>1, <3>2, <3>3 DEF Dueno
  <2>3. CASE RecibirFin
    <3>1. PICK p, pid : FinalizarPcb("conexion", p, pid, "recv") /\ UNCHANGED sem_exec
      BY <2>3 DEF RecibirFin
    <3>2. pc'["conexion"] = "liberar" /\ fin'["conexion"].luego = "recv"
      BY <1>1, <3>1 DEF FinalizarPcb, LiberarDesde, Ir, Hilo
    <3>3. Manos("conexion")'
      BY <1>2, <1>3, <1>4, <1>7, <3>1, <3>2 DEF Manos
    <3>4. PedidosBuenos'
      BY <1>4, <3>2 DEF PedidosBuenos
    <3> QED
      BY <3>1, <3>3, <3>4 DEF Dueno
  <2>4. ~RecibirFinalizado
    BY <1>3 DEF RecibirFinalizado, Pedible
  <2> QED
    BY <2>1, <2>2, <2>3, <2>4 DEF ConexionRecibe
<1>9. Arranque'
  BY <1>1, <1>2, <1>7, <1>8 DEF Arranque
<1> QED
  BY <1>5, <1>8, <1>9 DEF Reglas

(* ... the request it serves: every branch of a Serial system either gives *)
(* the CPU back to the process or unlocks sem_exec, never both ...         *)
LEMMA ExcAtiende ==
  ASSUME Serial, ExcInd, ConexionAtiende
  PROVE  Reglas' /\ \E d \in Dueno : Manos(d)'
<1> PICK d \in Dueno : Manos(d)
  BY DEF ExcInd
<1>1. /\ pc \in [Hilo -> Punto] /\ PedidosBuenos /\ SinMuertes /\ Arranque
      /\ dispatch \in Seq(Despacho) /\ fin \in [{"consola", "conexion"} -> Fin]
  BY DEF ExcInd, TipoInd, TypeOK, CicloTypeOK, Reglas
<1>2. /\ pc["conexion"] = "atender"
      /\ UNCHANGED <<respuestas, cpu_estado, hay_finalizar, finalizar_en_vuelo, primero>>
  BY DEF ConexionAtiende, cpuVars, consolaVars
<1>3. d = "conexion" /\ Pedible(pedido) /\ dispatch = <<>> /\ respuestas = <<>>
  BY <1>1, <1>2 DEF Manos, PedidosBuenos
<1>4. SinMuertes'
  BY <1>1, <1>2, MuertesQuietas
<1>5. ~SinMemoria
  BY <1>3 DEF SinMemoria, Pedible
<1>6. \E x : Ir("conexion", x)
  BY <1>5
  DEF ConexionAtiende, EjecutarWait, EjecutarSignal, RecursoInvalido, IoSleep, IoSuelta,
      EjecutarIO, FinalizarPcb
<1>7. pc'["consola"] = pc["consola"] /\ pc'["corto"] = pc["corto"]
  BY <1>1, <1>6 DEF Ir, Hilo
<1>8. ASSUME pc'["conexion"] \in {"recv", "devolver", "soltar"} PROVE PedidosBuenos'
  BY <1>2, <1>3, <1>8 DEF PedidosBuenos
<1>9. ASSUME NEW p, NEW q, EnviarPcb(p, q), UNCHANGED sem_exec, pc'["conexion"] = "recv"
      PROVE  Manos("viaje")'
  <2>1. dispatch' # <<>> /\ Len(dispatch') <= 1
    BY <1>3, <1>9 DEF EnviarPcb
  <2> QED
    BY <1>2, <1>3, <1>7, <1>9, <2>1 DEF Manos
<1>10. ASSUME sem_exec' = FALSE, UNCHANGED dispatch,
              pc'["conexion"] \in {"recv", "devolver", "bloquear"}
       PROVE  Manos("nadie")'
  BY <1>2, <1>3, <1>7, <1>10 DEF Manos
<1>11. /\ PedidosBuenos' /\ \E e \in Dueno : Manos(e)'
       /\ sem_exec' = FALSE \/ UNCHANGED sem_exec
  <2>1. CASE EjecutarWait
    <3>1. pc'["conexion"] = "recv"
      BY <1>1, <2>1 DEF EjecutarWait, Ir, Hilo
    <3>2. CASE Conceder(running, pedido.arg)
      <4>1. EnviarPcb(running, FALSE) /\ UNCHANGED sem_exec
        BY <3>2 DEF Conceder
      <4> QED
        BY <1>8, <1>9, <3>1, <4>1 DEF Dueno
    <3>3. CASE Bloquear(running, pedido.arg)
      <4>1. sem_exec' = FALSE /\ UNCHANGED dispatch
        BY <3>3 DEF Bloquear
      <4> QED
        BY <1>8, <1>10, <3>1, <4>1 DEF Dueno
    <3> QED
      BY <2>1, <3>2, <3>3 DEF EjecutarWait
  <2>2. CASE EjecutarSignal
    <3>1. pc'["conexion"] = "recv" /\ EnviarPcb(running, FALSE) /\ UNCHANGED sem_exec
      BY <1>1, <2>2 DEF EjecutarSignal, Ir, Hilo
    <3> QED
      BY <1>8, <1>9, <3>1 DEF Dueno
  <2>3. CASE RecursoInvalido
    <3>1. pc'["conexion"] = "devolver" /\ sem_exec' = FALSE /\ UNCHANGED dispatch
      BY <1>1, <2>3 DEF RecursoInvalido, LiberarProceso, Ir, Hilo
    <3> QED
      BY <1>8, <1>10, <3>1 DEF Dueno
  <2>4. CASE IoSleep
    <3>1. pedido.arg \in Interfaz
      BY <1>3, <2>4 DEF IoSleep, Pedible
    <3>2. Ir("conexion", "soltar") /\ UNCHANGED <<sem_exec, dispatch>>
      BY <2>4, <3>1 DEF IoSleep, EjecutarIO
    <3>3. pc'["conexion"] = "soltar"
      BY <1>1, <3>2 DEF Ir, Hilo
    <3>4. Manos(d)'
      BY <1>2, <1>3, <1>7, <3>2, <3>3 DEF Manos
    <3> QED
      BY <1>8, <3>2, <3>3, <3>4
  <2>5. CASE IoSuelta
    <3>1. sem_exec' = FALSE /\ UNCHANGED dispatch /\ pc'["conexion"] = "bloquear"
      BY <1>1, <2>5 DEF IoSuelta, Ir, Hilo
    <3>2. UNCHANGED pedido /\ pedido.op = "IO_STD"
      BY <1>3, <2>5, <3>1 DEF ConexionAtiende, IoSuelta, Pedible
    <3>3. PedidosBuenos'
      BY <1>2, <1>3, <3>1, <3>2 DEF PedidosBuenos, Pedible
    <3> QED
      BY <1>10, <3>1, <3>3 DEF Dueno
  <2> QED
    BY <1>5, <2>1, <2>2, <2>3, <2>4, <2>5 DEF ConexionAtiende
<1>12. Arranque'
  BY <1>1, <1>2, <1>7, <1>11 DEF Arranque
<1> QED
  BY <1>4, <1>11, <1>12 DEF Reglas

(* ... and what it does besides.                                           *)
LEMMA ExcConexion ==
  ASSUME Serial, ExcInd, PasoConexion
  PROVE  Reglas' /\ \E d \in Dueno : Manos(d)'
<1> PICK d \in Dueno : Manos(d)
  BY DEF ExcInd
<1>1. /\ pc \in [Hilo -> Punto] /\ PedidosBuenos /\ SinMuertes /\ Arranque
      /\ fin \in [{"consola", "conexion"} -> Fin]
  BY DEF ExcInd, TipoInd, TypeOK, Reglas
<1>2. CASE ConexionRecibe \/ ConexionAtiende
  BY <1>2, ExcRecibe, ExcAtiende
<1>3. CASE ~ConexionRecibe /\ ~ConexionAtiende
  <2>1. UNCHANGED <<dispatch, respuestas, cpu_estado, hay_finalizar, finalizar_en_vuelo,
                    primero>>
    BY <1>3, LiberarQuieto
    DEF PasoConexion, ConexionDetenida, ConexionBloquea, ConexionSuelta, TerminarProceso,
        TerminarDevolucion, cicloVars, canales, cpuVars, consolaVars
  <2>2. SinMuertes'
    BY <1>1, <2>1, MuertesQuietas
  <2>3. /\ PedidosBuenos' /\ \E e \in Dueno : Manos(e)'
        /\ sem_exec' = FALSE \/ UNCHANGED sem_exec
        /\ pc'["consola"] = pc["consola"]
    <3>1. CASE ConexionDetenida
      <4>1. /\ pc["conexion"] = "detenido" /\ pc'["conexion"] = "atender"
            /\ pc'["consola"] = pc["consola"] /\ pc'["corto"] = pc["corto"]
            /\ UNCHANGED <<sem_exec, pedido, fin>>
        BY <1>1, <3>1 DEF ConexionDetenida, Ir, Hilo
      <4>2. Manos(d)'
        BY <2>1, <4>1 DEF Manos
      <4>3. PedidosBuenos'
        BY <1>1, <2>1, <4>1 DEF PedidosBuenos, Pedible
      <4> QED
        BY <4>1, <4>2, <4>3
    <3>2. CASE ConexionBloquea
      <4>1. pc["conexion"] = "bloquear" /\ UNCHANGED sem_exec
        BY <3>2 DEF ConexionBloquea
      <4>2. Pedible(pedido) /\ pedido.arg \in Interfaz => Ir("conexion", "recv")
        BY <3>2 DEF ConexionBloquea, EjecutarIO
      <4>3. Pedible(pedido)
        BY <1>1, <4>1 DEF PedidosBuenos
      <4>4. pedido.arg \in Interfaz
        BY <1>1, <4>1, <4>3 DEF Pedible, PedidosBuenos
      <4>5. pc'["conexion"] = "recv" /\ pc'["consola"] = pc["consola"]
            /\ pc'["corto"] = pc["corto"]
        BY <1>1, <4>2, <4>3, <4>4 DEF Ir, Hilo
      <4>6. Manos(d)'
        BY <2>1, <4>1, <4>5 DEF Manos
      <4>7. PedidosBuenos'
        BY <1>1, <2>1, <4>5 DEF PedidosBuenos, Pedible
      <4> QED
        BY <4>1, <4>5, <4>6, <4>7
    <3>3. CASE ConexionSuelta \/ TerminarProceso("conexion")
      <4>1. pc["conexion"] \in {"soltar", "liberar"} /\ sem_exec' = FALSE
        BY <3>3 DEF ConexionSuelta, TerminarProceso, LiberarProceso
      <4>2. Ir("conexion", "recv")
        BY <1>1, <3>3 DEF ConexionSuelta, TerminarProceso, PedidosBuenos
      <4>3. pc'["conexion"] = "recv" /\ pc'["consola"] = pc["consola"]
            /\ pc'["corto"] = pc["corto"]
        BY <1>1, <4>2 DEF Ir, Hilo
      <4>4. d = "conexion"
        BY <4>1 DEF Manos
      <4>5. Manos("nadie")'
        BY <2>1, <4>1, <4>3, <4>4 DEF Manos
      <4>6. PedidosBuenos'
        BY <1>1, <2>1, <4>3 DEF PedidosBuenos, Pedible
      <4> QED
        BY <4>1, <4>3, <4>5, <4>6 DEF Dueno
    <3>4. CASE LiberarRecurso("conexion")
      <4>1. UNCHANGED <<sem_exec, pc, pedido>>
        BY <3>4, LiberarQuieto
      <4>2. fin'["conexion"].luego = fin["conexion"].luego
        BY <1>1, <3>4, LiberarMismo
      <4>3. PedidosBuenos'
        BY <1>1, <2>1, <4>1, <4>2 DEF PedidosBuenos, Pedible
      <4> QED
        BY <2>1, <4>1, <4>3, ManosQuietas
    <3>5. CASE TerminarDevolucion
      <4>1. pc["conexion"] = "devolver" /\ UNCHANGED sem_exec /\ Ir("conexion", "recv")
        BY <3>5 DEF TerminarDevolucion
      <4>2. pc'["conexion"] = "recv" /\ pc'["consola"] = pc["consola"]
            /\ pc'["corto"] = pc["corto"]
        BY <1>1, <4>1 DEF Ir, Hilo
      <4>3. Manos(d)'
        BY <2>1, <4>1, <4>2 DEF Manos
      <4>4. PedidosBuenos'
        BY <1>1, <2>1, <4>2 DEF PedidosBuenos, Pedible
      <4> QED
        BY <4>1, <4>2, <4>3, <4>4
    <3> QED
      BY <1>3, <3>1, <3>2, <3>3, <3>4, <3>5 DEF PasoConexion
  <2>4. Arranque'
    BY <1>1, <2>1, <2>3 DEF Arranque
  <2> QED
    BY <2>2, <2>3, <2>4 DEF Reglas
<1> QED
  BY <1>2, <1>3

-----------------------------------------------------------------------------
(* One dispatch at a time: in a Serial system sem_exec is free or exactly  *)
(* one thread, packet or cycle of the CPU carries the right to the CPU.    *)
THEOREM UnSoloDueno == Serial => (Spec => []ExclusionCpu)
<1>1. Init => ExcInd
  BY ExcInicial
<1>2. Serial /\ ExcInd /\ [Next]_vars => ExcInd'
  <2> SUFFICES ASSUME Serial, ExcInd, Next PROVE ExcInd'
    BY ExcIgual
  <2>1. TipoInd'
    BY TipoPaso DEF ExcInd
  <2>2. Reglas' /\ \E d \in Dueno : Manos(d)'
    BY ExcConsola, ExcLargo, ExcCorto, ExcCpu, ExcOtros, ExcConexion DEF Next
  <2> QED
    BY <2>1, <2>2 DEF ExcInd
<1>3. ExcInd => ExclusionCpu
  BY ExclusionDeManos
<1> QED
  <2> SUFFICES ASSUME Serial PROVE Spec => []ExclusionCpu
    OBVIOUS
  <2> QED
    BY <1>1, <1>2, <1>3, PTL DEF Spec
=============================================================================
