-------------------------- MODULE Recursos_proofs --------------------------
(***************************************************************************)
(* The instances of the resources: while no process is killed none is      *)
(* created or lost (Conservacion), and in a Serial system none dies with   *)
(* its holder (SinFuga) and no blocked process sleeps over one that nobody *)
(* comes for (NoDespertarPerdido); for every number of processes, every    *)
(* list of resources, every number of instances and every set of scripts.  *)
(***************************************************************************)
EXTENDS Lugares_proofs

-----------------------------------------------------------------------------
(* Counting the instances held.                                            *)

(* A pair of Tenencias is a process and the number of one of its instances.*)
LEMMA EnTenencias ==
  ASSUME NEW S, NEW r
  PROVE  \A x : x \in Tenencias(S, r) <=>
                  \E p \in S : \E i \in 1 .. asignados[p][r] : x = <<p, i>>
  BY DEF Tenencias

(* A finite set of processes holds a finite number of instances.           *)
LEMMA TenenciasFinitas ==
  ASSUME RecursosTypeOK, NEW S \in SUBSET Pid, NEW r \in Recurso
  PROVE  IsFiniteSet(Tenencias(S, r)) /\ Cardinality(Tenencias(S, r)) \in Nat
<1> DEFINE f == [p \in S |-> {<<p, i>> : i \in 1 .. asignados[p][r]}]
           T == {{<<p, i>> : i \in 1 .. asignados[p][r]} : p \in S}
<1>1. IsFiniteSet(S)
  <2>1. 0 \in Int /\ NProcesos - 1 \in Int
    BY NProcesosAssumption
  <2>2. IsFiniteSet(Pid)
    BY <2>1, FS_Interval DEF Pid
  <2> QED
    BY <2>2, FS_Subset
<1>2. f \in Surjection(S, T)
  BY DEF Surjection
<1>3. IsFiniteSet(T)
  BY <1>1, <1>2, FS_Surjection
<1>4. \A U \in T : IsFiniteSet(U)
  <2> SUFFICES ASSUME NEW p \in S PROVE IsFiniteSet({<<p, i>> : i \in 1 .. asignados[p][r]})
    OBVIOUS
  <2> DEFINE a == asignados[p][r]
  <2>1. a \in Nat
    BY DEF RecursosTypeOK
  <2> HIDE DEF a
  <2>2. 1 \in Int /\ a \in Int
    BY <2>1
  <2>3. IsFiniteSet({p} \X (1 .. a))
    BY <2>2, FS_Interval, FS_Singleton, FS_Product
  <2>4. {<<p, i>> : i \in 1 .. a} = {p} \X (1 .. a)
    OBVIOUS
  <2> QED
    BY <2>3, <2>4 DEF a
<1>5. IsFiniteSet(Tenencias(S, r))
  BY <1>3, <1>4, FS_UNION DEF Tenencias
<1> QED
  BY <1>5, FS_CardinalityType

(* ejecutar_wait: one instance more in the hands of pid.                   *)
LEMMA TenenciasMas ==
  ASSUME RecursosTypeOK, NEW pid \in Pid, NEW r \in Recurso, NEW d,
         Otorgar(pid, r, d), NEW s \in Recurso
  PROVE  Cardinality(Tenencias(Pid, s))'
           = Cardinality(Tenencias(Pid, s)) + IF s = r THEN 1 ELSE 0
<1>1. /\ \A p \in Pid : asignados[p] \in [Recurso -> Nat]
      /\ \A p \in Pid : asignados'[p][s] =
           IF p = pid /\ s = r THEN asignados[p][s] + 1 ELSE asignados[p][s]
  BY DEF RecursosTypeOK, Otorgar
<1>2. CASE s # r
  <2>1. Tenencias(Pid, s)' = Tenencias(Pid, s)
    BY <1>1, <1>2 DEF Tenencias
  <2> QED
    BY <1>2, <2>1, TenenciasFinitas
<1>3. CASE s = r
  <2> DEFINE a == asignados[pid][r]
             x == <<pid, a + 1>>
  <2>1. a \in Nat
    BY <1>1
  <2>2. x \notin Tenencias(Pid, s)
    BY <1>3, <2>1 DEF Tenencias
  <2>3. Tenencias(Pid, s)' = Tenencias(Pid, s) \cup {x}
    <3>1. \A p \in Pid : \A i : i \in 1 .. asignados'[p][s]
                                  <=> i \in 1 .. asignados[p][s] \/ (p = pid /\ i = a + 1)
      <4> SUFFICES ASSUME NEW p \in Pid, NEW i
                   PROVE  i \in 1 .. asignados'[p][s]
                            <=> i \in 1 .. asignados[p][s] \/ (p = pid /\ i = a + 1)
        OBVIOUS
      <4>1. CASE p = pid
        <5>1. asignados'[p][s] = a + 1 /\ asignados[p][s] = a
          BY <1>1, <1>3, <4>1
        <5> HIDE DEF a
        <5> QED
          BY <2>1, <4>1, <5>1
      <4>2. CASE p # pid
        BY <1>1, <4>2
      <4> QED
        BY <4>1, <4>2
    <3>2. \A y : y \in Tenencias(Pid, s)' <=> y \in Tenencias(Pid, s) \/ y = x
      BY <3>1 DEF Tenencias
    <3> QED
      BY <3>2
  <2> HIDE DEF x
  <2>4. Cardinality(Tenencias(Pid, s) \cup {x}) = Cardinality(Tenencias(Pid, s)) + 1
    BY <2>2, TenenciasFinitas, FS_AddElement
  <2> QED
    BY <1>3, <2>3, <2>4
<1> QED
  BY <1>2, <1>3

(* ejecutar_signal, liberar_recursos: one less of those that pid has.      *)
LEMMA TenenciasMenos ==
  ASSUME RecursosTypeOK, NEW pid \in Pid, NEW r \in Recurso, NEW d,
         asignados[pid][r] > 0, Devolver(pid, r, d), NEW s \in Recurso
  PROVE  Cardinality(Tenencias(Pid, s))'
           = Cardinality(Tenencias(Pid, s)) - IF s = r THEN 1 ELSE 0
<1>1. /\ \A p \in Pid : asignados[p] \in [Recurso -> Nat]
      /\ \A p \in Pid : asignados'[p][s] =
           IF p = pid /\ s = r THEN asignados[p][s] - 1 ELSE asignados[p][s]
  BY DEF RecursosTypeOK, Devolver
<1>2. CASE s # r
  <2>1. Tenencias(Pid, s)' = Tenencias(Pid, s)
    BY <1>1, <1>2 DEF Tenencias
  <2> QED
    BY <1>2, <2>1, TenenciasFinitas
<1>3. CASE s = r
  <2> DEFINE a == asignados[pid][r]
             x == <<pid, a>>
  <2>1. a \in Nat \ {0}
    BY <1>1
  <2>2. x \in Tenencias(Pid, s)
    BY <1>3, <2>1 DEF Tenencias
  <2>3. Tenencias(Pid, s)' = Tenencias(Pid, s) \ {x}
    <3>1. \A p \in Pid : \A i : i \in 1 .. asignados'[p][s]
                                  <=> i \in 1 .. asignados[p][s] /\ ~(p = pid /\ i = a)
      <4> SUFFICES ASSUME NEW p \in Pid, NEW i
                   PROVE  i \in 1 .. asignados'[p][s]
                            <=> i \in 1 .. asignados[p][s] /\ ~(p = pid /\ i = a)
        OBVIOUS
      <4>1. CASE p = pid
        <5>1. asignados'[p][s] = a - 1 /\ asignados[p][s] = a
          BY <1>1, <1>3, <4>1
        <5> HIDE DEF a
        <5> QED
          BY <2>1, <4>1, <5>1
      <4>2. CASE p # pid
        BY <1>1, <4>2
      <4> QED
        BY <4>1, <4>2
    <3>2. \A y : y \in Tenencias(Pid, s)' <=> y \in Tenencias(Pid, s) /\ y # x
      BY <3>1 DEF Tenencias
    <3> QED
      BY <3>2
  <2> HIDE DEF x
  <2>4. Cardinality(Tenencias(Pid, s) \ {x}) = Cardinality(Tenencias(Pid, s)) - 1
    BY <2>2, TenenciasFinitas, FS_RemoveElement
  <2> QED
    BY <1>3, <2>3, <2>4
<1> QED
  BY <1>2, <1>3

-----------------------------------------------------------------------------
(* What a resource has free plus what is held of it stays.                 *)
LEMMA ConservaOtorgar ==
  ASSUME RecursosTypeOK, InstanciasCuadran, NEW pid \in Pid, NEW r \in Recurso,
         Otorgar(pid, r, 1)
  PROVE  InstanciasCuadran'
<1> SUFFICES ASSUME NEW s \in Recurso
             PROVE  instancias'[s] + Cardinality(Tenencias(Pid, s))' = Instancias[s]
  BY DEF InstanciasCuadran
<1> DEFINE c == Cardinality(Tenencias(Pid, s))
<1>1. instancias[s] + c = Instancias[s]
  BY DEF InstanciasCuadran
<1>2. c' = c + (IF s = r THEN 1 ELSE 0) /\ c \in Nat
  BY TenenciasMas, TenenciasFinitas
<1>3. /\ instancias[s] \in Nat
      /\ instancias'[s] = instancias[s] - IF s = r THEN 1 ELSE 0
  BY DEF RecursosTypeOK, Otorgar
<1>4. c' = Cardinality(Tenencias(Pid, s))'
  OBVIOUS
<1> HIDE DEF c
<1>5. instancias'[s] + c' = Instancias[s]
  <2>1. PICK k \in Nat : k = IF s = r THEN 1 ELSE 0
    OBVIOUS
  <2>2. c' = c + k /\ instancias'[s] = instancias[s] - k
    BY <1>2, <1>3, <2>1
  <2> QED
    BY <1>1, <1>2, <1>3, <2>2
<1> QED
  BY <1>4, <1>5

(* Giving back an instance that the process has.                           *)
LEMMA ConservaDevolver ==
  ASSUME RecursosTypeOK, InstanciasCuadran, NEW pid \in Pid, NEW r \in Recurso,
         asignados[pid][r] > 0, Devolver(pid, r, 1)
  PROVE  InstanciasCuadran'
<1> SUFFICES ASSUME NEW s \in Recurso
             PROVE  instancias'[s] + Cardinality(Tenencias(Pid, s))' = Instancias[s]
  BY DEF InstanciasCuadran
<1> DEFINE c == Cardinality(Tenencias(Pid, s))
<1>1. instancias[s] + c = Instancias[s]
  BY DEF InstanciasCuadran
<1>2. c' = c - (IF s = r THEN 1 ELSE 0) /\ c \in Nat
  BY TenenciasMenos, TenenciasFinitas
<1>3. /\ instancias[s] \in Nat
      /\ instancias'[s] = instancias[s] + IF s = r THEN 1 ELSE 0
  BY DEF RecursosTypeOK, Devolver
<1>4. c' = Cardinality(Tenencias(Pid, s))'
  OBVIOUS
<1> HIDE DEF c
<1>5. instancias'[s] + c' = Instancias[s]
  <2>1. PICK k \in Nat : k = IF s = r THEN 1 ELSE 0
    OBVIOUS
  <2>2. c' = c - k /\ instancias'[s] = instancias[s] + k
    BY <1>2, <1>3, <2>1
  <2> QED
    BY <1>1, <1>2, <1>3, <2>2
<1> QED
  BY <1>4, <1>5

(* A step that touches neither the free ones nor the held ones.            *)
LEMMA ConservaIgual == InstanciasCuadran /\ UNCHANGED <<instancias, asignados>> => InstanciasCuadran'
  BY DEF InstanciasCuadran, Tenencias

(* The console gives nothing back while it finishes nobody, and without    *)
(* option 3 it never does.                                                 *)
LEMMA ConsolaNoLibera ==
  ASSUME pc["consola"] \in {"menu", "arranque", "bajar"}
  PROVE  ~LiberarRecurso("consola") /\ ~TerminarProceso("consola")
  BY DEF LiberarRecurso, MirarRecurso, DespertarUno, DevolverUna, EnVuelta, TerminarProceso
LEMMA ConsolaNoFinaliza ==
  ASSUME Eliminables = {}, pc["consola"] \in {"menu", "arranque", "bajar"}
  PROVE  ~EliminarPcb /\ ~LiberarRecurso("consola") /\ ~TerminarProceso("consola")
  BY ConsolaNoLibera DEF EliminarPcb

(* Every step but the one that uses option 3.                              *)
LEMMA ConservaPaso ==
  ASSUME ~EliminarPcb, TipoInd, Sola, InstanciasCuadran, Next
  PROVE  InstanciasCuadran'
<1>1. /\ RecursosTypeOK /\ TypeOK
      /\ fin \in [{"consola", "conexion"} -> Fin] /\ pcb \in [Pid -> Pcb]
      /\ running \in Pid \cup {NADIE} /\ pc["consola"] \in {"menu", "arranque", "bajar"}
  BY DEF TipoInd, TypeOK, Sola
<1>2. CASE LiberarRecurso("conexion")
  <2>1. CASE MirarRecurso("conexion") \/ DespertarUno("conexion")
    BY <2>1, ConservaIgual DEF MirarRecurso, DespertarUno, recursosVars
  <2>2. CASE DevolverUna("conexion")
    <3> DEFINE p == fin["conexion"].pid
               r == RecursoDe("conexion")
    <3>1. p \in Pid /\ r \in Recurso /\ asignados[p][r] \in Nat \ {0}
      BY <1>1, <2>2, DeudaPositiva
    <3>2. Devolver(p, r, 1)
      BY <2>2, CuentaSola DEF DevolverUna
    <3> HIDE DEF p, r
    <3> QED
      BY <1>1, <3>1, <3>2, ConservaDevolver
  <2> QED
    BY <1>2, <2>1, <2>2 DEF LiberarRecurso
<1>3. CASE ConexionAtiende
  <2> DEFINE p == pcb[running].pid
             r == pedido.arg
  <2>1. running \in Pid /\ p \in Pid
    <3>1. running \in Pid
      BY <1>1, <1>3 DEF TipoInd, SinDespachos, ConexionAtiende
    <3>2. pcb[running] \in Pcb
      BY <1>1, <3>1
    <3> QED
      BY <3>1, <3>2 DEF Pcb
  <2>2. CASE EjecutarWait
    <3>1. r \in Recurso /\ (Otorgar(p, r, 1) \/ UNCHANGED <<instancias, asignados>>)
      BY <2>2, CuentaSola DEF EjecutarWait, Conceder, Bloquear, Encolar
    <3> HIDE DEF p, r
    <3> QED
      BY <1>1, <2>1, <3>1, ConservaOtorgar, ConservaIgual
  <2>3. CASE EjecutarSignal
    <3>1. r \in Recurso /\ Devolver(p, r, 1) /\ asignados[p][r] > 0
      BY <2>3, CuentaSola DEF EjecutarSignal
    <3> HIDE DEF p, r
    <3> QED
      BY <1>1, <2>1, <3>1, ConservaDevolver
  <2>4. CASE RecursoInvalido \/ SinMemoria \/ IoSleep \/ IoSuelta
    BY <2>4, ConservaIgual
    DEF RecursoInvalido, SinMemoria, IoSleep, IoSuelta, recursosVars
  <2> QED
    BY <1>3, <2>2, <2>3, <2>4 DEF ConexionAtiende
<1>4. CASE Menu \/ PasoConsola
  <2>1. ~EliminarPcb /\ ~LiberarRecurso("consola") /\ ~TerminarProceso("consola")
    BY <1>1, ConsolaNoLibera
  <2>2. UNCHANGED <<instancias, asignados>>
    BY <1>4, <2>1
    DEF Menu, PasoConsola, IniciarProceso, DetenerPlanificacion, IniciarPlanificacion,
        CambiarGrado, ConsolaArranque, BajarGrado, recursosVars
  <2> QED
    BY <2>2, ConservaIgual
<1>5. CASE PasoLargo \/ PasoCorto
  BY <1>5, ConservaIgual
  DEF PasoLargo, LargoEspera, LargoDetenido, LargoPasa, PasoCorto, CortoEspera, CortoDetenido,
      CortoDespacha, recursosVars
<1>6. CASE ConexionRecibe \/ ConexionDetenida \/ ConexionBloquea \/ ConexionSuelta
           \/ TerminarDevolucion \/ TerminarProceso("conexion")
  BY <1>6, ConservaIgual
  DEF ConexionRecibe, ConexionDetenida, ConexionBloquea, ConexionSuelta, TerminarDevolucion,
      TerminarProceso, recursosVars
<1>7. CASE Cpu \/ LlegaFinalizar \/ \E p \in Pid : FinQuantum(p) \/ VueltaIO(p)
  BY <1>7, ConservaIgual DEF Cpu, LlegaFinalizar, FinQuantum, VueltaIO, recursosVars
<1> QED
  BY <1>2, <1>3, <1>4, <1>5, <1>6, <1>7 DEF Next, PasoConexion

(* The orders are counted, option 3 among them, so that while there are    *)
(* none it has not been used.                                              *)
LEMMA OrdenesCrecen ==
  ASSUME TypeOK, Next, SinEliminar'
  PROVE  SinEliminar /\ ~EliminarPcb
<1>1. EliminarPcb => Eliminables # {} /\ ordenes' = ordenes + 1
  BY DEF EliminarPcb, Orden
<1>2. ordenes' \in {ordenes, ordenes + 1}
  <2>1. CASE Menu
    BY <2>1 DEF Menu, IniciarProceso, DetenerPlanificacion, IniciarPlanificacion, CambiarGrado,
                EliminarPcb, Orden, consolaVars
  <2>2. CASE PasoConsola \/ PasoLargo \/ PasoCorto
    BY <2>2
    DEF PasoConsola, ConsolaArranque, BajarGrado, LiberarRecurso, MirarRecurso, DespertarUno,
        DevolverUna, TerminarProceso, PasoLargo, LargoEspera, LargoDetenido, LargoPasa,
        PasoCorto, CortoEspera, CortoDetenido, CortoDespacha, consolaVars
  <2>3. CASE PasoConexion
    BY <2>3
    DEF PasoConexion, ConexionRecibe, ConexionDetenida, ConexionAtiende, EjecutarWait,
        EjecutarSignal, RecursoInvalido, SinMemoria, IoSleep, IoSuelta, ConexionBloquea,
        ConexionSuelta, LiberarRecurso, MirarRecurso, DespertarUno, DevolverUna,
        TerminarProceso, TerminarDevolucion, consolaVars
  <2>4. CASE Cpu \/ LlegaFinalizar \/ \E p \in Pid : FinQuantum(p) \/ VueltaIO(p)
    BY <2>4 DEF Cpu, LlegaFinalizar, FinQuantum, VueltaIO, kernelVars, consolaVars
  <2> QED
    BY <2>1, <2>2, <2>3, <2>4 DEF Next
<1> QED
  BY <1>1, <1>2 DEF SinEliminar, TypeOK

(* Until somebody is killed, instances are only ever free or held: the     *)
(* counter of a resource and the entries of lista_recursos_pcb agree,      *)
(* INVALID_RESOURCE, OUT_OF_MEMORY, DIALFS and the start race included     *)
(* (recursos.c:14-15, 51-52, 149-170).                                     *)
THEOREM InstanciasExactas == Spec => []Conservacion
<1> DEFINE Ind == TipoInd /\ (SinEliminar => Sola /\ InstanciasCuadran)
<1>1. Init => Ind
  <2> SUFFICES ASSUME Init, NEW r \in Recurso
               PROVE  instancias[r] + Cardinality(Tenencias(Pid, r)) = Instancias[r]
    BY TipoInicial, SolaInicial DEF InstanciasCuadran
  <2>1. \A p \in Pid : asignados[p][r] = 0
    BY DEF Init, RecursosInit
  <2>2. Tenencias(Pid, r) = {}
    BY <2>1 DEF Tenencias
  <2> QED
    BY <2>2, FS_EmptySet, RecursosAssumption DEF Init, RecursosInit
<1>2. Ind /\ [Next]_vars => Ind'
  <2>1. UNCHANGED vars => UNCHANGED <<instancias, asignados, ordenes>>
    BY DEF vars, recursosVars, kernelVars, consolaVars
  <2>2. Ind /\ UNCHANGED vars => Ind'
    BY <2>1, TipoIgual, SolaIgual, ConservaIgual DEF SinEliminar
  <2>3. ASSUME Ind, Next PROVE Ind'
    <3>1. TipoInd' /\ TypeOK
      BY <2>3, TipoPaso DEF TipoInd
    <3>2. ASSUME SinEliminar' PROVE (Sola /\ InstanciasCuadran)'
      <4>1. SinEliminar /\ ~EliminarPcb
        BY <2>3, <3>1, <3>2, OrdenesCrecen
      <4> QED
        BY <2>3, <3>1, <4>1, SolaSinEliminar, ConservaPaso
    <3> QED
      BY <3>1, <3>2
  <2> QED
    BY <2>2, <2>3
<1>3. Ind => Conservacion
  BY DEF Conservacion
<1> QED
  BY <1>1, <1>2, <1>3, PTL DEF Spec

-----------------------------------------------------------------------------
(* Nothing dies with its holder.  The inductive invariant: whoever holds   *)
(* an instance can still give it back (Tenedores), since liberar_recursos  *)
(* has been over every resource before its process is forgotten            *)
(* (Devueltos).                                                            *)
Tenedores == \A p \in Pid : \A r \in Recurso : asignados[p][r] > 0 => PuedeDevolver(p)
Devueltos ==
  pc["conexion"] \in {"liberar", "devolver"} =>
    \A j \in DOMAIN ListaRecursos :
      j < fin["conexion"].i => asignados[fin["conexion"].pid][ListaRecursos[j]] = 0
FugaInd == LugInd /\ Sola /\ Tenedores /\ Devueltos

(* A process that a step moves inside the diagram stays admitted.          *)
LEMMA SigueAdmitido ==
  ASSUME NEW S, NEW e \in {"READY", "RUNNING", "WAITING"}, Mueve(S, e)
  PROVE  Admitido \subseteq Admitido'
  BY DEF Mueve, Admitido

(* Far from the end of a process, every admitted one stays admitted:       *)
(* console and planners ...                                                *)
LEMMA SiguenLejos ==
  ASSUME Serial, LugInd,
         \/ Menu \/ PasoConsola \/ PasoLargo \/ PasoCorto \/ Cpu \/ LlegaFinalizar
         \/ \E p \in Pid : FinQuantum(p) \/ VueltaIO(p)
  PROVE  Admitido \subseteq Admitido'
<1>1. /\ pcb \in [Pid -> Pcb] /\ cola_new \in Seq(Pid) /\ cola_ready \in Seq(Pid)
      /\ cola_vrr \in Seq(Pid) /\ Identidad /\ contador_pcb \in 0 .. NProcesos
      /\ pc["consola"] \in {"menu", "arranque", "bajar"}
  BY DEF LugInd, Lugares, ExcInd, TipoInd, TypeOK, Reglas, Arranque
<1>2. pcb' = pcb => Admitido \subseteq Admitido'
  BY DEF Admitido
<1>3. CASE Menu \/ PasoConsola
  <2>1. ~EliminarPcb /\ ~LiberarRecurso("consola") /\ ~TerminarProceso("consola")
    BY <1>1, ConsolaNoFinaliza DEF Serial
  <2>2. CASE IniciarProceso
    <3>1. /\ contador_pcb \in Pid /\ pcb' = [pcb EXCEPT ![contador_pcb].estado = "NEW"]
      BY <1>1, <2>2, NProcesosAssumption DEF IniciarProceso, Pid
    <3>2. pcb[contador_pcb].estado = "SIN_CREAR"
      BY <1>1, <3>1, PidCero DEF Identidad
    <3>3. Mueve({contador_pcb}, "NEW")
      BY <1>1, <3>1, MueveUno
    <3> QED
      BY <3>2, <3>3 DEF Mueve, Admitido
  <2>3. CASE ~IniciarProceso
    <3>1. pcb' = pcb
      BY <1>3, <2>1, <2>3
      DEF Menu, PasoConsola, DetenerPlanificacion, IniciarPlanificacion, CambiarGrado,
          ConsolaArranque, BajarGrado
    <3> QED
      BY <1>2, <3>1
  <2> QED
    BY <2>2, <2>3
<1>4. CASE PasoLargo
  <2>1. pcb' = pcb \/ (cola_new # <<>> /\ AgregarReady(pcb, <<Head(cola_new)>>))
    BY <1>4 DEF PasoLargo, LargoEspera, LargoDetenido, LargoPasa
  <2>2. ASSUME cola_new # <<>>, AgregarReady(pcb, <<Head(cola_new)>>)
        PROVE  Admitido \subseteq Admitido'
    BY <1>1, <2>2, MueveReady, SigueAdmitido
  <2> QED
    BY <1>2, <2>1, <2>2
<1>5. CASE PasoCorto
  <2>1. pcb' = pcb \/ \E n \in Pid : pcb' = [pcb EXCEPT ![n].estado = "RUNNING"]
    <3>1. CASE CortoEspera \/ CortoDetenido \/ (CortoDespacha /\ DespachaNulo)
      BY <3>1 DEF CortoEspera, CortoDetenido, DespachaNulo
    <3>2. CASE CortoDespacha /\ ~DespachaNulo
      <4>1. PICK n : /\ EnviarPorDispatch(n)
                     /\ \/ cola_vrr # <<>> /\ n = Head(cola_vrr)
                        \/ cola_ready # <<>> /\ n = Head(cola_ready)
        BY <3>2 DEF CortoDespacha, DespachaVrr, DespachaReady
      <4>2. /\ cola_vrr # <<>> => Head(cola_vrr) \in Pid
            /\ cola_ready # <<>> => Head(cola_ready) \in Pid
        BY <1>1, HeadTailProperties
      <4>3. n \in Pid
        BY <4>1, <4>2
      <4> QED
        BY <4>1, <4>3 DEF EnviarPorDispatch
    <3> QED
      BY <1>5, <3>1, <3>2 DEF PasoCorto
  <2>2. ASSUME NEW n \in Pid, pcb' = [pcb EXCEPT ![n].estado = "RUNNING"]
        PROVE  Admitido \subseteq Admitido'
    BY <1>1, <2>2, MueveUno, SigueAdmitido
  <2> QED
    BY <1>2, <2>1, <2>2
<1>6. CASE Cpu \/ LlegaFinalizar \/ \E p \in Pid : FinQuantum(p)
  BY <1>2, <1>6 DEF Cpu, LlegaFinalizar, FinQuantum, kernelVars
<1>7. ASSUME NEW p \in Pid, VueltaIO(p) PROVE Admitido \subseteq Admitido'
  <2>1. CASE AgregarVrr(p)
    BY <1>1, <2>1, MueveUno, SigueAdmitido DEF AgregarVrr
  <2>2. CASE AgregarReady(pcb, <<p>>)
    BY <1>1, <2>2, MueveReady, SigueAdmitido
  <2> QED
    BY <1>7, <2>1, <2>2 DEF VueltaIO
<1> QED
  BY <1>3, <1>4, <1>5, <1>6, <1>7

(* ... and the connection thread.                                          *)
LEMMA SiguenConexion ==
  ASSUME LugInd, PasoConexion, ~TerminarProceso("conexion"),
         ~(ConexionAtiende /\ RecursoInvalido)
  PROVE  Admitido \subseteq Admitido'
<1>1. /\ pcb \in [Pid -> Pcb] /\ fin \in [{"consola", "conexion"} -> Fin] /\ PedidosBuenos
      /\ respuestas \in Seq(Respuesta) /\ SinDespachos /\ running \in Pid \cup {NADIE}
  BY DEF LugInd, ExcInd, TipoInd, TypeOK, CicloTypeOK, Reglas
<1>2. pcb' = pcb => Admitido \subseteq Admitido'
  BY DEF Admitido
<1>3. CASE ConexionRecibe
  <2> DEFINE ctx == Head(respuestas).ctx
             g == ConContexto(running, ctx)
             f == [g EXCEPT ![running].resto = FALSE]
  <2>1. running \in Pid /\ respuestas # <<>>
    BY <1>1, <1>3 DEF SinDespachos, ConexionRecibe
  <2>2. ctx \in Contexto
    <3>1. Head(respuestas) \in Respuesta
      BY <1>1, <2>1, HeadTailProperties
    <3> QED
      BY <3>1 DEF Respuesta
  <2>3. pcb' = g \/ AgregarReady(f, <<running>>)
    BY <1>3 DEF ConexionRecibe, RecibirPedido, RecibirDesalojo, RecibirFinalizado, RecibirFin
  <2> HIDE DEF ctx
  <2>4. g \in [Pid -> Pcb]
    BY <1>1, <2>1, <2>2, ContextoTipo
  <2>5. \A p \in Pid : pcb[p] \in Pcb /\ g[p] \in Pcb
    BY <1>1, <2>4
  <2>6. \A p \in Pid : g[p].estado = pcb[p].estado
    BY <1>1, <2>1, <2>5 DEF ConContexto, Pcb
  <2>7. f \in [Pid -> Pcb] /\ \A p \in Pid : f[p].estado = g[p].estado
    <3> HIDE DEF g
    <3>1. f \in [Pid -> Pcb]
      BY <2>1, <2>4, RestoTipo
    <3>2. \A p \in Pid : f[p].estado = g[p].estado
      BY <2>4, <2>5 DEF Pcb
    <3> QED
      BY <3>1, <3>2
  <2> HIDE DEF f, g
  <2>8. CASE pcb' = g
    BY <2>6, <2>8 DEF Admitido
  <2>9. CASE AgregarReady(f, <<running>>)
    <3>1. \A p \in Pid : f[p] \in Pcb
      BY <2>7
    <3>2. \A p \in Pid : pcb'[p].estado \in {"READY", f[p].estado}
      BY <2>9, <3>1 DEF AgregarReady, Pcb
    <3> QED
      BY <2>6, <2>7, <3>2 DEF Admitido
  <2> QED
    BY <2>3, <2>8, <2>9
<1>4. CASE ConexionDetenida \/ ConexionSuelta \/ TerminarDevolucion
  BY <1>2, <1>4 DEF ConexionDetenida, ConexionSuelta, TerminarDevolucion
<1>5. ASSUME NEW n \in Pid, NEW l, pedido.arg \in Interfaz, EjecutarIO(n, l)
      PROVE  Admitido \subseteq Admitido'
  <2>1. PICK q : pcb' = [pcb EXCEPT ![n].estado = "WAITING", ![n].resto = q]
    BY <1>5 DEF EjecutarIO
  <2> QED
    BY <1>1, <2>1, MueveUno, SigueAdmitido
<1>6. CASE ConexionAtiende
  <2>1. running \in Pid /\ Pedible(pedido)
    BY <1>6, AtiendeDatos
  <2>2. CASE EjecutarWait
    <3>1. \/ pcb' = pcb
          \/ pcb' = [pcb EXCEPT ![running].estado = "WAITING", ![running].pc = @ - 1]
      BY <2>2 DEF EjecutarWait, Conceder, Bloquear
    <3>2. pcb' = [pcb EXCEPT ![running].estado = "WAITING", ![running].pc = @ - 1]
            => Mueve({running}, "WAITING")
      BY <1>1, <2>1, MueveUno
    <3> QED
      BY <1>2, <3>1, <3>2, SigueAdmitido
  <2>3. CASE EjecutarSignal
    BY <1>1, <2>3, MueveReady, SigueAdmitido DEF EjecutarSignal
  <2>4. CASE IoSleep
    BY <1>5, <2>1, <2>4 DEF IoSleep, Pedible
  <2>5. CASE IoSuelta \/ SinMemoria
    BY <1>2, <2>5 DEF IoSuelta, SinMemoria
  <2> QED
    BY <1>6, <2>2, <2>3, <2>4, <2>5 DEF ConexionAtiende
<1>7. CASE ConexionBloquea
  <2>1. pedido.op = "IO_STD" /\ pedido.arg \in Interfaz
    BY <1>1, <1>7 DEF ConexionBloquea, PedidosBuenos, Pedible
  <2>2. fin["conexion"].pcb \in Pid /\ EjecutarIO(fin["conexion"].pcb, "recv")
    BY <1>1, <1>7, <2>1 DEF ConexionBloquea, Fin
  <2> QED
    BY <1>5, <2>1, <2>2
<1>8. CASE LiberarRecurso("conexion")
  BY <1>1, <1>2, <1>8, MueveReady, SigueAdmitido
  DEF LiberarRecurso, MirarRecurso, DespertarUno, DevolverUna
<1> QED
  BY <1>3, <1>4, <1>6, <1>7, <1>8 DEF PasoConexion

(* A step that gives at most to an admitted process, and takes the place   *)
(* of nobody, keeps every holder able to give back.                        *)
LEMMA TenedoresQuietos ==
  ASSUME RecursosTypeOK, RecursosTypeOK', Tenedores, Admitido \subseteq Admitido',
         \A p \in Pid : \A r \in Recurso :
           asignados'[p][r] <= asignados[p][r] \/ p \in Admitido,
         \A p \in Pid : PuedeDevolver(p) => p \in Admitido \/ PuedeDevolver(p)'
  PROVE  Tenedores'
<1> SUFFICES ASSUME NEW p \in Pid, NEW r \in Recurso, asignados'[p][r] > 0
             PROVE  PuedeDevolver(p)'
  BY DEF Tenedores
<1>1. asignados[p][r] \in Nat /\ asignados'[p][r] \in Nat
  BY DEF RecursosTypeOK
<1>2. p \in Admitido \/ asignados[p][r] > 0
  BY <1>1
<1>3. p \in Admitido \/ PuedeDevolver(p)'
  BY <1>2 DEF Tenedores
<1>4. p \in Admitido' => PuedeDevolver(p)'
  BY DEF Admitido, PuedeDevolver
<1> QED
  BY <1>3, <1>4

(* In a Serial system only the connection thread finishes processes.       *)
LEMMA QuienDevuelve ==
  ASSUME LugInd, NEW p \in Pid
  PROVE  PuedeDevolver(p) <=>
           p \in Admitido
           \/ (pc["conexion"] \in {"liberar", "devolver"} /\ fin["conexion"].pid = p)
  BY DEF LugInd, ExcInd, Reglas, Arranque, PuedeDevolver, Admitido

(* Nobody holds anything of a process that liberar_recursos is done with.  *)
LEMMA TodoDevuelto ==
  ASSUME FugaInd, pc["conexion"] \in {"liberar", "devolver"},
         fin["conexion"].i > Len(ListaRecursos)
  PROVE  fin["conexion"].pid \in Pid
         /\ \A r \in Recurso : asignados[fin["conexion"].pid][r] = 0
<1>1. fin["conexion"] \in Fin
  BY DEF FugaInd, LugInd, ExcInd, TipoInd, TypeOK
<1>2. fin["conexion"].pid \in Pid /\ fin["conexion"].i \in Nat
  BY <1>1 DEF Fin
<1>3. \A j \in DOMAIN ListaRecursos : j < fin["conexion"].i
  BY <1>2, RecursosAssumption, LenProperties
<1> QED
  BY <1>2, <1>3 DEF FugaInd, Devueltos, Recurso

(* Whoever serves a request, or the end of a process, does so from i = 1.  *)
LEMMA EmpiezaDelPrimero ==
  ASSUME LugInd, ConexionRecibe \/ ConexionAtiende \/ ConexionBloquea,
         pc'["conexion"] \in {"liberar", "devolver"}
  PROVE  fin'["conexion"].i = 1
<1>1. fin \in [{"consola", "conexion"} -> Fin] /\ pc \in [Hilo -> Punto]
  BY DEF LugInd, ExcInd, TipoInd, TypeOK
<1>2. \A p, pid, luego : FinalizarPcb("conexion", p, pid, luego) => fin'["conexion"].i = 1
  BY <1>1 DEF FinalizarPcb, LiberarDesde
<1>3. \A x : Ir("conexion", x) => pc'["conexion"] = x
  BY <1>1 DEF Ir, Hilo
<1>4. \A p : \A l \in {"recv", "soltar"} : EjecutarIO(p, l) => fin'["conexion"].i = 1
  BY <1>2, <1>3 DEF EjecutarIO
<1>5. CASE ConexionRecibe
  <2>1. CASE RecibirFin
    BY <1>2, <2>1 DEF RecibirFin
  <2>2. CASE ~RecibirFin
    BY <1>3, <1>5, <2>2
    DEF ConexionRecibe, RecibirPedido, RecibirDesalojo, RecibirFinalizado
  <2> QED
    BY <2>1, <2>2
<1>6. CASE ConexionAtiende
  <2>1. CASE RecursoInvalido
    BY <1>1, <2>1 DEF RecursoInvalido, LiberarDesde
  <2>2. CASE SinMemoria
    BY <1>2, <2>2 DEF SinMemoria
  <2>3. CASE IoSleep
    BY <1>4, <2>3 DEF IoSleep
  <2> QED
    BY <1>3, <1>6, <2>1, <2>2, <2>3 DEF ConexionAtiende, EjecutarWait, EjecutarSignal, IoSuelta
<1>7. CASE ConexionBloquea
  <2>1. PICK p : EjecutarIO(p, "recv")
    BY <1>7 DEF ConexionBloquea
  <2> QED
    BY <1>4, <2>1
<1> QED
  BY <1>5, <1>6, <1>7

(* Steps far from the end of a process.                                    *)
LEMMA FugaLejos ==
  ASSUME Serial, FugaInd, LugInd',
         \/ Menu \/ PasoConsola \/ PasoLargo \/ PasoCorto \/ Cpu \/ LlegaFinalizar
         \/ \E p \in Pid : FinQuantum(p) \/ VueltaIO(p)
  PROVE  (Tenedores /\ Devueltos)'
<1>1. /\ RecursosTypeOK /\ RecursosTypeOK' /\ pc \in [Hilo -> Punto] /\ Tenedores /\ Devueltos
      /\ fin \in [{"consola", "conexion"} -> Fin]
      /\ pc["consola"] \in {"menu", "arranque", "bajar"} /\ LugInd
  BY DEF FugaInd, LugInd, ExcInd, TipoInd, TypeOK, Reglas, Arranque
<1>2. Admitido \subseteq Admitido'
  BY <1>1, SiguenLejos
<1>3. ~EliminarPcb /\ ~LiberarRecurso("consola") /\ ~TerminarProceso("consola")
  BY <1>1, ConsolaNoFinaliza DEF Serial
<1>4. UNCHANGED asignados /\ UNCHANGED fin
      /\ (pc' = pc \/ \E h \in {"consola", "largo", "corto"} : \E x : Ir(h, x))
  <2>1. CASE Menu \/ PasoConsola
    BY <1>3, <2>1
    DEF Menu, PasoConsola, IniciarProceso, DetenerPlanificacion, IniciarPlanificacion,
        CambiarGrado, ConsolaArranque, BajarGrado, recursosVars
  <2>2. CASE PasoLargo
    BY <2>2 DEF PasoLargo, LargoEspera, LargoDetenido, LargoPasa, recursosVars
  <2>3. CASE PasoCorto
    BY <2>3
    DEF PasoCorto, CortoEspera, CortoDetenido, CortoDespacha, DespachaVrr, DespachaReady,
        DespachaNulo, EnviarPorDispatch, recursosVars
  <2>4. CASE Cpu \/ LlegaFinalizar \/ \E p \in Pid : FinQuantum(p)
    BY <2>4 DEF Cpu, LlegaFinalizar, FinQuantum, kernelVars, recursosVars
  <2>5. ASSUME NEW p \in Pid, VueltaIO(p) PROVE UNCHANGED <<asignados, fin, pc>>
    BY <2>5 DEF VueltaIO, recursosVars
  <2> QED
    BY <2>1, <2>2, <2>3, <2>4, <2>5
<1>5. pc'["conexion"] = pc["conexion"]
  BY <1>1, <1>4 DEF Ir, Hilo
<1>6. Devueltos'
  BY <1>1, <1>4, <1>5 DEF Devueltos
<1>7. \A p \in Pid : PuedeDevolver(p) => p \in Admitido \/ PuedeDevolver(p)'
  BY <1>1, <1>4, <1>5, QuienDevuelve DEF PuedeDevolver
<1>8. \A p \in Pid : \A r \in Recurso : asignados'[p][r] <= asignados[p][r]
  BY <1>1, <1>4 DEF RecursosTypeOK
<1> QED
  BY <1>1, <1>2, <1>6, <1>7, <1>8, TenedoresQuietos

(* The connection thread, while no process ends ...                        *)
LEMMA FugaAtiende ==
  ASSUME FugaInd, LugInd',
         \/ ConexionRecibe \/ ConexionDetenida \/ ConexionBloquea \/ ConexionSuelta
         \/ ConexionAtiende /\ ~RecursoInvalido
  PROVE  (Tenedores /\ Devueltos)'
<1>1. /\ RecursosTypeOK /\ RecursosTypeOK' /\ pc \in [Hilo -> Punto] /\ Tenedores /\ LugInd
  BY DEF FugaInd, LugInd, ExcInd, TipoInd, TypeOK
<1>2. pc["conexion"] \in {"recv", "detenido", "atender", "bloquear", "soltar"}
  BY DEF ConexionRecibe, ConexionDetenida, ConexionBloquea, ConexionSuelta, ConexionAtiende
<1>3. Admitido \subseteq Admitido'
  <2>1. PasoConexion
    BY DEF PasoConexion
  <2>2. ~TerminarProceso("conexion")
    BY <1>2 DEF TerminarProceso
  <2>3. ~(ConexionAtiende /\ RecursoInvalido)
    BY <1>1, <1>2
    DEF ConexionRecibe, ConexionDetenida, ConexionBloquea, ConexionSuelta, ConexionAtiende
  <2> QED
    BY <1>1, <2>1, <2>2, <2>3, SiguenConexion
<1>4. \A p \in Pid : PuedeDevolver(p) => p \in Admitido
  BY <1>1, <1>2, QuienDevuelve
<1>5. Devueltos'
  <2>1. CASE ConexionDetenida \/ ConexionSuelta
    <3>1. pc'["conexion"] \in {"atender", "recv"}
      BY <1>1, <2>1 DEF ConexionDetenida, ConexionSuelta, Ir, Hilo
    <3> QED
      BY <3>1 DEF Devueltos
  <2>2. CASE ~(ConexionDetenida \/ ConexionSuelta)
    <3>1. pc'["conexion"] \in {"liberar", "devolver"} => fin'["conexion"].i = 1
      BY <1>1, <2>2, EmpiezaDelPrimero
    <3>2. \A j \in DOMAIN ListaRecursos : ~(j < 1)
      BY RecursosAssumption, LenProperties
    <3> QED
      BY <3>1, <3>2 DEF Devueltos
  <2> QED
    BY <2>1, <2>2
<1>6. \A p \in Pid : \A r \in Recurso :
        asignados'[p][r] <= asignados[p][r] \/ p \in Admitido
  <2>1. CASE ConexionRecibe \/ ConexionDetenida \/ ConexionBloquea \/ ConexionSuelta
    <3>1. UNCHANGED asignados
      BY <2>1
      DEF ConexionRecibe, ConexionDetenida, ConexionBloquea, ConexionSuelta, recursosVars
    <3> QED
      BY <1>1, <3>1 DEF RecursosTypeOK
  <2>2. CASE ConexionAtiende /\ ~RecursoInvalido
    <3> DEFINE a == pedido.arg
    <3>1. running \in Admitido /\ running \in Pid /\ pcb[running].pid = running
      BY <1>1, <2>2, AtiendeDatos DEF Admitido
    <3>2. \A p \in Pid : \A r \in Recurso : asignados[p][r] \in Nat
      BY <1>1 DEF RecursosTypeOK
    <3>3. \/ UNCHANGED asignados
          \/ a \in Recurso /\ asignados' = [asignados EXCEPT ![running][a] = @ + 1]
          \/ a \in Recurso /\ asignados' = [asignados EXCEPT ![running][a] =
                                               IF @ > 0 THEN @ - 1 ELSE @]
      BY <2>2, <3>1
      DEF ConexionAtiende, EjecutarWait, EjecutarSignal, SinMemoria, IoSleep, IoSuelta,
          Conceder, Bloquear, Otorgar, Encolar, Devolver, recursosVars
    <3>4. \A p \in Pid : p # running => asignados'[p] = asignados[p]
      BY <1>1, <3>3 DEF RecursosTypeOK
    <3> QED
      BY <3>1, <3>2, <3>4
  <2> QED
    BY <2>1, <2>2
<1>7. \A p \in Pid : PuedeDevolver(p) => p \in Admitido \/ PuedeDevolver(p)'
  BY <1>4
<1> QED
  BY <1>1, <1>3, <1>5, <1>6, <1>7, TenedoresQuietos

(* ... when it finishes one for a resource that it may not use, which      *)
(* keeps what it holds until liberar_recursos has run ...                  *)
LEMMA FugaInvalido ==
  ASSUME FugaInd, LugInd', ConexionAtiende, RecursoInvalido
  PROVE  (Tenedores /\ Devueltos)'
<1>1. /\ RecursosTypeOK /\ RecursosTypeOK' /\ pc \in [Hilo -> Punto] /\ Tenedores /\ LugInd
      /\ fin \in [{"consola", "conexion"} -> Fin] /\ pcb \in [Pid -> Pcb]
  BY DEF FugaInd, LugInd, ExcInd, TipoInd, TypeOK
<1>2. /\ running \in Pid /\ pcb[running].pid = running /\ pc["conexion"] = "atender"
      /\ pc'["conexion"] = "devolver"
  BY <1>1, AtiendeDatos DEF RecursoInvalido
<1>3. /\ UNCHANGED asignados /\ pcb' = [pcb EXCEPT ![running].estado = "TERMINATED"]
      /\ fin'["conexion"].pid = running /\ fin'["conexion"].i = 1
  BY <1>1, <1>2 DEF RecursoInvalido, LiberarProceso, LiberarDesde, recursosVars
<1>4. \A p \in Pid : pcb'[p].estado = IF p = running THEN "TERMINATED" ELSE pcb[p].estado
  <2>1. Mueve({running}, "TERMINATED")
    BY <1>1, <1>2, <1>3, MueveUno
  <2> QED
    BY <2>1 DEF Mueve
<1>5. \A p \in Pid : p = running => PuedeDevolver(p)'
  BY <1>2, <1>3 DEF PuedeDevolver
<1>6. Devueltos'
  <2>1. \A j \in DOMAIN ListaRecursos : ~(j < 1)
    BY RecursosAssumption, LenProperties
  <2> QED
    BY <1>3, <2>1 DEF Devueltos
<1>7. Tenedores'
  <2> SUFFICES ASSUME NEW p \in Pid, NEW r \in Recurso, asignados'[p][r] > 0
               PROVE  PuedeDevolver(p)'
    BY DEF Tenedores
  <2>1. PuedeDevolver(p)
    BY <1>1, <1>3 DEF Tenedores
  <2>2. p \in Admitido
    BY <1>1, <1>2, <2>1, QuienDevuelve
  <2>3. CASE p = running
    BY <1>5, <2>3
  <2>4. CASE p # running
    BY <1>4, <2>2, <2>4 DEF Admitido, PuedeDevolver
  <2> QED
    BY <2>3, <2>4
<1> QED
  BY <1>6, <1>7

(* ... goes over the resources, each until nothing of it is held ...       *)
LEMMA FugaDevuelve ==
  ASSUME FugaInd, LugInd', LiberarRecurso("conexion")
  PROVE  (Tenedores /\ Devueltos)'
<1> DEFINE i == fin["conexion"].i
           q == fin["conexion"].pid
           r == RecursoDe("conexion")
           Leido(j) == asignados'[q][ListaRecursos[j]] = 0
<1>1. /\ RecursosTypeOK /\ RecursosTypeOK' /\ pc \in [Hilo -> Punto] /\ Tenedores /\ LugInd
      /\ fin \in [{"consola", "conexion"} -> Fin] /\ pcb \in [Pid -> Pcb] /\ Devueltos
      /\ TypeOK /\ Sola
  BY DEF FugaInd, LugInd, ExcInd, TipoInd, TypeOK
<1>2. /\ i \in Nat \ {0} /\ q \in Pid /\ r \in Recurso /\ r = ListaRecursos[i]
      /\ i <= Len(ListaRecursos) /\ pc["conexion"] \in {"liberar", "devolver"}
  <2>1. i <= Len(ListaRecursos) /\ pc["conexion"] \in {"liberar", "devolver"}
    BY DEF LiberarRecurso, MirarRecurso, DespertarUno, DevolverUna, EnVuelta
  <2>2. fin["conexion"] \in Fin /\ q \in Pid /\ r \in Recurso
    BY <1>1, <2>1, TipoVuelta
  <2> QED
    BY <2>1, <2>2 DEF Fin, RecursoDe
<1>3. UNCHANGED pc /\ fin'["conexion"].pid = q
  BY <1>1, LiberarQuieto, LiberarMismo
<1> HIDE DEF i, q, r
<1>4. asignados \in [Pid -> [Recurso -> Nat]] /\ asignados[q][r] \in Nat
  BY <1>1, <1>2 DEF RecursosTypeOK
<1>5. /\ \A p \in Pid : \A s \in Recurso :
             \/ asignados'[p][s] = asignados[p][s]
             \/ /\ p = q /\ s = r /\ asignados[q][r] > 0
                /\ asignados'[q][r] = asignados[q][r] - 1
      /\ \/ fin'["conexion"].i = i
         \/ fin'["conexion"].i = i + 1 /\ asignados'[q][r] = 0
  <2>1. CASE MirarRecurso("conexion")
    <3> DEFINE n == asignados[q][r]
    <3>1. /\ UNCHANGED asignados
          /\ fin' = IF n = 0 THEN [fin EXCEPT !["conexion"].i = @ + 1]
                    ELSE [fin EXCEPT !["conexion"].vuelta = "despertar",
                                     !["conexion"].faltan = n]
      BY <2>1 DEF MirarRecurso, recursosVars, q, r
    <3> HIDE DEF n
    <3>2. fin'["conexion"].i = i \/ (fin'["conexion"].i = i + 1 /\ n = 0)
      BY <1>1, <3>1 DEF Fin, i
    <3> QED
      BY <3>1, <3>2 DEF n
  <2>2. CASE DespertarUno("conexion")
    BY <1>1, <2>2 DEF DespertarUno, Fin, i
  <2>3. CASE DevolverUna("conexion")
    <3>1. asignados[q][r] \in Nat \ {0} /\ fin["conexion"].faltan = asignados[q][r]
      BY <1>1, <2>3, DeudaPositiva DEF q, r
    <3>2. PICK d : Devolver(q, r, d)
      BY <2>3 DEF DevolverUna, q, r
    <3>3. \A p \in Pid : \A s \in Recurso :
            asignados'[p][s] = IF p = q /\ s = r THEN asignados[q][r] - 1 ELSE asignados[p][s]
      BY <1>2, <1>4, <3>1, <3>2 DEF Devolver
    <3>4. fin' = IF fin["conexion"].faltan = 1
                 THEN [fin EXCEPT !["conexion"].i = @ + 1, !["conexion"].vuelta = "mirar",
                                  !["conexion"].faltan = 0]
                 ELSE [fin EXCEPT !["conexion"].vuelta = "despertar",
                                  !["conexion"].faltan = @ - 1]
      BY <2>3 DEF DevolverUna
    <3>5. CASE fin["conexion"].faltan = 1
      <4>1. fin'["conexion"].i = i + 1
        BY <1>1, <3>4, <3>5 DEF Fin, i
      <4>2. asignados'[q][r] = 0
        BY <1>2, <3>1, <3>3, <3>5
      <4> QED
        BY <3>1, <3>3, <4>1, <4>2
    <3>6. CASE fin["conexion"].faltan # 1
      <4>1. fin'["conexion"].i = i
        BY <1>1, <3>4, <3>6 DEF Fin, i
      <4> QED
        BY <3>1, <3>3, <4>1
    <3> QED
      BY <3>5, <3>6
  <2> QED
    BY <2>1, <2>2, <2>3 DEF LiberarRecurso
<1>6. Admitido \subseteq Admitido'
  <2>1. PasoConexion /\ ~(ConexionAtiende /\ RecursoInvalido)
    BY <1>2 DEF PasoConexion, ConexionAtiende
  <2>2. ~TerminarProceso("conexion")
    <3>1. Len(ListaRecursos) \in Nat
      BY RecursosAssumption, LenProperties
    <3>2. TerminarProceso("conexion") => i > Len(ListaRecursos)
      BY DEF TerminarProceso, i
    <3> QED
      BY <1>2, <3>1, <3>2
  <2> QED
    BY <1>1, <2>1, <2>2, SiguenConexion
<1>7. Devueltos'
  <2> SUFFICES ASSUME NEW j \in DOMAIN ListaRecursos, j < fin'["conexion"].i
               PROVE  Leido(j)
    BY <1>3 DEF Devueltos
  <2>1. ListaRecursos[j] \in Recurso /\ j \in Nat
    BY RecursosAssumption, LenProperties DEF Recurso
  <2>2. CASE j < i
    <3>1. asignados[q][ListaRecursos[j]] = 0
      BY <1>1, <1>2, <2>2 DEF Devueltos, i, q
    <3>2. 0 > 0 <=> FALSE
      OBVIOUS
    <3> QED
      BY <1>2, <1>5, <2>1, <3>1, <3>2
  <2>3. CASE ~(j < i)
    <3>1. fin'["conexion"].i = i + 1 /\ j = i /\ asignados'[q][r] = 0
      BY <1>2, <1>5, <2>1, <2>3
    <3> QED
      BY <1>2, <3>1
  <2> QED
    BY <2>2, <2>3
<1>8. \A p \in Pid : PuedeDevolver(p) => p \in Admitido \/ PuedeDevolver(p)'
  <2> SUFFICES ASSUME NEW p \in Pid, PuedeDevolver(p), p \notin Admitido PROVE PuedeDevolver(p)'
    OBVIOUS
  <2>1. p = q
    BY <1>1, QuienDevuelve DEF q
  <2>2. pc'["conexion"] \in {"liberar", "devolver"} /\ fin'["conexion"].pid = p
    BY <1>2, <1>3, <2>1
  <2> QED
    BY <2>2 DEF PuedeDevolver
<1>9. \A p \in Pid : \A s \in Recurso : asignados'[p][s] <= asignados[p][s]
  <2>1. \A p \in Pid : \A s \in Recurso : asignados[p][s] \in Nat
    BY <1>4
  <2> QED
    BY <1>5, <2>1
<1> QED
  BY <1>1, <1>6, <1>7, <1>8, <1>9, TenedoresQuietos

(* ... and forgets a process that holds nothing any more.                  *)
LEMMA FugaTermina ==
  ASSUME FugaInd, LugInd', TerminarProceso("conexion") \/ TerminarDevolucion
  PROVE  (Tenedores /\ Devueltos)'
<1> DEFINE q == fin["conexion"].pid
<1>1. /\ RecursosTypeOK /\ RecursosTypeOK' /\ pc \in [Hilo -> Punto] /\ Tenedores /\ LugInd
      /\ fin \in [{"consola", "conexion"} -> Fin] /\ pcb \in [Pid -> Pcb] /\ Contextos
      /\ PedidosBuenos
  BY DEF FugaInd, LugInd, Lugares, ExcInd, TipoInd, TypeOK, Reglas
<1>2. q \in Pid /\ \A r \in Recurso : asignados[q][r] = 0
  BY TodoDevuelto DEF TerminarProceso, TerminarDevolucion
<1>3. pc["conexion"] \in {"liberar", "devolver"} /\ UNCHANGED asignados
  BY DEF TerminarProceso, TerminarDevolucion, recursosVars
<1>4. pc'["conexion"] = "recv"
  BY <1>1 DEF TerminarProceso, TerminarDevolucion, Ir, Hilo, PedidosBuenos
<1>5. \A p \in Pid : p # q => pcb'[p].estado = pcb[p].estado
  <2>1. CASE TerminarProceso("conexion")
    <3>1. fin["conexion"].pcb = q /\ pcb' = [pcb EXCEPT ![q].estado = "TERMINATED"]
      BY <1>1, <2>1 DEF TerminarProceso, LiberarProceso, Contextos
    <3> HIDE DEF q
    <3> QED
      BY <1>1, <1>2, <3>1, MueveUno DEF Mueve
  <2>2. CASE TerminarDevolucion
    BY <2>2 DEF TerminarDevolucion
  <2> QED
    BY <2>1, <2>2
<1>6. Tenedores'
  <2> SUFFICES ASSUME NEW p \in Pid, NEW r \in Recurso, asignados'[p][r] > 0
               PROVE  PuedeDevolver(p)'
    BY DEF Tenedores
  <2>1. PuedeDevolver(p)
    BY <1>1, <1>3 DEF Tenedores
  <2>2. p # q
    BY <1>2, <1>3
  <2>3. p \in Admitido
    BY <1>1, <2>1, <2>2, QuienDevuelve
  <2> QED
    BY <1>5, <2>2, <2>3 DEF Admitido, PuedeDevolver
<1> QED
  BY <1>4, <1>6 DEF Devueltos

(* Every step keeps the invariant.                                         *)
LEMMA FugaPaso == Serial /\ FugaInd /\ [Next]_vars => FugaInd'
<1> SUFFICES ASSUME Serial, FugaInd, [Next]_vars PROVE FugaInd'
  OBVIOUS
<1>1. LugInd' /\ Sola'
  BY LugPaso, SolaPaso, SolaIgual DEF FugaInd, Serial, LugInd, ExcInd, TipoInd
<1>2. CASE Next
  <2>1. (Tenedores /\ Devueltos)'
    BY <1>1, <1>2, FugaLejos, FugaAtiende, FugaInvalido, FugaDevuelve, FugaTermina
    DEF Next, PasoConexion
  <2> QED
    BY <1>1, <2>1 DEF FugaInd
<1>3. CASE UNCHANGED vars
  <2>1. UNCHANGED <<asignados, pcb, pc, fin>>
    BY <1>3 DEF vars, recursosVars, kernelVars
  <2> QED
    BY <1>1, <2>1 DEF FugaInd, Tenedores, Devueltos, PuedeDevolver
<1> QED
  BY <1>2, <1>3

(* No instance dies with its holder: the free ones and those of processes  *)
(* that can give them back are all there are.                              *)
THEOREM NadaSeFuga == Serial => (Spec => []SinFuga)
<1> SUFFICES ASSUME Serial PROVE Spec => []SinFuga
  OBVIOUS
<1>1. Init => FugaInd
  <2> SUFFICES ASSUME Init PROVE FugaInd
    OBVIOUS
  <2>1. /\ \A p \in Pid : \A r \in Recurso : asignados[p][r] = 0
        /\ pc["conexion"] = "recv"
    BY DEF Init, RecursosInit
  <2> QED
    BY <2>1, LugInicial, SolaInicial DEF FugaInd, Tenedores, Devueltos
<1>2. FugaInd /\ InstanciasCuadran => SinFuga
  <2> SUFFICES ASSUME FugaInd, InstanciasCuadran, NEW r \in Recurso
               PROVE  Tenencias({p \in Pid : PuedeDevolver(p)}, r) = Tenencias(Pid, r)
    BY DEF SinFuga, InstanciasCuadran
  <2>1. \A p \in Pid : asignados[p][r] \in Nat
    BY DEF FugaInd, LugInd, ExcInd, TipoInd, TypeOK, RecursosTypeOK
  <2>2. \A p \in Pid : \A i \in 1 .. asignados[p][r] : PuedeDevolver(p)
    BY <2>1 DEF FugaInd, Tenedores
  <2> QED
    BY <2>2 DEF Tenencias
<1> QED
  <2>1. Conservacion => InstanciasCuadran
    BY DEF Serial, Conservacion, SinEliminar
  <2>2. Spec => []InstanciasCuadran
    BY <2>1, InstanciasExactas, PTL
  <2> QED
    BY <1>1, <1>2, <2>2, FugaPaso, PTL DEF Spec

-----------------------------------------------------------------------------
(* No wake-up is lost.  The inductive invariant: a blocked process will    *)
(* execute its WAIT again when it runs (Rebobinados), because what asks    *)
(* for a resource on behalf of running is the instruction just before its  *)
(* program counter (Rebobinable), and an instance on its way back already  *)
(* has a process that comes for it (Repone).                               *)
Rebobinados == \A r \in Recurso : \A p \in ToSet(bloqueados[r]) : Proxima(p, pcb[p].pc, r)
PideBien(m, n) == \A r \in Recurso : PideWait(m, r) => Proxima(running, n, r)
Rebobinable ==
  /\ cpu_estado = "recibiendo" => cpu_pcb = Head(dispatch).ctx
  /\ respuestas # <<>> => PideBien(Head(respuestas), Head(respuestas).ctx.pc - 1)
  /\ pc["conexion"] \in {"detenido", "atender"} => PideBien(pedido, pcb[running].pc - 1)
Repone ==
  \A r \in Recurso :
    EnVuelta("conexion", "devolver") /\ RecursoDe("conexion") = r /\ bloqueados[r] # <<>> =>
      instancias[r] < Cardinality({p \in Pid : VaAPedir(p, r)})
DespInd == LugInd /\ Sola /\ Rebobinados /\ Rebobinable /\ NoDespertarPerdido /\ Repone

(* running is on its way to ask for r: in the dispatch, in the CPU, in its *)
(* answer or in the connection thread's hands.                             *)
EnTrabajo(r) ==
  \/ dispatch # <<>> /\ Proxima(running, Head(dispatch).ctx.pc, r)
  \/ cpu_estado = "ciclo" /\ Proxima(running, cpu_pcb.pc, r)
  \/ respuestas # <<>> /\ Head(respuestas).op = "ENVIAR_DESALOJAR"
     /\ Proxima(running, Head(respuestas).ctx.pc, r)
  \/ respuestas # <<>> /\ PideWait(Head(respuestas), r)
  \/ pc["conexion"] \in {"detenido", "atender"} /\ PideWait(pedido, r)

(* Who goes to ask for r: ready processes and the one that runs.           *)
LEMMA VaAPedirEs ==
  ASSUME LugInd, NEW p \in Pid, NEW r
  PROVE  /\ VaAPedir(p, r) <=>
              \/ pcb[p].estado = "READY" /\ Proxima(p, pcb[p].pc, r)
              \/ running = p /\ EnTrabajo(r)
         /\ VaAPedir(p, r) => pcb[p].estado \in {"READY", "RUNNING"}
<1>1. TypeOK /\ LugListo /\ LugManos
  BY DEF LugInd, Lugares, ExcInd, TipoInd
<1>2. EnListos(p) = IF pcb[p].estado = "READY" THEN 1 ELSE 0
  BY <1>1, ListosUna
<1>3. EnListos(p) > 0 <=> pcb[p].estado = "READY"
  BY <1>2
<1>4. VaAPedir(p, r) <=>
        \/ pcb[p].estado = "READY" /\ Proxima(p, pcb[p].pc, r)
        \/ running = p /\ EnTrabajo(r)
  BY <1>3 DEF VaAPedir, EnTrabajo
<1>5. running = p /\ EnTrabajo(r) => ManosDe(p)
  BY DEF EnTrabajo, ManosDe, Ocupado
<1> QED
  BY <1>1, <1>4, <1>5 DEF LugManos

(* What a step writes in the PCBs besides the contexts that come home and  *)
(* the rewind of a blocking WAIT: states, of which RUNNING is the short    *)
(* term planner's, and rests of quantum.                                   *)
Leve ==
  \A p \in Pid :
    /\ pcb'[p].pc = pcb[p].pc
    /\ pcb'[p].estado = "RUNNING" => pcb[p].estado = "RUNNING" \/ CortoDespacha

(* The assignments to the PCBs that are light.                             *)
LEMMA PcEscrito ==
  ASSUME pcb \in [Pid -> Pcb]
  PROVE  /\ pcb' = pcb => Leve
         /\ \A n \in Pid :
              /\ pcb' = [pcb EXCEPT ![n].estado = "NEW"] => Leve
              /\ pcb' = [pcb EXCEPT ![n].estado = "READY"] => Leve
              /\ pcb' = [pcb EXCEPT ![n].estado = "TERMINATED"] => Leve
              /\ pcb' = [pcb EXCEPT ![n].estado = "RUNNING"] /\ CortoDespacha => Leve
              /\ \A x : pcb' = [pcb EXCEPT ![n].estado = "WAITING", ![n].resto = x] => Leve
         /\ \A s : AgregarReady(pcb, s) => Leve
<1>1. \A p \in Pid : pcb[p] \in Pcb
  OBVIOUS
<1>2. \A s : AgregarReady(pcb, s) => Leve
  <2> SUFFICES ASSUME NEW s, AgregarReady(pcb, s), NEW p \in Pid
               PROVE  /\ pcb'[p].pc = pcb[p].pc
                      /\ pcb'[p].estado = "RUNNING" => pcb[p].estado = "RUNNING"
    BY DEF Leve
  <2>1. pcb'[p] = IF p \in ToSet(s) THEN [pcb[p] EXCEPT !.estado = "READY"] ELSE pcb[p]
    BY DEF AgregarReady
  <2> HIDE DEF AgregarReady
  <2> QED
    BY <1>1, <2>1 DEF Pcb
<1>3. ASSUME NEW n \in Pid
      PROVE  /\ pcb' = [pcb EXCEPT ![n].estado = "NEW"] => Leve
             /\ pcb' = [pcb EXCEPT ![n].estado = "READY"] => Leve
             /\ pcb' = [pcb EXCEPT ![n].estado = "TERMINATED"] => Leve
             /\ pcb' = [pcb EXCEPT ![n].estado = "RUNNING"] /\ CortoDespacha => Leve
             /\ \A x : pcb' = [pcb EXCEPT ![n].estado = "WAITING", ![n].resto = x] => Leve
  BY <1>1 DEF Leve, Pcb
<1> QED
  BY <1>2, <1>3 DEF Leve

(* The program counter in a PCB moves when its context comes home or when  *)
(* a WAIT blocks it, and only for running; only a dispatch writes RUNNING. *)
LEMMA PcQuieto ==
  ASSUME Serial, LugInd, Next
  PROVE  /\ ~ConexionRecibe /\ ~ConexionAtiende => \A p \in Pid : pcb'[p].pc = pcb[p].pc
         /\ \A p \in Pid : p = running \/ pcb'[p].pc = pcb[p].pc
         /\ UNCHANGED script
         /\ ~CortoDespacha => \A p \in Pid : pcb'[p].estado = "RUNNING"
                                                => pcb[p].estado = "RUNNING"
<1>1. /\ pcb \in [Pid -> Pcb] /\ pc["consola"] \in {"menu", "arranque", "bajar"}
      /\ running \in Pid \cup {NADIE} /\ SinDespachos /\ PedidosBuenos
      /\ cola_ready \in Seq(Pid) /\ cola_vrr \in Seq(Pid) /\ contador_pcb \in 0 .. NProcesos
      /\ fin \in [{"consola", "conexion"} -> Fin]
  BY DEF LugInd, ExcInd, TipoInd, TypeOK, Reglas, Arranque
<1>2. UNCHANGED script
  <2>1. ASSUME NEW h, LiberarRecurso(h) PROVE UNCHANGED script
    BY <2>1, LiberarQuieto DEF cicloVars
  <2> QED
    BY <2>1
    DEF Next, Menu, PasoConsola, PasoLargo, PasoCorto, PasoConexion, IniciarProceso,
        DetenerPlanificacion, IniciarPlanificacion, CambiarGrado, EliminarPcb,
        EliminarBloqueado, EliminarListo, EliminarNulo, EliminarRunning, QuitarBloqueado,
        ConsolaArranque, BajarGrado, TerminarProceso, TerminarDevolucion,
        LargoEspera, LargoDetenido, LargoPasa, CortoEspera, CortoDetenido, CortoDespacha,
        ConexionRecibe, ConexionDetenida, ConexionAtiende, ConexionBloquea, ConexionSuelta,
        Cpu, CpuPaso, CpuRecibe, CpuBajaBanderas, CpuFinaliza, CpuDesaloja, CpuInstruccion,
        CpuCalcula, CpuSalta, CpuPide, CpuTermina, Responder, Seguir, LlegaFinalizar,
        InterrupcionFinalizar, FinQuantum, InterrupcionQuantum, VueltaIO, cicloVars
<1>3. ASSUME Menu \/ PasoConsola PROVE Leve
  <2>1. ~EliminarPcb /\ ~LiberarRecurso("consola") /\ ~TerminarProceso("consola")
    BY <1>1, ConsolaNoFinaliza DEF Serial
  <2>2. CASE IniciarProceso
    <3>1. /\ contador_pcb \in Pid /\ pcb' = [pcb EXCEPT ![contador_pcb].estado = "NEW"]
      BY <1>1, <2>2, NProcesosAssumption DEF IniciarProceso, Pid
    <3> QED
      BY <1>1, <3>1, PcEscrito
  <2>3. CASE ~IniciarProceso
    <3>1. pcb' = pcb
      BY <1>3, <2>1, <2>3
      DEF Menu, PasoConsola, DetenerPlanificacion, IniciarPlanificacion, CambiarGrado,
          ConsolaArranque, BajarGrado
    <3> QED
      BY <1>1, <3>1, PcEscrito
  <2> QED
    BY <2>2, <2>3
<1>4. ASSUME PasoLargo PROVE Leve
  <2>1. pcb' = pcb \/ \E s : AgregarReady(pcb, s)
    BY <1>4 DEF PasoLargo, LargoEspera, LargoDetenido, LargoPasa
  <2> QED
    BY <1>1, <2>1, PcEscrito
<1>5. ASSUME PasoCorto PROVE Leve
  <2>1. CASE CortoEspera \/ CortoDetenido \/ (CortoDespacha /\ DespachaNulo)
    <3>1. pcb' = pcb
      BY <2>1 DEF CortoEspera, CortoDetenido, DespachaNulo
    <3> QED
      BY <1>1, <3>1, PcEscrito
  <2>2. CASE CortoDespacha /\ ~DespachaNulo
    <3>1. PICK n : /\ EnviarPorDispatch(n)
                   /\ \/ cola_vrr # <<>> /\ n = Head(cola_vrr)
                      \/ cola_ready # <<>> /\ n = Head(cola_ready)
      BY <2>2 DEF CortoDespacha, DespachaVrr, DespachaReady
    <3>2. /\ cola_vrr # <<>> => Head(cola_vrr) \in Pid
          /\ cola_ready # <<>> => Head(cola_ready) \in Pid
      BY <1>1, HeadTailProperties
    <3>3. n \in Pid /\ pcb' = [pcb EXCEPT ![n].estado = "RUNNING"]
      BY <3>1, <3>2 DEF EnviarPorDispatch
    <3> QED
      BY <1>1, <2>2, <3>3, PcEscrito
  <2> QED
    BY <1>5, <2>1, <2>2 DEF PasoCorto
<1>6. ASSUME Cpu \/ LlegaFinalizar \/ \E p \in Pid : FinQuantum(p) PROVE Leve
  <2>1. pcb' = pcb
    BY <1>6 DEF Cpu, LlegaFinalizar, FinQuantum, kernelVars
  <2> QED
    BY <1>1, <2>1, PcEscrito
<1>7. ASSUME NEW p \in Pid, VueltaIO(p) PROVE Leve
  <2>1. pcb' = [pcb EXCEPT ![p].estado = "READY"] \/ \E s : AgregarReady(pcb, s)
    BY <1>7 DEF VueltaIO, AgregarVrr
  <2> QED
    BY <1>1, <2>1, PcEscrito
<1>8. ASSUME NEW n \in Pid, NEW l, pedido.arg \in Interfaz, EjecutarIO(n, l) PROVE Leve
  <2>1. \E q : pcb' = [pcb EXCEPT ![n].estado = "WAITING", ![n].resto = q]
    BY <1>8 DEF EjecutarIO
  <2> QED
    BY <1>1, <2>1, PcEscrito
<1>9. ASSUME ConexionBloquea PROVE Leve
  <2>1. pedido.op = "IO_STD" /\ pedido.arg \in Interfaz
    BY <1>1, <1>9 DEF ConexionBloquea, PedidosBuenos, Pedible
  <2>2. fin["conexion"].pcb \in Pid /\ EjecutarIO(fin["conexion"].pcb, "recv")
    BY <1>1, <1>9, <2>1 DEF ConexionBloquea, Fin
  <2> QED
    BY <1>8, <2>1, <2>2
<1>10. ASSUME \/ ConexionDetenida \/ ConexionSuelta \/ TerminarDevolucion
              \/ LiberarRecurso("conexion") \/ TerminarProceso("conexion")
       PROVE  Leve
  <2>1. \/ pcb' = pcb \/ \E s : AgregarReady(pcb, s)
        \/ pcb' = [pcb EXCEPT ![fin["conexion"].pcb].estado = "TERMINATED"]
    BY <1>10 DEF ConexionDetenida, ConexionSuelta, TerminarDevolucion, LiberarRecurso,
                MirarRecurso, DespertarUno, DevolverUna, TerminarProceso, LiberarProceso
  <2>2. fin["conexion"].pcb \in Pid
    BY <1>1 DEF Fin
  <2> QED
    BY <1>1, <2>1, <2>2, PcEscrito
<1>11. CASE ConexionAtiende
  <2>1. running \in Pid /\ Pedible(pedido)
    BY <1>11, AtiendeDatos
  <2>2. CASE EjecutarWait
    <3>1. \/ pcb' = pcb
          \/ pcb' = [pcb EXCEPT ![running].estado = "WAITING", ![running].pc = @ - 1]
      BY <2>2 DEF EjecutarWait, Conceder, Bloquear
    <3>2. \A p \in Pid : p # running => pcb'[p] = pcb[p]
      BY <1>1, <3>1
    <3>3. pcb[running].estado = "RUNNING"
      BY <1>11, AtiendeDatos
    <3> QED
      BY <1>2, <1>11, <3>2, <3>3
  <2>3. CASE EjecutarSignal \/ IoSuelta \/ SinMemoria \/ RecursoInvalido
    <3>1. \/ pcb' = pcb \/ \E s : AgregarReady(pcb, s)
          \/ pcb' = [pcb EXCEPT ![running].estado = "TERMINATED"]
      BY <2>3 DEF EjecutarSignal, IoSuelta, SinMemoria, RecursoInvalido, LiberarProceso
    <3>2. Leve
      BY <1>1, <2>1, <3>1, PcEscrito
    <3> QED
      BY <1>2, <3>2 DEF Leve
  <2>4. CASE IoSleep
    <3>1. pedido.arg \in Interfaz
      BY <2>1, <2>4 DEF IoSleep, Pedible
    <3>2. Leve
      BY <1>8, <2>1, <2>4, <3>1 DEF IoSleep
    <3> QED
      BY <1>2, <3>2 DEF Leve
  <2> QED
    BY <1>11, <2>2, <2>3, <2>4 DEF ConexionAtiende
<1>12. CASE ConexionRecibe
  <2>1. running \in Pid /\ respuestas # <<>>
    BY <1>1, <1>12 DEF SinDespachos, ConexionRecibe
  <2>2. \A p \in Pid : p # running => pcb'[p] = pcb[p]
    <3>1. CASE RecibirDesalojo
      <4> DEFINE f == [ConContexto(running, Head(respuestas).ctx) EXCEPT ![running].resto = FALSE]
      <4>1. \A p \in Pid : p # running => f[p] = pcb[p]
        BY <1>1, <2>1 DEF ConContexto
      <4>2. AgregarReady(f, <<running>>)
        BY <3>1 DEF RecibirDesalojo
      <4>3. ToSet(<<running>>) = {running}
        BY <2>1, UnoSolo
      <4> HIDE DEF f
      <4>4. \A p \in Pid : p # running => pcb'[p] = f[p]
        BY <4>2, <4>3 DEF AgregarReady
      <4> QED
        BY <4>1, <4>4
    <3>2. CASE pcb' = ConContexto(running, Head(respuestas).ctx)
      BY <1>1, <2>1, <3>2 DEF ConContexto
    <3> QED
      BY <1>12, <3>1, <3>2
      DEF ConexionRecibe, RecibirPedido, RecibirFinalizado, RecibirFin
  <2>3. pcb[running].estado = "RUNNING"
    BY <2>1 DEF LugInd, Lugares, LugManos, ManosDe, Ocupado
  <2> QED
    BY <1>2, <1>12, <2>2, <2>3
<1> QED
  BY <1>2, <1>3, <1>4, <1>5, <1>6, <1>7, <1>9, <1>10, <1>11, <1>12
  DEF Next, PasoConexion, Leve

(* A process that does not run keeps its program counter.                  *)
LEMMA PcParado ==
  ASSUME Serial, LugInd, Next, NEW p \in Pid, pcb[p].estado # "RUNNING"
  PROVE  pcb'[p].pc = pcb[p].pc
<1>1. CASE ConexionRecibe \/ ConexionAtiende
  <2>1. Ocupado /\ LugManos
    BY <1>1 DEF ConexionRecibe, ConexionAtiende, Ocupado, LugInd, Lugares
  <2>2. p # running
    BY <2>1 DEF LugManos, ManosDe
  <2> QED
    BY <2>2, PcQuieto
<1>2. CASE ~ConexionRecibe /\ ~ConexionAtiende
  BY <1>2, PcQuieto
<1> QED
  BY <1>1, <1>2

(* Only the connection thread changes instances and queues of resources.   *)
LEMMA QuienUsaRecursos ==
  ASSUME Serial, LugInd, Next
  PROVE  \/ UNCHANGED <<instancias, bloqueados>>
         \/ ConexionAtiende /\ (EjecutarWait \/ EjecutarSignal)
         \/ DespertarUno("conexion") \/ DevolverUna("conexion")
<1>1. pc["consola"] \in {"menu", "arranque", "bajar"}
  BY DEF LugInd, ExcInd, Reglas, Arranque
<1>2. CASE Menu \/ PasoConsola
  <2>1. ~EliminarPcb /\ ~LiberarRecurso("consola") /\ ~TerminarProceso("consola")
    BY <1>1, ConsolaNoFinaliza DEF Serial
  <2> QED
    BY <1>2, <2>1
    DEF Menu, PasoConsola, IniciarProceso, DetenerPlanificacion, IniciarPlanificacion,
        CambiarGrado, ConsolaArranque, BajarGrado, recursosVars
<1>3. CASE PasoLargo \/ PasoCorto
  BY <1>3
  DEF PasoLargo, LargoEspera, LargoDetenido, LargoPasa, PasoCorto, CortoEspera, CortoDetenido,
      CortoDespacha, recursosVars
<1>4. CASE Cpu \/ LlegaFinalizar \/ \E p \in Pid : FinQuantum(p) \/ VueltaIO(p)
  BY <1>4 DEF Cpu, LlegaFinalizar, FinQuantum, VueltaIO, recursosVars
<1>5. CASE \/ ConexionRecibe \/ ConexionDetenida \/ ConexionBloquea \/ ConexionSuelta
           \/ TerminarDevolucion \/ TerminarProceso("conexion")
  BY <1>5
  DEF ConexionRecibe, ConexionDetenida, ConexionBloquea, ConexionSuelta, TerminarDevolucion,
      TerminarProceso, recursosVars
<1>6. CASE LiberarRecurso("conexion")
  BY <1>6 DEF LiberarRecurso, MirarRecurso, recursosVars
<1>7. CASE ConexionAtiende /\ ~EjecutarWait /\ ~EjecutarSignal
  BY <1>7 DEF ConexionAtiende, RecursoInvalido, SinMemoria, IoSleep, IoSuelta, recursosVars
<1> QED
  BY <1>2, <1>3, <1>4, <1>5, <1>6, <1>7 DEF Next, PasoConexion

(* What wakes a process shortens one queue from its front ...              *)
LEMMA ColaDevuelta ==
  ASSUME TypeOK, LugEspera, NEW r \in Recurso, Despertar(r), NEW s \in Recurso
  PROVE  /\ bloqueados'[s] = IF s = r
                             THEN SubSeq(bloqueados[r], Len(Despertados(r)) + 1,
                                         Len(bloqueados[r]))
                             ELSE bloqueados[s]
         /\ ToSet(bloqueados'[s]) \subseteq ToSet(bloqueados[s])
<1>1. bloqueados'[s] = IF s = r
                       THEN SubSeq(bloqueados[r], Len(Despertados(r)) + 1,
                                   Len(bloqueados[r]))
                       ELSE bloqueados[s]
  BY DEF TypeOK, RecursosTypeOK, Despertar
<1>2. ToSet(SubSeq(bloqueados[r], Len(Despertados(r)) + 1, Len(bloqueados[r])))
        \subseteq ToSet(bloqueados[r])
  BY DespertadosEsperan
<1> QED
  BY <1>1, <1>2

(* ... and puts the process in READY, in ejecutar_signal and in            *)
(* liberar_recursos.                                                       *)
Despierta(r) == Despertar(r) /\ AgregarReady(pcb, Despertados(r))

LEMMA QuienDespierta ==
  ASSUME LugInd, Sola
  PROVE  /\ ConexionAtiende /\ EjecutarSignal =>
              /\ pedido.arg \in Recurso /\ Despierta(pedido.arg)
              /\ instancias' = [instancias EXCEPT ![pedido.arg] = @ + 1]
         /\ DespertarUno("conexion") =>
              /\ RecursoDe("conexion") \in Recurso /\ Despierta(RecursoDe("conexion"))
              /\ UNCHANGED instancias
         /\ DevolverUna("conexion") =>
              /\ RecursoDe("conexion") \in Recurso /\ UNCHANGED bloqueados
              /\ instancias' = [instancias EXCEPT ![RecursoDe("conexion")] = @ + 1]
<1>1. \A r : Cuenta("conexion", r) = {1}
  BY CuentaSola
<1>2. fin["conexion"].i <= Len(ListaRecursos) => RecursoDe("conexion") \in Recurso
  BY TipoVuelta DEF LugInd, ExcInd, TipoInd
<1>3. ConexionAtiende /\ EjecutarSignal =>
        /\ pedido.arg \in Recurso /\ Despierta(pedido.arg)
        /\ instancias' = [instancias EXCEPT ![pedido.arg] = @ + 1]
  BY <1>1 DEF EjecutarSignal, Despierta, Devolver
<1>4. DespertarUno("conexion") =>
        /\ RecursoDe("conexion") \in Recurso /\ Despierta(RecursoDe("conexion"))
        /\ UNCHANGED instancias
  BY <1>2 DEF DespertarUno, EnVuelta, Despierta
<1>5. DevolverUna("conexion") =>
        /\ RecursoDe("conexion") \in Recurso /\ UNCHANGED bloqueados
        /\ instancias' = [instancias EXCEPT ![RecursoDe("conexion")] = @ + 1]
  BY <1>1, <1>2 DEF DevolverUna, EnVuelta, Devolver
<1> QED
  BY <1>3, <1>4, <1>5

(* Those who wait rewound the WAIT that they execute again.                *)
LEMMA RebobinadosPaso ==
  ASSUME Serial, LugInd, Sola, Rebobinados, Rebobinable, Next
  PROVE  Rebobinados'
<1>1. TypeOK /\ LugEspera /\ bloqueados \in [Recurso -> Seq(Pid)] /\ pcb \in [Pid -> Pcb]
  BY DEF LugInd, Lugares, ExcInd, TipoInd, TypeOK, RecursosTypeOK
<1>2. UNCHANGED script
  BY PcQuieto
<1> SUFFICES ASSUME NEW r \in Recurso, NEW p \in ToSet(bloqueados'[r])
             PROVE  Proxima(p, pcb'[p].pc, r)
  BY <1>2 DEF Rebobinados, Proxima
<1>3. \A q \in ToSet(bloqueados[r]) : q \in Pid /\ Proxima(q, pcb'[q].pc, r)
  <2> SUFFICES ASSUME NEW q \in ToSet(bloqueados[r])
               PROVE  q \in Pid /\ Proxima(q, pcb'[q].pc, r)
    OBVIOUS
  <2>1. bloqueados[r] \in Seq(Pid)
    BY <1>1
  <2>2. q \in Pid
    BY <2>1, LenProperties DEF ToSet
  <2>3. pcb[q].estado = "WAITING"
    BY <1>1, <2>2 DEF LugEspera, Bloqueado
  <2>4. pcb'[q].pc = pcb[q].pc
    BY <2>2, <2>3, PcParado
  <2> QED
    BY <2>2, <2>4 DEF Rebobinados
<1>4. CASE ToSet(bloqueados'[r]) \subseteq ToSet(bloqueados[r])
  BY <1>3, <1>4
<1>5. CASE ConexionAtiende /\ EjecutarWait /\ ~UNCHANGED bloqueados
  <2> DEFINE a == pedido.arg
  <2>1. Bloquear(running, a) /\ a \in Recurso /\ PideWait(pedido, a)
    BY <1>5 DEF EjecutarWait, Conceder, Otorgar, PideWait
  <2>2. running \in Pid /\ pc["conexion"] = "atender"
    BY <1>5, AtiendeDatos
  <2> HIDE DEF a
  <2>3. Proxima(running, pcb[running].pc - 1, a)
    BY <2>1, <2>2 DEF Rebobinable, PideBien
  <2>4. pcb'[running].pc = pcb[running].pc - 1
    <3>1. pcb[running] \in Pcb /\ pcb' = [pcb EXCEPT ![running].estado = "WAITING",
                                                     ![running].pc = @ - 1]
      BY <1>1, <2>1, <2>2 DEF Bloquear
    <3> QED
      BY <1>1, <2>2, <3>1 DEF Pcb
  <2>5. /\ bloqueados[a] \in Seq(Pid)
        /\ bloqueados'[r] = IF r = a THEN Append(bloqueados[a], running) ELSE bloqueados[r]
    BY <1>1, <2>1 DEF Bloquear, Encolar
  <2>6. ToSet(Append(bloqueados[a], running)) = ToSet(bloqueados[a]) \cup {running}
    BY <2>2, <2>5, AlFinal
  <2>7. p \in ToSet(bloqueados[r]) \/ (p = running /\ r = a)
    BY <2>5, <2>6
  <2> QED
    BY <1>3, <2>3, <2>4, <2>7
<1> QED
  <2>1. UNCHANGED bloqueados => ToSet(bloqueados'[r]) \subseteq ToSet(bloqueados[r])
    OBVIOUS
  <2>2. ASSUME NEW s \in Recurso, Despierta(s)
        PROVE  ToSet(bloqueados'[r]) \subseteq ToSet(bloqueados[r])
    BY <1>1, <2>2, ColaDevuelta DEF Despierta
  <2> QED
    BY <1>4, <1>5, <2>1, <2>2, QuienUsaRecursos, QuienDespierta

(* Only the CPU, a dispatch and the two steps of the connection thread     *)
(* that serve an answer touch what the right to the CPU travels in.        *)
LEMMA CanalesQuietos ==
  ASSUME Serial, LugInd, Next
  PROVE  \/ Cpu \/ CortoDespacha \/ ConexionRecibe \/ ConexionAtiende
         \/ /\ UNCHANGED <<dispatch, respuestas, cpu_pcb, cpu_estado, running>>
            /\ pc'["conexion"] \in {"detenido", "atender"} <=>
                 pc["conexion"] \in {"detenido", "atender"}
            /\ pc["conexion"] \in {"detenido", "atender"} => UNCHANGED pedido
<1> DEFINE Quieta ==
      /\ UNCHANGED <<dispatch, respuestas, cpu_pcb, cpu_estado, running>>
      /\ pc'["conexion"] \in {"detenido", "atender"} <=>
           pc["conexion"] \in {"detenido", "atender"}
      /\ pc["conexion"] \in {"detenido", "atender"} => UNCHANGED pedido
<1>1. /\ pc["consola"] \in {"menu", "arranque", "bajar"} /\ pc \in [Hilo -> Punto]
      /\ PedidosBuenos
  BY DEF LugInd, ExcInd, TipoInd, TypeOK, Reglas, Arranque
<1>2. ASSUME Menu \/ PasoConsola PROVE Quieta
  <2>1. ~EliminarPcb /\ ~LiberarRecurso("consola") /\ ~TerminarProceso("consola")
    BY <1>1, ConsolaNoFinaliza DEF Serial
  <2>2. UNCHANGED pc \/ \E x : Ir("consola", x)
    BY <1>2, <2>1
    DEF Menu, PasoConsola, IniciarProceso, DetenerPlanificacion, IniciarPlanificacion,
        CambiarGrado, ConsolaArranque, BajarGrado
  <2>3. pc'["conexion"] = pc["conexion"]
    BY <1>1, <2>2 DEF Ir, Hilo
  <2> QED
    BY <1>2, <2>1, <2>3
    DEF Menu, PasoConsola, IniciarProceso, DetenerPlanificacion, IniciarPlanificacion,
        CambiarGrado, ConsolaArranque, BajarGrado, cicloVars
<1>3. ASSUME PasoLargo \/ PasoCorto, ~CortoDespacha PROVE Quieta
  <2>1. UNCHANGED pc \/ \E x : Ir("largo", x) \/ Ir("corto", x)
    BY <1>3
    DEF PasoLargo, LargoEspera, LargoDetenido, LargoPasa, PasoCorto, CortoEspera, CortoDetenido
  <2>2. pc'["conexion"] = pc["conexion"]
    BY <1>1, <2>1 DEF Ir, Hilo
  <2> QED
    BY <1>3, <2>2
    DEF PasoLargo, LargoEspera, LargoDetenido, LargoPasa, PasoCorto, CortoEspera, CortoDetenido,
        cicloVars
<1>4. ASSUME LlegaFinalizar \/ \E p \in Pid : FinQuantum(p) \/ VueltaIO(p) PROVE Quieta
  BY <1>4
  DEF LlegaFinalizar, InterrupcionFinalizar, FinQuantum, InterrupcionQuantum, VueltaIO,
      kernelVars, canales, cicloVars
<1>5. ASSUME ConexionDetenida PROVE Quieta
  BY <1>1, <1>5 DEF ConexionDetenida, Ir, Hilo, cicloVars
<1>6. ASSUME \/ ConexionBloquea \/ ConexionSuelta \/ TerminarDevolucion
             \/ LiberarRecurso("conexion") \/ TerminarProceso("conexion")
      PROVE  Quieta
  <2>1. UNCHANGED <<dispatch, respuestas, cpu_pcb, cpu_estado, running>>
    BY <1>6, LiberarQuieto
    DEF ConexionBloquea, ConexionSuelta, TerminarDevolucion, TerminarProceso, cicloVars
  <2>2. pc["conexion"] \notin {"detenido", "atender"}
    BY <1>6
    DEF ConexionBloquea, ConexionSuelta, TerminarDevolucion, LiberarRecurso, MirarRecurso,
        DespertarUno, DevolverUna, EnVuelta, TerminarProceso
  <2>3. \/ pc'["conexion"] = pc["conexion"]
        \/ \E x \in {"recv", "liberar"} : Ir("conexion", x)
    BY <1>1, <1>6, LiberarQuieto
    DEF ConexionBloquea, ConexionSuelta, TerminarDevolucion, TerminarProceso, EjecutarIO,
        FinalizarPcb, PedidosBuenos
  <2>4. pc'["conexion"] \notin {"detenido", "atender"}
    BY <1>1, <2>2, <2>3 DEF Ir, Hilo
  <2> QED
    BY <2>1, <2>2, <2>4
<1> QED
  BY <1>2, <1>3, <1>4, <1>5, <1>6 DEF Next, PasoConexion, PasoCorto

(* One packet on an empty socket is the one that is read.                  *)
LEMMA PrimerPaquete ==
  ASSUME NEW m
  PROVE  Append(<<>>, m) # <<>> /\ Head(Append(<<>>, m)) = m
<1>1. Append(<<>>, m) = <<m>>
  OBVIOUS
<1> QED
  BY <1>1

(* While the CPU executes, it is the only one that carries anything, what  *)
(* it executes is running's, and nobody has told it to finish.             *)
LEMMA CicloDatos ==
  ASSUME LugInd, cpu_estado = "ciclo"
  PROVE  /\ dispatch = <<>> /\ respuestas = <<>> /\ ~hay_finalizar
         /\ pc["conexion"] \notin {"detenido", "atender"}
         /\ running \in Pid /\ cpu_pcb \in Contexto /\ cpu_pcb.pid = running
         /\ Archivo = Codigo[script[running]]
<1>1. /\ cpu_pcb \in Contexto \cup {NADIE} /\ running \in Pid \cup {NADIE}
      /\ CicloConContexto /\ SinDespachos /\ SinMuertes /\ Contextos
  BY DEF LugInd, Lugares, ExcInd, TipoInd, TypeOK, CicloTypeOK, Reglas
<1>2. PICK d \in Dueno : Manos(d)
  BY DEF LugInd, ExcInd
<1>3. /\ dispatch = <<>> /\ respuestas = <<>>
      /\ pc["conexion"] \notin {"detenido", "atender"}
  BY <1>2 DEF Manos
<1>4. cpu_pcb \in Contexto /\ running \in Pid /\ ~hay_finalizar /\ cpu_pcb.pid = running
  BY <1>1 DEF CicloConContexto, SinDespachos, SinMuertes, Contextos
<1> QED
  BY <1>3, <1>4 DEF Archivo

(* What asks for a resource comes from the instruction just fetched.       *)
LEMMA RebobinablePaso ==
  ASSUME Serial, LugInd, Rebobinable, Next
  PROVE  Rebobinable'
<1>1. /\ CicloConContexto /\ SinDespachos /\ Contextos /\ pcb \in [Pid -> Pcb]
      /\ running \in Pid \cup {NADIE} /\ pc \in [Hilo -> Punto]
      /\ respuestas \in Seq(Respuesta)
  BY DEF LugInd, Lugares, ExcInd, TipoInd, TypeOK, CicloTypeOK
<1>2. UNCHANGED script
  BY PcQuieto
<1>3. PICK d \in Dueno : Manos(d)
  BY DEF LugInd, ExcInd
<1>4. CASE Cpu
  <2>1. UNCHANGED <<running, pcb, pc, pedido>>
    BY <1>4 DEF Cpu, kernelVars
  <2>2. pc["conexion"] \in {"detenido", "atender"} => PideBien(pedido, pcb[running].pc - 1)'
    BY <1>2, <2>1 DEF Rebobinable, PideBien, Proxima
  <2>3. CASE CpuRecibe \/ CpuBajaBanderas
    BY <1>1, <1>2, <1>3, <2>1, <2>2, <2>3
    DEF CpuRecibe, CpuBajaBanderas, canales, Rebobinable, PideBien, Proxima, Manos
  <2>4. CASE CpuCalcula \/ CpuSalta
    <3>1. cpu_estado = "ciclo" /\ UNCHANGED <<cpu_estado, respuestas>>
      BY <2>4 DEF CpuCalcula, CpuSalta, EnFetch, Seguir, canales
    <3>2. respuestas = <<>>
      BY <3>1, CicloDatos
    <3> QED
      BY <2>1, <2>2, <3>1, <3>2 DEF Rebobinable
  <2>5. ASSUME NEW op, NEW arg, NEW ctx, cpu_estado = "ciclo", Responder(op, arg, ctx),
               \A r \in Recurso : op = "EJECUTAR_WAIT" /\ arg = r => Proxima(running, ctx.pc - 1, r)
        PROVE  Rebobinable'
    <3> DEFINE m == [op |-> op, arg |-> arg, ctx |-> ctx]
    <3>1. respuestas = <<>> /\ cpu_estado' = "ocioso" /\ respuestas' = Append(respuestas, m)
      BY <2>5, CicloDatos DEF Responder
    <3>2. m.op = op /\ m.arg = arg /\ m.ctx = ctx
      OBVIOUS
    <3> HIDE DEF m
    <3>3. Head(respuestas') = m
      BY <3>1, PrimerPaquete
    <3>4. \A r \in Recurso : PideWait(m, r) => Proxima(running, m.ctx.pc - 1, r)
      BY <2>5, <3>2 DEF PideWait
    <3>5. PideBien(Head(respuestas), Head(respuestas).ctx.pc - 1)'
      BY <1>2, <2>1, <3>3, <3>4 DEF PideBien, Proxima, PideWait
    <3> QED
      BY <2>1, <2>2, <3>1, <3>5 DEF Rebobinable
  <2>6. CASE CpuFinaliza \/ CpuDesaloja \/ CpuTermina
    BY <2>5, <2>6 DEF CpuFinaliza, CpuDesaloja, CpuTermina, EnFetch
  <2>7. CASE CpuPide
    <3>1. PICK i \in {<<"WAIT", "EJECUTAR_WAIT">>, <<"SIGNAL", "EJECUTAR_SIGNAL">>,
                      <<"IO_GEN_SLEEP", "IO_SLEEP">>, <<"IO_STD", "IO_STD">>,
                      <<"IO_FS", "IO_FS">>, <<"RESIZE", "OUT_OF_MEMORY">>} :
                 EnFetch({i[1]}) /\ Responder(i[2], Leida.arg, Avanzado)
      BY <2>7 DEF CpuPide
    <3>2. cpu_estado = "ciclo" /\ cpu_pcb.pc + 1 \in DOMAIN Archivo /\ Leida.op = i[1]
      BY <3>1 DEF EnFetch
    <3>3. i[2] = "EJECUTAR_WAIT" => i[1] = "WAIT"
      BY <3>1
    <3>4. cpu_pcb \in Contexto /\ Archivo = Codigo[script[running]]
      BY <3>2, CicloDatos
    <3>5. Avanzado.pc - 1 = cpu_pcb.pc
      BY <3>4 DEF Avanzado, Contexto
    <3>6. \A r : Leida.op = "WAIT" /\ Leida.arg = r => Proxima(running, cpu_pcb.pc, r)
      BY <3>2, <3>4 DEF Leida, Proxima
    <3>7. \A r \in Recurso : i[2] = "EJECUTAR_WAIT" /\ Leida.arg = r
                               => Proxima(running, Avanzado.pc - 1, r)
      BY <3>2, <3>3, <3>5, <3>6
    <3> QED
      BY <2>5, <3>1, <3>2, <3>7
  <2> QED
    BY <1>4, <2>3, <2>4, <2>6, <2>7 DEF Cpu, CpuPaso, CpuInstruccion
<1>5. CASE CortoDespacha
  <2>1. /\ respuestas = <<>> /\ dispatch = <<>>
        /\ pc["conexion"] \notin {"detenido", "atender"}
    BY <1>3, <1>5 DEF CortoDespacha, Manos
  <2>2. UNCHANGED <<respuestas, cpu_estado>> /\ pc'["conexion"] = pc["conexion"]
    BY <1>1, <1>5
    DEF CortoDespacha, DespachaVrr, DespachaReady, DespachaNulo, EnviarPorDispatch, Ir, Hilo,
        cpuVars
  <2> QED
    BY <1>1, <2>1, <2>2 DEF Rebobinable, CicloConContexto
<1>6. CASE ConexionRecibe
  <2>1. /\ dispatch = <<>> /\ respuestas # <<>> /\ respuestas' = Tail(respuestas)
        /\ Len(respuestas) <= 1
        /\ UNCHANGED <<running, cpu_estado>> /\ pc["conexion"] = "recv"
    BY <1>3, <1>6 DEF ConexionRecibe, cpuVars, Manos
  <2>2. respuestas' = <<>>
    BY <1>1, <2>1, ColaDeUno
  <2>3. running \in Pid
    BY <1>1, <2>1 DEF SinDespachos
  <2>4. CASE RecibirPedido
    <3>1. pcb' = ConContexto(running, Head(respuestas).ctx) /\ pedido' = Head(respuestas)
      BY <2>4 DEF RecibirPedido
    <3>2. pcb[running] \in Pcb
      BY <1>1, <2>3
    <3>3. pcb'[running].pc = Head(respuestas).ctx.pc
      BY <1>1, <2>3, <3>1, <3>2 DEF ConContexto, Pcb
    <3>4. PideBien(pedido, pcb[running].pc - 1)'
      BY <1>2, <2>1, <3>1, <3>3 DEF Rebobinable, PideBien, Proxima
    <3> QED
      BY <1>1, <2>1, <2>2, <3>4 DEF Rebobinable, CicloConContexto
  <2>5. CASE ~RecibirPedido
    <3>1. pc'["conexion"] \notin {"detenido", "atender"}
      BY <1>1, <1>6, <2>1, <2>5
      DEF ConexionRecibe, RecibirDesalojo, RecibirFinalizado, RecibirFin, FinalizarPcb, Ir, Hilo
    <3> QED
      BY <1>1, <2>1, <2>2, <3>1 DEF Rebobinable, CicloConContexto
  <2> QED
    BY <2>4, <2>5
<1>7. CASE ConexionAtiende
  <2>1. dispatch = <<>> /\ respuestas = <<>> /\ UNCHANGED <<respuestas, cpu_estado>>
    BY <1>7, AtiendeDatos
  <2>2. \E x \in Punto : Ir("conexion", x) /\ x \notin {"detenido", "atender"}
    BY <1>7
    DEF ConexionAtiende, EjecutarWait, EjecutarSignal, RecursoInvalido, SinMemoria, IoSleep,
        IoSuelta, EjecutarIO, FinalizarPcb, Punto
  <2>3. pc'["conexion"] \notin {"detenido", "atender"}
    BY <1>7, <2>2, AtiendeDatos
  <2> QED
    BY <1>1, <2>1, <2>3 DEF Rebobinable, CicloConContexto
<1>8. CASE ~Cpu /\ ~CortoDespacha /\ ~ConexionRecibe /\ ~ConexionAtiende
  <2>1. /\ UNCHANGED <<dispatch, respuestas, cpu_pcb, cpu_estado, running>>
        /\ pc'["conexion"] \in {"detenido", "atender"} <=>
             pc["conexion"] \in {"detenido", "atender"}
        /\ pc["conexion"] \in {"detenido", "atender"} => UNCHANGED pedido
    BY <1>8, CanalesQuietos
  <2>2. \A p \in Pid : pcb'[p].pc = pcb[p].pc
    BY <1>8, PcQuieto
  <2>3. pc["conexion"] \in {"detenido", "atender"} => running \in Pid
    BY <1>1 DEF SinDespachos
  <2>4. pc["conexion"] \in {"detenido", "atender"} => PideBien(pedido, pcb[running].pc - 1)'
    BY <1>2, <2>1, <2>2, <2>3 DEF Rebobinable, PideBien, Proxima
  <2>5. respuestas # <<>> => PideBien(Head(respuestas), Head(respuestas).ctx.pc - 1)'
    BY <1>2, <2>1 DEF Rebobinable, PideBien, Proxima
  <2> QED
    BY <2>1, <2>4, <2>5 DEF Rebobinable
<1> QED
  BY <1>4, <1>5, <1>6, <1>7, <1>8

(* A ready process is in a queue, now and after any step.                  *)
LEMMA ListoEnCola ==
  TypeOK /\ LugListo => \A p \in Pid : pcb[p].estado = "READY" => EnListos(p) > 0
<1> SUFFICES ASSUME TypeOK, LugListo, NEW p \in Pid, pcb[p].estado = "READY"
             PROVE  EnListos(p) > 0
  OBVIOUS
<1>1. EnListos(p) = 1
  BY ListosUna
<1> QED
  BY <1>1

(* The same, after a step.                                                 *)
LEMMA ListoEnColaLuego ==
  (TypeOK /\ LugListo => \A p \in Pid : pcb[p].estado = "READY" => EnListos(p) > 0)'
BY ListoEnCola, PTL

(* A ready process stays ready, with its program counter, until it runs.   *)
LEMMA ListoSigue ==
  ASSUME Serial, LugInd, Next, NEW p \in Pid, pcb[p].estado = "READY"
  PROVE  /\ pcb'[p].pc = pcb[p].pc
         /\ \/ pcb'[p].estado = "READY" /\ EnListos(p)' > 0
            \/ /\ CortoDespacha /\ running' = p
               /\ dispatch' # <<>> /\ Head(dispatch').ctx.pc = pcb[p].pc
<1>1. LugInd' /\ PasoDiagrama
  BY LugPaso
<1>2. /\ pcb \in [Pid -> Pcb] /\ dispatch \in Seq(Despacho)
      /\ cola_ready \in Seq(Pid) /\ cola_vrr \in Seq(Pid)
  BY DEF LugInd, ExcInd, TipoInd, TypeOK, CicloTypeOK
<1>3. pcb'[p].pc = pcb[p].pc
  BY PcParado
<1>4. EstadoVisible[p] = "READY"
  BY VisibleEs DEF LugInd, Lugares
<1>5. EstadoVisible'[p] \in {"READY", "RUNNING"}
  BY <1>1, <1>4
  DEF PasoDiagrama, Abstracto!Next, Abstracto!Crear, Abstracto!Admitir,
      Abstracto!Despachar, Abstracto!Dejar, Abstracto!Despertar, Abstracto!CambiarLimite,
      Abstracto!Con, Abstracto!Pasar
<1>6. pcb'[p].estado \in {"READY", "RUNNING"}
  BY <1>5 DEF EstadoVisible
<1>7. CASE pcb'[p].estado = "READY"
  BY <1>1, <1>3, <1>7, ListoEnColaLuego DEF LugInd, Lugares, ExcInd, TipoInd
<1>8. CASE pcb'[p].estado = "RUNNING"
  <2>1. CortoDespacha
    BY <1>8, PcQuieto
  <2>2. dispatch = <<>>
    BY <2>1 DEF LugInd, ExcInd, Manos, CortoDespacha
  <2>3. ~DespachaNulo
    BY <1>8 DEF DespachaNulo
  <2>4. PICK n : /\ EnviarPorDispatch(n)
                 /\ \/ cola_vrr # <<>> /\ n = Head(cola_vrr)
                    \/ cola_ready # <<>> /\ n = Head(cola_ready)
    BY <2>1, <2>3 DEF CortoDespacha, DespachaVrr, DespachaReady
  <2>5. /\ cola_vrr # <<>> => Head(cola_vrr) \in Pid
        /\ cola_ready # <<>> => Head(cola_ready) \in Pid
    BY <1>2, HeadTailProperties
  <2>6. n \in Pid /\ pcb' = [pcb EXCEPT ![n].estado = "RUNNING"] /\ running' = n
    BY <2>4, <2>5 DEF EnviarPorDispatch
  <2>7. n = p
    BY <1>2, <1>8, <2>6
  <2> DEFINE m == [ctx |-> [pid |-> pcb[p].pid, pc |-> pcb[p].pc], con_quantum |-> ConQuantum]
  <2>8. dispatch' = Append(<<>>, m)
    BY <2>2, <2>4, <2>7 DEF EnviarPorDispatch, EnviarPcb
  <2>9. m.ctx.pc = pcb[p].pc
    OBVIOUS
  <2> HIDE DEF m
  <2> QED
    BY <1>3, <2>1, <2>6, <2>7, <2>8, <2>9, PrimerPaquete
<1> QED
  BY <1>6, <1>7, <1>8

(* The one that runs keeps on its way through every hand, until its WAIT   *)
(* is served.                                                              *)
LEMMA TrabajoSigue ==
  ASSUME Serial, LugInd, Rebobinable, Next, NEW r \in Recurso, EnTrabajo(r),
         NEW p \in Pid, running = p,
         ~(ConexionAtiende /\ EjecutarWait /\ pedido.arg = r)
  PROVE  VaAPedir(p, r)'
<1>1. /\ CicloConContexto /\ SinDespachos /\ pcb \in [Pid -> Pcb]
      /\ running \in Pid \cup {NADIE} /\ pc \in [Hilo -> Punto]
      /\ respuestas \in Seq(Respuesta)
  BY DEF LugInd, Lugares, ExcInd, TipoInd, TypeOK, CicloTypeOK
<1>2. UNCHANGED script
  BY PcQuieto
<1>3. PICK d \in Dueno : Manos(d)
  BY DEF LugInd, ExcInd
<1>4. running \in Pid
  BY <1>1 DEF EnTrabajo, SinDespachos
<1>5. UNCHANGED running /\ EnTrabajo(r)' => VaAPedir(p, r)'
  BY DEF EnTrabajo, VaAPedir
<1>6. CASE Cpu
  <2>1. UNCHANGED <<running, pcb, pc, pedido>>
    BY <1>6 DEF Cpu, kernelVars
  <2>2. CASE pc["conexion"] \in {"detenido", "atender"} /\ PideWait(pedido, r)
    BY <1>5, <2>1, <2>2 DEF EnTrabajo
  <2>3. CASE ~(pc["conexion"] \in {"detenido", "atender"} /\ PideWait(pedido, r))
    <3>1. CASE CpuRecibe \/ CpuBajaBanderas
      <4>1. respuestas' = respuestas
        BY <3>1 DEF CpuRecibe, CpuBajaBanderas, canales
      <4>2. cpu_estado # "ciclo"
        BY <3>1 DEF CpuRecibe, CpuBajaBanderas
      <4>3. dispatch # <<>> =>
              \/ dispatch' = dispatch
              \/ cpu_estado' = "ciclo" /\ cpu_pcb' = Head(dispatch).ctx
        BY <3>1 DEF CpuRecibe, CpuBajaBanderas, canales, Rebobinable
      <4> QED
        BY <1>2, <1>5, <2>1, <2>3, <4>1, <4>2, <4>3 DEF EnTrabajo, Proxima, PideWait
    <3>2. CASE ~CpuRecibe /\ ~CpuBajaBanderas
      <4>1. cpu_estado = "ciclo"
        BY <1>6, <3>2
        DEF Cpu, CpuPaso, CpuFinaliza, CpuDesaloja, CpuInstruccion, CpuCalcula, CpuSalta,
            CpuPide, CpuTermina, EnFetch
      <4>2. /\ dispatch = <<>> /\ respuestas = <<>> /\ ~hay_finalizar
            /\ Archivo = Codigo[script[running]]
        BY <4>1, CicloDatos
      <4>3. Proxima(running, cpu_pcb.pc, r)
        BY <2>3, <4>2 DEF EnTrabajo
      <4>4. ASSUME NEW op, NEW arg, NEW ctx, Responder(op, arg, ctx),
                   \/ op = "ENVIAR_DESALOJAR" /\ Proxima(running, ctx.pc, r)
                   \/ op = "EJECUTAR_WAIT" /\ arg = r
            PROVE  VaAPedir(p, r)'
        <5> DEFINE m == [op |-> op, arg |-> arg, ctx |-> ctx]
        <5>1. m.op = op /\ m.arg = arg /\ m.ctx = ctx /\ respuestas' = Append(<<>>, m)
          BY <4>2, <4>4 DEF Responder
        <5> HIDE DEF m
        <5>2. respuestas' # <<>> /\ Head(respuestas') = m
          BY <5>1, PrimerPaquete
        <5>3. \/ m.op = "ENVIAR_DESALOJAR" /\ Proxima(running, m.ctx.pc, r)
              \/ PideWait(m, r)
          BY <4>4, <5>1 DEF PideWait
        <5> QED
          BY <1>2, <1>5, <2>1, <5>2, <5>3 DEF EnTrabajo, Proxima, PideWait
      <4>5. CASE CpuDesaloja
        BY <4>3, <4>4, <4>5 DEF CpuDesaloja
      <4>6. Leida.op = "WAIT" /\ Leida.arg = r
        BY <4>2, <4>3 DEF Proxima, Leida
      <4>7. CASE CpuPide
        <5>1. PICK i \in {<<"WAIT", "EJECUTAR_WAIT">>, <<"SIGNAL", "EJECUTAR_SIGNAL">>,
                          <<"IO_GEN_SLEEP", "IO_SLEEP">>, <<"IO_STD", "IO_STD">>,
                          <<"IO_FS", "IO_FS">>, <<"RESIZE", "OUT_OF_MEMORY">>} :
                     EnFetch({i[1]}) /\ Responder(i[2], Leida.arg, Avanzado)
          BY <4>7 DEF CpuPide
        <5>2. i[1] = "WAIT"
          BY <4>6, <5>1 DEF EnFetch
        <5>3. i[2] = "EJECUTAR_WAIT"
          BY <5>1, <5>2
        <5> QED
          BY <4>4, <4>6, <5>1, <5>3
      <4>8. ~CpuFinaliza /\ ~CpuCalcula /\ ~CpuSalta /\ ~CpuTermina
        BY <4>2, <4>6 DEF CpuFinaliza, CpuCalcula, CpuSalta, CpuTermina, EnFetch
      <4> QED
        BY <1>6, <3>2, <4>5, <4>7, <4>8 DEF Cpu, CpuPaso, CpuInstruccion
    <3> QED
      BY <3>1, <3>2
  <2> QED
    BY <2>2, <2>3
<1>7. ~CortoDespacha
  BY <1>3 DEF CortoDespacha, Manos, EnTrabajo
<1>8. CASE ConexionRecibe
  <2>1. /\ dispatch = <<>> /\ respuestas # <<>> /\ cpu_estado # "ciclo"
        /\ pc["conexion"] = "recv" /\ UNCHANGED running
    BY <1>3, <1>8 DEF ConexionRecibe, Manos
  <2>2. CASE PideWait(Head(respuestas), r)
    <3>1. RecibirPedido
      BY <1>8, <2>2
      DEF ConexionRecibe, RecibirDesalojo, RecibirFinalizado, RecibirFin, PideWait
    <3>2. pc'["conexion"] \in {"detenido", "atender"} /\ pedido' = Head(respuestas)
      BY <1>1, <3>1 DEF RecibirPedido, Ir, Hilo
    <3>3. PideWait(pedido, r)'
      BY <2>2, <3>2 DEF PideWait
    <3> QED
      BY <1>5, <2>1, <3>2, <3>3 DEF EnTrabajo
  <2>3. CASE /\ Head(respuestas).op = "ENVIAR_DESALOJAR"
             /\ Proxima(running, Head(respuestas).ctx.pc, r)
    <3> DEFINE f == [ConContexto(running, Head(respuestas).ctx) EXCEPT ![running].resto = FALSE]
    <3>1. AgregarReady(f, <<running>>)
      BY <1>8, <2>3
      DEF ConexionRecibe, RecibirPedido, Pedidos, RecibirDesalojo, RecibirFinalizado, RecibirFin
    <3>2. Head(respuestas).ctx \in Contexto
      <4>1. Head(respuestas) \in Respuesta
        BY <1>1, <2>1, HeadTailProperties
      <4> QED
        BY <4>1 DEF Respuesta
    <3>3. f \in [Pid -> Pcb]
      BY <1>1, <1>4, <3>2, ContextoTipo, RestoTipo
    <3>4. f[running] \in Pcb
      BY <1>4, <3>3
    <3>5. f[running].pc = Head(respuestas).ctx.pc
      <4>1. pcb[running] \in Pcb
        BY <1>1, <1>4
      <4> QED
        BY <1>1, <1>4, <4>1 DEF ConContexto, Pcb
    <3> HIDE DEF f
    <3>6. pcb'[running] = [f[running] EXCEPT !.estado = "READY"]
      BY <1>4, <3>1, UnoSolo DEF AgregarReady
    <3>7. pcb'[running].pc = Head(respuestas).ctx.pc /\ pcb'[running].estado = "READY"
      BY <3>4, <3>5, <3>6 DEF Pcb
    <3>8. LugInd'
      BY LugPaso
    <3>9. pcb'[p].estado = "READY" => EnListos(p)' > 0
      BY <3>8, ListoEnColaLuego DEF LugInd, Lugares, ExcInd, TipoInd
    <3> QED
      BY <1>2, <2>3, <3>7, <3>9 DEF VaAPedir, Proxima
  <2> QED
    BY <2>1, <2>2, <2>3 DEF EnTrabajo
<1>9. CASE ConexionAtiende
  <2>1. PideWait(pedido, r)
    BY <1>9, AtiendeDatos DEF EnTrabajo
  <2>2. ~EjecutarWait
    BY <1>9, <2>1 DEF PideWait
  <2> QED
    BY <1>9, <2>1, <2>2
    DEF ConexionAtiende, PideWait, EjecutarSignal, RecursoInvalido, SinMemoria, IoSleep, IoSuelta
<1>10. CASE ~Cpu /\ ~ConexionRecibe /\ ~ConexionAtiende
  BY <1>2, <1>5, <1>7, <1>10, CanalesQuietos DEF EnTrabajo, Proxima, PideWait
<1> QED
  BY <1>6, <1>8, <1>9, <1>10

(* Nobody leaves the way to r but the one whose WAIT is served.            *)
LEMMA NadieSeVa ==
  ASSUME Serial, LugInd, Rebobinable, Next, NEW r \in Recurso, NEW p \in Pid, VaAPedir(p, r)
  PROVE  \/ VaAPedir(p, r)'
         \/ ConexionAtiende /\ EjecutarWait /\ pedido.arg = r /\ p = running
<1>1. \/ pcb[p].estado = "READY" /\ Proxima(p, pcb[p].pc, r)
      \/ running = p /\ EnTrabajo(r)
  BY VaAPedirEs
<1>2. CASE pcb[p].estado = "READY" /\ Proxima(p, pcb[p].pc, r)
  <2>1. UNCHANGED script
    BY PcQuieto
  <2>2. /\ pcb'[p].pc = pcb[p].pc
        /\ \/ pcb'[p].estado = "READY" /\ EnListos(p)' > 0
           \/ /\ running' = p /\ dispatch' # <<>> /\ Head(dispatch').ctx.pc = pcb[p].pc
    BY <1>2, ListoSigue
  <2> QED
    BY <1>2, <2>1, <2>2 DEF VaAPedir, Proxima
<1>3. CASE running = p /\ EnTrabajo(r)
  BY <1>3, TrabajoSigue
<1> QED
  BY <1>1, <1>2, <1>3

(* A queue without repetitions is as long as its set of elements.          *)
LEMMA TantosComoLargo ==
  ASSUME NEW S, NEW q \in Seq(S), IsInjective(q)
  PROVE  IsFiniteSet(ToSet(q)) /\ Cardinality(ToSet(q)) = Len(q)
<1>1. Len(q) \in Nat /\ DOMAIN q = 1 .. Len(q)
  BY LenProperties
<1>2. IsFiniteSet(1 .. Len(q)) /\ Cardinality(1 .. Len(q)) = Len(q)
  <2> DEFINE n == Len(q)
  <2>1. n \in Nat
    BY <1>1
  <2> HIDE DEF n
  <2>2. /\ IsFiniteSet(1 .. n)
        /\ Cardinality(1 .. n) = IF 1 > n THEN 0 ELSE n - 1 + 1
    BY <2>1, FS_Interval
  <2>3. (IF 1 > n THEN 0 ELSE n - 1 + 1) = n
    BY <2>1
  <2> QED
    BY <2>2, <2>3 DEF n
<1>3. q \in Surjection(1 .. Len(q), ToSet(q)) /\ q \in Injection(1 .. Len(q), ToSet(q))
  <2>1. q = [i \in 1 .. Len(q) |-> q[i]]
    BY <1>1
  <2>2. q \in [1 .. Len(q) -> ToSet(q)]
    BY <1>1, <2>1 DEF ToSet
  <2> QED
    BY <1>1, <2>2 DEF Surjection, Injection, IsInjective, ToSet
<1> QED
  BY <1>2, <1>3, FS_Surjection

(* Those who go to ask for r, a finite set.                                *)
Camino(r) == {p \in Pid : VaAPedir(p, r)}

(* Sets of processes are finite, and their subsets are no larger.          *)
LEMMA CaminoFinito ==
  ASSUME NEW S \in SUBSET Pid
  PROVE  IsFiniteSet(S) /\ Cardinality(S) \in Nat
         /\ \A T \in SUBSET S : Cardinality(T) <= Cardinality(S)
<1>1. 0 \in Int /\ NProcesos - 1 \in Int
  BY NProcesosAssumption
<1>2. IsFiniteSet(Pid)
  BY <1>1, FS_Interval DEF Pid
<1>3. IsFiniteSet(S)
  BY <1>2, FS_Subset
<1>4. \A T \in SUBSET S : Cardinality(T) <= Cardinality(S)
  BY <1>3, FS_Subset
<1> QED
  BY <1>3, <1>4, FS_CardinalityType

(* The process woken is one more on the way to the resource given back.    *)
LEMMA DevueltaBienRecibida ==
  ASSUME Serial, LugInd, Rebobinados, Next, NEW r \in Recurso, Despierta(r),
         Camino(r) \subseteq Camino(r)', bloqueados'[r] # <<>>
  PROVE  /\ bloqueados[r] # <<>>
         /\ Cardinality(Camino(r)') >= Cardinality(Camino(r)) + 1
<1> DEFINE s == Despertados(r)
           q == bloqueados[r]
           W == Camino(r)
           V == Camino(r)'
<1>1. /\ TypeOK /\ LugEspera /\ q \in Seq(Pid) /\ Len(q) \in Nat /\ pcb \in [Pid -> Pcb]
      /\ W \in SUBSET Pid /\ V \in SUBSET Pid
  BY LenProperties DEF LugInd, Lugares, ExcInd, TipoInd, TypeOK, RecursosTypeOK, Camino
<1>2. /\ s \in Seq(Pid) /\ IsInjective(s) /\ ToSet(s) \subseteq Pid
      /\ \A p \in ToSet(s) : pcb[p].estado = "WAITING"
      /\ ToSet(s) \subseteq ToSet(q)
  BY <1>1, DespertadosEsperan
<1>3. Len(s) = 1 /\ q # <<>>
  <2>1. bloqueados'[r] = SubSeq(q, Len(s) + 1, Len(q))
    BY <1>1, ColaDevuelta DEF Despierta
  <2>2. q # <<>>
    <3>1. Len(q) = 0 => SubSeq(q, Len(s) + 1, Len(q)) = <<>>
      <4>1. ASSUME NEW k \in Nat, NEW u \in Seq(Pid), Len(u) = 0
            PROVE  SubSeq(u, k + 1, Len(u)) = <<>>
        BY <4>1
      <4>2. Len(s) \in Nat
        BY <1>2, LenProperties
      <4> HIDE DEF q, s
      <4> QED
        BY <1>1, <4>1, <4>2
    <3>2. q = <<>> => Len(q) = 0
      OBVIOUS
    <3> QED
      BY <2>1, <3>1, <3>2
  <2>3. s = SubSeq(q, 1, 1)
    BY <2>2 DEF Despertados
  <2>4. 1 \in 0 .. Len(q)
    BY <1>1, <2>2, EmptySeq
  <2>5. Len(s) = 1
    <3> HIDE DEF q, s
    <3> QED
      BY <1>1, <2>3, <2>4, Partir
  <2> QED
    BY <2>2, <2>5
<1> HIDE DEF s, q
<1>4. \A p \in ToSet(s) : p \in V
  <2> SUFFICES ASSUME NEW p \in ToSet(s) PROVE VaAPedir(p, r)'
    BY <1>2 DEF Camino
  <2>1. p \in Pid /\ pcb[p] \in Pcb /\ pcb[p].estado = "WAITING" /\ p \in ToSet(q)
    BY <1>1, <1>2
  <2>2. pcb'[p] = [pcb[p] EXCEPT !.estado = "READY"]
    BY <2>1 DEF Despierta, AgregarReady, s
  <2>3. pcb'[p].estado = "READY"
    BY <2>1, <2>2 DEF Pcb
  <2>4. EnListos(p)' > 0
    <3>1. LugInd'
      BY LugPaso
    <3> QED
      BY <2>1, <2>3, <3>1, ListoEnColaLuego DEF LugInd, Lugares, ExcInd, TipoInd
  <2>5. Proxima(p, pcb[p].pc, r)
    BY <2>1 DEF Rebobinados, q
  <2>6. pcb'[p].pc = pcb[p].pc /\ UNCHANGED script
    BY <2>1, PcParado, PcQuieto
  <2> QED
    BY <2>4, <2>5, <2>6 DEF VaAPedir, Proxima
<1>5. W \cap ToSet(s) = {}
  <2> SUFFICES ASSUME NEW p \in Pid, VaAPedir(p, r), p \in ToSet(s) PROVE FALSE
    BY <1>2 DEF Camino
  <2> QED
    BY <1>2, VaAPedirEs
<1>6. W \cup ToSet(s) \in SUBSET V
  BY <1>4
<1> HIDE DEF W, V
<1>7. Cardinality(W \cup ToSet(s)) <= Cardinality(V)
  BY <1>1, <1>6, CaminoFinito
<1>8. /\ IsFiniteSet(ToSet(s)) /\ Cardinality(ToSet(s)) = 1
      /\ IsFiniteSet(W) /\ Cardinality(W) \in Nat
      /\ Cardinality(V) \in Nat
  BY <1>1, <1>2, <1>3, TantosComoLargo, CaminoFinito
<1>9. Cardinality({}) = 0
  BY FS_EmptySet
<1>10. Cardinality(W \cup ToSet(s)) = Cardinality(W) + 1 - 0
  <2>1. Cardinality(W \cup ToSet(s)) =
          Cardinality(W) + Cardinality(ToSet(s)) - Cardinality(W \cap ToSet(s))
    BY <1>8, FS_Union
  <2> QED
    BY <1>5, <1>8, <1>9, <2>1
<1>11. Cardinality(V) >= Cardinality(W) + 1
  BY <1>7, <1>8, <1>10
<1> QED
  BY <1>3, <1>11 DEF W, V, q

(* Where instances are free, as many go to take them, after any step.      *)
LEMMA DespertarPaso ==
  ASSUME Serial, DespInd, Next
  PROVE  NoDespertarPerdido'
<1>1. /\ LugInd /\ Rebobinados /\ Rebobinable /\ TypeOK /\ LugEspera /\ Sola
      /\ \A r \in Recurso : instancias[r] \in Nat
      /\ instancias \in [Recurso -> Nat] /\ bloqueados \in [Recurso -> Seq(Pid)]
  BY DEF DespInd, LugInd, Lugares, ExcInd, TipoInd, TypeOK, RecursosTypeOK
<1> SUFFICES ASSUME NEW r \in Recurso, bloqueados'[r] # <<>>
             PROVE  instancias'[r] <= Cardinality(Camino(r)')
  BY DEF NoDespertarPerdido, Camino
<1>2. bloqueados[r] # <<>> => instancias[r] <= Cardinality(Camino(r))
  BY DEF DespInd, NoDespertarPerdido, Camino
<1>3. /\ Camino(r) \in SUBSET Pid /\ Camino(r)' \in SUBSET Pid
      /\ Cardinality(Camino(r)) \in Nat /\ Cardinality(Camino(r)') \in Nat
  <2>1. Camino(r) \in SUBSET Pid /\ Camino(r)' \in SUBSET Pid
    BY DEF Camino
  <2> QED
    BY <2>1, CaminoFinito
<1>4. CASE ConexionAtiende /\ EjecutarWait /\ pedido.arg = r
  <2>1. CASE instancias[r] > 0
    <3>1. Otorgar(pcb[running].pid, r, 1) /\ bloqueados' = bloqueados
      BY <1>1, <1>4, <2>1, CuentaSola DEF EjecutarWait, Conceder
    <3>2. instancias'[r] = instancias[r] - 1 /\ bloqueados' = bloqueados
      BY <1>1, <3>1 DEF Otorgar
    <3>3. Camino(r) \ {running} \in SUBSET Camino(r)'
      BY <1>1, NadieSeVa DEF Camino
    <3>4. Cardinality(Camino(r) \ {running}) <= Cardinality(Camino(r)')
      BY <1>3, <3>3, CaminoFinito
    <3>5. \/ Cardinality(Camino(r) \ {running}) = Cardinality(Camino(r)) - 1
          \/ Cardinality(Camino(r) \ {running}) = Cardinality(Camino(r))
      BY <1>3, CaminoFinito, FS_RemoveElement
    <3> DEFINE a == Cardinality(Camino(r))
               b == Cardinality(Camino(r)')
               c == Cardinality(Camino(r) \ {running})
               i == instancias[r]
    <3>6. a \in Nat /\ b \in Nat /\ i \in Nat /\ i <= a /\ c <= b /\ (c = a - 1 \/ c = a)
      BY <1>1, <1>2, <1>3, <3>2, <3>4, <3>5
    <3> HIDE DEF a, b, c, i
    <3>7. i - 1 <= b
      BY <3>6
    <3> QED
      BY <3>2, <3>7 DEF b, i
  <2>2. CASE ~(instancias[r] > 0)
    <3>1. Encolar(running, r)
      BY <1>4, <2>2 DEF EjecutarWait, Bloquear
    <3>2. instancias'[r] = 0
      BY <1>1, <2>2, <3>1 DEF Encolar
    <3> QED
      BY <1>3, <3>2
  <2> QED
    BY <2>1, <2>2
<1>5. ASSUME ~(ConexionAtiende /\ EjecutarWait /\ pedido.arg = r)
      PROVE  instancias'[r] <= Cardinality(Camino(r)')
  <2>1. Camino(r) \in SUBSET Camino(r)'
    BY <1>1, <1>5, NadieSeVa DEF Camino
  <2>2. Cardinality(Camino(r)) <= Cardinality(Camino(r)')
    BY <1>3, <2>1, CaminoFinito
  <2>3. CASE instancias'[r] = instancias[r] /\ bloqueados'[r] = bloqueados[r]
    BY <1>1, <1>2, <1>3, <2>2, <2>3
  <2>4. CASE ConexionAtiende /\ EjecutarWait
    <3>1. pedido.arg \in Recurso /\ pedido.arg # r
      BY <1>5, <2>4 DEF EjecutarWait
    <3>2. \/ Otorgar(pcb[running].pid, pedido.arg, 1) /\ UNCHANGED bloqueados
          \/ Encolar(running, pedido.arg)
      <4>1. Cuenta("conexion", pedido.arg) = {1}
        BY <1>1, CuentaSola
      <4>2. Conceder(running, pedido.arg) \/ Bloquear(running, pedido.arg)
        BY <2>4 DEF EjecutarWait
      <4> QED
        BY <4>1, <4>2 DEF Conceder, Bloquear
    <3>3. instancias'[r] = instancias[r] /\ bloqueados'[r] = bloqueados[r]
      BY <1>1, <3>1, <3>2 DEF Otorgar, Encolar
    <3> QED
      BY <2>3, <3>3
  <2>5. ASSUME NEW s \in Recurso, Despierta(s),
               UNCHANGED instancias \/ instancias' = [instancias EXCEPT ![s] = @ + 1]
        PROVE  instancias'[r] <= Cardinality(Camino(r)')
    <3>1. CASE s # r
      <4>1. instancias'[r] = instancias[r] /\ bloqueados'[r] = bloqueados[r]
        BY <1>1, <2>5, <3>1 DEF Despierta, Despertar
      <4> QED
        BY <2>3, <4>1
    <3>2. CASE s = r
      <4>1. /\ bloqueados[r] # <<>>
            /\ Cardinality(Camino(r)') >= Cardinality(Camino(r)) + 1
        BY <1>1, <2>1, <2>5, <3>2, DevueltaBienRecibida
      <4>2. instancias'[r] \in {instancias[r], instancias[r] + 1}
        BY <1>1, <2>5, <3>2
      <4> DEFINE a == Cardinality(Camino(r))
                 b == Cardinality(Camino(r)')
                 i == instancias[r]
      <4>3. a \in Nat /\ b \in Nat /\ i \in Nat /\ i <= a /\ b >= a + 1
        BY <1>1, <1>2, <1>3, <4>1
      <4> HIDE DEF a, b, i
      <4>4. i + 1 <= b /\ i <= b
        BY <4>3
      <4> QED
        BY <4>2, <4>4 DEF b, i
    <3> QED
      BY <3>1, <3>2
  <2>6. CASE DevolverUna("conexion")
    <3> DEFINE s == RecursoDe("conexion")
    <3>1. /\ s \in Recurso /\ UNCHANGED bloqueados /\ EnVuelta("conexion", "devolver")
          /\ instancias' = [instancias EXCEPT ![s] = @ + 1]
      BY <1>1, <2>6, QuienDespierta DEF DevolverUna
    <3>2. CASE s # r
      BY <1>1, <2>3, <3>1, <3>2
    <3>3. CASE s = r
      <4>1. instancias[r] < Cardinality(Camino(r)) /\ instancias'[r] = instancias[r] + 1
        BY <1>1, <3>1, <3>3 DEF DespInd, Repone, Camino
      <4> DEFINE a == Cardinality(Camino(r))
                 b == Cardinality(Camino(r)')
                 i == instancias[r]
      <4>2. a \in Nat /\ b \in Nat /\ i \in Nat /\ i < a /\ a <= b
        BY <1>1, <1>3, <2>2, <4>1
      <4> HIDE DEF a, b, i
      <4>3. i + 1 <= b
        BY <4>2
      <4> QED
        BY <4>1, <4>3 DEF b, i
    <3> QED
      BY <3>2, <3>3
  <2> QED
    BY <1>1, <2>3, <2>4, <2>5, <2>6, QuienUsaRecursos, QuienDespierta
<1> QED
  BY <1>4, <1>5

(* An instance comes back after its process has been woken, and nobody     *)
(* touches that resource in between.                                       *)
LEMMA DevolverSigue ==
  ASSUME Serial, LugInd, Sola, Next, ~DespertarUno("conexion"),
         EnVuelta("conexion", "devolver")'
  PROVE  /\ EnVuelta("conexion", "devolver") /\ RecursoDe("conexion")' = RecursoDe("conexion")
         /\ UNCHANGED <<instancias, bloqueados>>
<1>1. /\ fin \in [{"consola", "conexion"} -> Fin] /\ TypeOK /\ PedidosBuenos
      /\ pc["consola"] \in {"menu", "arranque", "bajar"}
  BY DEF LugInd, ExcInd, TipoInd, TypeOK, Reglas, Arranque
<1>2. fin'["conexion"].vuelta = "devolver"
  BY DEF EnVuelta
<1>3. CASE UNCHANGED fin
  <2>1. /\ EnVuelta("conexion", "devolver")
        /\ RecursoDe("conexion")' = RecursoDe("conexion")
    BY <1>2, <1>3 DEF Sola, Deuda, EnVuelta, RecursoDe
  <2>2. ~ConexionAtiende
    BY <2>1 DEF EnVuelta, ConexionAtiende
  <2>3. ~DevolverUna("conexion")
    <3> SUFFICES ASSUME DevolverUna("conexion") PROVE FALSE
      OBVIOUS
    <3>1. fin'["conexion"].vuelta \in {"mirar", "despertar"}
      BY <1>1 DEF DevolverUna, Fin
    <3> QED
      BY <1>2, <3>1
  <2> QED
    BY <2>1, <2>2, <2>3, QuienUsaRecursos
<1>4. CASE LiberarRecurso("conexion")
  <2>1. CASE MirarRecurso("conexion")
    <3> DEFINE n == asignados[fin["conexion"].pid][RecursoDe("conexion")]
    <3>1. /\ fin["conexion"].vuelta = "mirar"
          /\ fin' = IF n = 0 THEN [fin EXCEPT !["conexion"].i = @ + 1]
                    ELSE [fin EXCEPT !["conexion"].vuelta = "despertar",
                                     !["conexion"].faltan = n]
      BY <2>1 DEF MirarRecurso, EnVuelta
    <3> HIDE DEF n
    <3>2. fin'["conexion"].vuelta \in {"mirar", "despertar"}
      BY <1>1, <3>1 DEF Fin
    <3> QED
      BY <1>2, <3>2
  <2>2. CASE DevolverUna("conexion")
    <3>1. fin'["conexion"].vuelta \in {"mirar", "despertar"}
      BY <1>1, <2>2 DEF DevolverUna, Fin
    <3> QED
      BY <1>2, <3>1
  <2> QED
    BY <1>4, <2>1, <2>2 DEF LiberarRecurso
<1>5. CASE TerminarProceso("conexion") \/ TerminarDevolucion
  <2>1. fin'["conexion"].vuelta = "mirar"
    BY <1>1, <1>5 DEF TerminarProceso, TerminarDevolucion, FinNulo, LiberarDesde
  <2> QED
    BY <1>2, <2>1
<1>6. CASE ConexionRecibe \/ ConexionAtiende \/ ConexionBloquea
  <2>1. fin["conexion"].vuelta = "mirar"
    BY <1>6 DEF Sola, Deuda, ConexionRecibe, ConexionAtiende, ConexionBloquea
  <2>2. \A p, pid, luego : FinalizarPcb("conexion", p, pid, luego)
                             => fin'["conexion"].vuelta = "mirar"
    BY <1>1 DEF FinalizarPcb, LiberarDesde
  <2>3. ASSUME NEW p, NEW l, EjecutarIO(p, l) PROVE fin'["conexion"].vuelta = "mirar"
    <3>1. \/ fin' = [fin EXCEPT !["conexion"] = FinNulo]
          \/ FinalizarPcb("conexion", p, pcb[p].pid, l)
      BY <2>3 DEF EjecutarIO
    <3>2. FinNulo.vuelta = "mirar"
      BY DEF FinNulo, LiberarDesde
    <3> QED
      BY <1>1, <2>2, <3>1, <3>2
  <2>4. CASE ConexionRecibe
    BY <1>2, <2>1, <2>2, <2>4
    DEF ConexionRecibe, RecibirPedido, RecibirDesalojo, RecibirFinalizado, RecibirFin
  <2>5. CASE ConexionAtiende
    <3>1. CASE EjecutarWait \/ EjecutarSignal
      BY <1>2, <2>1, <3>1 DEF EjecutarWait, EjecutarSignal
    <3>2. CASE RecursoInvalido
      BY <1>1, <1>2, <3>2 DEF RecursoInvalido, LiberarDesde
    <3>3. CASE SinMemoria \/ IoSleep
      BY <1>2, <2>2, <2>3, <3>3 DEF SinMemoria, IoSleep
    <3>4. CASE IoSuelta
      BY <1>1, <1>2, <2>1, <3>4 DEF IoSuelta, Fin
    <3> QED
      BY <2>5, <3>1, <3>2, <3>3, <3>4 DEF ConexionAtiende
  <2>6. CASE ConexionBloquea
    BY <1>2, <2>3, <2>6 DEF ConexionBloquea
  <2> QED
    BY <1>6, <2>4, <2>5, <2>6
<1>7. CASE Menu \/ PasoConsola
  <2>1. ~EliminarPcb /\ ~LiberarRecurso("consola") /\ ~TerminarProceso("consola")
    BY <1>1, ConsolaNoFinaliza DEF Serial
  <2>2. UNCHANGED fin
    BY <1>7, <2>1
    DEF Menu, PasoConsola, IniciarProceso, DetenerPlanificacion, IniciarPlanificacion,
        CambiarGrado, ConsolaArranque, BajarGrado
  <2> QED
    BY <1>3, <2>2
<1>8. CASE PasoLargo \/ PasoCorto \/ ConexionDetenida \/ ConexionSuelta
  <2>1. UNCHANGED fin
    BY <1>8
    DEF PasoLargo, LargoEspera, LargoDetenido, LargoPasa, PasoCorto, CortoEspera, CortoDetenido,
        CortoDespacha, ConexionDetenida, ConexionSuelta
  <2> QED
    BY <1>3, <2>1
<1>9. CASE Cpu \/ LlegaFinalizar \/ \E p \in Pid : FinQuantum(p) \/ VueltaIO(p)
  <2>1. UNCHANGED fin
    BY <1>9 DEF Cpu, LlegaFinalizar, FinQuantum, VueltaIO, kernelVars
  <2> QED
    BY <1>3, <2>1
<1> QED
  BY <1>4, <1>5, <1>6, <1>7, <1>8, <1>9 DEF Next, PasoConexion

(* While the instance is on its way back, somebody comes for it.           *)
LEMMA ReponePaso ==
  ASSUME Serial, DespInd, Next
  PROVE  Repone'
<1>1. /\ LugInd /\ Rebobinados /\ Rebobinable /\ Sola
      /\ \A r \in Recurso : instancias[r] \in Nat
      /\ fin \in [{"consola", "conexion"} -> Fin]
  BY DEF DespInd, LugInd, ExcInd, TipoInd, TypeOK, RecursosTypeOK
<1> SUFFICES ASSUME NEW r \in Recurso, EnVuelta("conexion", "devolver")',
                    RecursoDe("conexion")' = r, bloqueados'[r] # <<>>
             PROVE  instancias'[r] < Cardinality(Camino(r)')
  BY DEF Repone, Camino
<1>2. pc["conexion"] # "atender"
  <2>1. CASE DespertarUno("conexion")
    BY <2>1 DEF DespertarUno, EnVuelta
  <2>2. CASE ~DespertarUno("conexion")
    BY <1>1, <2>2, DevolverSigue DEF EnVuelta
  <2> QED
    BY <2>1, <2>2
<1>3. Camino(r) \in SUBSET Camino(r)'
  BY <1>1, <1>2, NadieSeVa DEF Camino, ConexionAtiende
<1> DEFINE a == Cardinality(Camino(r))
           b == Cardinality(Camino(r)')
           i == instancias[r]
<1>4. a \in Nat /\ b \in Nat /\ a <= b /\ i \in Nat
  <2>1. Camino(r) \in SUBSET Pid /\ Camino(r)' \in SUBSET Pid
    BY DEF Camino
  <2> QED
    BY <1>1, <1>3, <2>1, CaminoFinito
<1>5. CASE DespertarUno("conexion")
  <2>1. /\ RecursoDe("conexion") \in Recurso /\ Despierta(RecursoDe("conexion"))
        /\ UNCHANGED instancias
    BY <1>1, <1>5, QuienDespierta
  <2>2. RecursoDe("conexion")' = RecursoDe("conexion")
    BY <1>1, <1>5 DEF DespertarUno, RecursoDe, Fin
  <2>3. bloqueados[r] # <<>> /\ b >= a + 1
    BY <1>1, <1>3, <2>1, <2>2, DevueltaBienRecibida
  <2>4. i <= a /\ instancias'[r] = i
    BY <2>1, <2>3 DEF DespInd, NoDespertarPerdido, Camino
  <2> HIDE DEF a, b, i
  <2>5. i < b
    BY <1>4, <2>3, <2>4
  <2> QED
    BY <2>4, <2>5 DEF b
<1>6. CASE ~DespertarUno("conexion")
  <2>1. /\ EnVuelta("conexion", "devolver") /\ RecursoDe("conexion") = r
        /\ UNCHANGED <<instancias, bloqueados>>
    BY <1>1, <1>6, DevolverSigue
  <2>2. i < a /\ instancias'[r] = i
    BY <2>1 DEF DespInd, Repone, Camino
  <2> HIDE DEF a, b, i
  <2>3. i < b
    BY <1>4, <2>2
  <2> QED
    BY <2>2, <2>3 DEF b
<1> QED
  BY <1>5, <1>6

(* Every step keeps the invariant.                                         *)
LEMMA DespPaso == Serial /\ DespInd /\ [Next]_vars => DespInd'
<1> SUFFICES ASSUME Serial, DespInd, [Next]_vars PROVE DespInd'
  OBVIOUS
<1>1. LugInd' /\ Sola'
  BY LugPaso, SolaPaso, SolaIgual DEF DespInd, Serial, LugInd, ExcInd, TipoInd
<1>2. CASE Next
  BY <1>1, <1>2, RebobinadosPaso, RebobinablePaso, DespertarPaso, ReponePaso DEF DespInd
<1>3. CASE UNCHANGED vars
  <2>1. UNCHANGED <<script, instancias, bloqueados, pcb, running, dispatch, respuestas, cpu_pcb,
                    cpu_estado, pc, pedido, cola_ready, cola_vrr, fin>>
    BY <1>3 DEF vars, recursosVars, cicloVars, kernelVars, colas
  <2>2. Rebobinados' /\ Rebobinable'
    BY <2>1 DEF DespInd, Rebobinados, Rebobinable, PideBien, PideWait, Proxima
  <2>3. NoDespertarPerdido' /\ Repone'
    <3>1. \A p \in Pid : EnListos(p)' = EnListos(p)
      BY <2>1 DEF EnListos, Veces
    <3>2. \A p \in Pid : \A r : VaAPedir(p, r)' <=> VaAPedir(p, r)
      BY <2>1, <3>1 DEF VaAPedir, PideWait, Proxima
    <3>3. \A r : Camino(r)' = Camino(r)
      BY <3>2 DEF Camino
    <3> QED
      BY <2>1, <3>3 DEF DespInd, NoDespertarPerdido, Repone, EnVuelta, RecursoDe, Camino
  <2> QED
    BY <1>1, <2>2, <2>3 DEF DespInd
<1> QED
  BY <1>2, <1>3

(* No wake-up is lost: while a process is blocked on a resource, every     *)
(* free instance of it has a process awake whose next instruction takes    *)
(* it, however the timers, the interfaces and the threads interleave       *)
(* (recursos.c:24-26, 56-60, 159-162).                                     *)
THEOREM NadieDuermeDeMas == Serial => (Spec => []NoDespertarPerdido)
<1> SUFFICES ASSUME Serial PROVE Spec => []NoDespertarPerdido
  OBVIOUS
<1>1. Init => DespInd
  <2> SUFFICES ASSUME Init PROVE DespInd
    OBVIOUS
  <2>1. /\ \A r \in Recurso : bloqueados[r] = <<>>
        /\ respuestas = <<>> /\ cpu_estado = "ocioso" /\ pc["conexion"] = "recv"
        /\ Sola
    BY SolaInicial DEF Init, RecursosInit, CicloInit
  <2>2. ToSet(<<>>) = {}
    BY DEF ToSet
  <2> QED
    BY <2>1, <2>2, LugInicial
    DEF DespInd, Rebobinados, Rebobinable, NoDespertarPerdido, Repone
<1>2. DespInd => NoDespertarPerdido
  BY DEF DespInd
<1> QED
  BY <1>1, <1>2, DespPaso, PTL DEF Spec
=============================================================================
