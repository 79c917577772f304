--------------------------------- MODULE Mmu ---------------------------------
(***************************************************************************)
(* Paging end to end: the CPU translates the addresses of the process it   *)
(* runs (mmu_traducir, cpu.c) through its TLB and memoria, and orders the  *)
(* accesses; interfaces carry out theirs later, on a connection of their   *)
(* own, with the translation the CPU made.                                 *)
(*                                                                         *)
(* Of the kernel there is only what memoria and the CPU see: processes are *)
(* created, dispatched, preempted between two instructions and finished.   *)
(***************************************************************************)
EXTENDS Memoria, Tlb

CONSTANTS Instrucciones,     \* what the programs may execute: see Instruccion
          Tecleado,          \* what a user types or a file holds
          Rebrota,           \* a process that has shrunk may grow again
          Cruza,             \* an access may cross the end of a page
          Matables,          \* states in which option 3 may finish a process
          MaxInstrucciones,  \* bound: instructions executed in all
          NADA

(* A logical address, a size and an operand are unsigned in the CPU.       *)
ASSUME MmuAssumption ==
  /\ \A i \in Instrucciones : i.dirs \in Seq(Nat) /\ i.n \in Nat /\ i.valor \in Nat
  /\ MaxInstrucciones \in Nat
  /\ SIN_PID \notin Pid

VARIABLES pcb,         \* the process in the CPU, or NADIE
          paso,        \* where the CPU is
          inst,        \* the instruction it executes, or NADA
          traducidas,  \* the addresses of inst already translated
          canal,       \* requests on the connection from the CPU to memoria
          respuesta,   \* the answer the CPU has not taken yet, or NADA
          dato,        \* [Pid -> what its last MOV_IN or STDOUT_WRITE read]
          estado,      \* [Pid -> where the kernel has it]
          pedido,      \* [Pid -> the access its interface will carry out, or NADA]
          redujo,      \* the pids that have asked for less than they had
          ejecutadas   \* instructions executed

cpuVars == <<pcb, paso, inst, traducidas>>
kernelVars == <<estado, pedido, redujo, ejecutadas>>
vars == <<memoriaVars, tlbVars, cpuVars, canal, respuesta, dato, kernelVars>>

EstadoMmu == {"sin crear", "listo", "cpu", "interfaz", "terminando", "fin"}
(* An operation on n bytes at some logical addresses; valor is the operand *)
(* of RESIZE and what MOV_OUT writes.                                      *)
Instruccion(op, dirs, n, valor) == [op |-> op, dirs |-> dirs, n |-> n, valor |-> valor]
Mensaje(op) == [op |-> op, pid |-> pcb, inst |-> inst, t |-> traducidas]
Respuesta(tipo, valor) == [tipo |-> tipo, valor |-> valor]
EnInterfaz == {"STDIN_READ", "STDOUT_WRITE"}

MmuTypeOK ==
  /\ MemoriaTypeOK /\ TlbTypeOK
  /\ DOMAIN espacio_usuario = Direccion
  /\ pcb \in Pid \cup {NADIE}
  /\ paso \in {"ciclo", "instruccion", "traducir", "marco", "dato", "resize"}
  /\ Len(canal) <= 2
  /\ respuesta # NADA => canal = <<>> /\ pcb # NADIE
  /\ estado \in [Pid -> EstadoMmu]
  /\ \A p \in Pid : estado[p] = "cpu" <=> pcb = p
  /\ ejecutadas \in 0 .. MaxInstrucciones

Init ==
  /\ InicializarEstructuras /\ IniciarEntradaTlb
  /\ pcb = NADIE /\ paso = "ciclo" /\ inst = NADA /\ traducidas = <<>>
  /\ canal = <<>> /\ respuesta = NADA
  /\ dato = [p \in Pid |-> <<>>]
  /\ estado = [p \in Pid |-> "sin crear"]
  /\ pedido = [p \in Pid |-> NADA]
  /\ redujo = {} /\ ejecutadas = 0

-----------------------------------------------------------------------------
(* The kernel.                                                             *)

Crear(p) ==
  /\ estado[p] = "sin crear"
  /\ CrearProceso(p)
  /\ estado' = [estado EXCEPT ![p] = "listo"]
  /\ UNCHANGED <<tlbVars, cpuVars, canal, respuesta, dato, pedido, redujo, ejecutadas>>

Despachar(p) ==
  /\ pcb = NADIE /\ estado[p] = "listo"
  /\ pcb' = p /\ estado' = [estado EXCEPT ![p] = "cpu"]
  /\ UNCHANGED <<memoriaVars, tlbVars, paso, inst, traducidas, canal, respuesta, dato,
                 pedido, redujo, ejecutadas>>

(* check_interrupt, between two instructions.                              *)
Desalojar ==
  /\ pcb # NADIE /\ paso = "ciclo"
  /\ pcb' = NADIE /\ estado' = [estado EXCEPT ![pcb] = "listo"]
  /\ UNCHANGED <<memoriaVars, tlbVars, paso, inst, traducidas, canal, respuesta, dato,
                 pedido, redujo, ejecutadas>>

(* Option 3 on a process that is not in the CPU.                           *)
Matar(p) ==
  /\ estado[p] \in Matables
  /\ estado' = [estado EXCEPT ![p] = "terminando"]
  /\ UNCHANGED <<memoriaVars, tlbVars, cpuVars, canal, respuesta, dato, pedido, redujo,
                 ejecutadas>>

Finalizar(p) ==
  /\ estado[p] = "terminando"
  /\ FinalizarProceso(p)
  /\ estado' = [estado EXCEPT ![p] = "fin"]
  /\ UNCHANGED <<tlbVars, cpuVars, canal, respuesta, dato, pedido, redujo, ejecutadas>>

-----------------------------------------------------------------------------
(* The CPU.                                                                *)

Fetch ==
  /\ pcb # NADIE /\ paso = "ciclo" /\ ejecutadas < MaxInstrucciones
  /\ canal' = Append(canal, Mensaje("INSTRUCCION"))
  /\ paso' = "instruccion"
  /\ UNCHANGED <<memoriaVars, tlbVars, pcb, inst, traducidas, respuesta, dato, kernelVars>>

EnRango(p, d, n) == /\ d + n <= tamanio_proceso[p]
                    /\ Cruza \/ d \div TAM_PAGINA = (d + n - 1) \div TAM_PAGINA

(* The instructions a program of p may have next: it keeps inside the size *)
(* it asked for.                                                           *)
Programa(p) ==
  {i \in Instrucciones :
     /\ \A k \in DOMAIN i.dirs : EnRango(p, i.dirs[k], i.n)
     /\ i.op = "RESIZE" => Rebrota \/ p \notin redujo \/ i.valor <= tamanio_proceso[p]}

Decodificar ==
  /\ paso = "instruccion" /\ respuesta # NADA
  /\ respuesta' = NADA
  /\ \E i \in Programa(pcb) :
       /\ inst' = IF i.op = "EXIT" THEN NADA ELSE i
       /\ \/ /\ i.op = "RESIZE"
             /\ canal' = Append(canal, [Mensaje("RESIZE") EXCEPT !.inst = i])
             /\ redujo' = IF i.valor < tamanio_proceso[pcb] THEN redujo \cup {pcb} ELSE redujo
             /\ paso' = "resize"
             /\ UNCHANGED <<pcb, estado>>
          \/ /\ i.op = "EXIT"
             /\ pcb' = NADIE /\ estado' = [estado EXCEPT ![pcb] = "terminando"]
             /\ paso' = "ciclo"
             /\ UNCHANGED <<canal, redujo>>
          \/ /\ i.op \notin {"RESIZE", "EXIT"}
             /\ paso' = "traducir"
             /\ UNCHANGED <<pcb, estado, canal, redujo>>
  /\ ejecutadas' = ejecutadas + 1
  /\ traducidas' = <<>>
  /\ UNCHANGED <<memoriaVars, tlbVars, dato, pedido>>

Logica == inst.dirs[Len(traducidas) + 1]
Pagina == Logica \div TAM_PAGINA
Traducida(marco) ==
  Append(traducidas, [marco |-> marco, desplazamiento |-> Logica - Pagina * TAM_PAGINA])
FaltaTraducir == paso = "traducir" /\ Len(traducidas) < Len(inst.dirs)

TlbHit ==
  /\ FaltaTraducir
  /\ ConsultarTlb(pcb, Pagina)
  /\ traducidas' = Traducida(MarcoEnTlb(pcb, Pagina))
  /\ UNCHANGED <<memoriaVars, pcb, paso, inst, canal, respuesta, dato, kernelVars>>

ObtenerElMarco ==
  /\ FaltaTraducir /\ Coincide(pcb, Pagina) = {}
  /\ canal' = Append(canal, Mensaje("OBTENER_MARCO"))
  /\ paso' = "marco"
  /\ UNCHANGED <<memoriaVars, tlbVars, pcb, inst, traducidas, respuesta, dato, kernelVars>>

(* With CANTIDAD_ENTRADAS_TLB=0 there is nowhere to keep the translation.  *)
RecibirMarco ==
  /\ paso = "marco" /\ respuesta # NADA
  /\ IF DOMAIN tlb = {} THEN UNCHANGED tlbVars
                        ELSE InsertarTlb(pcb, Pagina, respuesta.valor)
  /\ traducidas' = Traducida(respuesta.valor)
  /\ respuesta' = NADA /\ paso' = "traducir"
  /\ UNCHANGED <<memoriaVars, pcb, inst, canal, dato, kernelVars>>

Traducido == paso = "traducir" /\ Len(traducidas) = Len(inst.dirs)

(* Without the sem_wait of obtener_el_valor_de_memoria.                    *)
EnviarMovIn_SinEsperar ==
  /\ Traducido /\ inst.op = "MOV_IN"
  /\ canal' = Append(canal, Mensaje("MOV_IN")) /\ paso' = "ciclo"
  /\ inst' = NADA /\ traducidas' = <<>>
  /\ UNCHANGED <<memoriaVars, tlbVars, pcb, respuesta, dato, kernelVars>>

EnviarMovIn ==
  /\ Traducido /\ inst.op = "MOV_IN"
  /\ canal' = Append(canal, Mensaje("MOV_IN")) /\ paso' = "dato"
  /\ UNCHANGED <<memoriaVars, tlbVars, pcb, inst, traducidas, respuesta, dato, kernelVars>>

(* MOV_OUT and COPY_STRING are not answered: the CPU goes on.              *)
EnviarEscritura ==
  /\ Traducido /\ inst.op \in {"MOV_OUT", "COPY_STRING"}
  /\ canal' = Append(canal, Mensaje(inst.op)) /\ paso' = "ciclo"
  /\ inst' = NADA /\ traducidas' = <<>>
  /\ UNCHANGED <<memoriaVars, tlbVars, pcb, respuesta, dato, kernelVars>>

(* The PCB goes to the kernel and the translation to the interface.        *)
EnviarAInterfaz ==
  /\ Traducido /\ inst.op \in EnInterfaz
  /\ pedido' = [pedido EXCEPT ![pcb] = [inst |-> inst, t |-> traducidas]]
  /\ estado' = [estado EXCEPT ![pcb] = "interfaz"]
  /\ pcb' = NADIE /\ paso' = "ciclo" /\ inst' = NADA /\ traducidas' = <<>>
  /\ UNCHANGED <<memoriaVars, tlbVars, canal, respuesta, dato, redujo, ejecutadas>>

RecibirDato ==
  /\ paso = "dato" /\ respuesta # NADA
  /\ dato' = [dato EXCEPT ![pcb] = respuesta.valor]
  /\ respuesta' = NADA /\ paso' = "ciclo" /\ inst' = NADA /\ traducidas' = <<>>
  /\ UNCHANGED <<memoriaVars, tlbVars, pcb, canal, kernelVars>>

(* -1 is OUT_OF_MEMORY: the kernel finishes the process.                   *)
RecibirResize ==
  /\ paso = "resize" /\ respuesta # NADA
  /\ IF respuesta.valor = -1
     THEN pcb' = NADIE /\ estado' = [estado EXCEPT ![pcb] = "terminando"]
     ELSE UNCHANGED <<pcb, estado>>
  /\ respuesta' = NADA /\ paso' = "ciclo" /\ inst' = NADA
  /\ UNCHANGED <<memoriaVars, tlbVars, traducidas, canal, dato, pedido, redujo, ejecutadas>>

-----------------------------------------------------------------------------
(* The thread of memoria that serves the CPU, one request after another.   *)

Atiende(op) == /\ hilo_cpu.op = "espera" /\ canal # <<>> /\ Head(canal).op = op
               /\ canal' = Tail(canal)
Contesta(tipo, valor) == respuesta' = Respuesta(tipo, valor)
RestoCpu == UNCHANGED <<tlbVars, cpuVars, dato, kernelVars>>

EnviarInstrucciones ==
  /\ Atiende("INSTRUCCION") /\ Contesta("instruccion", 0)
  /\ UNCHANGED memoriaVars /\ RestoCpu

AtenderMarco ==
  /\ Atiende("OBTENER_MARCO")
  /\ LET m == Head(canal)
         pag == m.inst.dirs[Len(m.t) + 1] \div TAM_PAGINA
     IN  IF TieneMarco(m.pid, pag)
         THEN Contesta("marco", MandarMarco(m.pid, pag)) /\ UNCHANGED memoriaVars
         ELSE Caer /\ UNCHANGED respuesta
  /\ RestoCpu

AtenderMovIn ==
  /\ Atiende("MOV_IN") /\ Contesta("dato", Leer(Head(canal).t[1], 1))
  /\ UNCHANGED memoriaVars /\ RestoCpu

AtenderMovOut ==
  /\ Atiende("MOV_OUT") /\ Escribir(Head(canal).t[1], BytesDe(Head(canal).inst.valor))
  /\ UNCHANGED respuesta /\ RestoCpu

AtenderCopyString ==
  /\ Atiende("COPY_STRING")
  /\ CopyString(Head(canal).t[1], Head(canal).t[2], Head(canal).inst.n)
  /\ UNCHANGED respuesta /\ RestoCpu

AtenderResize ==
  /\ Atiende("RESIZE")
  /\ EnvioResize(Head(canal).pid, Head(canal).inst.valor)
  /\ UNCHANGED respuesta /\ RestoCpu

RechazarResize ==
  /\ Atiende("RESIZE") /\ Rechazado(Head(canal).pid, Head(canal).inst.valor)
  /\ Contesta("resize", -1)
  /\ UNCHANGED memoriaVars /\ RestoCpu

ContestarResize ==
  /\ TerminarResize /\ Contesta("resize", 0)
  /\ UNCHANGED canal /\ RestoCpu

SeguirMemoria ==
  /\ AsignarMarco \/ LiberarMarco \/ LiberarMarcos \/ QuitarTabla
  /\ UNCHANGED <<canal, respuesta>> /\ RestoCpu

-----------------------------------------------------------------------------
(* An interface, on a connection of its own (stdin_read and stdout_write   *)
(* serve DIALFS too); its answer makes the process READY.                  *)

Devolver(p) ==
  /\ pedido' = [pedido EXCEPT ![p] = NADA]
  /\ estado' = IF estado[p] = "interfaz" THEN [estado EXCEPT ![p] = "listo"] ELSE estado
  /\ UNCHANGED <<tlbVars, cpuVars, canal, respuesta, redujo, ejecutadas>>

StdinRead(p) ==
  /\ pedido[p] # NADA /\ pedido[p].inst.op = "STDIN_READ"
  /\ \E b \in Tecleado : Escribir(pedido[p].t[1], [i \in 1 .. pedido[p].inst.n |-> b])
  /\ Devolver(p) /\ UNCHANGED dato

StdoutWrite(p) ==
  /\ pedido[p] # NADA /\ pedido[p].inst.op = "STDOUT_WRITE"
  /\ dato' = [dato EXCEPT ![p] = Leer(pedido[p].t[1], pedido[p].inst.n)]
  /\ Devolver(p) /\ UNCHANGED memoriaVars

-----------------------------------------------------------------------------
Cpu == \/ Fetch \/ Decodificar \/ TlbHit \/ ObtenerElMarco \/ RecibirMarco
       \/ EnviarMovIn \/ EnviarEscritura \/ EnviarAInterfaz
       \/ RecibirDato \/ RecibirResize
HiloCpu == \/ EnviarInstrucciones \/ AtenderMarco \/ AtenderMovIn \/ AtenderMovOut
           \/ AtenderCopyString \/ AtenderResize \/ RechazarResize
           \/ ContestarResize \/ SeguirMemoria
Kernel(p) == Crear(p) \/ Despachar(p) \/ Matar(p) \/ Finalizar(p)

Next == /\ ~caida
        /\ \/ Cpu \/ HiloCpu \/ Desalojar
           \/ \E p \in Pid : Kernel(p) \/ StdinRead(p) \/ StdoutWrite(p)

Spec == Init /\ [][Next]_vars
=============================================================================
