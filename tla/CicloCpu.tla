------------------------------ MODULE CicloCpu ------------------------------
(***************************************************************************)
(* cpu/src/cpu.c as the kernel sees it: the dispatch thread                *)
(* (procesar_conexion, ejecutar_ciclo_de_instruccion, fetch, decode) and   *)
(* the interrupt thread (iniciar_servidor_interrupt).  An instruction that *)
(* only computes is abstracted to CALC; a jump may or may not be taken.    *)
(*                                                                         *)
(* The quantum timers are the kernel's detached threads                    *)
(* (planificadores.c).  A timer that expires sends one message, which the  *)
(* interrupt thread answers; nothing orders two timers, so the end of the  *)
(* sleep, the message and its handler are one step.                        *)
(***************************************************************************)
EXTENDS Recursos, FiniteSets

CONSTANTS
  Script,    \* the pseudocode files a user may start
  Codigo,    \* [Script -> sequence of instructions], memoria's copy of them
  Operando,  \* operands of WAIT, SIGNAL and IO instructions
  NADIE      \* the NULL PCB

Operacion == {"CALC", "SALTO", "WAIT", "SIGNAL", "IO_GEN_SLEEP", "IO_STD",
              "IO_FS", "RESIZE", "EXIT"}
Instruccion == [op : Operacion, arg : Operando, destino : Nat]

ASSUME CodigoAssumption == Codigo \in [Script -> Seq(Instruccion)]

VARIABLES
  script,        \* the file memoria loaded for each pid
  dispatch,      \* dispatch socket, kernel -> CPU
  respuestas,    \* dispatch socket, CPU -> kernel
  cpu_pcb,       \* the CPU's global pcb, NULL until the first dispatch
  cpu_estado,    \* where the dispatch thread is
  hay_desalojo,
  hay_finalizar,
  relojes,       \* sleeping quantum timers, per pid
  finalizar_en_vuelo  \* ENVIAR_FINALIZAR on the interrupt socket

cpuVars == <<cpu_pcb, cpu_estado, hay_desalojo, hay_finalizar>>
canales == <<dispatch, respuestas>>
cicloVars == <<script, dispatch, respuestas, cpu_pcb, cpu_estado, hay_desalojo,
               hay_finalizar, relojes, finalizar_en_vuelo>>

(* What travels of a PCB: empaquetar_pcb leaves the quantum behind.        *)
Contexto == [pid : Pid, pc : Int]
Pedidos == {"EJECUTAR_WAIT", "EJECUTAR_SIGNAL", "IO_SLEEP", "IO_STD", "IO_FS",
            "OUT_OF_MEMORY"}
Respuesta == [op : Pedidos \cup {"ENVIAR_DESALOJAR", "ENVIAR_FINALIZAR", "FINALIZAR"},
              arg : Operando \cup {"-"}, ctx : Contexto]
Despacho == [ctx : Contexto, con_quantum : BOOLEAN]

ASSUME NadieAssumption ==
  NADIE \notin Pid /\ NADIE \notin Contexto /\ NADIE \notin Respuesta

CicloTypeOK ==
  /\ script \in [Pid -> Script]
  /\ dispatch \in Seq(Despacho)
  /\ respuestas \in Seq(Respuesta)
  /\ cpu_pcb \in Contexto \cup {NADIE}
  /\ cpu_estado \in {"ocioso", "recibiendo", "ciclo"}
  /\ hay_desalojo \in BOOLEAN
  /\ hay_finalizar \in BOOLEAN
  /\ relojes \in [Pid -> Nat]
  /\ finalizar_en_vuelo \in Nat

CicloInit ==
  /\ script \in [Pid -> Script]
  /\ dispatch = <<>>
  /\ respuestas = <<>>
  /\ cpu_pcb = NADIE
  /\ cpu_estado = "ocioso"
  /\ hay_desalojo = FALSE
  /\ hay_finalizar = FALSE
  /\ relojes = [p \in Pid |-> 0]
  /\ finalizar_en_vuelo = 0

-----------------------------------------------------------------------------
(* case RECIBIR_PCB: the global pcb is written first ...                   *)
CpuRecibe ==
  /\ cpu_estado = "ocioso" /\ dispatch # <<>>
  /\ cpu_pcb' = Head(dispatch).ctx
  /\ cpu_estado' = "recibiendo"
  /\ UNCHANGED <<script, canales, hay_desalojo, hay_finalizar, relojes,
                 finalizar_en_vuelo>>

(* ... and the flags are cleared after it, whatever raised them meanwhile. *)
CpuBajaBanderas ==
  /\ cpu_estado = "recibiendo"
  /\ dispatch' = Tail(dispatch)
  /\ hay_desalojo' = FALSE
  /\ hay_finalizar' = FALSE
  /\ cpu_estado' = "ciclo"
  /\ UNCHANGED <<script, respuestas, cpu_pcb, relojes, finalizar_en_vuelo>>

(* The cycle ends with one answer to the kernel (enviar_pcb plus, for a    *)
(* request, the packet that follows it on the same socket).                *)
Responder(op, arg, ctx) ==
  /\ respuestas' = Append(respuestas, [op |-> op, arg |-> arg, ctx |-> ctx])
  /\ cpu_estado' = "ocioso"
  /\ cpu_pcb' = ctx
  /\ UNCHANGED <<script, dispatch, hay_finalizar, relojes, finalizar_en_vuelo>>

CpuFinaliza ==
  /\ cpu_estado = "ciclo" /\ hay_finalizar
  /\ Responder("ENVIAR_FINALIZAR", "-", cpu_pcb)
  /\ UNCHANGED hay_desalojo

CpuDesaloja ==
  /\ cpu_estado = "ciclo" /\ ~hay_finalizar /\ hay_desalojo
  /\ Responder("ENVIAR_DESALOJAR", "-", cpu_pcb)
  /\ UNCHANGED hay_desalojo

(* fetch: the instruction at the program counter, which then moves on.  A  *)
(* fetch past the end of the file kills memoria and leaves the CPU waiting.*)
Archivo == Codigo[script[cpu_pcb.pid]]
Leida == Archivo[cpu_pcb.pc + 1]
Avanzado == [cpu_pcb EXCEPT !.pc = @ + 1]
EnFetch(ops) ==
  /\ cpu_estado = "ciclo" /\ ~hay_finalizar /\ ~hay_desalojo
  /\ cpu_pcb.pc + 1 \in DOMAIN Archivo
  /\ Leida.op \in ops

Seguir(ctx) ==
  /\ cpu_pcb' = ctx
  /\ UNCHANGED <<script, canales, cpu_estado, hay_desalojo, hay_finalizar, relojes,
                 finalizar_en_vuelo>>

(* SET, SUM, SUB, MOV_IN, ..., a JNZ not taken, a RESIZE that fits.        *)
CpuCalcula == EnFetch({"CALC", "SALTO", "RESIZE"}) /\ Seguir(Avanzado)

(* JNZ with a register that is not 0; SET PC is a SALTO always taken.      *)
CpuSalta ==
  /\ EnFetch({"SALTO"})
  /\ Seguir([cpu_pcb EXCEPT !.pc = Leida.destino])

CpuPide ==
  \E i \in {<<"WAIT", "EJECUTAR_WAIT">>, <<"SIGNAL", "EJECUTAR_SIGNAL">>,
            <<"IO_GEN_SLEEP", "IO_SLEEP">>, <<"IO_STD", "IO_STD">>,
            <<"IO_FS", "IO_FS">>, <<"RESIZE", "OUT_OF_MEMORY">>} :
    /\ EnFetch({i[1]})
    /\ Responder(i[2], Leida.arg, Avanzado)
    /\ UNCHANGED hay_desalojo

CpuTermina ==
  /\ EnFetch({"EXIT"})
  /\ Responder("FINALIZAR", "-", Avanzado)
  /\ hay_desalojo' = FALSE

CpuInstruccion == CpuCalcula \/ CpuSalta \/ CpuPide \/ CpuTermina
CpuPaso ==
  \/ CpuRecibe \/ CpuBajaBanderas \/ CpuFinaliza \/ CpuDesaloja
  \/ CpuInstruccion

-----------------------------------------------------------------------------
(* Timers of p whose dispatch the CPU has not taken yet: a quantum is far  *)
(* longer than the delivery of a packet, so these still sleep.             *)
RelojesNuevos(p) ==
  Cardinality({i \in DOMAIN dispatch :
                 dispatch[i].con_quantum /\ dispatch[i].ctx.pid = p})

(* interrupcion_quantum_rr / _vrr and interrumpir_cpu; then the interrupt  *)
(* thread's case ENVIAR_DESALOJAR, which compares pids and nothing else.   *)
InterrupcionQuantum(p) ==
  /\ relojes[p] > RelojesNuevos(p)
  /\ relojes' = [relojes EXCEPT ![p] = @ - 1]
  /\ hay_desalojo' = (hay_desalojo \/ cpu_pcb.pid = p)
  /\ UNCHANGED <<script, canales, cpu_pcb, cpu_estado, hay_finalizar,
                 finalizar_en_vuelo>>

(* case ENVIAR_FINALIZAR: the pid in the packet is only logged.            *)
InterrupcionFinalizar ==
  /\ finalizar_en_vuelo > 0
  /\ finalizar_en_vuelo' = finalizar_en_vuelo - 1
  /\ hay_finalizar' = TRUE
  /\ UNCHANGED <<script, canales, cpu_pcb, cpu_estado, hay_desalojo, relojes>>
=============================================================================
