------------------------------ MODULE Registros ------------------------------
(***************************************************************************)
(* The registers of a process: what SET, SUM, SUB and JNZ do to them       *)
(* (cpu/src/cpu.c) and how they travel between the kernel's PCB and the    *)
(* CPU (utils/src/utils/hello.c).                                          *)
(*                                                                         *)
(* In memory the registers are AX, BX, CX and DX, of one byte, and then    *)
(* EAX, EBX, ECX, EDX, SI and DI, of four.  The packet carries four bytes  *)
(* for each: for AX to DX, the byte and the three behind it, lowest first. *)
(*                                                                         *)
(* That one process at a time is on the CPU is ExclusionCpu, of            *)
(* Planificacion: here the kernel dispatches when it has everything back.  *)
(***************************************************************************)
EXTENDS Integers, Sequences

CONSTANTS
  Pid,
  BYTE,      \* values of a byte, 256 in C
  Programas, \* the pseudocode files: sequences of instructions
  NADIE      \* no PCB

Cortos == {"AX", "BX", "CX", "DX"}
Largos == {"EAX", "EBX", "ECX", "EDX", "SI", "DI"}
Registro == Cortos \cup Largos
WORD == BYTE * BYTE * BYTE * BYTE  \* values of an uint32_t

\* devolver_registro: any other name is PC.  destino is the second operand of
\* JNZ, valor the one of SET, origen the one of SUM and SUB
Operando == Registro \cup {"PC"}
Instruccion ==
  [op : {"SET", "SUM", "SUB", "JNZ", "EXIT"}, reg : Operando, origen : Operando, valor : Nat]

ASSUME RegistrosAssumption ==
  /\ BYTE \in Nat /\ BYTE > 1
  /\ Programas \subseteq Seq(Instruccion)
  /\ NADIE \notin Pid

VARIABLES
  codigo,    \* memoria's copy of the instructions of each pid
  contexto,  \* the PCB of each process in the kernel
  terminado, \* the processes whose EXIT the kernel has taken
  cpu_pid,   \* whose context is in the CPU, or on its way to or from it
  pcb,       \* the CPU's global pcb
  paquete,   \* the context on the dispatch socket
  lugar      \* "kernel", "ida", "cpu", "vuelta" or "exit": where the context is

vars == <<codigo, contexto, terminado, cpu_pid, pcb, paquete, lugar>>

Valores == [Registro -> 0 .. WORD - 1]
Registros == {r \in Valores : \A x \in Cortos : r[x] < BYTE}
Contexto == [pc : Int, registros : Registros]
Paquete == [pc : Int, registros : Valores]

-----------------------------------------------------------------------------
(* Conversions.                                                            *)

\* uint32_t to int, and anything to uint32_t or to uint8_t
AEntero(v) == IF v >= WORD \div 2 THEN v - WORD ELSE v
AUint32(v) == v % WORD
AUint8(v) == v % BYTE

\* the four bytes that begin at a one-byte register
Palabra_OrdenDeRed(a, b, c, d) == d + BYTE * (c + BYTE * (b + BYTE * a))
Palabra(a, b, c, d) == a + BYTE * (b + BYTE * (c + BYTE * d))
EmpaquetarRegistro(r) ==
  LET e == r["EAX"]
      e1 == e % BYTE
      e2 == (e \div BYTE) % BYTE
      e3 == (e \div (BYTE * BYTE)) % BYTE
  IN  [x \in Registro |->
         CASE x = "AX" -> Palabra(r["AX"], r["BX"], r["CX"], r["DX"])
           [] x = "BX" -> Palabra(r["BX"], r["CX"], r["DX"], e1)
           [] x = "CX" -> Palabra(r["CX"], r["DX"], e1, e2)
           [] x = "DX" -> Palabra(r["DX"], e1, e2, e3)
           [] OTHER -> r[x]]
DesempaquetarRegistros_SinTruncar(v) == v
DesempaquetarRegistros(v) ==
  [x \in Registro |-> IF x \in Cortos THEN AUint8(v[x]) ELSE v[x]]

EmpaquetarPcb(c) == [pc |-> c.pc, registros |-> EmpaquetarRegistro(c.registros)]
DesempaquetarPcb(q) == [pc |-> q.pc, registros |-> DesempaquetarRegistros(q.registros)]

-----------------------------------------------------------------------------
(* Access to the registers.  The chain of SUB and the default of the two   *)
(* functions of SUM take any other name for DI.                            *)

ODi(x) == IF x \in Registro THEN x ELSE "DI"
Guardar(r, x, v) == [r EXCEPT ![x] = IF x \in Cortos THEN AUint8(v) ELSE AUint32(v)]

ObtenerValor(r, x) == IF x \in Registro THEN r[x] ELSE 0
ObtenerValorRegistro(r, x) == AEntero(r[ODi(x)])
AsignarValorRegistro(r, v, x) == Guardar(r, ODi(x), AEntero(v))
Setear(c, x, v) ==
  IF x \in Registro THEN [c EXCEPT !.registros = Guardar(@, x, v)]
                    ELSE [c EXCEPT !.pc = AEntero(v)]

Set(c, i) == Setear(c, i.reg, AUint32(i.valor))
Sub(c, i) ==
  LET resultado == AUint32(c.registros[ODi(i.reg)] - c.registros[ODi(i.origen)])
  IN  [c EXCEPT !.registros = Guardar(@, ODi(i.reg), resultado)]
Sum(c, i) ==
  LET valor_destino == AUint32(ObtenerValorRegistro(c.registros, i.reg))
      valor_origen == AUint32(ObtenerValorRegistro(c.registros, i.origen))
      resultado == AUint32(valor_destino + valor_origen)
  IN  [c EXCEPT !.registros = AsignarValorRegistro(@, resultado, i.reg)]
Jnz(c, i) == IF ObtenerValor(c.registros, i.reg) # 0 THEN [c EXCEPT !.pc = i.valor] ELSE c

-----------------------------------------------------------------------------
(* The journey of a context.                                               *)

Init ==
  /\ codigo \in [Pid -> Programas]
  /\ contexto = [p \in Pid |-> [pc |-> 0, registros |-> [x \in Registro |-> 0]]]
  /\ terminado = {}
  /\ cpu_pid = NADIE /\ pcb = NADIE /\ paquete = NADIE
  /\ lugar = "kernel"

\* dispatch: enviar_pcb(pcb->contexto, ..., RECIBIR_PCB)
Despachar(p) ==
  /\ lugar = "kernel" /\ p \notin terminado
  /\ cpu_pid' = p
  /\ paquete' = EmpaquetarPcb(contexto[p])
  /\ lugar' = "ida"
  /\ UNCHANGED <<codigo, contexto, terminado, pcb>>

RecibirPcb ==
  /\ lugar = "ida"
  /\ pcb' = DesempaquetarPcb(paquete)
  /\ paquete' = NADIE
  /\ lugar' = "cpu"
  /\ UNCHANGED <<codigo, contexto, terminado, cpu_pid>>

\* fetch moves the program counter before decode: a jump replaces it
Leida == codigo[cpu_pid][pcb.pc + 1]
Avanzado == [pcb EXCEPT !.pc = @ + 1]
EnFetch == lugar = "cpu" /\ pcb.pc + 1 \in DOMAIN codigo[cpu_pid]

Decode ==
  /\ EnFetch
  /\ \/ Leida.op = "SET" /\ pcb' = Set(Avanzado, Leida)
     \/ Leida.op = "SUM" /\ pcb' = Sum(Avanzado, Leida)
     \/ Leida.op = "SUB" /\ pcb' = Sub(Avanzado, Leida)
     \/ Leida.op = "JNZ" /\ pcb' = Jnz(Avanzado, Leida)
  /\ UNCHANGED <<codigo, contexto, terminado, cpu_pid, paquete, lugar>>

Exit ==
  /\ EnFetch /\ Leida.op = "EXIT"
  /\ pcb' = Avanzado
  /\ paquete' = EmpaquetarPcb(Avanzado)
  /\ lugar' = "exit"
  /\ UNCHANGED <<codigo, contexto, terminado, cpu_pid>>

\* enviar_pcb between two instructions: preemption, or a request
Devolver ==
  /\ lugar = "cpu"
  /\ paquete' = EmpaquetarPcb(pcb)
  /\ lugar' = "vuelta"
  /\ UNCHANGED <<codigo, contexto, terminado, cpu_pid, pcb>>

\* running->contexto = contexto
RecibirContexto ==
  /\ lugar \in {"vuelta", "exit"}
  /\ contexto' = [contexto EXCEPT ![cpu_pid] = DesempaquetarPcb(paquete)]
  /\ terminado' = terminado \cup IF lugar = "exit" THEN {cpu_pid} ELSE {}
  /\ paquete' = NADIE
  /\ lugar' = "kernel"
  /\ UNCHANGED <<codigo, cpu_pid, pcb>>

Next ==
  \/ \E p \in Pid : Despachar(p)
  \/ RecibirPcb \/ Decode \/ Exit \/ Devolver \/ RecibirContexto

Spec == Init /\ [][Next]_vars

-----------------------------------------------------------------------------
(* Properties.                                                             *)

(* Type correctness of t_contexto_ejecucion wherever it is (hello.h:131).  *)
RegistrosTypeOK ==
  /\ codigo \in [Pid -> Programas]
  /\ contexto \in [Pid -> Contexto]
  /\ terminado \subseteq Pid
  /\ lugar \in {"kernel", "ida", "cpu", "vuelta", "exit"}
  /\ lugar # "kernel" => cpu_pid \in Pid
  /\ lugar = "cpu" => pcb \in Contexto
  /\ lugar \in {"ida", "vuelta", "exit"} => paquete \in Paquete

\* What the scripts of the repository do: PC is only written, by SET, and a
\* jump fits an int
Corriente(i) ==
  /\ i.op \in {"SUM", "SUB", "JNZ"} => i.reg \in Registro
  /\ i.op \in {"SUM", "SUB"} => i.origen \in Registro
  /\ i.op = "SET" /\ i.reg = "PC" => i.valor < WORD \div 2
ProgramasCorrientes == \A g \in Programas : \A k \in DOMAIN g : Corriente(g[k])

\* the context of p as it would be back in the kernel
Vigente(p) ==
  IF lugar = "kernel" \/ p # cpu_pid THEN contexto[p]
  ELSE IF lugar = "cpu" THEN pcb
  ELSE DesempaquetarPcb(paquete)

Maquina == INSTANCE MaquinaIdeal WITH
             pc <- [p \in Pid |-> Vigente(p).pc],
             registros <- [p \in Pid |-> Vigente(p).registros]

(* Whatever the preemptions, each process computes as if it had its own    *)
(* CPU: a context neither loses nor gains anything in the packets of       *)
(* empaquetar_registro (hello.c:264), which carry neighbouring bytes, nor  *)
(* is given to another process (kernel.c:342), and each register wraps at  *)
(* its own width through the conversions of decode (cpu.c:282-399).        *)
CumpleMaquina == Maquina!Spec
=============================================================================
