----------------------------- MODULE MCRegistros -----------------------------
(***************************************************************************)
(* Small instances of Registros: every program of MaxLargo instructions of *)
(* a set, against loops that count an 8 bit and a 32 bit register down     *)
(* past 0.                                                                 *)
(***************************************************************************)
EXTENDS Registros, TLC

CONSTANTS MaxLargo

Ins(op, reg, origen, valor) == [op |-> op, reg |-> reg, origen |-> origen, valor |-> valor]
Fin == Ins("EXIT", "PC", "PC", 0)

Sueltas ==
  {Ins("SET", "AX", "PC", BYTE + 1), Ins("SET", "EAX", "PC", WORD - 2),
   Ins("SUM", "EAX", "EAX", 0), Ins("SUM", "EAX", "AX", 0),
   Ins("SUB", "BX", "AX", 0), Ins("SUB", "CX", "EAX", 0),
   Ins("JNZ", "AX", "PC", 1)}
Lazos ==
  {<<Ins("SET", "CX", "PC", 1), Ins("SUB", "AX", "CX", 0), Ins("JNZ", "AX", "PC", 1), Fin>>,
   <<Ins("SET", "BX", "PC", 1), Ins("SUB", "DI", "BX", 0), Ins("SUM", "DX", "DI", 0),
     Ins("SET", "PC", "PC", 1)>>}
Simetria == Permutations(Pid)
MCProgramas == {s \o <<Fin>> : s \in [1 .. MaxLargo -> Sueltas]} \cup Lazos
=============================================================================
