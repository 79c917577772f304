---------------------------- MODULE MaquinaIdeal ----------------------------
(***************************************************************************)
(* Abstract specification of the CPU: each process has registers and a     *)
(* program counter of its own, and executes its instructions one by one.   *)
(* A register holds a number modulo its width.                             *)
(***************************************************************************)
EXTENDS Integers, Sequences

CONSTANTS Pid, BYTE, Registro, Cortos
VARIABLES codigo, pc, registros

vars == <<codigo, pc, registros>>

Modulo(x) == IF x \in Cortos THEN BYTE ELSE BYTE * BYTE * BYTE * BYTE

Init == /\ pc = [p \in Pid |-> 0]
        /\ registros = [p \in Pid |-> [x \in Registro |-> 0]]

Actual(p) == codigo[p][pc[p] + 1]

Escribe(p, x, v) == registros' = [registros EXCEPT ![p][x] = v % Modulo(x)]
Sigue(p) == pc' = [pc EXCEPT ![p] = @ + 1]
Salta(p, destino) == pc' = [pc EXCEPT ![p] = destino] /\ UNCHANGED registros

Calcula(p) ==
  LET i == Actual(p)
      r == registros[p]
  IN  /\ i.reg \in Registro
      /\ \/ i.op = "SET" /\ Escribe(p, i.reg, i.valor)
         \/ i.op = "SUM" /\ Escribe(p, i.reg, r[i.reg] + r[i.origen])
         \/ i.op = "SUB" /\ Escribe(p, i.reg, r[i.reg] - r[i.origen])
      /\ Sigue(p)

SaltaSiempre(p) == /\ Actual(p).op = "SET" /\ Actual(p).reg = "PC"
                   /\ Salta(p, Actual(p).valor)

SaltaSiNoEsCero(p) ==
  /\ Actual(p).op = "JNZ"
  /\ IF registros[p][Actual(p).reg] # 0 THEN Salta(p, Actual(p).valor)
     ELSE Sigue(p) /\ UNCHANGED registros

Termina(p) == Actual(p).op = "EXIT" /\ Sigue(p) /\ UNCHANGED registros

Paso(p) == /\ pc[p] + 1 \in DOMAIN codigo[p]
           /\ Calcula(p) \/ SaltaSiempre(p) \/ SaltaSiNoEsCero(p) \/ Termina(p)
           /\ UNCHANGED codigo

Spec == Init /\ [][\E p \in Pid : Paso(p)]_vars
=============================================================================
