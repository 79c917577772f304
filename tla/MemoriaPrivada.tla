--------------------------- MODULE MemoriaPrivada ---------------------------
(***************************************************************************)
(* What the MMU, the TLB and memoria promise together: every process has a *)
(* memory of its own, as long as it asked for, and each access it orders   *)
(* is carried out once, at its address in that memory, before its next     *)
(* one.  No step of one process touches the memory of another.             *)
(***************************************************************************)
EXTENDS Integers, Sequences

CONSTANTS Pid, NADA, MaxTamanio,
          BytesDe(_)   \* the bytes a MOV_OUT of a value stores
VARIABLES espacio,   \* [Pid -> bytes of each process, a function of 0 .. n - 1]
          orden,     \* [Pid -> the access it has ordered, or NADA]
          dato       \* [Pid -> the last bytes given to it or to its interface]

vars == <<espacio, orden, dato>>

Init == /\ espacio = [p \in Pid |-> <<>>]
        /\ orden = [p \in Pid |-> NADA]
        /\ dato = [p \in Pid |-> <<>>]

Abarca(p, d, n) == \A i \in 0 .. n - 1 : d + i \in DOMAIN espacio[p]
Bytes(p, d, n) == [i \in 1 .. n |-> espacio[p][d + i - 1]]

Redimensionar(p) ==
  /\ orden[p] = NADA
  /\ \E n \in 0 .. MaxTamanio :
       /\ DOMAIN espacio'[p] = 0 .. n - 1
       /\ \A d \in DOMAIN espacio[p] : d < n => espacio'[p][d] = espacio[p][d]
  /\ \A q \in Pid \ {p} : espacio'[q] = espacio[q]
  /\ UNCHANGED <<orden, dato>>

Ordenar(p) ==
  /\ orden[p] = NADA /\ orden'[p] # NADA
  /\ \A k \in DOMAIN orden'[p].dirs : Abarca(p, orden'[p].dirs[k], orden'[p].n)
  /\ \A q \in Pid \ {p} : orden'[q] = orden[q]
  /\ UNCHANGED <<espacio, dato>>

Hecha(p) == orden' = [orden EXCEPT ![p] = NADA]

Leer(p) ==
  /\ orden[p] # NADA /\ orden[p].op \in {"MOV_IN", "STDOUT_WRITE"}
  /\ dato' = [dato EXCEPT ![p] = Bytes(p, orden[p].dirs[1], orden[p].n)]
  /\ Hecha(p) /\ UNCHANGED espacio

Poner(p, d, bytes) ==
  espacio' = [espacio EXCEPT ![p] =
                [x \in DOMAIN @ |-> IF x - d + 1 \in DOMAIN bytes THEN bytes[x - d + 1] ELSE @[x]]]

Escribir(p) ==
  /\ orden[p] # NADA /\ orden[p].op = "MOV_OUT"
  /\ Poner(p, orden[p].dirs[1], BytesDe(orden[p].valor))
  /\ Hecha(p) /\ UNCHANGED dato

(* What the user types, or what a file holds: any bytes, but only there.   *)
Recibir(p) ==
  /\ orden[p] # NADA /\ orden[p].op = "STDIN_READ"
  /\ DOMAIN espacio'[p] = DOMAIN espacio[p]
  /\ \A x \in DOMAIN espacio[p] :
       x - orden[p].dirs[1] \notin 0 .. orden[p].n - 1 => espacio'[p][x] = espacio[p][x]
  /\ \A q \in Pid \ {p} : espacio'[q] = espacio[q]
  /\ Hecha(p) /\ UNCHANGED dato

Copiar(p) ==
  /\ orden[p] # NADA /\ orden[p].op = "COPY_STRING"
  /\ Poner(p, orden[p].dirs[2], Bytes(p, orden[p].dirs[1], orden[p].n))
  /\ Hecha(p) /\ UNCHANGED dato

(* The process ends, with or without an access it had ordered.             *)
Terminar(p) ==
  /\ espacio' = [espacio EXCEPT ![p] = <<>>]
  /\ Hecha(p) /\ UNCHANGED dato

Next == \E p \in Pid : \/ Redimensionar(p) \/ Ordenar(p) \/ Leer(p) \/ Escribir(p)
                       \/ Recibir(p) \/ Copiar(p) \/ Terminar(p)
Spec == Init /\ [][Next]_vars
=============================================================================
