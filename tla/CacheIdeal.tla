------------------------------ MODULE CacheIdeal ------------------------------
(***************************************************************************)
(* What a TLB of some capacity promises: the translations it keeps are a   *)
(* queue without repeated pages.  A miss puts its translation at the end   *)
(* and, when there is no room, drops the front; under LRU a hit moves its  *)
(* translation to the end, under FIFO it moves nothing.                    *)
(***************************************************************************)
EXTENDS Integers, Sequences

CONSTANTS Pid, Marco,   \* the processes and the frames
          NADA
VARIABLES cola,         \* the translations kept
          ultima,       \* the translation just given to the MMU, or NADA
          capacidad, politica

vars == <<cola, ultima, capacidad, politica>>

Traduccion == [pid : Pid, pagina : Nat, marco : Marco]
MismaPagina(s, t) == s.pid = t.pid /\ s.pagina = t.pagina

Init == cola = <<>> /\ ultima = NADA /\ capacidad \in Nat /\ politica \in {"FIFO", "LRU"}

Sin(s, k) == [j \in 1 .. Len(s) - 1 |-> IF j < k THEN s[j] ELSE s[j + 1]]

Acierto ==
  /\ \E k \in DOMAIN cola :
       /\ ultima' = cola[k]
       /\ cola' = IF politica = "LRU" THEN Append(Sin(cola, k), cola[k]) ELSE cola
  /\ UNCHANGED <<capacidad, politica>>

Falla ==
  /\ ultima' \in Traduccion
  /\ \A k \in DOMAIN cola : ~MismaPagina(cola[k], ultima')
  /\ cola' = IF Len(cola) < capacidad THEN Append(cola, ultima')
             ELSE IF cola = <<>> THEN cola ELSE Append(Sin(cola, 1), ultima')
  /\ UNCHANGED <<capacidad, politica>>

Usada == ultima' = NADA /\ UNCHANGED <<cola, capacidad, politica>>

Next == Acierto \/ Falla \/ Usada
Spec == Init /\ [][Next]_vars
=============================================================================
