--------------------------------- MODULE Tlb ---------------------------------
(***************************************************************************)
(* The TLB of the CPU (cpu.c): a fixed table of translations with FIFO or  *)
(* LRU replacement.  Nothing but a replacement ever removes an entry.      *)
(***************************************************************************)
EXTENDS Integers, FiniteSets

CONSTANTS Entradas,      \* the values of CANTIDAD_ENTRADAS_TLB considered
          SIN_PID        \* the pid -1 of an entry never used

ASSUME TlbAssumption == Entradas \subseteq Nat

VARIABLES tlb,           \* the entries, in list order
          contador_fifo,
          algoritmo_tlb  \* ALGORITMO_TLB of cpu.config

tlbVars == <<tlb, contador_fifo, algoritmo_tlb>>

EntradaLibre == [pid |-> SIN_PID, pagina |-> -1, marco |-> -1, is_free |-> TRUE,
                 llegada_fifo |-> -1, last_time_lru |-> -1]

TlbTypeOK ==
  /\ \E n \in Entradas : DOMAIN tlb = 1 .. n
  /\ \A i \in DOMAIN tlb :
       /\ DOMAIN tlb[i] = DOMAIN EntradaLibre
       /\ tlb[i].is_free => tlb[i] = EntradaLibre
       /\ ~tlb[i].is_free => tlb[i].pagina >= 0 /\ tlb[i].marco >= 0
       /\ tlb[i].llegada_fifo < contador_fifo \/ algoritmo_tlb = "LRU"
  /\ contador_fifo \in Nat
  /\ algoritmo_tlb \in {"FIFO", "LRU"}

IniciarEntradaTlb ==
  /\ \E n \in Entradas : tlb = [i \in 1 .. n |-> EntradaLibre]
  /\ contador_fifo = 0
  /\ algoritmo_tlb \in {"FIFO", "LRU"}

Ocupadas == {i \in DOMAIN tlb : ~tlb[i].is_free}
PrimeraDe(S) == CHOOSE i \in S : \A j \in S : i <= j

(* actualizar_algortimos: every access ages all the entries (LRU) or takes *)
(* the next arrival number (FIFO), hits included.                          *)
Actualizar(t) ==
  /\ tlb' = IF algoritmo_tlb = "FIFO" THEN t
            ELSE [i \in DOMAIN t |-> IF t[i].is_free THEN t[i]
                                     ELSE [t[i] EXCEPT !.last_time_lru = @ + 1]]
  /\ contador_fifo' = IF algoritmo_tlb = "FIFO" THEN contador_fifo + 1 ELSE contador_fifo
  /\ UNCHANGED algoritmo_tlb

Coincide_SinPid(p, pag) == {i \in Ocupadas : tlb[i].pagina = pag}
Coincide(p, pag) == {i \in DOMAIN tlb : tlb[i].pid = p /\ tlb[i].pagina = pag}

(* consultar_tlb when it finds the page; -1 is Coincide = {}.              *)
MarcoEnTlb(p, pag) == tlb[PrimeraDe(Coincide(p, pag))].marco
ConsultarTlb_SinUso(p, pag) == Coincide(p, pag) # {} /\ Actualizar(tlb)
ConsultarTlb(p, pag) ==
  /\ Coincide(p, pag) # {}
  /\ Actualizar([tlb EXCEPT ![PrimeraDe(Coincide(p, pag))].last_time_lru = 0])

EjecutarFifo ==
  PrimeraDe({i \in Ocupadas : \A j \in Ocupadas : tlb[i].llegada_fifo <= tlb[j].llegada_fifo})
EjecutarLru ==
  PrimeraDe({i \in Ocupadas : \A j \in Ocupadas : tlb[i].last_time_lru >= tlb[j].last_time_lru})
EjecutarAlgoritmo == IF algoritmo_tlb = "FIFO" THEN EjecutarFifo ELSE EjecutarLru

Lugar ==
  LET libres == DOMAIN tlb \ Ocupadas
  IN  IF libres # {} THEN PrimeraDe(libres) ELSE EjecutarAlgoritmo

InsertarTlb(p, pag, marco) ==
  Actualizar([tlb EXCEPT ![Lugar] =
                [pid |-> p, pagina |-> pag, marco |-> marco, is_free |-> FALSE,
                 llegada_fifo |-> contador_fifo, last_time_lru |-> 0]])
=============================================================================
