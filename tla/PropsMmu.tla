------------------------------- MODULE PropsMmu -------------------------------
(***************************************************************************)
(* What paging must guarantee, whatever the threads of memoria, the CPU    *)
(* and the interfaces do in between.                                       *)
(***************************************************************************)
EXTENDS Mmu, SequencesExt

(* The bytes the processes have asked for.                                 *)
Bytes == UNION {{p} \X (1 .. tamanio_proceso[p]) : p \in tablas}

(* espacio_disponible (envio_resize.c:23, 34, 78): memoria never promises  *)
(* bytes it does not have, although it forgets those of finished processes *)
EspacioNoSeInventa == espacio_disponible + Cardinality(Bytes) <= TAM_MEMORIA

(* ejecutar_ampliacion adds pages for the bytes it adds, not for the size  *)
(* they come to, and rounds each time (envio_resize.c:34-41): between two  *)
(* RESIZE a process that has never shrunk has a page for every byte it has *)
(* been promised, whatever the sizes and whatever is released meanwhile.   *)
(* Nothing is said of those that have: ejecutar_reduccion takes a page for *)
(* one byte (80).                                                          *)
TablaDelTamanio ==
  \A p \in tablas \ redujo :
    hilo_cpu.pid # p => Len(paginas[p]) * TAM_PAGINA >= tamanio_proceso[p]

-----------------------------------------------------------------------------
(* The TLB as a queue of translations.                                     *)

Guardadas == [i \in Ocupadas |->
                [pid |-> tlb[i].pid, pagina |-> tlb[i].pagina, marco |-> tlb[i].marco]]
(* When each came: the older, the smaller.                                 *)
Llegada == [i \in Ocupadas |-> IF algoritmo_tlb = "FIFO" THEN tlb[i].llegada_fifo
                                                        ELSE -tlb[i].last_time_lru]
Puesto(f, i) == Cardinality({j \in DOMAIN f : f[j] <= f[i]})
EnPuesto(f, k) == CHOOSE i \in DOMAIN f : Puesto(f, i) = k
Fila(t, f) == [k \in 1 .. Cardinality(DOMAIN f) |-> t[EnPuesto(f, k)]]
ColaTlb == Fila(Guardadas, Llegada)
UltimaTraduccion ==
  IF traducidas = <<>> THEN NADA
  ELSE [pid |-> pcb, pagina |-> inst.dirs[Len(traducidas)] \div TAM_PAGINA,
        marco |-> Last(traducidas).marco]
Ideal == INSTANCE CacheIdeal WITH
           cola <- ColaTlb, ultima <- UltimaTraduccion,
           capacidad <- Len(tlb), politica <- algoritmo_tlb

(* consultar_tlb, insertar_tlb and the two algorithms (cpu.c:1076-1200):   *)
(* no page twice, and the victim is the first to have come (FIFO) or the   *)
(* one nobody has used for longest (LRU).                                  *)
CumpleCacheIdeal == Ideal!Spec

-----------------------------------------------------------------------------
(* Every process in a memory of its own.                                   *)

Vivo(p) == p \in tablas /\ ~(hilo_kernel.op = "libera" /\ hilo_kernel.pid = p)

(* The bytes of p: those with a page, up to the size it asked for.         *)
EspacioDe(p) ==
  LET conPagina == Len(paginas[p]) * TAM_PAGINA
      n == IF conPagina < tamanio_proceso[p] THEN conPagina ELSE tamanio_proceso[p]
      fisica(d) == paginas[p][d \div TAM_PAGINA + 1] * TAM_PAGINA + (d % TAM_PAGINA)
  IN  IF Vivo(p) THEN [d \in 0 .. n - 1 |-> espacio_usuario[fisica(d)]] ELSE <<>>

DatoEnCamino(p) == pcb = p /\ paso = "dato" /\ respuesta # NADA
DatoDe(p) == IF DatoEnCamino(p) THEN respuesta.valor ELSE dato[p]

(* The access p has ordered: in the CPU, on its way to memoria or in the   *)
(* hands of an interface.                                                  *)
EnCanal(p) == {k \in DOMAIN canal : canal[k].pid = p
                                    /\ canal[k].op \in {"MOV_OUT", "COPY_STRING"}}
OrdenDe(p) ==
  IF ~Vivo(p) \/ DatoEnCamino(p) THEN NADA
  ELSE IF pcb = p /\ paso \in {"traducir", "marco", "dato"} THEN inst
  ELSE IF EnCanal(p) # {} THEN canal[CHOOSE k \in EnCanal(p) : TRUE].inst
  ELSE IF pedido[p] # NADA THEN pedido[p].inst
  ELSE NADA

Privada == INSTANCE MemoriaPrivada WITH
             MaxTamanio <- TAM_MEMORIA,
             espacio <- [p \in Pid |-> EspacioDe(p)],
             orden <- [p \in Pid |-> OrdenDe(p)],
             dato <- [p \in Pid |-> DatoDe(p)]

(* mmu_traducir (cpu.c:809), the TLB, the tables and the physical accesses *)
(* of memoria (envio_mov_in.c, envio_mov_out.c, copy_string.c,             *)
(* stdin_read.c, stdout_write.c) give each process a private memory, with  *)
(* every access done once and in order, although MOV_OUT is not answered   *)
(* and interfaces use old translations.                                    *)
CumpleMemoriaPrivada == Privada!Spec
=============================================================================
