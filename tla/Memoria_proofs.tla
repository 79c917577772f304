---------------------------- MODULE Memoria_proofs ----------------------------
(***************************************************************************)
(* MarcosExactos for any number of processes, frames and TLB entries: two  *)
(* threads of memoria update the frames without a lock, and each frame     *)
(* still has one owner, because they never work on the same table.         *)
(*                                                                         *)
(* The argument needs the whole protocol: the thread of the CPU resizes    *)
(* the table of the process that is in the CPU (CanalInv, CpuInv), and the *)
(* thread of the kernel releases that of one that has ended (KernelInv).   *)
(***************************************************************************)
EXTENDS Mmu, TLAPS, SequenceTheorems

Escrituras == {"MOV_OUT", "COPY_STRING"}
Preguntas == {<<"INSTRUCCION", "instruccion">>, <<"OBTENER_MARCO", "marco">>,
              <<"MOV_IN", "dato">>, <<"RESIZE", "resize">>}

MarcosTipos ==
  /\ is_free \in [Marco -> BOOLEAN]
  /\ paginas \in [Pid -> Seq(Marco)]
  /\ estado \in [Pid -> EstadoMmu]
  /\ hilo_kernel \in Hilo
  /\ hilo_cpu = [op |-> hilo_cpu.op, pid |-> hilo_cpu.pid, n |-> hilo_cpu.n]

(* The thread of the kernel works on the table of a process that ended.    *)
KernelInv ==
  hilo_kernel.op # "espera" =>
    /\ hilo_kernel.op = "libera" /\ hilo_kernel.pid \in Pid
    /\ hilo_kernel.n \in 1 .. Len(paginas[hilo_kernel.pid]) + 1
    /\ estado[hilo_kernel.pid] = "fin"

(* The CPU runs the process the kernel thinks, and the thread of the CPU   *)
(* resizes its table while the CPU waits.                                  *)
CpuInv ==
  /\ pcb # NADIE => pcb \in Pid /\ estado[pcb] = "cpu"
  /\ paso # "ciclo" => pcb # NADIE
  /\ paso \in {"ciclo", "traducir"} => respuesta = NADA
  /\ hilo_cpu.op # "espera" => paso = "resize" /\ respuesta = NADA /\ hilo_cpu.pid = pcb

(* At most one request of the channel waits for an answer: the last, from  *)
(* the process in the CPU.                                                 *)
CanalInv ==
  /\ \E S : canal \in Seq(S)
  /\ \A k \in 1 .. Len(canal) :
       \/ canal[k].op \in Escrituras
       \/ /\ k = Len(canal) /\ <<canal[k].op, paso>> \in Preguntas
          /\ canal[k].pid = pcb
          /\ respuesta = NADA /\ hilo_cpu.op = "espera"

TablasInv == \A p \in Pid : p \notin tablas => paginas[p] = <<>>

Control == MarcosTipos /\ KernelInv /\ CpuInv /\ CanalInv /\ TablasInv
Inv == Control /\ MarcosExactos

memoriaControl == <<is_free, tablas, paginas, hilo_kernel, hilo_cpu>>

(* The connection of the CPU carries no question.                          *)
SoloEscrituras == /\ \E S : canal \in Seq(S)
                  /\ \A k \in 1 .. Len(canal) : canal[k].op \in Escrituras

-----------------------------------------------------------------------------
(* Appending a request to the connection of the CPU (cpu.c:255-263, 844).  *)
LEMMA CanalAppend ==
  ASSUME NEW S, NEW s \in Seq(S), NEW e
  PROVE  /\ Append(s, e) \in Seq(S \cup {e}) /\ Len(Append(s, e)) = Len(s) + 1
         /\ \A k \in 1 .. Len(s) : Append(s, e)[k] = s[k]
         /\ Append(s, e)[Len(s) + 1] = e
<1>1. s \in Seq(S \cup {e}) /\ e \in S \cup {e}
  OBVIOUS
<1> QED
  BY <1>1

(* Taking one (memoria.c:29-36).                                           *)
LEMMA CanalTail ==
  ASSUME NEW S, NEW s \in Seq(S), s # <<>>
  PROVE  /\ Tail(s) \in Seq(S) /\ Len(Tail(s)) = Len(s) - 1 /\ Len(s) \in Nat \ {0}
         /\ \A k \in 1 .. Len(s) - 1 : Tail(s)[k] = s[k + 1]
         /\ Head(s) = s[1]
  OBVIOUS

(* An empty table or channel (global.c:28).                                *)
LEMMA Vacia == 1 .. Len(<<>>) = {} /\ DOMAIN <<>> = {} /\ \A S : <<>> \in Seq(S)
<1>1. <<>> \in Seq({}) /\ Len(<<>>) = 0
  BY EmptySeq
<1>2. DOMAIN <<>> = 1 .. Len(<<>>)
  BY <1>1, LenProperties
<1>3. 1 .. 0 = {}
  OBVIOUS
<1> QED
  BY <1>1, <1>2, <1>3, EmptySeq

(* inicializar_estructuras (memoria/src/global.c:28) and the start of the  *)
(* CPU give the invariant.                                                 *)
LEMMA InitInv == Init => Inv
<1> SUFFICES ASSUME Init PROVE Inv
  OBVIOUS
<1> USE DEF Init, InicializarEstructuras, HiloLibre
<1>1. MarcosTipos
  <2>1. is_free \in [Marco -> BOOLEAN]
    BY Zenon
  <2>2. paginas \in [Pid -> Seq(Marco)]
    <3>1. <<>> \in Seq(Marco)
      BY Vacia
    <3> QED
      BY <3>1, Zenon
  <2>3. estado \in [Pid -> EstadoMmu]
    BY DEF EstadoMmu
  <2>4. hilo_kernel \in Hilo /\ hilo_cpu = [op |-> hilo_cpu.op, pid |-> hilo_cpu.pid, n |-> hilo_cpu.n]
    BY DEF Hilo
  <2> QED
    BY <2>1, <2>2, <2>3, <2>4 DEF MarcosTipos
<1>2. KernelInv /\ CpuInv /\ TablasInv
  BY MemoriaAssumption DEF KernelInv, CpuInv, TablasInv
<1>3. CanalInv
  <2>1. canal = <<>>
    OBVIOUS
  <2>2. \E S : canal \in Seq(S)
    BY <2>1, Vacia, Zenon
  <2>3. \A k \in 1 .. Len(canal) : FALSE
    BY <2>1, Vacia, Zenon
  <2> QED
    BY <2>2, <2>3, Zenon DEF CanalInv
<1>4. MarcosExactos
  <2>1. \A p \in Pid : paginas[p] = <<>>
    BY Zenon
  <2>2. \A p \in Pid : EnUso(p) = {}
    <3>1. \A p \in Pid : Desde(p) = 1
      BY DEF Desde
    <3> QED
      BY <2>1, <3>1, Vacia, Zenon DEF EnUso
  <2>3. \A f \in Marco : is_free[f]
    BY Zenon
  <2>4. \A p \in Pid : DOMAIN paginas[p] = {}
    BY <2>1, Vacia, Zenon
  <2> QED
    BY <2>2, <2>3, <2>4, Zenon DEF MarcosExactos
<1> QED
  BY <1>1, <1>2, <1>3, <1>4 DEF Inv, Control

-----------------------------------------------------------------------------
(* MarcosExactos, one lemma per step that touches a frame or a table.      *)

(* Frames, tables and the thread of the kernel untouched.                  *)
LEMMA IgualMarcos ==
  ASSUME MarcosExactos, UNCHANGED <<is_free, paginas, hilo_kernel>>
  PROVE  MarcosExactos'
<1>1. \A p \in Pid : EnUso(p)' = EnUso(p)
  BY DEF EnUso, Desde
<1> QED
  BY <1>1 DEF MarcosExactos

(* While the thread of the CPU resizes a table, that of the kernel is not  *)
(* releasing it (cpu.c:416-427).                                           *)
LEMMA TablaDelCpu ==
  ASSUME Inv, hilo_cpu.op # "espera"
  PROVE  /\ hilo_cpu.pid \in Pid /\ estado[hilo_cpu.pid] = "cpu"
         /\ hilo_kernel.op = "libera" => hilo_kernel.pid # hilo_cpu.pid
<1>1. hilo_cpu.pid = pcb /\ pcb # NADIE
  BY DEF Inv, Control, CpuInv
<1>2. hilo_kernel.op = "libera" => estado[hilo_kernel.pid] = "fin"
  BY DEF Inv, Control, KernelInv
<1> QED
  BY <1>1, <1>2 DEF Inv, Control, CpuInv

(* crear_proceso (crear_proceso.c:3).                                      *)
LEMMA CrearProcesoMarcos ==
  ASSUME Inv, NEW p \in Pid, CrearProceso(p)
  PROVE  MarcosExactos'
<1>1. paginas' = paginas
  BY DEF Inv, Control, TablasInv, MarcosTipos, CrearProceso
<1>2. is_free' = is_free /\ hilo_kernel' = hilo_kernel
  BY DEF CrearProceso
<1>3. \A q \in Pid : EnUso(q)' = EnUso(q)
  BY <1>1, <1>2 DEF EnUso, Desde
<1> QED
  BY <1>1, <1>2, <1>3 DEF Inv, MarcosExactos

(* finalizar_proceso (finaliza_proceso.c:3).                               *)
LEMMA FinalizarProcesoMarcos ==
  ASSUME Inv, NEW p \in Pid, FinalizarProceso(p)
  PROVE  MarcosExactos'
<1>1. is_free' = is_free /\ paginas' = paginas
  BY DEF FinalizarProceso, Caer
<1>2. \A q \in Pid : Desde(q)' = Desde(q)
  BY DEF FinalizarProceso, Caer, Desde
<1>3. \A q \in Pid : EnUso(q)' = EnUso(q)
  BY <1>1, <1>2 DEF EnUso
<1> QED
  BY <1>1, <1>3 DEF Inv, MarcosExactos

(* liberar_marcos (finaliza_proceso.c:11), one frame.                      *)
LEMMA LiberarMarcosMarcos ==
  ASSUME Inv, LiberarMarcos
  PROVE  MarcosExactos'
<1> PICK q : q = hilo_kernel.pid
  OBVIOUS
<1> PICK n : n = hilo_kernel.n
  OBVIOUS
<1> PICK f : f = paginas[q][n]
  OBVIOUS
<1>1. q \in Pid /\ n \in 1 .. Len(paginas[q]) /\ paginas[q] \in Seq(Marco) /\ f \in Marco
  BY DEF Inv, Control, MarcosTipos, KernelInv, LiberarMarcos, Hilo
<1>2. paginas' = paginas /\ is_free' = [is_free EXCEPT ![f] = TRUE]
  BY DEF LiberarMarcos
<1>3. hilo_kernel.op = "libera" /\ hilo_kernel'.op = "libera" /\ hilo_kernel'.pid = q
      /\ hilo_kernel'.n = n + 1
  BY DEF Inv, Control, MarcosTipos, Hilo, LiberarMarcos
<1>4. EnUso(q)' = EnUso(q) \ {f}
  <2>1. EnUso(q) = {paginas[q][k] : k \in n .. Len(paginas[q])}
    BY <1>3 DEF EnUso, Desde
  <2>2. EnUso(q)' = {paginas[q][k] : k \in n + 1 .. Len(paginas[q])}
    BY <1>2, <1>3 DEF EnUso, Desde
  <2>3. \A j, k \in DOMAIN paginas[q] : paginas[q][j] = paginas[q][k] => j = k
    BY <1>1 DEF Inv, MarcosExactos
  <2>4. \A k \in n .. Len(paginas[q]) : k \in DOMAIN paginas[q] /\ (k = n \/ k \in n + 1 .. Len(paginas[q]))
    BY <1>1
  <2>5. \A k \in n + 1 .. Len(paginas[q]) : k \in n .. Len(paginas[q]) /\ k # n
    BY <1>1
  <2>6. n \in DOMAIN paginas[q]
    BY <1>1
  <2> QED
    BY <2>1, <2>2, <2>3, <2>4, <2>5, <2>6
<1>5. f \in EnUso(q)
  BY <1>1, <1>3 DEF EnUso, Desde
<1>6. \A p \in Pid : p # q => EnUso(p)' = EnUso(p)
  BY <1>2, <1>3 DEF EnUso, Desde
<1>7. \A g \in Marco : is_free'[g] <=> g = f \/ is_free[g]
  BY <1>1, <1>2 DEF Inv, Control, MarcosTipos
<1>8. \A p \in Pid : EnUso(p)' \subseteq EnUso(p)
  BY <1>4, <1>6
<1>9. \A p, r \in Pid : p # r => EnUso(p)' \cap EnUso(r)' = {}
  BY <1>8 DEF Inv, MarcosExactos
<1>10. \A g \in Marco : is_free'[g] <=> \A p \in Pid : g \notin EnUso(p)'
  <2> SUFFICES ASSUME NEW g \in Marco
               PROVE  is_free'[g] <=> \A p \in Pid : g \notin EnUso(p)'
    OBVIOUS
  <2>1. CASE g = f
    <3>1. \A p \in Pid : p # q => f \notin EnUso(p)
      BY <1>1, <1>5 DEF Inv, MarcosExactos
    <3> QED
      BY <2>1, <3>1, <1>4, <1>6, <1>7
  <2>2. CASE g # f
    <3>1. \A p \in Pid : g \in EnUso(p)' <=> g \in EnUso(p)
      BY <2>2, <1>4, <1>6
    <3> QED
      BY <2>2, <3>1, <1>7 DEF Inv, MarcosExactos
  <2> QED
    BY <2>1, <2>2
<1>11. \A p \in Pid : \A j, k \in DOMAIN paginas'[p] :
         paginas'[p][j] = paginas'[p][k] => j = k
  BY <1>2 DEF Inv, MarcosExactos
<1> QED
  BY <1>9, <1>10, <1>11, Zenon DEF MarcosExactos

(* finalizar_proceso, when no frame is left (finaliza_proceso.c:3).        *)
LEMMA QuitarTablaMarcos ==
  ASSUME Inv, QuitarTabla
  PROVE  MarcosExactos'
<1> PICK q : q = hilo_kernel.pid
  OBVIOUS
<1>1. q \in Pid /\ hilo_kernel.op = "libera" /\ hilo_kernel.n = Len(paginas[q]) + 1
      /\ paginas[q] \in Seq(Marco)
  BY DEF Inv, Control, MarcosTipos, KernelInv, QuitarTabla, Hilo
<1>2. is_free' = is_free /\ paginas' = [paginas EXCEPT ![q] = <<>>] /\ hilo_kernel'.op = "espera"
  BY DEF QuitarTabla, HiloLibre
<1>3. paginas'[q] = <<>> /\ \A p \in Pid : p # q => paginas'[p] = paginas[p]
  BY <1>1, <1>2 DEF Inv, Control, MarcosTipos
<1>4. EnUso(q)' = {} /\ EnUso(q) = {}
  <2>1. Len(paginas[q]) \in Nat /\ Len(paginas'[q]) = 0
    BY <1>1, <1>3
  <2>2. Desde(q) = Len(paginas[q]) + 1 /\ Desde(q)' = 1
    BY <1>1, <1>2 DEF Desde
  <2> QED
    BY <2>1, <2>2 DEF EnUso
<1>5. \A p \in Pid : p # q => EnUso(p)' = EnUso(p)
  BY <1>1, <1>2, <1>3 DEF EnUso, Desde
<1> QED
  BY <1>1, <1>2, <1>3, <1>4, <1>5 DEF Inv, MarcosExactos

(* asignar_marco (envio_resize.c:54).                                      *)
LEMMA AsignarMarcoMarcos ==
  ASSUME Inv, AsignarMarco
  PROVE  MarcosExactos'
<1> PICK q : q = hilo_cpu.pid
  OBVIOUS
<1>1. q \in Pid /\ estado[q] = "cpu" /\ (hilo_kernel.op = "libera" => hilo_kernel.pid # q)
  BY TablaDelCpu DEF AsignarMarco
<1>2. CASE Caer
  BY <1>2, IgualMarcos DEF Caer, Inv
<1>3. CASE ~Caer
  <2>1. PICK i \in EncontrarMarcoLibre :
          /\ i # -1
          /\ is_free' = [is_free EXCEPT ![i] = FALSE]
          /\ paginas' = [paginas EXCEPT ![q] = Append(@, i)]
          /\ UNCHANGED hilo_kernel
    BY <1>3 DEF AsignarMarco
  <2>2. i \in Marco /\ is_free[i]
    BY <2>1 DEF EncontrarMarcoLibre
  <2>3. paginas[q] \in Seq(Marco) /\ paginas'[q] = Append(paginas[q], i)
        /\ \A p \in Pid : p # q => paginas'[p] = paginas[p]
    BY <1>1, <2>1 DEF Inv, Control, MarcosTipos
  <2>4. Desde(q) = 1 /\ \A p \in Pid : Desde(p)' = Desde(p)
    BY <1>1, <2>1 DEF Desde
  <2>5. EnUso(q)' = EnUso(q) \cup {i}
    <3>1. EnUso(q) = {paginas[q][k] : k \in 1 .. Len(paginas[q])}
      BY <2>4 DEF EnUso
    <3>2. EnUso(q)' = {paginas'[q][k] : k \in 1 .. Len(paginas'[q])}
      BY <1>1, <2>4 DEF EnUso
    <3>3. Len(paginas'[q]) = Len(paginas[q]) + 1 /\ Len(paginas[q]) \in Nat
          /\ paginas'[q][Len(paginas[q]) + 1] = i
          /\ \A k \in 1 .. Len(paginas[q]) : paginas'[q][k] = paginas[q][k]
      BY <2>2, <2>3
    <3>4. \A k \in 1 .. Len(paginas[q]) + 1 : k \in 1 .. Len(paginas[q]) \/ k = Len(paginas[q]) + 1
      BY <3>3
    <3>5. \A k \in 1 .. Len(paginas[q]) : k \in 1 .. Len(paginas[q]) + 1
      BY <3>3
    <3>6. Len(paginas[q]) + 1 \in 1 .. Len(paginas[q]) + 1
      BY <3>3
    <3> QED
      BY <3>1, <3>2, <3>3, <3>4, <3>5, <3>6, SMTT(30)
  <2>6. \A p \in Pid : p # q => EnUso(p)' = EnUso(p)
    BY <2>3, <2>4 DEF EnUso
  <2>7. \A p \in Pid : i \notin EnUso(p)
    BY <2>2 DEF Inv, MarcosExactos
  <2>8. \A g \in Marco : is_free'[g] <=> g # i /\ is_free[g]
    BY <2>1, <2>2 DEF Inv, Control, MarcosTipos
  <2>9. \A p, r \in Pid : p # r => EnUso(p)' \cap EnUso(r)' = {}
    BY <2>5, <2>6, <2>7 DEF Inv, MarcosExactos
  <2>10. \A g \in Marco : is_free'[g] <=> \A p \in Pid : g \notin EnUso(p)'
    <3> SUFFICES ASSUME NEW g \in Marco
                 PROVE  is_free'[g] <=> \A p \in Pid : g \notin EnUso(p)'
      OBVIOUS
    <3>1. CASE g = i
      BY <1>1, <2>5, <2>8, <3>1
    <3>2. CASE g # i
      <4>1. \A p \in Pid : g \in EnUso(p)' <=> g \in EnUso(p)
        BY <2>5, <2>6, <3>2
      <4> QED
        BY <2>8, <3>2, <4>1 DEF Inv, MarcosExactos
    <3> QED
      BY <3>1, <3>2
  <2>11. \A p \in Pid : \A j, k \in DOMAIN paginas'[p] :
           paginas'[p][j] = paginas'[p][k] => j = k
    <3>1. \A j, k \in DOMAIN paginas[q] : paginas[q][j] = paginas[q][k] => j = k
      BY <1>1 DEF Inv, MarcosExactos
    <3>2. \A k \in 1 .. Len(paginas[q]) : paginas[q][k] # i
      BY <1>1, <2>4, <2>7 DEF EnUso
    <3>3. \A j, k \in DOMAIN paginas'[q] : paginas'[q][j] = paginas'[q][k] => j = k
      BY <2>2, <2>3, <3>1, <3>2
    <3> QED
      BY <2>3, <3>3, ZenonT(60) DEF Inv, MarcosExactos
  <2> QED
    BY <2>9, <2>10, <2>11, Zenon DEF MarcosExactos
<1> QED
  BY <1>2, <1>3

(* liberar_marco (envio_resize.c:95).                                      *)
LEMMA LiberarMarcoMarcos ==
  ASSUME Inv, LiberarMarco
  PROVE  MarcosExactos'
<1> PICK q : q = hilo_cpu.pid
  OBVIOUS
<1> PICK n : n = Len(paginas[q])
  OBVIOUS
<1> PICK f : f = paginas[q][n]
  OBVIOUS
<1>1. q \in Pid /\ estado[q] = "cpu" /\ (hilo_kernel.op = "libera" => hilo_kernel.pid # q)
  BY TablaDelCpu DEF LiberarMarco
<1>2. CASE Caer
  BY <1>2, IgualMarcos DEF Caer, Inv
<1>3. CASE ~Caer
  <2>1. /\ n > 0
        /\ is_free' = [is_free EXCEPT ![f] = TRUE]
        /\ paginas' = [paginas EXCEPT ![q] = SubSeq(@, 1, n - 1)]
        /\ UNCHANGED hilo_kernel
    BY <1>3 DEF LiberarMarco
  <2>2. paginas[q] \in Seq(Marco) /\ n \in Nat \ {0}
        /\ paginas'[q] = SubSeq(paginas[q], 1, n - 1)
        /\ \A p \in Pid : p # q => paginas'[p] = paginas[p]
    BY <1>1, <2>1 DEF Inv, Control, MarcosTipos
  <2>3. /\ Len(paginas'[q]) = n - 1 /\ f \in Marco /\ DOMAIN paginas'[q] = 1 .. n - 1
        /\ \A k \in 1 .. n - 1 : paginas'[q][k] = paginas[q][k]
        /\ DOMAIN paginas[q] = 1 .. n
    BY <2>2
  <2>4. Desde(q) = 1 /\ \A p \in Pid : Desde(p)' = Desde(p)
    BY <1>1, <2>1 DEF Desde
  <2>5. EnUso(q)' = EnUso(q) \ {f} /\ f \in EnUso(q)
    <3>1. EnUso(q) = {paginas[q][k] : k \in 1 .. n}
      BY <2>4 DEF EnUso
    <3>2. EnUso(q)' = {paginas'[q][k] : k \in 1 .. n - 1}
      BY <1>1, <2>3, <2>4 DEF EnUso
    <3>3. \A j, k \in 1 .. n : paginas[q][j] = paginas[q][k] => j = k
      BY <1>1, <2>3 DEF Inv, MarcosExactos
    <3>4. \A k \in 1 .. n : k \in 1 .. n - 1 \/ k = n
      BY <2>2
    <3>5. n \in 1 .. n /\ n \notin 1 .. n - 1 /\ \A k \in 1 .. n - 1 : k \in 1 .. n
      BY <2>2
    <3>6. EnUso(q)' = {paginas[q][k] : k \in 1 .. n - 1}
      BY <2>3, <3>2
    <3>7. f = paginas[q][n]
      OBVIOUS
    <3>8. f \in EnUso(q)
      BY <3>1, <3>5, <3>7
    <3>9. f \notin EnUso(q)'
      BY <3>3, <3>5, <3>6, <3>7
    <3>10. EnUso(q)' \subseteq EnUso(q)
      BY <3>1, <3>5, <3>6
    <3>11. EnUso(q) \ {f} \subseteq EnUso(q)'
      BY <3>1, <3>4, <3>6, <3>7
    <3> QED
      BY <3>8, <3>9, <3>10, <3>11
  <2>6. \A p \in Pid : p # q => EnUso(p)' = EnUso(p)
    BY <2>2, <2>4 DEF EnUso
  <2>7. \A g \in Marco : is_free'[g] <=> g = f \/ is_free[g]
    BY <2>1, <2>3 DEF Inv, Control, MarcosTipos
  <2>8. \A p \in Pid : EnUso(p)' \subseteq EnUso(p)
    BY <2>5, <2>6
  <2>9. \A p, r \in Pid : p # r => EnUso(p)' \cap EnUso(r)' = {}
    BY <2>8 DEF Inv, MarcosExactos
  <2>10. \A g \in Marco : is_free'[g] <=> \A p \in Pid : g \notin EnUso(p)'
    <3> SUFFICES ASSUME NEW g \in Marco
                 PROVE  is_free'[g] <=> \A p \in Pid : g \notin EnUso(p)'
      OBVIOUS
    <3>1. CASE g = f
      <4>1. \A p \in Pid : p # q => f \notin EnUso(p)
        BY <1>1, <2>5 DEF Inv, MarcosExactos
      <4> QED
        BY <2>5, <2>6, <2>7, <3>1, <4>1
    <3>2. CASE g # f
      <4>1. \A p \in Pid : g \in EnUso(p)' <=> g \in EnUso(p)
        BY <2>5, <2>6, <3>2
      <4> QED
        BY <2>7, <3>2, <4>1 DEF Inv, MarcosExactos
    <3> QED
      BY <3>1, <3>2
  <2>11. \A p \in Pid : \A j, k \in DOMAIN paginas'[p] :
           paginas'[p][j] = paginas'[p][k] => j = k
    <3>1. \A j, k \in DOMAIN paginas'[q] : paginas'[q][j] = paginas'[q][k] => j = k
      BY <1>1, <2>2, <2>3 DEF Inv, MarcosExactos
    <3>2. \A p \in Pid : p # q =>
            \A j, k \in DOMAIN paginas'[p] : paginas'[p][j] = paginas'[p][k] => j = k
      BY <2>2 DEF Inv, MarcosExactos
    <3> QED
      BY <3>1, <3>2
  <2> QED
    BY <2>9, <2>10, <2>11, Zenon DEF MarcosExactos
<1> QED
  BY <1>2, <1>3

-----------------------------------------------------------------------------
(* The rest of the invariant.                                              *)

(* Steps that leave memoria alone and bring no process back from the end.  *)
LEMMA MemoriaIgual ==
  ASSUME Control, UNCHANGED memoriaControl, estado' \in [Pid -> EstadoMmu],
         \A p \in Pid : estado[p] = "fin" => estado'[p] = "fin"
  PROVE  MarcosTipos' /\ KernelInv' /\ TablasInv'
<1> USE DEF Control, memoriaControl
<1>1. MarcosTipos'
  BY DEF MarcosTipos
<1>2. KernelInv'
  BY DEF KernelInv
<1>3. TablasInv'
  BY DEF TablasInv
<1> QED
  BY <1>1, <1>2, <1>3

(* While the CPU does not wait, it has asked nothing (cpu.c:632-638,       *)
(* 416-427, 844-850).                                                      *)
LEMMA SinPreguntas ==
  ASSUME CanalInv,
         \/ paso \in {"ciclo", "traducir"}
         \/ respuesta # NADA
         \/ hilo_cpu.op # "espera"
  PROVE  SoloEscrituras
BY DEF CanalInv, SoloEscrituras, Preguntas

(* Without questions the channel asks nothing of the rest of the state.    *)
LEMMA CanalQueda ==
  ASSUME SoloEscrituras, UNCHANGED canal
  PROVE  CanalInv'
<1>1. \E S : canal' \in Seq(S)
  BY DEF SoloEscrituras
<1>2. \A k \in 1 .. Len(canal') : canal'[k].op \in Escrituras
  BY DEF SoloEscrituras
<1> QED
  BY <1>1, <1>2, Zenon DEF CanalInv

(* A request is appended: a question, if the CPU waits for its answer.     *)
LEMMA CanalAgrega ==
  ASSUME SoloEscrituras, NEW m, canal' = Append(canal, m),
         \/ m.op \in Escrituras
         \/ /\ <<m.op, paso'>> \in Preguntas /\ m.pid = pcb'
            /\ respuesta' = NADA /\ hilo_cpu'.op = "espera"
  PROVE  CanalInv'
<1>1. PICK S : canal \in Seq(S)
  BY DEF SoloEscrituras
<1>2. /\ canal' \in Seq(S \cup {m}) /\ Len(canal') = Len(canal) + 1 /\ Len(canal) \in Nat
      /\ \A k \in 1 .. Len(canal) : canal'[k] = canal[k]
      /\ canal'[Len(canal) + 1] = m
  BY <1>1, CanalAppend
<1>3. \E T : canal' \in Seq(T)
  BY <1>2
<1>4. \A k \in 1 .. Len(canal) : canal'[k].op \in Escrituras
  BY <1>2 DEF SoloEscrituras
<1>5. \A k \in 1 .. Len(canal') : k \in 1 .. Len(canal) \/ (k = Len(canal') /\ canal'[k] = m)
  BY <1>2
<1> QED
  BY <1>3, <1>4, <1>5, Zenon DEF CanalInv

(* The first request is taken; a question is the only one left.            *)
LEMMA CanalSaca ==
  ASSUME CanalInv, canal # <<>>, canal' = Tail(canal)
  PROVE  /\ canal[1] = Head(canal)
         /\ \/ Head(canal).op \in Escrituras
            \/ /\ <<Head(canal).op, paso>> \in Preguntas /\ Head(canal).pid = pcb
               /\ respuesta = NADA /\ hilo_cpu.op = "espera"
               /\ SoloEscrituras'
         /\ Head(canal).op \in Escrituras /\ UNCHANGED <<pcb, paso, respuesta, hilo_cpu>>
              => CanalInv'
<1>1. PICK S : canal \in Seq(S)
  BY DEF CanalInv
<1>2. /\ canal' \in Seq(S) /\ Len(canal') = Len(canal) - 1 /\ Len(canal) \in Nat \ {0}
      /\ \A k \in 1 .. Len(canal) - 1 : canal'[k] = canal[k + 1]
      /\ Head(canal) = canal[1]
  BY <1>1, CanalTail
<1>3. \E T : canal' \in Seq(T)
  BY <1>2
<1>4. 1 \in 1 .. Len(canal)
  BY <1>2
<1>5. CASE Head(canal).op \in Escrituras
  <2>1. ASSUME UNCHANGED <<pcb, paso, respuesta, hilo_cpu>>
        PROVE  CanalInv'
    <3>1. SUFFICES ASSUME NEW k \in 1 .. Len(canal')
                   PROVE  \/ canal'[k].op \in Escrituras
                          \/ /\ k = Len(canal') /\ <<canal'[k].op, paso'>> \in Preguntas
                             /\ canal'[k].pid = pcb'
                             /\ respuesta' = NADA /\ hilo_cpu'.op = "espera"
      BY <1>3, Zenon DEF CanalInv
    <3>2. k \in 1 .. Len(canal) - 1 /\ k + 1 \in 1 .. Len(canal)
          /\ (k + 1 = Len(canal) => k = Len(canal'))
      <4>1. \A l \in Nat : \A j \in 1 .. l - 1 : j + 1 \in 1 .. l /\ (j + 1 = l => j = l - 1)
        OBVIOUS
      <4>2. Len(canal) \in Nat /\ Len(canal') = Len(canal) - 1
        BY <1>2
      <4>3. k \in 1 .. Len(canal) - 1
        BY <4>2, Zenon
      <4> QED
        BY <4>1, <4>2, <4>3, Zenon
    <3>3. canal'[k] = canal[k + 1]
      BY <1>2, <3>2
    <3> QED
      BY <2>1, <3>2, <3>3 DEF CanalInv
  <2> QED
    BY <1>2, <1>5, <2>1
<1>6. CASE Head(canal).op \notin Escrituras
  <2>1. /\ 1 = Len(canal) /\ <<Head(canal).op, paso>> \in Preguntas /\ Head(canal).pid = pcb
        /\ respuesta = NADA /\ hilo_cpu.op = "espera"
    BY <1>2, <1>4, <1>6 DEF CanalInv
  <2>2. \A k \in 1 .. Len(canal') : canal'[k].op \in Escrituras
    BY <1>2, <2>1
  <2>3. SoloEscrituras'
    BY <1>3, <2>2, Zenon DEF SoloEscrituras
  <2> QED
    BY <1>2, <1>6, <2>1, <2>3
<1> QED
  BY <1>5, <1>6

-----------------------------------------------------------------------------
(* Control, action by action.                                              *)

(* The instructions of the CPU, between fetch and the answer it waits for  *)
(* (cpu.c:220-475): memoria is not touched.                                *)
LEMMA CpuControl ==
  ASSUME Control, Cpu
  PROVE  Control'
<1> USE DEF Control
<1>0. /\ MarcosTipos /\ KernelInv /\ CpuInv /\ CanalInv /\ TablasInv
      /\ estado \in [Pid -> EstadoMmu] /\ (paso # "ciclo" => pcb \in Pid)
  BY DEF MarcosTipos, CpuInv
<1>1. UNCHANGED memoriaControl
  BY DEF Cpu, Fetch, Decodificar, TlbHit, ObtenerElMarco, RecibirMarco, EnviarMovIn,
         EnviarEscritura, EnviarAInterfaz, RecibirDato, RecibirResize, memoriaVars,
         memoriaControl
<1>2. /\ estado' \in [Pid -> EstadoMmu]
      /\ \A p \in Pid : estado[p] = "fin" => estado'[p] = "fin"
  <2>1. UNCHANGED estado \/ \E e \in {"terminando", "interfaz"} :
                              /\ pcb # NADIE /\ estado' = [estado EXCEPT ![pcb] = e]
    <3>1. ASSUME Fetch \/ TlbHit \/ ObtenerElMarco \/ RecibirMarco \/ EnviarMovIn
                 \/ EnviarEscritura \/ RecibirDato
          PROVE  UNCHANGED estado
      BY <3>1 DEF Fetch, TlbHit, ObtenerElMarco, RecibirMarco, EnviarMovIn,
                  EnviarEscritura, RecibirDato, kernelVars
    <3>2. ASSUME Decodificar
          PROVE  UNCHANGED estado \/ estado' = [estado EXCEPT ![pcb] = "terminando"]
      BY <3>2 DEF Decodificar
    <3>3. ASSUME RecibirResize
          PROVE  UNCHANGED estado \/ estado' = [estado EXCEPT ![pcb] = "terminando"]
      BY <3>3 DEF RecibirResize
    <3>4. ASSUME EnviarAInterfaz
          PROVE  estado' = [estado EXCEPT ![pcb] = "interfaz"]
      BY <3>4 DEF EnviarAInterfaz
    <3>5. ASSUME Decodificar \/ RecibirResize \/ EnviarAInterfaz
          PROVE  pcb # NADIE
      BY <1>0, <3>5 DEF CpuInv, Decodificar, RecibirResize, EnviarAInterfaz, Traducido
    <3> QED
      BY <3>1, <3>2, <3>3, <3>4, <3>5 DEF Cpu
  <2>2. pcb # NADIE => pcb \in Pid /\ estado[pcb] = "cpu"
    BY <1>0 DEF CpuInv
  <2> QED
    BY <1>0, <2>1, <2>2 DEF EstadoMmu
<1>3. MarcosTipos' /\ KernelInv' /\ TablasInv'
  BY <1>1, <1>2, MemoriaIgual
<1>4. hilo_cpu' = hilo_cpu
  BY <1>1 DEF memoriaControl
<1>5. CpuInv' /\ CanalInv'
  <2>1. CASE Fetch
    <3> USE <2>1 DEF Fetch
    <3>1. SoloEscrituras /\ respuesta = NADA /\ hilo_cpu.op = "espera"
      BY <1>0, SinPreguntas DEF CpuInv
    <3>2. CpuInv'
      BY <1>0, <1>4, <3>1 DEF CpuInv, kernelVars
    <3>3. CanalInv'
      BY <1>4, <3>1, CanalAgrega DEF Mensaje, Preguntas
    <3> QED
      BY <3>2, <3>3
  <2>2. CASE Decodificar
    <3> USE <2>2 DEF Decodificar
    <3>1. SoloEscrituras /\ hilo_cpu.op = "espera" /\ respuesta' = NADA
      BY <1>0, SinPreguntas DEF CpuInv
    <3>2. CpuInv'
      BY <1>0, <1>4, <3>1 DEF CpuInv
    <3>3. ASSUME UNCHANGED canal PROVE CanalInv'
      BY <3>1, <3>3, CanalQueda
    <3>4. ASSUME NEW i, canal' = Append(canal, [Mensaje("RESIZE") EXCEPT !.inst = i]),
                 paso' = "resize", pcb' = pcb
          PROVE  CanalInv'
      BY <1>4, <3>1, <3>4, CanalAgrega DEF Mensaje, Preguntas
    <3> QED
      BY <3>2, <3>3, <3>4
  <2>3. CASE TlbHit
    <3> USE <2>3 DEF TlbHit, FaltaTraducir
    <3>1. SoloEscrituras
      BY <1>0, SinPreguntas
    <3>2. CanalInv'
      BY <3>1, CanalQueda
    <3>3. CpuInv'
      BY <1>0, <1>4 DEF CpuInv, kernelVars
    <3> QED
      BY <3>2, <3>3
  <2>4. CASE ObtenerElMarco
    <3> USE <2>4 DEF ObtenerElMarco, FaltaTraducir
    <3>1. SoloEscrituras /\ respuesta = NADA /\ hilo_cpu.op = "espera"
      BY <1>0, SinPreguntas DEF CpuInv
    <3>2. CpuInv'
      BY <1>0, <1>4, <3>1 DEF CpuInv, kernelVars
    <3>3. CanalInv'
      BY <1>4, <3>1, CanalAgrega DEF Mensaje, Preguntas
    <3> QED
      BY <3>2, <3>3
  <2>5. CASE RecibirMarco
    <3> USE <2>5 DEF RecibirMarco
    <3>1. SoloEscrituras /\ hilo_cpu.op = "espera"
      BY <1>0, SinPreguntas DEF CpuInv
    <3>2. CanalInv'
      BY <3>1, CanalQueda
    <3>3. CpuInv'
      BY <1>0, <1>4, <3>1 DEF CpuInv, kernelVars
    <3> QED
      BY <3>2, <3>3
  <2>6. CASE EnviarMovIn
    <3> USE <2>6 DEF EnviarMovIn, Traducido
    <3>1. SoloEscrituras /\ respuesta = NADA /\ hilo_cpu.op = "espera"
      BY <1>0, SinPreguntas DEF CpuInv
    <3>2. CpuInv'
      BY <1>0, <1>4, <3>1 DEF CpuInv, kernelVars
    <3>3. CanalInv'
      BY <1>4, <3>1, CanalAgrega DEF Mensaje, Preguntas
    <3> QED
      BY <3>2, <3>3
  <2>7. CASE EnviarEscritura
    <3> USE <2>7 DEF EnviarEscritura, Traducido
    <3>1. SoloEscrituras /\ respuesta = NADA /\ hilo_cpu.op = "espera"
      BY <1>0, SinPreguntas DEF CpuInv
    <3>2. CpuInv'
      BY <1>0, <1>4, <3>1 DEF CpuInv, kernelVars
    <3>3. CanalInv'
      BY <3>1, CanalAgrega DEF Mensaje, Escrituras
    <3> QED
      BY <3>2, <3>3
  <2>8. CASE EnviarAInterfaz
    <3> USE <2>8 DEF EnviarAInterfaz, Traducido
    <3>1. SoloEscrituras /\ respuesta = NADA /\ hilo_cpu.op = "espera"
      BY <1>0, SinPreguntas DEF CpuInv
    <3>2. CpuInv'
      BY <1>4, <3>1 DEF CpuInv
    <3>3. CanalInv'
      BY <3>1, CanalQueda
    <3> QED
      BY <3>2, <3>3
  <2>9. CASE RecibirDato
    <3> USE <2>9 DEF RecibirDato
    <3>1. SoloEscrituras /\ hilo_cpu.op = "espera"
      BY <1>0, SinPreguntas DEF CpuInv
    <3>2. CanalInv'
      BY <3>1, CanalQueda
    <3>3. CpuInv'
      BY <1>0, <1>4, <3>1 DEF CpuInv, kernelVars
    <3> QED
      BY <3>2, <3>3
  <2>10. CASE RecibirResize
    <3> USE <2>10 DEF RecibirResize
    <3>1. SoloEscrituras /\ hilo_cpu.op = "espera"
      BY <1>0, SinPreguntas DEF CpuInv
    <3>2. CanalInv'
      BY <3>1, CanalQueda
    <3>3. CpuInv'
      BY <1>0, <1>4, <3>1 DEF CpuInv
    <3> QED
      BY <3>2, <3>3
  <2> QED
    BY <2>1, <2>2, <2>3, <2>4, <2>5, <2>6, <2>7, <2>8, <2>9, <2>10 DEF Cpu
<1> QED
  BY <1>3, <1>5

(* Nobody finishes the process that runs, nor one that has ended.          *)
Matable == {"cpu", "fin"} \cap Matables = {}

(* What the kernel does to a process that is not in the CPU (crear_proceso,*)
(* finalizar_proceso, dispatch, preemption).                               *)
LEMMA KernelControl ==
  ASSUME Control, Matable, Desalojar \/ \E p \in Pid : Kernel(p)
  PROVE  Control'
<1> USE DEF Control
<1>0. /\ MarcosTipos /\ KernelInv /\ CpuInv /\ CanalInv /\ TablasInv
      /\ estado \in [Pid -> EstadoMmu]
  BY DEF MarcosTipos
<1>1. CASE Desalojar
  <2> USE <1>1 DEF Desalojar
  <2>1. MarcosTipos' /\ KernelInv' /\ TablasInv'
    <3>1. pcb \in Pid /\ estado[pcb] = "cpu"
      BY <1>0 DEF CpuInv
    <3>2. estado' \in [Pid -> EstadoMmu] /\ \A p \in Pid : estado[p] = "fin" => estado'[p] = "fin"
      BY <1>0, <3>1 DEF EstadoMmu
    <3>3. UNCHANGED memoriaControl
      BY DEF memoriaControl, memoriaVars
    <3> QED
      BY <3>2, <3>3, MemoriaIgual
  <2>2. SoloEscrituras /\ hilo_cpu.op = "espera" /\ respuesta = NADA
    BY <1>0, SinPreguntas DEF CpuInv
  <2>3. CanalInv'
    BY <2>2, CanalQueda
  <2>4. CpuInv'
    BY <2>2 DEF CpuInv, memoriaVars
  <2> QED
    BY <2>1, <2>3, <2>4
<1>2. ASSUME NEW p \in Pid, Despachar(p)
      PROVE  Control'
  <2> USE <1>2 DEF Despachar
  <2>1. MarcosTipos' /\ KernelInv' /\ TablasInv'
    <3>2. estado' \in [Pid -> EstadoMmu] /\ \A q \in Pid : estado[q] = "fin" => estado'[q] = "fin"
      BY <1>0 DEF EstadoMmu
    <3>3. UNCHANGED memoriaControl
      BY DEF memoriaControl, memoriaVars
    <3> QED
      BY <3>2, <3>3, MemoriaIgual
  <2>2. paso = "ciclo" /\ SoloEscrituras /\ hilo_cpu.op = "espera" /\ respuesta = NADA
    BY <1>0, SinPreguntas DEF CpuInv
  <2>3. CanalInv'
    BY <2>2, CanalQueda
  <2>4. CpuInv'
    BY <1>0, <2>2, MemoriaAssumption DEF CpuInv, memoriaVars
  <2> QED
    BY <2>1, <2>3, <2>4
<1>3. ASSUME NEW p \in Pid, NEW e \in {"listo", "terminando", "fin"},
             estado[p] # "cpu", estado' = [estado EXCEPT ![p] = e],
             UNCHANGED <<cpuVars, canal, respuesta, hilo_cpu>>
      PROVE  CpuInv' /\ CanalInv'
  <2>1. CanalInv'
    BY <1>0, <1>3 DEF CanalInv, cpuVars
  <2>2. CpuInv'
    BY <1>0, <1>3 DEF CpuInv, cpuVars
  <2> QED
    BY <2>1, <2>2
<1>4. ASSUME NEW p \in Pid, Crear(p)
      PROVE  Control'
  <2> USE <1>4 DEF Crear, CrearProceso
  <2>1. CpuInv' /\ CanalInv'
    BY <1>0, <1>3
  <2>2. paginas' = paginas
    BY <1>0 DEF TablasInv, MarcosTipos
  <2>3. MarcosTipos'
    BY <1>0, <2>2 DEF MarcosTipos, EstadoMmu
  <2>4. KernelInv'
    BY <1>0 DEF KernelInv
  <2>5. TablasInv'
    BY <1>0, <2>2 DEF TablasInv
  <2> QED
    BY <2>1, <2>3, <2>4, <2>5
<1>5. ASSUME NEW p \in Pid, Matar(p)
      PROVE  Control'
  <2> USE <1>5 DEF Matar
  <2>1. estado[p] # "cpu" /\ estado[p] # "fin"
    BY DEF Matable
  <2>2. MarcosTipos' /\ KernelInv' /\ TablasInv'
    <3>2. estado' \in [Pid -> EstadoMmu] /\ \A q \in Pid : estado[q] = "fin" => estado'[q] = "fin"
      BY <1>0, <2>1 DEF EstadoMmu
    <3>3. UNCHANGED memoriaControl
      BY DEF memoriaControl, memoriaVars
    <3> QED
      BY <3>2, <3>3, MemoriaIgual
  <2>3. CpuInv' /\ CanalInv'
    BY <1>3, <2>1 DEF memoriaVars
  <2> QED
    BY <2>2, <2>3
<1>6. ASSUME NEW p \in Pid, Finalizar(p)
      PROVE  Control'
  <2> USE <1>6 DEF Finalizar
  <2>1. UNCHANGED <<is_free, paginas, tablas, hilo_cpu>>
    BY DEF FinalizarProceso, Caer
  <2>2. CpuInv' /\ CanalInv'
    BY <1>3, <2>1
  <2>3. hilo_kernel.op = "espera"
        /\ (UNCHANGED hilo_kernel \/ hilo_kernel' = [op |-> "libera", pid |-> p, n |-> 1])
    BY DEF FinalizarProceso, Caer
  <2>4. MarcosTipos'
    <3>1. hilo_kernel' \in Hilo
      BY <1>0, <2>3 DEF MarcosTipos, Hilo
    <3>2. estado' \in [Pid -> EstadoMmu]
      BY <1>0 DEF EstadoMmu
    <3> QED
      BY <1>0, <2>1, <3>1, <3>2 DEF MarcosTipos
  <2>5. KernelInv'
    <3>1. Len(paginas[p]) \in Nat /\ 1 \in 1 .. Len(paginas[p]) + 1
      BY <1>0 DEF MarcosTipos
    <3>2. estado'[p] = "fin"
      BY <1>0
    <3> QED
      BY <2>1, <2>3, <3>1, <3>2 DEF KernelInv
  <2>6. TablasInv'
    BY <1>0, <2>1 DEF TablasInv
  <2> QED
    BY <2>2, <2>4, <2>5, <2>6
<1> QED
  BY <1>1, <1>2, <1>4, <1>5, <1>6 DEF Kernel

(* An interface writes or reads user space and its process becomes READY.  *)
LEMMA InterfazControl ==
  ASSUME Control, NEW p \in Pid, StdinRead(p) \/ StdoutWrite(p)
  PROVE  Control'
<1> USE DEF Control
<1>0. /\ MarcosTipos /\ KernelInv /\ CpuInv /\ CanalInv /\ TablasInv
      /\ estado \in [Pid -> EstadoMmu]
  BY DEF MarcosTipos
<1>1. UNCHANGED memoriaControl
  BY DEF StdinRead, StdoutWrite, Escribir, memoriaControl, memoriaVars
<1>2. Devolver(p)
  BY DEF StdinRead, StdoutWrite
<1>3. UNCHANGED estado \/ (estado[p] = "interfaz" /\ estado' = [estado EXCEPT ![p] = "listo"])
  BY <1>2 DEF Devolver
<1>4. estado' \in [Pid -> EstadoMmu] /\ \A q \in Pid : estado[q] = "fin" => estado'[q] = "fin"
  BY <1>0, <1>3 DEF EstadoMmu
<1>5. MarcosTipos' /\ KernelInv' /\ TablasInv'
  BY <1>1, <1>4, MemoriaIgual
<1>6. UNCHANGED <<cpuVars, canal, respuesta, hilo_cpu>>
  BY <1>1, <1>2 DEF Devolver, memoriaControl
<1>7. CanalInv'
  BY <1>0, <1>6 DEF CanalInv, cpuVars
<1>8. CpuInv'
  BY <1>0, <1>3, <1>6 DEF CpuInv, cpuVars
<1> QED
  BY <1>5, <1>7, <1>8

(* The thread of the CPU takes a request and answers it, or stores what it *)
(* carries (memoria.c:50-83).                                              *)
LEMMA AtencionControl ==
  ASSUME Control, \/ EnviarInstrucciones \/ AtenderMarco \/ AtenderMovIn
                  \/ AtenderMovOut \/ AtenderCopyString \/ RechazarResize
  PROVE  Control'
<1> USE DEF Control
<1>0. /\ MarcosTipos /\ KernelInv /\ CpuInv /\ CanalInv /\ TablasInv
      /\ estado \in [Pid -> EstadoMmu]
  BY DEF MarcosTipos
<1>1. UNCHANGED memoriaControl /\ RestoCpu /\ canal # <<>> /\ canal' = Tail(canal)
  BY DEF EnviarInstrucciones, AtenderMarco, AtenderMovIn, AtenderMovOut, AtenderCopyString,
         RechazarResize, Atiende, Caer, Escribir, CopyString, memoriaVars, memoriaControl
<1>2. UNCHANGED <<pcb, paso, estado, hilo_cpu>>
  BY <1>1 DEF RestoCpu, cpuVars, kernelVars, memoriaControl
<1>3. MarcosTipos' /\ KernelInv' /\ TablasInv'
  <2>1. estado' \in [Pid -> EstadoMmu] /\ \A q \in Pid : estado[q] = "fin" => estado'[q] = "fin"
    BY <1>0, <1>2
  <2> QED
    BY <1>1, <2>1, MemoriaIgual
<1>4. CASE Head(canal).op \in Escrituras
  <2>1. UNCHANGED respuesta
    BY <1>4 DEF Escrituras, EnviarInstrucciones, AtenderMarco, AtenderMovIn, AtenderMovOut,
                AtenderCopyString, RechazarResize, Atiende
  <2>2. CanalInv'
    BY <1>0, <1>1, <1>2, <1>4, <2>1, CanalSaca
  <2>3. CpuInv'
    BY <1>0, <1>2, <2>1 DEF CpuInv
  <2> QED
    BY <1>3, <2>2, <2>3
<1>5. CASE Head(canal).op \notin Escrituras
  <2>1. <<Head(canal).op, paso>> \in Preguntas /\ hilo_cpu.op = "espera" /\ SoloEscrituras'
    BY <1>0, <1>1, <1>5, CanalSaca
  <2>2. CanalInv'
    BY <2>1 DEF CanalInv, SoloEscrituras
  <2>3. paso \notin {"ciclo", "traducir"}
    BY <2>1 DEF Preguntas
  <2>4. CpuInv'
    BY <1>0, <1>2, <2>1, <2>3 DEF CpuInv
  <2> QED
    BY <1>3, <2>2, <2>4
<1> QED
  BY <1>4, <1>5

(* envio_resize starts to resize the table of the process in the CPU       *)
(* (envio_resize.c:4).                                                     *)
LEMMA ResizeControl ==
  ASSUME Control, AtenderResize
  PROVE  Control'
<1> USE DEF Control
<1>0. /\ MarcosTipos /\ KernelInv /\ CpuInv /\ CanalInv /\ TablasInv
  OBVIOUS
<1>1. canal # <<>> /\ canal' = Tail(canal) /\ Head(canal).op = "RESIZE"
      /\ UNCHANGED <<pcb, paso, estado, respuesta>>
  BY DEF AtenderResize, Atiende, RestoCpu, cpuVars, kernelVars
<1>2. /\ <<"RESIZE", paso>> \in Preguntas /\ Head(canal).pid = pcb
      /\ respuesta = NADA /\ SoloEscrituras'
  BY <1>0, <1>1, CanalSaca DEF Escrituras
<1>3. paso = "resize"
  BY <1>2 DEF Preguntas
<1>4. UNCHANGED <<is_free, tablas, paginas, hilo_kernel>>
  BY DEF AtenderResize, EnvioResize, Caer
<1>5. UNCHANGED hilo_cpu \/ \E o, n : hilo_cpu' = [op |-> o, pid |-> pcb, n |-> n]
  BY <1>2 DEF AtenderResize, EnvioResize, Caer, EjecutarReduccion, EjecutarAmpliacion
<1>6. MarcosTipos'
  BY <1>0, <1>1, <1>4, <1>5 DEF MarcosTipos
<1>7. KernelInv' /\ TablasInv'
  BY <1>0, <1>1, <1>4 DEF KernelInv, TablasInv
<1>8. CpuInv'
  BY <1>0, <1>1, <1>2, <1>3, <1>5 DEF CpuInv
<1>9. CanalInv'
  BY <1>2 DEF CanalInv, SoloEscrituras
<1> QED
  BY <1>6, <1>7, <1>8, <1>9

(* The answer to a RESIZE (envio_resize.c:102).                            *)
LEMMA RespuestaControl ==
  ASSUME Control, ContestarResize
  PROVE  Control'
<1> USE DEF Control
<1>0. /\ MarcosTipos /\ KernelInv /\ CpuInv /\ CanalInv /\ TablasInv
  OBVIOUS
<1>1. hilo_cpu.op # "espera" /\ hilo_cpu' = HiloLibre
      /\ UNCHANGED <<is_free, tablas, paginas, hilo_kernel>>
  BY DEF ContestarResize, TerminarResize
<1>2. UNCHANGED <<pcb, paso, estado, canal>>
  BY DEF ContestarResize, RestoCpu, cpuVars, kernelVars
<1>3. MarcosTipos'
  BY <1>0, <1>1, <1>2 DEF MarcosTipos, HiloLibre
<1>4. KernelInv' /\ TablasInv'
  BY <1>0, <1>1, <1>2 DEF KernelInv, TablasInv
<1>5. CpuInv'
  BY <1>0, <1>1, <1>2 DEF CpuInv, HiloLibre
<1>6. CanalInv'
  BY <1>0, <1>1, <1>2, SinPreguntas, CanalQueda
<1> QED
  BY <1>3, <1>4, <1>5, <1>6

(* One page of a RESIZE, one frame of a process that ended, or its table.  *)
LEMMA SeguirControl ==
  ASSUME Inv, SeguirMemoria
  PROVE  Control'
<1>0. /\ MarcosTipos /\ KernelInv /\ CpuInv /\ CanalInv /\ TablasInv
  BY DEF Inv, Control
<1>1. UNCHANGED <<pcb, paso, estado, canal, respuesta>>
  BY DEF SeguirMemoria, RestoCpu, cpuVars, kernelVars
<1>2. CASE AsignarMarco \/ LiberarMarco
  <2>1. hilo_cpu.op # "espera" /\ UNCHANGED <<tablas, hilo_kernel>>
    BY <1>2 DEF AsignarMarco, LiberarMarco, Caer
  <2>2. PICK q : q = hilo_cpu.pid
    OBVIOUS
  <2>3. q \in Pid /\ (hilo_kernel.op = "libera" => hilo_kernel.pid # q)
    BY <2>1, <2>2, TablaDelCpu
  <2>4. UNCHANGED <<is_free, paginas, hilo_cpu>> \/
        \E s \in Seq(Marco) : \E f \in Marco : \E b \in BOOLEAN :
          /\ q \in tablas /\ paginas' = [paginas EXCEPT ![q] = s]
          /\ is_free' = [is_free EXCEPT ![f] = b]
          /\ hilo_cpu' = [hilo_cpu EXCEPT !.n = @ - 1]
    <3>1. paginas[q] \in Seq(Marco)
      BY <1>0, <2>3 DEF MarcosTipos
    <3>2. CASE AsignarMarco
      <4>1. \A i \in EncontrarMarcoLibre : i # -1 => i \in Marco /\ Append(paginas[q], i) \in Seq(Marco)
        BY <3>1 DEF EncontrarMarcoLibre
      <4> QED
        BY <2>2, <3>2, <4>1 DEF AsignarMarco, Caer
    <3>3. CASE LiberarMarco
      <4>1. Len(paginas[q]) > 0 => /\ SubSeq(paginas[q], 1, Len(paginas[q]) - 1) \in Seq(Marco)
                                   /\ paginas[q][Len(paginas[q])] \in Marco
        BY <3>1
      <4> QED
        BY <2>2, <3>3, <4>1 DEF LiberarMarco, Caer
    <3> QED
      BY <1>2, <3>2, <3>3
  <2>5. MarcosTipos'
    BY <1>0, <1>1, <2>1, <2>4 DEF MarcosTipos
  <2>6. KernelInv'
    BY <1>0, <1>1, <2>1, <2>3, <2>4 DEF KernelInv, MarcosTipos, Hilo
  <2>7. TablasInv'
    BY <1>0, <2>1, <2>4 DEF TablasInv, MarcosTipos
  <2>8. hilo_cpu'.op = hilo_cpu.op /\ hilo_cpu'.pid = hilo_cpu.pid
    BY <1>0, <2>4 DEF MarcosTipos
  <2>9. CpuInv' /\ CanalInv'
    BY <1>0, <1>1, <2>1, <2>8, SinPreguntas, CanalQueda DEF CpuInv
  <2> QED
    BY <2>5, <2>6, <2>7, <2>9 DEF Control
<1>3. CASE LiberarMarcos \/ QuitarTabla
  <2>1. hilo_kernel.op = "libera" /\ UNCHANGED hilo_cpu
    BY <1>3 DEF LiberarMarcos, QuitarTabla
  <2>2. PICK q : q = hilo_kernel.pid
    OBVIOUS
  <2>3. q \in Pid /\ estado[q] = "fin" /\ paginas[q] \in Seq(Marco)
        /\ hilo_kernel.n \in 1 .. Len(paginas[q]) + 1 /\ Len(paginas[q]) \in Nat
    BY <1>0, <2>1, <2>2 DEF KernelInv, MarcosTipos
  <2>4. CpuInv' /\ CanalInv'
    BY <1>0, <1>1, <2>1 DEF CpuInv, CanalInv
  <2>5. CASE LiberarMarcos
    <3>1. UNCHANGED <<tablas, paginas>> /\ hilo_kernel' = [hilo_kernel EXCEPT !.n = @ + 1]
          /\ hilo_kernel.n \in 1 .. Len(paginas[q])
          /\ is_free' = [is_free EXCEPT ![paginas[q][hilo_kernel.n]] = TRUE]
      BY <2>2, <2>3, <2>5 DEF LiberarMarcos
    <3>2. hilo_kernel' = [op |-> "libera", pid |-> q, n |-> hilo_kernel.n + 1]
          /\ hilo_kernel.n + 1 \in 1 .. Len(paginas[q]) + 1
      BY <1>0, <2>1, <2>2, <2>3, <3>1 DEF MarcosTipos, Hilo
    <3>3. MarcosTipos'
      <4>1. hilo_kernel' \in Hilo
        BY <2>3, <3>2 DEF Hilo
      <4>2. is_free' \in [Marco -> BOOLEAN]
        BY <1>0, <3>1 DEF MarcosTipos
      <4> QED
        BY <1>0, <1>1, <2>1, <3>1, <4>1, <4>2 DEF MarcosTipos
    <3>4. KernelInv'
      BY <1>1, <2>3, <3>1, <3>2 DEF KernelInv
    <3>5. TablasInv'
      BY <1>0, <3>1 DEF TablasInv
    <3> QED
      BY <2>4, <3>3, <3>4, <3>5 DEF Control
  <2>6. CASE QuitarTabla
    <3>1. /\ UNCHANGED is_free /\ tablas' = tablas \ {q} /\ paginas' = [paginas EXCEPT ![q] = <<>>]
          /\ hilo_kernel' = HiloLibre
      BY <2>2, <2>6 DEF QuitarTabla
    <3>2. MarcosTipos'
      <4>1. hilo_kernel' \in Hilo
        BY <3>1 DEF Hilo, HiloLibre
      <4>2. paginas' \in [Pid -> Seq(Marco)]
        BY <1>0, <3>1, Vacia DEF MarcosTipos
      <4> QED
        BY <1>0, <1>1, <2>1, <3>1, <4>1, <4>2 DEF MarcosTipos
    <3>3. KernelInv'
      BY <3>1 DEF KernelInv, HiloLibre
    <3>4. TablasInv'
      BY <1>0, <2>3, <3>1 DEF TablasInv, MarcosTipos
    <3> QED
      BY <2>4, <3>2, <3>3, <3>4 DEF Control
  <2> QED
    BY <1>3, <2>5, <2>6
<1> QED
  BY <1>2, <1>3 DEF SeguirMemoria

-----------------------------------------------------------------------------
(* Every step keeps the invariant.                                         *)
LEMMA NextInv ==
  ASSUME Matable, Inv, [Next]_vars
  PROVE  Inv'
<1>1. Control /\ MarcosExactos
  BY DEF Inv
<1>2. CASE UNCHANGED vars
  <2>1. Control'
    BY <1>1, <1>2 DEF Control, MarcosTipos, KernelInv, CpuInv, CanalInv, TablasInv,
                      vars, memoriaVars, cpuVars, kernelVars
  <2>2. MarcosExactos'
    BY <1>1, <1>2, IgualMarcos DEF vars, memoriaVars
  <2> QED
    BY <2>1, <2>2 DEF Inv
<1>3. CASE Cpu
  <2>1. UNCHANGED <<is_free, paginas, hilo_kernel>>
    BY <1>3 DEF Cpu, Fetch, Decodificar, TlbHit, ObtenerElMarco, RecibirMarco, EnviarMovIn,
         EnviarEscritura, EnviarAInterfaz, RecibirDato, RecibirResize, memoriaVars
  <2> QED
    BY <1>1, <1>3, <2>1, CpuControl, IgualMarcos DEF Inv
<1>4. CASE HiloCpu
  <2>1. Control'
    BY <1>1, <1>4, AtencionControl, ResizeControl, RespuestaControl, SeguirControl DEF HiloCpu, Inv
  <2>2. ASSUME SeguirMemoria PROVE MarcosExactos'
    BY <2>2, AsignarMarcoMarcos, LiberarMarcoMarcos, LiberarMarcosMarcos, QuitarTablaMarcos
    DEF SeguirMemoria
  <2>3. ASSUME ~SeguirMemoria PROVE MarcosExactos'
    <3>1. UNCHANGED <<is_free, paginas, hilo_kernel>>
      BY <1>4, <2>3 DEF HiloCpu, EnviarInstrucciones, AtenderMarco, AtenderMovIn, AtenderMovOut,
           AtenderCopyString, AtenderResize, RechazarResize, ContestarResize, TerminarResize,
           EnvioResize, Caer, Escribir, CopyString, memoriaVars
    <3> QED
      BY <1>1, <3>1, IgualMarcos
  <2> QED
    BY <2>1, <2>2, <2>3 DEF Inv
<1>5. CASE Desalojar
  <2>1. UNCHANGED <<is_free, paginas, hilo_kernel>>
    BY <1>5 DEF Desalojar, memoriaVars
  <2> QED
    BY <1>1, <1>5, <2>1, KernelControl, IgualMarcos DEF Inv
<1>6. ASSUME NEW p \in Pid, Kernel(p)
      PROVE  Inv'
  <2>1. Control'
    BY <1>1, <1>6, KernelControl
  <2>2. ASSUME Crear(p) PROVE MarcosExactos'
    BY <2>2, CrearProcesoMarcos DEF Crear
  <2>3. ASSUME Finalizar(p) PROVE MarcosExactos'
    BY <2>3, FinalizarProcesoMarcos DEF Finalizar
  <2>4. ASSUME Despachar(p) \/ Matar(p) PROVE MarcosExactos'
    <3>1. UNCHANGED <<is_free, paginas, hilo_kernel>>
      BY <2>4 DEF Despachar, Matar, memoriaVars
    <3> QED
      BY <1>1, <3>1, IgualMarcos
  <2> QED
    BY <1>6, <2>1, <2>2, <2>3, <2>4 DEF Kernel, Inv
<1>7. ASSUME NEW p \in Pid, StdinRead(p) \/ StdoutWrite(p)
      PROVE  Inv'
  <2>1. UNCHANGED <<is_free, paginas, hilo_kernel>>
    BY <1>7 DEF StdinRead, StdoutWrite, Escribir, memoriaVars
  <2> QED
    BY <1>1, <1>7, <2>1, InterfazControl, IgualMarcos DEF Inv
<1> QED
  BY <1>2, <1>3, <1>4, <1>5, <1>6, <1>7 DEF Next

(* asignar_marco, liberar_marco and liberar_marcos: whatever the memory,   *)
(* the programs and the interleaving of the two threads, a frame is in one *)
(* page of one table or is free, and is_free says which, as long as        *)
(* nobody finishes the process that runs (Matable).                        *)
THEOREM MarcosExactosSiempre ==
  ASSUME Matable
  PROVE  Spec => []MarcosExactos
<1>1. Inv => MarcosExactos
  BY DEF Inv
<1>2. Matable
  OBVIOUS
<1>3. Inv /\ [Next]_vars => Inv'
  BY <1>2, NextInv
<1> QED
  BY <1>1, <1>3, InitInv, PTL DEF Spec
=============================================================================
