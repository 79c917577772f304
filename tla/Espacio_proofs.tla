---------------------------- MODULE Espacio_proofs ----------------------------
(***************************************************************************)
(* The bytes of memoria: what espacio_disponible promises, and why RESIZE  *)
(* and the page requests never find a frame or a table missing.            *)
(***************************************************************************)
EXTENDS Memoria_proofs, PropsMmu, FiniteSetTheorems, WellFoundedInduction

-----------------------------------------------------------------------------
(* Counting what each process of a finite set has.                         *)
Pares(S, f) == UNION {{p} \X (1 .. f[p]) : p \in S}

(* A pair is a process and one of its pages or bytes.                      *)
LEMMA ParEs ==
  ASSUME NEW S, NEW f
  PROVE  \A x : x \in Pares(S, f) <=> \E p \in S : \E k \in 1 .. f[p] : x = <<p, k>>
  BY DEF Pares

(* What one process has.                                                   *)
LEMMA ParesDeUno ==
  ASSUME NEW p, NEW n \in Nat
  PROVE  IsFiniteSet({p} \X (1 .. n)) /\ Cardinality({p} \X (1 .. n)) = n
<1>1. IsFiniteSet({p}) /\ Cardinality({p}) = 1
  BY FS_Singleton
<1>2. IsFiniteSet(1 .. n) /\ Cardinality(1 .. n) = n
  <2>1. 1 \in Int /\ n \in Int
    OBVIOUS
  <2>2. IsFiniteSet(1 .. n) /\ Cardinality(1 .. n) = IF 1 > n THEN 0 ELSE n - 1 + 1
    BY <2>1, FS_Interval
  <2> QED
    BY <2>2
<1>3. \A A, B : IsFiniteSet(A) /\ IsFiniteSet(B) =>
        IsFiniteSet(A \X B) /\ Cardinality(A \X B) = Cardinality(A) * Cardinality(B)
  BY FS_Product
<1>4. IsFiniteSet({p} \X (1 .. n)) /\ Cardinality({p} \X (1 .. n)) = 1 * n
  BY <1>1, <1>2, <1>3, ZenonT(60)
<1> QED
  BY <1>4

(* Finitely many processes have finitely many.                             *)
LEMMA ParesFinitos ==
  ASSUME NEW S, IsFiniteSet(S), NEW f, \A p \in S : f[p] \in Nat
  PROVE  IsFiniteSet(Pares(S, f)) /\ Cardinality(Pares(S, f)) \in Nat
<1> DEFINE g == [p \in S |-> {p} \X (1 .. f[p])]
           T == {{p} \X (1 .. f[p]) : p \in S}
<1>1. g \in Surjection(S, T)
  BY DEF Surjection
<1>2. IsFiniteSet(T)
  BY <1>1, FS_Surjection
<1>3. \A t \in T : IsFiniteSet(t)
  <2>1. \A p \in S : IsFiniteSet({p} \X (1 .. f[p]))
    BY ParesDeUno
  <2> QED
    BY <2>1, Zenon
<1>4. IsFiniteSet(UNION T)
  <2> HIDE DEF T
  <2> QED
    BY <1>2, <1>3, FS_UNION
<1>5. IsFiniteSet(Pares(S, f))
  BY <1>4 DEF Pares
<1> QED
  BY <1>5, FS_CardinalityType

(* Fewer processes have no more.                                           *)
LEMMA ParesMenos ==
  ASSUME NEW S, IsFiniteSet(S), NEW f, \A p \in S : f[p] \in Nat,
         NEW T, NEW g, \A p \in T : g[p] > 0 => p \in S /\ g[p] = f[p],
         \A p \in T : g[p] \in Nat
  PROVE  Cardinality(Pares(T, g)) <= Cardinality(Pares(S, f))
<1>1. Pares(T, g) \subseteq Pares(S, f)
  <2> SUFFICES ASSUME NEW p \in T, NEW k \in 1 .. g[p]
               PROVE  <<p, k>> \in Pares(S, f)
    BY ParEs
  <2>1. g[p] > 0
    OBVIOUS
  <2> QED
    BY <2>1, ParEs
<1> QED
  BY <1>1, ParesFinitos, FS_Subset

(* One process changes what it has.                                        *)
LEMMA ParesCambia ==
  ASSUME NEW S, IsFiniteSet(S), NEW f, \A p \in S : f[p] \in Nat,
         NEW g, \A p \in S : g[p] \in Nat, NEW q \in S, \A p \in S : p # q => g[p] = f[p]
  PROVE  Cardinality(Pares(S, g)) = Cardinality(Pares(S, f)) - f[q] + g[q]
<1> DEFINE R == S \ {q}
<1>1. ASSUME NEW h, \A p \in S : h[p] \in Nat
      PROVE  /\ Cardinality(Pares(S, h)) = Cardinality(Pares(R, h)) + h[q]
             /\ Cardinality(Pares(R, h)) \in Nat
  <2>1. Pares(S, h) = Pares(R, h) \cup ({q} \X (1 .. h[q]))
    BY DEF Pares
  <2>2. Pares(R, h) \cap ({q} \X (1 .. h[q])) = {}
    BY DEF Pares
  <2>3. IsFiniteSet(R)
    BY FS_Subset
  <2>4. IsFiniteSet(Pares(R, h)) /\ Cardinality(Pares(R, h)) \in Nat
    BY <1>1, <2>3, ParesFinitos
  <2>5. IsFiniteSet({q} \X (1 .. h[q])) /\ Cardinality({q} \X (1 .. h[q])) = h[q]
    BY <1>1, ParesDeUno
  <2>6. Cardinality(Pares(R, h) \cap ({q} \X (1 .. h[q]))) = 0
    BY <2>2, FS_EmptySet
  <2> HIDE DEF R
  <2>7. Cardinality(Pares(R, h) \cup ({q} \X (1 .. h[q])))
          = Cardinality(Pares(R, h)) + Cardinality({q} \X (1 .. h[q]))
            - Cardinality(Pares(R, h) \cap ({q} \X (1 .. h[q])))
    BY <2>4, <2>5, FS_Union
  <2> QED
    BY <1>1, <2>1, <2>4, <2>5, <2>6, <2>7
<1>2. Pares(R, g) = Pares(R, f)
  BY DEF Pares
<1>3. /\ Cardinality(Pares(S, f)) = Cardinality(Pares(R, f)) + f[q]
      /\ Cardinality(Pares(R, f)) \in Nat
  BY <1>1
<1>4. Cardinality(Pares(S, g)) = Cardinality(Pares(R, g)) + g[q]
  BY <1>1
<1> HIDE DEF R
<1>5. \A a, b, c \in Nat : \A x, y : x = a + b /\ y = a + c => y = x - b + c
  OBVIOUS
<1> QED
  BY <1>2, <1>3, <1>4, <1>5

-----------------------------------------------------------------------------
(* espacio_disponible.                                                     *)

(* A RESIZE on its way names a process and a size.                         *)
Resizes ==
  /\ pcb \in Pid \cup {NADIE} /\ (paso # "ciclo" => pcb \in Pid)
  /\ \E S : canal \in Seq(S)
  /\ \A k \in 1 .. Len(canal) :
       canal[k].op = "RESIZE" => canal[k].pid \in Pid /\ canal[k].inst.valor \in Nat

Tamanios ==
  /\ IsFiniteSet(tablas) /\ tablas \subseteq Pid
  /\ tamanio_proceso \in [Pid -> Nat]
  /\ espacio_disponible \in Nat

EspacioInd == Resizes /\ Tamanios /\ EspacioNoSeInventa

(* What a step does to the connection of the CPU.                          *)
LEMMA CanalPaso ==
  ASSUME Next
  PROVE  \/ UNCHANGED canal
         \/ canal # <<>> /\ canal' = Tail(canal)
         \/ \E op \in {"INSTRUCCION", "OBTENER_MARCO", "MOV_IN", "MOV_OUT", "COPY_STRING"} :
              canal' = Append(canal, Mensaje(op))
         \/ /\ paso = "instruccion"
            /\ \E i \in Instrucciones :
                 i.op = "RESIZE" /\ canal' = Append(canal, [Mensaje("RESIZE") EXCEPT !.inst = i])
<1>1. CASE Cpu
  <2>1. CASE Decodificar
    BY <2>1 DEF Decodificar, Programa
  <2>2. CASE ~Decodificar
    BY <1>1, <2>2 DEF Cpu, Fetch, TlbHit, ObtenerElMarco, RecibirMarco, EnviarMovIn,
         EnviarEscritura, EnviarAInterfaz, RecibirDato, RecibirResize
  <2> QED
    BY <2>1, <2>2
<1>2. CASE HiloCpu
  BY <1>2 DEF HiloCpu, EnviarInstrucciones, AtenderMarco, AtenderMovIn, AtenderMovOut,
       AtenderCopyString, AtenderResize, RechazarResize, ContestarResize, SeguirMemoria, Atiende
<1>3. CASE Desalojar
  BY <1>3 DEF Desalojar
<1>4. CASE \E p \in Pid : Kernel(p) \/ StdinRead(p) \/ StdoutWrite(p)
  BY <1>4 DEF Kernel, Crear, Despachar, Matar, Finalizar, StdinRead, StdoutWrite, Devolver
<1> QED
  BY <1>1, <1>2, <1>3, <1>4 DEF Next

(* Only the CPU and the dispatch move the CPU, which is busy with a        *)
(* process from fetch to the end of the instruction.                       *)
LEMMA CpuOcupada ==
  ASSUME Next, pcb \in Pid \cup {NADIE}, paso # "ciclo" => pcb \in Pid
  PROVE  pcb' \in Pid \cup {NADIE} /\ (paso' # "ciclo" => pcb' \in Pid)
<1>1. CASE Cpu
  BY <1>1 DEF Cpu, Fetch, Decodificar, TlbHit, ObtenerElMarco, RecibirMarco, EnviarMovIn,
       EnviarEscritura, EnviarAInterfaz, RecibirDato, RecibirResize, FaltaTraducir, Traducido,
       kernelVars
<1>2. CASE HiloCpu
  <2>1. RestoCpu
    BY <1>2 DEF HiloCpu, EnviarInstrucciones, AtenderMarco, AtenderMovIn, AtenderMovOut,
         AtenderCopyString, AtenderResize, RechazarResize, ContestarResize, SeguirMemoria
  <2> QED
    BY <2>1 DEF RestoCpu, cpuVars
<1>3. CASE Desalojar
  BY <1>3 DEF Desalojar
<1>4. CASE \E p \in Pid : Kernel(p) \/ StdinRead(p) \/ StdoutWrite(p)
  BY <1>4, MemoriaAssumption
  DEF Kernel, Crear, Despachar, Matar, Finalizar, StdinRead, StdoutWrite, Devolver, cpuVars
<1> QED
  BY <1>1, <1>2, <1>3, <1>4 DEF Next

(* The CPU sends RESIZE with the pid it runs (cpu.c:416).                  *)
LEMMA ResizesPaso ==
  ASSUME Resizes, Next
  PROVE  Resizes'
<1>1. pcb' \in Pid \cup {NADIE} /\ (paso' # "ciclo" => pcb' \in Pid)
  BY CpuOcupada DEF Resizes
<1>2. PICK S : canal \in Seq(S)
  BY DEF Resizes
<1> DEFINE Bueno(m) == m.op = "RESIZE" => m.pid \in Pid /\ m.inst.valor \in Nat
<1>3. \A k \in 1 .. Len(canal) : Bueno(canal[k])
  BY DEF Resizes
<1>4. ASSUME NEW m, Bueno(m), canal' = Append(canal, m)
      PROVE  \E T : canal' \in Seq(T) /\ \A k \in 1 .. Len(canal') : Bueno(canal'[k])
  <2> HIDE DEF Bueno
  <2>1. /\ canal' \in Seq(S \cup {m}) /\ Len(canal') = Len(canal) + 1 /\ Len(canal) \in Nat
        /\ \A k \in 1 .. Len(canal) : canal'[k] = canal[k]
        /\ canal'[Len(canal) + 1] = m
    BY <1>2, <1>4, CanalAppend
  <2>2. \A k \in 1 .. Len(canal') : k \in 1 .. Len(canal) \/ k = Len(canal) + 1
    BY <2>1
  <2>3. \A k \in 1 .. Len(canal') : Bueno(canal'[k])
    BY <1>3, <1>4, <2>1, <2>2
  <2> QED
    BY <2>1, <2>3
<1>5. ASSUME canal # <<>>, canal' = Tail(canal)
      PROVE  \E T : canal' \in Seq(T) /\ \A k \in 1 .. Len(canal') : Bueno(canal'[k])
  <2> HIDE DEF Bueno
  <2>1. /\ canal' \in Seq(S) /\ Len(canal') = Len(canal) - 1 /\ Len(canal) \in Nat \ {0}
        /\ \A k \in 1 .. Len(canal) - 1 : canal'[k] = canal[k + 1]
    BY <1>2, <1>5, CanalTail
  <2>2. \A k \in 1 .. Len(canal') : k \in 1 .. Len(canal) - 1 /\ k + 1 \in 1 .. Len(canal)
    BY <2>1
  <2>3. \A k \in 1 .. Len(canal') : Bueno(canal'[k])
    BY <1>3, <2>1, <2>2
  <2> QED
    BY <2>1, <2>3
<1>6. \E T : canal' \in Seq(T) /\ \A k \in 1 .. Len(canal') : Bueno(canal'[k])
  <2>1. \A op \in {"INSTRUCCION", "OBTENER_MARCO", "MOV_IN", "MOV_OUT", "COPY_STRING"} :
          Bueno(Mensaje(op))
    BY DEF Mensaje
  <2>2. \A i \in Instrucciones :
          paso = "instruccion" => Bueno([Mensaje("RESIZE") EXCEPT !.inst = i])
    BY MmuAssumption DEF Mensaje, Resizes
  <2>3. UNCHANGED canal => \E T : canal' \in Seq(T) /\ \A k \in 1 .. Len(canal') : Bueno(canal'[k])
    BY <1>2, <1>3
  <2> HIDE DEF Bueno
  <2> QED
    BY <1>4, <1>5, <2>1, <2>2, <2>3, CanalPaso
<1> QED
  BY <1>1, <1>6 DEF Resizes

(* Only creation, RESIZE and the release of a table move the sizes.        *)
LEMMA QuienCambiaTamanios ==
  ASSUME Next
  PROVE  \/ UNCHANGED <<tablas, tamanio_proceso, espacio_disponible>>
         \/ \E p \in Pid : Crear(p)
         \/ AtenderResize
         \/ QuitarTabla
<1>1. CASE Cpu
  BY <1>1 DEF Cpu, Fetch, Decodificar, TlbHit, ObtenerElMarco, RecibirMarco, EnviarMovIn,
       EnviarEscritura, EnviarAInterfaz, RecibirDato, RecibirResize, memoriaVars
<1>2. CASE HiloCpu
  BY <1>2 DEF HiloCpu, EnviarInstrucciones, AtenderMarco, AtenderMovIn, AtenderMovOut,
       AtenderCopyString, RechazarResize, ContestarResize, TerminarResize, SeguirMemoria,
       AsignarMarco, LiberarMarco, LiberarMarcos, Escribir, CopyString, Caer, memoriaVars
<1>3. CASE Desalojar
  BY <1>3 DEF Desalojar, memoriaVars
<1>4. CASE \E p \in Pid : Kernel(p) \/ StdinRead(p) \/ StdoutWrite(p)
  BY <1>4 DEF Kernel, Despachar, Matar, Finalizar, StdinRead, StdoutWrite, Escribir,
       FinalizarProceso, Caer, memoriaVars
<1> QED
  BY <1>1, <1>2, <1>3, <1>4 DEF Next

(* The request that is served.                                             *)
LEMMA ResizeServido ==
  ASSUME Resizes, canal # <<>>, Head(canal).op = "RESIZE"
  PROVE  Head(canal).pid \in Pid /\ Head(canal).inst.valor \in Nat
<1>1. PICK S : canal \in Seq(S)
  BY DEF Resizes
<1>2. Head(canal) = canal[1] /\ Len(canal) \in Nat \ {0}
  BY <1>1, CanalTail
<1>3. 1 \in 1 .. Len(canal)
  BY <1>2
<1> QED
  BY <1>2, <1>3 DEF Resizes

(* What RESIZE does to the sizes: p gets t bytes, out of those nobody has. *)
LEMMA ResizeTamanio ==
  ASSUME Resizes, Tamanios, AtenderResize
  PROVE  \/ UNCHANGED <<tablas, tamanio_proceso, espacio_disponible>>
         \/ \E p \in tablas \cap Pid : \E t \in Nat :
              /\ t - tamanio_proceso[p] <= espacio_disponible
              /\ tamanio_proceso' = [tamanio_proceso EXCEPT ![p] = t]
              /\ espacio_disponible' = espacio_disponible + tamanio_proceso[p] - t
              /\ UNCHANGED tablas
<1> DEFINE p == Head(canal).pid
           t == Head(canal).inst.valor
<1>1. p \in Pid /\ t \in Nat
  BY ResizeServido DEF AtenderResize, Atiende
<1>2. EnvioResize(p, t)
  BY DEF AtenderResize
<1> HIDE DEF p, t
<1>3. tamanio_proceso[p] \in Nat /\ espacio_disponible \in Nat
      /\ tamanio_proceso \in [Pid -> Nat]
  BY <1>1 DEF Tamanios
<1>4. CASE p \notin tablas
  BY <1>2, <1>4 DEF EnvioResize, Caer
<1>5. CASE p \in tablas
  <2>1. t - tamanio_proceso[p] <= espacio_disponible
    BY <1>1, <1>2, <1>3, <1>5 DEF EnvioResize, Rechazado
  <2>2. /\ tamanio_proceso' = [tamanio_proceso EXCEPT ![p] = t]
        /\ espacio_disponible' = espacio_disponible + tamanio_proceso[p] - t
        /\ UNCHANGED tablas
    <3>1. CASE t < tamanio_proceso[p]
      <4>1. tamanio_proceso' = [tamanio_proceso EXCEPT ![p] = @ - (tamanio_proceso[p] - t)]
            /\ espacio_disponible' = espacio_disponible + (tamanio_proceso[p] - t)
            /\ UNCHANGED tablas
        BY <1>2, <1>5, <3>1 DEF EnvioResize, EjecutarReduccion
      <4>2. tamanio_proceso[p] - (tamanio_proceso[p] - t) = t
        BY <1>1, <1>3
      <4> QED
        BY <1>1, <1>3, <4>1, <4>2
    <3>2. CASE ~(t < tamanio_proceso[p])
      <4>1. tamanio_proceso' = [tamanio_proceso EXCEPT ![p] = @ + (t - tamanio_proceso[p])]
            /\ espacio_disponible' = espacio_disponible - (t - tamanio_proceso[p])
            /\ UNCHANGED tablas
        BY <1>2, <1>5, <3>2 DEF EnvioResize, EjecutarAmpliacion
      <4>2. tamanio_proceso[p] + (t - tamanio_proceso[p]) = t
        BY <1>1, <1>3
      <4>3. \A a, b, c \in Nat : a - (b - c) = a + c - b
        OBVIOUS
      <4>4. espacio_disponible' = espacio_disponible + tamanio_proceso[p] - t
        BY <1>1, <1>3, <4>1, <4>3
      <4> QED
        BY <4>1, <4>2, <4>4
    <3> QED
      BY <3>1, <3>2
  <2> QED
    BY <1>1, <1>5, <2>1, <2>2
<1> QED
  BY <1>4, <1>5

(* crear_proceso, envio_resize and finalizar_proceso keep the account.     *)
LEMMA EspacioPaso ==
  ASSUME EspacioInd, Next
  PROVE  EspacioInd'
<1>0. Resizes /\ Tamanios /\ EspacioNoSeInventa
  BY DEF EspacioInd
<1>1. Resizes'
  BY <1>0, ResizesPaso
<1>2. /\ Bytes = Pares(tablas, tamanio_proceso)
      /\ Bytes' = Pares(tablas', tamanio_proceso')
  BY DEF Bytes, Pares
<1>3. /\ IsFiniteSet(tablas) /\ tablas \subseteq Pid
      /\ tamanio_proceso \in [Pid -> Nat] /\ espacio_disponible \in Nat
      /\ \A p \in tablas : tamanio_proceso[p] \in Nat
  BY <1>0 DEF Tamanios
<1>4. /\ espacio_disponible + Cardinality(Bytes) <= TAM_MEMORIA
      /\ Cardinality(Bytes) \in Nat
  BY <1>0, <1>2, <1>3, ParesFinitos DEF EspacioNoSeInventa
<1>5. CASE UNCHANGED <<tablas, tamanio_proceso, espacio_disponible>>
  BY <1>0, <1>1, <1>5 DEF EspacioInd, Tamanios, EspacioNoSeInventa, Bytes
<1>6. ASSUME UNCHANGED espacio_disponible, IsFiniteSet(tablas'), tablas' \subseteq Pid,
             tamanio_proceso' \in [Pid -> Nat],
             \A p \in tablas' : tamanio_proceso'[p] > 0 =>
                                p \in tablas /\ tamanio_proceso'[p] = tamanio_proceso[p]
      PROVE  EspacioInd'
  <2>1. \A p \in tablas' : tamanio_proceso'[p] \in Nat
    BY <1>6
  <2>2. Cardinality(Bytes') <= Cardinality(Bytes)
    BY <1>2, <1>3, <1>6, <2>1, ParesMenos
  <2>3. Cardinality(Bytes') \in Nat
    BY <1>2, <1>6, <2>1, ParesFinitos
  <2>4. espacio_disponible' + Cardinality(Bytes') <= TAM_MEMORIA
    BY <1>3, <1>4, <1>6, <2>2, <2>3, MemoriaAssumption
  <2> QED
    BY <1>1, <1>3, <1>6, <2>4 DEF EspacioInd, Tamanios, EspacioNoSeInventa
<1>7. ASSUME NEW p \in Pid, CrearProceso(p)
      PROVE  EspacioInd'
  <2>1. /\ tablas' = tablas \cup {p} /\ UNCHANGED espacio_disponible
        /\ tamanio_proceso' = [tamanio_proceso EXCEPT ![p] = 0]
    BY <1>7 DEF CrearProceso
  <2>2. IsFiniteSet(tablas')
    BY <1>3, <2>1, FS_AddElement
  <2> QED
    BY <1>3, <1>6, <1>7, <2>1, <2>2
<1>8. CASE QuitarTabla
  <2>1. PICK q : q = hilo_kernel.pid
    OBVIOUS
  <2>2. /\ tablas' = tablas \ {q} /\ UNCHANGED espacio_disponible
        /\ tamanio_proceso' = [tamanio_proceso EXCEPT ![q] = 0]
    BY <1>8, <2>1 DEF QuitarTabla
  <2>3. IsFiniteSet(tablas')
    BY <1>3, <2>2, FS_Subset
  <2> QED
    BY <1>3, <1>6, <2>2, <2>3
<1>9. ASSUME AtenderResize,
             NEW p \in tablas \cap Pid, NEW t \in Nat,
             t - tamanio_proceso[p] <= espacio_disponible,
             tamanio_proceso' = [tamanio_proceso EXCEPT ![p] = t],
             espacio_disponible' = espacio_disponible + tamanio_proceso[p] - t,
             UNCHANGED tablas
      PROVE  EspacioInd'
  <2>1. /\ tamanio_proceso' \in [Pid -> Nat] /\ tamanio_proceso'[p] = t
        /\ \A q \in tablas : tamanio_proceso'[q] \in Nat
        /\ \A q \in tablas : p # q => tamanio_proceso'[q] = tamanio_proceso[q]
    BY <1>3, <1>9
  <2>2. Cardinality(Bytes') = Cardinality(Bytes) - tamanio_proceso[p] + t
    <3>1. p \in tablas
      BY <1>9
    <3>2. Cardinality(Pares(tablas, tamanio_proceso'))
            = Cardinality(Pares(tablas, tamanio_proceso)) - tamanio_proceso[p]
              + tamanio_proceso'[p]
      BY <1>3, <2>1, <3>1, ParesCambia
    <3> QED
      BY <1>2, <1>9, <2>1, <3>2
  <2>3. espacio_disponible' \in Nat
    <3>1. tamanio_proceso[p] \in Nat
      BY <1>3
    <3>2. \A a, b, c \in Nat : a - b <= c => c + b - a \in Nat
      OBVIOUS
    <3> QED
      BY <1>3, <1>9, <3>1, <3>2
  <2>4. espacio_disponible' + Cardinality(Bytes') <= TAM_MEMORIA
    <3>1. tamanio_proceso[p] \in Nat
      BY <1>3
    <3>2. \A a, b, c, d \in Nat : (a + b - c) + (d - b + c) = a + d
      OBVIOUS
    <3>3. espacio_disponible' + Cardinality(Bytes') = espacio_disponible + Cardinality(Bytes)
      BY <1>3, <1>4, <1>9, <2>2, <3>1, <3>2
    <3> QED
      BY <1>4, <3>3
  <2> QED
    BY <1>1, <1>3, <1>9, <2>1, <2>3, <2>4 DEF EspacioInd, Tamanios, EspacioNoSeInventa
<1> QED
  BY <1>0, <1>5, <1>7, <1>8, <1>9, QuienCambiaTamanios, ResizeTamanio DEF Crear

(* The account at the start (memoria/src/global.c:28).                     *)
LEMMA EspacioInicial == Init => EspacioInd
<1> SUFFICES ASSUME Init PROVE EspacioInd
  OBVIOUS
<1> USE DEF Init, InicializarEstructuras
<1>1. Resizes
  <2>1. \E S : canal \in Seq(S)
    BY Vacia, Zenon
  <2>2. \A k \in 1 .. Len(canal) : FALSE
    BY Vacia, Zenon
  <2> QED
    BY <2>1, <2>2 DEF Resizes
<1>2. Tamanios
  <2>1. IsFiniteSet(tablas) /\ tablas \subseteq Pid
    BY FS_EmptySet
  <2> QED
    BY <2>1, MemoriaAssumption DEF Tamanios
<1>3. EspacioNoSeInventa
  <2>1. Bytes = {}
    BY DEF Bytes
  <2>2. Cardinality(Bytes) = 0
    BY <2>1, FS_EmptySet
  <2>3. espacio_disponible = TAM_MEMORIA
    OBVIOUS
  <2> HIDE DEF Init, InicializarEstructuras
  <2>4. espacio_disponible + Cardinality(Bytes) <= TAM_MEMORIA
    BY <2>2, <2>3, MemoriaAssumption
  <2> QED
    BY <2>4 DEF EspacioNoSeInventa
<1> QED
  BY <1>1, <1>2, <1>3 DEF EspacioInd

(* envio_resize takes from espacio_disponible what it promises             *)
(* (envio_resize.c:23, 34, 78), and nobody gives back more than it had:    *)
(* memoria never promises a byte twice, for any programs and whatever is   *)
(* finished, and whenever.                                                 *)
THEOREM EspacioVerdadero == Spec => []EspacioNoSeInventa
<1>1. EspacioInd /\ [Next]_vars => EspacioInd'
  <2>1. ASSUME EspacioInd, UNCHANGED vars PROVE EspacioInd'
    <3>1. UNCHANGED <<tablas, tamanio_proceso, espacio_disponible, pcb, paso, canal>>
      BY <2>1 DEF vars, memoriaVars, cpuVars
    <3>2. Resizes' /\ Tamanios'
      BY <2>1, <3>1 DEF EspacioInd, Resizes, Tamanios
    <3>3. EspacioNoSeInventa'
      BY <2>1, <3>1 DEF EspacioInd, EspacioNoSeInventa, Bytes
    <3> QED
      BY <3>2, <3>3 DEF EspacioInd
  <2> QED
    BY <2>1, EspacioPaso
<1>2. EspacioInd => EspacioNoSeInventa
  BY DEF EspacioInd
<1> QED
  BY EspacioInicial, <1>1, <1>2, PTL DEF Spec

-----------------------------------------------------------------------------
(* The TLB.                                                                *)
Entrada == [pid : Pid \cup {SIN_PID}, pagina : Int, marco : Int, is_free : BOOLEAN,
            llegada_fifo : Int, last_time_lru : Int]

(* An entry never used has the pid -1; a used one, a process, a page and a *)
(* frame.                                                                  *)
EntradaBuena(e, c, a) ==
  /\ e \in Entrada
  /\ e.is_free => e = EntradaLibre
  /\ ~e.is_free => e.pid \in Pid /\ e.pagina >= 0 /\ e.marco >= 0
  /\ e.llegada_fifo < c \/ a = "LRU"

TlbInd ==
  /\ \E n \in Entradas : DOMAIN tlb = 1 .. n
  /\ tlb = [i \in DOMAIN tlb |-> tlb[i]]
  /\ \A i \in DOMAIN tlb : EntradaBuena(tlb[i], contador_fifo, algoritmo_tlb)
  /\ contador_fifo \in Nat
  /\ algoritmo_tlb \in {"FIFO", "LRU"}

(* A set of list positions has a first one.                                *)
LEMMA HayPrimera ==
  ASSUME NEW S, S \subseteq Nat, S # {}
  PROVE  PrimeraDe(S) \in S
<1> DEFINE R == OpToRel(<, Nat)
<1>1. \A x, y \in Nat : y < x => <<y, x>> \in R
  BY DEF OpToRel
<1>2. IsWellFoundedOn(R, Nat)
  BY NatLessThanWellFounded
<1> HIDE DEF R
<1>3. PICK x \in S : \A y \in S : ~(<<y, x>> \in R)
  BY <1>2, WFMin
<1>4. \A y \in S : x <= y
  <2> SUFFICES ASSUME NEW y \in S PROVE x <= y
    OBVIOUS
  <2>1. x \in Nat /\ y \in Nat /\ ~(y < x)
    BY <1>1, <1>3
  <2> QED
    BY <2>1
<1> QED
  BY <1>3, <1>4 DEF PrimeraDe

(* IniciarEntradaTlb fills it with unused entries (cpu.c).                 *)
LEMMA TlbInicial == IniciarEntradaTlb => TlbInd
<1> SUFFICES ASSUME IniciarEntradaTlb PROVE TlbInd
  OBVIOUS
<1>1. PICK n \in Entradas : tlb = [i \in 1 .. n |-> EntradaLibre]
  BY DEF IniciarEntradaTlb
<1>2. contador_fifo = 0 /\ algoritmo_tlb \in {"FIFO", "LRU"}
  BY DEF IniciarEntradaTlb
<1>3. EntradaBuena(EntradaLibre, 0, algoritmo_tlb)
  BY DEF EntradaBuena, EntradaLibre, Entrada
<1> QED
  BY <1>1, <1>2, <1>3 DEF TlbInd

(* The access updates the times of the entries, and makes none.            *)
LEMMA ActualizarTlb ==
  ASSUME NEW t, \E n \in Entradas : DOMAIN t = 1 .. n, t = [i \in DOMAIN t |-> t[i]],
         contador_fifo \in Nat, algoritmo_tlb \in {"FIFO", "LRU"},
         \A i \in DOMAIN t : EntradaBuena(t[i], contador_fifo + 1, algoritmo_tlb),
         Actualizar(t)
  PROVE  TlbInd'
<1>1. CASE algoritmo_tlb = "FIFO"
  <2>1. tlb' = t /\ contador_fifo' = contador_fifo + 1 /\ algoritmo_tlb' = "FIFO"
    BY <1>1 DEF Actualizar
  <2> QED
    BY <1>1, <2>1 DEF TlbInd
<1>2. CASE algoritmo_tlb = "LRU"
  <2>1. tlb' = [i \in DOMAIN t |-> IF t[i].is_free THEN t[i]
                                   ELSE [t[i] EXCEPT !.last_time_lru = @ + 1]]
        /\ contador_fifo' = contador_fifo /\ algoritmo_tlb' = "LRU"
    BY <1>2 DEF Actualizar
  <2>2. ASSUME NEW e, EntradaBuena(e, contador_fifo + 1, "LRU"), ~e.is_free
        PROVE  EntradaBuena([e EXCEPT !.last_time_lru = @ + 1], contador_fifo, "LRU")
    BY <2>2 DEF EntradaBuena, Entrada
  <2>3. ASSUME NEW e, EntradaBuena(e, contador_fifo + 1, "LRU")
        PROVE  EntradaBuena(e, contador_fifo, "LRU")
    BY <2>3 DEF EntradaBuena
  <2>4. \A i \in DOMAIN t : EntradaBuena(tlb'[i], contador_fifo, "LRU")
    BY <1>2, <2>1, <2>2, <2>3
  <2> QED
    BY <2>1, <2>4 DEF TlbInd
<1> QED
  BY <1>1, <1>2

(* consultar_tlb touches the entry it found (cpu.c:1076).                  *)
LEMMA ConsultaTlb ==
  ASSUME TlbInd, NEW p \in Pid, NEW pag, ConsultarTlb(p, pag)
  PROVE  TlbInd' /\ MarcoEnTlb(p, pag) \in Int /\ MarcoEnTlb(p, pag) >= 0
<1> DEFINE i == PrimeraDe(Coincide(p, pag))
           t == [tlb EXCEPT ![i].last_time_lru = 0]
<1>1. PICK n \in Entradas : DOMAIN tlb = 1 .. n
  BY DEF TlbInd
<1>2. Coincide(p, pag) \subseteq Nat /\ Coincide(p, pag) # {}
  <2>1. n \in Nat
    BY TlbAssumption
  <2> QED
    BY <1>1, <2>1 DEF Coincide, ConsultarTlb
<1>3. i \in DOMAIN tlb /\ tlb[i].pid = p
  <2>1. i \in Coincide(p, pag)
    BY <1>2, HayPrimera
  <2> QED
    BY <2>1 DEF Coincide
<1>4. EntradaBuena(tlb[i], contador_fifo, algoritmo_tlb) /\ ~tlb[i].is_free
  <2>1. EntradaLibre.pid = SIN_PID
    BY DEF EntradaLibre
  <2>2. EntradaBuena(tlb[i], contador_fifo, algoritmo_tlb)
    BY <1>3 DEF TlbInd
  <2> QED
    BY <1>3, <2>1, <2>2, MmuAssumption DEF EntradaBuena
<1>5. Actualizar(t)
  BY DEF ConsultarTlb
<1> HIDE DEF i
<1>6. DOMAIN t = DOMAIN tlb /\ t = [j \in DOMAIN t |-> t[j]]
      /\ t[i] = [tlb[i] EXCEPT !.last_time_lru = 0]
      /\ \A j \in DOMAIN tlb : j # i => t[j] = tlb[j]
  BY <1>3
<1>7. contador_fifo \in Nat /\ algoritmo_tlb \in {"FIFO", "LRU"}
  BY DEF TlbInd
<1>8. ASSUME NEW e, EntradaBuena(e, contador_fifo, algoritmo_tlb)
      PROVE  EntradaBuena(e, contador_fifo + 1, algoritmo_tlb)
  BY <1>7, <1>8 DEF EntradaBuena, Entrada
<1>9. ASSUME NEW e, EntradaBuena(e, contador_fifo, algoritmo_tlb), ~e.is_free
      PROVE  EntradaBuena([e EXCEPT !.last_time_lru = 0], contador_fifo, algoritmo_tlb)
  BY <1>9 DEF EntradaBuena, Entrada
<1> HIDE DEF t
<1>10. \A j \in DOMAIN t : EntradaBuena(t[j], contador_fifo + 1, algoritmo_tlb)
  BY <1>4, <1>6, <1>8, <1>9 DEF TlbInd
<1>11. TlbInd'
  BY <1>1, <1>5, <1>6, <1>7, <1>10, ActualizarTlb
<1>12. MarcoEnTlb(p, pag) \in Int /\ MarcoEnTlb(p, pag) >= 0
  BY <1>4 DEF MarcoEnTlb, EntradaBuena, Entrada, i
<1> QED
  BY <1>11, <1>12

(* insertar_tlb writes an entry, wherever it is (cpu.c:1100).              *)
LEMMA InsercionTlb ==
  ASSUME TlbInd, NEW p \in Pid, NEW pag \in Nat, NEW marco \in Nat,
         InsertarTlb(p, pag, marco)
  PROVE  TlbInd'
<1> DEFINE i == Lugar
           e == [pid |-> p, pagina |-> pag, marco |-> marco, is_free |-> FALSE,
                 llegada_fifo |-> contador_fifo, last_time_lru |-> 0]
           t == [tlb EXCEPT ![i] = e]
<1>1. Actualizar(t)
  BY DEF InsertarTlb
<1>2. contador_fifo \in Nat /\ algoritmo_tlb \in {"FIFO", "LRU"}
  BY DEF TlbInd
<1>3. EntradaBuena(e, contador_fifo + 1, algoritmo_tlb)
  BY <1>2 DEF EntradaBuena, Entrada
<1>4. ASSUME NEW d, EntradaBuena(d, contador_fifo, algoritmo_tlb)
      PROVE  EntradaBuena(d, contador_fifo + 1, algoritmo_tlb)
  BY <1>2, <1>4 DEF EntradaBuena, Entrada
<1> HIDE DEF i, e
<1>5. DOMAIN t = DOMAIN tlb /\ t = [j \in DOMAIN t |-> t[j]]
      /\ \A j \in DOMAIN tlb : t[j] = e \/ t[j] = tlb[j]
  OBVIOUS
<1> HIDE DEF t
<1>6. \A j \in DOMAIN t : EntradaBuena(t[j], contador_fifo + 1, algoritmo_tlb)
  BY <1>3, <1>4, <1>5 DEF TlbInd
<1>7. \E n \in Entradas : DOMAIN t = 1 .. n
  BY <1>5 DEF TlbInd
<1> QED
  BY <1>1, <1>2, <1>5, <1>6, <1>7, ActualizarTlb

(* What the type of the TLB says.                                          *)
LEMMA TlbTipo == TlbInd => TlbTypeOK
<1> SUFFICES ASSUME TlbInd PROVE TlbTypeOK
  OBVIOUS
<1>1. ASSUME NEW e \in Entrada
      PROVE  DOMAIN e = DOMAIN EntradaLibre
  BY DEF Entrada, EntradaLibre
<1>2. \A i \in DOMAIN tlb : DOMAIN tlb[i] = DOMAIN EntradaLibre
  BY <1>1 DEF TlbInd, EntradaBuena
<1> QED
  BY <1>2 DEF TlbInd, TlbTypeOK, EntradaBuena

-----------------------------------------------------------------------------
(* The types of Mmu.                                                       *)
Pasos == {"ciclo", "instruccion", "traducir", "marco", "dato", "resize"}

(* Behind the request of the CPU there is at most the write it did not     *)
(* wait for, and nothing once it is answered.                              *)
CanalCorto ==
  /\ Len(canal) <= 2
  /\ paso # "instruccion" => Len(canal) <= 1
  /\ paso = "traducir" \/ respuesta # NADA \/ hilo_cpu.op # "espera" => canal = <<>>

(* The CPU translates the addresses of an instruction, one after another.  *)
EnCurso ==
  /\ paso \in {"traducir", "marco"} =>
       /\ inst \in Instrucciones /\ Len(traducidas) <= Len(inst.dirs)
       /\ \E S : traducidas \in Seq(S)
  /\ paso = "marco" => /\ Len(traducidas) < Len(inst.dirs)
                       /\ respuesta # NADA => respuesta.valor \in Marco
  /\ paso = "instruccion" => ejecutadas < MaxInstrucciones

(* The page it asks for is that of the address it translates.              *)
Preguntado ==
  \A k \in 1 .. Len(canal) :
    canal[k].op = "OBTENER_MARCO" => canal[k].inst = inst /\ canal[k].t = traducidas

Trabajo == paso \in Pasos /\ CanalCorto /\ EnCurso /\ Preguntado

MmuInd ==
  /\ Inv /\ EspacioInd /\ TlbInd /\ Trabajo
  /\ hilo_cpu \in Hilo /\ caida \in BOOLEAN /\ DOMAIN espacio_usuario = Direccion
  /\ \A p \in Pid : estado[p] = "cpu" => pcb = p
  /\ ejecutadas \in 0 .. MaxInstrucciones

(* A request on an empty connection.                                       *)
LEMMA CanalDeUno ==
  ASSUME NEW m, canal = <<>>, canal' = Append(canal, m)
  PROVE  Len(canal') = 1 /\ canal'[1] = m /\ 1 .. Len(canal') = {1}
<1>1. canal' = Append(<<>>, m)
  OBVIOUS
<1>2. Append(<<>>, m) = <<m>>
  OBVIOUS
<1> QED
  BY <1>1, <1>2

(* A question is the last request.                                         *)
LEMMA PreguntaUltima ==
  ASSUME CanalInv, canal # <<>>, Head(canal).op \notin Escrituras
  PROVE  Len(canal) = 1 /\ Tail(canal) = <<>>
<1>1. PICK S : canal \in Seq(S)
  BY DEF CanalInv
<1>2. /\ Tail(canal) \in Seq(S) /\ Len(Tail(canal)) = Len(canal) - 1 /\ Len(canal) \in Nat \ {0}
      /\ Head(canal) = canal[1]
  BY <1>1, CanalTail
<1>3. 1 \in 1 .. Len(canal)
  BY <1>2
<1>4. Len(canal) = 1
  BY <1>2, <1>3 DEF CanalInv
<1>5. Tail(canal) \in Seq(S) /\ Len(Tail(canal)) = 0
  BY <1>2, <1>4
<1>6. \A s \in Seq(S) : Len(s) = 0 => s = <<>>
  BY EmptySeq
<1> QED
  BY <1>4, <1>5, <1>6, Zenon

(* The address under translation and its page.                             *)
LEMMA PaginaTipo ==
  ASSUME inst \in Instrucciones, \E S : traducidas \in Seq(S),
         Len(traducidas) < Len(inst.dirs)
  PROVE  /\ Len(traducidas) \in Nat /\ Len(traducidas) + 1 \in DOMAIN inst.dirs
         /\ Logica \in Nat /\ Pagina \in Nat
<1>1. inst.dirs \in Seq(Nat)
  BY MmuAssumption
<1>2. Len(traducidas) \in Nat /\ Len(inst.dirs) \in Nat /\ DOMAIN inst.dirs = 1 .. Len(inst.dirs)
  BY <1>1, LenProperties
<1>3. Len(traducidas) + 1 \in 1 .. Len(inst.dirs)
  BY <1>2
<1>4. Logica \in Nat
  BY <1>1, <1>2, <1>3 DEF Logica
<1>5. \A d \in Nat : \A t \in Nat \ {0} : d \div t \in Nat
  OBVIOUS
<1> QED
  BY <1>2, <1>3, <1>4, <1>5, MemoriaAssumption DEF Pagina

(* One more translated address.                                            *)
LEMMA UnaMas ==
  ASSUME \E S : traducidas \in Seq(S), NEW f, traducidas' = Traducida(f)
  PROVE  Len(traducidas') = Len(traducidas) + 1 /\ \E S : traducidas' \in Seq(S)
<1>1. PICK S : traducidas \in Seq(S)
  OBVIOUS
<1>2. PICK e : traducidas' = Append(traducidas, e)
  BY DEF Traducida
<1>3. Append(traducidas, e) \in Seq(S \cup {e})
      /\ Len(Append(traducidas, e)) = Len(traducidas) + 1
  BY <1>1, CanalAppend
<1> QED
  BY <1>2, <1>3, Zenon

(* Each step of the CPU, from fetch to the end of the instruction          *)
(* (cpu.c:220-475).                                                        *)
LEMMA TrabajoCpu ==
  ASSUME MmuInd, Cpu
  PROVE  Trabajo'
<1>0. /\ CpuInv /\ CanalInv /\ CanalCorto /\ EnCurso /\ Preguntado
      /\ hilo_cpu \in Hilo /\ \E S : canal \in Seq(S)
  BY DEF MmuInd, Inv, Control, Trabajo, CanalInv
<1>1. UNCHANGED hilo_cpu
  BY DEF Cpu, Fetch, Decodificar, TlbHit, ObtenerElMarco, RecibirMarco, EnviarMovIn,
         EnviarEscritura, EnviarAInterfaz, RecibirDato, RecibirResize, memoriaVars
<1>2. Len(<<>>) = 0 /\ 1 .. Len(<<>>) = {}
  BY Vacia, EmptySeq
<1>3. ASSUME canal = <<>>, UNCHANGED canal
      PROVE  Preguntado' /\ Len(canal') = 0 /\ canal' = <<>>
  BY <1>2, <1>3 DEF Preguntado
<1>4. ASSUME NEW m, canal = <<>>, canal' = Append(canal, m),
             m.op = "OBTENER_MARCO" => m.inst = inst' /\ m.t = traducidas'
      PROVE  Preguntado' /\ Len(canal') = 1
  BY <1>4, CanalDeUno DEF Preguntado
<1>5. CASE Fetch
  <2> USE DEF Fetch
  <2>1. PICK S : canal \in Seq(S)
    BY <1>0
  <2>2. /\ Len(canal') = Len(canal) + 1 /\ Len(canal) \in Nat
        /\ \A k \in 1 .. Len(canal) : canal'[k] = canal[k]
        /\ canal'[Len(canal) + 1] = Mensaje("INSTRUCCION")
    BY <1>5, <2>1, CanalAppend
  <2>3. CanalCorto'
    <3>1. paso = "ciclo" /\ paso' = "instruccion" /\ UNCHANGED respuesta
      BY <1>5
    <3>2. respuesta' = NADA /\ hilo_cpu'.op = "espera"
      BY <1>0, <1>1, <3>1 DEF CpuInv
    <3> QED
      BY <1>0, <2>2, <3>1, <3>2 DEF CanalCorto
  <2>4. EnCurso'
    BY <1>5 DEF EnCurso, kernelVars
  <2>5. Preguntado'
    <3>1. \A k \in 1 .. Len(canal') : k \in 1 .. Len(canal) \/ k = Len(canal) + 1
      BY <2>2
    <3>2. UNCHANGED <<inst, traducidas>>
      BY <1>5
    <3> QED
      BY <1>0, <2>2, <3>1, <3>2 DEF Preguntado, Mensaje
  <2> QED
    BY <1>5, <2>3, <2>4, <2>5 DEF Trabajo, Pasos
<1>6. CASE Decodificar
  <2>1. canal = <<>> /\ respuesta' = NADA /\ paso = "instruccion" /\ hilo_cpu.op = "espera"
    BY <1>0, <1>6 DEF Decodificar, CanalCorto, CpuInv
  <2>2. PICK i \in Instrucciones :
          /\ inst' = (IF i.op = "EXIT" THEN NADA ELSE i)
          /\ \/ /\ canal' = Append(canal, [Mensaje("RESIZE") EXCEPT !.inst = i])
                /\ paso' = "resize"
             \/ paso' = "ciclo" /\ UNCHANGED canal
             \/ i.op # "EXIT" /\ paso' = "traducir" /\ UNCHANGED canal
    BY <1>6 DEF Decodificar, Programa
  <2>3. traducidas' = <<>>
    BY <1>6 DEF Decodificar
  <2>4. /\ Preguntado'
        /\ \/ Len(canal') = 1 /\ paso' = "resize"
           \/ Len(canal') = 0 /\ canal' = <<>>
    <3>1. Mensaje("RESIZE").op = "RESIZE" /\ [Mensaje("RESIZE") EXCEPT !.inst = i].op = "RESIZE"
      BY DEF Mensaje
    <3>2. CASE canal' = Append(canal, [Mensaje("RESIZE") EXCEPT !.inst = i]) /\ paso' = "resize"
      <4>1. PICK m : m = [Mensaje("RESIZE") EXCEPT !.inst = i]
        OBVIOUS
      <4>2. m.op # "OBTENER_MARCO" /\ canal' = Append(canal, m)
        BY <3>1, <3>2, <4>1
      <4>3. Preguntado' /\ Len(canal') = 1
        BY <1>4, <2>1, <4>2
      <4> QED
        BY <3>2, <4>3
    <3>3. CASE UNCHANGED canal
      <4>1. Preguntado' /\ Len(canal') = 0 /\ canal' = <<>>
        BY <1>3, <2>1, <3>3
      <4> QED
        BY <4>1
    <3> QED
      BY <2>2, <3>2, <3>3
  <2>5. CanalCorto'
    <3>1. respuesta' = NADA /\ hilo_cpu'.op = "espera"
      BY <1>1, <2>1
    <3>2. CASE Len(canal') = 1 /\ paso' = "resize"
      BY <3>1, <3>2 DEF CanalCorto
    <3>3. CASE Len(canal') = 0 /\ canal' = <<>>
      BY <3>3 DEF CanalCorto
    <3> QED
      BY <2>4, <3>2, <3>3
  <2>6. EnCurso'
    <3>1. i.dirs \in Seq(Nat)
      BY MmuAssumption
    <3>2. Len(traducidas') <= Len(i.dirs) /\ \E S : traducidas' \in Seq(S)
      BY <1>2, <2>3, <3>1, Vacia
    <3> QED
      BY <2>2, <3>2 DEF EnCurso
  <2> QED
    BY <2>2, <2>4, <2>5, <2>6 DEF Trabajo, Pasos
<1>7. CASE TlbHit \/ RecibirMarco
  <2>1. canal = <<>> /\ UNCHANGED canal /\ paso' = "traducir"
    BY <1>0, <1>7 DEF TlbHit, RecibirMarco, FaltaTraducir, CanalCorto
  <2>2. /\ inst \in Instrucciones /\ UNCHANGED inst /\ Len(traducidas) < Len(inst.dirs)
        /\ \E S : traducidas \in Seq(S) /\ \E f : traducidas' = Traducida(f)
    BY <1>0, <1>7 DEF TlbHit, RecibirMarco, FaltaTraducir, EnCurso
  <2>3. Len(traducidas') = Len(traducidas) + 1 /\ \E S : traducidas' \in Seq(S)
    BY <2>2, UnaMas
  <2>4. Len(traducidas) \in Nat /\ Len(inst.dirs) \in Nat
    BY <2>2, MmuAssumption
  <2>5. EnCurso'
    BY <2>1, <2>2, <2>3, <2>4 DEF EnCurso
  <2>6. Preguntado' /\ canal' = <<>> /\ Len(canal') = 0
    BY <1>3, <2>1
  <2> QED
    BY <2>1, <2>5, <2>6 DEF Trabajo, Pasos, CanalCorto
<1>8. CASE ObtenerElMarco
  <2>1. canal = <<>> /\ paso = "traducir" /\ respuesta = NADA /\ hilo_cpu.op = "espera"
    BY <1>0, <1>8 DEF ObtenerElMarco, FaltaTraducir, CanalCorto, CpuInv
  <2>2. /\ canal' = Append(canal, Mensaje("OBTENER_MARCO")) /\ paso' = "marco"
        /\ UNCHANGED <<inst, traducidas, respuesta>>
    BY <1>8 DEF ObtenerElMarco
  <2>3. Preguntado' /\ Len(canal') = 1
    BY <1>4, <2>1, <2>2 DEF Mensaje
  <2>4. CanalCorto'
    BY <1>1, <2>1, <2>2, <2>3 DEF CanalCorto
  <2>5. EnCurso'
    BY <1>0, <1>8, <2>1, <2>2 DEF EnCurso, ObtenerElMarco, FaltaTraducir
  <2> QED
    BY <2>2, <2>3, <2>4, <2>5 DEF Trabajo, Pasos
<1>9. CASE EnviarMovIn \/ EnviarEscritura
  <2>1. canal = <<>> /\ respuesta = NADA /\ hilo_cpu.op = "espera" /\ UNCHANGED respuesta
    BY <1>0, <1>9 DEF EnviarMovIn, EnviarEscritura, Traducido, CanalCorto, CpuInv
  <2>2. PICK op \in {"MOV_IN", "MOV_OUT", "COPY_STRING"} : canal' = Append(canal, Mensaje(op))
    BY <1>9 DEF EnviarMovIn, EnviarEscritura
  <2>3. paso' \in {"dato", "ciclo"}
    BY <1>9 DEF EnviarMovIn, EnviarEscritura
  <2>4. Mensaje(op).op # "OBTENER_MARCO"
    BY DEF Mensaje
  <2>5. Preguntado' /\ Len(canal') = 1
    BY <1>4, <2>1, <2>2, <2>4
  <2>6. CanalCorto' /\ EnCurso'
    BY <1>1, <2>1, <2>3, <2>5 DEF CanalCorto, EnCurso
  <2> QED
    BY <2>3, <2>5, <2>6 DEF Trabajo, Pasos
<1>10. CASE EnviarAInterfaz \/ RecibirDato \/ RecibirResize
  <2>1. canal = <<>> /\ UNCHANGED canal
    BY <1>0, <1>10 DEF EnviarAInterfaz, RecibirDato, RecibirResize, Traducido, CanalCorto
  <2>2. paso' = "ciclo"
    BY <1>10 DEF EnviarAInterfaz, RecibirDato, RecibirResize
  <2>3. Preguntado' /\ Len(canal') = 0 /\ canal' = <<>>
    BY <1>3, <2>1
  <2> QED
    BY <2>2, <2>3 DEF Trabajo, Pasos, CanalCorto, EnCurso
<1> QED
  BY <1>5, <1>6, <1>7, <1>8, <1>9, <1>10 DEF Cpu

(* The thread of memoria answers the question it was asked, and only a     *)
(* page request is answered with a frame (manda_marco.c, memoria.c:36-83). *)
LEMMA TrabajoHilo ==
  ASSUME MmuInd, HiloCpu
  PROVE  Trabajo'
<1>0. /\ CpuInv /\ CanalInv /\ CanalCorto /\ EnCurso /\ Preguntado /\ MarcosTipos
      /\ paso \in Pasos /\ hilo_cpu \in Hilo
  BY DEF MmuInd, Inv, Control, Trabajo
<1>1. UNCHANGED <<pcb, paso, inst, traducidas, ejecutadas>>
  <2>1. RestoCpu
    BY DEF HiloCpu, EnviarInstrucciones, AtenderMarco, AtenderMovIn, AtenderMovOut,
           AtenderCopyString, AtenderResize, RechazarResize, ContestarResize, SeguirMemoria
  <2> QED
    BY <2>1 DEF RestoCpu, cpuVars, kernelVars
<1>2. Len(<<>>) = 0 /\ 1 .. Len(<<>>) = {}
  BY Vacia, EmptySeq
<1>3. ASSUME canal' = <<>>, paso = "marco" /\ respuesta' # NADA => respuesta'.valor \in Marco
      PROVE  Trabajo'
  <2>1. Len(canal') = 0 /\ 1 .. Len(canal') = {}
    BY <1>2, <1>3
  <2>2. CanalCorto' /\ Preguntado'
    BY <1>3, <2>1 DEF CanalCorto, Preguntado
  <2>3. EnCurso'
    BY <1>0, <1>1, <1>3 DEF EnCurso
  <2> QED
    BY <1>0, <1>1, <2>2, <2>3 DEF Trabajo
<1>4. ASSUME UNCHANGED <<canal, respuesta>>, hilo_cpu.op = "espera" => hilo_cpu'.op = "espera"
      PROVE  Trabajo'
  <2>1. CanalCorto' /\ Preguntado' /\ EnCurso'
    BY <1>0, <1>1, <1>4 DEF CanalCorto, Preguntado, EnCurso
  <2> QED
    BY <1>0, <1>1, <2>1 DEF Trabajo
<1>5. CASE EnviarInstrucciones \/ AtenderMovIn \/ RechazarResize
  <2>1. /\ canal # <<>> /\ canal' = Tail(canal)
        /\ Head(canal).op \in {"INSTRUCCION", "MOV_IN", "RESIZE"}
    BY <1>5 DEF EnviarInstrucciones, AtenderMovIn, RechazarResize, Atiende
  <2>2. Head(canal).op \notin Escrituras
    BY <2>1 DEF Escrituras
  <2>3. canal' = <<>> /\ <<Head(canal).op, paso>> \in Preguntas
    BY <1>0, <2>1, <2>2, PreguntaUltima, CanalSaca
  <2>4. paso # "marco"
    BY <2>1, <2>3 DEF Preguntas
  <2> QED
    BY <1>3, <2>3, <2>4
<1>6. CASE AtenderMarco
  <2>1. /\ canal # <<>> /\ canal' = Tail(canal) /\ Head(canal).op = "OBTENER_MARCO"
    BY <1>6 DEF AtenderMarco, Atiende
  <2>2. Head(canal).op \notin Escrituras
    BY <2>1 DEF Escrituras
  <2>3. canal' = <<>> /\ <<Head(canal).op, paso>> \in Preguntas /\ Head(canal).pid = pcb
    BY <1>0, <2>1, <2>2, PreguntaUltima, CanalSaca
  <2>4. pcb \in Pid /\ paginas[pcb] \in Seq(Marco)
    BY <1>0, <2>1, <2>3 DEF Preguntas, CpuInv, MarcosTipos
  <2>5. UNCHANGED respuesta \/ \E pag : TieneMarco(pcb, pag)
                                        /\ Contesta("marco", MandarMarco(pcb, pag))
    BY <1>6, <2>3 DEF AtenderMarco
  <2>6. ASSUME NEW pag, TieneMarco(pcb, pag) PROVE MandarMarco(pcb, pag) \in Marco
    <3>1. Len(paginas[pcb]) \in Nat /\ pag \in 0 .. Len(paginas[pcb]) - 1
      BY <2>4, <2>6 DEF TieneMarco
    <3>2. pag + 1 \in 1 .. Len(paginas[pcb])
      BY <3>1
    <3> QED
      BY <2>4, <3>2 DEF MandarMarco
  <2>7. paso = "marco" /\ respuesta' # NADA => respuesta'.valor \in Marco
    BY <1>0, <2>5, <2>6 DEF Contesta, Respuesta, EnCurso
  <2> QED
    BY <1>3, <2>3, <2>7
<1>7. CASE AtenderResize
  <2>1. /\ canal # <<>> /\ canal' = Tail(canal) /\ Head(canal).op = "RESIZE"
        /\ UNCHANGED respuesta
    BY <1>7 DEF AtenderResize, Atiende
  <2>2. Head(canal).op \notin Escrituras
    BY <2>1 DEF Escrituras
  <2>3. canal' = <<>>
    BY <1>0, <2>1, <2>2, PreguntaUltima
  <2> QED
    BY <1>0, <1>3, <2>1, <2>3 DEF EnCurso
<1>8. CASE AtenderMovOut \/ AtenderCopyString
  <2>1. /\ canal # <<>> /\ canal' = Tail(canal) /\ UNCHANGED <<respuesta, hilo_cpu>>
    BY <1>8 DEF AtenderMovOut, AtenderCopyString, Atiende, Escribir, CopyString
  <2>2. PICK S : canal \in Seq(S)
    BY <1>0 DEF CanalInv
  <2>3. /\ Len(canal') = Len(canal) - 1 /\ Len(canal) \in Nat \ {0}
        /\ \A k \in 1 .. Len(canal) - 1 : canal'[k] = canal[k + 1]
    BY <2>1, <2>2, CanalTail
  <2>4. CanalCorto'
    BY <1>0, <1>1, <2>1, <2>3 DEF CanalCorto
  <2>5. \A k \in 1 .. Len(canal') : k \in 1 .. Len(canal) - 1 /\ k + 1 \in 1 .. Len(canal)
    BY <2>3
  <2>6. Preguntado'
    BY <1>0, <1>1, <2>3, <2>5 DEF Preguntado
  <2>7. EnCurso'
    BY <1>0, <1>1, <2>1 DEF EnCurso
  <2> QED
    BY <1>0, <1>1, <2>4, <2>6, <2>7 DEF Trabajo
<1>9. CASE ContestarResize
  <2>1. hilo_cpu.op # "espera" /\ UNCHANGED canal
    BY <1>9 DEF ContestarResize, TerminarResize
  <2>2. canal' = <<>> /\ paso = "resize"
    BY <1>0, <2>1 DEF CanalCorto, CpuInv
  <2> QED
    BY <1>3, <2>2
<1>10. CASE SeguirMemoria
  <2>1. UNCHANGED <<canal, respuesta>>
    BY <1>10 DEF SeguirMemoria
  <2>2. hilo_cpu.op = "espera" => UNCHANGED hilo_cpu
    BY <1>10 DEF SeguirMemoria, AsignarMarco, LiberarMarco, LiberarMarcos, QuitarTabla
  <2> QED
    BY <1>4, <2>1, <2>2
<1> QED
  BY <1>5, <1>6, <1>7, <1>8, <1>9, <1>10 DEF HiloCpu

(* The kernel and the interfaces leave the instruction alone.              *)
LEMMA TrabajoResto ==
  ASSUME MmuInd, NEW p,
         Desalojar \/ Kernel(p) \/ StdinRead(p) \/ StdoutWrite(p)
  PROVE  Trabajo'
<1>1. UNCHANGED <<paso, inst, traducidas, canal, respuesta, ejecutadas, hilo_cpu>>
  BY DEF Desalojar, Kernel, Crear, Despachar, Matar, Finalizar, StdinRead, StdoutWrite,
         Devolver, CrearProceso, FinalizarProceso, Caer, Escribir, cpuVars, memoriaVars
<1>2. CanalCorto' /\ Preguntado' /\ EnCurso' /\ paso' \in Pasos
  BY <1>1 DEF MmuInd, Trabajo, CanalCorto, Preguntado, EnCurso
<1> QED
  BY <1>2 DEF Trabajo

(* The pages of some bytes (envio_resize.c:29, 72).                        *)
LEMMA CantPaginasNat == \A b \in Nat : CantPaginas(b) \in Nat
<1>1. \A x \in Nat : \A t \in Nat \ {0} : x \div t \in Nat
  OBVIOUS
<1>2. \A b \in Nat : b + TAM_PAGINA - 1 \in Nat
  BY MemoriaAssumption
<1> QED
  BY <1>1, <1>2, MemoriaAssumption DEF CantPaginas

(* The RESIZE the thread of the CPU is in has a process and pages to go.   *)
LEMMA HiloCpuTipo ==
  ASSUME MmuInd, Next
  PROVE  hilo_cpu' \in Hilo
<1>0. hilo_cpu \in Hilo /\ Resizes /\ Tamanios
  BY DEF MmuInd, EspacioInd
<1>1. CASE AtenderResize
  <2>1. PICK p, t : p = Head(canal).pid /\ t = Head(canal).inst.valor
    OBVIOUS
  <2>2. p \in Pid /\ t \in Nat
    BY <1>0, <1>1, <2>1, ResizeServido DEF AtenderResize, Atiende
  <2>3. EnvioResize(p, t)
    BY <1>1, <2>1 DEF AtenderResize
  <2>4. tamanio_proceso[p] \in Nat
    BY <1>0, <2>2 DEF Tamanios
  <2>5. UNCHANGED hilo_cpu \/
        \E o \in {"amplia", "reduce"} : \E b \in Nat :
          hilo_cpu' = [op |-> o, pid |-> p, n |-> CantPaginas(b)]
    <3>1. CASE t < tamanio_proceso[p] /\ p \in tablas
      <4>1. tamanio_proceso[p] - t \in Nat
        BY <2>2, <2>4, <3>1
      <4> QED
        BY <2>3, <3>1, <4>1 DEF EnvioResize, EjecutarReduccion
    <3>2. CASE ~(t < tamanio_proceso[p]) /\ p \in tablas
      <4>1. t - tamanio_proceso[p] \in Nat
        BY <2>2, <2>4, <3>2
      <4> QED
        BY <2>3, <3>2, <4>1 DEF EnvioResize, EjecutarAmpliacion
    <3>3. CASE p \notin tablas
      BY <2>3, <3>3 DEF EnvioResize, Caer
    <3> QED
      BY <3>1, <3>2, <3>3
  <2> QED
    BY <1>0, <2>2, <2>5, CantPaginasNat DEF Hilo
<1>2. CASE SeguirMemoria \/ ContestarResize
  <2>1. \/ UNCHANGED hilo_cpu
        \/ hilo_cpu.n > 0 /\ hilo_cpu' = [hilo_cpu EXCEPT !.n = @ - 1]
        \/ hilo_cpu' = HiloLibre
    BY <1>2 DEF SeguirMemoria, ContestarResize, AsignarMarco, LiberarMarco, LiberarMarcos,
                QuitarTabla, TerminarResize, Caer
  <2> QED
    BY <1>0, <2>1 DEF Hilo, HiloLibre
<1>3. CASE ~(AtenderResize \/ SeguirMemoria \/ ContestarResize)
  <2>1. CASE Cpu
    BY <1>0, <2>1 DEF Cpu, Fetch, Decodificar, TlbHit, ObtenerElMarco, RecibirMarco, EnviarMovIn,
         EnviarEscritura, EnviarAInterfaz, RecibirDato, RecibirResize, memoriaVars
  <2>2. CASE HiloCpu
    BY <1>0, <1>3, <2>2 DEF HiloCpu, EnviarInstrucciones, AtenderMarco, AtenderMovIn,
         AtenderMovOut, AtenderCopyString, RechazarResize, Escribir, CopyString, Caer, memoriaVars
  <2>3. CASE Desalojar
    BY <1>0, <2>3 DEF Desalojar, memoriaVars
  <2>4. CASE \E p \in Pid : Kernel(p) \/ StdinRead(p) \/ StdoutWrite(p)
    BY <1>0, <2>4 DEF Kernel, Crear, Despachar, Matar, Finalizar, CrearProceso, FinalizarProceso,
         Caer, Escribir, StdinRead, StdoutWrite, memoriaVars
  <2> QED
    BY <2>1, <2>2, <2>3, <2>4 DEF Next
<1> QED
  BY <1>1, <1>2, <1>3

(* The TLB, whichever step is taken: only the CPU uses it.                 *)
LEMMA TlbPaso ==
  ASSUME MmuInd, Next
  PROVE  TlbInd'
<1>0. TlbInd /\ CpuInv /\ EnCurso
  BY DEF MmuInd, Inv, Control, Trabajo
<1>1. CASE TlbHit
  <2>1. pcb \in Pid /\ ConsultarTlb(pcb, Pagina)
    BY <1>0, <1>1 DEF TlbHit, FaltaTraducir, CpuInv
  <2> QED
    BY <1>0, <2>1, ConsultaTlb
<1>2. CASE RecibirMarco
  <2>1. CASE UNCHANGED tlbVars
    BY <1>0, <2>1 DEF TlbInd, tlbVars
  <2>2. CASE InsertarTlb(pcb, Pagina, respuesta.valor)
    <3>1. pcb \in Pid /\ respuesta.valor \in Marco
      BY <1>0, <1>2 DEF RecibirMarco, CpuInv, EnCurso
    <3>2. respuesta.valor \in Nat
      BY <3>1 DEF Marco
    <3>3. Pagina \in Nat
      BY <1>0, <1>2, PaginaTipo DEF RecibirMarco, EnCurso
    <3> QED
      BY <1>0, <2>2, <3>1, <3>2, <3>3, InsercionTlb
  <2> QED
    BY <1>2, <2>1, <2>2 DEF RecibirMarco
<1>3. CASE ~(TlbHit \/ RecibirMarco)
  <2>1. UNCHANGED tlbVars
    <3>1. CASE Cpu
      BY <1>3, <3>1 DEF Cpu, Fetch, Decodificar, ObtenerElMarco, EnviarMovIn,
           EnviarEscritura, EnviarAInterfaz, RecibirDato, RecibirResize
    <3>2. CASE HiloCpu
      BY <3>2 DEF HiloCpu, EnviarInstrucciones, AtenderMarco, AtenderMovIn, AtenderMovOut,
           AtenderCopyString, AtenderResize, RechazarResize, ContestarResize, SeguirMemoria, RestoCpu
    <3>3. CASE Desalojar
      BY <3>3 DEF Desalojar
    <3>4. CASE \E p \in Pid : Kernel(p) \/ StdinRead(p) \/ StdoutWrite(p)
      BY <3>4 DEF Kernel, Crear, Despachar, Matar, Finalizar, StdinRead, StdoutWrite, Devolver
    <3> QED
      BY <3>1, <3>2, <3>3, <3>4 DEF Next
  <2> QED
    BY <1>0, <2>1 DEF TlbInd, tlbVars
<1> QED
  BY <1>1, <1>2, <1>3

(* The rest: who is in the CPU, the bytes, the server and the bound.       *)
LEMMA RestoPaso ==
  ASSUME MmuInd, Next
  PROVE  /\ caida' \in BOOLEAN /\ DOMAIN espacio_usuario' = Direccion
         /\ \A p \in Pid : estado'[p] = "cpu" => pcb' = p
         /\ ejecutadas' \in 0 .. MaxInstrucciones
<1>0. /\ caida \in BOOLEAN /\ DOMAIN espacio_usuario = Direccion
      /\ \A p \in Pid : estado[p] = "cpu" => pcb = p
      /\ ejecutadas \in 0 .. MaxInstrucciones
      /\ CpuInv /\ EnCurso /\ estado \in [Pid -> EstadoMmu]
  BY DEF MmuInd, Inv, Control, MarcosTipos, Trabajo
<1>1. caida' \in BOOLEAN /\ DOMAIN espacio_usuario' = Direccion
  <2>1. CASE Cpu
    BY <1>0, <2>1 DEF Cpu, Fetch, Decodificar, TlbHit, ObtenerElMarco, RecibirMarco, EnviarMovIn,
         EnviarEscritura, EnviarAInterfaz, RecibirDato, RecibirResize, memoriaVars
  <2>2. CASE HiloCpu
    BY <1>0, <2>2 DEF HiloCpu, EnviarInstrucciones, AtenderMarco, AtenderMovIn, AtenderMovOut,
         AtenderCopyString, AtenderResize, RechazarResize, ContestarResize, TerminarResize,
         SeguirMemoria, AsignarMarco, LiberarMarco, LiberarMarcos, QuitarTabla, EnvioResize,
         Escribir, CopyString, Caer, memoriaVars
  <2>3. CASE Desalojar
    BY <1>0, <2>3 DEF Desalojar, memoriaVars
  <2>4. CASE \E p \in Pid : Kernel(p) \/ StdinRead(p) \/ StdoutWrite(p)
    BY <1>0, <2>4 DEF Kernel, Crear, Despachar, Matar, Finalizar, CrearProceso, FinalizarProceso,
         Caer, Escribir, StdinRead, StdoutWrite, memoriaVars
  <2> QED
    BY <2>1, <2>2, <2>3, <2>4 DEF Next
<1>2. \A p \in Pid : estado'[p] = "cpu" => pcb' = p
  <2>1. CASE Cpu
    <3>1. \/ UNCHANGED <<estado, pcb>>
          \/ \E e \in {"terminando", "interfaz"} : estado' = [estado EXCEPT ![pcb] = e]
      BY <2>1 DEF Cpu, Fetch, Decodificar, TlbHit, ObtenerElMarco, RecibirMarco, EnviarMovIn,
           EnviarEscritura, EnviarAInterfaz, RecibirDato, RecibirResize, kernelVars
    <3> QED
      BY <1>0, <3>1
  <2>2. CASE HiloCpu
    <3>1. RestoCpu
      BY <2>2 DEF HiloCpu, EnviarInstrucciones, AtenderMarco, AtenderMovIn, AtenderMovOut,
           AtenderCopyString, AtenderResize, RechazarResize, ContestarResize, SeguirMemoria
    <3> QED
      BY <1>0, <3>1 DEF RestoCpu, cpuVars, kernelVars
  <2>3. CASE Desalojar
    BY <1>0, <2>3 DEF Desalojar
  <2>4. ASSUME NEW q \in Pid, Despachar(q)
        PROVE  \A p \in Pid : estado'[p] = "cpu" => pcb' = p
    BY <1>0, <2>4, MemoriaAssumption DEF Despachar
  <2>5. ASSUME NEW q \in Pid,
               Crear(q) \/ Matar(q) \/ Finalizar(q) \/ StdinRead(q) \/ StdoutWrite(q)
        PROVE  \A p \in Pid : estado'[p] = "cpu" => pcb' = p
    <3>1. UNCHANGED pcb /\ (\/ UNCHANGED estado
                            \/ \E e \in {"listo", "terminando", "fin"} :
                                 estado' = [estado EXCEPT ![q] = e])
      BY <2>5 DEF Crear, Matar, Finalizar, StdinRead, StdoutWrite, Devolver, cpuVars
    <3> QED
      BY <1>0, <3>1
  <2> QED
    BY <2>1, <2>2, <2>3, <2>4, <2>5 DEF Next, Kernel
<1>3. ejecutadas' \in 0 .. MaxInstrucciones
  <2>1. UNCHANGED ejecutadas \/ (paso = "instruccion" /\ ejecutadas' = ejecutadas + 1)
    <3>1. CASE Cpu
      BY <3>1 DEF Cpu, Fetch, Decodificar, TlbHit, ObtenerElMarco, RecibirMarco, EnviarMovIn,
           EnviarEscritura, EnviarAInterfaz, RecibirDato, RecibirResize, kernelVars
    <3>2. CASE HiloCpu
      BY <3>2 DEF HiloCpu, EnviarInstrucciones, AtenderMarco, AtenderMovIn, AtenderMovOut,
           AtenderCopyString, AtenderResize, RechazarResize, ContestarResize, SeguirMemoria,
           RestoCpu, kernelVars
    <3>3. CASE Desalojar
      BY <3>3 DEF Desalojar
    <3>4. CASE \E p \in Pid : Kernel(p) \/ StdinRead(p) \/ StdoutWrite(p)
      BY <3>4 DEF Kernel, Crear, Despachar, Matar, Finalizar, StdinRead, StdoutWrite, Devolver
    <3> QED
      BY <3>1, <3>2, <3>3, <3>4 DEF Next
  <2> QED
    BY <1>0, <2>1, MmuAssumption DEF EnCurso
<1> QED
  BY <1>1, <1>2, <1>3

(* The start of the system.                                                *)
LEMMA MmuInicial == Init => MmuInd
<1> SUFFICES ASSUME Init PROVE MmuInd
  OBVIOUS
<1>1. Inv /\ EspacioInd /\ TlbInd
  <2>1. TlbInd
    BY TlbInicial DEF Init
  <2> QED
    BY <2>1, InitInv, EspacioInicial
<1>2. Trabajo
  <2>1. canal = <<>> /\ respuesta = NADA /\ paso = "ciclo"
    BY DEF Init
  <2>2. Len(canal) = 0 /\ 1 .. Len(canal) = {}
    BY <2>1, Vacia, EmptySeq
  <2>3. CanalCorto
    BY <2>1, <2>2 DEF CanalCorto
  <2>4. EnCurso
    BY <2>1 DEF EnCurso
  <2>5. Preguntado
    BY <2>2 DEF Preguntado
  <2> QED
    BY <2>1, <2>3, <2>4, <2>5 DEF Trabajo, Pasos
<1>3. hilo_cpu \in Hilo /\ caida \in BOOLEAN /\ DOMAIN espacio_usuario = Direccion
  BY MemoriaAssumption DEF Init, InicializarEstructuras, HiloLibre, Hilo
<1>4. (\A p \in Pid : estado[p] = "cpu" => pcb = p) /\ ejecutadas \in 0 .. MaxInstrucciones
  <2>1. estado = [p \in Pid |-> "sin crear"] /\ ejecutadas = 0
    BY DEF Init
  <2>2. \A p \in Pid : estado[p] # "cpu"
    BY <2>1
  <2>3. \A m \in Nat : 0 \in 0 .. m
    OBVIOUS
  <2>4. ejecutadas \in 0 .. MaxInstrucciones
    BY <2>1, <2>3, MmuAssumption, Zenon
  <2> QED
    BY <2>2, <2>4
<1> QED
  BY <1>1, <1>2, <1>3, <1>4 DEF MmuInd

(* Every step.                                                             *)
LEMMA MmuPaso ==
  ASSUME Matable, MmuInd, [Next]_vars
  PROVE  MmuInd'
<1>0. Inv /\ EspacioInd
  BY DEF MmuInd
<1>1. Inv'
  BY <1>0, NextInv
<1>2. CASE Next
  <2>1. EspacioInd'
    BY <1>0, <1>2, EspacioPaso
  <2>2. Trabajo'
    <3>1. ASSUME NEW p, Desalojar \/ Kernel(p) \/ StdinRead(p) \/ StdoutWrite(p)
          PROVE  Trabajo'
      BY <3>1, TrabajoResto
    <3> QED
      BY <1>2, <3>1, TrabajoCpu, TrabajoHilo DEF Next
  <2> QED
    BY <1>1, <1>2, <2>1, <2>2, TlbPaso, HiloCpuTipo, RestoPaso DEF MmuInd
<1>3. CASE UNCHANGED vars
  <2>1. UNCHANGED <<memoriaVars, tlbVars, cpuVars, kernelVars, canal, respuesta>>
    BY <1>3 DEF vars
  <2>2. EspacioInd'
    BY <1>0, <2>1 DEF EspacioInd, Resizes, Tamanios, EspacioNoSeInventa, Bytes, memoriaVars, cpuVars
  <2>3. TlbInd'
    BY <2>1 DEF MmuInd, TlbInd, tlbVars
  <2>4. Trabajo'
    BY <2>1 DEF MmuInd, Trabajo, CanalCorto, EnCurso, Preguntado, cpuVars, kernelVars, memoriaVars
  <2> QED
    BY <1>1, <2>1, <2>2, <2>3, <2>4 DEF MmuInd, memoriaVars, cpuVars, kernelVars
<1> QED
  BY <1>2, <1>3

(* Every variable of Mmu keeps its type, and in particular the CPU never   *)
(* has two questions on its connection, an answer never waits for nobody   *)
(* (cpu.c:255-263) and a table only holds frames that exist, for any       *)
(* programs, memory and TLB.                                               *)
THEOREM TiposDeMmu ==
  ASSUME Matable
  PROVE  Spec => []MmuTypeOK
<1>1. MmuInd => MmuTypeOK
  <2> SUFFICES ASSUME MmuInd PROVE MmuTypeOK
    OBVIOUS
  <2>1. MarcosTipos /\ CpuInv /\ Tamanios /\ CanalCorto
    BY DEF MmuInd, Inv, Control, EspacioInd, Trabajo
  <2>2. MemoriaTypeOK
    BY <2>1 DEF MmuInd, MemoriaTypeOK, MarcosTipos, Tamanios
  <2>3. TlbTypeOK
    BY TlbTipo DEF MmuInd
  <2>4. respuesta # NADA => canal = <<>> /\ pcb # NADIE
    BY <2>1 DEF CpuInv, CanalCorto
  <2>5. \A p \in Pid : estado[p] = "cpu" <=> pcb = p
    BY <2>1, MemoriaAssumption DEF MmuInd, CpuInv
  <2>6. /\ pcb \in Pid \cup {NADIE} /\ Len(canal) <= 2 /\ estado \in [Pid -> EstadoMmu]
        /\ paso \in {"ciclo", "instruccion", "traducir", "marco", "dato", "resize"}
    BY <2>1 DEF CpuInv, CanalCorto, MarcosTipos, MmuInd, Trabajo, Pasos
  <2> QED
    BY <2>2, <2>3, <2>4, <2>5, <2>6 DEF MmuInd, MmuTypeOK
<1>2. Matable
  OBVIOUS
<1>3. MmuInd /\ [Next]_vars => MmuInd'
  BY <1>2, MmuPaso
<1> QED
  BY <1>1, <1>3, MmuInicial, PTL DEF Spec

-----------------------------------------------------------------------------
(* The server does not die (envio_resize.c:54-100, manda_marco.c).         *)

(* Nobody finishes the process that runs, nor one that is not there.       *)
MatableVivo == {"sin crear", "cpu", "fin"} \cap Matables = {}
(* The programs ask for whole pages, and an access has at least one byte.  *)
Ordenados ==
  \A i \in Instrucciones :
    /\ i.op = "RESIZE" => \E k \in Nat : i.valor = k * TAM_PAGINA
    /\ i.dirs # <<>> => i.n >= 1

(* The pages that a RESIZE still owes a process, or is to take from it.    *)
PendientesDe(p) ==
  IF hilo_cpu.pid # p THEN 0
  ELSE IF hilo_cpu.op = "amplia" THEN hilo_cpu.n
  ELSE IF hilo_cpu.op = "reduce" THEN 0 - hilo_cpu.n
  ELSE 0
Prometidas == [p \in Pid |-> Len(paginas[p]) + PendientesDe(p)]

(* A process has all its life a table, and its size in pages.              *)
ConTabla ==
  \A p \in Pid : estado[p] \in {"listo", "cpu", "interfaz", "terminando"} => p \in tablas
Paginados ==
  \A p \in Pid : Prometidas[p] \in Nat /\ tamanio_proceso[p] = Prometidas[p] * TAM_PAGINA
(* There are frames for all the pages promised.                            *)
Alcanzan ==
  espacio_disponible + TAM_PAGINA * Cardinality(Pares(tablas, Prometidas)) <= TAM_MEMORIA
(* A RESIZE on its way is of whole pages.                                  *)
Multiplos ==
  \E S : /\ canal \in Seq(S)
         /\ \A m \in S : m.op = "RESIZE" => \E k \in Nat : m.inst.valor = k * TAM_PAGINA
(* The instruction in the CPU stays inside its process.                    *)
Dentro ==
  paso \in {"traducir", "marco"} =>
    \A k \in DOMAIN inst.dirs : inst.dirs[k] + inst.n <= tamanio_proceso[pcb]

PagInd == MmuInd /\ ConTabla /\ Paginados /\ Alcanzan /\ Multiplos /\ Dentro

(* Pages and bytes.                                                        *)
LEMMA PorPagina ==
  /\ \A a, b \in Int : /\ (a + b) * TAM_PAGINA = a * TAM_PAGINA + b * TAM_PAGINA
                       /\ (a - b) * TAM_PAGINA = a * TAM_PAGINA - b * TAM_PAGINA
                       /\ a * TAM_PAGINA \in Int /\ TAM_PAGINA * a = a * TAM_PAGINA
  /\ \A a \in Nat : a * TAM_PAGINA \in Nat
  /\ \A a, b \in Nat : a * TAM_PAGINA < b * TAM_PAGINA => a < b
<1>1. TAM_PAGINA \in Nat /\ TAM_PAGINA > 0
  BY MemoriaAssumption
<1>2. \A a, b \in Int : /\ (a + b) * TAM_PAGINA = a * TAM_PAGINA + b * TAM_PAGINA
                        /\ (a - b) * TAM_PAGINA = a * TAM_PAGINA - b * TAM_PAGINA
                        /\ a * TAM_PAGINA \in Int /\ TAM_PAGINA * a = a * TAM_PAGINA
  BY <1>1
<1>3. \A a \in Nat : a * TAM_PAGINA \in Nat
  BY <1>1
<1>4. \A a, b \in Nat : a * TAM_PAGINA < b * TAM_PAGINA => a < b
  BY <1>1
<1> QED
  BY <1>2, <1>3, <1>4, Zenon

(* RESIZE by whole pages touches as many pages (envio_resize.c:38, 80).    *)
LEMMA CantPaginasExacta == \A k \in Nat : CantPaginas(k * TAM_PAGINA) = k
<1> PICK t : t = TAM_PAGINA
  OBVIOUS
<1>1. t \in Nat /\ t > 0
  BY MemoriaAssumption
<1>2. \A k \in Nat : (k * t + (t - 1)) \div t = k
  BY <1>1
<1>3. \A k \in Nat : k * t + t - 1 = k * t + (t - 1)
  BY <1>1
<1> QED
  BY <1>2, <1>3 DEF CantPaginas

(* An address below the size is in a page of the table.                    *)
LEMMA PaginaDentro ==
  \A d, k \in Nat : d < k * TAM_PAGINA => d \div TAM_PAGINA \in 0 .. k - 1
<1> PICK t : t = TAM_PAGINA
  OBVIOUS
<1>1. t \in Nat /\ t > 0
  BY MemoriaAssumption
<1>2. \A d \in Nat : d \div t \in Nat /\ (d \div t) * t <= d
  BY <1>1
<1>3. \A q, k \in Nat : q >= k => q * t >= k * t
  BY <1>1
<1>4. \A d, k \in Nat : d < k * t => d \div t < k
  <2> SUFFICES ASSUME NEW d \in Nat, NEW k \in Nat, d < k * t, ~(d \div t < k) PROVE FALSE
    OBVIOUS
  <2>1. (d \div t) * t >= k * t
    BY <1>2, <1>3
  <2> QED
    BY <1>1, <1>2, <2>1
<1>5. \A q, k \in Nat : q < k => q \in 0 .. k - 1
  OBVIOUS
<1> QED
  BY <1>2, <1>4, <1>5

(* The frames that fit in memoria, and no more (memoria/src/global.c:28).  *)
LEMMA CuantosMarcos ==
  /\ IsFiniteSet(Marco) /\ Cardinality(Marco) \in Nat
  /\ TAM_PAGINA * (Cardinality(Marco) + 1) > TAM_MEMORIA
<1> PICK t, m, n : t = TAM_PAGINA /\ m = TAM_MEMORIA /\ n = m \div t
  OBVIOUS
<1>1. t \in Nat /\ t > 0 /\ m \in Nat
  BY MemoriaAssumption
<1>2. n \in Nat /\ m < n * t + t
  BY <1>1
<1>3. Marco = 0 .. n - 1
  BY DEF Marco
<1>4. IsFiniteSet(0 .. n - 1) /\ Cardinality(0 .. n - 1) = n
  <2>1. 0 \in Int /\ n - 1 \in Int
    BY <1>2
  <2>2. IsFiniteSet(0 .. n - 1)
        /\ Cardinality(0 .. n - 1) = IF 0 > n - 1 THEN 0 ELSE n - 1 - 0 + 1
    BY <2>1, FS_Interval
  <2> QED
    BY <1>2, <2>2
<1>5. t * (n + 1) = n * t + t
  BY <1>1, <1>2
<1> QED
  BY <1>2, <1>3, <1>4, <1>5

(* A RESIZE leaves the CPU with the operand of its instruction (cpu.c:416).*)
LEMMA MultiplosPaso ==
  ASSUME Ordenados, Multiplos, Next
  PROVE  Multiplos'
<1> DEFINE Entera(m) == m.op = "RESIZE" => \E k \in Nat : m.inst.valor = k * TAM_PAGINA
<1>1. PICK S : canal \in Seq(S) /\ \A m \in S : Entera(m)
  BY DEF Multiplos
<1>2. ASSUME NEW m, Entera(m), canal' = Append(canal, m)
      PROVE  Multiplos'
  <2>1. canal' \in Seq(S \cup {m})
    BY <1>1, <1>2, CanalAppend
  <2>2. \A x \in S \cup {m} : Entera(x)
    BY <1>1, <1>2
  <2> QED
    BY <2>1, <2>2 DEF Multiplos
<1>3. ASSUME canal # <<>>, canal' = Tail(canal)
      PROVE  Multiplos'
  <2>1. canal' \in Seq(S)
    BY <1>1, <1>3, CanalTail
  <2> QED
    BY <1>1, <2>1 DEF Multiplos
<1>4. \A op \in {"INSTRUCCION", "OBTENER_MARCO", "MOV_IN", "MOV_OUT", "COPY_STRING"} :
        Entera(Mensaje(op))
  BY DEF Mensaje
<1>5. \A i \in Instrucciones : i.op = "RESIZE" => Entera([Mensaje("RESIZE") EXCEPT !.inst = i])
  BY DEF Mensaje, Ordenados
<1>6. UNCHANGED canal => Multiplos'
  BY <1>1 DEF Multiplos
<1> HIDE DEF Entera
<1> QED
  BY <1>2, <1>3, <1>4, <1>5, <1>6, CanalPaso

(* While the CPU is busy, only RESIZE changes the size of its process.     *)
LEMMA TamanioQuieto ==
  ASSUME MmuInd, Next, paso # "ciclo", ~AtenderResize
  PROVE  pcb \in Pid /\ tamanio_proceso'[pcb] = tamanio_proceso[pcb]
<1>0. CpuInv /\ KernelInv /\ Tamanios
  BY DEF MmuInd, Inv, Control, EspacioInd
<1>1. pcb \in Pid /\ estado[pcb] = "cpu"
  BY <1>0 DEF CpuInv
<1>2. CASE UNCHANGED tamanio_proceso
  BY <1>1, <1>2
<1>3. ASSUME NEW p \in Pid, Crear(p)
      PROVE  tamanio_proceso'[pcb] = tamanio_proceso[pcb]
  BY <1>0, <1>1, <1>3 DEF Crear, CrearProceso, Tamanios
<1>4. CASE QuitarTabla
  BY <1>0, <1>1, <1>4 DEF QuitarTabla, KernelInv, Tamanios
<1> QED
  BY <1>1, <1>2, <1>3, <1>4, QuienCambiaTamanios

(* mmu_traducir works on the addresses that decode accepted (cpu.c:809).   *)
LEMMA DentroPaso ==
  ASSUME MmuInd, Dentro, Next
  PROVE  Dentro'
<1>1. CASE Decodificar
  <2>1. UNCHANGED tamanio_proceso
    BY <1>1 DEF Decodificar, memoriaVars
  <2>2. PICK i \in Programa(pcb) :
          /\ inst' = (IF i.op = "EXIT" THEN NADA ELSE i)
          /\ \/ i.op = "RESIZE" /\ paso' = "resize"
             \/ i.op = "EXIT" /\ paso' = "ciclo"
             \/ i.op # "EXIT" /\ UNCHANGED pcb
    BY <1>1 DEF Decodificar
  <2>3. CASE i.op # "EXIT" /\ UNCHANGED pcb
    <3>1. \A k \in DOMAIN i.dirs : i.dirs[k] + i.n <= tamanio_proceso[pcb]
      BY <2>2 DEF Programa, EnRango
    <3> QED
      BY <2>1, <2>2, <2>3, <3>1 DEF Dentro
  <2>4. CASE ~(i.op # "EXIT" /\ UNCHANGED pcb)
    BY <2>2, <2>4 DEF Dentro
  <2> QED
    BY <2>3, <2>4
<1>2. CASE ~Decodificar
  <2> SUFFICES ASSUME paso' \in {"traducir", "marco"}
               PROVE  \A k \in DOMAIN inst'.dirs :
                        inst'.dirs[k] + inst'.n <= tamanio_proceso'[pcb']
    BY DEF Dentro
  <2>0. CpuInv /\ CanalInv
    BY DEF MmuInd, Inv, Control
  <2>1. paso \in {"traducir", "marco"} /\ UNCHANGED <<pcb, inst>>
    <3>1. CASE Cpu
      BY <1>2, <3>1 DEF Cpu, Fetch, TlbHit, ObtenerElMarco, RecibirMarco, EnviarMovIn,
           EnviarEscritura, EnviarAInterfaz, RecibirDato, RecibirResize, FaltaTraducir
    <3>2. CASE HiloCpu
      <4>1. RestoCpu
        BY <3>2 DEF HiloCpu, EnviarInstrucciones, AtenderMarco, AtenderMovIn, AtenderMovOut,
             AtenderCopyString, AtenderResize, RechazarResize, ContestarResize, SeguirMemoria
      <4> QED
        BY <4>1 DEF RestoCpu, cpuVars
    <3>3. CASE Desalojar
      BY <3>3 DEF Desalojar
    <3>4. CASE \E p \in Pid : Kernel(p) \/ StdinRead(p) \/ StdoutWrite(p)
      BY <2>0, <3>4 DEF Kernel, Crear, Despachar, Matar, Finalizar, StdinRead, StdoutWrite,
           Devolver, cpuVars, CpuInv
    <3> QED
      BY <3>1, <3>2, <3>3, <3>4 DEF Next
  <2>2. ~AtenderResize
    BY <2>0, <2>1, CanalSaca DEF AtenderResize, Atiende, Escrituras, Preguntas
  <2>3. tamanio_proceso'[pcb] = tamanio_proceso[pcb]
    BY <2>1, <2>2, TamanioQuieto
  <2> QED
    BY <2>1, <2>3 DEF Dentro
<1> QED
  BY <1>1, <1>2

(* A process has a table from crear_proceso until it ends.                 *)
LEMMA ConTablaPaso ==
  ASSUME MatableVivo, MmuInd, ConTabla, Next
  PROVE  ConTabla'
<1> DEFINE Con == {"listo", "cpu", "interfaz", "terminando"}
<1>0. CpuInv /\ KernelInv /\ estado \in [Pid -> EstadoMmu]
  BY DEF MmuInd, Inv, Control, MarcosTipos
<1>1. ASSUME UNCHANGED tablas, NEW q \in Pid, estado[q] \in Con, NEW e,
             estado' = [estado EXCEPT ![q] = e]
      PROVE  ConTabla'
  BY <1>0, <1>1 DEF ConTabla
<1>2. ASSUME UNCHANGED <<tablas, estado>>
      PROVE  ConTabla'
  BY <1>2 DEF ConTabla
<1>3. CASE Cpu
  <2>1. UNCHANGED tablas
    BY <1>3 DEF Cpu, Fetch, Decodificar, TlbHit, ObtenerElMarco, RecibirMarco, EnviarMovIn,
         EnviarEscritura, EnviarAInterfaz, RecibirDato, RecibirResize, memoriaVars
  <2>2. UNCHANGED estado \/ (paso # "ciclo" /\ \E e : estado' = [estado EXCEPT ![pcb] = e])
    BY <1>3 DEF Cpu, Fetch, Decodificar, TlbHit, ObtenerElMarco, RecibirMarco, EnviarMovIn,
         EnviarEscritura, EnviarAInterfaz, RecibirDato, RecibirResize, Traducido, kernelVars
  <2>3. paso # "ciclo" => pcb \in Pid /\ estado[pcb] \in Con
    BY <1>0 DEF CpuInv
  <2> QED
    BY <1>1, <1>2, <2>1, <2>2, <2>3
<1>4. CASE HiloCpu
  <2>1. UNCHANGED estado
    BY <1>4 DEF HiloCpu, EnviarInstrucciones, AtenderMarco, AtenderMovIn, AtenderMovOut,
         AtenderCopyString, AtenderResize, RechazarResize, ContestarResize, SeguirMemoria,
         RestoCpu, kernelVars
  <2>2. CASE QuitarTabla
    BY <1>0, <2>1, <2>2 DEF ConTabla, QuitarTabla, KernelInv
  <2>3. CASE ~QuitarTabla
    <3>1. UNCHANGED tablas
      BY <1>4, <2>3 DEF HiloCpu, EnviarInstrucciones, AtenderMarco, AtenderMovIn, AtenderMovOut,
           AtenderCopyString, AtenderResize, RechazarResize, ContestarResize, TerminarResize,
           SeguirMemoria, AsignarMarco, LiberarMarco, LiberarMarcos, EnvioResize,
           Escribir, CopyString, Caer, memoriaVars
    <3> QED
      BY <1>2, <2>1, <3>1
  <2> QED
    BY <2>2, <2>3
<1>5. CASE Desalojar
  <2>1. pcb \in Pid /\ estado[pcb] \in Con /\ UNCHANGED tablas
        /\ estado' = [estado EXCEPT ![pcb] = "listo"]
    BY <1>0, <1>5 DEF Desalojar, CpuInv, memoriaVars
  <2> QED
    BY <1>1, <2>1
<1>6. ASSUME NEW p \in Pid, Crear(p)
      PROVE  ConTabla'
  BY <1>0, <1>6 DEF Crear, CrearProceso, ConTabla
<1>7. ASSUME NEW p \in Pid, Despachar(p) \/ Matar(p) \/ Finalizar(p)
      PROVE  ConTabla'
  <2>1. UNCHANGED tablas /\ \E e : estado' = [estado EXCEPT ![p] = e]
    BY <1>7 DEF Despachar, Matar, Finalizar, FinalizarProceso, Caer, memoriaVars
  <2>2. estado[p] \in Con
    BY <1>0, <1>7 DEF Despachar, Matar, Finalizar, MatableVivo, EstadoMmu
  <2> QED
    BY <1>1, <2>1, <2>2
<1>8. ASSUME NEW p \in Pid, StdinRead(p) \/ StdoutWrite(p)
      PROVE  ConTabla'
  <2>1. UNCHANGED tablas
    BY <1>8 DEF StdinRead, StdoutWrite, Escribir, memoriaVars
  <2>2. UNCHANGED estado \/ (estado[p] \in Con /\ estado' = [estado EXCEPT ![p] = "listo"])
    BY <1>8 DEF StdinRead, StdoutWrite, Devolver
  <2> QED
    BY <1>1, <1>2, <2>1, <2>2
<1> QED
  BY <1>3, <1>4, <1>5, <1>6, <1>7, <1>8 DEF Next, Kernel

(* What each step does to the pages promised.                              *)
CambiaUno(p, k) ==
  /\ UNCHANGED tablas
  /\ Prometidas' = [Prometidas EXCEPT ![p] = k]
  /\ tamanio_proceso' = [tamanio_proceso EXCEPT ![p] = k * TAM_PAGINA]
  /\ espacio_disponible' = espacio_disponible + tamanio_proceso[p] - k * TAM_PAGINA

(* RESIZE promises what was asked for (envio_resize.c:4).                  *)
LEMMA ResizePromete ==
  ASSUME MmuInd, ConTabla, Paginados, Multiplos, AtenderResize
  PROVE  \E p \in tablas : \E k \in Nat : CambiaUno(p, k)
<1> PICK p, v : p = Head(canal).pid /\ v = Head(canal).inst.valor
  OBVIOUS
<1>0. /\ CpuInv /\ CanalInv /\ MarcosTipos /\ Resizes /\ Tamanios /\ hilo_cpu \in Hilo
  BY DEF MmuInd, Inv, Control, EspacioInd
<1>1. canal # <<>> /\ Head(canal).op = "RESIZE" /\ canal' = Tail(canal)
      /\ hilo_cpu.op = "espera" /\ EnvioResize(p, v)
  BY DEF AtenderResize, Atiende
<1>2. p = pcb /\ p \in Pid /\ p \in tablas
  <2>1. p = pcb /\ paso = "resize"
    BY <1>0, <1>1, CanalSaca DEF Escrituras, Preguntas
  <2> QED
    BY <1>0, <2>1 DEF CpuInv, ConTabla
<1>3. PICK k \in Nat : v = k * TAM_PAGINA
  <2>1. PICK S : canal \in Seq(S)
                 /\ \A m \in S : m.op = "RESIZE" => \E k \in Nat : m.inst.valor = k * TAM_PAGINA
    BY DEF Multiplos
  <2>2. Head(canal) \in S
    BY <1>1, <2>1
  <2> QED
    BY <1>1, <2>1, <2>2
<1> PICK j : j = Prometidas[p]
  OBVIOUS
<1>4. j \in Nat /\ tamanio_proceso[p] = j * TAM_PAGINA /\ j = Len(paginas[p])
      /\ \A q \in Pid : Prometidas[q] = Len(paginas[q])
  <2>1. \A q \in Pid : PendientesDe(q) = 0
    BY <1>1 DEF PendientesDe
  <2>2. \A q \in Pid : Len(paginas[q]) \in Nat
    BY <1>0 DEF MarcosTipos
  <2> QED
    BY <1>2, <2>1, <2>2 DEF Paginados, Prometidas
<1>5. UNCHANGED <<tablas, paginas>>
  BY <1>1 DEF EnvioResize, Caer
<1>6. /\ j * TAM_PAGINA \in Nat /\ k * TAM_PAGINA \in Nat
      /\ (j - k) * TAM_PAGINA = j * TAM_PAGINA - k * TAM_PAGINA
      /\ (k - j) * TAM_PAGINA = k * TAM_PAGINA - j * TAM_PAGINA
  <2>1. j \in Nat /\ k \in Nat /\ j \in Int /\ k \in Int
    BY <1>4
  <2> QED
    BY <2>1, PorPagina, Zenon
<1> PICK a, b : a = j * TAM_PAGINA /\ b = k * TAM_PAGINA
  OBVIOUS
<1>7. a \in Nat /\ b \in Nat /\ tamanio_proceso[p] = a /\ v = b
      /\ (j - k) * TAM_PAGINA = a - b /\ (k - j) * TAM_PAGINA = b - a
  BY <1>3, <1>4, <1>6
<1>8. ASSUME NEW o, NEW n, hilo_cpu' = [op |-> o, pid |-> p, n |-> n],
             \/ o = "amplia" /\ n = k - j
             \/ o = "reduce" /\ n = j - k
      PROVE  Prometidas' = [Prometidas EXCEPT ![p] = k]
  <2>1. PendientesDe(p)' = k - j
    BY <1>4, <1>8 DEF PendientesDe
  <2>2. \A q \in Pid : q # p => PendientesDe(q)' = 0
    BY <1>8 DEF PendientesDe
  <2>3. \A q \in Pid : Len(paginas[q]) \in Nat
    BY <1>0 DEF MarcosTipos
  <2>4. Prometidas' = [q \in Pid |-> Len(paginas[q]) + PendientesDe(q)']
    BY <1>5 DEF Prometidas
  <2>5. \A q \in Pid : Len(paginas[q]) + PendientesDe(q)' = IF q = p THEN k ELSE Prometidas[q]
    BY <1>2, <1>4, <2>1, <2>2, <2>3
  <2>6. Prometidas = [q \in Pid |-> Prometidas[q]]
    BY DEF Prometidas
  <2> QED
    BY <1>2, <2>4, <2>5, <2>6
<1>9. tamanio_proceso \in [Pid -> Nat] /\ espacio_disponible \in Nat
  BY <1>0 DEF Tamanios
<1>10. CASE b < a
  <2>1. /\ espacio_disponible' = espacio_disponible + (a - b)
        /\ tamanio_proceso' = [tamanio_proceso EXCEPT ![p] = @ - (a - b)]
        /\ hilo_cpu' = [op |-> "reduce", pid |-> p, n |-> CantPaginas(a - b)]
    BY <1>1, <1>2, <1>7, <1>10 DEF EnvioResize, EjecutarReduccion
  <2>2. k < j
    BY <1>4, <1>10, PorPagina
  <2>3. CantPaginas(a - b) = j - k
    <3>1. j - k \in Nat
      BY <1>4, <2>2
    <3> QED
      BY <1>7, <3>1, CantPaginasExacta
  <2>4. Prometidas' = [Prometidas EXCEPT ![p] = k]
    BY <1>8, <2>1, <2>3
  <2>5. tamanio_proceso' = [tamanio_proceso EXCEPT ![p] = b]
    <3>1. tamanio_proceso[p] - (a - b) = b
      BY <1>7
    <3> QED
      BY <2>1, <3>1
  <2>6. espacio_disponible' = espacio_disponible + a - b
    BY <1>7, <1>9, <2>1
  <2>7. CambiaUno(p, k)
    BY <1>5, <1>7, <2>4, <2>5, <2>6 DEF CambiaUno
  <2> QED
    BY <1>2, <2>7
<1>11. CASE ~(b < a)
  <2>1. /\ espacio_disponible' = espacio_disponible - (b - a)
        /\ tamanio_proceso' = [tamanio_proceso EXCEPT ![p] = @ + (b - a)]
        /\ hilo_cpu' = [op |-> "amplia", pid |-> p, n |-> CantPaginas(b - a)]
    BY <1>1, <1>2, <1>7, <1>11 DEF EnvioResize, EjecutarAmpliacion
  <2>2. ~(k < j)
    <3>1. ASSUME k < j PROVE FALSE
      <4>1. PICK d \in Nat : d = j - k
        BY <1>4, <3>1
      <4>2. d > 0 /\ d * TAM_PAGINA = a - b
        BY <1>4, <1>7, <3>1, <4>1
      <4>3. \A x \in Nat : \A t \in Nat \ {0} : x > 0 => x * t > 0
        OBVIOUS
      <4> QED
        BY <1>7, <1>11, <4>2, <4>3, MemoriaAssumption
    <3> QED
      BY <3>1
  <2>3. CantPaginas(b - a) = k - j
    <3>1. k - j \in Nat
      BY <1>4, <2>2
    <3> QED
      BY <1>7, <3>1, CantPaginasExacta
  <2>4. Prometidas' = [Prometidas EXCEPT ![p] = k]
    BY <1>8, <2>1, <2>3
  <2>5. tamanio_proceso' = [tamanio_proceso EXCEPT ![p] = b]
    <3>1. tamanio_proceso[p] + (b - a) = b
      BY <1>7
    <3> QED
      BY <2>1, <3>1
  <2>6. espacio_disponible' = espacio_disponible + a - b
    BY <1>7, <1>9, <2>1
  <2>7. CambiaUno(p, k)
    BY <1>5, <1>7, <2>4, <2>5, <2>6 DEF CambiaUno
  <2> QED
    BY <1>2, <2>7
<1> QED
  BY <1>10, <1>11

(* A process the CPU does not run has no RESIZE under way.                 *)
LEMMA SinPendientes ==
  ASSUME MmuInd, NEW p \in Pid, estado[p] # "cpu"
  PROVE  PendientesDe(p) = 0 /\ (UNCHANGED hilo_cpu => PendientesDe(p)' = 0)
<1>1. hilo_cpu.op # "espera" => hilo_cpu.pid # p
  BY DEF MmuInd, Inv, Control, CpuInv
<1> QED
  BY <1>1 DEF PendientesDe

(* A page granted or taken is one less to go (envio_resize.c:44, 80).      *)
LEMMA UnaPagina ==
  ASSUME MmuInd, AsignarMarco \/ LiberarMarco
  PROVE  Prometidas' = Prometidas
<1> PICK q, n, s : q = hilo_cpu.pid /\ n = hilo_cpu.n /\ s = Len(paginas[q])
  OBVIOUS
<1>0. Inv /\ hilo_cpu \in Hilo /\ paginas \in [Pid -> Seq(Marco)]
  BY DEF MmuInd, Inv, Control, MarcosTipos
<1>1. q \in Pid /\ n \in Nat /\ s \in Nat /\ paginas[q] \in Seq(Marco)
  <2>1. q \in Pid
    BY <1>0, TablaDelCpu DEF AsignarMarco, LiberarMarco
  <2> QED
    BY <1>0, <2>1 DEF Hilo
<1>2. CASE UNCHANGED <<paginas, hilo_cpu>>
  BY <1>2 DEF Prometidas, PendientesDe
<1>3. CASE ~UNCHANGED <<paginas, hilo_cpu>>
  <2>1. \/ /\ hilo_cpu.op = "amplia"
           /\ \E i \in Marco : paginas' = [paginas EXCEPT ![q] = Append(@, i)]
        \/ /\ hilo_cpu.op = "reduce" /\ s > 0
           /\ paginas' = [paginas EXCEPT ![q] = SubSeq(@, 1, s - 1)]
    BY <1>3 DEF AsignarMarco, LiberarMarco, Caer, EncontrarMarcoLibre
  <2>2. hilo_cpu' = [hilo_cpu EXCEPT !.n = n - 1]
    BY <1>3 DEF AsignarMarco, LiberarMarco, Caer
  <2>3. \/ hilo_cpu.op = "amplia" /\ Len(paginas'[q]) = s + 1
        \/ hilo_cpu.op = "reduce" /\ Len(paginas'[q]) = s - 1
    <3>1. \A i \in Marco : Len(Append(paginas[q], i)) = s + 1
      BY <1>1
    <3>2. s > 0 => Len(SubSeq(paginas[q], 1, s - 1)) = s - 1
      BY <1>1
    <3> QED
      BY <1>0, <1>1, <2>1, <3>1, <3>2
  <2>4. \A p \in Pid : p # q => paginas'[p] = paginas[p]
    BY <1>0, <2>1
  <2>5. hilo_cpu'.op = hilo_cpu.op /\ hilo_cpu'.pid = q /\ hilo_cpu'.n = n - 1
    BY <1>0, <2>2 DEF Hilo
  <2>6. \A p \in Pid : p # q => PendientesDe(p)' = PendientesDe(p)
    BY <2>5 DEF PendientesDe
  <2>7. \/ Len(paginas'[q]) = s + 1 /\ PendientesDe(q) = n /\ PendientesDe(q)' = n - 1
        \/ Len(paginas'[q]) = s - 1 /\ PendientesDe(q) = 0 - n /\ PendientesDe(q)' = 0 - (n - 1)
    BY <2>3, <2>5 DEF PendientesDe
  <2>8. Len(paginas'[q]) + PendientesDe(q)' = Len(paginas[q]) + PendientesDe(q)
    <3>1. /\ \A a, b \in Nat : (a + 1) + (b - 1) = a + b
          /\ \A a, b \in Nat : (a - 1) + (0 - (b - 1)) = a + (0 - b)
      OBVIOUS
    <3> PICK l, x, y : l = Len(paginas'[q]) /\ x = PendientesDe(q) /\ y = PendientesDe(q)'
      OBVIOUS
    <3>2. \/ l = s + 1 /\ x = n /\ y = n - 1
          \/ l = s - 1 /\ x = 0 - n /\ y = 0 - (n - 1)
      BY <2>7
    <3>3. CASE l = s + 1 /\ x = n /\ y = n - 1
      BY <1>1, <3>3
    <3>4. CASE l = s - 1 /\ x = 0 - n /\ y = 0 - (n - 1)
      <4>1. (s - 1) + (0 - (n - 1)) = s + (0 - n)
        BY <1>1, <3>1, Zenon
      <4> QED
        BY <3>4, <4>1, Zenon
    <3>5. l + y = s + x
      BY <3>2, <3>3, <3>4
    <3> QED
      BY <3>5
  <2>9. \A p \in Pid :
          Len(paginas'[p]) + PendientesDe(p)' = Len(paginas[p]) + PendientesDe(p)
    BY <2>4, <2>6, <2>8
  <2> QED
    BY <2>9 DEF Prometidas
<1> QED
  BY <1>2, <1>3

(* crear_proceso makes an empty table for a process that had none.         *)
LEMMA CrearPromete ==
  ASSUME MmuInd, NEW p \in Pid, Crear(p)
  PROVE  /\ Prometidas' = Prometidas /\ Prometidas[p] = 0
         /\ tamanio_proceso' = [tamanio_proceso EXCEPT ![p] = 0]
         /\ tablas' = tablas \cup {p} /\ UNCHANGED espacio_disponible
<1>0. TablasInv /\ paginas \in [Pid -> Seq(Marco)]
  BY DEF MmuInd, Inv, Control, MarcosTipos
<1>1. /\ estado[p] = "sin crear" /\ p \notin tablas /\ tablas' = tablas \cup {p}
      /\ paginas' = [paginas EXCEPT ![p] = <<>>]
      /\ tamanio_proceso' = [tamanio_proceso EXCEPT ![p] = 0]
      /\ UNCHANGED <<espacio_disponible, hilo_cpu>>
  BY DEF Crear, CrearProceso
<1>2. paginas[p] = <<>> /\ Len(<<>>) = 0
  BY <1>0, <1>1, EmptySeq DEF TablasInv
<1>3. UNCHANGED paginas
  BY <1>0, <1>1, <1>2
<1>4. Prometidas' = Prometidas
  BY <1>1, <1>3 DEF Prometidas, PendientesDe
<1>5. PendientesDe(p) = 0
  BY <1>1, SinPendientes
<1>6. Prometidas[p] = 0
  BY <1>2, <1>5 DEF Prometidas
<1> QED
  BY <1>1, <1>4, <1>6

(* A step that is not crear_proceso, envio_resize or the end of a table    *)
(* leaves alone what was promised.                                         *)
LEMMA PromesasIguales ==
  ASSUME MmuInd, Next, ~AtenderResize, ~QuitarTabla, ~\E p \in Pid : Crear(p)
  PROVE  Prometidas' = Prometidas /\ UNCHANGED <<tablas, tamanio_proceso, espacio_disponible>>
<1>1. UNCHANGED <<tablas, tamanio_proceso, espacio_disponible>>
  BY QuienCambiaTamanios
<1>2. CASE UNCHANGED <<paginas, hilo_cpu>>
  BY <1>1, <1>2 DEF Prometidas, PendientesDe
<1>3. CASE AsignarMarco \/ LiberarMarco
  BY <1>1, <1>3, UnaPagina
<1>4. CASE TerminarResize
  <2>0. hilo_cpu.n = 0 /\ hilo_cpu'.op = "espera"
    BY <1>4 DEF TerminarResize, HiloLibre
  <2>1. (\A p : PendientesDe(p) = 0) /\ \A p : PendientesDe(p)' = 0
    <3>1. \A p : PendientesDe(p)' = 0
      BY <2>0 DEF PendientesDe
    <3>2. 0 - 0 = 0
      OBVIOUS
    <3>3. \A p : PendientesDe(p) = 0
      BY <2>0, <3>2 DEF PendientesDe
    <3> QED
      BY <3>1, <3>3
  <2>2. UNCHANGED paginas
    BY <1>4 DEF TerminarResize
  <2> QED
    BY <1>1, <2>1, <2>2 DEF Prometidas
<1>5. UNCHANGED <<paginas, hilo_cpu>> \/ AsignarMarco \/ LiberarMarco \/ TerminarResize
  <2>1. CASE Cpu
    BY <2>1 DEF Cpu, Fetch, Decodificar, TlbHit, ObtenerElMarco, RecibirMarco, EnviarMovIn,
         EnviarEscritura, EnviarAInterfaz, RecibirDato, RecibirResize, memoriaVars
  <2>2. CASE HiloCpu
    BY <2>2 DEF HiloCpu, EnviarInstrucciones, AtenderMarco, AtenderMovIn,
         AtenderMovOut, AtenderCopyString, RechazarResize, ContestarResize, SeguirMemoria,
         LiberarMarcos, Escribir, CopyString, Caer, memoriaVars
  <2>3. CASE Desalojar
    BY <2>3 DEF Desalojar, memoriaVars
  <2>4. CASE \E p \in Pid : Kernel(p) \/ StdinRead(p) \/ StdoutWrite(p)
    BY <2>4 DEF Kernel, Despachar, Matar, Finalizar, FinalizarProceso,
         Caer, Escribir, StdinRead, StdoutWrite, memoriaVars
  <2> QED
    BY <2>1, <2>2, <2>3, <2>4 DEF Next
<1> QED
  BY <1>2, <1>3, <1>4, <1>5

(* Both at once, when the sizes are whole pages.                           *)
LEMMA PrometidasQuedan ==
  ASSUME MmuInd, Paginados, Next, ~AtenderResize, ~QuitarTabla
  PROVE  /\ Prometidas' = Prometidas /\ UNCHANGED <<tamanio_proceso, espacio_disponible>>
         /\ \/ UNCHANGED tablas
            \/ \E p \in Pid : Prometidas[p] = 0 /\ tablas' = tablas \cup {p}
<1>1. ASSUME NEW p \in Pid, Crear(p)
      PROVE  UNCHANGED tamanio_proceso
  <2>1. Prometidas[p] = 0 /\ tamanio_proceso' = [tamanio_proceso EXCEPT ![p] = 0]
    BY <1>1, CrearPromete
  <2>2. tamanio_proceso[p] = 0 * TAM_PAGINA
    BY <2>1 DEF Paginados
  <2>3. tamanio_proceso[p] = 0
    BY <2>2, MemoriaAssumption
  <2> QED
    BY <2>1, <2>3 DEF MmuInd, EspacioInd, Tamanios
<1>2. CASE \E p \in Pid : Crear(p)
  <2>1. PICK p \in Pid : Crear(p)
    BY <1>2
  <2> QED
    BY <1>1, <2>1, CrearPromete
<1>3. CASE ~\E p \in Pid : Crear(p)
  BY <1>3, PromesasIguales
<1> QED
  BY <1>2, <1>3

(* The table of a process that ended takes its pages away.                 *)
LEMMA QuitarPrometidas ==
  ASSUME MmuInd, QuitarTabla
  PROVE  \E q \in Pid : /\ Prometidas' = [Prometidas EXCEPT ![q] = 0]
                        /\ tamanio_proceso' = [tamanio_proceso EXCEPT ![q] = 0]
                        /\ tablas' = tablas \ {q} /\ UNCHANGED espacio_disponible
<1> PICK q : q = hilo_kernel.pid
  OBVIOUS
<1>1. q \in Pid /\ estado[q] = "fin" /\ paginas \in [Pid -> Seq(Marco)]
  BY DEF MmuInd, Inv, Control, MarcosTipos, KernelInv, QuitarTabla
<1>2. /\ tablas' = tablas \ {q} /\ UNCHANGED <<espacio_disponible, hilo_cpu>>
      /\ paginas' = [paginas EXCEPT ![q] = <<>>]
      /\ tamanio_proceso' = [tamanio_proceso EXCEPT ![q] = 0]
  BY DEF QuitarTabla
<1>3. PendientesDe(q)' = 0
  BY <1>1, <1>2, SinPendientes
<1>4. paginas'[q] = <<>> /\ Len(<<>>) = 0 /\ \A p \in Pid : p # q => paginas'[p] = paginas[p]
  BY <1>1, <1>2, EmptySeq
<1>5. \A p \in Pid : PendientesDe(p)' = PendientesDe(p)
  BY <1>2 DEF PendientesDe
<1>6. \A p \in Pid : Len(paginas'[p]) + PendientesDe(p)' = IF p = q THEN 0 ELSE Prometidas[p]
  BY <1>3, <1>4, <1>5 DEF Prometidas
<1>7. Prometidas = [p \in Pid |-> Prometidas[p]]
      /\ Prometidas' = [p \in Pid |-> Len(paginas'[p]) + PendientesDe(p)']
  BY DEF Prometidas
<1>8. Prometidas' = [Prometidas EXCEPT ![q] = 0]
  BY <1>1, <1>6, <1>7
<1> QED
  BY <1>1, <1>2, <1>8

(* The sizes stay whole pages, and the promises within the frames.         *)
LEMMA PagPaso ==
  ASSUME MmuInd, ConTabla, Paginados, Alcanzan, Multiplos, Next
  PROVE  Paginados' /\ Alcanzan'
<1> DEFINE Cuenta == Cardinality(Pares(tablas, Prometidas))
<1>0. /\ IsFiniteSet(tablas) /\ tablas \subseteq Pid /\ tamanio_proceso \in [Pid -> Nat]
      /\ espacio_disponible \in Nat
      /\ Prometidas \in [Pid -> Nat] /\ \A p \in tablas : Prometidas[p] \in Nat
  <2>1. Tamanios
    BY DEF MmuInd, EspacioInd
  <2>2. Prometidas = [p \in Pid |-> Prometidas[p]]
    BY DEF Prometidas
  <2>3. Prometidas \in [Pid -> Nat]
    BY <2>2 DEF Paginados
  <2> QED
    BY <2>1, <2>3 DEF Tamanios
<1>1. Cuenta \in Nat /\ espacio_disponible + TAM_PAGINA * Cuenta <= TAM_MEMORIA
  BY <1>0, ParesFinitos DEF Alcanzan
<1>2. ASSUME UNCHANGED espacio_disponible, IsFiniteSet(tablas'),
             Prometidas' \in [Pid -> Nat], tablas' \subseteq Pid,
             \A p \in tablas' : Prometidas'[p] > 0 => p \in tablas /\ Prometidas'[p] = Prometidas[p]
      PROVE  Alcanzan'
  <2>1. \A p \in tablas' : Prometidas'[p] \in Nat
    BY <1>2
  <2>2. Cardinality(Pares(tablas', Prometidas')) <= Cuenta
        /\ Cardinality(Pares(tablas', Prometidas')) \in Nat
    BY <1>0, <1>2, <2>1, ParesMenos, ParesFinitos
  <2>3. \A a, b \in Nat : \A t \in Nat : a <= b => t * a <= t * b /\ t * a \in Nat /\ t * b \in Nat
    OBVIOUS
  <2> PICK c, d : c = Cuenta /\ d = Cardinality(Pares(tablas', Prometidas'))
    OBVIOUS
  <2>4. c \in Nat /\ d \in Nat /\ TAM_PAGINA \in Nat /\ d <= c
    BY <1>1, <2>2, MemoriaAssumption
  <2>5. TAM_PAGINA * d <= TAM_PAGINA * c /\ TAM_PAGINA * d \in Nat /\ TAM_PAGINA * c \in Nat
    BY <2>3, <2>4, Zenon
  <2> HIDE DEF Cuenta
  <2>6. espacio_disponible' + TAM_PAGINA * d <= TAM_MEMORIA
    <3> PICK x, y, e : x = TAM_PAGINA * d /\ y = TAM_PAGINA * c /\ e = espacio_disponible
      OBVIOUS
    <3>1. x \in Nat /\ y \in Nat /\ x <= y /\ e \in Nat /\ e + y <= TAM_MEMORIA
      BY <1>0, <1>1, <2>5
    <3>2. e + x <= TAM_MEMORIA
      BY <3>1, MemoriaAssumption
    <3> QED
      BY <1>2, <3>2
  <2> QED
    BY <2>6 DEF Alcanzan
<1>3. CASE ~AtenderResize /\ ~QuitarTabla
  <2>1. /\ Prometidas' = Prometidas /\ UNCHANGED <<tamanio_proceso, espacio_disponible>>
        /\ \/ UNCHANGED tablas
           \/ \E p \in Pid : Prometidas[p] = 0 /\ tablas' = tablas \cup {p}
    BY <1>3, PrometidasQuedan
  <2>2. Paginados'
    BY <2>1 DEF Paginados
  <2>3. CASE UNCHANGED tablas
    BY <2>1, <2>2, <2>3 DEF Alcanzan
  <2>4. ASSUME NEW p \in Pid, Prometidas[p] = 0, tablas' = tablas \cup {p}
        PROVE  Alcanzan'
    <3>1. IsFiniteSet(tablas') /\ tablas' \subseteq Pid
      BY <1>0, <2>4, FS_AddElement
    <3> QED
      BY <1>0, <1>2, <2>1, <2>4, <3>1
  <2> QED
    BY <2>1, <2>2, <2>3, <2>4
<1>4. CASE QuitarTabla
  <2>1. PICK q \in Pid : /\ Prometidas' = [Prometidas EXCEPT ![q] = 0]
                         /\ tamanio_proceso' = [tamanio_proceso EXCEPT ![q] = 0]
                         /\ tablas' = tablas \ {q} /\ UNCHANGED espacio_disponible
    BY <1>4, QuitarPrometidas
  <2>2. Prometidas' \in [Pid -> Nat] /\ IsFiniteSet(tablas')
    BY <1>0, <2>1, FS_Subset
  <2>3. 0 * TAM_PAGINA = 0
    BY MemoriaAssumption
  <2>4. Paginados'
    BY <1>0, <2>1, <2>3 DEF Paginados
  <2>5. Alcanzan'
    BY <1>0, <1>2, <2>1, <2>2
  <2> QED
    BY <2>4, <2>5
<1>5. CASE AtenderResize
  <2>1. PICK p \in tablas, k \in Nat : CambiaUno(p, k)
    BY <1>5, ResizePromete
  <2>2. /\ Prometidas' = [Prometidas EXCEPT ![p] = k] /\ UNCHANGED tablas
        /\ tamanio_proceso' = [tamanio_proceso EXCEPT ![p] = k * TAM_PAGINA]
        /\ espacio_disponible' = espacio_disponible + tamanio_proceso[p] - k * TAM_PAGINA
    BY <2>1 DEF CambiaUno
  <2>3. Paginados'
    BY <1>0, <2>2 DEF Paginados
  <2>4. Cardinality(Pares(tablas, Prometidas')) = Cuenta - Prometidas[p] + k
    <3>1. /\ \A q \in tablas : Prometidas'[q] \in Nat
          /\ \A q \in tablas : p # q => Prometidas'[q] = Prometidas[q]
          /\ Prometidas'[p] = k
      BY <1>0, <2>2
    <3>2. Cardinality(Pares(tablas, Prometidas')) = Cuenta - Prometidas[p] + Prometidas'[p]
      BY <1>0, <3>1, ParesCambia
    <3> QED
      BY <3>1, <3>2
  <2> PICK c, j, t, e : /\ c = Cuenta /\ j = Prometidas[p] /\ t = TAM_PAGINA
                        /\ e = espacio_disponible
    OBVIOUS
  <2>5. c \in Nat /\ j \in Nat /\ t \in Nat /\ e \in Nat /\ k \in Nat
        /\ tamanio_proceso[p] = j * t
    BY <1>0, <1>1, MemoriaAssumption DEF Paginados
  <2>6. \A w, x, y, z \in Nat : w * (x - y + z) = w * x - y * w + z * w
    OBVIOUS
  <2> HIDE DEF Cuenta
  <2>7. t * (c - j + k) = t * c - j * t + k * t
    BY <2>5, <2>6
  <2>8. (e + j * t - k * t) + (t * c - j * t + k * t) = e + t * c
    <3>1. j * t \in Nat /\ k * t \in Nat /\ t * c \in Nat
      BY <2>5
    <3> PICK x, y, z : x = j * t /\ y = k * t /\ z = t * c
      OBVIOUS
    <3>2. x \in Nat /\ y \in Nat /\ z \in Nat
      BY <3>1
    <3>3. (e + x - y) + (z - x + y) = e + z
      BY <2>5, <3>2
    <3> QED
      BY <3>3
  <2>9. espacio_disponible' = e + j * t - k * t
    BY <2>2, <2>5
  <2>10. Cardinality(Pares(tablas', Prometidas')) = c - j + k
    BY <2>2, <2>4
  <2>11. espacio_disponible' + t * Cardinality(Pares(tablas', Prometidas')) = e + t * c
    BY <2>7, <2>8, <2>9, <2>10
  <2>12. e + t * c <= TAM_MEMORIA
    BY <1>1
  <2> QED
    BY <2>3, <2>11, <2>12 DEF Alcanzan
<1> QED
  BY <1>3, <1>4, <1>5

(* encontrar_marco_libre finds a frame: were they all taken, or about to   *)
(* be released, there would be as many pages as frames, and there is still *)
(* one to grant.                                                           *)
LEMMA HayMarco ==
  ASSUME PagInd, hilo_cpu.op = "amplia", hilo_cpu.n > 0
  PROVE  -1 \notin EncontrarMarcoLibre
<1> DEFINE Largos == [p \in Pid |-> Len(paginas[p])]
           Q == Pares(tablas, Largos)
           g == [x \in Q |-> paginas[x[1]][x[2]]]
           Tomados == {g[x] : x \in Q}
<1> SUFFICES ASSUME -1 \in EncontrarMarcoLibre PROVE FALSE
  OBVIOUS
<1>0. /\ Inv /\ KernelInv /\ TablasInv /\ Tamanios /\ ConTabla /\ Alcanzan /\ hilo_cpu \in Hilo
      /\ paginas \in [Pid -> Seq(Marco)] /\ is_free \in [Marco -> BOOLEAN]
      /\ \A p \in Pid : Len(paginas[p]) \in Nat
  BY DEF PagInd, MmuInd, Inv, Control, EspacioInd, MarcosTipos
<1>1. -1 \notin Marco
  BY DEF Marco
<1>2. \A f \in Marco : is_free[f] => f \in EnLiberacion
  BY <1>1 DEF EncontrarMarcoLibre
<1>3. ASSUME NEW f \in Marco
      PROVE  \E p \in Pid : \E k \in 1 .. Len(paginas[p]) : f = paginas[p][k]
  <2>1. CASE is_free[f]
    <3>1. f \in EnLiberacion
      BY <1>2, <2>1
    <3>2. hilo_kernel.op = "libera" /\ \E k \in 1 .. Len(paginas[hilo_kernel.pid]) :
                                         f = paginas[hilo_kernel.pid][k]
      BY <3>1 DEF EnLiberacion
    <3>3. hilo_kernel.pid \in Pid
      BY <1>0, <3>2 DEF KernelInv
    <3> QED
      BY <3>2, <3>3
  <2>2. CASE ~is_free[f]
    <3>1. PICK p \in Pid : f \in EnUso(p)
      BY <1>0, <2>2 DEF Inv, MarcosExactos
    <3>2. PICK k \in Desde(p) .. Len(paginas[p]) : f = paginas[p][k]
      BY <3>1 DEF EnUso
    <3>3. Desde(p) \in Nat \ {0}
      BY <1>0 DEF Desde, KernelInv
    <3>4. k \in 1 .. Len(paginas[p])
      BY <1>0, <3>2, <3>3
    <3> QED
      BY <3>2, <3>4
  <2> QED
    BY <2>1, <2>2
<1>4. Marco \subseteq Tomados
  <2> SUFFICES ASSUME NEW f \in Marco PROVE f \in Tomados
    OBVIOUS
  <2>0. PICK p \in Pid : \E k \in 1 .. Len(paginas[p]) : f = paginas[p][k]
    BY <1>3
  <2>1. PICK k \in 1 .. Len(paginas[p]) : f = paginas[p][k]
    BY <2>0
  <2>2. p \in tablas
    <3>1. paginas[p] # <<>>
      BY <2>1, Vacia
    <3> QED
      BY <1>0, <3>1 DEF TablasInv
  <2>3. <<p, k>> \in Q
    BY <2>1, <2>2, ParEs
  <2>4. g[<<p, k>>] = f
    BY <2>1, <2>3
  <2> QED
    BY <2>3, <2>4
<1>5. IsFiniteSet(Q) /\ Cardinality(Q) \in Nat
  <2>1. IsFiniteSet(tablas) /\ \A p \in tablas : Largos[p] \in Nat
    BY <1>0 DEF Tamanios
  <2> HIDE DEF Largos
  <2> QED
    BY <2>1, ParesFinitos
<1>6. Cardinality(Marco) <= Cardinality(Q)
  <2>1. g \in Surjection(Q, Tomados)
    BY DEF Surjection
  <2> HIDE DEF Q, g, Tomados
  <2>2. IsFiniteSet(Tomados) /\ Cardinality(Tomados) <= Cardinality(Q)
    BY <1>5, <2>1, FS_Surjection
  <2>3. Cardinality(Marco) <= Cardinality(Tomados) /\ Cardinality(Tomados) \in Nat
    BY <1>4, <2>2, FS_Subset, FS_CardinalityType
  <2> QED
    BY <1>5, <2>2, <2>3, CuantosMarcos
<1> PICK q, n : q = hilo_cpu.pid /\ n = hilo_cpu.n
  OBVIOUS
<1>7. q \in Pid /\ q \in tablas /\ n \in Nat /\ n > 0
  <2>1. q \in Pid /\ estado[q] = "cpu"
    BY <1>0, TablaDelCpu
  <2> QED
    BY <1>0, <2>1 DEF ConTabla, Hilo
<1>8. Cardinality(Q) = Cardinality(Pares(tablas, Prometidas)) - Prometidas[q] + Largos[q]
      /\ Cardinality(Pares(tablas, Prometidas)) \in Nat
  <2>1. \A p \in Pid : Prometidas[p] \in Nat /\ Largos[p] \in Nat
    BY <1>0 DEF PagInd, Paginados
  <2>2. \A p \in Pid : q # p => Largos[p] = Prometidas[p]
    BY <1>0 DEF Prometidas, PendientesDe
  <2>3. IsFiniteSet(tablas) /\ tablas \subseteq Pid
    BY <1>0 DEF Tamanios
  <2> HIDE DEF Largos
  <2> QED
    BY <1>7, <2>1, <2>2, <2>3, ParesCambia, ParesFinitos
<1>9. Prometidas[q] = Largos[q] + n /\ Largos[q] \in Nat
  BY <1>0, <1>7 DEF Prometidas, PendientesDe
<1> PICK m, c, t : m = Cardinality(Marco) /\ c = Cardinality(Pares(tablas, Prometidas))
                   /\ t = TAM_PAGINA
  OBVIOUS
<1> HIDE DEF Q, Largos
<1>10. m \in Nat /\ c \in Nat /\ t \in Nat /\ m + 1 <= c
  <2>1. Cardinality(Q) = c - n
    BY <1>7, <1>8, <1>9
  <2> QED
    BY <1>6, <1>7, <1>8, <2>1, CuantosMarcos, MemoriaAssumption
<1>11. t * (m + 1) <= t * c /\ t * c \in Nat /\ t * (m + 1) \in Nat
  <2>1. \A x, y, z \in Nat : y <= z => x * y <= x * z /\ x * y \in Nat /\ x * z \in Nat
    OBVIOUS
  <2>2. m + 1 \in Nat
    BY <1>10
  <2> QED
    BY <1>10, <2>1, <2>2, Zenon
<1>12. t * (m + 1) > TAM_MEMORIA /\ espacio_disponible + t * c <= TAM_MEMORIA
  BY <1>0, CuantosMarcos DEF Alcanzan
<1>13. espacio_disponible \in Nat
  BY <1>0 DEF Tamanios
<1> QED
  <2> PICK x, y, e : x = t * (m + 1) /\ y = t * c /\ e = espacio_disponible
    OBVIOUS
  <2>1. x \in Nat /\ y \in Nat /\ e \in Nat /\ x <= y /\ x > TAM_MEMORIA /\ e + y <= TAM_MEMORIA
    BY <1>11, <1>12, <1>13
  <2> QED
    BY <2>1, MemoriaAssumption

(* mandar_marco finds the page it is asked for (manda_marco.c:18).         *)
LEMMA HayPagina ==
  ASSUME Ordenados, PagInd, AtenderMarco
  PROVE  UNCHANGED caida
<1>0. /\ CpuInv /\ CanalInv /\ EnCurso /\ Preguntado /\ ConTabla /\ Paginados /\ Dentro
      /\ paginas \in [Pid -> Seq(Marco)] /\ caida \in BOOLEAN
  BY DEF PagInd, MmuInd, Inv, Control, MarcosTipos, Trabajo
<1> PICK m : m = Head(canal)
  OBVIOUS
<1>1. canal # <<>> /\ m.op = "OBTENER_MARCO" /\ canal' = Tail(canal) /\ hilo_cpu.op = "espera"
  BY DEF AtenderMarco, Atiende
<1>2. m = canal[1] /\ m.pid = pcb /\ paso = "marco"
  BY <1>0, <1>1, CanalSaca DEF Escrituras, Preguntas
<1>3. pcb \in Pid /\ pcb \in tablas
  BY <1>0, <1>2 DEF CpuInv, ConTabla
<1>4. m.inst = inst /\ m.t = traducidas
  <2>1. Len(canal) = 1
    BY <1>0, <1>1, PreguntaUltima DEF Escrituras
  <2>2. 1 \in 1 .. Len(canal)
    BY <2>1
  <2> QED
    BY <1>0, <1>1, <1>2, <2>2 DEF Preguntado
<1>5. /\ inst \in Instrucciones /\ Len(traducidas) + 1 \in DOMAIN inst.dirs /\ Logica \in Nat
  BY <1>0, <1>2, PaginaTipo DEF EnCurso
<1>6. inst.n \in Nat /\ inst.n >= 1
  <2>1. inst.dirs # <<>>
    BY <1>5, Vacia
  <2> QED
    BY <1>5, <2>1, MmuAssumption DEF Ordenados
<1> PICK s : s = Len(paginas[pcb])
  OBVIOUS
<1>7. s \in Nat /\ tamanio_proceso[pcb] = s * TAM_PAGINA
  <2>1. s \in Nat
    BY <1>0, <1>3
  <2>2. PendientesDe(pcb) = 0
    BY <1>1 DEF PendientesDe
  <2>3. Prometidas[pcb] = s
    BY <1>3, <2>1, <2>2 DEF Prometidas
  <2> QED
    BY <1>0, <1>3, <2>1, <2>3 DEF Paginados
<1>8. Logica < s * TAM_PAGINA
  <2>1. Logica + inst.n <= s * TAM_PAGINA
    BY <1>0, <1>2, <1>5, <1>7 DEF Dentro, Logica
  <2>2. s * TAM_PAGINA \in Nat
    BY <1>7, PorPagina
  <2> QED
    BY <1>5, <1>6, <2>1, <2>2
<1>9. Logica \div TAM_PAGINA \in 0 .. s - 1
  BY <1>5, <1>7, <1>8, PaginaDentro
<1>10. TieneMarco(pcb, Logica \div TAM_PAGINA)
  BY <1>3, <1>9 DEF TieneMarco
<1>11. TieneMarco(m.pid, m.inst.dirs[Len(m.t) + 1] \div TAM_PAGINA)
  BY <1>2, <1>4, <1>10 DEF Logica
<1> QED
  BY <1>11 DEF AtenderMarco, memoriaVars

(* envio_resize, asignar_marco and liberar_marco find the table, a frame   *)
(* and a page (envio_resize.c:8, 60, 86).                                  *)
LEMMA NoCae ==
  ASSUME Ordenados, PagInd, Next
  PROVE  ~caida'
<1>0. /\ ~caida /\ Inv /\ CpuInv /\ CanalInv /\ ConTabla /\ Paginados /\ hilo_cpu \in Hilo
      /\ paginas \in [Pid -> Seq(Marco)]
  BY DEF PagInd, MmuInd, Inv, Control, MarcosTipos, Next
<1>1. UNCHANGED caida => ~caida'
  BY <1>0
<1>2. CASE AtenderMarco
  BY <1>1, <1>2, HayPagina
<1>3. CASE AtenderResize
  <2>1. /\ canal # <<>> /\ Head(canal).op = "RESIZE" /\ canal' = Tail(canal)
        /\ EnvioResize(Head(canal).pid, Head(canal).inst.valor)
    BY <1>3 DEF AtenderResize, Atiende
  <2>2. Head(canal).pid = pcb /\ paso = "resize"
    BY <1>0, <2>1, CanalSaca DEF Escrituras, Preguntas
  <2>3. pcb \in tablas
    BY <1>0, <2>2 DEF CpuInv, ConTabla
  <2>4. UNCHANGED caida
    BY <2>1, <2>2, <2>3 DEF EnvioResize
  <2> QED
    BY <1>1, <2>4
<1>4. CASE AsignarMarco \/ LiberarMarco
  <2> PICK q, n : q = hilo_cpu.pid /\ n = hilo_cpu.n
    OBVIOUS
  <2>1. q \in Pid /\ q \in tablas /\ n \in Nat /\ n > 0 /\ Len(paginas[q]) \in Nat
    <3>1. q \in Pid /\ estado[q] = "cpu" /\ n > 0
      BY <1>0, <1>4, TablaDelCpu DEF AsignarMarco, LiberarMarco
    <3> QED
      BY <1>0, <3>1 DEF ConTabla, Hilo
  <2>2. CASE AsignarMarco
    <3>1. -1 \notin EncontrarMarcoLibre
      BY <2>2, HayMarco DEF AsignarMarco
    <3>2. PICK i \in EncontrarMarcoLibre :
            IF i # -1 /\ hilo_cpu.pid \in tablas THEN UNCHANGED caida ELSE Caer
      BY <2>2 DEF AsignarMarco
    <3> QED
      BY <1>1, <2>1, <3>1, <3>2
  <2>3. CASE LiberarMarco
    <3>1. Prometidas[q] = Len(paginas[q]) + (0 - n) /\ Prometidas[q] \in Nat
      BY <1>0, <2>1, <2>3 DEF LiberarMarco, Prometidas, PendientesDe, Paginados
    <3>2. Len(paginas[q]) > 0
      BY <2>1, <3>1
    <3> QED
      BY <1>1, <2>1, <2>3, <3>2 DEF LiberarMarco
  <2> QED
    BY <1>4, <2>2, <2>3
<1>5. ASSUME NEW p \in Pid, Finalizar(p)
      PROVE  ~caida'
  <2>1. p \in tablas
    BY <1>0, <1>5 DEF Finalizar, ConTabla
  <2> QED
    BY <1>1, <1>5, <2>1 DEF Finalizar, FinalizarProceso
<1>6. CASE ~AtenderMarco /\ ~AtenderResize /\ ~AsignarMarco /\ ~LiberarMarco
           /\ ~\E p \in Pid : Finalizar(p)
  <2>1. CASE Cpu
    BY <1>1, <2>1 DEF Cpu, Fetch, Decodificar, TlbHit, ObtenerElMarco, RecibirMarco, EnviarMovIn,
         EnviarEscritura, EnviarAInterfaz, RecibirDato, RecibirResize, memoriaVars
  <2>2. CASE HiloCpu
    BY <1>1, <1>6, <2>2 DEF HiloCpu, EnviarInstrucciones, AtenderMovIn, AtenderMovOut,
         AtenderCopyString, RechazarResize, ContestarResize, TerminarResize,
         SeguirMemoria, LiberarMarcos, QuitarTabla, Escribir, CopyString, memoriaVars
  <2>3. CASE Desalojar
    BY <1>1, <2>3 DEF Desalojar, memoriaVars
  <2>4. CASE \E p \in Pid : Kernel(p) \/ StdinRead(p) \/ StdoutWrite(p)
    BY <1>1, <1>6, <2>4 DEF Kernel, Crear, Despachar, Matar, CrearProceso,
         Escribir, StdinRead, StdoutWrite, memoriaVars
  <2> QED
    BY <2>1, <2>2, <2>3, <2>4 DEF Next
<1> QED
  BY <1>2, <1>3, <1>4, <1>5, <1>6

(* The whole invariant holds from the start on.                            *)
LEMMA VivoSiempre ==
  ASSUME MatableVivo, Ordenados
  PROVE  Spec => [](PagInd /\ ~caida)
<1>1. Matable
  BY DEF MatableVivo, Matable
<1>2. Init => PagInd /\ ~caida
  <2> SUFFICES ASSUME Init PROVE PagInd /\ ~caida
    OBVIOUS
  <2>1. /\ canal = <<>> /\ paso = "ciclo" /\ tablas = {} /\ hilo_cpu = HiloLibre /\ ~caida
        /\ estado = [p \in Pid |-> "sin crear"] /\ paginas = [p \in Pid |-> <<>>]
        /\ tamanio_proceso = [p \in Pid |-> 0] /\ espacio_disponible = TAM_MEMORIA
    BY DEF Init, InicializarEstructuras
  <2>2. MmuInd
    BY MmuInicial
  <2>3. ConTabla /\ Dentro
    BY <2>1 DEF ConTabla, Dentro
  <2>4. Multiplos
    <3>1. canal \in Seq({})
      BY <2>1, Vacia
    <3> QED
      BY <3>1 DEF Multiplos
  <2>5. Paginados
    <3>1. hilo_cpu.op = "espera"
      BY <2>1 DEF HiloLibre
    <3>2. \A p \in Pid : PendientesDe(p) = 0
      BY <3>1 DEF PendientesDe
    <3>3. \A p \in Pid : Len(paginas[p]) = 0
      BY <2>1, EmptySeq
    <3>4. \A p \in Pid : Prometidas[p] = 0
      BY <3>2, <3>3 DEF Prometidas
    <3>5. 0 * TAM_PAGINA = 0
      BY MemoriaAssumption
    <3>6. \A p \in Pid : tamanio_proceso[p] = 0
      BY <2>1
    <3> QED
      BY <3>4, <3>5, <3>6 DEF Paginados
  <2>6. Alcanzan
    <3>1. Pares(tablas, Prometidas) = {}
      BY <2>1 DEF Pares
    <3>2. Cardinality(Pares(tablas, Prometidas)) = 0
      BY <3>1, FS_EmptySet
    <3>3. TAM_PAGINA * 0 = 0 /\ TAM_MEMORIA + 0 <= TAM_MEMORIA
      BY MemoriaAssumption
    <3> QED
      BY <2>1, <3>2, <3>3 DEF Alcanzan
  <2> QED
    BY <2>1, <2>2, <2>3, <2>4, <2>5, <2>6 DEF PagInd
<1>3. PagInd /\ ~caida /\ [Next]_vars => (PagInd /\ ~caida)'
  <2>1. ASSUME PagInd, ~caida, [Next]_vars PROVE (PagInd /\ ~caida)'
    <3>1. MmuInd'
      BY <1>1, <2>1, MmuPaso DEF PagInd
    <3>2. CASE Next
      <4>1. Paginados' /\ Alcanzan' /\ Dentro' /\ ConTabla' /\ Multiplos'
        BY <2>1, <3>2, PagPaso, DentroPaso, ConTablaPaso, MultiplosPaso DEF PagInd
      <4> QED
        BY <2>1, <3>1, <3>2, <4>1, NoCae DEF PagInd
    <3>3. CASE UNCHANGED vars
      <4>1. UNCHANGED <<memoriaVars, cpuVars, kernelVars, canal>>
        BY <3>3 DEF vars
      <4>2. UNCHANGED <<tablas, paginas, tamanio_proceso, espacio_disponible, hilo_cpu, caida,
                        pcb, paso, inst, estado>>
        BY <4>1 DEF memoriaVars, cpuVars, kernelVars
      <4>3. Prometidas' = Prometidas
        BY <4>2 DEF Prometidas, PendientesDe
      <4> QED
        BY <2>1, <3>1, <4>1, <4>2, <4>3
        DEF PagInd, ConTabla, Paginados, Alcanzan, Multiplos, Dentro
    <3> QED
      BY <2>1, <3>2, <3>3
  <2> QED
    BY <2>1
<1> QED
  BY <1>2, <1>3, PTL DEF Spec

(* memoria never dereferences a frame, a page or a table that is not       *)
(* there (envio_resize.c:8, 60, 86, manda_marco.c:18), for any number of   *)
(* processes, any memory and any TLB, as long as the programs ask for      *)
(* whole pages and nobody finishes a process while it runs or before it    *)
(* exists.                                                                 *)
THEOREM MemoriaViva ==
  ASSUME MatableVivo, Ordenados
  PROVE  Spec => []MemoriaNoCae
<1>1. MatableVivo /\ Ordenados
  OBVIOUS
<1>2. Spec => [](PagInd /\ ~caida)
  BY <1>1, VivoSiempre
<1>3. PagInd /\ ~caida => MemoriaNoCae
  BY DEF MemoriaNoCae
<1> QED
  BY <1>2, <1>3, PTL

-----------------------------------------------------------------------------
(* The pages of a process that has never shrunk, for any sizes.            *)

Cubiertos ==
  \A p \in Pid : p \in redujo \/ /\ Prometidas[p] \in Nat
                                 /\ Prometidas[p] * TAM_PAGINA >= tamanio_proceso[p]
Reducido == hilo_cpu.op = "reduce" => hilo_cpu.pid \in redujo
(* A RESIZE on its way to less is of a process that the CPU has noted.     *)
Anotado ==
  \A k \in 1 .. Len(canal) :
    canal[k].op = "RESIZE" /\ canal[k].inst.valor < tamanio_proceso[canal[k].pid]
      => canal[k].pid \in redujo

TamInd == MmuInd /\ Cubiertos /\ Reducido /\ Anotado

(* Rounding up reaches the bytes (envio_resize.c:38).                      *)
LEMMA CantPaginasAlcanza ==
  \A b \in Nat : CantPaginas(b) \in Nat /\ CantPaginas(b) * TAM_PAGINA >= b
<1> PICK t : t = TAM_PAGINA
  OBVIOUS
<1>1. t \in Nat /\ t > 0
  BY MemoriaAssumption
<1>2. \A x \in Nat : x \div t \in Nat /\ (x \div t) * t + t > x
  BY <1>1
<1>3. \A b \in Nat : b + t - 1 \in Nat
  BY <1>1
<1>4. \A b \in Nat : LET q == (b + t - 1) \div t IN q \in Nat /\ q * t + t > b + t - 1
  BY <1>2, <1>3
<1>5. \A x, b \in Nat : x + t > b + t - 1 => x >= b
  BY <1>1
<1>6. \A q \in Nat : q * t \in Nat
  BY <1>1
<1> QED
  BY <1>4, <1>5, <1>6 DEF CantPaginas

(* Who has shrunk is never forgotten.                                      *)
LEMMA RedujoQueda ==
  ASSUME Next
  PROVE  redujo \subseteq redujo'
<1>1. CASE Cpu
  BY <1>1 DEF Cpu, Fetch, Decodificar, TlbHit, ObtenerElMarco, RecibirMarco, EnviarMovIn,
       EnviarEscritura, EnviarAInterfaz, RecibirDato, RecibirResize, kernelVars
<1>2. CASE HiloCpu
  BY <1>2 DEF HiloCpu, EnviarInstrucciones, AtenderMarco, AtenderMovIn, AtenderMovOut,
       AtenderCopyString, AtenderResize, RechazarResize, ContestarResize, SeguirMemoria,
       RestoCpu, kernelVars
<1>3. CASE Desalojar
  BY <1>3 DEF Desalojar
<1>4. CASE \E p \in Pid : Kernel(p) \/ StdinRead(p) \/ StdoutWrite(p)
  BY <1>4 DEF Kernel, Crear, Despachar, Matar, Finalizar, StdinRead, StdoutWrite, Devolver
<1> QED
  BY <1>1, <1>2, <1>3, <1>4 DEF Next

(* decode notes a process before its RESIZE to less leaves the CPU, and    *)
(* nobody moves its size on the way (cpu.c:416-427).                       *)
LEMMA AnotadoPaso ==
  ASSUME MmuInd, MmuInd', Anotado, Next
  PROVE  Anotado'
<1> SUFFICES ASSUME NEW k \in 1 .. Len(canal'), canal'[k].op = "RESIZE",
                    canal'[k].inst.valor < tamanio_proceso'[canal'[k].pid]
             PROVE  canal'[k].pid \in redujo'
  BY DEF Anotado
<1>0. CanalInv /\ CpuInv /\ CanalInv'
  BY DEF MmuInd, Inv, Control
<1>1. PICK S : canal \in Seq(S)
  BY <1>0 DEF CanalInv
<1>2. /\ k = Len(canal') /\ canal'[k].pid = pcb' /\ paso' = "resize"
  BY <1>0 DEF CanalInv, Escrituras, Preguntas
<1>3. ASSUME NEW j \in 1 .. Len(canal), canal'[k] = canal[j]
      PROVE  canal'[k].pid \in redujo'
  <2>1. canal[j].pid = pcb /\ paso = "resize"
    BY <1>0, <1>3 DEF CanalInv, Escrituras, Preguntas
  <2>2. ~AtenderResize
    <3>1. ASSUME AtenderResize PROVE FALSE
      <4>1. canal # <<>> /\ canal' = Tail(canal) /\ Head(canal).op = "RESIZE"
        BY <3>1 DEF AtenderResize, Atiende
      <4>2. SoloEscrituras'
        BY <1>0, <4>1, CanalSaca DEF Escrituras
      <4> QED
        BY <4>2 DEF SoloEscrituras, Escrituras
    <3> QED
      BY <3>1
  <2>3. tamanio_proceso'[pcb] = tamanio_proceso[pcb]
    BY <2>1, <2>2, TamanioQuieto
  <2>4. canal[j].pid \in redujo
    BY <1>3, <2>1, <2>3 DEF Anotado
  <2> QED
    BY <1>3, <2>4, RedujoQueda
<1>4. CASE UNCHANGED canal
  <2>1. k \in 1 .. Len(canal)
    BY <1>4
  <2> QED
    BY <1>3, <1>4, <2>1
<1>5. CASE canal # <<>> /\ canal' = Tail(canal)
  <2>1. /\ Len(canal') = Len(canal) - 1 /\ Len(canal) \in Nat \ {0}
        /\ \A j \in 1 .. Len(canal) - 1 : canal'[j] = canal[j + 1]
    BY <1>1, <1>5, CanalTail
  <2>2. k \in 1 .. Len(canal) - 1 /\ k + 1 \in 1 .. Len(canal)
    BY <2>1
  <2> QED
    BY <1>3, <2>1, <2>2
<1>6. ASSUME NEW m, canal' = Append(canal, m), m.op # "RESIZE"
      PROVE  canal'[k].pid \in redujo'
  <2>1. /\ Len(canal') = Len(canal) + 1 /\ Len(canal) \in Nat
        /\ \A j \in 1 .. Len(canal) : canal'[j] = canal[j]
        /\ canal'[Len(canal) + 1] = m
    BY <1>1, <1>6, CanalAppend
  <2> QED
    BY <1>2, <1>6, <2>1
<1>7. CASE Decodificar
  <2>1. \/ UNCHANGED canal
        \/ \E i \in Instrucciones :
             /\ canal' = Append(canal, [Mensaje("RESIZE") EXCEPT !.inst = i])
             /\ redujo' = IF i.valor < tamanio_proceso[pcb] THEN redujo \cup {pcb} ELSE redujo
    BY <1>7 DEF Decodificar, Programa
  <2>2. UNCHANGED tamanio_proceso
    BY <1>7 DEF Decodificar, memoriaVars
  <2>3. ASSUME NEW i \in Instrucciones,
               canal' = Append(canal, [Mensaje("RESIZE") EXCEPT !.inst = i]),
               redujo' = IF i.valor < tamanio_proceso[pcb] THEN redujo \cup {pcb} ELSE redujo
        PROVE  canal'[k].pid \in redujo'
    <3> PICK m : m = [Mensaje("RESIZE") EXCEPT !.inst = i]
      OBVIOUS
    <3>1. m.pid = pcb /\ m.inst = i
      BY DEF Mensaje
    <3>2. canal'[Len(canal) + 1] = m /\ Len(canal') = Len(canal) + 1
      BY <1>1, <2>3, CanalAppend
    <3>3. canal'[k] = m
      BY <1>2, <3>2
    <3> QED
      BY <2>2, <2>3, <3>1, <3>3
  <2> QED
    BY <1>4, <2>1, <2>3
<1>8. CASE ~Decodificar
  <2>1. \/ UNCHANGED canal
        \/ canal # <<>> /\ canal' = Tail(canal)
        \/ \E op \in {"INSTRUCCION", "OBTENER_MARCO", "MOV_IN", "MOV_OUT", "COPY_STRING"} :
             canal' = Append(canal, Mensaje(op))
    <3>1. CASE Cpu
      BY <1>8, <3>1 DEF Cpu, Fetch, TlbHit, ObtenerElMarco, RecibirMarco, EnviarMovIn,
           EnviarEscritura, EnviarAInterfaz, RecibirDato, RecibirResize
    <3>2. CASE ~Cpu
      <4>1. ASSUME NEW i, canal' = Append(canal, [Mensaje("RESIZE") EXCEPT !.inst = i]),
                   paso = "instruccion"
            PROVE  FALSE
        <5>1. UNCHANGED paso
          <6>1. CASE HiloCpu
            BY <6>1 DEF HiloCpu, EnviarInstrucciones, AtenderMarco, AtenderMovIn, AtenderMovOut,
                 AtenderCopyString, AtenderResize, RechazarResize, ContestarResize,
                 SeguirMemoria, RestoCpu, cpuVars
          <6>2. CASE ~HiloCpu
            BY <3>2, <6>2 DEF Next, Kernel, Desalojar, Crear, Despachar, Matar, Finalizar,
                 StdinRead, StdoutWrite, Devolver, cpuVars
          <6> QED
            BY <6>1, <6>2
        <5> QED
          BY <1>2, <4>1, <5>1
      <4> QED
        BY <4>1, CanalPaso
    <3> QED
      BY <3>1, <3>2
  <2>2. \A op : Mensaje(op).op = op
    BY DEF Mensaje
  <2> QED
    BY <1>4, <1>5, <1>6, <2>1, <2>2
<1> QED
  BY <1>7, <1>8

(* envio_resize promises pages for all the bytes (envio_resize.c:3-43).    *)
LEMMA ResizeCubre ==
  ASSUME TamInd, AtenderResize
  PROVE  Cubiertos' /\ Reducido'
<1>0. /\ CanalInv /\ MarcosTipos /\ Resizes /\ Tamanios /\ hilo_cpu \in Hilo
      /\ Cubiertos /\ Reducido /\ Anotado
  BY DEF TamInd, MmuInd, Inv, Control, EspacioInd
<1> PICK p, t : p = Head(canal).pid /\ t = Head(canal).inst.valor
  OBVIOUS
<1>1. /\ canal # <<>> /\ Head(canal).op = "RESIZE" /\ hilo_cpu.op = "espera" /\ EnvioResize(p, t)
      /\ redujo' = redujo
  BY DEF AtenderResize, Atiende, RestoCpu, kernelVars
<1>2. p \in Pid /\ t \in Nat /\ tamanio_proceso[p] \in Nat
  <2>1. p \in Pid /\ t \in Nat
    BY <1>0, <1>1, ResizeServido
  <2> QED
    BY <1>0, <2>1 DEF Tamanios
<1>3. t < tamanio_proceso[p] => p \in redujo
  <2>1. PICK S : canal \in Seq(S)
    BY <1>0 DEF CanalInv
  <2>2. canal[1] = Head(canal) /\ Len(canal) \in Nat \ {0}
    BY <1>1, <2>1, CanalTail
  <2>3. 1 \in 1 .. Len(canal)
    BY <2>2
  <2> QED
    BY <1>0, <1>1, <2>2, <2>3 DEF Anotado
<1>4. /\ \A q \in Pid : PendientesDe(q) = 0 /\ Len(paginas[q]) \in Nat
      /\ \A q \in Pid : Prometidas[q] = Len(paginas[q])
  <2>1. \A q \in Pid : PendientesDe(q) = 0 /\ Len(paginas[q]) \in Nat
    BY <1>0, <1>1 DEF PendientesDe, MarcosTipos
  <2> QED
    BY <2>1 DEF Prometidas
<1>5. UNCHANGED paginas
  BY <1>1 DEF EnvioResize, Caer
<1>6. \A q \in Pid : q # p /\ hilo_cpu'.pid = p =>
        Prometidas'[q] = Prometidas[q]
  <2>1. \A q \in Pid : q # p /\ hilo_cpu'.pid = p => PendientesDe(q)' = 0
    BY DEF PendientesDe
  <2> QED
    BY <1>4, <1>5, <2>1 DEF Prometidas
<1>7. CASE p \notin tablas
  <2>1. UNCHANGED <<hilo_cpu, tamanio_proceso>>
    BY <1>1, <1>7 DEF EnvioResize, Caer
  <2>2. Prometidas' = Prometidas
    BY <1>5, <2>1 DEF Prometidas, PendientesDe
  <2> QED
    BY <1>0, <1>1, <2>1, <2>2 DEF Cubiertos, Reducido
<1>8. CASE p \in tablas /\ t < tamanio_proceso[p]
  <2>1. PICK n : hilo_cpu' = [op |-> "reduce", pid |-> p, n |-> n]
    BY <1>1, <1>8 DEF EnvioResize, EjecutarReduccion
  <2>2. \A q \in Pid : q # p => tamanio_proceso'[q] = tamanio_proceso[q]
    BY <1>0, <1>1, <1>8 DEF EnvioResize, EjecutarReduccion, Tamanios
  <2> QED
    BY <1>0, <1>1, <1>3, <1>6, <1>8, <2>1, <2>2 DEF Cubiertos, Reducido
<1>9. CASE p \in tablas /\ ~(t < tamanio_proceso[p])
  <2> PICK b : b = t - tamanio_proceso[p]
    OBVIOUS
  <2>1. b \in Nat
    BY <1>2, <1>9
  <2>2. /\ hilo_cpu' = [op |-> "amplia", pid |-> p, n |-> CantPaginas(b)]
        /\ tamanio_proceso' = [tamanio_proceso EXCEPT ![p] = @ + b]
    BY <1>1, <1>9 DEF EnvioResize, EjecutarAmpliacion
  <2>3. CantPaginas(b) \in Nat /\ CantPaginas(b) * TAM_PAGINA >= b
    BY <2>1, CantPaginasAlcanza
  <2>4. Prometidas'[p] = Prometidas[p] + CantPaginas(b)
    <3>1. PendientesDe(p)' = CantPaginas(b)
      BY <2>2 DEF PendientesDe
    <3> QED
      BY <1>2, <1>4, <1>5, <3>1 DEF Prometidas
  <2>5. tamanio_proceso'[p] = tamanio_proceso[p] + b
        /\ \A q \in Pid : q # p => tamanio_proceso'[q] = tamanio_proceso[q]
    BY <1>0, <1>2, <2>2 DEF Tamanios
  <2>6. p \in redujo' \/ /\ Prometidas'[p] \in Nat
                         /\ Prometidas'[p] * TAM_PAGINA >= tamanio_proceso'[p]
    <3> SUFFICES ASSUME p \notin redujo
                 PROVE  /\ Prometidas'[p] \in Nat
                        /\ Prometidas'[p] * TAM_PAGINA >= tamanio_proceso'[p]
      BY <1>1
    <3> PICK j, c, s, x : j = Prometidas[p] /\ c = CantPaginas(b) /\ s = tamanio_proceso[p]
                          /\ x = TAM_PAGINA
      OBVIOUS
    <3>1. j \in Nat /\ j * x >= s /\ c \in Nat /\ c * x >= b /\ s \in Nat /\ x \in Nat
      BY <1>0, <1>2, <2>3, MemoriaAssumption DEF Cubiertos
    <3>2. (j + c) * x = j * x + c * x /\ j * x \in Nat /\ c * x \in Nat
      BY <3>1
    <3> PICK y, z : y = j * x /\ z = c * x
      OBVIOUS
    <3>3. y \in Nat /\ z \in Nat /\ y >= s /\ z >= b
      BY <3>1, <3>2
    <3>4. y + z >= s + b
      BY <2>1, <3>1, <3>3
    <3> QED
      BY <2>4, <2>5, <3>1, <3>2, <3>4
  <2>7. Cubiertos'
    BY <1>0, <1>1, <1>6, <2>2, <2>5, <2>6 DEF Cubiertos
  <2>8. Reducido'
    BY <2>2 DEF Reducido
  <2> QED
    BY <2>7, <2>8
<1> QED
  BY <1>7, <1>8, <1>9

(* Only a RESIZE to less leaves the thread of the CPU reducing.            *)
LEMMA ReducidoPaso ==
  ASSUME MmuInd, Reducido, Next, ~AtenderResize
  PROVE  Reducido'
<1>1. \/ UNCHANGED hilo_cpu
      \/ hilo_cpu' = [hilo_cpu EXCEPT !.n = @ - 1]
      \/ hilo_cpu' = HiloLibre
  <2>1. CASE Cpu
    BY <2>1 DEF Cpu, Fetch, Decodificar, TlbHit, ObtenerElMarco, RecibirMarco, EnviarMovIn,
         EnviarEscritura, EnviarAInterfaz, RecibirDato, RecibirResize, memoriaVars
  <2>2. CASE HiloCpu
    BY <2>2 DEF HiloCpu, EnviarInstrucciones, AtenderMarco, AtenderMovIn, AtenderMovOut,
         AtenderCopyString, RechazarResize, ContestarResize, TerminarResize, SeguirMemoria,
         AsignarMarco, LiberarMarco, LiberarMarcos, QuitarTabla, Escribir, CopyString, Caer,
         memoriaVars
  <2>3. CASE Desalojar
    BY <2>3 DEF Desalojar, memoriaVars
  <2>4. CASE \E p \in Pid : Kernel(p) \/ StdinRead(p) \/ StdoutWrite(p)
    BY <2>4 DEF Kernel, Crear, Despachar, Matar, Finalizar, CrearProceso, FinalizarProceso,
         Caer, Escribir, StdinRead, StdoutWrite, memoriaVars
  <2> QED
    BY <2>1, <2>2, <2>3, <2>4 DEF Next
<1>2. hilo_cpu \in Hilo
  BY DEF MmuInd
<1> QED
  BY <1>1, <1>2, RedujoQueda DEF Reducido, HiloLibre, Hilo

(* Every step.                                                             *)
LEMMA TamPaso ==
  ASSUME Matable, TamInd, [Next]_vars
  PROVE  TamInd'
<1>0. MmuInd /\ Cubiertos /\ Reducido /\ Anotado /\ 0 * TAM_PAGINA = 0
  BY MemoriaAssumption DEF TamInd
<1>1. MmuInd'
  BY <1>0, MmuPaso
<1>2. CASE UNCHANGED vars
  <2>1. UNCHANGED <<hilo_cpu, paginas, tamanio_proceso, redujo, canal>>
    BY <1>2 DEF vars, memoriaVars, kernelVars
  <2>2. Prometidas' = Prometidas
    BY <2>1 DEF Prometidas, PendientesDe
  <2>3. Cubiertos' /\ Reducido' /\ Anotado'
    BY <1>0, <2>1, <2>2 DEF Cubiertos, Reducido, Anotado
  <2> QED
    BY <1>1, <2>3 DEF TamInd
<1>3. CASE Next
  <2>1. Anotado' /\ redujo \subseteq redujo'
    BY <1>0, <1>1, <1>3, AnotadoPaso, RedujoQueda
  <2>2. CASE AtenderResize
    BY <1>1, <2>1, <2>2, ResizeCubre DEF TamInd
  <2>3. CASE ~AtenderResize
    <3>1. Reducido'
      BY <1>0, <1>3, <2>3, ReducidoPaso
    <3>2. tamanio_proceso \in [Pid -> Nat]
      BY <1>0 DEF MmuInd, EspacioInd, Tamanios
    <3>3. Prometidas = [p \in Pid |-> Prometidas[p]]
      BY DEF Prometidas
    <3>4. CASE QuitarTabla
      <4>1. PICK q \in Pid : /\ Prometidas' = [Prometidas EXCEPT ![q] = 0]
                             /\ tamanio_proceso' = [tamanio_proceso EXCEPT ![q] = 0]
        BY <1>0, <3>4, QuitarPrometidas
      <4>2. Cubiertos'
        BY <1>0, <2>1, <3>2, <3>3, <4>1 DEF Cubiertos
      <4> QED
        BY <1>1, <2>1, <3>1, <4>2 DEF TamInd
    <3>5. ASSUME NEW q \in Pid, Crear(q) PROVE TamInd'
      <4>1. /\ Prometidas' = Prometidas /\ Prometidas[q] = 0
            /\ tamanio_proceso' = [tamanio_proceso EXCEPT ![q] = 0]
        BY <1>0, <3>5, CrearPromete
      <4>2. Cubiertos'
        BY <1>0, <2>1, <3>2, <4>1 DEF Cubiertos
      <4> QED
        BY <1>1, <2>1, <3>1, <4>2 DEF TamInd
    <3>6. CASE ~QuitarTabla /\ ~\E q \in Pid : Crear(q)
      <4>1. Prometidas' = Prometidas /\ UNCHANGED tamanio_proceso
        BY <1>0, <1>3, <2>3, <3>6, PromesasIguales
      <4>2. Cubiertos'
        BY <1>0, <2>1, <4>1 DEF Cubiertos
      <4> QED
        BY <1>1, <2>1, <3>1, <4>2 DEF TamInd
    <3> QED
      BY <3>4, <3>5, <3>6
  <2> QED
    BY <2>2, <2>3
<1> QED
  BY <1>2, <1>3

(* Outside its RESIZE a process that has never shrunk has a page for each  *)
(* byte it was promised (envio_resize.c:34-52), for any programs, sizes    *)
(* and pages, as long as nobody finishes the process that runs: the pages  *)
(* it has and those ejecutar_ampliacion still owes it cover its size.      *)
THEOREM TablasSuficientes ==
  ASSUME Matable
  PROVE  Spec => []TablaDelTamanio
<1>1. Matable
  OBVIOUS
<1>2. Init => TamInd
  <2> SUFFICES ASSUME Init PROVE TamInd
    OBVIOUS
  <2>1. /\ canal = <<>> /\ hilo_cpu.op = "espera" /\ paginas = [p \in Pid |-> <<>>]
        /\ tamanio_proceso = [p \in Pid |-> 0]
    BY DEF Init, InicializarEstructuras, HiloLibre
  <2>2. \A p \in Pid : PendientesDe(p) = 0 /\ Len(paginas[p]) = 0
    BY <2>1, EmptySeq DEF PendientesDe
  <2>3. \A p \in Pid : Prometidas[p] = 0
    BY <2>2 DEF Prometidas
  <2>4. 0 * TAM_PAGINA = 0
    BY MemoriaAssumption
  <2>5. Cubiertos
    BY <2>1, <2>3, <2>4 DEF Cubiertos
  <2>6. Anotado /\ Reducido
    BY <2>1, Vacia DEF Anotado, Reducido
  <2> QED
    BY <2>5, <2>6, MmuInicial DEF TamInd
<1>3. TamInd /\ [Next]_vars => TamInd'
  BY <1>1, TamPaso
<1>4. TamInd => TablaDelTamanio
  <2> SUFFICES ASSUME TamInd, NEW p \in tablas, p \notin redujo, hilo_cpu.pid # p
               PROVE  Len(paginas[p]) * TAM_PAGINA >= tamanio_proceso[p]
    BY DEF TablaDelTamanio
  <2>1. p \in Pid /\ paginas \in [Pid -> Seq(Marco)]
    BY DEF TamInd, MmuInd, Inv, Control, MarcosTipos, EspacioInd, Tamanios
  <2>2. Len(paginas[p]) \in Nat /\ PendientesDe(p) = 0
    BY <2>1 DEF PendientesDe
  <2>3. Prometidas[p] = Len(paginas[p])
    BY <2>1, <2>2 DEF Prometidas
  <2> QED
    BY <2>1, <2>3 DEF TamInd, Cubiertos
<1> QED
  BY <1>2, <1>3, <1>4, PTL DEF Spec

-----------------------------------------------------------------------------
(* The TLB as a queue.                                                     *)

(* Times that tell the entries of a finite set apart.                      *)
Tiempos(O, f) == /\ IsFiniteSet(O) /\ f \in [O -> Int]
                 /\ \A i, j \in O : f[i] = f[j] => i = j

(* Each entry has a place of its own, from 1 to their number, and the      *)
(* older has the smaller.                                                  *)
LEMMA PuestosDe ==
  ASSUME NEW O, NEW f, Tiempos(O, f)
  PROVE  /\ Cardinality(O) \in Nat
         /\ \A i \in O : Puesto(f, i) \in 1 .. Cardinality(O)
         /\ \A i, j \in O : f[i] < f[j] => Puesto(f, i) < Puesto(f, j)
         /\ \A k \in 1 .. Cardinality(O) : \E i \in O : Puesto(f, i) = k
<1> DEFINE n == Cardinality(O)
           H(i) == {j \in O : f[j] <= f[i]}
<1>0. IsFiniteSet(O) /\ f \in [O -> Int] /\ DOMAIN f = O /\ \A i \in O : f[i] \in Int
  BY DEF Tiempos
<1>1. n \in Nat
  BY <1>0, FS_CardinalityType
<1>2. ASSUME NEW i \in O
      PROVE  /\ Puesto(f, i) = Cardinality(H(i)) /\ H(i) \subseteq O /\ IsFiniteSet(H(i))
             /\ Puesto(f, i) \in 1 .. n
  <2>1. Puesto(f, i) = Cardinality(H(i)) /\ H(i) \subseteq O /\ i \in H(i)
    BY <1>0 DEF Puesto
  <2> HIDE DEF H
  <2>2. IsFiniteSet(H(i)) /\ Cardinality(H(i)) <= n
    BY <1>0, <2>1, FS_Subset
  <2>3. Cardinality(H(i)) \in Nat
    BY <2>2, FS_CardinalityType
  <2>4. Cardinality(H(i)) # 0
    BY <2>1, <2>2, FS_EmptySet
  <2> QED
    BY <1>1, <2>1, <2>2, <2>3, <2>4
<1>3. ASSUME NEW i \in O, NEW j \in O, f[i] < f[j]
      PROVE  Puesto(f, i) < Puesto(f, j)
  <2>1. H(i) \subseteq H(j) /\ j \in H(j) /\ j \notin H(i)
    BY <1>0, <1>3
  <2> HIDE DEF H
  <2>2. Cardinality(H(i)) <= Cardinality(H(j)) /\ Cardinality(H(i)) # Cardinality(H(j))
    BY <1>2, <2>1, FS_Subset
  <2>3. Cardinality(H(i)) \in Nat /\ Cardinality(H(j)) \in Nat
    BY <1>2, FS_CardinalityType
  <2> QED
    BY <1>2, <2>2, <2>3
<1>4. \A k \in 1 .. n : \E i \in O : Puesto(f, i) = k
  <2> DEFINE g == [i \in O |-> Puesto(f, i)]
  <2>1. ASSUME NEW i \in O, NEW j \in O, i # j PROVE Puesto(f, i) # Puesto(f, j)
    <3>1. f[i] < f[j] \/ f[j] < f[i]
      BY <1>0, <2>1 DEF Tiempos
    <3>2. Puesto(f, i) \in 1 .. n /\ Puesto(f, j) \in 1 .. n
      BY <1>2
    <3>3. \A x \in 1 .. n : x \in Int
      OBVIOUS
    <3> QED
      BY <1>3, <3>1, <3>2, <3>3
  <2>2. g \in Injection(O, 1 .. n)
    <3>1. g \in [O -> 1 .. n] /\ DOMAIN g = O /\ \A i \in O : g[i] = Puesto(f, i)
      BY <1>2
    <3> HIDE DEF g, n
    <3>2. IsInjective(g)
      BY <2>1, <3>1 DEF IsInjective
    <3> QED
      BY <3>1, <3>2 DEF Injection
  <2>3. IsFiniteSet(1 .. n) /\ Cardinality(1 .. n) = n
    <3>1. 1 \in Int /\ n \in Int
      BY <1>1
    <3>2. IsFiniteSet(1 .. n) /\ Cardinality(1 .. n) = IF 1 > n THEN 0 ELSE n - 1 + 1
      BY <3>1, FS_Interval
    <3> HIDE DEF n
    <3> QED
      BY <1>1, <3>2
  <2>4. g \in Surjection(O, 1 .. n)
    <3> HIDE DEF g
    <3>1. Cardinality(O) = Cardinality(1 .. n)
      BY <2>3
    <3> QED
      BY <2>2, <2>3, <3>1, FS_Injection
  <2> QED
    BY <2>4 DEF Surjection
<1> QED
  BY <1>1, <1>2, <1>3, <1>4

(* The entry in a place is the one that has it.                            *)
LEMMA EnSuPuesto ==
  ASSUME NEW O, NEW f, Tiempos(O, f)
  PROVE  /\ \A i \in O : EnPuesto(f, Puesto(f, i)) = i
         /\ \A k \in 1 .. Cardinality(O) : EnPuesto(f, k) \in O /\ Puesto(f, EnPuesto(f, k)) = k
<1>0. DOMAIN f = O /\ \A i \in O : f[i] \in Int
  BY DEF Tiempos
<1>1. ASSUME NEW i \in O, NEW j \in O, Puesto(f, i) = Puesto(f, j) PROVE i = j
  <2>1. Puesto(f, i) \in Int /\ Puesto(f, j) \in Int
    BY PuestosDe
  <2>2. ~(f[i] < f[j]) /\ ~(f[j] < f[i])
    BY <1>1, <2>1, PuestosDe
  <2> QED
    BY <1>0, <2>2 DEF Tiempos
<1>2. \A i \in O : EnPuesto(f, Puesto(f, i)) = i
  BY <1>0, <1>1 DEF EnPuesto
<1>3. ASSUME NEW k \in 1 .. Cardinality(O)
      PROVE  EnPuesto(f, k) \in O /\ Puesto(f, EnPuesto(f, k)) = k
  <2>1. PICK i \in O : Puesto(f, i) = k
    BY PuestosDe
  <2> QED
    BY <1>2, <2>1
<1> QED
  BY <1>2, <1>3

(* g gives w the last time of all and keeps the order of the others, and u *)
(* keeps what they had.                                                    *)
AlUltimo(O, f, w, g) ==
  /\ g \in [O \cup {w} -> Int]
  /\ \A i, j \in O \ {w} : f[i] <= f[j] <=> g[i] <= g[j]
  /\ \A i \in O \ {w} : g[i] < g[w]

Conserva(O, w, X, t, u) ==
  t \in [O -> X] /\ u \in [O \cup {w} -> X] /\ \A j \in O \ {w} : u[j] = t[j]

(* The place of j without w.                                               *)
PuestoSin(O, f, w, j) == IF w \in O /\ f[w] < f[j] THEN Puesto(f, j) - 1 ELSE Puesto(f, j)

(* An entry is moved to the end or put there: the ones behind it advance   *)
(* one place.                                                              *)
LEMMA Mover ==
  ASSUME NEW O, NEW f, Tiempos(O, f), NEW w, NEW g, AlUltimo(O, f, w, g)
  PROVE  /\ Tiempos(O \cup {w}, g)
         /\ Cardinality(O \cup {w}) = IF w \in O THEN Cardinality(O) ELSE Cardinality(O) + 1
         /\ Puesto(g, w) = Cardinality(O \cup {w})
         /\ \A j \in O \ {w} : Puesto(g, j) = PuestoSin(O, f, w, j)
<1>0. /\ IsFiniteSet(O) /\ f \in [O -> Int] /\ DOMAIN f = O /\ \A i \in O : f[i] \in Int
      /\ DOMAIN g = O \cup {w} /\ \A i \in O \cup {w} : g[i] \in Int
      /\ g \in [O \cup {w} -> Int]
      /\ \A i, j \in O \ {w} : f[i] <= f[j] <=> g[i] <= g[j]
      /\ \A i \in O \ {w} : g[i] < g[w]
  BY DEF Tiempos, AlUltimo
<1>1. /\ IsFiniteSet(O \cup {w})
      /\ Cardinality(O \cup {w}) = IF w \in O THEN Cardinality(O) ELSE Cardinality(O) + 1
  BY <1>0, FS_AddElement
<1>2. Tiempos(O \cup {w}, g)
  <2>1. ASSUME NEW i \in O \cup {w}, NEW j \in O \cup {w}, g[i] = g[j] PROVE i = j
    <3>1. CASE i # w /\ j # w
      <4>1. f[i] <= f[j] /\ f[j] <= f[i]
        BY <1>0, <2>1, <3>1
      <4> QED
        BY <1>0, <3>1, <4>1 DEF Tiempos
    <3>2. CASE i = w \/ j = w
      BY <1>0, <2>1, <3>2
    <3> QED
      BY <3>1, <3>2
  <2> QED
    BY <1>0, <1>1, <2>1 DEF Tiempos
<1>3. Puesto(g, w) = Cardinality(O \cup {w})
  <2>1. {j \in DOMAIN g : g[j] <= g[w]} = O \cup {w}
    BY <1>0
  <2> QED
    BY <2>1 DEF Puesto
<1>4. ASSUME NEW j \in O \ {w} PROVE Puesto(g, j) = PuestoSin(O, f, w, j)
  <2> DEFINE H == {i \in O : f[i] <= f[j]}
  <2>1. {i \in DOMAIN g : g[i] <= g[j]} = H \ {w}
    <3>1. ~(g[w] <= g[j])
      BY <1>0
    <3> QED
      BY <1>0, <3>1
  <2>2. Puesto(f, j) = Cardinality(H) /\ Puesto(g, j) = Cardinality(H \ {w})
    BY <1>0, <2>1 DEF Puesto
  <2>3. IsFiniteSet(H)
    BY <1>0, FS_Subset
  <2>4. w \in H <=> w \in O /\ f[w] < f[j]
    BY <1>0 DEF Tiempos
  <2> HIDE DEF H
  <2>5. Cardinality(H \ {w}) = IF w \in H THEN Cardinality(H) - 1 ELSE Cardinality(H)
    BY <2>3, FS_RemoveElement
  <2> QED
    BY <2>2, <2>4, <2>5 DEF PuestoSin
<1> QED
  BY <1>1, <1>2, <1>3, <1>4

(* The queue has the translations of its entries.                          *)
LEMMA FilaTipo ==
  ASSUME NEW O, NEW f, Tiempos(O, f), NEW t
  PROVE  /\ Fila(t, f) = [k \in 1 .. Cardinality(O) |-> t[EnPuesto(f, k)]]
         /\ \A X : (\A i \in O : t[i] \in X) =>
              Fila(t, f) \in Seq(X) /\ Len(Fila(t, f)) = Cardinality(O)
<1> DEFINE n == Cardinality(O)
<1>1. DOMAIN f = O /\ n \in Nat
  BY PuestosDe DEF Tiempos
<1>2. Fila(t, f) = [k \in 1 .. n |-> t[EnPuesto(f, k)]]
  BY <1>1 DEF Fila
<1>3. ASSUME NEW X, \A i \in O : t[i] \in X
      PROVE  Fila(t, f) \in Seq(X) /\ Len(Fila(t, f)) = n
  <2>1. \A k \in 1 .. n : t[EnPuesto(f, k)] \in X
    BY <1>3, EnSuPuesto
  <2> HIDE DEF n
  <2>2. Fila(t, f) \in [1 .. n -> X]
    BY <1>2, <2>1
  <2> QED
    BY <1>1, <2>2
<1> QED
  BY <1>2, <1>3

(* What the movement does to the queue.                                    *)
LEMMA FilaMueve ==
  ASSUME NEW O, NEW f, Tiempos(O, f), NEW w, NEW g, AlUltimo(O, f, w, g),
         NEW X, NEW t, NEW u, Conserva(O, w, X, t, u)
  PROVE  /\ w \notin O => Fila(u, g) = Append(Fila(t, f), u[w])
         /\ w \in O => Fila(u, g) = Append(Ideal!Sin(Fila(t, f), Puesto(f, w)), u[w])
<1> DEFINE n == Cardinality(O)
           m == Cardinality(O \cup {w})
           s == Fila(t, f)
           z == Fila(u, g)
           p == Puesto(f, w)
           q == Ideal!Sin(s, p)
<1>0. /\ n \in Nat /\ Tiempos(O \cup {w}, g) /\ m = (IF w \in O THEN n ELSE n + 1)
      /\ Puesto(g, w) = m
      /\ \A j \in O \ {w} : Puesto(g, j) = PuestoSin(O, f, w, j)
  <2>1. n \in Nat
    BY PuestosDe
  <2>2. Tiempos(O \cup {w}, g)
    BY Mover
  <2>3. m = IF w \in O THEN n ELSE n + 1
    BY Mover
  <2>4. Puesto(g, w) = m
    BY Mover
  <2>5. \A j \in O \ {w} : Puesto(g, j) = PuestoSin(O, f, w, j)
    BY Mover, <2>2, <2>4
  <2> QED
    BY <2>1, <2>2, <2>3, <2>4, <2>5
<1> t \in [O -> X] /\ u \in [O \cup {w} -> X] /\ \A j \in O \ {w} : u[j] = t[j]
  BY DEF Conserva
<1>1. s \in Seq(X) /\ Len(s) = n /\ \A k \in 1 .. n : s[k] = t[EnPuesto(f, k)]
  <2>1. \A i \in O : t[i] \in X
    OBVIOUS
  <2>2. s = [k \in 1 .. n |-> t[EnPuesto(f, k)]]
    BY FilaTipo
  <2>3. s \in Seq(X) /\ Len(s) = n
    BY <2>1, FilaTipo
  <2> HIDE DEF s, n
  <2> QED
    BY <2>2, <2>3
<1>2. z \in Seq(X) /\ Len(z) = m /\ \A k \in 1 .. m : z[k] = u[EnPuesto(g, k)]
  <2> DEFINE V == O \cup {w}
  <2>1. Tiempos(V, g) /\ m = Cardinality(V) /\ \A i \in V : u[i] \in X
    BY <1>0
  <2> HIDE DEF V, m
  <2>2. z = [k \in 1 .. m |-> u[EnPuesto(g, k)]]
    BY <2>1, FilaTipo
  <2>3. z \in Seq(X) /\ Len(z) = m
    BY <2>1, FilaTipo
  <2> HIDE DEF z
  <2> QED
    BY <2>2, <2>3
<1>3. u[w] \in X /\ z[m] = u[w] /\ m \in 1 .. m
  <2>1. EnPuesto(g, m) = w
    BY <1>0, EnSuPuesto
  <2>2. m \in 1 .. m
    BY <1>0, PuestosDe
  <2> QED
    BY <1>2, <2>1, <2>2
<1>4. ASSUME NEW k \in 1 .. n, EnPuesto(f, k) # w
      PROVE  /\ w \in O => p # k
             /\ z[IF w \in O /\ p < k THEN k - 1 ELSE k] = s[k]
             /\ (IF w \in O /\ p < k THEN k - 1 ELSE k) \in 1 .. m
  <2> DEFINE j == EnPuesto(f, k)
             h == IF w \in O /\ p < k THEN k - 1 ELSE k
  <2>1. j \in O /\ j # w /\ Puesto(f, j) = k /\ f[j] \in Int
    BY <1>4, EnSuPuesto DEF Tiempos
  <2>2. w \in O => p \in 1 .. n /\ f[w] \in Int /\ (f[w] < f[j] => p < k) /\ (f[j] < f[w] => k < p)
    BY <2>1, PuestosDe DEF Tiempos
  <2>3. w \in O => (f[w] < f[j] <=> p < k) /\ p # k
    <3>1. w \in O => f[w] # f[j]
      BY <2>1 DEF Tiempos
    <3> HIDE DEF j, n, p
    <3> QED
      BY <2>1, <2>2, <3>1
  <2>4. Puesto(g, j) = h
    BY <1>0, <2>1, <2>3 DEF PuestoSin
  <2>5. EnPuesto(g, h) = j /\ h \in 1 .. m
    BY <1>0, <2>1, <2>4, EnSuPuesto, PuestosDe
  <2>6. z[h] = u[j] /\ s[k] = t[j] /\ u[j] = t[j]
    BY <1>1, <1>2, <2>1, <2>5
  <2> QED
    BY <2>3, <2>5, <2>6
<1>5. ASSUME w \notin O PROVE z = Append(s, u[w])
  <2>1. m = n + 1
    BY <1>0, <1>5
  <2>2. ASSUME NEW k \in 1 .. n PROVE z[k] = s[k]
    <3>1. EnPuesto(f, k) # w
      BY <1>5, EnSuPuesto
    <3> QED
      BY <1>4, <1>5, <3>1
  <2> HIDE DEF s, z, n, m
  <2>3. /\ Append(s, u[w]) \in Seq(X) /\ Len(Append(s, u[w])) = n + 1
        /\ \A k \in 1 .. n : Append(s, u[w])[k] = s[k]
        /\ Append(s, u[w])[n + 1] = u[w]
    BY <1>1, <1>3, AppendProperties
  <2>4. \A k \in 1 .. n + 1 : k \in 1 .. n \/ k = n + 1
    BY <1>0
  <2>5. \A k \in 1 .. n + 1 : z[k] = Append(s, u[w])[k]
    BY <1>3, <2>1, <2>2, <2>3, <2>4
  <2> QED
    BY <1>2, <2>1, <2>3, <2>5, SeqEqual
<1>6. ASSUME w \in O PROVE z = Append(q, u[w])
  <2>1. m = n /\ p \in 1 .. n /\ n \in Nat \ {0}
    <3>1. p \in 1 .. n
      BY <1>6, PuestosDe
    <3> HIDE DEF p, n, m
    <3> QED
      BY <1>0, <1>6, <3>1
  <2>2. EnPuesto(f, p) = w
    BY <1>6, EnSuPuesto
  <2>3. \A k \in 1 .. n : k # p => EnPuesto(f, k) # w
    BY <1>6, EnSuPuesto
  <2>4. q = [k \in 1 .. n - 1 |-> IF k < p THEN s[k] ELSE s[k + 1]]
    BY <1>1 DEF Ideal!Sin
  <2> HIDE DEF s, z, n, m, p, q
  <2>5. \A k \in 1 .. n - 1 : /\ k \in 1 .. n /\ k + 1 \in 1 .. n
                              /\ k + 1 - 1 = k /\ (k < p => k # p /\ ~(p < k))
                              /\ (~(k < p) => p < k + 1 /\ k + 1 # p)
    BY <2>1
  <2>6. ASSUME NEW k \in 1 .. n - 1 PROVE z[k] = q[k]
    <3>1. CASE k < p
      BY <1>4, <1>6, <2>3, <2>4, <2>5, <3>1
    <3>2. CASE ~(k < p)
      <4>1. z[IF w \in O /\ p < k + 1 THEN (k + 1) - 1 ELSE k + 1] = s[k + 1]
        BY <1>4, <2>3, <2>5, <3>2
      <4>2. z[k] = s[k + 1]
        BY <1>6, <2>5, <3>2, <4>1
      <4> QED
        BY <2>4, <3>2, <4>2
    <3> QED
      BY <3>1, <3>2
  <2>7. q \in Seq(X) /\ Len(q) = n - 1
    <3>1. \A k \in 1 .. n : s[k] \in X
      BY <1>1
    <3>2. q \in [1 .. n - 1 -> X]
      BY <2>4, <2>5, <3>1
    <3>3. n - 1 \in Nat
      BY <2>1
    <3> QED
      BY <3>2, <3>3
  <2>8. /\ Append(q, u[w]) \in Seq(X) /\ Len(Append(q, u[w])) = n - 1 + 1
        /\ \A k \in 1 .. n - 1 : Append(q, u[w])[k] = q[k]
        /\ Append(q, u[w])[n - 1 + 1] = u[w]
    BY <1>3, <2>7, AppendProperties
  <2>9. n - 1 + 1 = n /\ \A k \in 1 .. n : k \in 1 .. n - 1 \/ k = n
    BY <2>1
  <2>10. \A k \in 1 .. n : z[k] = Append(q, u[w])[k]
    BY <1>3, <2>1, <2>6, <2>8, <2>9
  <2> QED
    BY <1>2, <2>1, <2>8, <2>9, <2>10, SeqEqual
<1> QED
  BY <1>5, <1>6

(* Every time is in the past, no two entries have the same one, and a used *)
(* entry has a frame.                                                      *)
Tope == IF algoritmo_tlb = "FIFO" THEN contador_fifo ELSE 0

TiemposTlb ==
  /\ \A i, j \in Ocupadas : Llegada[i] = Llegada[j] => i = j
  /\ \A i \in Ocupadas : Llegada[i] < Tope /\ tlb[i].marco \in Marco

(* The used entries and what they keep.                                    *)
LEMMA OcupadasTipo ==
  ASSUME TlbInd, TiemposTlb
  PROVE  /\ Tiempos(Ocupadas, Llegada)
         /\ Guardadas \in [Ocupadas -> Ideal!Traduccion]
         /\ \A i \in Ocupadas : Guardadas[i] \in Ideal!Traduccion
<1>1. PICK n \in Entradas : DOMAIN tlb = 1 .. n
  BY DEF TlbInd
<1>2. IsFiniteSet(Ocupadas)
  <2>1. 1 \in Int /\ n \in Int
    BY TlbAssumption
  <2>2. IsFiniteSet(1 .. n)
    BY <2>1, FS_Interval
  <2>3. Ocupadas \subseteq 1 .. n
    BY <1>1 DEF Ocupadas
  <2> QED
    BY <2>2, <2>3, FS_Subset
<1>3. ASSUME NEW i \in Ocupadas
      PROVE  /\ tlb[i] \in Entrada /\ tlb[i].pid \in Pid /\ tlb[i].pagina \in Nat
             /\ tlb[i].marco \in Marco
  <2>1. EntradaBuena(tlb[i], contador_fifo, algoritmo_tlb) /\ ~tlb[i].is_free
    BY DEF TlbInd, Ocupadas
  <2> QED
    BY <2>1 DEF EntradaBuena, Entrada, TiemposTlb
<1>4. ASSUME NEW i \in Ocupadas PROVE Llegada[i] \in Int
  <2>1. tlb[i].llegada_fifo \in Int /\ tlb[i].last_time_lru \in Int
    BY <1>3 DEF Entrada
  <2> QED
    BY <2>1 DEF Llegada
<1>5. Llegada \in [Ocupadas -> Int]
  <2>1. Llegada = [i \in Ocupadas |-> Llegada[i]]
    BY DEF Llegada
  <2> QED
    BY <1>4, <2>1
<1>6. Tiempos(Ocupadas, Llegada)
  BY <1>2, <1>5 DEF Tiempos, TiemposTlb
<1>7. \A i \in Ocupadas : Guardadas[i] \in Ideal!Traduccion
  BY <1>3 DEF Guardadas, Ideal!Traduccion
<1>8. Guardadas \in [Ocupadas -> Ideal!Traduccion]
  <2>1. Guardadas = [i \in Ocupadas |-> Guardadas[i]]
    BY DEF Guardadas
  <2> QED
    BY <1>7, <2>1
<1> QED
  BY <1>6, <1>7, <1>8

(* actualizar_algortimos leaves what an entry translates (cpu.c:1100).     *)
LEMMA Envejece ==
  ASSUME NEW t, \A i \in DOMAIN t : t[i] \in Entrada, Actualizar(t),
         algoritmo_tlb \in {"FIFO", "LRU"}
  PROVE  /\ DOMAIN tlb' = DOMAIN t /\ algoritmo_tlb' = algoritmo_tlb
         /\ contador_fifo' = IF algoritmo_tlb = "FIFO" THEN contador_fifo + 1 ELSE contador_fifo
         /\ \A i \in DOMAIN t :
              /\ tlb'[i].is_free = t[i].is_free /\ tlb'[i].pid = t[i].pid
              /\ tlb'[i].pagina = t[i].pagina /\ tlb'[i].marco = t[i].marco
              /\ tlb'[i].llegada_fifo = t[i].llegada_fifo
              /\ algoritmo_tlb = "LRU" /\ ~t[i].is_free =>
                   tlb'[i].last_time_lru = t[i].last_time_lru + 1
<1>1. CASE algoritmo_tlb = "FIFO"
  BY <1>1 DEF Actualizar
<1>2. CASE algoritmo_tlb = "LRU"
  <2>1. /\ tlb' = [i \in DOMAIN t |-> IF t[i].is_free THEN t[i]
                                      ELSE [t[i] EXCEPT !.last_time_lru = @ + 1]]
        /\ contador_fifo' = contador_fifo /\ algoritmo_tlb' = "LRU"
    BY <1>2 DEF Actualizar
  <2>2. ASSUME NEW e \in Entrada, NEW d, d = [e EXCEPT !.last_time_lru = @ + 1]
        PROVE  /\ d.is_free = e.is_free /\ d.pid = e.pid /\ d.pagina = e.pagina
               /\ d.marco = e.marco /\ d.llegada_fifo = e.llegada_fifo
               /\ d.last_time_lru = e.last_time_lru + 1
    BY <2>2 DEF Entrada
  <2>3. \A i \in DOMAIN t :
          tlb'[i] = IF t[i].is_free THEN t[i] ELSE [t[i] EXCEPT !.last_time_lru = @ + 1]
    BY <2>1
  <2>4. ASSUME NEW i \in DOMAIN t
        PROVE  /\ tlb'[i].is_free = t[i].is_free /\ tlb'[i].pid = t[i].pid
               /\ tlb'[i].pagina = t[i].pagina /\ tlb'[i].marco = t[i].marco
               /\ tlb'[i].llegada_fifo = t[i].llegada_fifo
               /\ ~t[i].is_free => tlb'[i].last_time_lru = t[i].last_time_lru + 1
    <3>1. CASE t[i].is_free
      BY <2>3, <3>1
    <3>2. CASE ~t[i].is_free
      BY <2>2, <2>3, <3>2
    <3> QED
      BY <3>1, <3>2
  <2> QED
    BY <1>2, <2>1, <2>4
<1> QED
  BY <1>1, <1>2

(* t is the TLB with the entry w written, or touched under LRU.            *)
Escrita(t, w) ==
  /\ w \in DOMAIN tlb /\ DOMAIN t = DOMAIN tlb
  /\ \A j \in DOMAIN tlb : j # w => t[j] = tlb[j]
  /\ t[w] \in Entrada /\ ~t[w].is_free /\ t[w].marco \in Marco
  /\ IF algoritmo_tlb = "FIFO" THEN t[w].llegada_fifo = contador_fifo
                               ELSE t[w].last_time_lru = 0

(* w becomes the last to have come, and the others keep their order and    *)
(* what they translate.                                                    *)
UltimaEntrada(w) ==
  /\ Ocupadas' = Ocupadas \cup {w} /\ AlUltimo(Ocupadas, Llegada, w, Llegada')
  /\ \A i \in Ocupadas \ {w} : Guardadas'[i] = Guardadas[i]

(* That is what writing or touching an entry does.                         *)
LEMMA AlFinal ==
  ASSUME TlbInd, TiemposTlb, NEW t, NEW w, Escrita(t, w), Actualizar(t)
  PROVE  /\ UltimaEntrada(w) /\ TiemposTlb'
         /\ Guardadas'[w] = [pid |-> t[w].pid, pagina |-> t[w].pagina, marco |-> t[w].marco]
<1> /\ w \in DOMAIN tlb /\ DOMAIN t = DOMAIN tlb
    /\ \A j \in DOMAIN tlb : j # w => t[j] = tlb[j]
    /\ t[w] \in Entrada /\ ~t[w].is_free /\ t[w].marco \in Marco
    /\ IF algoritmo_tlb = "FIFO" THEN t[w].llegada_fifo = contador_fifo
                                 ELSE t[w].last_time_lru = 0
  BY DEF Escrita
<1> DEFINE O == Ocupadas
<1>0. /\ algoritmo_tlb \in {"FIFO", "LRU"} /\ contador_fifo \in Nat
      /\ \A i \in DOMAIN tlb : tlb[i] \in Entrada
      /\ \A i \in O : Llegada[i] \in Int /\ Llegada[i] < Tope /\ tlb[i].marco \in Marco
      /\ \A i, j \in O : Llegada[i] = Llegada[j] => i = j
  BY OcupadasTipo DEF TlbInd, EntradaBuena, Tiempos, TiemposTlb
<1>1. \A i \in DOMAIN t : t[i] \in Entrada
  BY <1>0
<1>2. /\ DOMAIN tlb' = DOMAIN tlb /\ algoritmo_tlb' = algoritmo_tlb
      /\ contador_fifo' = IF algoritmo_tlb = "FIFO" THEN contador_fifo + 1 ELSE contador_fifo
      /\ \A i \in DOMAIN tlb :
           /\ tlb'[i].is_free = t[i].is_free /\ tlb'[i].pid = t[i].pid
           /\ tlb'[i].pagina = t[i].pagina /\ tlb'[i].marco = t[i].marco
           /\ tlb'[i].llegada_fifo = t[i].llegada_fifo
           /\ algoritmo_tlb = "LRU" /\ ~t[i].is_free =>
                tlb'[i].last_time_lru = t[i].last_time_lru + 1
  BY <1>0, <1>1, Envejece
<1>3. Ocupadas' = O \cup {w}
  BY <1>2 DEF Ocupadas
<1>4. /\ \A i \in O : i \in DOMAIN tlb /\ ~tlb[i].is_free
      /\ \A i \in O \ {w} : t[i] = tlb[i]
  BY DEF Ocupadas
<1>5. /\ \A i \in O : Llegada[i] = IF algoritmo_tlb = "FIFO" THEN tlb[i].llegada_fifo
                                   ELSE -tlb[i].last_time_lru
      /\ Llegada' = [i \in O \cup {w} |-> IF algoritmo_tlb = "FIFO" THEN tlb'[i].llegada_fifo
                                          ELSE -tlb'[i].last_time_lru]
      /\ Guardadas = [i \in O |->
           [pid |-> tlb[i].pid, pagina |-> tlb[i].pagina, marco |-> tlb[i].marco]]
      /\ Guardadas' = [i \in O \cup {w} |->
           [pid |-> tlb'[i].pid, pagina |-> tlb'[i].pagina, marco |-> tlb'[i].marco]]
  BY <1>2, <1>3 DEF Llegada, Guardadas
<1>6. ASSUME NEW i \in O \ {w}
      PROVE  /\ Llegada'[i] = IF algoritmo_tlb = "FIFO" THEN Llegada[i] ELSE Llegada[i] - 1
             /\ tlb'[i].marco \in Marco /\ Guardadas'[i] = Guardadas[i]
  <2>1. /\ i \in O /\ i \in DOMAIN tlb /\ t[i] = tlb[i] /\ ~tlb[i].is_free
        /\ tlb[i].last_time_lru \in Int /\ tlb[i].llegada_fifo \in Int
    BY <1>0, <1>4 DEF Entrada
  <2>2. \A x \in Int : -(x + 1) = (-x) - 1
    OBVIOUS
  <2>3. Llegada'[i] = IF algoritmo_tlb = "FIFO" THEN Llegada[i] ELSE Llegada[i] - 1
    BY <1>0, <1>2, <1>5, <2>1, <2>2
  <2> QED
    BY <1>0, <1>2, <1>5, <2>1, <2>3
<1>7. /\ Llegada'[w] = IF algoritmo_tlb = "FIFO" THEN contador_fifo ELSE -1
      /\ tlb'[w].marco \in Marco
      /\ Guardadas'[w] = [pid |-> t[w].pid, pagina |-> t[w].pagina, marco |-> t[w].marco]
  BY <1>0, <1>2, <1>5
<1>8. /\ \A i \in O : Llegada[i] < (IF algoritmo_tlb = "FIFO" THEN contador_fifo ELSE 0)
      /\ Tope' = IF algoritmo_tlb = "FIFO" THEN contador_fifo + 1 ELSE 0
  BY <1>0, <1>2 DEF Tope
<1> HIDE DEF O
<1>9. \A i \in O \ {w} : Llegada'[i] \in Int /\ Llegada'[i] < Llegada'[w] /\ Llegada'[i] < Tope'
  BY <1>0, <1>6, <1>7, <1>8
<1>10. Llegada'[w] \in Int /\ Llegada'[w] < Tope'
  BY <1>0, <1>7, <1>8
<1>11. Llegada' \in [O \cup {w} -> Int]
  <2>1. \A i \in O \cup {w} : Llegada'[i] \in Int
    BY <1>9, <1>10
  <2>2. Llegada' = [i \in O \cup {w} |-> Llegada'[i]]
    BY <1>5
  <2> QED
    BY <2>1, <2>2
<1>12. \A i, j \in O \ {w} :
         /\ Llegada[i] <= Llegada[j] <=> Llegada'[i] <= Llegada'[j]
         /\ Llegada'[i] = Llegada'[j] => i = j
  BY <1>0, <1>6
<1>13. TiemposTlb'
  <2>1. ASSUME NEW i \in O \cup {w}, NEW j \in O \cup {w}, Llegada'[i] = Llegada'[j]
        PROVE  i = j
    <3>1. CASE i # w /\ j # w
      BY <1>12, <2>1, <3>1
    <3>2. CASE i # w /\ j = w
      BY <1>9, <1>10, <2>1, <3>2
    <3>3. CASE i = w /\ j # w
      BY <1>9, <1>10, <2>1, <3>3
    <3> QED
      BY <3>1, <3>2, <3>3
  <2>2. \A i \in O \cup {w} : Llegada'[i] < Tope' /\ tlb'[i].marco \in Marco
    BY <1>6, <1>7, <1>9, <1>10
  <2> QED
    BY <1>3, <2>1, <2>2 DEF O, TiemposTlb, Marco
<1>14. AlUltimo(O, Llegada, w, Llegada')
  BY <1>9, <1>11, <1>12 DEF AlUltimo
<1>15. UltimaEntrada(w)
  BY <1>3, <1>6, <1>14 DEF O, UltimaEntrada
<1> QED
  BY <1>7, <1>13, <1>15

(* The queue of the TLB: as many translations as used entries.             *)
LEMMA ColaTipo ==
  ASSUME TlbInd, TiemposTlb
  PROVE  /\ ColaTlb \in Seq(Ideal!Traduccion) /\ Len(ColaTlb) = Cardinality(Ocupadas)
         /\ DOMAIN ColaTlb = 1 .. Cardinality(Ocupadas)
         /\ \A k \in 1 .. Cardinality(Ocupadas) :
              ColaTlb[k] = Guardadas[EnPuesto(Llegada, k)] /\ EnPuesto(Llegada, k) \in Ocupadas
         /\ Len(tlb) \in Nat /\ DOMAIN tlb = 1 .. Len(tlb)
<1> DEFINE n == Cardinality(Ocupadas)
<1>1. Tiempos(Ocupadas, Llegada) /\ \A i \in Ocupadas : Guardadas[i] \in Ideal!Traduccion
  BY OcupadasTipo
<1>2. ColaTlb = [k \in 1 .. n |-> Guardadas[EnPuesto(Llegada, k)]]
  BY <1>1, FilaTipo DEF ColaTlb
<1>3. ColaTlb \in Seq(Ideal!Traduccion) /\ Len(ColaTlb) = n
  BY <1>1, FilaTipo DEF ColaTlb
<1>4. \A k \in 1 .. n : EnPuesto(Llegada, k) \in Ocupadas
  BY <1>1, EnSuPuesto
<1>5. Len(tlb) \in Nat /\ DOMAIN tlb = 1 .. Len(tlb)
  <2>1. PICK m \in Entradas : DOMAIN tlb = 1 .. m
    BY DEF TlbInd
  <2>2. m \in Nat
    BY TlbAssumption
  <2>3. tlb \in [1 .. m -> Entrada]
    BY <2>1 DEF TlbInd, EntradaBuena
  <2>4. tlb \in Seq(Entrada)
    BY <2>2, <2>3
  <2> QED
    BY <2>4, LenProperties
<1> HIDE DEF n
<1> QED
  BY <1>2, <1>3, <1>4, <1>5 DEF n

(* The same of the next state.                                             *)
LEMMA OcupadasDespues ==
  (TlbInd /\ TiemposTlb =>
     Tiempos(Ocupadas, Llegada) /\ Guardadas \in [Ocupadas -> Ideal!Traduccion])'
<1>1. TlbInd /\ TiemposTlb =>
        Tiempos(Ocupadas, Llegada) /\ Guardadas \in [Ocupadas -> Ideal!Traduccion]
  BY OcupadasTipo
<1> QED
  BY <1>1, PTL

(* The queue after an entry has become the last.                           *)
LEMMA ColaAlFinal ==
  ASSUME TlbInd, TiemposTlb, TlbInd', TiemposTlb', NEW w, UltimaEntrada(w)
  PROVE  /\ w \notin Ocupadas => ColaTlb' = Append(ColaTlb, Guardadas'[w])
         /\ w \in Ocupadas =>
              ColaTlb' = Append(Ideal!Sin(ColaTlb, Puesto(Llegada, w)), Guardadas'[w])
<1> PICK O, f, t, g, u : /\ O = Ocupadas /\ f = Llegada /\ t = Guardadas
                         /\ g = Llegada' /\ u = Guardadas'
  OBVIOUS
<1> DEFINE X == Ideal!Traduccion
<1>1. Tiempos(O, f) /\ t \in [O -> X]
  BY OcupadasTipo
<1>3. u \in [O \cup {w} -> X]
  <2>1. Guardadas' \in [Ocupadas' -> X']
    BY OcupadasDespues, Zenon
  <2>2. X' = X /\ Ocupadas' = O \cup {w}
    BY DEF Ideal!Traduccion, UltimaEntrada
  <2> HIDE DEF X
  <2> QED
    BY <2>1, <2>2
<1>4. AlUltimo(O, f, w, g)
  BY DEF UltimaEntrada
<1>5. Conserva(O, w, X, t, u)
  BY <1>1, <1>3 DEF Conserva, UltimaEntrada
<1> HIDE DEF X
<1>7. /\ w \notin O => Fila(u, g) = Append(Fila(t, f), u[w])
      /\ w \in O => Fila(u, g) = Append(Ideal!Sin(Fila(t, f), Puesto(f, w)), u[w])
  BY <1>1, <1>4, <1>5, FilaMueve
<1>6. ColaTlb = Fila(t, f) /\ ColaTlb' = Fila(u, g)
  BY DEF ColaTlb
<1> QED
  BY <1>6, <1>7

(* The TLB has as many entries as positions.                               *)
LEMMA LargoTlb ==
  ASSUME TlbInd', DOMAIN tlb' = DOMAIN tlb, TlbInd
  PROVE  Len(tlb') = Len(tlb)
<1>1. PICK m \in Entradas : DOMAIN tlb = 1 .. m
  BY DEF TlbInd
<1>2. m \in Nat
  BY TlbAssumption
<1>3. tlb \in [1 .. m -> Entrada]
  BY <1>1 DEF TlbInd, EntradaBuena
<1>4. tlb' \in [1 .. m -> Entrada]
  <2>1. tlb' = [i \in DOMAIN tlb |-> tlb'[i]]
    BY DEF TlbInd
  <2>2. \A i \in DOMAIN tlb : tlb'[i] \in Entrada
    BY DEF TlbInd, EntradaBuena, Entrada
  <2> QED
    BY <1>1, <2>1, <2>2
<1>5. tlb \in Seq(Entrada) /\ Len(tlb) = m
  BY <1>2, <1>3
<1>6. tlb' \in Seq(Entrada) /\ Len(tlb') = m
  BY <1>2, <1>4
<1> QED
  BY <1>5, <1>6

(* consultar_tlb moves the translation it finds to the end, under LRU      *)
(* (cpu.c:1076).                                                           *)
LEMMA ConsultaCola ==
  ASSUME TlbInd, TiemposTlb, NEW p \in Pid, NEW pag, ConsultarTlb(p, pag)
  PROVE  /\ TiemposTlb' /\ Len(tlb') = Len(tlb) /\ algoritmo_tlb' = algoritmo_tlb
         /\ \E k \in DOMAIN ColaTlb :
              /\ ColaTlb[k] = [pid |-> p, pagina |-> pag, marco |-> MarcoEnTlb(p, pag)]
              /\ ColaTlb' = IF algoritmo_tlb = "LRU"
                            THEN Append(Ideal!Sin(ColaTlb, k), ColaTlb[k]) ELSE ColaTlb
<1> DEFINE i == PrimeraDe(Coincide(p, pag))
           t == [tlb EXCEPT ![i].last_time_lru = 0]
           k == Puesto(Llegada, i)
<1>0. /\ algoritmo_tlb \in {"FIFO", "LRU"} /\ contador_fifo \in Nat
      /\ \A j \in DOMAIN tlb : EntradaBuena(tlb[j], contador_fifo, algoritmo_tlb)
      /\ \A j \in Ocupadas : j \in DOMAIN tlb /\ tlb[j].marco \in Marco
  BY DEF TlbInd, TiemposTlb, Ocupadas
<1>1. TlbInd'
  BY ConsultaTlb
<1>2. i \in DOMAIN tlb /\ tlb[i].pid = p /\ tlb[i].pagina = pag
  <2>1. Coincide(p, pag) \subseteq Nat /\ Coincide(p, pag) # {}
    BY ColaTipo DEF Coincide, ConsultarTlb
  <2>2. i \in Coincide(p, pag)
    BY <2>1, HayPrimera
  <2> QED
    BY <2>2 DEF Coincide
<1>3. i \in Ocupadas /\ tlb[i] \in Entrada /\ ~tlb[i].is_free
  <2>1. EntradaLibre.pid = SIN_PID
    BY DEF EntradaLibre
  <2> QED
    BY <1>0, <1>2, <2>1, MmuAssumption DEF EntradaBuena, Ocupadas
<1>4. Actualizar(t) /\ MarcoEnTlb(p, pag) = tlb[i].marco
  BY DEF ConsultarTlb, MarcoEnTlb
<1> HIDE DEF i
<1>5. /\ DOMAIN t = DOMAIN tlb /\ \A j \in DOMAIN tlb : j # i => t[j] = tlb[j]
      /\ t[i] = [tlb[i] EXCEPT !.last_time_lru = 0]
  BY <1>2
<1>6. /\ t[i] \in Entrada /\ ~t[i].is_free /\ t[i].marco = tlb[i].marco /\ t[i].pid = p
      /\ t[i].pagina = pag /\ t[i].last_time_lru = 0
      /\ t[i].llegada_fifo = tlb[i].llegada_fifo
  <2>1. ASSUME NEW e \in Entrada, NEW d, d = [e EXCEPT !.last_time_lru = 0]
        PROVE  /\ d \in Entrada /\ d.is_free = e.is_free /\ d.marco = e.marco /\ d.pid = e.pid
               /\ d.pagina = e.pagina /\ d.last_time_lru = 0 /\ d.llegada_fifo = e.llegada_fifo
    BY <2>1 DEF Entrada
  <2> HIDE DEF t
  <2> QED
    BY <1>2, <1>3, <1>5, <2>1
<1> HIDE DEF t
<1>7. k \in DOMAIN ColaTlb /\ ColaTlb[k] = Guardadas[i]
  <2>1. Tiempos(Ocupadas, Llegada)
    BY OcupadasTipo
  <2>2. k \in 1 .. Cardinality(Ocupadas) /\ EnPuesto(Llegada, k) = i
    BY <1>3, <2>1, PuestosDe, EnSuPuesto
  <2> QED
    BY <2>2, ColaTipo
<1>8. Guardadas[i] = [pid |-> p, pagina |-> pag, marco |-> MarcoEnTlb(p, pag)]
  BY <1>2, <1>3, <1>4 DEF Guardadas
<1>9. Len(tlb') = Len(tlb) /\ DOMAIN tlb' = DOMAIN tlb /\ algoritmo_tlb' = algoritmo_tlb
  <2>1. \A j \in DOMAIN t : t[j] \in Entrada
    BY <1>0, <1>5, <1>6 DEF EntradaBuena
  <2>2. DOMAIN tlb' = DOMAIN tlb /\ algoritmo_tlb' = algoritmo_tlb
    BY <1>0, <1>4, <1>5, <2>1, Envejece
  <2> QED
    BY <1>1, <2>2, LargoTlb
<1>10. CASE algoritmo_tlb = "LRU"
  <2>1. Escrita(t, i)
    BY <1>0, <1>2, <1>3, <1>5, <1>6, <1>10 DEF Escrita
  <2>4. /\ UltimaEntrada(i) /\ TiemposTlb'
        /\ Guardadas'[i] = [pid |-> t[i].pid, pagina |-> t[i].pagina, marco |-> t[i].marco]
    BY <1>4, <2>1, AlFinal
  <2>2. ColaTlb' = Append(Ideal!Sin(ColaTlb, k), Guardadas'[i])
    BY <1>1, <1>3, <2>4, ColaAlFinal
  <2>3. Guardadas'[i] = ColaTlb[k]
    BY <1>4, <1>6, <1>7, <1>8, <2>4
  <2> HIDE DEF k
  <2> QED
    BY <1>4, <1>7, <1>8, <1>9, <1>10, <2>2, <2>3, <2>4
<1>11. CASE algoritmo_tlb = "FIFO"
  <2>1. tlb' = t /\ contador_fifo' = contador_fifo + 1 /\ algoritmo_tlb' = algoritmo_tlb
    BY <1>4, <1>11 DEF Actualizar
  <2>2. Ocupadas' = Ocupadas
    BY <1>3, <1>5, <1>6, <2>1 DEF Ocupadas
  <2>3. \A j \in Ocupadas : /\ tlb'[j].llegada_fifo = tlb[j].llegada_fifo
                            /\ tlb'[j].pid = tlb[j].pid /\ tlb'[j].pagina = tlb[j].pagina
                            /\ tlb'[j].marco = tlb[j].marco
    BY <1>0, <1>2, <1>5, <1>6, <2>1
  <2>4. Llegada' = Llegada
    BY <1>11, <2>1, <2>2, <2>3 DEF Llegada
  <2>5. Guardadas' = Guardadas
    BY <2>2, <2>3 DEF Guardadas
  <2>6. TiemposTlb'
    <3>1. Tope' = Tope + 1 /\ Tope \in Int /\ \A j \in Ocupadas : Llegada[j] \in Int
      BY <1>0, <1>11, <2>1, OcupadasTipo DEF Tope, Tiempos
    <3>2. \A j \in Ocupadas : Llegada[j] < Tope /\ tlb'[j].marco \in Marco
      BY <1>0, <2>3 DEF TiemposTlb
    <3>3. \A j \in Ocupadas : Llegada[j] < Tope'
      BY <3>1, <3>2
    <3> QED
      BY <2>2, <2>4, <3>2, <3>3 DEF TiemposTlb, Marco
  <2>7. ColaTlb' = ColaTlb
    BY <2>4, <2>5 DEF ColaTlb
  <2> HIDE DEF k
  <2> QED
    BY <1>4, <1>7, <1>8, <1>9, <1>11, <2>6, <2>7
<1> QED
  BY <1>0, <1>10, <1>11

(* With no room left, the victim is the first of the queue (cpu.c:1120).   *)
LEMMA VictimaPrimera ==
  ASSUME TlbInd, TiemposTlb, Ocupadas # {}
  PROVE  EjecutarAlgoritmo \in Ocupadas /\ Puesto(Llegada, EjecutarAlgoritmo) = 1
<1> DEFINE S == {i \in Ocupadas : \A j \in Ocupadas : Llegada[i] <= Llegada[j]}
<1>1. /\ Tiempos(Ocupadas, Llegada) /\ \A i \in Ocupadas : Llegada[i] \in Int
      /\ IsFiniteSet(Ocupadas)
  BY OcupadasTipo DEF Tiempos
<1>2. 1 \in 1 .. Cardinality(Ocupadas)
  <2>1. Cardinality(Ocupadas) \in Nat /\ Cardinality(Ocupadas) # 0
    BY <1>1, FS_CardinalityType, FS_EmptySet
  <2> QED
    BY <2>1
<1>3. PICK a \in Ocupadas : Puesto(Llegada, a) = 1
  BY <1>1, <1>2, PuestosDe
<1>4. ASSUME NEW j \in Ocupadas PROVE Llegada[a] <= Llegada[j]
  <2>1. Puesto(Llegada, j) \in 1 .. Cardinality(Ocupadas)
    BY <1>1, PuestosDe
  <2>2. ~(Puesto(Llegada, j) < Puesto(Llegada, a))
    BY <1>1, <1>3, <2>1, FS_CardinalityType
  <2>3. ~(Llegada[j] < Llegada[a])
    BY <1>1, <2>2, PuestosDe
  <2> QED
    BY <1>1, <2>3
<1>5. S = {a}
  <2>1. ASSUME NEW i \in S PROVE i = a
    <3>1. i \in Ocupadas /\ Llegada[i] <= Llegada[a]
      OBVIOUS
    <3>2. Llegada[i] = Llegada[a]
      BY <1>1, <1>4, <3>1
    <3> QED
      BY <1>1, <3>1, <3>2 DEF Tiempos
  <2> QED
    BY <1>4, <2>1
<1>6. EjecutarAlgoritmo = PrimeraDe(S)
  <2>1. CASE algoritmo_tlb = "FIFO"
    <3>1. S = {i \in Ocupadas : \A j \in Ocupadas : tlb[i].llegada_fifo <= tlb[j].llegada_fifo}
      BY <2>1 DEF Llegada
    <3> HIDE DEF S
    <3> QED
      BY <2>1, <3>1 DEF EjecutarAlgoritmo, EjecutarFifo
  <2>2. CASE algoritmo_tlb # "FIFO"
    <3>1. \A i \in Ocupadas : tlb[i].last_time_lru \in Int
      BY DEF TlbInd, EntradaBuena, Entrada, Ocupadas
    <3>2. \A i, j \in Ocupadas :
            Llegada[i] <= Llegada[j] <=> tlb[i].last_time_lru >= tlb[j].last_time_lru
      BY <2>2, <3>1 DEF Llegada
    <3>3. S = {i \in Ocupadas :
                 \A j \in Ocupadas : tlb[i].last_time_lru >= tlb[j].last_time_lru}
      BY <3>2
    <3> HIDE DEF S
    <3> QED
      BY <2>2, <3>3 DEF EjecutarAlgoritmo, EjecutarLru
  <2> QED
    BY <2>1, <2>2
<1>7. S \subseteq Nat /\ S # {}
  <2>1. Ocupadas \subseteq Nat
    BY ColaTipo DEF Ocupadas
  <2> QED
    BY <1>5, <2>1
<1>8. PrimeraDe(S) \in S
  <2> HIDE DEF S
  <2> QED
    BY <1>7, HayPrimera
<1> QED
  BY <1>3, <1>5, <1>6, <1>8

(* insertar_tlb puts the translation at the end and, with no room left,    *)
(* drops the first (cpu.c:1100).                                           *)
LEMMA InsercionCola ==
  ASSUME TlbInd, TiemposTlb, NEW p \in Pid, NEW pag \in Nat, NEW marco \in Marco,
         DOMAIN tlb # {}, InsertarTlb(p, pag, marco),
         NEW d, d = [pid |-> p, pagina |-> pag, marco |-> marco]
  PROVE  /\ TiemposTlb' /\ Len(tlb') = Len(tlb) /\ algoritmo_tlb' = algoritmo_tlb
         /\ ColaTlb' = IF Len(ColaTlb) < Len(tlb) THEN Append(ColaTlb, d)
                       ELSE Append(Ideal!Sin(ColaTlb, 1), d)
         /\ Len(ColaTlb) < Len(tlb) \/ ColaTlb # <<>>
<1> DEFINE w == Lugar
           e == [pid |-> p, pagina |-> pag, marco |-> marco, is_free |-> FALSE,
                 llegada_fifo |-> contador_fifo, last_time_lru |-> 0]
           t == [tlb EXCEPT ![w] = e]
           libres == DOMAIN tlb \ Ocupadas
<1>0. /\ algoritmo_tlb \in {"FIFO", "LRU"} /\ contador_fifo \in Nat
      /\ \A j \in DOMAIN tlb : tlb[j] \in Entrada
      /\ Ocupadas \subseteq DOMAIN tlb /\ Ocupadas \subseteq 1 .. Len(tlb)
      /\ Len(tlb) \in Nat /\ DOMAIN tlb = 1 .. Len(tlb) /\ marco \in Nat
  <2>1. Len(tlb) \in Nat /\ DOMAIN tlb = 1 .. Len(tlb)
    BY ColaTipo
  <2>2. Ocupadas \subseteq DOMAIN tlb
    BY DEF Ocupadas
  <2>3. \A j \in DOMAIN tlb : tlb[j] \in Entrada
    BY DEF TlbInd, EntradaBuena
  <2>4. marco \in Nat
    BY DEF Marco
  <2> QED
    BY <2>1, <2>2, <2>3, <2>4 DEF TlbInd
<1>1. TlbInd'
  BY <1>0, InsercionTlb
<1>2. IsFiniteSet(1 .. Len(tlb)) /\ Cardinality(1 .. Len(tlb)) = Len(tlb)
  <2>1. 1 \in Int /\ Len(tlb) \in Int
    BY <1>0
  <2>2. IsFiniteSet(1 .. Len(tlb)) /\ Cardinality(1 .. Len(tlb)) = IF 1 > Len(tlb) THEN 0
                                                                  ELSE Len(tlb) - 1 + 1
    BY <2>1, FS_Interval
  <2> QED
    BY <1>0, <2>2
<1>3. \/ w \in libres /\ Len(ColaTlb) < Len(tlb)
      \/ /\ w \in Ocupadas /\ Puesto(Llegada, w) = 1 /\ ~(Len(ColaTlb) < Len(tlb))
         /\ ColaTlb # <<>>
  <2>1. Len(ColaTlb) = Cardinality(Ocupadas)
    BY ColaTipo
  <2>2. CASE libres # {}
    <3>1. libres \subseteq Nat
      BY <1>0
    <3>2. w \in libres
      <4>1. w = PrimeraDe(libres)
        BY <2>2 DEF Lugar
      <4> HIDE DEF libres, w
      <4> QED
        BY <2>2, <3>1, <4>1, HayPrimera
    <3>3. Ocupadas # 1 .. Len(tlb)
      BY <1>0, <2>2
    <3>4. /\ Cardinality(Ocupadas) <= Cardinality(1 .. Len(tlb))
          /\ Cardinality(Ocupadas) # Cardinality(1 .. Len(tlb)) /\ IsFiniteSet(Ocupadas)
      BY <1>0, <1>2, <3>3, FS_Subset
    <3>5. Cardinality(Ocupadas) \in Nat
      BY <3>4, FS_CardinalityType
    <3> HIDE DEF libres, w
    <3> QED
      BY <1>0, <1>2, <2>1, <3>2, <3>4, <3>5
  <2>3. CASE libres = {}
    <3>1. Ocupadas = 1 .. Len(tlb) /\ Ocupadas # {}
      BY <1>0, <2>3
    <3>2. w = EjecutarAlgoritmo
      BY <2>3 DEF Lugar
    <3>3. Len(ColaTlb) = Len(tlb) /\ Len(tlb) # 0
      BY <1>0, <1>2, <2>1, <3>1
    <3>4. ColaTlb # <<>>
      BY <3>3, EmptySeq
    <3> HIDE DEF w
    <3> QED
      BY <1>0, <3>1, <3>2, <3>3, <3>4, VictimaPrimera
  <2> QED
    BY <2>2, <2>3
<1>4. w \in DOMAIN tlb
  <2> HIDE DEF w
  <2> QED
    BY <1>0, <1>3
<1>5. Actualizar(t)
  BY DEF InsertarTlb
<1> HIDE DEF w
<1>6. /\ DOMAIN t = DOMAIN tlb /\ \A j \in DOMAIN tlb : j # w => t[j] = tlb[j]
      /\ t[w] = e
  BY <1>4
<1>7. /\ e \in Entrada /\ ~e.is_free /\ e.marco = marco /\ e.pid = p /\ e.pagina = pag
      /\ e.llegada_fifo = contador_fifo /\ e.last_time_lru = 0
  BY <1>0 DEF Entrada
<1> HIDE DEF t, e
<1>8. Escrita(t, w)
  BY <1>4, <1>6, <1>7 DEF Escrita
<1>9. UltimaEntrada(w) /\ TiemposTlb' /\ Guardadas'[w] = d
  BY <1>5, <1>6, <1>7, <1>8, AlFinal
<1>10. Len(tlb') = Len(tlb) /\ algoritmo_tlb' = algoritmo_tlb
  <2>1. \A j \in DOMAIN t : t[j] \in Entrada
    BY <1>0, <1>6, <1>7
  <2>2. DOMAIN tlb' = DOMAIN tlb /\ algoritmo_tlb' = algoritmo_tlb
    BY <1>0, <1>5, <1>6, <2>1, Envejece
  <2> QED
    BY <1>1, <2>2, LargoTlb
<1>11. /\ w \notin Ocupadas => ColaTlb' = Append(ColaTlb, d)
       /\ w \in Ocupadas => ColaTlb' = Append(Ideal!Sin(ColaTlb, Puesto(Llegada, w)), d)
  BY <1>1, <1>9, ColaAlFinal
<1> QED
  BY <1>3, <1>9, <1>10, <1>11

-----------------------------------------------------------------------------
(* The TLB is the ideal cache.                                             *)

(* A page is asked for only when the TLB has not got it, and between two   *)
(* instructions nothing is translated.                                     *)
SinTraducir ==
  /\ paso = "marco" => Coincide(pcb, Pagina) = {}
  /\ paso \in {"ciclo", "instruccion", "resize"} => traducidas = <<>>

CacheInd == MmuInd /\ TiemposTlb /\ SinTraducir

(* The last translation, once one more address has it.                     *)
LEMMA UltimaDe ==
  ASSUME \E S : traducidas \in Seq(S), NEW f, traducidas' = Traducida(f),
         UNCHANGED <<pcb, inst>>
  PROVE  UltimaTraduccion' = [pid |-> pcb, pagina |-> Pagina, marco |-> f]
<1> DEFINE e == [marco |-> f, desplazamiento |-> Logica - Pagina * TAM_PAGINA]
           n == Len(traducidas)
<1>1. PICK S : traducidas \in Seq(S)
  OBVIOUS
<1>2. traducidas' = Append(traducidas, e)
  BY DEF Traducida
<1>3. e.marco = f
  OBVIOUS
<1> HIDE DEF e
<1>4. /\ Append(traducidas, e) \in Seq(S \cup {e}) /\ Len(Append(traducidas, e)) = n + 1
      /\ Append(traducidas, e)[n + 1] = e /\ n \in Nat
  BY <1>1, CanalAppend
<1>5. traducidas' # <<>>
  BY <1>2, <1>4, EmptySeq
<1>6. Last(traducidas') = e /\ Len(traducidas') = n + 1
  BY <1>2, <1>4 DEF Last
<1>7. UltimaTraduccion' = [pid |-> pcb, pagina |-> inst.dirs[n + 1] \div TAM_PAGINA,
                           marco |-> e.marco]
  BY <1>5, <1>6 DEF UltimaTraduccion
<1>8. inst.dirs[n + 1] \div TAM_PAGINA = Pagina
  BY DEF Pagina, Logica
<1> QED
  BY <1>3, <1>7, <1>8

(* The TLB has no memory of its own when it has no entries, and only two   *)
(* steps use it.                                                           *)
LEMMA TlbQuieta ==
  ASSUME TlbInd, TiemposTlb, UNCHANGED tlbVars
  PROVE  TiemposTlb' /\ ColaTlb' = ColaTlb /\ Len(tlb') = Len(tlb) /\ UNCHANGED algoritmo_tlb
<1>1. tlb' = tlb /\ algoritmo_tlb' = algoritmo_tlb /\ contador_fifo' = contador_fifo
  BY DEF tlbVars
<1>2. Ocupadas' = Ocupadas
  BY <1>1 DEF Ocupadas
<1>3. Llegada' = Llegada /\ Guardadas' = Guardadas
  BY <1>1, <1>2 DEF Llegada, Guardadas
<1>4. ColaTlb' = ColaTlb
  BY <1>3 DEF ColaTlb
<1>5. TiemposTlb'
  BY <1>1, <1>2, <1>3 DEF TiemposTlb, Tope, Marco
<1> QED
  BY <1>1, <1>4, <1>5

(* TlbHit is a hit of the ideal cache.                                     *)
LEMMA AciertoIdeal ==
  ASSUME CacheInd, TlbHit
  PROVE  TiemposTlb' /\ Ideal!Acierto
<1>1. /\ pcb \in Pid /\ ConsultarTlb(pcb, Pagina) /\ TlbInd /\ TiemposTlb
      /\ \E S : traducidas \in Seq(S)
      /\ traducidas' = Traducida(MarcoEnTlb(pcb, Pagina)) /\ UNCHANGED <<pcb, inst>>
  BY DEF CacheInd, MmuInd, Inv, Control, CpuInv, Trabajo, EnCurso, TlbHit, FaltaTraducir
<1>2. UltimaTraduccion' = [pid |-> pcb, pagina |-> Pagina, marco |-> MarcoEnTlb(pcb, Pagina)]
  BY <1>1, UltimaDe
<1>3. /\ TiemposTlb' /\ Len(tlb') = Len(tlb) /\ algoritmo_tlb' = algoritmo_tlb
      /\ \E k \in DOMAIN ColaTlb :
           /\ ColaTlb[k] = [pid |-> pcb, pagina |-> Pagina, marco |-> MarcoEnTlb(pcb, Pagina)]
           /\ ColaTlb' = IF algoritmo_tlb = "LRU"
                         THEN Append(Ideal!Sin(ColaTlb, k), ColaTlb[k]) ELSE ColaTlb
  BY <1>1, ConsultaCola
<1> QED
  BY <1>2, <1>3 DEF Ideal!Acierto

(* RecibirMarco is a miss.                                                 *)
LEMMA FallaIdeal ==
  ASSUME CacheInd, RecibirMarco
  PROVE  TiemposTlb' /\ Ideal!Falla
<1> DEFINE d == [pid |-> pcb, pagina |-> Pagina, marco |-> respuesta.valor]
<1>1. /\ pcb \in Pid /\ TlbInd /\ TiemposTlb /\ Coincide(pcb, Pagina) = {}
      /\ \E S : traducidas \in Seq(S) /\ respuesta.valor \in Marco
      /\ inst \in Instrucciones /\ Len(traducidas) < Len(inst.dirs)
      /\ traducidas' = Traducida(respuesta.valor) /\ UNCHANGED <<pcb, inst>>
  BY DEF CacheInd, SinTraducir, MmuInd, Inv, Control, CpuInv, Trabajo, EnCurso, RecibirMarco
<1>2. Pagina \in Nat
  BY <1>1, PaginaTipo
<1>3. UltimaTraduccion' = d
  BY <1>1, UltimaDe
<1>4. d \in Ideal!Traduccion
  BY <1>1, <1>2 DEF Ideal!Traduccion
<1>5. \A k \in DOMAIN ColaTlb : ~Ideal!MismaPagina(ColaTlb[k], d)
  <2> SUFFICES ASSUME NEW k \in DOMAIN ColaTlb, Ideal!MismaPagina(ColaTlb[k], d) PROVE FALSE
    OBVIOUS
  <2>1. PICK i \in Ocupadas : ColaTlb[k] = Guardadas[i]
    BY <1>1, ColaTipo
  <2>2. tlb[i].pid = pcb /\ tlb[i].pagina = Pagina /\ i \in DOMAIN tlb
    BY <2>1 DEF Guardadas, Ideal!MismaPagina, Ocupadas
  <2> QED
    BY <1>1, <2>2 DEF Coincide
<1> HIDE DEF d
<1>6. CASE DOMAIN tlb = {}
  <2>1. UNCHANGED tlbVars
    BY <1>6 DEF RecibirMarco
  <2>2. TiemposTlb' /\ ColaTlb' = ColaTlb /\ Len(tlb') = Len(tlb) /\ UNCHANGED algoritmo_tlb
    BY <1>1, <2>1, TlbQuieta
  <2>3. Ocupadas = {}
    BY <1>6 DEF Ocupadas
  <2>4. Len(ColaTlb) = 0 /\ ColaTlb \in Seq(Ideal!Traduccion)
    BY <1>1, <2>3, ColaTipo, FS_EmptySet
  <2>5. ColaTlb = <<>>
    BY <2>4, EmptySeq
  <2>6. ~(0 < Len(tlb))
    <3>1. Len(tlb) \in Nat /\ DOMAIN tlb = 1 .. Len(tlb)
      BY <1>1, ColaTipo
    <3>2. \A m \in Nat : 0 < m => 1 \in 1 .. m
      OBVIOUS
    <3> QED
      BY <1>6, <3>1, <3>2
  <2> QED
    BY <1>3, <1>4, <1>5, <2>2, <2>4, <2>5, <2>6 DEF Ideal!Falla
<1>7. CASE DOMAIN tlb # {}
  <2>1. InsertarTlb(pcb, Pagina, respuesta.valor)
    BY <1>7 DEF RecibirMarco
  <2>2. PICK c \in Ideal!Traduccion :
          c = [pid |-> pcb, pagina |-> Pagina, marco |-> respuesta.valor]
    BY <1>4 DEF d
  <2>3. /\ TiemposTlb' /\ Len(tlb') = Len(tlb) /\ algoritmo_tlb' = algoritmo_tlb
        /\ ColaTlb' = IF Len(ColaTlb) < Len(tlb) THEN Append(ColaTlb, c)
                      ELSE Append(Ideal!Sin(ColaTlb, 1), c)
        /\ Len(ColaTlb) < Len(tlb) \/ ColaTlb # <<>>
    BY <1>1, <1>2, <1>7, <2>1, <2>2, InsercionCola
  <2>4. c = UltimaTraduccion'
    BY <1>3, <2>2 DEF d
  <2> QED
    BY <1>3, <1>4, <1>5, <2>3, <2>4 DEF Ideal!Falla
<1> QED
  BY <1>6, <1>7

(* Every other step leaves the TLB alone, and forgets the last translation *)
(* or keeps it.                                                            *)
LEMMA RestoIdeal ==
  ASSUME CacheInd, Next, ~TlbHit, ~RecibirMarco
  PROVE  /\ UNCHANGED tlbVars /\ SinTraducir'
         /\ UltimaTraduccion' = NADA \/ UltimaTraduccion' = UltimaTraduccion
<1> DEFINE Igual == UNCHANGED <<tlb, contador_fifo, algoritmo_tlb, pcb, paso, inst, traducidas>>
<1>0. /\ paso = "marco" => Coincide(pcb, Pagina) = {}
      /\ paso \in {"ciclo", "instruccion", "resize"} => traducidas = <<>>
      /\ paso # "ciclo" => pcb # NADIE
  BY DEF CacheInd, SinTraducir, MmuInd, Inv, Control, CpuInv
<1>1. CASE Igual
  BY <1>0, <1>1 DEF tlbVars, SinTraducir, Coincide, Pagina, Logica, UltimaTraduccion
<1>2. CASE /\ UNCHANGED <<tlb, contador_fifo, algoritmo_tlb>> /\ traducidas' = <<>>
           /\ paso' # "marco"
  BY <1>2 DEF tlbVars, SinTraducir, UltimaTraduccion
<1>3. CASE ObtenerElMarco
  <2>1. /\ UNCHANGED <<tlb, contador_fifo, algoritmo_tlb, pcb, inst, traducidas>>
        /\ paso' = "marco" /\ Coincide(pcb, Pagina) = {}
    BY <1>3 DEF ObtenerElMarco, tlbVars
  <2> QED
    BY <2>1 DEF tlbVars, SinTraducir, Coincide, Pagina, Logica, UltimaTraduccion
<1>4. CASE EnviarMovIn
  <2>1. UNCHANGED <<tlb, contador_fifo, algoritmo_tlb, pcb, inst, traducidas>> /\ paso' = "dato"
    BY <1>4 DEF EnviarMovIn, tlbVars
  <2> QED
    BY <2>1 DEF tlbVars, SinTraducir, UltimaTraduccion
<1>5. CASE Cpu
  <2>1. CASE Fetch
    <3>1. /\ UNCHANGED <<tlb, contador_fifo, algoritmo_tlb, traducidas>> /\ paso = "ciclo"
          /\ paso' = "instruccion"
      BY <2>1 DEF Fetch, tlbVars
    <3> QED
      BY <1>0, <1>2, <3>1
  <2>2. CASE RecibirResize
    <3>1. /\ UNCHANGED <<tlb, contador_fifo, algoritmo_tlb, traducidas>> /\ paso = "resize"
          /\ paso' = "ciclo"
      BY <2>2 DEF RecibirResize, tlbVars
    <3> QED
      BY <1>0, <1>2, <3>1
  <2>3. CASE Decodificar \/ EnviarEscritura \/ EnviarAInterfaz \/ RecibirDato
    <3>1. /\ UNCHANGED <<tlb, contador_fifo, algoritmo_tlb>> /\ traducidas' = <<>>
          /\ paso' # "marco"
      BY <2>3 DEF Decodificar, EnviarEscritura, EnviarAInterfaz, RecibirDato, tlbVars
    <3> QED
      BY <1>2, <3>1
  <2> QED
    BY <1>3, <1>4, <1>5, <2>1, <2>2, <2>3 DEF Cpu
<1>6. CASE HiloCpu
  <2>1. RestoCpu
    BY <1>6 DEF HiloCpu, EnviarInstrucciones, AtenderMarco, AtenderMovIn, AtenderMovOut,
         AtenderCopyString, AtenderResize, RechazarResize, ContestarResize, SeguirMemoria
  <2>2. Igual
    BY <2>1 DEF RestoCpu, tlbVars, cpuVars
  <2> QED
    BY <1>1, <2>2
<1>7. CASE Desalojar \/ \E p \in Pid : Despachar(p)
  <2>1. /\ UNCHANGED <<tlb, contador_fifo, algoritmo_tlb, paso, traducidas>> /\ paso = "ciclo"
    BY <1>0, <1>7 DEF Desalojar, Despachar, tlbVars
  <2> QED
    BY <1>0, <1>2, <2>1
<1>8. CASE \E p \in Pid : Crear(p) \/ Matar(p) \/ Finalizar(p) \/ StdinRead(p) \/ StdoutWrite(p)
  <2>1. Igual
    BY <1>8 DEF Crear, Matar, Finalizar, StdinRead, StdoutWrite, Devolver, tlbVars, cpuVars
  <2> QED
    BY <1>1, <2>1
<1> QED
  BY <1>5, <1>6, <1>7, <1>8 DEF Next, Kernel

(* IniciarEntradaTlb makes an empty cache.                                 *)
LEMMA CacheInicial == Init => CacheInd /\ Ideal!Init
<1> SUFFICES ASSUME Init PROVE CacheInd /\ Ideal!Init
  OBVIOUS
<1>1. /\ IniciarEntradaTlb /\ paso = "ciclo" /\ traducidas = <<>>
      /\ algoritmo_tlb \in {"FIFO", "LRU"}
  BY DEF Init, IniciarEntradaTlb
<1>2. MmuInd /\ TlbInd
  BY MmuInicial DEF MmuInd
<1>3. Ocupadas = {}
  BY <1>1 DEF IniciarEntradaTlb, Ocupadas, EntradaLibre
<1>4. TiemposTlb
  BY <1>3 DEF TiemposTlb
<1>5. SinTraducir /\ UltimaTraduccion = NADA
  BY <1>1 DEF SinTraducir, UltimaTraduccion
<1>6. ColaTlb \in Seq(Ideal!Traduccion) /\ Len(ColaTlb) = 0 /\ Len(tlb) \in Nat
  BY <1>2, <1>3, <1>4, ColaTipo, FS_EmptySet
<1>7. ColaTlb = <<>>
  BY <1>6, EmptySeq
<1> QED
  BY <1>1, <1>2, <1>4, <1>5, <1>6, <1>7 DEF CacheInd, Ideal!Init

(* Every step of the system is one of the cache, or none.                  *)
LEMMA CachePaso ==
  ASSUME Matable, CacheInd, [Next]_vars
  PROVE  CacheInd' /\ [Ideal!Next]_(Ideal!vars)
<1>1. MmuInd' /\ TlbInd /\ TiemposTlb
  BY MmuPaso DEF CacheInd, MmuInd
<1>2. CASE TlbHit
  <2>1. TiemposTlb' /\ Ideal!Acierto
    BY <1>2, AciertoIdeal
  <2>2. SinTraducir'
    BY <1>2 DEF TlbHit, FaltaTraducir, SinTraducir
  <2> QED
    BY <1>1, <2>1, <2>2 DEF CacheInd, Ideal!Next
<1>3. CASE RecibirMarco
  <2>1. TiemposTlb' /\ Ideal!Falla
    BY <1>3, FallaIdeal
  <2>2. SinTraducir'
    BY <1>3 DEF RecibirMarco, SinTraducir
  <2> QED
    BY <1>1, <2>1, <2>2 DEF CacheInd, Ideal!Next
<1>4. CASE /\ UNCHANGED tlbVars /\ SinTraducir'
           /\ UltimaTraduccion' = NADA \/ UltimaTraduccion' = UltimaTraduccion
  <2>1. TiemposTlb' /\ ColaTlb' = ColaTlb /\ Len(tlb') = Len(tlb) /\ UNCHANGED algoritmo_tlb
    BY <1>1, <1>4, TlbQuieta
  <2> QED
    BY <1>1, <1>4, <2>1 DEF CacheInd, Ideal!Next, Ideal!Usada, Ideal!vars
<1>5. CASE Next /\ ~TlbHit /\ ~RecibirMarco
  BY <1>4, <1>5, RestoIdeal
<1>6. CASE UNCHANGED vars
  <2>1. UNCHANGED <<tlb, contador_fifo, algoritmo_tlb, pcb, paso, inst, traducidas>>
    BY <1>6 DEF vars, tlbVars, cpuVars
  <2>2. SinTraducir' /\ UltimaTraduccion' = UltimaTraduccion /\ UNCHANGED tlbVars
    BY <2>1 DEF CacheInd, SinTraducir, Coincide, Pagina, Logica, UltimaTraduccion, tlbVars
  <2> QED
    BY <1>4, <2>2
<1> QED
  BY <1>2, <1>3, <1>5, <1>6

(* The TLB (cpu.c:1076-1200) implements a cache: no page twice, a hit      *)
(* gives the translation kept, and the victim is the first to have come    *)
(* (FIFO) or the one nobody has used for longest (LRU), for any number of  *)
(* entries, zero included, and any programs.                               *)
THEOREM CacheCumplida ==
  ASSUME Matable
  PROVE  Spec => CumpleCacheIdeal
<1>1. Matable
  OBVIOUS
<1>2. Init => CacheInd /\ Ideal!Init
  BY CacheInicial
<1>3. CacheInd /\ [Next]_vars => CacheInd' /\ [Ideal!Next]_(Ideal!vars)
  BY <1>1, CachePaso
<1> QED
  BY <1>2, <1>3, PTL DEF Spec, CumpleCacheIdeal, Ideal!Spec
=============================================================================
