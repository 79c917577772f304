------------------------------- MODULE Memoria -------------------------------
(***************************************************************************)
(* The memory server (memoria/src): frames, page tables and user space.    *)
(* Each connection has its own thread and nothing is locked: the thread of *)
(* the CPU resizes one page at a time while the thread of the kernel       *)
(* releases the frames of a finished process one at a time.  Accesses are  *)
(* physical: whoever asks has translated the address before.               *)
(*                                                                         *)
(* The field pid of a frame only feeds a log line and is left out; an      *)
(* access to a NULL page, frame or table kills the server (caida).         *)
(***************************************************************************)
EXTENDS Integers, Sequences, FiniteSets

CONSTANTS Pid,          \* processes; the kernel never uses a pid twice
          TAM_MEMORIA,  \* bytes of user space
          TAM_PAGINA,   \* bytes of a page
          NADIE,        \* no process
          BASURA        \* what malloc leaves in every byte

ASSUME MemoriaAssumption == /\ TAM_MEMORIA \in Nat
                            /\ TAM_PAGINA \in Nat \ {0}
                            /\ NADIE \notin Pid

VARIABLES is_free,             \* [Marco -> BOOLEAN]
          tablas,              \* the pids in lista_tabla_paginas
          paginas,             \* frames of each table, in page order
          tamanio_proceso,     \* bytes each process asked for
          espacio_disponible,  \* bytes nobody asked for
          espacio_usuario,     \* the bytes
          hilo_cpu,            \* the RESIZE the thread of the CPU is in
          hilo_kernel,         \* the FINALIZAR the thread of the kernel is in
          caida                \* the server has died

memoriaVars == <<is_free, tablas, paginas, tamanio_proceso, espacio_disponible,
                 espacio_usuario, hilo_cpu, hilo_kernel, caida>>

Marco == 0 .. TAM_MEMORIA \div TAM_PAGINA - 1
Direccion == 0 .. TAM_MEMORIA - 1
CantPaginas_Truncada(bytes) == bytes \div TAM_PAGINA
CantPaginas(bytes) == (bytes + TAM_PAGINA - 1) \div TAM_PAGINA

HiloLibre == [op |-> "espera", pid |-> NADIE, n |-> 0]
Hilo == [op : {"espera", "amplia", "reduce", "libera"}, pid : Pid \cup {NADIE}, n : Nat]

MemoriaTypeOK ==
  /\ is_free \in [Marco -> BOOLEAN]
  /\ tablas \subseteq Pid
  /\ paginas \in [Pid -> Seq(Marco)]
  /\ tamanio_proceso \in [Pid -> Nat]
  /\ espacio_disponible \in Nat
  /\ hilo_cpu \in Hilo
  /\ hilo_kernel \in Hilo
  /\ caida \in BOOLEAN

InicializarEstructuras ==
  /\ is_free = [f \in Marco |-> TRUE]
  /\ tablas = {}
  /\ paginas = [p \in Pid |-> <<>>]
  /\ tamanio_proceso = [p \in Pid |-> 0]
  /\ espacio_disponible = TAM_MEMORIA
  /\ espacio_usuario = [d \in Direccion |-> BASURA]
  /\ hilo_cpu = HiloLibre
  /\ hilo_kernel = HiloLibre
  /\ caida = FALSE

Caer == /\ caida' = TRUE
        /\ UNCHANGED <<is_free, tablas, paginas, tamanio_proceso,
                       espacio_disponible, espacio_usuario, hilo_cpu, hilo_kernel>>

-----------------------------------------------------------------------------
(* The thread of the kernel.                                               *)

CrearProceso(p) ==
  /\ hilo_kernel.op = "espera" /\ p \notin tablas
  /\ tablas' = tablas \cup {p}
  /\ paginas' = [paginas EXCEPT ![p] = <<>>]
  /\ tamanio_proceso' = [tamanio_proceso EXCEPT ![p] = 0]
  /\ UNCHANGED <<is_free, espacio_disponible, espacio_usuario, hilo_cpu, hilo_kernel, caida>>

(* The bytes of the process go back before its frames do.                  *)
FinalizarProceso_EspacioAntes(p) ==
  /\ hilo_kernel.op = "espera" /\ p \in tablas
  /\ hilo_kernel' = [op |-> "libera", pid |-> p, n |-> 1]
  /\ espacio_disponible' = espacio_disponible + tamanio_proceso[p]
  /\ UNCHANGED <<is_free, tablas, paginas, tamanio_proceso, espacio_usuario, hilo_cpu, caida>>

FinalizarProceso(p) ==
  /\ hilo_kernel.op = "espera"
  /\ IF p \in tablas
     THEN /\ hilo_kernel' = [op |-> "libera", pid |-> p, n |-> 1]
          /\ UNCHANGED <<is_free, tablas, paginas, tamanio_proceso, espacio_disponible,
                         espacio_usuario, hilo_cpu, caida>>
     ELSE Caer

(* liberar_marcos, one frame.                                              *)
LiberarMarcos ==
  /\ hilo_kernel.op = "libera" /\ hilo_kernel.n <= Len(paginas[hilo_kernel.pid])
  /\ is_free' = [is_free EXCEPT ![paginas[hilo_kernel.pid][hilo_kernel.n]] = TRUE]
  /\ hilo_kernel' = [hilo_kernel EXCEPT !.n = @ + 1]
  /\ UNCHANGED <<tablas, paginas, tamanio_proceso, espacio_disponible, espacio_usuario,
                 hilo_cpu, caida>>

(* The table is destroyed; its bytes do not go back to espacio_disponible. *)
QuitarTabla ==
  /\ hilo_kernel.op = "libera" /\ hilo_kernel.n > Len(paginas[hilo_kernel.pid])
  /\ tablas' = tablas \ {hilo_kernel.pid}
  /\ paginas' = [paginas EXCEPT ![hilo_kernel.pid] = <<>>]
  /\ tamanio_proceso' = [tamanio_proceso EXCEPT ![hilo_kernel.pid] = 0]
  /\ hilo_kernel' = HiloLibre
  /\ UNCHANGED <<is_free, espacio_disponible, espacio_usuario, hilo_cpu, caida>>

(* The frames the thread of the kernel may have released since another     *)
(* thread looked.                                                          *)
EnLiberacion ==
  IF hilo_kernel.op = "libera"
  THEN {paginas[hilo_kernel.pid][j] : j \in 1 .. Len(paginas[hilo_kernel.pid])}
  ELSE {}

-----------------------------------------------------------------------------
(* The thread of the CPU: RESIZE.                                          *)

EjecutarReduccion(p, bytes) ==
  /\ espacio_disponible' = espacio_disponible + bytes
  /\ tamanio_proceso' = [tamanio_proceso EXCEPT ![p] = @ - bytes]
  /\ hilo_cpu' = [op |-> "reduce", pid |-> p, n |-> CantPaginas(bytes)]

EjecutarAmpliacion_SinDescontar(p, bytes) ==
  /\ UNCHANGED espacio_disponible
  /\ tamanio_proceso' = [tamanio_proceso EXCEPT ![p] = @ + bytes]
  /\ hilo_cpu' = [op |-> "amplia", pid |-> p, n |-> CantPaginas(bytes)]

EjecutarAmpliacion(p, bytes) ==
  /\ espacio_disponible' = espacio_disponible - bytes
  /\ tamanio_proceso' = [tamanio_proceso EXCEPT ![p] = @ + bytes]
  /\ hilo_cpu' = [op |-> "amplia", pid |-> p, n |-> CantPaginas(bytes)]

Rechazado(p, tam) == p \in tablas /\ tam - tamanio_proceso[p] > espacio_disponible

EnvioResize(p, tam) ==
  /\ hilo_cpu.op = "espera" /\ ~Rechazado(p, tam)
  /\ IF p \in tablas
     THEN /\ IF tam < tamanio_proceso[p]
             THEN EjecutarReduccion(p, tamanio_proceso[p] - tam)
             ELSE EjecutarAmpliacion(p, tam - tamanio_proceso[p])
          /\ UNCHANGED <<is_free, tablas, paginas, espacio_usuario, hilo_kernel, caida>>
     ELSE Caer

(* encontrar_marco_libre scans upwards while the thread of the kernel      *)
(* releases frames: a frame below the one found may be free by now, and -1 *)
(* may come with frames that have just been released.                      *)
EncontrarMarcoLibre ==
  LET libres == {f \in Marco : is_free[f]}
  IN  {f \in libres : \A g \in libres : g < f => g \in EnLiberacion}
        \cup (IF libres \subseteq EnLiberacion THEN {-1} ELSE {})

(* crear_paginas and asignar_marco, one page.                              *)
AsignarMarco ==
  /\ hilo_cpu.op = "amplia" /\ hilo_cpu.n > 0
  /\ \E i \in EncontrarMarcoLibre :
       IF i # -1 /\ hilo_cpu.pid \in tablas
       THEN /\ is_free' = [is_free EXCEPT ![i] = FALSE]
            /\ paginas' = [paginas EXCEPT ![hilo_cpu.pid] = Append(@, i)]
            /\ hilo_cpu' = [hilo_cpu EXCEPT !.n = @ - 1]
            /\ UNCHANGED <<tablas, tamanio_proceso, espacio_disponible,
                           espacio_usuario, hilo_kernel, caida>>
       ELSE Caer

(* The page from the end, the frame from the beginning.                    *)
LiberarMarco_OtroMarco ==
  /\ hilo_cpu.op = "reduce" /\ hilo_cpu.n > 0
  /\ LET p == hilo_cpu.pid
         n == Len(paginas[p])
     IN  /\ n > 0
         /\ is_free' = [is_free EXCEPT ![paginas[p][1]] = TRUE]
         /\ paginas' = [paginas EXCEPT ![p] = SubSeq(@, 1, n - 1)]
         /\ hilo_cpu' = [hilo_cpu EXCEPT !.n = @ - 1]
  /\ UNCHANGED <<tablas, tamanio_proceso, espacio_disponible, espacio_usuario,
                 hilo_kernel, caida>>

(* The loop of ejecutar_reduccion, one page from the end.                  *)
LiberarMarco ==
  /\ hilo_cpu.op = "reduce" /\ hilo_cpu.n > 0
  /\ LET p == hilo_cpu.pid
         n == Len(paginas[p])
     IN  IF n > 0 /\ p \in tablas
         THEN /\ is_free' = [is_free EXCEPT ![paginas[p][n]] = TRUE]
              /\ paginas' = [paginas EXCEPT ![p] = SubSeq(@, 1, n - 1)]
              /\ hilo_cpu' = [hilo_cpu EXCEPT !.n = @ - 1]
              /\ UNCHANGED <<tablas, tamanio_proceso, espacio_disponible,
                             espacio_usuario, hilo_kernel, caida>>
         ELSE Caer

TerminarResize ==
  /\ hilo_cpu.op \in {"amplia", "reduce"} /\ hilo_cpu.n = 0
  /\ hilo_cpu' = HiloLibre
  /\ UNCHANGED <<is_free, tablas, paginas, tamanio_proceso, espacio_disponible,
                 espacio_usuario, hilo_kernel, caida>>

-----------------------------------------------------------------------------
(* Accesses.                                                               *)

(* mandar_marco: the frame of a page, if the server survives the question. *)
TieneMarco(p, pag) == p \in tablas /\ pag \in 0 .. Len(paginas[p]) - 1
MandarMarco(p, pag) == paginas[p][pag + 1]

Fisica(t) == t.marco * TAM_PAGINA + t.desplazamiento

(* n contiguous bytes from a translated address, whoever owns them.        *)
Leer(t, n) == [i \in 1 .. n |-> espacio_usuario[Fisica(t) + i - 1]]

(* MOV_OUT sends an uint32_t; memoria stores one byte or four of it.       *)
BytesDe(valor) ==
  IF valor < 255 THEN <<valor>>
  ELSE [i \in 1 .. 4 |-> (valor \div 256 ^ (i - 1)) % 256]

Escribir(t, bytes) ==
  /\ espacio_usuario' = [d \in Direccion |->
                           IF d - Fisica(t) + 1 \in DOMAIN bytes
                           THEN bytes[d - Fisica(t) + 1]
                           ELSE espacio_usuario[d]]
  /\ UNCHANGED <<is_free, tablas, paginas, tamanio_proceso, espacio_disponible,
                 hilo_cpu, hilo_kernel, caida>>

CopyString(origen, destino, n) == Escribir(destino, Leer(origen, n))

-----------------------------------------------------------------------------
(* Frames and sizes.                                                       *)

(* The frames a table still holds: liberar_marcos goes through it in order *)
(* and the table disappears at the end.                                    *)
Desde(p) == IF hilo_kernel.op = "libera" /\ hilo_kernel.pid = p THEN hilo_kernel.n ELSE 1
EnUso(p) == {paginas[p][k] : k \in Desde(p) .. Len(paginas[p])}

(* asignar_marco, liberar_marco (envio_resize.c:54-100) and liberar_marcos *)
(* (finaliza_proceso.c:11-23), in two threads without a lock: a frame is   *)
(* in one page of one table or in none, and is_free says which.            *)
MarcosExactos ==
  /\ \A p \in Pid : \A j, k \in DOMAIN paginas[p] :
                     paginas[p][j] = paginas[p][k] => j = k
  /\ \A p, q \in Pid : p # q => EnUso(p) \cap EnUso(q) = {}
  /\ \A f \in Marco : is_free[f] <=> \A p \in Pid : f \notin EnUso(p)

(* RESIZE, the page requests and FINALIZAR never dereference a NULL frame, *)
(* page or table (envio_resize.c:60, 86, manda_marco.c:18).                *)
MemoriaNoCae == ~caida
=============================================================================
