------------------------------ MODULE Interfaces ------------------------------
(***************************************************************************)
(* The I/O interfaces, on both sides of their sockets.                     *)
(*                                                                         *)
(* Kernel: the accept loop and its connection threads (kernel.c), the list *)
(* of interfaces, and for each one a queue, three semaphores and a control *)
(* thread (interfaces.c).  I/O processes: entradasalida.c, one thread that *)
(* serves one request at a time.  A process is named by itself: Nombre[c]  *)
(* is the name it registers, so that one that replaces another (a restart) *)
(* is another member of Proceso with the same name.  The kernel knows a    *)
(* process by the number accept gave its connection, and keeps that number *)
(* in codigo_cliente after it has closed the connection and may have given *)
(* the number to another one.                                              *)
(*                                                                         *)
(* What an operation does inside the process is in Mmu and DialFS; which   *)
(* ready queue the PCB returns to is in Planificacion.                     *)
(***************************************************************************)
EXTENDS Integers, Sequences

CONSTANTS Pid, Proceso,
          Nombre, Tipo, \* Proceso -> the name and the TIPO_INTERFAZ it registers
          Pedibles,     \* pairs <<name, operation>> that scripts order
          Mortales,     \* I/O processes that may be stopped, or die in a request
          MaxPedidos,   \* bound on the requests
          Descriptor,   \* the numbers accept may give
          DeAUna,       \* an I/O process is started when the kernel has the others
          Relevo,       \* only another of its name takes the place of a dead one
          TrasCrear,    \* no WRITE before a CREATE answered on the same connection
          NADIE

ASSUME InterfacesAssumption ==
  /\ DOMAIN Nombre = Proceso /\ DOMAIN Tipo = Proceso
  /\ \A c \in Proceso : Tipo[c] \in {"GENERICA", "STDIN", "STDOUT", "DIALFS"}
  /\ \A par \in Pedibles : par[2] # "CONEXION"
  /\ MaxPedidos \in Nat /\ Descriptor \subseteq Nat \ {0}
  /\ DeAUna \in BOOLEAN /\ Relevo \in BOOLEAN /\ TrasCrear \in BOOLEAN
  /\ NADIE \notin Proceso /\ NADIE \notin Pid

VARIABLES
  proceso,    \* [paso, trabajo, entra, sale]: step, request in hand, its socket
  fd,         \* number of its connection in the kernel: 0 before accept, after close
  pendientes, \* connections nobody has accepted
  cliente_fd, \* the variable of the accept loop
  hilo,       \* [paso, conexion, visto, agrega, nombre_crear] of the connection threads
  lista_interfaces,
  interfaz,   \* [codigo_cliente, cola_espera, contador, uso, uso_ejecucion, paso, blocked]
  estado,     \* of the PCBs
  pedidos, caido

vars == <<proceso, fd, pendientes, cliente_fd, hilo, lista_interfaces, interfaz, estado,
          pedidos, caido>>

Operacion == {p[2] : p \in Pedibles} \cup {"SLEEP", "STDIN_READ", "STDOUT_WRITE"}
Nombres == {Nombre[c] : c \in Proceso}
Blocked == [pid : Pid, op : Operacion]
Mensaje == [pid : Pid, op : Operacion, nombre : Nombres]
Numero == Descriptor \cup {0}
Conexion(c) == [pid |-> NADIE, op |-> "CONEXION", nombre |-> Nombre[c]]
ASSUME SinNadie == NADIE \notin Nombres /\ NADIE \notin Blocked /\ NADIE \notin Mensaje

(* Type correctness; the semaphores of an interface never pass one, but    *)
(* the counter of its queue.                                               *)
InterfacesTypeOK ==
  /\ proceso \in [Proceso -> [paso : {"apagado", "libre", "trabajando", "muerto"},
                              trabajo : Blocked \cup {NADIE},
                              entra : Seq(Blocked),
                              sale : Seq(Mensaje \cup {Conexion(c) : c \in Proceso})]]
  /\ fd \in [Proceso -> Numero] /\ pendientes \in Seq(Proceso) /\ cliente_fd \in Numero
  /\ hilo \in [Proceso -> [paso : {"nada", "naciendo", "recv", "agregando", "fin"},
                           conexion : Numero, visto : Nat,
                           agrega : Proceso \cup {NADIE},
                           nombre_crear : Nombres \cup {NADIE}]]
  /\ lista_interfaces \in Seq(Proceso)
  /\ interfaz \in [Proceso -> [codigo_cliente : Numero,
                               cola_espera : Seq(Blocked), contador : 0 .. MaxPedidos,
                               uso : {0, 1}, uso_ejecucion : {0, 1},
                               paso : {"nada", "contador", "uso", "ejecucion"},
                               blocked : Blocked \cup {NADIE}]]
  /\ estado \in [Pid -> {"LISTO", "WAITING", "EXIT"}]
  /\ pedidos \in 0 .. MaxPedidos /\ caido \in BOOLEAN

\* agregar_interfaces: what sem_init and inicializar_cola leave
InterfazNueva_EjecucionEnUno(n) ==
  [codigo_cliente |-> n, cola_espera |-> <<>>, contador |-> 0, uso |-> 1,
   uso_ejecucion |-> 1, paso |-> "contador", blocked |-> NADIE]
InterfazNueva(n) ==
  [codigo_cliente |-> n, cola_espera |-> <<>>, contador |-> 0, uso |-> 1,
   uso_ejecucion |-> 0, paso |-> "contador", blocked |-> NADIE]

Init ==
  /\ proceso = [c \in Proceso |-> [paso |-> "apagado", trabajo |-> NADIE,
                                   entra |-> <<>>, sale |-> <<>>]]
  /\ fd = [c \in Proceso |-> 0] /\ pendientes = <<>> /\ cliente_fd = 0
  /\ hilo = [t \in Proceso |-> [paso |-> "nada", conexion |-> 0, visto |-> 0,
                                agrega |-> NADIE, nombre_crear |-> NADIE]]
  /\ lista_interfaces = <<>>
  /\ interfaz = [c \in Proceso |-> [InterfazNueva(0) EXCEPT !.paso = "nada"]]
  /\ estado = [p \in Pid |-> "LISTO"] /\ pedidos = 0 /\ caido = FALSE

-----------------------------------------------------------------------------
(* Connection of an I/O process.                                           *)

Registrado(c) == \E k \in DOMAIN lista_interfaces : lista_interfaces[k] = c
Apagado(c) == proceso[c].paso \in {"apagado", "muerto"}
EnCamino(c) == proceso[c].paso # "apagado" /\ ~Registrado(c)
\* who is at the other end of connection n, nobody when it has been closed
Detras(n) == {c \in Proceso : fd[c] = n}

(* Relevo: when c starts, the kernel has closed the connections of the     *)
(* dead, and a number that an interface still uses and nobody has is that  *)
(* of one called like c.  Without it whoever comes next may be given that  *)
(* number, and the requests of the dead one with it.                       *)
RelevoEnOrden(c) ==
  /\ \A d \in Proceso : proceso[d].paso = "muerto" => fd[d] = 0
  /\ \A d \in Proceso : /\ Registrado(d) /\ Detras(interfaz[d].codigo_cliente) = {}
                        => Nombre[d] = Nombre[c]
SinEscriturasDe(nombre) ==
  \A d \in Proceso : Nombre[d] = nombre =>
    \A k \in DOMAIN interfaz[d].cola_espera : interfaz[d].cola_espera[k].op # "WRITE"

\* two interfaces with the same name are not used at a time
Conectar(c) ==
  /\ proceso[c].paso = "apagado"
  /\ \A d \in Proceso \ {c} : Nombre[d] = Nombre[c] => Apagado(d)
  /\ DeAUna => \A d \in Proceso : ~EnCamino(d)
  /\ Relevo => RelevoEnOrden(c)
  /\ TrasCrear => SinEscriturasDe(Nombre[c])
  /\ proceso' = [proceso EXCEPT ![c].paso = "libre", ![c].sale = <<Conexion(c)>>]
  /\ pendientes' = Append(pendientes, c)
  /\ UNCHANGED <<fd, cliente_fd, hilo, lista_interfaces, interfaz, estado, pedidos, caido>>

\* accept gives the lowest number that is free, and a file that the console has
\* open may be taking one; the thread gets the address of cliente_fd, not its value
Aceptar ==
  /\ ~caido /\ pendientes # <<>>
  /\ \E n \in Descriptor :
       /\ Detras(n) = {}
       /\ fd' = [fd EXCEPT ![Head(pendientes)] = n] /\ cliente_fd' = n
  /\ pendientes' = Tail(pendientes)
  /\ hilo' = [hilo EXCEPT ![Head(pendientes)].paso = "naciendo"]
  /\ UNCHANGED <<proceso, lista_interfaces, interfaz, estado, pedidos, caido>>

LeerCliente(t) ==
  /\ hilo[t].paso = "naciendo"
  /\ hilo' = [hilo EXCEPT ![t].paso = "recv", ![t].conexion = cliente_fd]
  /\ UNCHANGED <<proceso, fd, pendientes, cliente_fd, lista_interfaces, interfaz, estado,
                 pedidos, caido>>

Recibe(t, mensaje) ==
  \E c \in Detras(hilo[t].conexion) :
    /\ hilo[t].paso = "recv" /\ proceso[c].sale # <<>> /\ mensaje = Head(proceso[c].sale)
    /\ proceso' = [proceso EXCEPT ![c].sale = Tail(@)]
    /\ UNCHANGED fd

\* agregar_interfaces keeps the number of the connection, starts the control thread
\* and then calls list_add, which reads the end of the list before it writes it and
\* takes no mutex
AgregarInterfaces(t) ==
  \E c \in Detras(hilo[t].conexion) :
    /\ Recibe(t, Conexion(c))
    /\ interfaz' = [interfaz EXCEPT ![c] = InterfazNueva(hilo[t].conexion)]
    /\ hilo' = [hilo EXCEPT ![t].paso = "agregando", ![t].visto = Len(lista_interfaces),
                            ![t].agrega = c]
    /\ UNCHANGED <<pendientes, cliente_fd, lista_interfaces, estado, pedidos, caido>>

ListAdd(t) ==
  /\ hilo[t].paso = "agregando"
  /\ lista_interfaces' = Append(SubSeq(lista_interfaces, 1, hilo[t].visto), hilo[t].agrega)
  /\ hilo' = [hilo EXCEPT ![t].paso = "recv"]
  /\ UNCHANGED <<proceso, fd, pendientes, cliente_fd, interfaz, estado, pedidos, caido>>

\* recv answers 0, or -1 when another thread has closed it: recibir_operacion closes
\* the connection and the thread ends; list, queue and control thread stay
Desconexion(t) ==
  LET n == hilo[t].conexion
  IN  /\ hilo[t].paso = "recv"
      /\ \A c \in Detras(n) : proceso[c].paso = "muerto" /\ proceso[c].sale = <<>>
      /\ fd' = [c \in Proceso |-> IF c \in Detras(n) THEN 0 ELSE fd[c]]
      /\ hilo' = [hilo EXCEPT ![t].paso = "fin"]
      /\ UNCHANGED <<proceso, pendientes, cliente_fd, lista_interfaces, interfaz, estado,
                     pedidos, caido>>

-----------------------------------------------------------------------------
(* A request, from the dispatch connection to the queue.                   *)

LlamadasDe(nombre) == {k \in DOMAIN lista_interfaces : Nombre[lista_interfaces[k]] = nombre}
\* buscar_interfaz_por_nombre gives the first one of that name, alive or not
BuscarInterfazPorNombre(nombre) ==
  IF LlamadasDe(nombre) = {} THEN NADIE
  ELSE lista_interfaces[CHOOSE k \in LlamadasDe(nombre) : \A j \in LlamadasDe(nombre) : k <= j]

Encolar(c, blocked) ==
  interfaz' = [interfaz EXCEPT ![c].cola_espera = Append(@, blocked), ![c].contador = @ + 1]

\* the connection that carries the requests of c now has had a CREATE answered
HuboCrear(c) == \E t \in Proceso : /\ hilo[t].paso = "recv" /\ hilo[t].nombre_crear # NADIE
                                   /\ hilo[t].conexion = interfaz[c].codigo_cliente

\* ejecutar_io_sleep2, ejecutar_io_stdin_read, ejecutar_io_fs_create, ...
EjecutarIo(p, nombre, op) ==
  LET c == BuscarInterfazPorNombre(nombre)
  IN  /\ ~caido /\ estado[p] = "LISTO" /\ pedidos < MaxPedidos
      /\ TrasCrear /\ op = "WRITE" /\ c # NADIE => HuboCrear(c)
      /\ pedidos' = pedidos + 1
      /\ IF c = NADIE
         THEN estado' = [estado EXCEPT ![p] = "EXIT"] /\ UNCHANGED interfaz
         ELSE /\ estado' = [estado EXCEPT ![p] = "WAITING"]
              /\ Encolar(c, [pid |-> p, op |-> op])
      /\ UNCHANGED <<proceso, fd, pendientes, cliente_fd, hilo, lista_interfaces, caido>>

-----------------------------------------------------------------------------
(* control_acceso, the control thread of an interface.                     *)

\* the type of the interface chooses the message, not the instruction
EnvioDe(tipo, op) == CASE tipo = "GENERICA" -> "SLEEP"
                       [] tipo = "STDIN" -> "STDIN_READ"
                       [] tipo = "STDOUT" -> "STDOUT_WRITE"
                       [] tipo = "DIALFS" -> op

SinTocarHilos == UNCHANGED <<fd, pendientes, cliente_fd, hilo, lista_interfaces, pedidos, caido>>

EsperarContador(c) ==
  /\ interfaz[c].paso = "contador" /\ interfaz[c].contador > 0
  /\ interfaz' = [interfaz EXCEPT ![c].paso = "uso", ![c].contador = @ - 1]
  /\ UNCHANGED <<proceso, estado>> /\ SinTocarHilos

\* the request goes to whoever has the number of the interface by now; it is lost
\* when nobody has it, or when who has it is dead
EsperarUso(c) ==
  LET blocked == Head(interfaz[c].cola_espera)
      pedido == [pid |-> blocked.pid, op |-> EnvioDe(Tipo[c], blocked.op)]
      llega == {d \in Detras(interfaz[c].codigo_cliente) : ~Apagado(d)}
  IN  /\ interfaz[c].paso = "uso" /\ interfaz[c].uso > 0
      /\ interfaz' = [interfaz EXCEPT ![c].paso = "ejecucion", ![c].uso = @ - 1,
                                      ![c].blocked = blocked, ![c].cola_espera = Tail(@)]
      /\ proceso' = [d \in Proceso |->
                       IF d \in llega THEN [proceso[d] EXCEPT !.entra = Append(@, pedido)]
                       ELSE proceso[d]]
      /\ UNCHANGED estado /\ SinTocarHilos

EsperarEjecucion_SinWait(c) ==
  /\ interfaz[c].paso = "ejecucion"
  /\ interfaz' = [interfaz EXCEPT ![c].paso = "contador", ![c].blocked = NADIE]
  /\ estado' = [estado EXCEPT ![interfaz[c].blocked.pid] = "LISTO"]
  /\ UNCHANGED proceso /\ SinTocarHilos
EsperarEjecucion(c) ==
  /\ interfaz[c].paso = "ejecucion" /\ interfaz[c].uso_ejecucion > 0
  /\ interfaz' = [interfaz EXCEPT ![c].paso = "contador", ![c].uso_ejecucion = @ - 1,
                                  ![c].blocked = NADIE]
  /\ estado' = [estado EXCEPT ![interfaz[c].blocked.pid] = "LISTO"]
  /\ UNCHANGED proceso /\ SinTocarHilos

ControlAcceso(c) ==
  ~caido /\ (EsperarContador(c) \/ EsperarUso(c) \/ EsperarEjecucion(c))

-----------------------------------------------------------------------------
(* The I/O process.                                                        *)

SinTocarKernel == UNCHANGED <<fd, pendientes, cliente_fd, hilo, lista_interfaces, interfaz,
                              estado, pedidos, caido>>

Tomar(c) ==
  /\ proceso[c].paso = "libre" /\ proceso[c].entra # <<>>
  /\ proceso' = [proceso EXCEPT ![c].paso = "trabajando", ![c].trabajo = Head(proceso[c].entra),
                                ![c].entra = Tail(@)]
  /\ SinTocarKernel

\* it does what it is asked, whatever its type, and answers with its own name
RespuestaDe(c, pedido) == [pid |-> pedido.pid, op |-> pedido.op, nombre |-> Nombre[c]]
Terminar(c) ==
  /\ proceso[c].paso = "trabajando"
  /\ proceso' = [proceso EXCEPT ![c].paso = "libre", ![c].trabajo = NADIE,
                                ![c].sale = Append(@, RespuestaDe(c, proceso[c].trabajo))]
  /\ SinTocarKernel

Morir(c) ==
  /\ c \in Mortales /\ ~Apagado(c)
  /\ Relevo => \A d \in Proceso \ {c} : ~EnCamino(d)
  /\ proceso' = [proceso EXCEPT ![c].paso = "muerto", ![c].trabajo = NADIE, ![c].entra = <<>>]
  /\ SinTocarKernel

-----------------------------------------------------------------------------
(* The answer.                                                             *)

\* io_sleep_ready2, io_stdin_read_ready, io_stdout_write_ready, dial_fs_ready
Avisar_SoloEjecucion(c) == interfaz' = [interfaz EXCEPT ![c].uso_ejecucion = @ + 1]
Avisar(c) == interfaz' = [interfaz EXCEPT ![c].uso = @ + 1, ![c].uso_ejecucion = @ + 1]

\* RESPUESTA_ESCRIBIR_ARCHIVO takes the name from the variable of the case of
\* RESPUESTA_CREAR_ARCHIVO; before one of those it points anywhere, and the
\* kernel dies of it as it does of the NULL of a name that is not in the list
NombreDeRespuesta(t, m) == IF m.op = "WRITE" THEN hilo[t].nombre_crear ELSE m.nombre

RecibirRespuesta(t) ==
  \E m \in Mensaje :
    LET c == BuscarInterfazPorNombre(NombreDeRespuesta(t, m))
    IN  /\ Recibe(t, m)
        /\ hilo' = [hilo EXCEPT ![t].nombre_crear = IF m.op = "CREATE" THEN m.nombre ELSE @]
        /\ IF c = NADIE
           THEN caido' = TRUE /\ UNCHANGED interfaz
           ELSE Avisar(c) /\ UNCHANGED caido
        /\ UNCHANGED <<pendientes, cliente_fd, lista_interfaces, estado, pedidos>>

ProcesarConexion(t) ==
  ~caido /\ (\/ LeerCliente(t) \/ AgregarInterfaces(t) \/ ListAdd(t)
             \/ RecibirRespuesta(t) \/ Desconexion(t))

ProcesoIo(c) == Tomar(c) \/ Terminar(c)

Next == \/ Aceptar
        \/ \E c \in Proceso : \/ Conectar(c) \/ Morir(c) \/ ProcesoIo(c)
                              \/ ControlAcceso(c) \/ ProcesarConexion(c)
        \/ \E p \in Pid, par \in Pedibles : EjecutarIo(p, par[1], par[2])

(* Every thread and every I/O process goes on while it can; whoever is at  *)
(* the keyboard types (readline), nobody has to start or stop anything.    *)
Fairness ==
  /\ WF_vars(Aceptar)
  /\ \A c \in Proceso : /\ WF_vars(ProcesoIo(c)) /\ WF_vars(ControlAcceso(c))
                        /\ WF_vars(ProcesarConexion(c))
Spec == Init /\ [][Next]_vars /\ Fairness

-----------------------------------------------------------------------------
(* Properties.                                                             *)

\* CONEXION is the first message of a process, if it is still to be read
Respuestas(c) ==
  LET sale == proceso[c].sale
  IN  IF sale # <<>> /\ Head(sale).op = "CONEXION" THEN Tail(sale) ELSE sale
EnCurso(c) == proceso[c].entra \o Respuestas(c) \o
              (IF proceso[c].trabajo = NADIE THEN <<>> ELSE <<proceso[c].trabajo>>)

(* semaforo_uso (interfaces.c:787, 804): an I/O process has at most one    *)
(* request between the kernel and its answer, also when it has inherited   *)
(* the queue of one that died, and it is the one the control thread of an  *)
(* interface with its number waits for.                                    *)
UnPedidoPorVez ==
  \A c \in Proceso :
    /\ Len(EnCurso(c)) <= 1
    /\ EnCurso(c) # <<>> =>
         \E d \in Proceso : /\ interfaz[d].blocked # NADIE
                            /\ interfaz[d].blocked.pid = EnCurso(c)[1].pid
                            /\ c \in Detras(interfaz[d].codigo_cliente)

ColaDe(c) == (IF interfaz[c].blocked = NADIE THEN <<>> ELSE <<interfaz[c].blocked>>)
             \o interfaz[c].cola_espera
\* who has answered the interface c, in a message the kernel has not read
Contestan(c) == {d \in Proceso : /\ Respuestas(d) # <<>>
                                 /\ BuscarInterfazPorNombre(Respuestas(d)[1].nombre) = c}
HechoDe(c) == IF Contestan(c) # {}
              THEN LET m == Respuestas(CHOOSE d \in Contestan(c) : TRUE)[1]
                   IN  [pid |-> m.pid, op |-> m.op]
              ELSE IF interfaz[c].uso_ejecucion > 0 THEN interfaz[c].blocked ELSE NADIE

Servicio == INSTANCE ServicioIdeal WITH
              cola <- [c \in Proceso |-> ColaDe(c)],
              hecho <- [c \in Proceso |-> HechoDe(c)],
              esperando <- {p \in Pid : estado[p] = "WAITING"}

(* control_acceso (interfaces.c:798) and the answers (kernel.c:310-390):   *)
(* every interface serves its requests one by one in the order they came,  *)
(* each once, and a PCB leaves WAITING when its own has been done, by the  *)
(* process that registered it or by the one that has its number.           *)
CumpleServicio == Servicio!Spec

Espera(p, c) == \E k \in DOMAIN ColaDe(c) : ColaDe(c)[k].pid = p
SinNadieDetras(c) == \A d \in Detras(interfaz[c].codigo_cliente) : Apagado(d)
SePerdio(c) == /\ interfaz[c].blocked # NADIE /\ HechoDe(c) = NADIE
               /\ \A d \in Detras(interfaz[c].codigo_cliente) : EnCurso(d) = <<>>

(* Who waits for ever waits for an interface that nobody serves any more,  *)
(* or behind a request that was lost with the process that had it: nothing *)
(* in the kernel reacts to a disconnection (kernel.c:411).  Whoever waited *)
(* behind a death that lost nothing comes back when another process is     *)
(* given the number.                                                       *)
TodoPedidoVuelve ==
  \A p \in Pid :
    \/ []<>(estado[p] # "WAITING")
    \/ <>[](\E c \in Proceso : Espera(p, c) /\ (SinNadieDetras(c) \/ SePerdio(c)))
=============================================================================
