-------------------------- MODULE Interfaces_proofs --------------------------
(***************************************************************************)
(* What the kernel and the I/O processes promise each other, for any       *)
(* number of them, any types and any requests, whoever dies when: an       *)
(* interface has one request in hand, and the queues are served in order.  *)
(* The invariant says how far each process has come on its way into the    *)
(* list (Camino), who has its only turn (Turno) and that the kernel finds  *)
(* it by its name (Hallado); a second one says that the number an          *)
(* interface keeps is that of its own process, or of nobody (NumInd).      *)
(* DeAUna is needed: the accept loop shares cliente_fd and list_add takes  *)
(* no mutex.  So are Relevo and SinHomonimos: a process that comes after a *)
(* death may be given the number of the dead one.                          *)
(***************************************************************************)
EXTENDS Interfaces, TLAPS, WellFoundedInduction

(* Nobody takes the place of a dead process.                               *)
SinHomonimos == \A c, d \in Proceso : Nombre[c] = Nombre[d] => c = d

(* The records of the variables, and their types but for the numbers of    *)
(* the connections, which are those of NumInd.                             *)
FichaProceso == [paso : {"apagado", "libre", "trabajando", "muerto"},
                 trabajo : Blocked \cup {NADIE}, entra : Seq(Blocked),
                 sale : Seq(Mensaje \cup {Conexion(c) : c \in Proceso})]
FichaHilo == [paso : {"nada", "naciendo", "recv", "agregando", "fin"},
              conexion : Numero, visto : Nat, agrega : Proceso \cup {NADIE},
              nombre_crear : Nombres \cup {NADIE}]
FichaInterfaz == [codigo_cliente : Numero,
                  cola_espera : Seq(Blocked), contador : 0 .. MaxPedidos,
                  uso : {0, 1}, uso_ejecucion : {0, 1},
                  paso : {"nada", "contador", "uso", "ejecucion"},
                  blocked : Blocked \cup {NADIE}]
TiposSinNumero ==
  /\ proceso \in [Proceso -> FichaProceso] /\ hilo \in [Proceso -> FichaHilo]
  /\ interfaz \in [Proceso -> FichaInterfaz]
  /\ pendientes \in Seq(Proceso) /\ lista_interfaces \in Seq(Proceso)
  /\ cliente_fd \in Numero /\ caido \in BOOLEAN
  /\ estado \in [Pid -> {"LISTO", "WAITING", "EXIT"}]
  /\ pedidos \in 0 .. MaxPedidos

-----------------------------------------------------------------------------
(* The way of a process into the list of interfaces.                       *)

Fuera(c) ==
  /\ ~Registrado(c) /\ proceso[c].paso = "apagado" /\ proceso[c].sale = <<>>
  /\ hilo[c].paso = "nada" /\ interfaz[c].paso = "nada"
EnPuerta(c) ==
  /\ ~Registrado(c) /\ proceso[c].paso # "apagado" /\ proceso[c].sale = <<Conexion(c)>>
  /\ hilo[c].paso = "nada" /\ interfaz[c].paso = "nada" /\ pendientes = <<c>>
Naciendo(c) ==
  /\ ~Registrado(c) /\ proceso[c].paso # "apagado" /\ proceso[c].sale = <<Conexion(c)>>
  /\ hilo[c].paso = "naciendo" /\ interfaz[c].paso = "nada"
  /\ pendientes = <<>>
Presentado(c) ==
  /\ ~Registrado(c) /\ proceso[c].paso # "apagado" /\ proceso[c].sale = <<Conexion(c)>>
  /\ hilo[c].paso = "recv" /\ interfaz[c].paso = "nada"
  /\ pendientes = <<>>
Agregando(c) ==
  /\ ~Registrado(c) /\ proceso[c].paso # "apagado" /\ proceso[c].sale = <<>>
  /\ hilo[c].paso = "agregando" /\ hilo[c].agrega = c
  /\ hilo[c].visto = Len(lista_interfaces) /\ interfaz[c].paso = "contador"
  /\ pendientes = <<>>
Dentro(c) ==
  /\ Registrado(c) /\ proceso[c].paso # "apagado" /\ interfaz[c].paso # "nada"
  /\ hilo[c].paso \in {"recv", "fin"}

Camino(c) == \/ Fuera(c) \/ EnPuerta(c) \/ Naciendo(c)
             \/ Presentado(c) \/ Agregando(c) \/ Dentro(c)

(* With DeAUna, one process at a time is between its start and the list.   *)
UnoEnCamino == /\ \A c, d \in Proceso : EnCamino(c) /\ EnCamino(d) => c = d
               /\ pendientes # <<>> => \E c \in Proceso : EnPuerta(c)

(* The turn of an interface: its control thread waits for a request, or    *)
(* for the answer of one that is in exactly one place, or was lost.        *)
Pedido(c) == [pid |-> interfaz[c].blocked.pid,
              op |-> EnvioDe(Tipo[c], interfaz[c].blocked.op)]
Enviado(c) == [pid |-> interfaz[c].blocked.pid,
               op |-> EnvioDe(Tipo[c], interfaz[c].blocked.op), nombre |-> Nombre[c]]
SinPedido(c) == proceso[c].entra = <<>> /\ proceso[c].trabajo = NADIE /\ proceso[c].sale = <<>>
ConPedido(c) ==
  \/ /\ proceso[c].entra = <<Pedido(c)>> /\ proceso[c].trabajo = NADIE
     /\ proceso[c].sale = <<>>
  \/ /\ proceso[c].entra = <<>> /\ proceso[c].trabajo = Pedido(c)
     /\ proceso[c].sale = <<>>
  \/ /\ proceso[c].entra = <<>> /\ proceso[c].trabajo = NADIE
     /\ proceso[c].sale = <<Enviado(c)>>
Esperando(c) ==
  /\ interfaz[c].paso = "ejecucion" /\ interfaz[c].blocked \in Blocked
  /\ Registrado(c) /\ interfaz[c].uso = interfaz[c].uso_ejecucion
  /\ \/ SinPedido(c)
     \/ interfaz[c].uso = 0 /\ ConPedido(c)
Ocioso(c) ==
  /\ interfaz[c].paso # "ejecucion" /\ interfaz[c].blocked = NADIE
  /\ interfaz[c].uso = 1 /\ interfaz[c].uso_ejecucion = 0
  /\ proceso[c].entra = <<>> /\ proceso[c].trabajo = NADIE
  /\ Registrado(c) => proceso[c].sale = <<>>
  /\ ~Registrado(c) => interfaz[c].cola_espera = <<>>
Turno(c) ==
  /\ Esperando(c) \/ Ocioso(c)
  /\ interfaz[c].contador + (IF interfaz[c].paso = "uso" THEN 1 ELSE 0)
       = Len(interfaz[c].cola_espera)
  /\ Len(interfaz[c].cola_espera) <= pedidos
  /\ proceso[c].trabajo = NADIE <=> proceso[c].paso # "trabajando"
  /\ Apagado(c) => proceso[c].entra = <<>>

(* Whoever has requests is the first of its name in the list, and the name *)
(* its thread keeps is that one.                                           *)
ConCola(c) == interfaz[c].blocked # NADIE \/ interfaz[c].cola_espera # <<>>
Hallado(c) ==
  /\ ConCola(c) => BuscarInterfazPorNombre(Nombre[c]) = c
  /\ hilo[c].nombre_crear \in {NADIE, Nombre[c]}

De(c) == Camino(c) /\ Turno(c) /\ Hallado(c)
IntInd == TiposSinNumero /\ UnoEnCamino /\ \A c \in Proceso : De(c)

(* The number of the connection of each process, in its thread and in its  *)
(* interface.                                                              *)
Linea(c) ==
  /\ hilo[c].paso = "nada" => fd[c] = 0
  /\ hilo[c].paso = "naciendo" => fd[c] = cliente_fd /\ fd[c] # 0
  /\ hilo[c].paso \in {"recv", "agregando"} => fd[c] = hilo[c].conexion /\ fd[c] # 0
  /\ hilo[c].paso = "fin" =>
       fd[c] = 0 /\ proceso[c].paso = "muerto" /\ proceso[c].sale = <<>>
  /\ Registrado(c) \/ hilo[c].paso = "agregando" =>
       interfaz[c].codigo_cliente = hilo[c].conexion /\ hilo[c].conexion # 0

(* No number has two owners, and whoever is on the way will not get one    *)
(* that an interface keeps: they all have their process at the other end.  *)
NumInd ==
  /\ fd \in [Proceso -> Numero] /\ \A c \in Proceso : Linea(c)
  /\ \A c, d \in Proceso : fd[c] # 0 /\ fd[c] = fd[d] => c = d
  /\ \A c, d \in Proceso : Registrado(c) /\ fd[d] = interfaz[c].codigo_cliente => c = d
  /\ \A c, d \in Proceso : EnCamino(d) /\ Registrado(c) =>
       fd[c] = interfaz[c].codigo_cliente /\ proceso[c].paso # "muerto"

(* The least of a set of numbers.                                          *)
LEMMA Menor ==
  ASSUME NEW S, S \subseteq Nat, S # {}
  PROVE  \E k \in S : \A j \in S : k <= j
<1> DEFINE R == OpToRel(<, Nat)
<1>1. \A x, y \in Nat : y < x => <<y, x>> \in R
  BY DEF OpToRel
<1>2. IsWellFoundedOn(R, Nat)
  BY NatLessThanWellFounded
<1> HIDE DEF R
<1>3. PICK k \in S : \A j \in S : ~(<<j, k>> \in R)
  BY <1>2, WFMin
<1>4. \A j \in S : k \in Nat /\ j \in Nat /\ ~(j < k)
  BY <1>1, <1>3
<1> QED
  BY <1>4

-----------------------------------------------------------------------------
(* buscar_interfaz_por_nombre (interfaces.c:724).                         *)

(* The first one of that name is what it finds.                            *)
LEMMA LaPrimera ==
  ASSUME lista_interfaces \in Seq(Proceso), NEW n, NEW k \in LlamadasDe(n),
         \A j \in LlamadasDe(n) : k <= j
  PROVE  BuscarInterfazPorNombre(n) = lista_interfaces[k]
<1>1. LlamadasDe(n) \subseteq Nat
  BY DEF LlamadasDe
<1>2. \A i \in LlamadasDe(n) : (\A j \in LlamadasDe(n) : i <= j) => i = k
  BY <1>1
<1>3. (CHOOSE i \in LlamadasDe(n) : \A j \in LlamadasDe(n) : i <= j) = k
  BY <1>2
<1> QED
  BY <1>3 DEF BuscarInterfazPorNombre

(* What it finds is registered and has that name; it finds nothing only if *)
(* nobody has it.                                                          *)
LEMMA Buscada ==
  ASSUME lista_interfaces \in Seq(Proceso), NEW n
  PROVE  \/ LlamadasDe(n) = {} /\ BuscarInterfazPorNombre(n) = NADIE
         \/ \E k \in LlamadasDe(n) :
              /\ \A j \in LlamadasDe(n) : k <= j
              /\ BuscarInterfazPorNombre(n) = lista_interfaces[k]
              /\ lista_interfaces[k] \in Proceso /\ Registrado(lista_interfaces[k])
              /\ Nombre[lista_interfaces[k]] = n
<1>1. CASE LlamadasDe(n) = {}
  BY <1>1 DEF BuscarInterfazPorNombre
<1>2. CASE LlamadasDe(n) # {}
  <2>1. LlamadasDe(n) \subseteq Nat
    BY DEF LlamadasDe
  <2>2. PICK k \in LlamadasDe(n) : \A j \in LlamadasDe(n) : k <= j
    BY <1>2, <2>1, Menor
  <2>3. /\ lista_interfaces[k] \in Proceso /\ Registrado(lista_interfaces[k])
        /\ Nombre[lista_interfaces[k]] = n
    BY DEF LlamadasDe, Registrado
  <2> QED
    BY <2>2, <2>3, LaPrimera
<1> QED
  BY <1>1, <1>2

(* One more at the end changes nobody's answer, except that of a name that *)
(* was not there.                                                          *)
LEMMA LaPrimeraP ==
  (\A n : lista_interfaces \in Seq(Proceso) =>
     \A k \in LlamadasDe(n) :
       (\A j \in LlamadasDe(n) : k <= j) => BuscarInterfazPorNombre(n) = lista_interfaces[k])'
<1>1. \A n : lista_interfaces \in Seq(Proceso) =>
        \A k \in LlamadasDe(n) :
          (\A j \in LlamadasDe(n) : k <= j) => BuscarInterfazPorNombre(n) = lista_interfaces[k]
  BY LaPrimera
<1> QED
  BY <1>1, PTL

(* One more at the end of the list: it adds its name, and hides none.      *)
LEMMA UnaMas ==
  ASSUME lista_interfaces \in Seq(Proceso), NEW c \in Proceso, NEW n,
         lista_interfaces' = Append(lista_interfaces, c),
         BuscarInterfazPorNombre(n) # NADIE
  PROVE  BuscarInterfazPorNombre(n)' = BuscarInterfazPorNombre(n)
<1>1. PICK k \in LlamadasDe(n) :
        /\ \A j \in LlamadasDe(n) : k <= j
        /\ BuscarInterfazPorNombre(n) = lista_interfaces[k]
  BY Buscada
<1>2. /\ Len(lista_interfaces) \in Nat
      /\ DOMAIN lista_interfaces = 1 .. Len(lista_interfaces)
      /\ DOMAIN lista_interfaces' = 1 .. Len(lista_interfaces) + 1
      /\ \A i \in 1 .. Len(lista_interfaces) : lista_interfaces'[i] = lista_interfaces[i]
      /\ lista_interfaces' \in Seq(Proceso)
  OBVIOUS
<1>3. k \in 1 .. Len(lista_interfaces) /\ k \in LlamadasDe(n)'
  BY <1>1, <1>2 DEF LlamadasDe
<1>4. \A j \in LlamadasDe(n)' : j \in LlamadasDe(n) \/ j = Len(lista_interfaces) + 1
  BY <1>2 DEF LlamadasDe
<1>5. \A j \in LlamadasDe(n)' : k <= j
  BY <1>1, <1>2, <1>3, <1>4
<1>6. BuscarInterfazPorNombre(n)' = lista_interfaces'[k]
  BY <1>2, <1>3, <1>5, LaPrimeraP
<1> QED
  BY <1>1, <1>2, <1>3, <1>6

(* Registrado and the search look at the list only.                        *)
LEMMA MismaLista ==
  ASSUME lista_interfaces' = lista_interfaces
  PROVE  /\ \A c : Registrado(c)' = Registrado(c)
         /\ \A n : BuscarInterfazPorNombre(n)' = BuscarInterfazPorNombre(n)
  BY DEF Registrado, BuscarInterfazPorNombre, LlamadasDe

-----------------------------------------------------------------------------
(* What a step leaves alone.                                               *)

(* A step of another process or thread.                                    *)
LEMMA Ajeno ==
  ASSUME IntInd, NEW d \in Proceso,
         proceso'[d] = proceso[d], hilo'[d] = hilo[d], interfaz'[d] = interfaz[d],
         UNCHANGED lista_interfaces, pedidos' \in {pedidos, pedidos + 1},
         UNCHANGED <<pendientes, cliente_fd>> \/ ~EnCamino(d)
  PROVE  De(d)'
<1> USE DEF IntInd, De
<1>1. Registrado(d)' = Registrado(d)
  BY MismaLista
<1>2. Camino(d)'
  <2>1. CASE UNCHANGED <<pendientes, cliente_fd>>
    BY <1>1, <2>1 DEF Camino, Fuera, EnPuerta, Naciendo, Presentado, Agregando, Dentro
  <2>2. CASE ~EnCamino(d)
    BY <1>1, <2>2
    DEF EnCamino, Camino, Fuera, EnPuerta, Naciendo, Presentado, Agregando, Dentro
  <2> QED
    BY <2>1, <2>2
<1>3. Turno(d)'
  <2>1. Enviado(d)' = Enviado(d) /\ Pedido(d)' = Pedido(d)
    BY DEF Pedido, Enviado
  <2>2. Esperando(d) => Esperando(d)'
    BY <1>1, <2>1 DEF Esperando, SinPedido, ConPedido
  <2>3. Ocioso(d) => Ocioso(d)'
    BY <1>1 DEF Ocioso
  <2>4. interfaz[d].cola_espera \in Seq(Blocked) /\ pedidos \in Nat
    BY InterfacesAssumption DEF TiposSinNumero, FichaInterfaz
  <2> QED
    BY <2>2, <2>3, <2>4 DEF Turno, Apagado
<1>4. Hallado(d)'
  BY MismaLista DEF Hallado, ConCola
<1> QED
  BY <1>2, <1>3, <1>4

(* Nobody enters the way, and nobody leaves the door.                      *)
LEMMA MismoCamino ==
  ASSUME UnoEnCamino, UNCHANGED <<lista_interfaces, pendientes>>,
         \A d \in Proceso : EnCamino(d)' => EnCamino(d),
         \A d \in Proceso : EnPuerta(d) => EnPuerta(d)'
  PROVE  UnoEnCamino'
  BY DEF UnoEnCamino

(* At the start no process has been started.                               *)
LEMMA IntInicial == Init => IntInd
<1> SUFFICES ASSUME Init PROVE IntInd
  OBVIOUS
<1>1. TiposSinNumero
  <2>1. 0 \in 0 .. MaxPedidos
    BY InterfacesAssumption
  <2>2. \A S : <<>> \in Seq(S)
    OBVIOUS
  <2>3. [InterfazNueva(0) EXCEPT !.paso = "nada"] \in FichaInterfaz
    BY <2>1, <2>2 DEF InterfazNueva, FichaInterfaz, Numero
  <2>4. proceso \in [Proceso -> FichaProceso] /\ hilo \in [Proceso -> FichaHilo]
    BY <2>2 DEF Init, FichaProceso, FichaHilo, Numero
  <2>5. <<>> \in Seq(Proceso) /\ 0 \in Numero
    BY DEF Numero
  <2> QED
    BY <2>1, <2>3, <2>4, <2>5 DEF Init, TiposSinNumero
<1>2. ASSUME NEW c \in Proceso PROVE De(c) /\ ~EnCamino(c)
  <2>1. ~Registrado(c)
    BY DEF Init, Registrado
  <2>2. Fuera(c) /\ ~EnCamino(c)
    BY <2>1 DEF Init, Fuera, EnCamino, InterfazNueva
  <2>3. Turno(c)
    <3>1. /\ proceso[c].paso = "apagado" /\ proceso[c].trabajo = NADIE
          /\ proceso[c].entra = <<>> /\ proceso[c].sale = <<>>
      BY DEF Init
    <3>2. /\ interfaz[c].paso = "nada" /\ interfaz[c].blocked = NADIE
          /\ interfaz[c].uso = 1 /\ interfaz[c].uso_ejecucion = 0
          /\ interfaz[c].contador = 0 /\ interfaz[c].cola_espera = <<>>
      BY DEF Init, InterfazNueva
    <3>3. Ocioso(c)
      BY <2>1, <3>1, <3>2 DEF Ocioso
    <3>4. Len(<<>>) = 0 /\ pedidos = 0
      BY DEF Init
    <3> QED
      BY <3>1, <3>2, <3>3, <3>4 DEF Turno
  <2>4. Hallado(c)
    BY DEF Init, Hallado, ConCola, InterfazNueva
  <2> QED
    BY <2>2, <2>3, <2>4 DEF De, Camino
<1> QED
  BY <1>1, <1>2 DEF IntInd, UnoEnCamino, Init

(* What the type says of each variable, one by one.                        *)
LEMMA FichasDe ==
  ASSUME TiposSinNumero
  PROVE  /\ proceso \in [Proceso -> FichaProceso] /\ hilo \in [Proceso -> FichaHilo]
         /\ interfaz \in [Proceso -> FichaInterfaz]
         /\ pendientes \in Seq(Proceso) /\ lista_interfaces \in Seq(Proceso)
         /\ cliente_fd \in Numero /\ caido \in BOOLEAN
         /\ estado \in [Pid -> {"LISTO", "WAITING", "EXIT"}]
         /\ pedidos \in 0 .. MaxPedidos /\ pedidos \in Nat /\ MaxPedidos \in Nat
<1>1. pedidos \in 0 .. MaxPedidos /\ MaxPedidos \in Nat
  BY InterfacesAssumption DEF TiposSinNumero
<1>2. pedidos \in Nat
  BY <1>1
<1> QED
  BY <1>1, <1>2 DEF TiposSinNumero

(* The type is kept when the records that change have theirs.              *)
LEMMA TipoConFichas ==
  ASSUME TiposSinNumero,
         proceso' \in [Proceso -> FichaProceso], hilo' \in [Proceso -> FichaHilo],
         interfaz' \in [Proceso -> FichaInterfaz],
         pendientes' \in Seq(Proceso), cliente_fd' \in Numero,
         lista_interfaces' \in Seq(Proceso),
         estado' \in [Pid -> {"LISTO", "WAITING", "EXIT"}],
         pedidos' \in 0 .. MaxPedidos, caido' \in BOOLEAN
  PROVE  TiposSinNumero'
  BY DEF TiposSinNumero

-----------------------------------------------------------------------------
(* Who is at the other end of a number.                                    *)

(* The thread of a connection reads from its own process.                  *)
LEMMA DelHilo ==
  ASSUME NumInd, NEW c \in Proceso, hilo[c].paso = "recv"
  PROVE  Detras(hilo[c].conexion) = {c}
  BY DEF NumInd, Linea, Detras

(* An interface sends to its own process; it may have gone.                *)
LEMMA DeLaInterfaz ==
  ASSUME NumInd, NEW c \in Proceso, Dentro(c)
  PROVE  {d \in Detras(interfaz[c].codigo_cliente) : ~Apagado(d)}
           = IF Apagado(c) THEN {} ELSE {c}
  BY DEF NumInd, Linea, Detras, Dentro, Apagado

(* Recibe, then: what the thread takes is the head of what its process has *)
(* sent.                                                                   *)
LEMMA RecibeDe ==
  ASSUME NumInd, NEW c \in Proceso, NEW m, Recibe(c, m)
  PROVE  /\ hilo[c].paso = "recv" /\ proceso[c].sale # <<>> /\ m = Head(proceso[c].sale)
         /\ proceso' = [proceso EXCEPT ![c].sale = Tail(@)] /\ UNCHANGED fd
<1>1. hilo[c].paso = "recv"
  BY DEF Recibe
<1> QED
  BY <1>1, DelHilo DEF Recibe

(* The name of a process goes into its own interface.                      *)
LEMMA AgregarDe ==
  ASSUME NumInd, NEW c \in Proceso, AgregarInterfaces(c)
  PROVE  /\ hilo[c].paso = "recv" /\ proceso[c].sale # <<>>
         /\ Head(proceso[c].sale) = Conexion(c)
         /\ proceso' = [proceso EXCEPT ![c].sale = Tail(@)]
         /\ interfaz' = [interfaz EXCEPT ![c] = InterfazNueva(hilo[c].conexion)]
         /\ hilo' = [hilo EXCEPT ![c].paso = "agregando", ![c].visto = Len(lista_interfaces),
                                 ![c].agrega = c]
         /\ UNCHANGED <<fd, pendientes, cliente_fd, lista_interfaces, estado, pedidos, caido>>
<1>1. PICK d \in Detras(hilo[c].conexion) :
        /\ Recibe(c, Conexion(d))
        /\ interfaz' = [interfaz EXCEPT ![d] = InterfazNueva(hilo[c].conexion)]
        /\ hilo' = [hilo EXCEPT ![c].paso = "agregando", ![c].visto = Len(lista_interfaces),
                                ![c].agrega = d]
        /\ UNCHANGED <<pendientes, cliente_fd, lista_interfaces, estado, pedidos, caido>>
  BY DEF AgregarInterfaces
<1>2. hilo[c].paso = "recv"
  BY <1>1 DEF Recibe
<1>3. d = c
  BY <1>1, <1>2, DelHilo
<1>4. Recibe(c, Conexion(c))
  BY <1>1, <1>3
<1> QED
  BY <1>1, <1>3, <1>4, RecibeDe

(* A thread ends when its process is dead and it has read what it sent.    *)
LEMMA DesconexionDe ==
  ASSUME NumInd, NEW c \in Proceso, Desconexion(c)
  PROVE  /\ hilo[c].paso = "recv" /\ proceso[c].paso = "muerto" /\ proceso[c].sale = <<>>
         /\ fd' = [fd EXCEPT ![c] = 0] /\ hilo' = [hilo EXCEPT ![c].paso = "fin"]
         /\ UNCHANGED <<proceso, pendientes, cliente_fd, lista_interfaces, interfaz, estado,
                        pedidos, caido>>
<1>1. hilo[c].paso = "recv" /\ Detras(hilo[c].conexion) = {c}
  BY DelHilo DEF Desconexion
<1>2. fd' = [d \in Proceso |-> IF d \in {c} THEN 0 ELSE fd[d]]
  BY <1>1 DEF Desconexion
<1>3. fd' = [fd EXCEPT ![c] = 0]
  BY <1>2 DEF NumInd
<1> QED
  BY <1>1, <1>3 DEF Desconexion

(* A request reaches the process of its interface, if it is alive.         *)
LEMMA UsoDe ==
  ASSUME NumInd, NEW c \in Proceso, Dentro(c), EsperarUso(c), proceso \in [Proceso -> FichaProceso]
  PROVE  LET blocked == Head(interfaz[c].cola_espera)
             pedido == [pid |-> blocked.pid, op |-> EnvioDe(Tipo[c], blocked.op)]
         IN  IF Apagado(c) THEN UNCHANGED proceso
             ELSE proceso' = [proceso EXCEPT ![c].entra = Append(@, pedido)]
<1> DEFINE blocked == Head(interfaz[c].cola_espera)
           pedido == [pid |-> blocked.pid, op |-> EnvioDe(Tipo[c], blocked.op)]
           llega == {d \in Detras(interfaz[c].codigo_cliente) : ~Apagado(d)}
<1>1. proceso' = [d \in Proceso |->
                    IF d \in llega THEN [proceso[d] EXCEPT !.entra = Append(@, pedido)]
                    ELSE proceso[d]]
  BY DEF EsperarUso
<1>2. llega = IF Apagado(c) THEN {} ELSE {c}
  BY DeLaInterfaz
<1> HIDE DEF llega, pedido
<1>3. CASE Apagado(c)
  BY <1>1, <1>2, <1>3
<1>4. CASE ~Apagado(c)
  <2>1. proceso' = [proceso EXCEPT ![c] = [proceso[c] EXCEPT !.entra = Append(@, pedido)]]
    BY <1>1, <1>2, <1>4
  <2> QED
    BY <1>4, <2>1 DEF pedido
<1> QED
  BY <1>3, <1>4 DEF pedido

(* Nothing else changes in any process.                                    *)
LEMMA SoloSuEntrada ==
  ASSUME NumInd, NEW c \in Proceso, Dentro(c), EsperarUso(c), proceso \in [Proceso -> FichaProceso]
  PROVE  /\ \A d \in Proceso \ {c} : proceso'[d] = proceso[d]
         /\ \A d \in Proceso : /\ proceso'[d].paso = proceso[d].paso
                               /\ proceso'[d].sale = proceso[d].sale
<1> DEFINE blocked == Head(interfaz[c].cola_espera)
           pedido == [pid |-> blocked.pid, op |-> EnvioDe(Tipo[c], blocked.op)]
<1>1. IF Apagado(c) THEN UNCHANGED proceso
      ELSE proceso' = [proceso EXCEPT ![c].entra = Append(@, pedido)]
  BY UsoDe
<1> DEFINE f == [proceso[c] EXCEPT !.entra = Append(@, pedido)]
<1>2. f.paso = proceso[c].paso /\ f.sale = proceso[c].sale
  <2> HIDE DEF pedido
  <2> QED
    BY DEF FichaProceso
<1>3. UNCHANGED proceso \/ proceso' = [proceso EXCEPT ![c] = f]
  BY <1>1
<1> HIDE DEF f
<1> QED
  BY <1>2, <1>3

-----------------------------------------------------------------------------
(* The connection: Conectar, Aceptar, LeerCliente, AgregarInterfaces and   *)
(* ListAdd, one process at a time.                                         *)

(* A process starts: with DeAUna nobody else is on the way.                *)
LEMMA PasoConectar ==
  ASSUME IntInd, DeAUna, NEW c \in Proceso, Conectar(c)
  PROVE  IntInd'
<1> USE DEF IntInd
<1>1. \A d \in Proceso : ~EnCamino(d)
  BY DEF Conectar, EnCamino
<1>2. Fuera(c) /\ pendientes = <<>>
  BY <1>1 DEF De, Camino, EnPuerta, Naciendo, Presentado, Agregando, Dentro, EnCamino,
     UnoEnCamino, Conectar
<1>3. TiposSinNumero'
  <2>1. proceso' = [proceso EXCEPT ![c] = [@ EXCEPT !.paso = "libre", !.sale = <<Conexion(c)>>]]
    BY DEF Conectar
  <2>2. [proceso[c] EXCEPT !.paso = "libre", !.sale = <<Conexion(c)>>] \in FichaProceso
    <3>1. <<Conexion(c)>> \in Seq(Mensaje \cup {Conexion(d) : d \in Proceso})
      OBVIOUS
    <3> QED
      BY <3>1, FichasDe DEF FichaProceso
  <2>3. proceso' \in [Proceso -> FichaProceso]
    BY <2>1, <2>2, FichasDe
  <2>4. pendientes' \in Seq(Proceso)
    BY <1>2 DEF Conectar
  <2>5. UNCHANGED <<cliente_fd, hilo, lista_interfaces, interfaz, estado, pedidos, caido>>
    BY DEF Conectar
  <2> QED
    BY <2>3, <2>4, <2>5, FichasDe, TipoConFichas
<1>4. ASSUME NEW d \in Proceso \ {c} PROVE De(d)'
  <2>1. proceso'[d] = proceso[d]
    BY FichasDe DEF Conectar
  <2> QED
    BY <1>1, <2>1, Ajeno DEF Conectar
<1>5. /\ proceso'[c].paso = "libre" /\ proceso'[c].sale = <<Conexion(c)>>
      /\ proceso'[c].entra = proceso[c].entra /\ proceso'[c].trabajo = proceso[c].trabajo
      /\ proceso[c].paso = "apagado" /\ pendientes' = <<c>>
      /\ \A d \in Proceso \ {c} : proceso'[d] = proceso[d]
  BY <1>2 DEF Conectar, TiposSinNumero
<1>6. EnPuerta(c)'
  BY <1>2, <1>5 DEF Fuera, EnPuerta, Conectar, Registrado
<1>7. Turno(c)'
  <2>1. Ocioso(c)
    BY <1>2 DEF De, Turno, Esperando, Fuera
  <2>2. Ocioso(c)'
    BY <1>2, <1>5, <2>1, MismaLista DEF Ocioso, Conectar, Fuera
  <2> QED
    BY <1>5, <2>1, <2>2 DEF De, Turno, Ocioso, Conectar, Apagado
<1>8. Hallado(c)'
  BY MismaLista DEF De, Hallado, ConCola, Conectar
<1>9. UnoEnCamino'
  <2>1. \A d \in Proceso \ {c} : ~EnCamino(d)'
    BY <1>1, <1>5, MismaLista DEF EnCamino, Conectar
  <2> QED
    BY <2>1, <1>6 DEF UnoEnCamino
<1> QED
  BY <1>3, <1>4, <1>6, <1>7, <1>8, <1>9 DEF De, Camino

(* The accept loop takes the only connection there is.                     *)
LEMMA PasoAceptar ==
  ASSUME IntInd, Aceptar
  PROVE  IntInd'
<1> USE DEF IntInd
<1>1. PICK c \in Proceso : EnPuerta(c)
  BY DEF Aceptar, UnoEnCamino
<1>2. /\ pendientes = <<c>> /\ Head(pendientes) = c /\ pendientes' = <<>>
      /\ cliente_fd' \in Numero
      /\ hilo' = [hilo EXCEPT ![c].paso = "naciendo"]
      /\ UNCHANGED <<proceso, lista_interfaces, interfaz, estado, pedidos, caido>>
  BY <1>1 DEF EnPuerta, Aceptar, Numero
<1>3. TiposSinNumero'
  <2>1. [hilo[c] EXCEPT !.paso = "naciendo"] \in FichaHilo
    BY FichasDe DEF FichaHilo
  <2>2. hilo' \in [Proceso -> FichaHilo]
    BY <1>2, <2>1, FichasDe
  <2> QED
    BY <1>2, <2>2, FichasDe, TipoConFichas
<1>4. \A d \in Proceso : EnCamino(d) => d = c
  BY <1>1 DEF EnPuerta, EnCamino, UnoEnCamino
<1>5. ASSUME NEW d \in Proceso \ {c} PROVE De(d)'
  <2>1. ~EnCamino(d)
    BY <1>4
  <2>2. hilo'[d] = hilo[d]
    BY <1>2 DEF TiposSinNumero
  <2> QED
    BY <1>2, <2>1, <2>2, Ajeno
<1>6. hilo'[c].paso = "naciendo" /\ hilo'[c].nombre_crear = hilo[c].nombre_crear
  BY <1>2, FichasDe DEF FichaHilo
<1>7. Naciendo(c)'
  BY <1>1, <1>2, <1>6, MismaLista DEF EnPuerta, Naciendo
<1>8. Turno(c)'
  BY <1>2, MismaLista
  DEF De, Turno, Esperando, Ocioso, Pedido, Enviado, SinPedido, ConPedido, Apagado
<1>9. Hallado(c)'
  BY <1>2, <1>6, MismaLista DEF De, Hallado, ConCola
<1>10. UnoEnCamino'
  BY <1>2, MismaLista DEF UnoEnCamino, EnCamino
<1> QED
  BY <1>3, <1>5, <1>7, <1>8, <1>9, <1>10 DEF De, Camino

(* The thread of a connection knows how far its process has come.          *)
LEMMA PorElPaso ==
  ASSUME IntInd, NEW c \in Proceso
  PROVE  /\ hilo[c].paso = "naciendo" => Naciendo(c)
         /\ hilo[c].paso = "agregando" => Agregando(c)
         /\ hilo[c].paso = "recv" => Presentado(c) \/ Dentro(c)
  BY DEF IntInd, De, Camino, Fuera, EnPuerta, Naciendo, Presentado, Agregando, Dentro

(* What an interface has to say to the kernel is its name, or the answer   *)
(* to its request.                                                         *)
LEMMA LoQueSale ==
  ASSUME IntInd, NEW c \in Proceso, hilo[c].paso = "recv", proceso[c].sale # <<>>
  PROVE  \/ Presentado(c) /\ Head(proceso[c].sale) = Conexion(c)
         \/ /\ Dentro(c) /\ Esperando(c) /\ interfaz[c].uso = 0
            /\ proceso[c].entra = <<>> /\ proceso[c].trabajo = NADIE
            /\ proceso[c].sale = <<Enviado(c)>> /\ Head(proceso[c].sale) = Enviado(c)
            /\ Enviado(c) \in Mensaje /\ Enviado(c).op # "CONEXION"
<1>1. CASE Presentado(c)
  BY <1>1 DEF Presentado
<1>2. CASE Dentro(c)
  <2>1. Esperando(c) /\ interfaz[c].uso = 0 /\ ConPedido(c)
    BY <1>2 DEF IntInd, De, Turno, Ocioso, Esperando, SinPedido, Dentro
  <2>2. /\ proceso[c].entra = <<>> /\ proceso[c].trabajo = NADIE
        /\ proceso[c].sale = <<Enviado(c)>>
    BY <2>1 DEF ConPedido
  <2>3. Enviado(c) \in Mensaje
    <3>1. Enviado(c) \in Mensaje \cup {Conexion(d) : d \in Proceso}
      <4>1. proceso[c].sale \in Seq(Mensaje \cup {Conexion(d) : d \in Proceso})
        BY FichasDe DEF IntInd, FichaProceso
      <4>2. \A S, x : <<x>> \in Seq(S) => x \in S
        OBVIOUS
      <4> QED
        BY <2>2, <4>1, <4>2
    <3>2. interfaz[c].blocked.pid \in Pid
      BY <2>1 DEF Esperando, Blocked
    <3>3. Enviado(c).pid = interfaz[c].blocked.pid /\ \A d : Conexion(d).pid = NADIE
      BY DEF Pedido, Enviado, Conexion
    <3> QED
      BY <3>1, <3>2, <3>3, InterfacesAssumption
  <2>4. \A op \in Operacion : op # "CONEXION"
    BY InterfacesAssumption DEF Operacion
  <2>5. Enviado(c).op # "CONEXION"
    BY <2>3, <2>4 DEF Mensaje
  <2> QED
    BY <1>2, <2>1, <2>2, <2>3, <2>5
<1> QED
  BY <1>1, <1>2, PorElPaso

(* A step of the kernel that only moves the thread of one connection.      *)
LEMMA SoloElHilo ==
  ASSUME IntInd, NEW c \in Proceso, NEW r \in FichaHilo,
         hilo' = [hilo EXCEPT ![c] = r],
         r.nombre_crear = hilo[c].nombre_crear,
         UNCHANGED <<proceso, pendientes, cliente_fd, lista_interfaces, interfaz, estado,
                     pedidos, caido>>,
         Camino(c)', EnPuerta(c) => EnPuerta(c)'
  PROVE  IntInd'
<1>1. hilo' \in [Proceso -> FichaHilo] /\ hilo'[c] = r
      /\ \A d \in Proceso \ {c} : hilo'[d] = hilo[d]
  BY FichasDe DEF IntInd
<1>2. TiposSinNumero'
  BY <1>1, FichasDe, TipoConFichas DEF IntInd
<1>3. ASSUME NEW d \in Proceso \ {c} PROVE De(d)'
  BY <1>1, Ajeno
<1>4. Turno(c)'
  BY MismaLista
  DEF IntInd, De, Turno, Esperando, Ocioso, Pedido, Enviado, SinPedido, ConPedido, Apagado
<1>5. Hallado(c)'
  BY <1>1, MismaLista DEF IntInd, De, Hallado, ConCola
<1>6. UnoEnCamino'
  <2>1. \A d \in Proceso : EnCamino(d)' => EnCamino(d)
    BY MismaLista DEF EnCamino
  <2>2. \A d \in Proceso \ {c} : EnPuerta(d) => EnPuerta(d)'
    BY <1>1, MismaLista DEF EnPuerta, Conexion
  <2> QED
    BY <2>1, <2>2, MismoCamino DEF IntInd
<1> QED
  BY <1>2, <1>3, <1>4, <1>5, <1>6 DEF IntInd, De

(* The thread reads cliente_fd before another connection changes it.       *)
LEMMA PasoLeerCliente ==
  ASSUME IntInd, NEW c \in Proceso, LeerCliente(c)
  PROVE  IntInd'
<1> DEFINE r == [hilo[c] EXCEPT !.paso = "recv", !.conexion = cliente_fd]
<1>1. Naciendo(c)
  BY PorElPaso DEF LeerCliente
<1>3. r \in FichaHilo /\ r.paso = "recv" /\ r.nombre_crear = hilo[c].nombre_crear
  BY FichasDe DEF IntInd, FichaHilo
<1>4. hilo' = [hilo EXCEPT ![c] = r]
  BY DEF LeerCliente
<1> HIDE DEF r
<1>5. hilo'[c] = r
  BY <1>4, FichasDe DEF IntInd
<1>6. UNCHANGED <<proceso, pendientes, cliente_fd, lista_interfaces, interfaz, estado,
                  pedidos, caido>>
  BY DEF LeerCliente
<1>7. Presentado(c)'
  BY <1>1, <1>3, <1>5, <1>6, MismaLista DEF Naciendo, Presentado, Conexion
<1>8. ~EnPuerta(c)
  BY <1>1 DEF Naciendo, EnPuerta
<1> QED
  BY <1>3, <1>4, <1>6, <1>7, <1>8, SoloElHilo DEF Camino

(* The thread of a process that is gone ends.                              *)
LEMMA PasoDesconexion ==
  ASSUME IntInd, NumInd, NEW c \in Proceso, Desconexion(c)
  PROVE  IntInd'
<1> DEFINE r == [hilo[c] EXCEPT !.paso = "fin"]
<1>1. Dentro(c)
  BY PorElPaso, DesconexionDe DEF Presentado
<1>2. r \in FichaHilo /\ r.paso = "fin"
      /\ r.nombre_crear = hilo[c].nombre_crear
  BY <1>1, FichasDe DEF IntInd, FichaHilo, Dentro
<1>3. hilo' = [hilo EXCEPT ![c] = r]
  BY DesconexionDe
<1> HIDE DEF r
<1>4. hilo'[c] = r
  BY <1>3, FichasDe DEF IntInd
<1>5. UNCHANGED <<proceso, pendientes, cliente_fd, lista_interfaces, interfaz, estado,
                  pedidos, caido>>
  BY DesconexionDe
<1>6. Dentro(c)'
  BY <1>1, <1>2, <1>4, <1>5, MismaLista DEF Dentro
<1>7. ~EnPuerta(c)
  BY <1>1 DEF Dentro, EnPuerta
<1> QED
  BY <1>2, <1>3, <1>5, <1>6, <1>7, SoloElHilo DEF Camino

(* agregar_interfaces makes a queue for the process that has just said its *)
(* name.                                                                   *)
LEMMA PasoAgregar ==
  ASSUME IntInd, NumInd, NEW c \in Proceso, AgregarInterfaces(c)
  PROVE  IntInd'
<1> DEFINE r == [hilo[c] EXCEPT !.paso = "agregando", !.visto = Len(lista_interfaces),
                                !.agrega = c]
           f == [proceso[c] EXCEPT !.sale = <<>>]
           n == hilo[c].conexion
<1>1. hilo[c].paso = "recv" /\ n \in Numero
  BY AgregarDe, FichasDe DEF IntInd, FichaHilo
<1>2. /\ proceso[c].sale # <<>> /\ Head(proceso[c].sale) = Conexion(c)
      /\ proceso' = [proceso EXCEPT ![c].sale = Tail(@)]
      /\ interfaz' = [interfaz EXCEPT ![c] = InterfazNueva(n)]
      /\ hilo' = [hilo EXCEPT ![c].paso = "agregando", ![c].visto = Len(lista_interfaces),
                              ![c].agrega = c]
      /\ UNCHANGED <<pendientes, cliente_fd, lista_interfaces, estado, pedidos, caido>>
  BY AgregarDe
<1>3. Presentado(c)
  BY <1>1, <1>2, LoQueSale DEF Conexion
<1>4. proceso[c].sale = <<Conexion(c)>> /\ Tail(proceso[c].sale) = <<>>
  BY <1>3 DEF Presentado
<1>5. f \in FichaProceso /\ f.sale = <<>> /\ f.paso = proceso[c].paso
      /\ f.entra = proceso[c].entra /\ f.trabajo = proceso[c].trabajo
  <2>1. <<>> \in Seq(Mensaje \cup {Conexion(d) : d \in Proceso})
    OBVIOUS
  <2> QED
    BY <2>1, FichasDe DEF IntInd, FichaProceso
<1>6. r \in FichaHilo /\ r.paso = "agregando" /\ r.agrega = c
      /\ r.visto = Len(lista_interfaces) /\ r.nombre_crear = hilo[c].nombre_crear
  <2>1. Len(lista_interfaces) \in Nat
    BY FichasDe DEF IntInd
  <2> QED
    BY <1>1, <2>1, FichasDe DEF IntInd, FichaHilo
<1>7. InterfazNueva(n) \in FichaInterfaz
  <2>1. 0 \in 0 .. MaxPedidos /\ <<>> \in Seq(Blocked)
    BY InterfacesAssumption
  <2> QED
    BY <1>1, <2>1 DEF InterfazNueva, FichaInterfaz
<1>8. proceso' = [proceso EXCEPT ![c] = f] /\ hilo' = [hilo EXCEPT ![c] = r]
  BY <1>2, <1>4
<1> HIDE DEF f, r, n
<1>9. /\ proceso' \in [Proceso -> FichaProceso] /\ proceso'[c] = f
      /\ hilo' \in [Proceso -> FichaHilo] /\ hilo'[c] = r
      /\ interfaz' \in [Proceso -> FichaInterfaz] /\ interfaz'[c] = InterfazNueva(n)
      /\ \A d \in Proceso \ {c} : /\ proceso'[d] = proceso[d] /\ hilo'[d] = hilo[d]
                                  /\ interfaz'[d] = interfaz[d]
  <2>1. interfaz' = [interfaz EXCEPT ![c] = InterfazNueva(n)]
    BY <1>2
  <2> QED
    BY <1>5, <1>6, <1>7, <1>8, <2>1, FichasDe DEF IntInd
<1>10. TiposSinNumero'
  BY <1>2, <1>9, FichasDe, TipoConFichas DEF IntInd
<1>11. ASSUME NEW d \in Proceso \ {c} PROVE De(d)'
  BY <1>2, <1>9, Ajeno
<1>12. Agregando(c)'
  BY <1>2, <1>3, <1>5, <1>6, <1>9, MismaLista DEF Presentado, Agregando, InterfazNueva
<1>13. Turno(c)'
  <2>1. Ocioso(c)
    BY <1>3 DEF IntInd, De, Turno, Esperando, Presentado
  <2>2. Ocioso(c)'
    BY <1>5, <1>9, <2>1, MismaLista DEF Ocioso, InterfazNueva
  <2>3. Len(<<>>) = 0 /\ 0 <= pedidos
    BY FichasDe DEF IntInd
  <2> QED
    BY <1>2, <1>5, <1>9, <2>2, <2>3 DEF IntInd, De, Turno, Apagado, InterfazNueva
<1>14. Hallado(c)'
  BY <1>6, <1>9 DEF IntInd, De, Hallado, ConCola, InterfazNueva
<1>15. UnoEnCamino'
  <2>1. \A d \in Proceso : EnCamino(d)' => EnCamino(d)
    BY <1>2, <1>5, <1>9, MismaLista DEF EnCamino
  <2>2. pendientes = <<>>
    BY <1>3 DEF Presentado
  <2> QED
    BY <1>2, <2>1, <2>2 DEF IntInd, UnoEnCamino
<1> QED
  BY <1>10, <1>11, <1>12, <1>13, <1>14, <1>15 DEF IntInd, De, Camino

(* list_add puts it after those that the list had, since nobody else has   *)
(* come meanwhile.                                                         *)
LEMMA AlFinal ==
  ASSUME TiposSinNumero, NEW c \in Proceso, ListAdd(c), Agregando(c)
  PROVE  /\ lista_interfaces' = Append(lista_interfaces, c)
         /\ lista_interfaces' \in Seq(Proceso)
         /\ \A d : Registrado(d)' <=> Registrado(d) \/ d = c
<1> DEFINE n == Len(lista_interfaces)
<1>1. lista_interfaces \in Seq(Proceso)
  BY FichasDe
<1>2. SubSeq(lista_interfaces, 1, n) = lista_interfaces
  BY <1>1
<1>3. lista_interfaces' = Append(lista_interfaces, c)
  BY <1>2 DEF ListAdd, Agregando
<1>4. /\ n \in Nat /\ DOMAIN lista_interfaces = 1 .. n
      /\ DOMAIN lista_interfaces' = 1 .. n + 1
      /\ lista_interfaces'[n + 1] = c
      /\ \A i \in 1 .. n : lista_interfaces'[i] = lista_interfaces[i]
      /\ lista_interfaces' \in Seq(Proceso)
  BY <1>1, <1>3
<1>5. /\ n + 1 \in 1 .. n + 1
      /\ \A i \in 1 .. n + 1 : i \in 1 .. n \/ i = n + 1
      /\ \A i \in 1 .. n : i \in 1 .. n + 1
  BY <1>4
<1> HIDE DEF n
<1> QED
  BY <1>3, <1>4, <1>5 DEF Registrado

(* list_add puts it after those that the list had, since nobody else has   *)
(* come meanwhile.                                                         *)
LEMMA PasoListAdd ==
  ASSUME IntInd, NEW c \in Proceso, ListAdd(c)
  PROVE  IntInd'
<1> DEFINE r == [hilo[c] EXCEPT !.paso = "recv"]
           n == Len(lista_interfaces)
<1>1. Agregando(c)
  BY PorElPaso DEF ListAdd
<1>2. hilo[c].agrega = c /\ hilo[c].visto = n
  BY <1>1 DEF Agregando
<1>3. lista_interfaces' = Append(lista_interfaces, c)
  BY <1>1, AlFinal DEF IntInd
<1>4. /\ lista_interfaces' \in Seq(Proceso)
      /\ \A d : Registrado(d)' <=> Registrado(d) \/ d = c
  BY <1>1, AlFinal DEF IntInd
<1>5. /\ \A d \in Proceso : BuscarInterfazPorNombre(Nombre[d]) = d
                              => BuscarInterfazPorNombre(Nombre[d])' = d
  BY <1>3, UnaMas, FichasDe, InterfacesAssumption DEF IntInd
<1>6. r \in FichaHilo /\ r.paso = "recv"
      /\ r.nombre_crear = hilo[c].nombre_crear
  BY <1>2, FichasDe DEF IntInd, FichaHilo
<1>7. /\ hilo' = [hilo EXCEPT ![c] = r]
      /\ UNCHANGED <<proceso, pendientes, cliente_fd, interfaz, estado, pedidos, caido>>
  BY DEF ListAdd
<1> HIDE DEF r
<1>8. hilo' \in [Proceso -> FichaHilo] /\ hilo'[c] = r
      /\ \A d \in Proceso \ {c} : hilo'[d] = hilo[d]
  BY <1>6, <1>7, FichasDe DEF IntInd
<1>9. TiposSinNumero'
  BY <1>4, <1>7, <1>8, FichasDe, TipoConFichas DEF IntInd
<1>10. \A d \in Proceso : EnCamino(d) => d = c
  BY <1>1 DEF IntInd, UnoEnCamino, EnCamino, Agregando
<1>11. ASSUME NEW d \in Proceso \ {c} PROVE Camino(d)'
  <2>1. Fuera(d) \/ Dentro(d)
    BY <1>10 DEF IntInd, De, Camino, EnCamino, EnPuerta, Naciendo, Presentado, Agregando
  <2> QED
    BY <1>4, <1>7, <1>8, <2>1 DEF Camino, Fuera, Dentro
<1>12. Dentro(c)'
  BY <1>1, <1>4, <1>6, <1>7, <1>8 DEF Agregando, Dentro
<1>13. ASSUME NEW d \in Proceso PROVE Turno(d)'
  <2>1. Enviado(d)' = Enviado(d) /\ Pedido(d)' = Pedido(d)
    BY <1>7 DEF Pedido, Enviado
  <2>2. Esperando(d) => Esperando(d)'
    BY <1>4, <1>7, <2>1 DEF Esperando, SinPedido, ConPedido
  <2>3. Ocioso(d) => Ocioso(d)'
    BY <1>1, <1>4, <1>7 DEF Ocioso, Agregando
  <2> QED
    BY <1>7, <2>2, <2>3 DEF IntInd, De, Turno, Apagado
<1>14. ASSUME NEW d \in Proceso PROVE Hallado(d)'
  BY <1>2, <1>5, <1>6, <1>7, <1>8 DEF IntInd, De, Hallado, ConCola
<1>15. UnoEnCamino'
  <2>1. \A d \in Proceso : ~EnCamino(d)'
    BY <1>4, <1>7, <1>10 DEF EnCamino
  <2>2. pendientes' = <<>>
    BY <1>1, <1>7 DEF Agregando
  <2> QED
    BY <2>1, <2>2 DEF UnoEnCamino
<1> QED
  BY <1>9, <1>11, <1>12, <1>13, <1>14, <1>15 DEF IntInd, De, Camino

-----------------------------------------------------------------------------
(* A request.                                                              *)

(* A step that only concerns one interface: its process, its queue and the *)
(* thread of its connection.                                               *)
LEMMA SoloUna ==
  ASSUME IntInd, NEW c \in Proceso,
         proceso' \in [Proceso -> FichaProceso], hilo' \in [Proceso -> FichaHilo],
         interfaz' \in [Proceso -> FichaInterfaz],
         \A d \in Proceso \ {c} : /\ proceso'[d] = proceso[d] /\ hilo'[d] = hilo[d]
                                  /\ interfaz'[d] = interfaz[d],
         UNCHANGED <<pendientes, cliente_fd, lista_interfaces>>,
         estado' \in [Pid -> {"LISTO", "WAITING", "EXIT"}], caido' \in BOOLEAN,
         pedidos' \in {pedidos, pedidos + 1}, pedidos' \in 0 .. MaxPedidos,
         proceso[c].paso = "apagado" => proceso'[c].paso = "apagado",
         EnPuerta(c) => EnPuerta(c)', Camino(c)', Turno(c)', Hallado(c)'
  PROVE  IntInd'
<1>1. TiposSinNumero'
  BY FichasDe, TipoConFichas DEF IntInd
<1>2. ASSUME NEW d \in Proceso \ {c} PROVE De(d)'
  BY Ajeno
<1>3. UnoEnCamino'
  <2>1. \A d \in Proceso : EnCamino(d)' => EnCamino(d)
    BY MismaLista DEF EnCamino
  <2>2. \A d \in Proceso \ {c} : EnPuerta(d) => EnPuerta(d)'
    BY MismaLista DEF EnPuerta, Conexion
  <2> QED
    BY <2>1, <2>2, MismoCamino DEF IntInd
<1> QED
  BY <1>1, <1>2, <1>3 DEF IntInd, De

(* Whatever happens in a registered interface, it stays where it is.       *)
LEMMA SigueDentro ==
  ASSUME NEW c \in Proceso, Dentro(c), UNCHANGED lista_interfaces,
         proceso'[c].paso # "apagado", interfaz'[c].paso # "nada",
         hilo'[c].paso = hilo[c].paso
  PROVE  Camino(c)' /\ ~EnPuerta(c)
  BY MismaLista DEF Dentro, Camino, EnPuerta

(* A registered interface is on no other part of the way.                  *)
LEMMA YaDentro ==
  ASSUME IntInd, NEW c \in Proceso, Registrado(c)
  PROVE  Dentro(c)
  BY DEF IntInd, De, Camino, Fuera, EnPuerta, Naciendo, Presentado, Agregando

(* ejecutar_io_* and its relatives append to the queue of the interface    *)
(* that has the name, or finish the process.                               *)
LEMMA PasoEjecutarIo ==
  ASSUME IntInd, NEW p \in Pid, NEW par \in Pedibles, EjecutarIo(p, par[1], par[2])
  PROVE  IntInd'
<1> DEFINE b == [pid |-> p, op |-> par[2]]
<1>1. b \in Blocked
  BY DEF Blocked, Operacion
<1>2. PICK c : c = BuscarInterfazPorNombre(par[1])
  OBVIOUS
<1>3. /\ pedidos < MaxPedidos /\ pedidos' = pedidos + 1
      /\ UNCHANGED <<proceso, pendientes, cliente_fd, hilo, lista_interfaces, caido>>
      /\ \/ c = NADIE /\ estado' = [estado EXCEPT ![p] = "EXIT"] /\ UNCHANGED interfaz
         \/ /\ c # NADIE /\ estado' = [estado EXCEPT ![p] = "WAITING"]
            /\ interfaz' = [interfaz EXCEPT ![c].cola_espera = Append(@, b), ![c].contador = @ + 1]
  BY <1>2 DEF EjecutarIo, Encolar
<1>4. pedidos' \in 0 .. MaxPedidos /\ pedidos \in Nat
  BY <1>3, FichasDe DEF IntInd
<1>5. estado' \in [Pid -> {"LISTO", "WAITING", "EXIT"}]
  BY <1>3, FichasDe DEF IntInd
<1>6. CASE c = NADIE
  <2>1. UNCHANGED interfaz
    BY <1>3, <1>6
  <2>2. \A d \in Proceso : De(d)'
    BY <1>3, <1>4, <2>1, Ajeno
  <2>3. TiposSinNumero'
    BY <1>3, <1>4, <1>5, <2>1, FichasDe, TipoConFichas DEF IntInd
  <2>4. UnoEnCamino'
    BY <1>3, <2>1, MismoCamino, MismaLista DEF IntInd, EnCamino, EnPuerta, Conexion
  <2> QED
    BY <2>2, <2>3, <2>4 DEF IntInd
<1>7. CASE c # NADIE
  <2>1. c \in Proceso /\ Registrado(c) /\ Nombre[c] = par[1]
    BY <1>2, <1>7, Buscada, FichasDe DEF IntInd
  <2> DEFINE i == [interfaz[c] EXCEPT !.cola_espera = Append(@, b), !.contador = @ + 1]
  <2>2. /\ interfaz[c] \in FichaInterfaz /\ interfaz[c].cola_espera \in Seq(Blocked)
        /\ interfaz[c].contador \in 0 .. MaxPedidos
    BY <2>1, FichasDe DEF IntInd, FichaInterfaz
  <2>3. Dentro(c)
    BY <2>1, YaDentro
  <2>4. /\ interfaz[c].contador + (IF interfaz[c].paso = "uso" THEN 1 ELSE 0)
             = Len(interfaz[c].cola_espera)
        /\ Len(interfaz[c].cola_espera) <= pedidos
    BY <2>1 DEF IntInd, De, Turno
  <2>5. interfaz[c].contador + 1 \in 0 .. MaxPedidos
    <3>1. Len(interfaz[c].cola_espera) \in Nat /\ interfaz[c].contador \in Nat
      BY <2>2, FichasDe DEF IntInd
    <3> QED
      BY <1>3, <1>4, <2>4, <3>1, FichasDe DEF IntInd
  <2>6. /\ Append(interfaz[c].cola_espera, b) \in Seq(Blocked)
        /\ Len(Append(interfaz[c].cola_espera, b)) = Len(interfaz[c].cola_espera) + 1
    BY <1>1, <2>2
  <2> HIDE DEF b
  <2>7. /\ i \in FichaInterfaz
        /\ i.cola_espera = Append(interfaz[c].cola_espera, b)
        /\ i.contador = interfaz[c].contador + 1 /\ i.paso = interfaz[c].paso
        /\ i.blocked = interfaz[c].blocked /\ i.uso = interfaz[c].uso
        /\ i.uso_ejecucion = interfaz[c].uso_ejecucion
    BY <2>2, <2>5, <2>6 DEF FichaInterfaz
  <2>8. interfaz' = [interfaz EXCEPT ![c] = i]
    BY <1>3, <1>7
  <2> HIDE DEF i
  <2>9. /\ interfaz' \in [Proceso -> FichaInterfaz] /\ interfaz'[c] = i
        /\ \A d \in Proceso \ {c} : interfaz'[d] = interfaz[d]
    BY <2>1, <2>7, <2>8, FichasDe DEF IntInd
  <2>10. Camino(c)' /\ ~EnPuerta(c)
    BY <1>3, <2>1, <2>3, <2>7, <2>9, SigueDentro DEF Dentro
  <2>11. Turno(c)'
    <3>1. Enviado(c)' = Enviado(c) /\ Pedido(c)' = Pedido(c)
      BY <2>7, <2>9 DEF Pedido, Enviado
    <3>2. Esperando(c) => Esperando(c)'
      BY <1>3, <2>7, <2>9, <3>1, MismaLista DEF Esperando, SinPedido, ConPedido
    <3>3. Ocioso(c) => Ocioso(c)'
      BY <1>3, <2>1, <2>7, <2>9, MismaLista DEF Ocioso
    <3>4. \A x, y, z, w \in Nat : x + y = z /\ z <= w => x + 1 + y = z + 1 /\ z + 1 <= w + 1
      OBVIOUS
    <3>5. /\ i.contador + (IF i.paso = "uso" THEN 1 ELSE 0) = Len(i.cola_espera)
          /\ Len(i.cola_espera) <= pedidos'
      <4>1. /\ Len(interfaz[c].cola_espera) \in Nat /\ interfaz[c].contador \in Nat
            /\ (IF interfaz[c].paso = "uso" THEN 1 ELSE 0) \in Nat
        BY <2>2, FichasDe DEF IntInd
      <4>2. /\ i.contador = interfaz[c].contador + 1 /\ i.paso = interfaz[c].paso
            /\ Len(i.cola_espera) = Len(interfaz[c].cola_espera) + 1
            /\ pedidos' = pedidos + 1 /\ pedidos \in Nat
        BY <1>3, <1>4, <2>6, <2>7
      <4> QED
        BY <2>4, <3>4, <4>1, <4>2
    <3> QED
      BY <1>3, <2>1, <2>9, <3>2, <3>3, <3>5 DEF IntInd, De, Turno, Apagado
  <2>12. Hallado(c)'
    BY <1>2, <1>3, <2>1, MismaLista DEF IntInd, De, Hallado
  <2> QED
    BY <1>3, <1>4, <1>5, <2>1, <2>9, <2>10, <2>11, <2>12, FichasDe, SoloUna DEF IntInd
<1> QED
  BY <1>6, <1>7

-----------------------------------------------------------------------------
(* control_acceso.                                                         *)

(* Only an interface in the list has something to do.                      *)
LEMMA Activa ==
  ASSUME IntInd, NEW c \in Proceso,
         \/ interfaz[c].paso \in {"uso", "ejecucion"} \/ interfaz[c].contador > 0
         \/ proceso[c].trabajo # NADIE \/ proceso[c].entra # <<>>
  PROVE  Dentro(c)
<1>1. interfaz[c].cola_espera \in Seq(Blocked) /\ interfaz[c].contador \in Nat
  BY FichasDe DEF IntInd, FichaInterfaz
<1>2. Turno(c)
  BY DEF IntInd, De
<1>3. CASE Esperando(c)
  BY <1>3, YaDentro DEF Esperando
<1>4. CASE Ocioso(c)
  <2>1. interfaz[c].cola_espera = <<>> =>
          interfaz[c].contador + (IF interfaz[c].paso = "uso" THEN 1 ELSE 0) = 0
    BY <1>2 DEF Turno
  <2>2. interfaz[c].cola_espera # <<>>
    BY <1>1, <1>4, <2>1 DEF Ocioso
  <2>3. Registrado(c)
    BY <1>4, <2>2 DEF Ocioso
  <2> QED
    BY <2>3, YaDentro
<1> QED
  BY <1>2, <1>3, <1>4 DEF Turno

(* A step of one interface whose queue and process are in the list.        *)
LEMMA PasoDentro ==
  ASSUME IntInd, NEW c \in Proceso, NEW f \in FichaProceso, NEW i \in FichaInterfaz,
         proceso' = [proceso EXCEPT ![c] = f], interfaz' = [interfaz EXCEPT ![c] = i],
         UNCHANGED <<pendientes, cliente_fd, hilo, lista_interfaces, pedidos>>,
         estado' \in [Pid -> {"LISTO", "WAITING", "EXIT"}], caido' \in BOOLEAN,
         Dentro(c), f.paso # "apagado", i.paso # "nada", Turno(c)', ConCola(c)' => ConCola(c)
  PROVE  IntInd'
<1>1. /\ proceso' \in [Proceso -> FichaProceso] /\ proceso'[c] = f
      /\ interfaz' \in [Proceso -> FichaInterfaz] /\ interfaz'[c] = i
      /\ \A d \in Proceso \ {c} : proceso'[d] = proceso[d] /\ interfaz'[d] = interfaz[d]
  BY FichasDe DEF IntInd
<1>2. Camino(c)' /\ ~EnPuerta(c)
  BY <1>1, SigueDentro
<1>3. Hallado(c)'
  BY MismaLista DEF IntInd, De, Hallado
<1>4. proceso[c].paso # "apagado"
  BY DEF Dentro
<1> QED
  BY <1>1, <1>2, <1>3, <1>4, SoloUna, FichasDe DEF IntInd

(* sem_wait(semaforo_cola): a request is in the queue.                     *)
LEMMA PasoContador ==
  ASSUME IntInd, NEW c \in Proceso, EsperarContador(c)
  PROVE  IntInd'
<1> DEFINE i == [interfaz[c] EXCEPT !.paso = "uso", !.contador = @ - 1]
<1>1. Dentro(c) /\ Turno(c)
  BY Activa DEF EsperarContador, IntInd, De
<1>2. interfaz[c] \in FichaInterfaz /\ proceso[c] \in FichaProceso
  BY FichasDe DEF IntInd
<1>3. /\ interfaz[c].contador - 1 \in 0 .. MaxPedidos /\ interfaz[c].contador - 1 + 1 = interfaz[c].contador
      /\ interfaz[c].contador + 0 = interfaz[c].contador
  BY <1>2, InterfacesAssumption DEF EsperarContador, FichaInterfaz
<1>4. /\ i \in FichaInterfaz /\ i.paso = "uso" /\ i.contador = interfaz[c].contador - 1
      /\ i.cola_espera = interfaz[c].cola_espera /\ i.blocked = interfaz[c].blocked
      /\ i.uso = interfaz[c].uso /\ i.uso_ejecucion = interfaz[c].uso_ejecucion
  BY <1>2, <1>3 DEF FichaInterfaz
<1>5. interfaz' = [interfaz EXCEPT ![c] = i] /\ interfaz[c].paso = "contador"
  BY DEF EsperarContador
<1> HIDE DEF i
<1>6. interfaz'[c] = i
  BY <1>5, FichasDe DEF IntInd
<1>7. UNCHANGED <<proceso, estado, pendientes, cliente_fd, hilo, lista_interfaces, pedidos, caido>>
  BY DEF EsperarContador, SinTocarHilos
<1>8. Ocioso(c)
  BY <1>1, <1>5 DEF Turno, Esperando
<1>9. Turno(c)'
  <2>1. Ocioso(c)'
    BY <1>4, <1>6, <1>7, <1>8, MismaLista DEF Ocioso
  <2> QED
    BY <1>1, <1>3, <1>4, <1>5, <1>6, <1>7, <2>1 DEF Turno, Apagado
<1>10. proceso' = [proceso EXCEPT ![c] = proceso[c]] /\ proceso[c].paso # "apagado"
  BY <1>1, <1>7, FichasDe DEF IntInd, Dentro
<1> QED
  BY <1>1, <1>2, <1>4, <1>5, <1>6, <1>7, <1>9, <1>10, PasoDentro, FichasDe DEF IntInd, ConCola

(* What the kernel sends is a message.                                     *)
LEMMA EnvioTipo ==
  ASSUME NEW c \in Proceso, NEW b \in Blocked
  PROVE  /\ b.pid \in Pid /\ b.op \in Operacion /\ EnvioDe(Tipo[c], b.op) \in Operacion
         /\ [pid |-> b.pid, op |-> EnvioDe(Tipo[c], b.op)] \in Blocked
         /\ [pid |-> b.pid, op |-> EnvioDe(Tipo[c], b.op), nombre |-> Nombre[c]] \in Mensaje
<1>1. b.pid \in Pid /\ b.op \in Operacion
  BY DEF Blocked
<1>2. EnvioDe(Tipo[c], b.op) \in Operacion
  <2>1. {"SLEEP", "STDIN_READ", "STDOUT_WRITE"} \subseteq Operacion
    BY DEF Operacion
  <2> QED
    BY <1>1, <2>1, InterfacesAssumption DEF EnvioDe
<1>3. Nombre[c] \in Nombres
  BY DEF Nombres
<1> QED
  BY <1>1, <1>2, <1>3 DEF Mensaje, Blocked

(* sem_wait(semaforo_uso): the head of the queue is sent, or lost if the   *)
(* process has gone.                                                       *)
LEMMA PasoUso ==
  ASSUME IntInd, NumInd, NEW c \in Proceso, EsperarUso(c)
  PROVE  IntInd'
<1> DEFINE q == interfaz[c].cola_espera
           b == Head(q)
           m == [pid |-> b.pid, op |-> EnvioDe(Tipo[c], b.op)]
           i == [interfaz[c] EXCEPT !.paso = "ejecucion", !.uso = @ - 1, !.blocked = b,
                                    !.cola_espera = Tail(@)]
           f == IF Apagado(c) THEN proceso[c] ELSE [proceso[c] EXCEPT !.entra = Append(@, m)]
<1>1. Dentro(c) /\ Turno(c)
  BY Activa DEF EsperarUso, IntInd, De
<1>2. /\ interfaz[c].paso = "uso" /\ interfaz' = [interfaz EXCEPT ![c] = i]
      /\ IF Apagado(c) THEN UNCHANGED proceso
         ELSE proceso' = [proceso EXCEPT ![c].entra = Append(@, m)]
      /\ UNCHANGED <<estado, pendientes, cliente_fd, hilo, lista_interfaces, pedidos, caido>>
  BY <1>1, UsoDe, FichasDe DEF IntInd, EsperarUso, SinTocarHilos
<1>3. Ocioso(c)
  BY <1>1, <1>2 DEF Turno, Esperando
<1>4. SinPedido(c) /\ interfaz[c].uso = 1 /\ interfaz[c].uso_ejecucion = 0
  BY <1>1, <1>3 DEF Ocioso, SinPedido, Dentro
<1>5. interfaz[c] \in FichaInterfaz /\ proceso[c] \in FichaProceso /\ q \in Seq(Blocked)
      /\ pedidos \in Nat
  BY FichasDe DEF IntInd, FichaInterfaz
<1>6. interfaz[c].contador + 1 = Len(q) /\ interfaz[c].contador \in Nat /\ Len(q) <= pedidos
  BY <1>1, <1>2, <1>5, FichasDe DEF Turno, FichaInterfaz, IntInd
<1>7. q # <<>> /\ b \in Blocked /\ Tail(q) \in Seq(Blocked) /\ Len(Tail(q)) = Len(q) - 1
  <2> HIDE DEF q
  <2>1. q # <<>>
    BY <1>5, <1>6
  <2> QED
    BY <1>5, <2>1
<1>8. m \in Blocked
  BY <1>7, EnvioTipo
<1>9. Len(Tail(q)) = interfaz[c].contador + 0 /\ Len(Tail(q)) <= pedidos
  <2>1. Len(q) \in Nat
    BY <1>5
  <2> HIDE DEF q
  <2> QED
    BY <1>5, <1>6, <1>7, <2>1
<1> HIDE DEF b, q, m
<1>10. /\ i \in FichaInterfaz /\ i.paso = "ejecucion" /\ i.uso = 0 /\ i.uso_ejecucion = 0
       /\ i.blocked = b /\ i.cola_espera = Tail(q) /\ i.contador = interfaz[c].contador
  <2>1. interfaz[c].uso - 1 = 0
    BY <1>4
  <2>2. i = [interfaz[c] EXCEPT !.paso = "ejecucion", !.uso = 0, !.blocked = b,
                                !.cola_espera = Tail(q)]
    BY <2>1 DEF q
  <2>3. Tail(q) \in Seq(Blocked) /\ b \in Blocked \cup {NADIE} /\ 0 \in {0, 1}
    BY <1>7
  <2> HIDE DEF i
  <2> QED
    BY <1>4, <1>5, <2>2, <2>3 DEF FichaInterfaz
<1>11. /\ proceso' = [proceso EXCEPT ![c] = f] /\ f \in FichaProceso /\ f.paso = proceso[c].paso
       /\ f.trabajo = NADIE /\ f.sale = <<>>
       /\ f.entra = IF Apagado(c) THEN <<>> ELSE <<m>>
  <2>1. CASE Apagado(c)
    BY <1>2, <1>4, <1>5, <2>1, FichasDe DEF IntInd, SinPedido
  <2>2. CASE ~Apagado(c)
    <3>1. Append(proceso[c].entra, m) = <<m>> /\ <<m>> \in Seq(Blocked)
      BY <1>4, <1>8 DEF SinPedido
    <3>2. proceso' = [proceso EXCEPT ![c] = f]
      BY <1>2, <2>2
    <3>3. f = [proceso[c] EXCEPT !.entra = <<m>>]
      BY <2>2, <3>1
    <3> QED
      BY <1>4, <1>5, <2>2, <3>1, <3>2, <3>3 DEF SinPedido, FichaProceso
  <2> QED
    BY <2>1, <2>2
<1> HIDE DEF i, f
<1>12. interfaz'[c] = i /\ proceso'[c] = f
  BY <1>2, <1>11, FichasDe DEF IntInd
<1>13. Turno(c)'
  <2>1. Pedido(c)' = m
    BY <1>10, <1>12 DEF Pedido, m
  <2>2. SinPedido(c)' \/ ConPedido(c)'
    BY <1>11, <1>12, <2>1 DEF SinPedido, ConPedido
  <2>3. Registrado(c)'
    BY <1>1, <1>2, MismaLista DEF Dentro
  <2>4. Esperando(c)'
    BY <1>7, <1>10, <1>12, <2>2, <2>3 DEF Esperando
  <2>5. proceso[c].paso # "trabajando"
    BY <1>1, <1>4 DEF Turno, SinPedido
  <2> QED
    BY <1>2, <1>9, <1>10, <1>11, <1>12, <2>4, <2>5 DEF Turno, Apagado
<1>14. ConCola(c)
  BY <1>7 DEF ConCola, q
<1>15. f.paso # "apagado"
  BY <1>1, <1>11 DEF Dentro
<1> QED
  BY <1>1, <1>2, <1>10, <1>11, <1>13, <1>14, <1>15, PasoDentro, FichasDe DEF IntInd

(* sem_wait(semaforo_uso_ejecucion): the answer has come.                  *)
LEMMA PasoEjecucion ==
  ASSUME IntInd, NEW c \in Proceso, EsperarEjecucion(c)
  PROVE  IntInd'
<1> DEFINE i == [interfaz[c] EXCEPT !.paso = "contador", !.uso_ejecucion = @ - 1,
                                    !.blocked = NADIE]
<1>1. Dentro(c) /\ Turno(c)
  BY Activa DEF EsperarEjecucion, IntInd, De
<1>2. interfaz[c] \in FichaInterfaz /\ proceso[c] \in FichaProceso
  BY FichasDe DEF IntInd
<1>3. /\ interfaz[c].paso = "ejecucion" /\ interfaz[c].uso_ejecucion > 0
      /\ interfaz' = [interfaz EXCEPT ![c] = i]
      /\ estado' = [estado EXCEPT ![interfaz[c].blocked.pid] = "LISTO"]
      /\ UNCHANGED <<proceso, pendientes, cliente_fd, hilo, lista_interfaces, pedidos, caido>>
  BY DEF EsperarEjecucion, SinTocarHilos
<1>4. Esperando(c)
  BY <1>1, <1>3 DEF Turno, Ocioso
<1>5. interfaz[c].uso = 1 /\ interfaz[c].uso_ejecucion = 1 /\ SinPedido(c)
  BY <1>2, <1>3, <1>4 DEF Esperando, FichaInterfaz
<1>6. /\ i \in FichaInterfaz /\ i.paso = "contador" /\ i.uso = 1 /\ i.uso_ejecucion = 0
      /\ i.blocked = NADIE /\ i.cola_espera = interfaz[c].cola_espera
      /\ i.contador = interfaz[c].contador
  <2>1. interfaz[c].uso_ejecucion - 1 = 0
    BY <1>5
  <2>2. i = [interfaz[c] EXCEPT !.paso = "contador", !.uso_ejecucion = 0, !.blocked = NADIE]
    BY <2>1
  <2> HIDE DEF i
  <2> QED
    BY <1>2, <1>5, <2>2 DEF FichaInterfaz
<1> HIDE DEF i
<1>7. interfaz'[c] = i
  BY <1>3, FichasDe DEF IntInd
<1>8. Turno(c)'
  <2>1. Registrado(c)'
    BY <1>1, <1>3, MismaLista DEF Dentro
  <2>2. Ocioso(c)'
    BY <1>3, <1>5, <1>6, <1>7, <2>1 DEF Ocioso, SinPedido
  <2> QED
    BY <1>1, <1>3, <1>6, <1>7, <2>2 DEF Turno, Apagado
<1>9. ConCola(c)
  BY <1>4, SinNadie DEF ConCola, Esperando
<1>10. proceso' = [proceso EXCEPT ![c] = proceso[c]] /\ proceso[c].paso # "apagado"
  BY <1>1, <1>3, FichasDe DEF IntInd, Dentro
<1>11. estado' \in [Pid -> {"LISTO", "WAITING", "EXIT"}]
  BY <1>3, FichasDe DEF IntInd
<1> QED
  BY <1>1, <1>2, <1>3, <1>6, <1>8, <1>9, <1>10, <1>11, PasoDentro, FichasDe DEF IntInd

-----------------------------------------------------------------------------
(* The I/O process and its answer.                                         *)

(* A step that only changes the process of an interface.                   *)
LEMMA PasoProceso ==
  ASSUME IntInd, NEW c \in Proceso, NEW f \in FichaProceso,
         proceso' = [proceso EXCEPT ![c] = f], SinTocarKernel,
         Dentro(c), f.paso # "apagado", Turno(c)'
  PROVE  IntInd'
<1>1. interfaz' = [interfaz EXCEPT ![c] = interfaz[c]] /\ interfaz[c] \in FichaInterfaz
  BY FichasDe DEF IntInd, SinTocarKernel
<1>2. interfaz[c].paso # "nada"
  BY DEF Dentro
<1> QED
  BY <1>1, <1>2, PasoDentro, FichasDe DEF IntInd, SinTocarKernel, ConCola

(* The head of what has come is the request.                               *)
LEMMA PasoTomar ==
  ASSUME IntInd, NEW c \in Proceso, Tomar(c)
  PROVE  IntInd'
<1> DEFINE f == [proceso[c] EXCEPT !.paso = "trabajando", !.trabajo = Pedido(c), !.entra = <<>>]
<1>1. Dentro(c) /\ Turno(c)
  BY Activa DEF Tomar, IntInd, De
<1>2. Esperando(c) /\ interfaz[c].uso = 0 /\ ConPedido(c)
  BY <1>1 DEF Tomar, Turno, Ocioso, Esperando, SinPedido
<1>3. proceso[c].entra = <<Pedido(c)>> /\ proceso[c].sale = <<>>
  BY <1>2 DEF ConPedido, Tomar
<1>4. Head(proceso[c].entra) = Pedido(c) /\ Tail(proceso[c].entra) = <<>>
  BY <1>3
<1>5. proceso' = [proceso EXCEPT ![c] = f] /\ SinTocarKernel
  BY <1>4 DEF Tomar
<1>6. Pedido(c) \in Blocked
  BY <1>2, EnvioTipo DEF Esperando, Pedido
<1>7. f \in FichaProceso /\ f.paso = "trabajando" /\ f.trabajo = Pedido(c)
      /\ f.entra = <<>> /\ f.sale = <<>>
  <2>1. <<>> \in Seq(Blocked)
    OBVIOUS
  <2> QED
    BY <1>3, <1>6, <2>1, FichasDe DEF IntInd, FichaProceso
<1> HIDE DEF f
<1>8. proceso'[c] = f
  BY <1>5, FichasDe DEF IntInd
<1>9. Turno(c)'
  <2>1. /\ Pedido(c)' = Pedido(c) /\ Enviado(c)' = Enviado(c) /\ Pedido(c)' = Pedido(c)
        /\ Registrado(c)' = Registrado(c)
    BY <1>5, MismaLista DEF SinTocarKernel, Pedido, Enviado
  <2>2. ConPedido(c)'
    BY <1>7, <1>8, <2>1 DEF ConPedido
  <2>3. Esperando(c)'
    BY <1>2, <1>5, <2>1, <2>2 DEF SinTocarKernel, Esperando
  <2> QED
    BY <1>1, <1>5, <1>6, <1>7, <1>8, <2>3, SinNadie DEF Turno, SinTocarKernel, Apagado
<1> QED
  BY <1>1, <1>5, <1>7, <1>9, PasoProceso

(* The answer is the request that was in hand.                             *)
LEMMA PasoTerminar ==
  ASSUME IntInd, NEW c \in Proceso, Terminar(c)
  PROVE  IntInd'
<1> DEFINE f == [proceso[c] EXCEPT !.paso = "libre", !.trabajo = NADIE, !.sale = <<Enviado(c)>>]
<1>1. proceso[c].trabajo # NADIE
  BY DEF Terminar, IntInd, De, Turno
<1>2. Dentro(c) /\ Turno(c)
  BY <1>1, Activa DEF IntInd, De
<1>3. Esperando(c) /\ interfaz[c].uso = 0 /\ ConPedido(c)
  BY <1>1, <1>2 DEF Turno, Ocioso, Esperando, SinPedido
<1>4. proceso[c].entra = <<>> /\ proceso[c].trabajo = Pedido(c) /\ proceso[c].sale = <<>>
  BY <1>1, <1>3 DEF ConPedido
<1>5. Append(proceso[c].sale, RespuestaDe(c, proceso[c].trabajo)) = <<Enviado(c)>>
  <2>1. RespuestaDe(c, proceso[c].trabajo) = Enviado(c)
    BY <1>4 DEF RespuestaDe, Pedido, Enviado
  <2> QED
    BY <1>4, <2>1
<1>6. proceso' = [proceso EXCEPT ![c] = f] /\ SinTocarKernel
  BY <1>5 DEF Terminar
<1>7. Enviado(c) \in Mensaje
  BY <1>3, EnvioTipo DEF Esperando, Enviado
<1>8. f \in FichaProceso /\ f.paso = "libre" /\ f.trabajo = NADIE
      /\ f.entra = <<>> /\ f.sale = <<Enviado(c)>>
  <2>1. <<Enviado(c)>> \in Seq(Mensaje \cup {Conexion(d) : d \in Proceso})
    BY <1>7
  <2> QED
    BY <1>4, <2>1, FichasDe DEF IntInd, FichaProceso
<1> HIDE DEF f
<1>9. proceso'[c] = f
  BY <1>6, FichasDe DEF IntInd
<1>10. Turno(c)'
  <2>1. /\ Pedido(c)' = Pedido(c) /\ Enviado(c)' = Enviado(c) /\ Pedido(c)' = Pedido(c)
        /\ Registrado(c)' = Registrado(c)
    BY <1>6, MismaLista DEF SinTocarKernel, Pedido, Enviado
  <2>2. ConPedido(c)'
    BY <1>8, <1>9, <2>1 DEF ConPedido
  <2>3. Esperando(c)'
    BY <1>3, <1>6, <2>1, <2>2 DEF SinTocarKernel, Esperando
  <2> QED
    BY <1>2, <1>6, <1>8, <1>9, <2>3 DEF Turno, SinTocarKernel, Apagado
<1> QED
  BY <1>2, <1>6, <1>8, <1>10, PasoProceso

(* A process that dies loses the request it has, not the answer it sent.   *)
LEMMA PasoMorir ==
  ASSUME IntInd, NEW c \in Proceso, Morir(c)
  PROVE  IntInd'
<1> DEFINE f == [proceso[c] EXCEPT !.paso = "muerto", !.trabajo = NADIE, !.entra = <<>>]
<1>1. proceso' = [proceso EXCEPT ![c] = f] /\ SinTocarKernel /\ proceso[c].paso # "apagado"
  BY DEF Morir, Apagado
<1>2. f \in FichaProceso /\ f.paso = "muerto" /\ f.trabajo = NADIE /\ f.entra = <<>>
      /\ f.sale = proceso[c].sale
  <2>1. <<>> \in Seq(Blocked)
    OBVIOUS
  <2> QED
    BY <2>1, FichasDe DEF IntInd, FichaProceso
<1> HIDE DEF f
<1>3. /\ proceso' \in [Proceso -> FichaProceso] /\ proceso'[c] = f
      /\ \A d \in Proceso \ {c} : proceso'[d] = proceso[d]
  BY <1>1, <1>2, FichasDe DEF IntInd
<1>4. Camino(c)'
  BY <1>1, <1>2, <1>3, MismaLista
  DEF IntInd, De, SinTocarKernel, Camino, Fuera, EnPuerta, Naciendo, Presentado, Agregando,
      Dentro, Conexion
<1>5. EnPuerta(c) => EnPuerta(c)'
  BY <1>1, <1>2, <1>3, MismaLista DEF SinTocarKernel, EnPuerta, Conexion
<1>6. Turno(c)'
  <2>1. /\ Pedido(c)' = Pedido(c) /\ Enviado(c)' = Enviado(c) /\ Pedido(c)' = Pedido(c)
        /\ Registrado(c)' = Registrado(c)
    BY <1>1, MismaLista DEF SinTocarKernel, Pedido, Enviado
  <2>2. SinPedido(c) => SinPedido(c)'
    BY <1>2, <1>3 DEF SinPedido
  <2>3. ConPedido(c) => SinPedido(c)' \/ ConPedido(c)'
    BY <1>2, <1>3, <2>1 DEF SinPedido, ConPedido
  <2>4. Esperando(c) => Esperando(c)'
    BY <1>1, <2>1, <2>2, <2>3 DEF SinTocarKernel, Esperando
  <2>5. Ocioso(c) => Ocioso(c)'
    BY <1>1, <1>2, <1>3, <2>1 DEF SinTocarKernel, Ocioso
  <2> QED
    BY <1>1, <1>2, <1>3, <2>4, <2>5 DEF IntInd, De, Turno, SinTocarKernel, Apagado
<1>7. Hallado(c)'
  BY <1>1, MismaLista DEF SinTocarKernel, IntInd, De, Hallado, ConCola
<1> QED
  BY <1>1, <1>3, <1>4, <1>5, <1>6, <1>7, SoloUna, FichasDe DEF IntInd, SinTocarKernel

(* The kernel finds the interface of an answer by its name, or dies.       *)
LEMMA QuienContesta ==
  ASSUME IntInd, NEW c \in Proceso, Dentro(c), Esperando(c),
         NEW n \in {NADIE, Nombre[c]}
  PROVE  /\ n = NADIE => BuscarInterfazPorNombre(n) = NADIE
         /\ n = Nombre[c] => BuscarInterfazPorNombre(n) = c
<1>1. CASE n = NADIE
  <2>1. LlamadasDe(NADIE) = {}
    <3>1. \A k \in DOMAIN lista_interfaces : lista_interfaces[k] \in Proceso
      BY FichasDe DEF IntInd
    <3> QED
      BY <3>1, SinNadie DEF LlamadasDe, Nombres
  <2>2. Nombre[c] \in Nombres
    BY DEF Nombres
  <2> QED
    BY <1>1, <2>1, <2>2, SinNadie DEF BuscarInterfazPorNombre
<1>2. CASE n = Nombre[c]
  <2>1. ConCola(c)
    BY SinNadie DEF Esperando, ConCola
  <2>2. Nombre[c] \in Nombres
    BY DEF Nombres
  <2> QED
    BY <1>2, <2>1, <2>2, SinNadie DEF IntInd, De, Hallado
<1> QED
  BY <1>1, <1>2

(* What RecibirRespuesta does: the answer is that of the request, its name *)
(* is the one of the connection, and both semaphores go up unless the      *)
(* kernel has no name.                                                     *)
LEMMA LaRespuesta ==
  ASSUME IntInd, NumInd, NEW c \in Proceso, RecibirRespuesta(c)
  PROVE  /\ Dentro(c) /\ Esperando(c) /\ interfaz[c].uso = 0
         /\ proceso[c].entra = <<>> /\ proceso[c].trabajo = NADIE
         /\ proceso[c].sale = <<Enviado(c)>>
         /\ proceso' = [proceso EXCEPT ![c] = [@ EXCEPT !.sale = <<>>]]
         /\ hilo' = [hilo EXCEPT ![c].nombre_crear =
                       IF Enviado(c).op = "CREATE" THEN Nombre[c] ELSE @]
         /\ UNCHANGED <<pendientes, cliente_fd, lista_interfaces, estado, pedidos>>
         /\ \/ /\ Enviado(c).op = "WRITE" /\ hilo[c].nombre_crear = NADIE
               /\ caido' = TRUE /\ UNCHANGED interfaz
            \/ /\ Enviado(c).op = "WRITE" => hilo[c].nombre_crear # NADIE
               /\ interfaz' = [interfaz EXCEPT ![c].uso = @ + 1, ![c].uso_ejecucion = @ + 1]
               /\ UNCHANGED caido
<1>0. PICK m \in Mensaje :
        LET x == BuscarInterfazPorNombre(NombreDeRespuesta(c, m))
        IN  /\ Recibe(c, m)
            /\ hilo' = [hilo EXCEPT ![c].nombre_crear = IF m.op = "CREATE" THEN m.nombre ELSE @]
            /\ IF x = NADIE
               THEN caido' = TRUE /\ UNCHANGED interfaz
               ELSE Avisar(x) /\ UNCHANGED caido
            /\ UNCHANGED <<pendientes, cliente_fd, lista_interfaces, estado, pedidos>>
  BY DEF RecibirRespuesta
<1> DEFINE n == NombreDeRespuesta(c, m)
<1>1. hilo[c].paso = "recv" /\ proceso[c].sale # <<>> /\ m.op # "CONEXION"
      /\ proceso' = [proceso EXCEPT ![c].sale = Tail(@)]
  BY <1>0, RecibeDe, InterfacesAssumption DEF Mensaje, Operacion
<1>2. m = Head(proceso[c].sale)
  BY <1>0, RecibeDe
<1>3. /\ Dentro(c) /\ Esperando(c) /\ interfaz[c].uso = 0
      /\ proceso[c].entra = <<>> /\ proceso[c].trabajo = NADIE
      /\ proceso[c].sale = <<Enviado(c)>> /\ m = Enviado(c)
  <2>1. Conexion(c).op = "CONEXION"
    BY DEF Conexion
  <2>2. ~(Head(proceso[c].sale) = Conexion(c))
    BY <1>1, <1>2, <2>1
  <2> QED
    BY <1>1, <1>2, <2>2, LoQueSale
<1>4. Tail(proceso[c].sale) = <<>>
  BY <1>3
<1>5. Enviado(c).nombre = Nombre[c]
  BY DEF Pedido, Enviado
<1>6. hilo[c].nombre_crear \in {NADIE, Nombre[c]} /\ Nombre[c] # NADIE
  BY SinNadie DEF IntInd, De, Hallado, Nombres
<1>7. n \in {NADIE, Nombre[c]} /\ (n = NADIE <=> Enviado(c).op = "WRITE" /\ hilo[c].nombre_crear = NADIE)
  BY <1>3, <1>5, <1>6 DEF NombreDeRespuesta
<1>8. /\ n = NADIE => BuscarInterfazPorNombre(n) = NADIE
      /\ n # NADIE => BuscarInterfazPorNombre(n) = c
  BY <1>3, <1>7, QuienContesta
<1>9. /\ proceso' = [proceso EXCEPT ![c] = [@ EXCEPT !.sale = <<>>]]
      /\ hilo' = [hilo EXCEPT ![c].nombre_crear =
                    IF Enviado(c).op = "CREATE" THEN Nombre[c] ELSE @]
  BY <1>0, <1>1, <1>3, <1>4, <1>5
<1>10. /\ UNCHANGED <<pendientes, cliente_fd, lista_interfaces, estado, pedidos>>
       /\ IF BuscarInterfazPorNombre(n) = NADIE
          THEN caido' = TRUE /\ UNCHANGED interfaz
          ELSE Avisar(BuscarInterfazPorNombre(n)) /\ UNCHANGED caido
  BY <1>0
<1> HIDE DEF n
<1>11. c # NADIE
  BY InterfacesAssumption
<1> QED
  BY <1>3, <1>7, <1>8, <1>9, <1>10, <1>11 DEF Avisar

(* The answer frees the turn.                                              *)
LEMMA PasoRespuesta ==
  ASSUME IntInd, NumInd, NEW c \in Proceso, RecibirRespuesta(c)
  PROVE  IntInd'
<1> DEFINE f == [proceso[c] EXCEPT !.sale = <<>>]
           r == [hilo[c] EXCEPT !.nombre_crear =
                   IF Enviado(c).op = "CREATE" THEN Nombre[c] ELSE hilo[c].nombre_crear]
<1>1. /\ Dentro(c) /\ Esperando(c) /\ interfaz[c].uso = 0 /\ interfaz[c].uso_ejecucion = 0
      /\ proceso[c].entra = <<>> /\ proceso[c].trabajo = NADIE
      /\ proceso' = [proceso EXCEPT ![c] = f] /\ hilo' = [hilo EXCEPT ![c] = r]
      /\ UNCHANGED <<pendientes, cliente_fd, lista_interfaces, estado, pedidos>>
  BY LaRespuesta DEF Esperando
<1>2. f \in FichaProceso /\ f.sale = <<>> /\ f.paso = proceso[c].paso /\ f.entra = <<>>
      /\ f.trabajo = NADIE
  <2>1. <<>> \in Seq(Mensaje \cup {Conexion(d) : d \in Proceso})
    OBVIOUS
  <2> QED
    BY <1>1, <2>1, FichasDe DEF IntInd, FichaProceso
<1>3. r \in FichaHilo /\ r.paso = hilo[c].paso /\ r.conexion = hilo[c].conexion
      /\ r.nombre_crear \in {NADIE, Nombre[c]}
  <2>1. hilo[c].nombre_crear \in {NADIE, Nombre[c]} /\ Nombre[c] \in Nombres
    BY DEF IntInd, De, Hallado, Nombres
  <2> QED
    BY <2>1, FichasDe DEF IntInd, FichaHilo
<1> HIDE DEF f, r
<1>4. caido' \in BOOLEAN /\ \E i \in FichaInterfaz :
        /\ interfaz' = [interfaz EXCEPT ![c] = i]
        /\ i.paso = "ejecucion" /\ i.blocked = interfaz[c].blocked /\ i.uso = i.uso_ejecucion
        /\ i.cola_espera = interfaz[c].cola_espera /\ i.contador = interfaz[c].contador
  <2>1. CASE UNCHANGED interfaz /\ caido' = TRUE
    BY <1>1, <2>1, FichasDe DEF IntInd, Esperando
  <2>2. CASE interfaz' = [interfaz EXCEPT ![c].uso = @ + 1, ![c].uso_ejecucion = @ + 1]
             /\ UNCHANGED caido
    <3> DEFINE i == [interfaz[c] EXCEPT !.uso = 1, !.uso_ejecucion = 1]
    <3>1. interfaz[c].uso + 1 = 1 /\ interfaz[c].uso_ejecucion + 1 = 1
      BY <1>1
    <3>2. interfaz' = [interfaz EXCEPT ![c] = i]
      BY <2>2, <3>1
    <3>3. i \in FichaInterfaz /\ i.paso = interfaz[c].paso /\ i.blocked = interfaz[c].blocked
          /\ i.uso = i.uso_ejecucion /\ i.cola_espera = interfaz[c].cola_espera
          /\ i.contador = interfaz[c].contador
      BY FichasDe DEF IntInd, FichaInterfaz
    <3> HIDE DEF i
    <3> QED
      BY <1>1, <2>2, <3>2, <3>3, FichasDe DEF IntInd, Esperando
  <2> QED
    BY <2>1, <2>2, LaRespuesta
<1>5. PICK i \in FichaInterfaz :
        /\ interfaz' = [interfaz EXCEPT ![c] = i]
        /\ i.paso = "ejecucion" /\ i.blocked = interfaz[c].blocked /\ i.uso = i.uso_ejecucion
        /\ i.cola_espera = interfaz[c].cola_espera /\ i.contador = interfaz[c].contador
  BY <1>4
<1>6. /\ proceso' \in [Proceso -> FichaProceso] /\ proceso'[c] = f
      /\ hilo' \in [Proceso -> FichaHilo] /\ hilo'[c] = r
      /\ interfaz' \in [Proceso -> FichaInterfaz] /\ interfaz'[c] = i
      /\ \A d \in Proceso \ {c} : /\ proceso'[d] = proceso[d] /\ hilo'[d] = hilo[d]
                                  /\ interfaz'[d] = interfaz[d]
  BY <1>1, <1>2, <1>3, <1>5, FichasDe DEF IntInd
<1>7. proceso[c].paso # "apagado"
  BY <1>1 DEF Dentro
<1>8. Camino(c)' /\ ~EnPuerta(c)
  BY <1>1, <1>2, <1>3, <1>5, <1>6, <1>7, SigueDentro
<1>9. Turno(c)'
  <2>1. Registrado(c)'
    BY <1>1, MismaLista DEF Dentro
  <2>2. SinPedido(c)'
    BY <1>2, <1>6 DEF SinPedido
  <2>3. Esperando(c)'
    BY <1>1, <1>5, <1>6, <2>1, <2>2 DEF Esperando
  <2> QED
    BY <1>1, <1>2, <1>5, <1>6, <2>3 DEF IntInd, De, Turno, Esperando, Apagado
<1>10. Hallado(c)'
  BY <1>1, <1>3, <1>5, <1>6, MismaLista DEF IntInd, De, Hallado, ConCola
<1> QED
  BY <1>1, <1>4, <1>6, <1>7, <1>8, <1>9, <1>10, SoloUna, FichasDe DEF IntInd

-----------------------------------------------------------------------------
(* The invariant, and what it says.                                        *)

(* Every step keeps it.                                                    *)
LEMMA IntPaso ==
  ASSUME DeAUna, IntInd, NumInd, [Next]_vars
  PROVE  IntInd'
<1>1. CASE UNCHANGED vars
  <2>1. \A d \in Proceso : De(d)'
    BY <1>1, Ajeno DEF vars
  <2>2. TiposSinNumero'
    BY <1>1, FichasDe, TipoConFichas DEF IntInd, vars
  <2>3. UnoEnCamino'
    BY <1>1, MismoCamino, MismaLista DEF IntInd, EnCamino, EnPuerta, Conexion, vars
  <2> QED
    BY <2>1, <2>2, <2>3 DEF IntInd
<1>2. CASE Aceptar
  BY <1>2, PasoAceptar
<1>3. ASSUME NEW c \in Proceso, Conectar(c) \/ Morir(c) \/ ProcesoIo(c)
      PROVE  IntInd'
  BY <1>3, PasoConectar, PasoMorir, PasoTomar, PasoTerminar DEF ProcesoIo
<1>4. ASSUME NEW c \in Proceso, ControlAcceso(c)
      PROVE  IntInd'
  BY <1>4, PasoContador, PasoUso, PasoEjecucion DEF ControlAcceso
<1>5. ASSUME NEW c \in Proceso, ProcesarConexion(c)
      PROVE  IntInd'
  BY <1>5, PasoLeerCliente, PasoAgregar, PasoListAdd, PasoRespuesta, PasoDesconexion
  DEF ProcesarConexion
<1>6. ASSUME NEW p \in Pid, NEW par \in Pedibles, EjecutarIo(p, par[1], par[2])
      PROVE  IntInd'
  BY <1>6, PasoEjecutarIo
<1> QED
  BY <1>1, <1>2, <1>3, <1>4, <1>5, <1>6 DEF Next

-----------------------------------------------------------------------------
(* The numbers.                                                            *)

(* At the start there are none.                                            *)
LEMMA NumInicial == Init => NumInd
  BY DEF Init, NumInd, Linea, Registrado, EnCamino, Numero, InterfazNueva

(* A step that neither gives nor takes a number, nor starts, registers or  *)
(* kills anybody.                                                          *)
MismosNumeros ==
  /\ UNCHANGED <<fd, cliente_fd, lista_interfaces>>
  /\ \A c \in Proceso :
       /\ hilo'[c].paso = hilo[c].paso /\ hilo'[c].conexion = hilo[c].conexion
       /\ interfaz'[c].codigo_cliente = interfaz[c].codigo_cliente
       /\ proceso'[c].paso = "apagado" <=> proceso[c].paso = "apagado"
       /\ proceso'[c].paso = "muerto" <=> proceso[c].paso = "muerto"
       /\ hilo[c].paso = "fin" => proceso'[c].sale = proceso[c].sale
LEMMA NumIgual ==
  ASSUME NumInd, MismosNumeros
  PROVE  NumInd'
<1>1. \A c \in Proceso : /\ Registrado(c)' <=> Registrado(c)
                         /\ EnCamino(c)' <=> EnCamino(c)
  BY MismaLista DEF MismosNumeros, EnCamino
<1>2. \A c \in Proceso : Linea(c)'
  BY <1>1 DEF NumInd, MismosNumeros, Linea
<1> QED
  BY <1>1, <1>2 DEF NumInd, MismosNumeros

(* A process starts when every number in use has its owner.                *)
LEMMA NumConectar ==
  ASSUME Relevo, SinHomonimos, DeAUna, IntInd, NumInd, NEW c \in Proceso, Conectar(c)
  PROVE  NumInd'
<1>1. /\ UNCHANGED <<fd, cliente_fd, lista_interfaces, hilo, interfaz>>
      /\ proceso'[c].paso = "libre" /\ proceso[c].paso = "apagado" /\ RelevoEnOrden(c)
      /\ \A d \in Proceso : ~EnCamino(d)
      /\ \A d \in Proceso \ {c} : proceso'[d] = proceso[d]
  BY FichasDe DEF IntInd, Conectar, FichaProceso
<1>2. ~Registrado(c) /\ hilo[c].paso = "nada"
  BY <1>1 DEF IntInd, De, Camino, Fuera, EnPuerta, Naciendo, Presentado, Agregando, Dentro
<1>3. \A d \in Proceso : Registrado(d)' <=> Registrado(d)
  BY <1>1, MismaLista
<1>4. \A d \in Proceso : Linea(d)'
  BY <1>1, <1>2, <1>3 DEF NumInd, Linea
<1>5. ASSUME NEW d \in Proceso, Registrado(d)
      PROVE  fd[d] = interfaz[d].codigo_cliente /\ proceso'[d].paso # "muerto"
  <2>1. d # c
    BY <1>2, <1>5
  <2>2. PICK e \in Proceso : fd[e] = interfaz[d].codigo_cliente
    BY <1>1, <1>5, <2>1 DEF RelevoEnOrden, Detras, SinHomonimos
  <2>3. e = d /\ fd[d] # 0
    BY <1>5, <2>2 DEF NumInd, Linea
  <2> QED
    BY <1>1, <2>1, <2>2, <2>3 DEF RelevoEnOrden
<1> QED
  BY <1>1, <1>3, <1>4, <1>5 DEF NumInd

(* accept gives a number nobody has, and then no interface keeps it.       *)
LEMMA NumAceptar ==
  ASSUME IntInd, NumInd, Aceptar
  PROVE  NumInd'
<1>0. PICK c \in Proceso : EnPuerta(c)
  BY DEF IntInd, Aceptar, UnoEnCamino
<1>1. EnPuerta(c) /\ Head(pendientes) = c
  <2>1. Head(<<c>>) = c
    OBVIOUS
  <2> QED
    BY <1>0, <2>1 DEF EnPuerta
<1>2. PICK n \in Descriptor :
        /\ Detras(n) = {} /\ fd' = [fd EXCEPT ![c] = n] /\ cliente_fd' = n
        /\ hilo' = [hilo EXCEPT ![c].paso = "naciendo"]
        /\ UNCHANGED <<proceso, lista_interfaces, interfaz>>
  BY <1>1 DEF Aceptar
<1>3. n \in Numero /\ n # 0 /\ fd \in [Proceso -> Numero]
  BY InterfacesAssumption DEF Numero, NumInd
<1>4. /\ fd'[c] = n /\ \A d \in Proceso \ {c} : fd'[d] = fd[d]
      /\ fd' \in [Proceso -> Numero]
      /\ hilo'[c].paso = "naciendo" /\ \A d \in Proceso \ {c} : hilo'[d] = hilo[d]
  BY <1>2, <1>3, FichasDe DEF IntInd, FichaHilo
<1>5. /\ ~Registrado(c) /\ EnCamino(c)
      /\ \A d \in Proceso : (Registrado(d)' <=> Registrado(d)) /\ (EnCamino(d)' <=> EnCamino(d))
  BY <1>1, <1>2, MismaLista DEF EnPuerta, EnCamino
<1>6. \A d \in Proceso : fd[d] # n
  BY <1>2 DEF Detras
<1>7. ASSUME NEW d \in Proceso PROVE Linea(d)'
  <2>1. CASE d = c
    BY <1>2, <1>3, <1>4, <1>5, <2>1 DEF Linea
  <2>2. CASE d # c
    <3>1. hilo[d].paso # "naciendo"
      <4>1. ~EnCamino(d)
        BY <1>5, <2>2 DEF IntInd, UnoEnCamino
      <4> QED
        BY <4>1 DEF EnCamino, IntInd, De, Camino, Fuera, EnPuerta, Naciendo, Presentado,
           Agregando, Dentro
    <3> QED
      BY <1>2, <1>4, <1>5, <2>2, <3>1 DEF NumInd, Linea
  <2> QED
    BY <2>1, <2>2
<1>8. ASSUME NEW d \in Proceso, Registrado(d)
      PROVE  /\ d # c /\ fd[d] = interfaz[d].codigo_cliente /\ interfaz[d].codigo_cliente # n
             /\ proceso[d].paso # "muerto"
  BY <1>5, <1>6, <1>8 DEF NumInd
<1>9. \A d, e \in Proceso : fd'[d] # 0 /\ fd'[d] = fd'[e] => d = e
  BY <1>3, <1>4, <1>6 DEF NumInd
<1>10. \A d, e \in Proceso : Registrado(d) /\ fd'[e] = interfaz[d].codigo_cliente => d = e
  BY <1>4, <1>8 DEF NumInd
<1>11. \A d \in Proceso : Registrado(d) =>
         fd'[d] = interfaz[d].codigo_cliente /\ proceso[d].paso # "muerto"
  BY <1>4, <1>8
<1> QED
  BY <1>2, <1>4, <1>5, <1>7, <1>9, <1>10, <1>11 DEF NumInd

(* The thread reads its number, and its interface is made with it.         *)
LEMMA NumLeer ==
  ASSUME IntInd, NumInd, NEW c \in Proceso, LeerCliente(c)
  PROVE  NumInd'
<1>1. /\ hilo[c].paso = "naciendo" /\ hilo'[c].paso = "recv" /\ hilo'[c].conexion = cliente_fd
      /\ \A d \in Proceso \ {c} : hilo'[d] = hilo[d]
      /\ UNCHANGED <<proceso, fd, cliente_fd, lista_interfaces, interfaz>>
  BY FichasDe DEF IntInd, LeerCliente, FichaHilo
<1>2. /\ ~Registrado(c)
      /\ \A d \in Proceso : (Registrado(d)' <=> Registrado(d)) /\ (EnCamino(d)' <=> EnCamino(d))
  BY <1>1, PorElPaso, MismaLista DEF Naciendo, EnCamino
<1>3. \A d \in Proceso : Linea(d)'
  BY <1>1, <1>2 DEF NumInd, Linea
<1> QED
  BY <1>1, <1>2, <1>3 DEF NumInd

(* An interface keeps the number of the connection that named it.          *)
LEMMA NumAgregar ==
  ASSUME IntInd, NumInd, NEW c \in Proceso, AgregarInterfaces(c)
  PROVE  NumInd'
<1>0. /\ proceso \in [Proceso -> FichaProceso] /\ hilo \in [Proceso -> FichaHilo]
      /\ interfaz \in [Proceso -> FichaInterfaz]
      /\ InterfazNueva(hilo[c].conexion).codigo_cliente = hilo[c].conexion
  BY FichasDe DEF IntInd, InterfazNueva
<1>1. /\ hilo[c].paso = "recv" /\ hilo'[c].paso = "agregando"
      /\ hilo'[c].conexion = hilo[c].conexion
      /\ interfaz'[c].codigo_cliente = hilo[c].conexion
      /\ proceso'[c].paso = proceso[c].paso
      /\ \A d \in Proceso \ {c} : /\ hilo'[d] = hilo[d] /\ interfaz'[d] = interfaz[d]
                                  /\ proceso'[d] = proceso[d]
      /\ UNCHANGED <<fd, cliente_fd, lista_interfaces>>
  <2> DEFINE r == [hilo[c] EXCEPT !.paso = "agregando", !.visto = Len(lista_interfaces),
                                  !.agrega = c]
             f == [proceso[c] EXCEPT !.sale = Tail(@)]
             i == InterfazNueva(hilo[c].conexion)
  <2>1. /\ hilo' = [hilo EXCEPT ![c] = r] /\ proceso' = [proceso EXCEPT ![c] = f]
        /\ interfaz' = [interfaz EXCEPT ![c] = i] /\ hilo[c].paso = "recv"
        /\ UNCHANGED <<fd, cliente_fd, lista_interfaces>>
    <3>1. /\ hilo[c].paso = "recv" /\ UNCHANGED <<fd, cliente_fd, lista_interfaces>>
          /\ interfaz' = [interfaz EXCEPT ![c] = i]
          /\ proceso' = [proceso EXCEPT ![c].sale = Tail(@)]
          /\ hilo' = [hilo EXCEPT ![c].paso = "agregando", ![c].visto = Len(lista_interfaces),
                                  ![c].agrega = c]
      BY AgregarDe
    <3>2. hilo' = [hilo EXCEPT ![c] = r]
      BY <3>1
    <3>3. proceso' = [proceso EXCEPT ![c] = f]
      BY <3>1
    <3> QED
      BY <3>1, <3>2, <3>3
  <2>2. r.paso = "agregando" /\ r.conexion = hilo[c].conexion /\ f.paso = proceso[c].paso
    BY <1>0 DEF FichaHilo, FichaProceso
  <2>3. i.codigo_cliente = hilo[c].conexion
    BY <1>0
  <2> HIDE DEF r, f, i
  <2> QED
    BY <1>0, <2>1, <2>2, <2>3
<1>2. /\ ~Registrado(c)
      /\ \A d \in Proceso : (Registrado(d)' <=> Registrado(d)) /\ (EnCamino(d)' <=> EnCamino(d))
  <2>1. Presentado(c)
    <3>1. hilo[c].paso = "recv" /\ proceso[c].sale # <<>> /\ Head(proceso[c].sale) = Conexion(c)
      BY AgregarDe
    <3>2. Conexion(c).op = "CONEXION"
      BY DEF Conexion
    <3> QED
      BY <3>1, <3>2, LoQueSale
  <2> QED
    BY <1>1, <2>1, MismaLista DEF Presentado, EnCamino
<1>3. \A d \in Proceso : Linea(d)'
  BY <1>1, <1>2 DEF NumInd, Linea
<1> QED
  BY <1>1, <1>2, <1>3 DEF NumInd

(* The interface is in the list with its own number, and nobody is on the  *)
(* way.                                                                    *)
LEMMA NumListAdd ==
  ASSUME DeAUna, IntInd, IntInd', NumInd, NEW c \in Proceso, ListAdd(c)
  PROVE  NumInd'
<1>1. /\ hilo[c].paso = "agregando" /\ hilo'[c].paso = "recv"
      /\ hilo'[c].conexion = hilo[c].conexion
      /\ \A d \in Proceso \ {c} : hilo'[d] = hilo[d]
      /\ UNCHANGED <<proceso, fd, cliente_fd, interfaz>>
  BY FichasDe DEF IntInd, ListAdd, FichaHilo
<1>2. Agregando(c) /\ EnCamino(c)
  BY <1>1, PorElPaso DEF Agregando, EnCamino
<1>3. \A d \in Proceso : d # c => ~EnCamino(d)
  BY <1>2 DEF IntInd, UnoEnCamino
<1>4. \A d \in Proceso : Registrado(d)' <=> Registrado(d) \/ d = c
  BY <1>2, AlFinal DEF IntInd
<1>5. \A d \in Proceso : Linea(d)'
  BY <1>1, <1>4 DEF NumInd, Linea
<1>6. \A d \in Proceso : ~EnCamino(d)'
  BY <1>1, <1>3, <1>4 DEF EnCamino
<1>7. fd[c] = interfaz[c].codigo_cliente /\ fd[c] # 0
  BY <1>1 DEF NumInd, Linea
<1> QED
  BY <1>1, <1>4, <1>5, <1>6, <1>7 DEF NumInd

(* The thread of a dead process gives its number back: nobody is on the    *)
(* way to take it.                                                         *)
LEMMA NumDesconexion ==
  ASSUME IntInd, NumInd, NEW c \in Proceso, Desconexion(c)
  PROVE  NumInd'
<1>1. /\ hilo[c].paso = "recv" /\ hilo'[c].paso = "fin" /\ proceso[c].paso = "muerto"
      /\ proceso[c].sale = <<>> /\ hilo'[c].conexion = hilo[c].conexion
      /\ fd' = [fd EXCEPT ![c] = 0]
      /\ \A d \in Proceso \ {c} : hilo'[d] = hilo[d]
      /\ UNCHANGED <<proceso, cliente_fd, lista_interfaces, interfaz>>
  BY DesconexionDe, FichasDe DEF IntInd, FichaHilo
<1>2. 0 \in Numero /\ fd \in [Proceso -> Numero]
  BY DEF Numero, NumInd
<1>3. fd'[c] = 0 /\ fd' \in [Proceso -> Numero] /\ \A d \in Proceso \ {c} : fd'[d] = fd[d]
  BY <1>1, <1>2
<1>4. Registrado(c)
  BY <1>1, PorElPaso DEF Presentado, Dentro
<1>5. \A d \in Proceso : (Registrado(d)' <=> Registrado(d)) /\ (EnCamino(d)' <=> EnCamino(d))
  BY <1>1, MismaLista DEF EnCamino
<1>6. \A d \in Proceso : ~EnCamino(d)
  BY <1>1, <1>4 DEF NumInd
<1>7. \A d \in Proceso : Linea(d)'
  BY <1>1, <1>3, <1>5 DEF NumInd, Linea
<1>8. \A d \in Proceso : Registrado(d) => interfaz[d].codigo_cliente # 0
  BY DEF NumInd, Linea
<1> QED
  BY <1>1, <1>3, <1>5, <1>6, <1>7, <1>8 DEF NumInd

(* Nobody dies while another one is on the way.                            *)
LEMMA NumMorir ==
  ASSUME Relevo, IntInd, NumInd, NEW c \in Proceso, Morir(c)
  PROVE  NumInd'
<1>1. /\ proceso'[c].paso = "muerto" /\ proceso[c].paso # "apagado"
      /\ proceso'[c].sale = proceso[c].sale
      /\ \A d \in Proceso \ {c} : proceso'[d] = proceso[d] /\ ~EnCamino(d)
      /\ UNCHANGED <<fd, cliente_fd, lista_interfaces, hilo, interfaz>>
  <2> DEFINE f == [proceso[c] EXCEPT !.paso = "muerto", !.trabajo = NADIE, !.entra = <<>>]
  <2>1. /\ proceso' = [proceso EXCEPT ![c] = f] /\ proceso[c].paso # "apagado"
        /\ \A d \in Proceso \ {c} : ~EnCamino(d)
        /\ UNCHANGED <<fd, cliente_fd, lista_interfaces, hilo, interfaz>>
    BY DEF Morir, Apagado, SinTocarKernel
  <2>2. proceso \in [Proceso -> FichaProceso]
    BY FichasDe DEF IntInd
  <2>3. f.paso = "muerto" /\ f.sale = proceso[c].sale
    BY <2>2 DEF FichaProceso
  <2> HIDE DEF f
  <2> QED
    BY <2>1, <2>2, <2>3
<1>2. \A d \in Proceso : (Registrado(d)' <=> Registrado(d)) /\ (EnCamino(d)' <=> EnCamino(d))
  <2>1. \A d \in Proceso : Registrado(d)' = Registrado(d)
    BY <1>1, MismaLista
  <2>2. \A d \in Proceso : proceso'[d].paso # "apagado" <=> proceso[d].paso # "apagado"
    BY <1>1
  <2> QED
    BY <2>1, <2>2 DEF EnCamino
<1>3. \A d \in Proceso : Linea(d)'
  BY <1>1, <1>2 DEF NumInd, Linea
<1> QED
  <2>1. \A d \in Proceso : ~EnCamino(d) \/ d = c
    BY <1>1
  <2>2. Registrado(c) => ~EnCamino(c)
    BY DEF EnCamino
  <2> QED
    BY <1>1, <1>2, <1>3, <2>1, <2>2 DEF NumInd

(* What the other fields of an interface become does not matter.           *)
LEMMA SuNumero ==
  ASSUME interfaz \in [Proceso -> FichaInterfaz], NEW c \in Proceso, NEW i,
         i.codigo_cliente = interfaz[c].codigo_cliente, interfaz' = [interfaz EXCEPT ![c] = i]
  PROVE  \A d \in Proceso : interfaz'[d].codigo_cliente = interfaz[d].codigo_cliente
  OBVIOUS

(* Every step keeps the numbers.                                           *)
LEMMA NumPaso ==
  ASSUME DeAUna, Relevo, SinHomonimos, IntInd, IntInd', NumInd, [Next]_vars
  PROVE  NumInd'
<1>0. /\ proceso \in [Proceso -> FichaProceso] /\ hilo \in [Proceso -> FichaHilo]
      /\ interfaz \in [Proceso -> FichaInterfaz]
  BY FichasDe DEF IntInd
<1>1. CASE UNCHANGED vars
  BY <1>1, NumIgual DEF MismosNumeros, vars
<1>2. CASE Aceptar
  BY <1>2, NumAceptar
<1>3. ASSUME NEW c \in Proceso, Conectar(c) \/ Morir(c)
      PROVE  NumInd'
  BY <1>3, NumConectar, NumMorir
<1>4. ASSUME NEW c \in Proceso, ProcesoIo(c)
      PROVE  NumInd'
  <2>1. /\ \A d \in Proceso \ {c} : proceso'[d] = proceso[d]
        /\ proceso[c].paso \in {"libre", "trabajando"}
        /\ proceso'[c].paso \in {"libre", "trabajando"} /\ SinTocarKernel
    <3>1. CASE Tomar(c)
      <4> DEFINE f == [proceso[c] EXCEPT !.paso = "trabajando", !.trabajo = Head(proceso[c].entra),
                                         !.entra = Tail(@)]
      <4>1. /\ proceso' = [proceso EXCEPT ![c] = f] /\ proceso[c].paso = "libre"
            /\ SinTocarKernel
        BY <3>1 DEF Tomar
      <4>2. f.paso = "trabajando"
        BY <1>0 DEF FichaProceso
      <4> HIDE DEF f
      <4> QED
        BY <1>0, <4>1, <4>2
    <3>2. CASE Terminar(c)
      <4> DEFINE f == [proceso[c] EXCEPT !.paso = "libre", !.trabajo = NADIE,
                                         !.sale = Append(@, RespuestaDe(c, proceso[c].trabajo))]
      <4>1. /\ proceso' = [proceso EXCEPT ![c] = f] /\ proceso[c].paso = "trabajando"
            /\ SinTocarKernel
        BY <3>2 DEF Terminar
      <4>2. f.paso = "libre"
        BY <1>0 DEF FichaProceso
      <4> HIDE DEF f
      <4> QED
        BY <1>0, <4>1, <4>2
    <3> QED
      BY <1>4, <3>1, <3>2 DEF ProcesoIo
  <2>2. hilo[c].paso # "fin"
    BY <2>1 DEF NumInd, Linea
  <2> QED
    BY <2>1, <2>2, NumIgual DEF MismosNumeros, SinTocarKernel
<1>5. ASSUME NEW c \in Proceso, ControlAcceso(c)
      PROVE  NumInd'
  <2>1. /\ SinTocarHilos
        /\ \A d \in Proceso : /\ proceso'[d].paso = proceso[d].paso
                               /\ proceso'[d].sale = proceso[d].sale
    <3>1. CASE EsperarUso(c)
      <4>1. Dentro(c)
        BY <3>1, Activa DEF EsperarUso
      <4> QED
        BY <1>0, <3>1, <4>1, SoloSuEntrada DEF EsperarUso
    <3> QED
      BY <1>5, <3>1 DEF ControlAcceso, EsperarContador, EsperarEjecucion
  <2>2. \A d \in Proceso : interfaz'[d].codigo_cliente = interfaz[d].codigo_cliente
    <3>1. ASSUME EsperarContador(c)
          PROVE  \A d \in Proceso : interfaz'[d].codigo_cliente = interfaz[d].codigo_cliente
      <4> DEFINE i == [interfaz[c] EXCEPT !.paso = "uso", !.contador = @ - 1]
      <4>1. interfaz' = [interfaz EXCEPT ![c] = i]
        BY <3>1 DEF EsperarContador
      <4>2. i.codigo_cliente = interfaz[c].codigo_cliente
        BY <1>0 DEF FichaInterfaz
      <4> HIDE DEF i
      <4> QED
        BY <1>0, <4>1, <4>2, SuNumero
    <3>3. ASSUME EsperarEjecucion(c)
          PROVE  \A d \in Proceso : interfaz'[d].codigo_cliente = interfaz[d].codigo_cliente
      <4> DEFINE i == [interfaz[c] EXCEPT !.paso = "contador", !.uso_ejecucion = @ - 1,
                                          !.blocked = NADIE]
      <4>1. interfaz' = [interfaz EXCEPT ![c] = i]
        BY <3>3 DEF EsperarEjecucion
      <4>2. i.codigo_cliente = interfaz[c].codigo_cliente
        BY <1>0 DEF FichaInterfaz
      <4> HIDE DEF i
      <4> QED
        BY <1>0, <4>1, <4>2, SuNumero
    <3>2. ASSUME EsperarUso(c)
          PROVE  \A d \in Proceso : interfaz'[d].codigo_cliente = interfaz[d].codigo_cliente
      BY <1>0, <3>2 DEF EsperarUso, FichaInterfaz
    <3> QED
      BY <1>5, <3>1, <3>2, <3>3 DEF ControlAcceso
  <2> QED
    BY <2>1, <2>2, NumIgual DEF MismosNumeros, SinTocarHilos
<1>6. ASSUME NEW c \in Proceso, RecibirRespuesta(c)
      PROVE  NumInd'
  <2>1. /\ proceso' = [proceso EXCEPT ![c] = [@ EXCEPT !.sale = <<>>]]
        /\ hilo' = [hilo EXCEPT ![c].nombre_crear =
                      IF Enviado(c).op = "CREATE" THEN Nombre[c] ELSE @]
        /\ UNCHANGED <<pendientes, cliente_fd, lista_interfaces, estado, pedidos>>
        /\ \/ UNCHANGED interfaz
           \/ interfaz' = [interfaz EXCEPT ![c].uso = @ + 1, ![c].uso_ejecucion = @ + 1]
    BY <1>6, LaRespuesta
  <2>2. UNCHANGED fd
    BY <1>6, RecibeDe DEF RecibirRespuesta
  <2>3. \A d \in Proceso : interfaz'[d].codigo_cliente = interfaz[d].codigo_cliente
    <3> DEFINE i == [interfaz[c] EXCEPT !.uso = @ + 1, !.uso_ejecucion = @ + 1]
    <3>1. UNCHANGED interfaz \/ interfaz' = [interfaz EXCEPT ![c] = i]
      BY <2>1
    <3>2. i.codigo_cliente = interfaz[c].codigo_cliente
      BY <1>0 DEF FichaInterfaz
    <3> HIDE DEF i
    <3> QED
      BY <1>0, <3>1, <3>2, SuNumero
  <2>4. \A d \in Proceso : /\ proceso'[d].paso = proceso[d].paso
                           /\ d # c => proceso'[d].sale = proceso[d].sale
                           /\ hilo'[d].paso = hilo[d].paso /\ hilo'[d].conexion = hilo[d].conexion
    BY <1>0, <2>1 DEF FichaProceso, FichaHilo
  <2>5. hilo[c].paso = "recv"
    BY <1>6, RecibeDe DEF RecibirRespuesta
  <2> QED
    BY <2>1, <2>2, <2>3, <2>4, <2>5, NumIgual DEF MismosNumeros
<1>7. ASSUME NEW c \in Proceso, ProcesarConexion(c)
      PROVE  NumInd'
  BY <1>6, <1>7, NumLeer, NumAgregar, NumListAdd, NumDesconexion DEF ProcesarConexion
<1>8. ASSUME NEW p \in Pid, NEW par \in Pedibles, EjecutarIo(p, par[1], par[2])
      PROVE  NumInd'
  <2>1. UNCHANGED <<proceso, fd, pendientes, cliente_fd, hilo, lista_interfaces, caido>>
    BY <1>8 DEF EjecutarIo
  <2>2. \A d \in Proceso : interfaz'[d].codigo_cliente = interfaz[d].codigo_cliente
    <3>1. UNCHANGED interfaz \/ \E e \in Proceso : \E x : Encolar(e, x)
      <4> DEFINE e == BuscarInterfazPorNombre(par[1])
      <4>1. e = NADIE \/ e \in Proceso
        BY FichasDe, Buscada DEF IntInd
      <4>2. e = NADIE => UNCHANGED interfaz
        BY <1>8 DEF EjecutarIo
      <4>3. e # NADIE => Encolar(e, [pid |-> p, op |-> par[2]])
        BY <1>8 DEF EjecutarIo
      <4> QED
        BY <4>1, <4>2, <4>3
    <3>2. ASSUME NEW e \in Proceso, NEW x, Encolar(e, x)
          PROVE  \A d \in Proceso : interfaz'[d].codigo_cliente = interfaz[d].codigo_cliente
      <4> DEFINE i == [interfaz[e] EXCEPT !.cola_espera = Append(@, x), !.contador = @ + 1]
      <4>1. interfaz' = [interfaz EXCEPT ![e] = i]
        BY <3>2 DEF Encolar
      <4>2. i.codigo_cliente = interfaz[e].codigo_cliente
        BY <1>0 DEF FichaInterfaz
      <4> HIDE DEF i
      <4> QED
        BY <1>0, <4>1, <4>2, SuNumero
    <3> QED
      BY <3>1, <3>2
  <2> QED
    BY <2>1, <2>2, NumIgual DEF MismosNumeros
<1> QED
  BY <1>1, <1>2, <1>3, <1>4, <1>5, <1>7, <1>8 DEF Next

-----------------------------------------------------------------------------
(* The theorems.                                                           *)

(* Every reachable state satisfies both.                                   *)
LEMMA IntSiempre ==
  ASSUME DeAUna, Relevo, SinHomonimos
  PROVE  Init /\ [][Next]_vars => [](IntInd /\ NumInd)
<1>1. IntInd /\ NumInd /\ [Next]_vars => IntInd' /\ NumInd'
  BY IntPaso, NumPaso
<1> QED
  BY <1>1, IntInicial, NumInicial, PTL

(* The variables of the kernel and of the I/O processes keep their types:  *)
(* no semaphore of an interface passes one, however connections, requests, *)
(* answers and deaths interleave (agregar_interfaces, control_acceso), as  *)
(* long as nobody is given the number of one that died.                    *)
THEOREM TiposDeInterfaces ==
  ASSUME DeAUna, Relevo, SinHomonimos
  PROVE  Spec => []InterfacesTypeOK
<1>1. IntInd /\ NumInd => InterfacesTypeOK
  BY DEF IntInd, NumInd, TiposSinNumero, InterfacesTypeOK, FichaProceso, FichaHilo, FichaInterfaz
<1> QED
  BY <1>1, IntSiempre, PTL DEF Spec

(* What a process has sent, besides its name.                              *)
LEMMA RespuestasDe ==
  ASSUME IntInd, NEW c \in Proceso
  PROVE  /\ proceso[c].sale = <<>> => Respuestas(c) = <<>>
         /\ Ocioso(c) => Respuestas(c) = <<>>
         /\ Esperando(c) => Enviado(c) \in Mensaje
         /\ Esperando(c) /\ proceso[c].sale = <<Enviado(c)>> => Respuestas(c) = <<Enviado(c)>>
<1>1. proceso[c].sale = <<>> => Respuestas(c) = <<>>
  BY DEF Respuestas
<1>2. ASSUME Ocioso(c) PROVE Respuestas(c) = <<>>
  <2>1. CASE proceso[c].sale = <<>>
    BY <1>1, <2>1
  <2>2. CASE proceso[c].sale # <<>>
    <3>1. proceso[c].sale = <<Conexion(c)>>
      BY <1>2, <2>2
      DEF IntInd, De, Camino, Fuera, EnPuerta, Naciendo, Presentado, Agregando, Dentro, Ocioso
    <3>2. Head(<<Conexion(c)>>) = Conexion(c) /\ Tail(<<Conexion(c)>>) = <<>>
          /\ <<Conexion(c)>> # <<>>
      OBVIOUS
    <3>3. Conexion(c).op = "CONEXION"
      BY DEF Conexion
    <3> QED
      BY <3>1, <3>2, <3>3 DEF Respuestas
  <2> QED
    BY <2>1, <2>2
<1>3. ASSUME Esperando(c) PROVE Enviado(c) \in Mensaje
  BY <1>3, EnvioTipo DEF Esperando, Enviado
<1>4. ASSUME Esperando(c), proceso[c].sale = <<Enviado(c)>> PROVE Respuestas(c) = <<Enviado(c)>>
  <2>1. Enviado(c).op # "CONEXION"
    BY <1>3, <1>4, InterfacesAssumption DEF Mensaje, Operacion
  <2>2. Head(<<Enviado(c)>>) = Enviado(c)
    OBVIOUS
  <2> QED
    BY <1>4, <2>1, <2>2 DEF Respuestas
<1> QED
  BY <1>1, <1>2, <1>3, <1>4

(* The turn is one request, in one place.                                  *)
LEMMA PedidoDe == IntInd /\ NumInd => UnPedidoPorVez
<1> SUFFICES ASSUME IntInd, NumInd, NEW c \in Proceso
             PROVE  /\ Len(EnCurso(c)) <= 1
                    /\ EnCurso(c) # <<>> =>
                         \E d \in Proceso : /\ interfaz[d].blocked # NADIE
                                            /\ interfaz[d].blocked.pid = EnCurso(c)[1].pid
                                            /\ c \in Detras(interfaz[d].codigo_cliente)
  BY DEF UnPedidoPorVez
<1>1. \A x : /\ <<>> \o <<>> \o <<>> = <<>> /\ <<x>> \o <<>> \o <<>> = <<x>>
             /\ <<>> \o <<x>> \o <<>> = <<x>> /\ <<>> \o <<>> \o <<x>> = <<x>>
             /\ Len(<<>>) <= 1 /\ Len(<<x>>) <= 1 /\ <<x>>[1] = x
  OBVIOUS
<1>2. Enviado(c).pid = interfaz[c].blocked.pid /\ Pedido(c).pid = interfaz[c].blocked.pid
  BY DEF Pedido, Enviado
<1>3. CASE Ocioso(c)
  BY <1>1, <1>3, RespuestasDe DEF Ocioso, EnCurso
<1>4. CASE Esperando(c)
  <2>1. interfaz[c].blocked # NADIE /\ Pedido(c) # NADIE
    BY <1>4, EnvioTipo, SinNadie DEF Esperando, Pedido
  <2>2. CASE SinPedido(c)
    BY <1>1, <2>2, RespuestasDe DEF SinPedido, EnCurso
  <2>3. /\ proceso[c].trabajo = NADIE <=> proceso[c].paso # "trabajando"
        /\ proceso[c].paso = "muerto" => proceso[c].entra = <<>>
    BY DEF IntInd, De, Turno, Apagado
  <2>4. CASE ConPedido(c)
    <3>1. EnCurso(c) \in {<<Enviado(c)>>, <<Pedido(c)>>}
      BY <1>1, <1>4, <2>1, <2>4, RespuestasDe DEF ConPedido, EnCurso
    <3>2. c \in Detras(interfaz[c].codigo_cliente)
      <4>1. hilo[c].paso # "fin"
        BY <2>1, <2>3, <2>4 DEF NumInd, Linea, ConPedido
      <4> QED
        BY <1>4, <4>1, YaDentro DEF Esperando, Dentro, NumInd, Linea, Detras
    <3> QED
      BY <1>1, <1>2, <2>1, <3>1, <3>2
  <2> QED
    BY <1>4, <2>2, <2>4 DEF Esperando
<1> QED
  BY <1>3, <1>4 DEF IntInd, De, Turno

(* One request at a time between the kernel and each I/O process, and it   *)
(* is that of the PCB its control thread waits for, for any number of      *)
(* interfaces and requests, deaths and crashes of the kernel included, as  *)
(* long as nobody is given the number of one that died (interfaces.c:787,  *)
(* 804).                                                                   *)
THEOREM UnaVezCadaUno ==
  ASSUME DeAUna, Relevo, SinHomonimos
  PROVE  Spec => []UnPedidoPorVez
  BY IntSiempre, PedidoDe, PTL DEF Spec

-----------------------------------------------------------------------------
(* The refinement: a server with a queue of its own for each name.         *)

(* The scripts ask each interface for what its type does, since control_   *)
(* acceso sends the operation of the type whatever was asked.              *)
Propios ==
  \A par \in Pedibles : \A c \in Proceso :
    Nombre[c] = par[1] => EnvioDe(Tipo[c], par[2]) = par[2]

(* The requests for what will be done; and the answer of a WRITE finds the *)
(* name that a CREATE left.                                                *)
Buenos(c) == {b \in Blocked : /\ EnvioDe(Tipo[c], b.op) = b.op
                              /\ b.op = "WRITE" => hilo[c].nombre_crear # NADIE}
SerInd ==
  /\ IntInd /\ NumInd
  /\ \A c \in Proceso : /\ interfaz[c].blocked \in Buenos(c) \cup {NADIE}
                        /\ interfaz[c].cola_espera \in Seq(Buenos(c))

(* A name that a connection has is not forgotten.                          *)
LEMMA NombreQueda ==
  ASSUME IntInd, NumInd, Next, NEW c \in Proceso, hilo[c].nombre_crear # NADIE
  PROVE  hilo'[c].nombre_crear # NADIE
<1>1. hilo \in [Proceso -> FichaHilo] /\ Nombre[c] # NADIE
  BY FichasDe, SinNadie DEF IntInd, Nombres
<1>2. ASSUME NEW d \in Proceso, RecibirRespuesta(d) PROVE hilo'[c].nombre_crear # NADIE
  <2>1. hilo' = [hilo EXCEPT ![d].nombre_crear =
                   IF Enviado(d).op = "CREATE" THEN Nombre[d] ELSE @]
    BY <1>2, LaRespuesta
  <2> QED
    BY <1>1, <2>1 DEF FichaHilo
<1>3. ASSUME NEW d \in Proceso, LeerCliente(d) \/ AgregarInterfaces(d) \/ ListAdd(d) \/ Desconexion(d)
      PROVE  hilo'[c].nombre_crear # NADIE
  <2>0. ASSUME NEW r, r.nombre_crear = hilo[d].nombre_crear, hilo' = [hilo EXCEPT ![d] = r]
        PROVE  hilo'[c].nombre_crear # NADIE
    BY <1>1, <2>0
  <2>1. CASE LeerCliente(d)
    <3> DEFINE r == [hilo[d] EXCEPT !.paso = "recv", !.conexion = cliente_fd]
    <3>1. hilo' = [hilo EXCEPT ![d] = r]
      BY <2>1 DEF LeerCliente
    <3>2. r.nombre_crear = hilo[d].nombre_crear
      BY <1>1 DEF FichaHilo
    <3> HIDE DEF r
    <3> QED
      BY <2>0, <3>1, <3>2
  <2>2. CASE AgregarInterfaces(d)
    <3> DEFINE r == [hilo[d] EXCEPT !.paso = "agregando", !.visto = Len(lista_interfaces),
                                    !.agrega = d]
    <3>1. hilo' = [hilo EXCEPT ![d] = r]
      BY <1>1, <2>2, AgregarDe
    <3>2. r.nombre_crear = hilo[d].nombre_crear
      BY <1>1 DEF FichaHilo
    <3> HIDE DEF r
    <3> QED
      BY <2>0, <3>1, <3>2
  <2>4. CASE ListAdd(d)
    BY <1>1, <2>4 DEF FichaHilo, ListAdd
  <2>3. CASE Desconexion(d)
    BY <1>1, <2>3, DesconexionDe DEF FichaHilo
  <2> QED
    BY <1>3, <2>1, <2>2, <2>3, <2>4
<1>4. ASSUME Aceptar PROVE hilo'[c].nombre_crear # NADIE
  BY <1>1, <1>4 DEF FichaHilo, Aceptar
<1>5. ASSUME NEW d \in Proceso, ProcesarConexion(d) PROVE hilo'[c].nombre_crear # NADIE
  BY <1>2, <1>3, <1>5 DEF ProcesarConexion
<1>6. ASSUME NEW d \in Proceso, Conectar(d) \/ Morir(d) \/ ProcesoIo(d) \/ ControlAcceso(d)
      PROVE  hilo'[c].nombre_crear # NADIE
  BY <1>6 DEF Conectar, Morir, ProcesoIo, Tomar, Terminar, SinTocarKernel, ControlAcceso,
     EsperarContador, EsperarUso, EsperarEjecucion, SinTocarHilos
<1>7. ASSUME NEW p \in Pid, NEW par \in Pedibles, EjecutarIo(p, par[1], par[2])
      PROVE  hilo'[c].nombre_crear # NADIE
  BY <1>7 DEF EjecutarIo
<1> QED
  BY <1>4, <1>5, <1>6, <1>7 DEF Next

(* What is put in the queue of an interface is what it does; with TrasCrear*)
(* a WRITE has a CREATE before.                                            *)
LEMMA PedidoBueno ==
  ASSUME TrasCrear, Propios, IntInd, NumInd, NEW p \in Pid, NEW par \in Pedibles,
         EjecutarIo(p, par[1], par[2]), NEW c, c = BuscarInterfazPorNombre(par[1]), c # NADIE
  PROVE  /\ c \in Proceso /\ [pid |-> p, op |-> par[2]] \in Buenos(c)
         /\ interfaz' = [interfaz EXCEPT ![c].cola_espera = Append(@, [pid |-> p, op |-> par[2]]),
                                         ![c].contador = @ + 1]
         /\ estado[p] = "LISTO" /\ estado' = [estado EXCEPT ![p] = "WAITING"]
         /\ UNCHANGED <<proceso, hilo>>
<1>1. c \in Proceso /\ Registrado(c) /\ Nombre[c] = par[1]
  BY Buscada, FichasDe DEF IntInd
<1>2. par[2] = "WRITE" => hilo[c].nombre_crear # NADIE
  <2> SUFFICES ASSUME par[2] = "WRITE" PROVE hilo[c].nombre_crear # NADIE
    OBVIOUS
  <2>1. PICK t \in Proceso : /\ hilo[t].paso = "recv" /\ hilo[t].nombre_crear # NADIE
                             /\ hilo[t].conexion = interfaz[c].codigo_cliente
    BY DEF EjecutarIo, HuboCrear
  <2>2. t = c
    BY <1>1, <2>1 DEF NumInd, Linea
  <2> QED
    BY <2>1, <2>2
<1>3. [pid |-> p, op |-> par[2]] \in Blocked
  BY DEF Blocked, Operacion
<1>4. [pid |-> p, op |-> par[2]] \in Buenos(c)
  BY <1>1, <1>2, <1>3 DEF Buenos, Propios
<1> QED
  BY <1>1, <1>4 DEF EjecutarIo, Encolar

(* Every step keeps the requests good.                                     *)
LEMMA SerPaso ==
  ASSUME DeAUna, Relevo, SinHomonimos, TrasCrear, Propios, SerInd, [Next]_vars
  PROVE  SerInd'
<1> USE DEF SerInd
<1>0. IntInd /\ NumInd
  OBVIOUS
<1>1. IntInd' /\ NumInd'
  BY IntPaso, NumPaso
<1> SUFFICES ASSUME Next, NEW c \in Proceso
             PROVE  /\ interfaz'[c].blocked \in Buenos(c)' \cup {NADIE}
                    /\ interfaz'[c].cola_espera \in Seq(Buenos(c)')
  BY <1>1 DEF vars, Buenos
<1> DEFINE i == interfaz[c]
           j == interfaz'[c]
<1>2. Buenos(c) \subseteq Buenos(c)'
  BY NombreQueda DEF Buenos
<1>3. interfaz \in [Proceso -> FichaInterfaz]
  BY FichasDe DEF IntInd
<1>4. \A S, T, q : S \subseteq T /\ q \in Seq(S) => q \in Seq(T)
  OBVIOUS
<1>5. i.blocked \in Buenos(c)' \cup {NADIE} /\ i.cola_espera \in Seq(Buenos(c)')
  BY <1>2, <1>4
<1>6. ASSUME UNCHANGED interfaz
      PROVE  j.blocked \in Buenos(c)' \cup {NADIE} /\ j.cola_espera \in Seq(Buenos(c)')
  BY <1>5, <1>6
<1>7. ASSUME NEW p \in Pid, NEW par \in Pedibles, EjecutarIo(p, par[1], par[2])
      PROVE  j.blocked \in Buenos(c)' \cup {NADIE} /\ j.cola_espera \in Seq(Buenos(c)')
  <2>1. PICK d : d = BuscarInterfazPorNombre(par[1])
    OBVIOUS
  <2>2. CASE d = NADIE
    BY <1>6, <1>7, <2>1, <2>2 DEF EjecutarIo
  <2>3. CASE d # NADIE
    <3> DEFINE b == [pid |-> p, op |-> par[2]]
    <3>1. /\ d \in Proceso /\ b \in Buenos(d)
          /\ interfaz' = [interfaz EXCEPT ![d].cola_espera = Append(@, b), ![d].contador = @ + 1]
      <4> HIDE DEF SerInd, i, j
      <4>1. TrasCrear /\ Propios
        OBVIOUS
      <4>2. d \in Proceso
        BY <1>0, <1>7, <2>1, <2>3, <4>1, PedidoBueno
      <4>3. b \in Buenos(d)
        BY <1>0, <1>7, <2>1, <2>3, <4>1, PedidoBueno
      <4>4. interfaz' = [interfaz EXCEPT ![d].cola_espera = Append(@, b), ![d].contador = @ + 1]
        BY <1>7, <2>1, <2>3 DEF EjecutarIo, Encolar
      <4> QED
        BY <4>2, <4>3, <4>4
    <3> HIDE DEF b
    <3>2. CASE d = c
      <4>1. j.blocked = i.blocked /\ j.cola_espera = Append(i.cola_espera, b)
        BY <1>3, <3>1, <3>2 DEF FichaInterfaz
      <4>2. Append(i.cola_espera, b) \in Seq(Buenos(c)')
        BY <1>2, <1>5, <3>1, <3>2
      <4> QED
        BY <1>5, <4>1, <4>2
    <3>3. CASE d # c
      <4>1. j = i
        BY <1>3, <3>1, <3>3
      <4> QED
        BY <1>5, <4>1
    <3> QED
      BY <3>2, <3>3
  <2> QED
    BY <2>2, <2>3
<1>8. ASSUME NEW d \in Proceso, ControlAcceso(d)
      PROVE  j.blocked \in Buenos(c)' \cup {NADIE} /\ j.cola_espera \in Seq(Buenos(c)')
  <2>1. CASE d # c
    <3>1. j = i
      BY <1>3, <1>8, <2>1 DEF ControlAcceso, EsperarContador, EsperarUso, EsperarEjecucion
    <3> QED
      BY <1>5, <3>1
  <2>2. CASE EsperarContador(c)
    <3>1. j.blocked = i.blocked /\ j.cola_espera = i.cola_espera
      BY <1>3, <2>2 DEF EsperarContador, FichaInterfaz
    <3> QED
      BY <1>5, <3>1
  <2>3. CASE EsperarUso(c)
    <3>1. j.blocked = Head(i.cola_espera) /\ j.cola_espera = Tail(i.cola_espera)
      BY <1>3, <2>3 DEF EsperarUso, FichaInterfaz
    <3>2. i.cola_espera # <<>>
      <4>1. i.contador + 1 = Len(i.cola_espera) /\ i.contador \in Nat
        BY <1>3, <2>3, FichasDe DEF IntInd, De, Turno, EsperarUso, FichaInterfaz
      <4> QED
        BY <1>5, <4>1
    <3>3. Head(i.cola_espera) \in Buenos(c)' /\ Tail(i.cola_espera) \in Seq(Buenos(c)')
      BY <1>5, <3>2
    <3> QED
      BY <3>1, <3>3
  <2>4. CASE EsperarEjecucion(c)
    <3>1. j.blocked = NADIE /\ j.cola_espera = i.cola_espera
      BY <1>3, <2>4 DEF EsperarEjecucion, FichaInterfaz
    <3> QED
      BY <1>5, <3>1
  <2> QED
    BY <1>8, <2>1, <2>2, <2>3, <2>4 DEF ControlAcceso
<1>9. ASSUME NEW d \in Proceso, ProcesarConexion(d)
      PROVE  j.blocked \in Buenos(c)' \cup {NADIE} /\ j.cola_espera \in Seq(Buenos(c)')
  <2>1. CASE LeerCliente(d) \/ ListAdd(d) \/ Desconexion(d)
    BY <1>6, <2>1, DesconexionDe DEF LeerCliente, ListAdd
  <2>2. CASE AgregarInterfaces(d)
    <3>1. PICK n : n = hilo[d].conexion
      OBVIOUS
    <3>2. interfaz' = [interfaz EXCEPT ![d] = InterfazNueva(n)]
      BY <2>2, <3>1, AgregarDe
    <3>3. j = i \/ j = InterfazNueva(n)
      BY <1>3, <3>2
    <3>4. CASE j = InterfazNueva(n)
      <4>1. j.blocked = NADIE /\ j.cola_espera = <<>>
        BY <3>4 DEF InterfazNueva
      <4>2. \A S : <<>> \in Seq(S)
        OBVIOUS
      <4> QED
        BY <4>1, <4>2
    <3> QED
      BY <1>5, <3>3, <3>4
  <2>3. CASE RecibirRespuesta(d)
    <3>1. \/ UNCHANGED interfaz
          \/ interfaz' = [interfaz EXCEPT ![d].uso = @ + 1, ![d].uso_ejecucion = @ + 1]
      BY <2>3, LaRespuesta
    <3>2. j.blocked = i.blocked /\ j.cola_espera = i.cola_espera
      BY <1>3, <3>1, SMTT(30) DEF FichaInterfaz
    <3> QED
      BY <1>5, <3>2
  <2> QED
    BY <1>9, <2>1, <2>2, <2>3 DEF ProcesarConexion
<1>10. ASSUME Aceptar \/ \E d \in Proceso : Conectar(d) \/ Morir(d) \/ ProcesoIo(d)
       PROVE  j.blocked \in Buenos(c)' \cup {NADIE} /\ j.cola_espera \in Seq(Buenos(c)')
  BY <1>6, <1>10 DEF Aceptar, Conectar, Morir, ProcesoIo, Tomar, Terminar, SinTocarKernel
<1> QED
  BY <1>7, <1>8, <1>9, <1>10 DEF Next

(* At the start the queues are empty.                                      *)
LEMMA SerInicial == Init => SerInd
<1> SUFFICES ASSUME Init PROVE SerInd
  OBVIOUS
<1>1. ASSUME NEW c \in Proceso
      PROVE  interfaz[c].blocked = NADIE /\ interfaz[c].cola_espera = <<>>
  BY DEF Init, InterfazNueva
<1>2. \A S : <<>> \in Seq(S)
  OBVIOUS
<1> QED
  BY <1>1, <1>2, IntInicial, NumInicial DEF SerInd

(* What an interface shows of its server is what its own process has to    *)
(* say.                                                                    *)
Servido(c) == IF Respuestas(c) # <<>>
              THEN [pid |-> Respuestas(c)[1].pid, op |-> Respuestas(c)[1].op]
              ELSE IF interfaz[c].uso_ejecucion > 0 THEN interfaz[c].blocked ELSE NADIE
ComoServido == \A c \in Proceso : HechoDe(c) = Servido(c)
LEMMA LoQueSeVe == IntInd => ComoServido
<1> SUFFICES ASSUME IntInd, NEW c \in Proceso
             PROVE  HechoDe(c) = Servido(c)
  BY DEF ComoServido
<1>1. ASSUME NEW d \in Proceso, Respuestas(d) # <<>>
      PROVE  BuscarInterfazPorNombre(Respuestas(d)[1].nombre) = d
  <2>1. Turno(d) /\ Hallado(d)
    BY DEF IntInd, De
  <2>2. Esperando(d)
    BY <1>1, <2>1, RespuestasDe DEF Turno
  <2>3. proceso[d].sale = <<Enviado(d)>>
    BY <1>1, <2>2, RespuestasDe DEF Esperando, SinPedido, ConPedido
  <2>4. Respuestas(d)[1].nombre = Nombre[d]
    BY <2>2, <2>3, RespuestasDe DEF Enviado
  <2>5. ConCola(d)
    BY <2>2, SinNadie DEF Esperando, ConCola
  <2> QED
    BY <2>1, <2>4, <2>5 DEF Hallado
<1>2. Contestan(c) = IF Respuestas(c) # <<>> THEN {c} ELSE {}
  BY <1>1 DEF Contestan
<1> QED
  BY <1>2 DEF HechoDe, Servido

(* The same of the next state.                                             *)
LEMMA LoQueSeVeP == (IntInd => ComoServido)'
  BY LoQueSeVe, PTL

(* What an interface shows of its queue and of its server.                 *)
LEMMA LoHecho ==
  SerInd => \A c \in Proceso :
    /\ Ocioso(c) => Servido(c) = NADIE /\ ColaDe(c) = interfaz[c].cola_espera
    /\ Esperando(c) => /\ ColaDe(c) = <<interfaz[c].blocked>> \o interfaz[c].cola_espera
                       /\ interfaz[c].blocked \in Blocked /\ interfaz[c].blocked # NADIE
    /\ Esperando(c) /\ proceso[c].sale = <<>> =>
         Servido(c) = IF interfaz[c].uso_ejecucion > 0 THEN interfaz[c].blocked ELSE NADIE
    /\ Esperando(c) /\ proceso[c].sale = <<Enviado(c)>> => Servido(c) = interfaz[c].blocked
<1> SUFFICES ASSUME SerInd, NEW c \in Proceso
             PROVE  /\ Ocioso(c) => Servido(c) = NADIE /\ ColaDe(c) = interfaz[c].cola_espera
                    /\ Esperando(c) =>
                         /\ ColaDe(c) = <<interfaz[c].blocked>> \o interfaz[c].cola_espera
                         /\ interfaz[c].blocked \in Blocked /\ interfaz[c].blocked # NADIE
                    /\ Esperando(c) /\ proceso[c].sale = <<>> =>
                         Servido(c) = IF interfaz[c].uso_ejecucion > 0 THEN interfaz[c].blocked
                                      ELSE NADIE
                    /\ Esperando(c) /\ proceso[c].sale = <<Enviado(c)>> =>
                         Servido(c) = interfaz[c].blocked
  OBVIOUS
<1> DEFINE b == interfaz[c].blocked
<1>0. IntInd /\ b \in Buenos(c) \cup {NADIE} /\ interfaz[c].cola_espera \in Seq(Buenos(c))
  BY DEF SerInd
<1>1. ASSUME Ocioso(c) PROVE Servido(c) = NADIE /\ ColaDe(c) = interfaz[c].cola_espera
  <2>1. Respuestas(c) = <<>> /\ b = NADIE /\ interfaz[c].uso_ejecucion = 0
    BY <1>0, <1>1, RespuestasDe DEF Ocioso
  <2>2. <<>> \o interfaz[c].cola_espera = interfaz[c].cola_espera
    BY <1>0
  <2> QED
    BY <2>1, <2>2 DEF Servido, ColaDe
<1>2. ASSUME Esperando(c)
      PROVE  ColaDe(c) = <<b>> \o interfaz[c].cola_espera /\ b \in Blocked /\ b # NADIE
  BY <1>2, SinNadie DEF Esperando, ColaDe
<1>3. ASSUME Esperando(c), proceso[c].sale = <<>>
      PROVE  Servido(c) = IF interfaz[c].uso_ejecucion > 0 THEN b ELSE NADIE
  BY <1>0, <1>3, RespuestasDe DEF Servido
<1>4. ASSUME Esperando(c), proceso[c].sale = <<Enviado(c)>>
      PROVE  Servido(c) = b
  <2>1. Respuestas(c) = <<Enviado(c)>>
    BY <1>0, <1>4, RespuestasDe
  <2>2. <<Enviado(c)>> # <<>> /\ <<Enviado(c)>>[1] = Enviado(c)
    OBVIOUS
  <2>3. Enviado(c).pid = b.pid /\ Enviado(c).op = b.op
    BY <1>0, <1>2, <1>4 DEF Pedido, Enviado, Buenos
  <2>4. b = [pid |-> b.pid, op |-> b.op]
    BY <1>2, <1>4 DEF Blocked
  <2> QED
    BY <2>1, <2>2, <2>3, <2>4 DEF Servido
<1> QED
  BY <1>1, <1>2, <1>3, <1>4

(* The same of the next state.                                             *)
LEMMA LoHechoP ==
  (SerInd => \A c \in Proceso :
    /\ Ocioso(c) => Servido(c) = NADIE /\ ColaDe(c) = interfaz[c].cola_espera
    /\ Esperando(c) => /\ ColaDe(c) = <<interfaz[c].blocked>> \o interfaz[c].cola_espera
                       /\ interfaz[c].blocked \in Blocked /\ interfaz[c].blocked # NADIE
    /\ Esperando(c) /\ proceso[c].sale = <<>> =>
         Servido(c) = IF interfaz[c].uso_ejecucion > 0 THEN interfaz[c].blocked ELSE NADIE
    /\ Esperando(c) /\ proceso[c].sale = <<Enviado(c)>> => Servido(c) = interfaz[c].blocked)'
  BY LoHecho, PTL

-----------------------------------------------------------------------------
(* Steps that the abstract server does not see.                            *)

Esperan == {p \in Pid : estado[p] = "WAITING"}
NoSeVe(d) == ColaDe(d)' = ColaDe(d) /\ Servido(d)' = Servido(d)

(* Queues and answers depend on what the process has sent and on its       *)
(* interface.                                                              *)
LEMMA AjenoNoSeVe ==
  ASSUME NEW d \in Proceso, proceso'[d].sale = proceso[d].sale, interfaz'[d] = interfaz[d]
  PROVE  NoSeVe(d)
  BY DEF NoSeVe, ColaDe, Servido, Respuestas

(* Nothing to see is a stutter.                                            *)
LEMMA Quietas ==
  ASSUME ComoServido, ComoServido', \A d \in Proceso : NoSeVe(d), Esperan' = Esperan
  PROVE  UNCHANGED Servicio!vars
  BY DEF NoSeVe, Esperan, ComoServido, Servicio!vars

(* A step of one interface that does not show.                             *)
LEMMA UnaQuieta ==
  ASSUME IntInd, IntInd', NEW c \in Proceso,
         \A d \in Proceso \ {c} : proceso'[d] = proceso[d] /\ interfaz'[d] = interfaz[d],
         UNCHANGED estado, NoSeVe(c)
  PROVE  UNCHANGED Servicio!vars
<1>1. \A d \in Proceso \ {c} : NoSeVe(d)
  BY AjenoNoSeVe
<1> QED
  BY <1>1, Quietas, LoQueSeVe, LoQueSeVeP DEF Esperan

(* The connection of a process and its death.                              *)
LEMMA ConexionQuieta ==
  ASSUME SerInd, SerInd', NEW c \in Proceso,
         Conectar(c) \/ Morir(c) \/ Tomar(c) \/ LeerCliente(c) \/ AgregarInterfaces(c)
           \/ ListAdd(c) \/ Desconexion(c)
  PROVE  UNCHANGED Servicio!vars
<1>0. IntInd /\ IntInd' /\ NumInd /\ Turno(c) /\ Turno(c)'
  BY DEF SerInd, IntInd, De
<1>1. proceso \in [Proceso -> FichaProceso] /\ interfaz \in [Proceso -> FichaInterfaz]
  BY <1>0, FichasDe DEF IntInd
<1>2. CASE LeerCliente(c) \/ ListAdd(c) \/ Desconexion(c)
  <2>1. UNCHANGED <<proceso, interfaz, estado>>
    BY <1>2, <1>0, DesconexionDe DEF LeerCliente, ListAdd
  <2> QED
    BY <1>0, <2>1, AjenoNoSeVe, UnaQuieta
<1>3. CASE Morir(c) \/ Tomar(c)
  <2>1. UNCHANGED <<interfaz, estado>> /\ proceso'[c].sale = proceso[c].sale
        /\ \A d \in Proceso \ {c} : proceso'[d] = proceso[d]
    <3>1. CASE Morir(c)
      BY <1>1, <3>1 DEF Morir, SinTocarKernel, FichaProceso
    <3>2. CASE Tomar(c)
      BY <1>1, <3>2 DEF Tomar, SinTocarKernel, FichaProceso
    <3> QED
      BY <1>3, <3>1, <3>2
  <2> QED
    BY <1>0, <2>1, AjenoNoSeVe, UnaQuieta
<1>4. CASE Conectar(c)
  <2>1. UNCHANGED <<interfaz, estado>> /\ \A d \in Proceso \ {c} : proceso'[d] = proceso[d]
    BY <1>1, <1>4 DEF Conectar
  <2>2. interfaz[c].paso # "ejecucion"
    BY <1>0, <1>4
    DEF Conectar, IntInd, De, Camino, Fuera, EnPuerta, Naciendo, Presentado, Agregando, Dentro
  <2>3. Ocioso(c) /\ Ocioso(c)'
    BY <1>0, <2>1, <2>2 DEF Turno, Esperando
  <2>4. NoSeVe(c)
    BY <2>1, <2>3, LoHecho, LoHechoP DEF NoSeVe
  <2> QED
    BY <1>0, <2>1, <2>4, UnaQuieta
<1>5. CASE AgregarInterfaces(c)
  <2>1. PICK n : n = hilo[c].conexion
    OBVIOUS
  <2>2. /\ proceso' = [proceso EXCEPT ![c].sale = Tail(@)] /\ proceso[c].sale # <<>>
        /\ Head(proceso[c].sale) = Conexion(c) /\ hilo[c].paso = "recv"
        /\ interfaz' = [interfaz EXCEPT ![c] = InterfazNueva(n)] /\ UNCHANGED estado
    BY <1>0, <1>5, <2>1, AgregarDe
  <2>3. Presentado(c)
    BY <1>0, <2>2, LoQueSale DEF Conexion
  <2>4. Ocioso(c) /\ interfaz[c].cola_espera = <<>>
    BY <1>0, <2>3 DEF Presentado, Turno, Esperando, Ocioso
  <2>5. interfaz'[c] = InterfazNueva(n)
        /\ \A d \in Proceso \ {c} : proceso'[d] = proceso[d] /\ interfaz'[d] = interfaz[d]
    BY <1>1, <2>2
  <2>6. Ocioso(c)' /\ interfaz'[c].cola_espera = <<>>
    BY <1>0, <2>5 DEF Turno, Esperando, InterfazNueva
  <2>7. NoSeVe(c)
    BY <2>4, <2>6, LoHecho, LoHechoP DEF NoSeVe
  <2> QED
    BY <1>0, <2>2, <2>5, <2>7, UnaQuieta
<1> QED
  BY <1>2, <1>3, <1>4, <1>5

(* The control thread takes the head of the queue: it is still the first.  *)
LEMMA ControlQuieto ==
  ASSUME SerInd, SerInd', NEW c \in Proceso, EsperarContador(c) \/ EsperarUso(c)
  PROVE  UNCHANGED Servicio!vars
<1>0. IntInd /\ IntInd' /\ NumInd /\ Turno(c) /\ Turno(c)'
  BY DEF SerInd, IntInd, De
<1>1. proceso \in [Proceso -> FichaProceso] /\ interfaz \in [Proceso -> FichaInterfaz]
  BY <1>0, FichasDe DEF IntInd
<1>2. \A d \in Proceso \ {c} : proceso'[d] = proceso[d] /\ interfaz'[d] = interfaz[d]
  <2>1. CASE EsperarUso(c)
    <3>1. Dentro(c)
      BY <1>0, <2>1, Activa DEF EsperarUso
    <3> QED
      BY <1>0, <1>1, <2>1, <3>1, SoloSuEntrada DEF EsperarUso
  <2> QED
    BY <1>1, <2>1 DEF EsperarContador
<1>3. UNCHANGED estado
  BY DEF EsperarContador, EsperarUso
<1>4. Ocioso(c)
  BY <1>0 DEF EsperarContador, EsperarUso, Turno, Esperando
<1>5. CASE EsperarContador(c)
  <2>1. interfaz'[c].paso = "uso" /\ interfaz'[c].cola_espera = interfaz[c].cola_espera
    BY <1>1, <1>5 DEF EsperarContador, FichaInterfaz
  <2>2. Ocioso(c)'
    BY <1>0, <2>1 DEF Turno, Esperando
  <2>3. NoSeVe(c)
    BY <1>4, <2>1, <2>2, LoHecho, LoHechoP DEF NoSeVe
  <2> QED
    BY <1>0, <1>2, <1>3, <2>3, UnaQuieta
<1>6. CASE EsperarUso(c)
  <2>1. /\ interfaz'[c].paso = "ejecucion" /\ interfaz'[c].blocked = Head(interfaz[c].cola_espera)
        /\ interfaz'[c].cola_espera = Tail(interfaz[c].cola_espera)
        /\ interfaz'[c].uso_ejecucion = interfaz[c].uso_ejecucion
    BY <1>1, <1>6 DEF EsperarUso, FichaInterfaz
  <2>2. Esperando(c)'
    BY <1>0, <2>1 DEF Turno, Ocioso
  <2>3. Dentro(c)
    BY <1>0, <1>6, Activa DEF EsperarUso
  <2>4. proceso'[c].sale = <<>> /\ interfaz'[c].uso_ejecucion = 0
    <3>1. proceso'[c].sale = proceso[c].sale
      BY <1>0, <1>1, <1>6, <2>3, SoloSuEntrada
    <3> QED
      BY <1>4, <2>1, <2>3, <3>1 DEF Ocioso, Dentro
  <2>5. Servido(c)' = NADIE
    <3>1. ~(interfaz'[c].uso_ejecucion > 0)
      BY <2>4
    <3> QED
      BY <2>2, <2>4, <3>1, LoHechoP
  <2>6. ColaDe(c)' = <<Head(interfaz[c].cola_espera)>> \o Tail(interfaz[c].cola_espera)
    BY <2>1, <2>2, LoHechoP
  <2>7. \A S : \A q \in Seq(S) : q # <<>> => <<Head(q)>> \o Tail(q) = q
    OBVIOUS
  <2>8. interfaz[c].cola_espera \in Seq(Blocked) /\ interfaz[c].cola_espera # <<>>
    <3>1. interfaz[c].contador + 1 = Len(interfaz[c].cola_espera) /\ interfaz[c].contador \in Nat
          /\ interfaz[c].cola_espera \in Seq(Blocked)
      BY <1>0, <1>1, <1>6, FichasDe DEF IntInd, Turno, EsperarUso, FichaInterfaz
    <3> QED
      BY <3>1
  <2>9. NoSeVe(c)
    BY <1>4, <2>5, <2>6, <2>7, <2>8, LoHecho DEF NoSeVe
  <2> QED
    BY <1>0, <1>2, <1>3, <2>9, UnaQuieta
<1> QED
  BY <1>5, <1>6

(* The kernel receives the answer: the request stays done.                 *)
LEMMA RespuestaQuieta ==
  ASSUME SerInd, SerInd', NEW c \in Proceso, RecibirRespuesta(c)
  PROVE  UNCHANGED Servicio!vars
<1>0. IntInd /\ IntInd' /\ NumInd /\ Turno(c)'
  BY DEF SerInd, IntInd, De
<1>1. proceso \in [Proceso -> FichaProceso] /\ interfaz \in [Proceso -> FichaInterfaz]
  BY <1>0, FichasDe DEF IntInd
<1>2. /\ Esperando(c) /\ interfaz[c].uso = 0 /\ proceso[c].sale = <<Enviado(c)>>
      /\ proceso' = [proceso EXCEPT ![c] = [@ EXCEPT !.sale = <<>>]] /\ UNCHANGED estado
      /\ \/ Enviado(c).op = "WRITE" /\ hilo[c].nombre_crear = NADIE
         \/ interfaz' = [interfaz EXCEPT ![c].uso = @ + 1, ![c].uso_ejecucion = @ + 1]
  BY <1>0, LaRespuesta
<1>3. interfaz[c].blocked \in Buenos(c)
  BY <1>2, SinNadie DEF SerInd, Esperando
<1>4. interfaz' = [interfaz EXCEPT ![c].uso = @ + 1, ![c].uso_ejecucion = @ + 1]
  BY <1>2, <1>3 DEF Buenos, Enviado
<1>5. /\ interfaz'[c].paso = "ejecucion" /\ interfaz'[c].blocked = interfaz[c].blocked
      /\ interfaz'[c].cola_espera = interfaz[c].cola_espera
      /\ interfaz'[c].uso_ejecucion = interfaz[c].uso_ejecucion + 1
      /\ proceso'[c].sale = <<>>
  BY <1>1, <1>2, <1>4, ZenonT(60) DEF Esperando, FichaProceso, FichaInterfaz
<1>6. interfaz[c].uso_ejecucion + 1 > 0
  BY <1>2 DEF Esperando
<1>7. Esperando(c)'
  BY <1>0, <1>5 DEF Turno, Ocioso
<1>8. \A d \in Proceso \ {c} : proceso'[d] = proceso[d] /\ interfaz'[d] = interfaz[d]
  BY <1>1, <1>2, <1>4
<1>9. NoSeVe(c)
  BY <1>2, <1>5, <1>6, <1>7, LoHecho, LoHechoP, ZenonT(60) DEF NoSeVe
<1> QED
  BY <1>0, <1>2, <1>8, <1>9, UnaQuieta

-----------------------------------------------------------------------------
(* Steps of the abstract server: a request, its service and the return.    *)

(* What one interface shows changes, and nobody else's.                    *)
LEMMA CambiaUna ==
  ASSUME ComoServido, ComoServido', NEW c \in Proceso, \A d \in Proceso \ {c} : NoSeVe(d)
  PROVE  /\ [d \in Proceso |-> ColaDe(d)]' =
              [[d \in Proceso |-> ColaDe(d)] EXCEPT ![c] = ColaDe(c)']
         /\ [d \in Proceso |-> HechoDe(d)]' =
              [[d \in Proceso |-> HechoDe(d)] EXCEPT ![c] = Servido(c)']
         /\ HechoDe(c) = Servido(c)
  BY DEF NoSeVe, ComoServido

(* A request reaches the queue of its interface, or nobody.                *)
LEMMA SePide ==
  ASSUME TrasCrear, Propios, SerInd, SerInd', NEW p \in Pid, NEW par \in Pedibles,
         EjecutarIo(p, par[1], par[2])
  PROVE  [Servicio!Next]_Servicio!vars
<1>0. IntInd /\ NumInd /\ ComoServido /\ ComoServido'
  BY LoQueSeVe, LoQueSeVeP DEF SerInd
<1>1. interfaz \in [Proceso -> FichaInterfaz] /\ estado \in [Pid -> {"LISTO", "WAITING", "EXIT"}]
  BY <1>0, FichasDe DEF IntInd
<1>2. PICK c : c = BuscarInterfazPorNombre(par[1])
  OBVIOUS
<1>3. CASE c = NADIE
  <2>1. UNCHANGED <<proceso, interfaz>> /\ estado[p] = "LISTO"
        /\ estado' = [estado EXCEPT ![p] = "EXIT"]
    BY <1>2, <1>3 DEF EjecutarIo
  <2>2. Esperan' = Esperan
    BY <1>1, <2>1 DEF Esperan
  <2> QED
    BY <1>0, <2>1, <2>2, AjenoNoSeVe, Quietas
<1>4. CASE c # NADIE
  <2> DEFINE b == [pid |-> p, op |-> par[2]]
  <2>1. c \in Proceso /\ b \in Buenos(c)
    BY <1>0, <1>2, <1>4, PedidoBueno
  <2>2. /\ interfaz' = [interfaz EXCEPT ![c].cola_espera = Append(@, b), ![c].contador = @ + 1]
        /\ estado[p] = "LISTO" /\ estado' = [estado EXCEPT ![p] = "WAITING"]
        /\ UNCHANGED proceso
    BY <1>2, <1>4 DEF EjecutarIo, Encolar
  <2>3. p \in Pid \ Esperan /\ Esperan' = Esperan \cup {p}
    BY <1>1, <2>2 DEF Esperan
  <2>4. par[2] \in Operacion
    BY DEF Operacion
  <2> HIDE DEF b
  <2>5. /\ interfaz'[c].blocked = interfaz[c].blocked
        /\ interfaz'[c].uso_ejecucion = interfaz[c].uso_ejecucion
        /\ interfaz'[c].cola_espera = Append(interfaz[c].cola_espera, b)
        /\ \A d \in Proceso \ {c} : interfaz'[d] = interfaz[d]
    BY <1>1, <2>1, <2>2 DEF FichaInterfaz
  <2>6. \A d \in Proceso \ {c} : NoSeVe(d)
    BY <2>2, <2>5, AjenoNoSeVe
  <2>7. Servido(c)' = Servido(c)
    BY <2>2, <2>5 DEF Servido, Respuestas
  <2>8. ColaDe(c)' = Append(ColaDe(c), b)
    <3>1. interfaz[c].cola_espera \in Seq(Blocked) /\ b \in Blocked
      BY <1>1, <2>1 DEF FichaInterfaz, Buenos
    <3>2. \A S : \A q \in Seq(S), x, y \in S :
            /\ <<>> \o Append(q, x) = Append(<<>> \o q, x)
            /\ <<y>> \o Append(q, x) = Append(<<y>> \o q, x)
      OBVIOUS
    <3>3. interfaz[c].blocked \in Blocked \cup {NADIE}
      BY <1>1, <2>1 DEF FichaInterfaz
    <3> DEFINE q == interfaz[c].cola_espera
               x == interfaz[c].blocked
    <3>4. CASE x = NADIE
      <4>1. ColaDe(c) = <<>> \o q /\ ColaDe(c)' = <<>> \o Append(q, b)
        BY <2>5, <3>4 DEF ColaDe
      <4> QED
        BY <3>1, <3>2, <4>1
    <3>5. CASE x # NADIE
      <4>1. ColaDe(c) = <<x>> \o q /\ ColaDe(c)' = <<x>> \o Append(q, b)
        BY <2>5, <3>5 DEF ColaDe
      <4>2. x \in Blocked
        BY <3>3, <3>5
      <4> HIDE DEF q, x
      <4> QED
        BY <3>1, <3>2, <4>1, <4>2 DEF q
    <3> QED
      BY <3>4, <3>5
  <2>9. [d \in Proceso |-> ColaDe(d)]' =
          [[d \in Proceso |-> ColaDe(d)] EXCEPT ![c] = Append(@, b)]
        /\ UNCHANGED [d \in Proceso |-> HechoDe(d)]
    BY <1>0, <2>1, <2>6, <2>7, <2>8, CambiaUna, LoQueSeVe, LoQueSeVeP DEF NoSeVe
  <2>10. Servicio!Pedir(c)
    BY <2>3, <2>4, <2>9 DEF Servicio!Pedir, b, Esperan
  <2> QED
    BY <2>1, <2>10 DEF Servicio!Next
<1> QED
  BY <1>3, <1>4

(* The process ends the request that its queue has first.                  *)
LEMMA SeHace ==
  ASSUME SerInd, SerInd', NEW c \in Proceso, Terminar(c)
  PROVE  Servicio!Next
<1>0. IntInd /\ IntInd' /\ NumInd /\ Turno(c) /\ Turno(c)'
  BY DEF SerInd, IntInd, De
<1>1. proceso \in [Proceso -> FichaProceso]
  BY <1>0, FichasDe DEF IntInd
<1>2. proceso[c].paso = "trabajando" /\ proceso[c].trabajo # NADIE
      /\ proceso' = [proceso EXCEPT ![c].paso = "libre", ![c].trabajo = NADIE,
                                    ![c].sale = Append(@, RespuestaDe(c, proceso[c].trabajo))]
      /\ UNCHANGED <<interfaz, estado>>
  BY <1>0 DEF Terminar, SinTocarKernel, Turno
<1>3. Esperando(c) /\ interfaz[c].uso = 0 /\ interfaz[c].uso_ejecucion = 0 /\ ConPedido(c)
  BY <1>0, <1>2 DEF Turno, Ocioso, Esperando, SinPedido
<1>4. proceso[c].sale = <<>> /\ RespuestaDe(c, proceso[c].trabajo) = Enviado(c)
  BY <1>2, <1>3 DEF ConPedido, RespuestaDe, Pedido, Enviado
<1>5. proceso'[c].sale = <<Enviado(c)>>
      /\ \A d \in Proceso \ {c} : proceso'[d] = proceso[d]
  <2>1. Append(proceso[c].sale, RespuestaDe(c, proceso[c].trabajo)) = <<Enviado(c)>>
    BY <1>4
  <2> QED
    BY <1>1, <1>2, <2>1 DEF FichaProceso
<1>6. Enviado(c)' = Enviado(c) /\ Esperando(c)'
  BY <1>0, <1>2, <1>3 DEF Pedido, Enviado, Turno, Esperando, Ocioso
<1>7. ~(interfaz[c].uso_ejecucion > 0)
  BY <1>3
<1>8. Servido(c) = NADIE /\ Servido(c)' = interfaz[c].blocked
  BY <1>2, <1>3, <1>4, <1>5, <1>6, <1>7, LoHecho, LoHechoP
<1>9. /\ ColaDe(c) = <<interfaz[c].blocked>> \o interfaz[c].cola_espera
      /\ interfaz[c].blocked \in Blocked /\ interfaz[c].cola_espera \in Seq(Blocked)
      /\ ColaDe(c)' = ColaDe(c)
  BY <1>0, <1>2, <1>3, FichasDe, LoHecho DEF IntInd, FichaInterfaz, ColaDe
<1>10. ColaDe(c) # <<>> /\ Head(ColaDe(c)) = interfaz[c].blocked
  BY <1>9
<1>11. \A d \in Proceso \ {c} : NoSeVe(d)
  BY <1>2, <1>5, AjenoNoSeVe
<1>12. [d \in Proceso |-> HechoDe(d)]' =
          [[d \in Proceso |-> HechoDe(d)] EXCEPT ![c] = Head(ColaDe(c))]
       /\ UNCHANGED [d \in Proceso |-> ColaDe(d)]
  BY <1>0, <1>8, <1>9, <1>10, <1>11, CambiaUna, LoQueSeVe, LoQueSeVeP DEF NoSeVe
<1>13. Servicio!Hacer(c)
  BY <1>0, <1>2, <1>8, <1>10, <1>12, LoQueSeVe DEF Servicio!Hacer, ComoServido
<1> QED
  BY <1>13 DEF Servicio!Next

(* The control thread gives the PCB back when its request has been done.   *)
LEMMA SeVuelve ==
  ASSUME SerInd, SerInd', NEW c \in Proceso, EsperarEjecucion(c)
  PROVE  Servicio!Next
<1>0. IntInd /\ IntInd' /\ NumInd /\ Turno(c) /\ Turno(c)'
  BY DEF SerInd, IntInd, De
<1>1. interfaz \in [Proceso -> FichaInterfaz] /\ estado \in [Pid -> {"LISTO", "WAITING", "EXIT"}]
  BY <1>0, FichasDe DEF IntInd
<1> DEFINE b == interfaz[c].blocked
<1>2. /\ interfaz[c].paso = "ejecucion" /\ interfaz[c].uso_ejecucion > 0
      /\ estado' = [estado EXCEPT ![b.pid] = "LISTO"] /\ UNCHANGED proceso
      /\ interfaz'[c].paso = "contador" /\ interfaz'[c].cola_espera = interfaz[c].cola_espera
      /\ \A d \in Proceso \ {c} : interfaz'[d] = interfaz[d]
  BY <1>1 DEF EsperarEjecucion, FichaInterfaz
<1>3. Esperando(c) /\ interfaz[c].uso_ejecucion = 1 /\ interfaz[c].uso = 1 /\ SinPedido(c)
  BY <1>0, <1>1, <1>2 DEF Turno, Ocioso, Esperando, FichaInterfaz
<1>4. Ocioso(c)'
  BY <1>0, <1>2 DEF Turno, Esperando
<1>5. Servido(c) = b /\ b # NADIE /\ b.pid \in Pid /\ Servido(c)' = NADIE
  BY <1>2, <1>3, <1>4, LoHecho, LoHechoP DEF SinPedido, Blocked
<1>6. ColaDe(c)' = Tail(ColaDe(c))
  <2>1. ColaDe(c) = <<b>> \o interfaz[c].cola_espera /\ ColaDe(c)' = interfaz[c].cola_espera
        /\ b \in Blocked /\ interfaz[c].cola_espera \in Seq(Blocked)
    BY <1>1, <1>2, <1>3, <1>4, LoHecho, LoHechoP DEF FichaInterfaz
  <2>2. \A S : \A q \in Seq(S), x \in S : Tail(<<x>> \o q) = q
    OBVIOUS
  <2> HIDE DEF b
  <2> QED
    BY <2>1, <2>2
<1>7. \A d \in Proceso \ {c} : NoSeVe(d)
  BY <1>2, AjenoNoSeVe
<1> HIDE DEF b
<1>8. Esperan' = Esperan \ {b.pid}
  BY <1>1, <1>2, <1>5 DEF Esperan
<1>9. [d \in Proceso |-> ColaDe(d)]' =
        [[d \in Proceso |-> ColaDe(d)] EXCEPT ![c] = Tail(@)]
      /\ [d \in Proceso |-> HechoDe(d)]' =
           [[d \in Proceso |-> HechoDe(d)] EXCEPT ![c] = NADIE]
  BY <1>0, <1>5, <1>6, <1>7, CambiaUna, LoQueSeVe, LoQueSeVeP
<1>10. Servicio!Volver(c)
  BY <1>0, <1>5, <1>8, <1>9, LoQueSeVe DEF Servicio!Volver, Esperan, ComoServido
<1> QED
  BY <1>10 DEF Servicio!Next

(* Every step is one of the server's or does not show.                     *)
LEMMA ServicioPaso ==
  ASSUME DeAUna, Relevo, SinHomonimos, TrasCrear, Propios, SerInd, [Next]_vars
  PROVE  SerInd' /\ [Servicio!Next]_Servicio!vars
<1>1. SerInd' /\ IntInd /\ ComoServido /\ ComoServido'
  BY SerPaso, LoQueSeVe, LoQueSeVeP DEF SerInd
<1>2. ASSUME UNCHANGED <<proceso, interfaz, estado>> PROVE UNCHANGED Servicio!vars
  BY <1>1, <1>2, AjenoNoSeVe, Quietas DEF Esperan
<1>3. CASE UNCHANGED vars \/ Aceptar
  BY <1>1, <1>2, <1>3 DEF vars, Aceptar
<1>4. ASSUME NEW c \in Proceso,
             Conectar(c) \/ Morir(c) \/ ProcesoIo(c) \/ ControlAcceso(c) \/ ProcesarConexion(c)
      PROVE  [Servicio!Next]_Servicio!vars
  BY <1>1, <1>4, ConexionQuieta, ControlQuieto, RespuestaQuieta, SeHace, SeVuelve
  DEF ProcesoIo, ControlAcceso, ProcesarConexion
<1>5. ASSUME NEW p \in Pid, NEW par \in Pedibles, EjecutarIo(p, par[1], par[2])
      PROVE  [Servicio!Next]_Servicio!vars
  BY <1>1, <1>5, SePide
<1> QED
  BY <1>1, <1>3, <1>4, <1>5 DEF Next

(* The refinement: whatever the types and number of interfaces, and        *)
(* whoever dies when, each queue is served one by one in the order of the  *)
(* requests, each is done once, and a PCB leaves WAITING only after its    *)
(* own was done (interfaces.c:798, kernel.c:310-390).  Besides DeAUna it   *)
(* takes that nobody comes after a death (Relevo and no two of a name),    *)
(* scripts that create before they write, and that ask of an interface     *)
(* what its type does.                                                     *)
THEOREM ColasServidas ==
  ASSUME DeAUna, Relevo, SinHomonimos, TrasCrear, Propios
  PROVE  Spec => CumpleServicio
<1>1. Init => Servicio!Init
  <2> SUFFICES ASSUME Init PROVE Servicio!Init
    OBVIOUS
  <2>1. SerInd /\ \A c \in Proceso : Ocioso(c) /\ interfaz[c].cola_espera = <<>>
    BY SerInicial DEF Init, InterfazNueva, SerInd, IntInd, De, Turno, Esperando
  <2>2. \A c \in Proceso : ColaDe(c) = <<>> /\ HechoDe(c) = NADIE
    BY <2>1, LoHecho, LoQueSeVe DEF SerInd, ComoServido
  <2>3. \A p \in Pid : estado[p] # "WAITING"
    BY DEF Init
  <2> QED
    BY <2>2, <2>3 DEF Servicio!Init
<1>2. SerInd /\ [Next]_vars => SerInd' /\ [Servicio!Next]_Servicio!vars
  BY ServicioPaso
<1> QED
  BY <1>1, <1>2, SerInicial, PTL DEF Spec, CumpleServicio, Servicio!Spec
=============================================================================
