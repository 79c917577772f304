-------------------------------- MODULE DialFS --------------------------------
(***************************************************************************)
(* The file system of the DIALFS interface (entradasalida/src/             *)
(* funcionesfs.c): files of contiguous blocks, a bitmap of used blocks,    *)
(* one metadata file per file, and a list of metadata in memory that a     *)
(* restart rebuilds from the directory.                                    *)
(*                                                                         *)
(* The process has one thread, which serves a request of the kernel from   *)
(* beginning to end before it reads the next: a request is one step.  It   *)
(* may be stopped and started again between two requests, or die in one.   *)
(*                                                                         *)
(* main maps bitmap.dat and bloques.dat with the sizes of teclado.config   *)
(* and works with those of fs.config: BITS blocks exist and are            *)
(* addressable, BLOCK_COUNT are the ones compaction knows.                 *)
(***************************************************************************)
EXTENDS Integers, Sequences, FiniteSets, SequencesExt

CONSTANTS Nombre,       \* names of files
          Dato, BASURA, \* values of a byte, and that of a byte never written
          BLOCK_SIZE, BLOCK_COUNT, BITS,
          Guion,        \* Guion[i] is the set of requests the i-th may be
          Cuidado       \* only requests the code is prepared for (Prudente)

(* A request as the kernel sends it; a field an operation has no use for   *)
(* is any value.                                                           *)
Peticion == [op : {"CREATE", "DELETE", "TRUNCATE", "WRITE", "READ"}, nombre : Nombre,
             tamanio : Nat, puntero : Nat, dato : Dato]

ASSUME DialAssumption ==
  /\ BLOCK_SIZE \in Nat \ {0} /\ BLOCK_COUNT \in Nat \ {0} /\ BITS \in Nat
  /\ BLOCK_COUNT <= BITS /\ BASURA \in Dato /\ Cuidado \in BOOLEAN
  /\ Guion \in Seq(SUBSET Peticion)

VARIABLES bitmap,    \* bitmap.dat: the set of bits at 1
          bloques,   \* bloques.dat, byte by byte
          disco,     \* the metadata files: name -> TAMANIO_ARCHIVO, BLOQUE_INICIAL
          metadatas, \* the list in memory
          leido,     \* what the last FS_READ has sent to memoria
          caida,     \* the process has died
          atendidos  \* requests served

vars == <<bitmap, bloques, disco, metadatas, leido, caida, atendidos>>

Bloque == 0 .. BITS - 1
Byte == 0 .. BITS * BLOCK_SIZE - 1
Metadata == [nombre : Nombre, tamanio_archivo : Nat, bloq_inicial_archivo : Bloque,
             cantidad_bloques : 1 .. BITS, ultimo_bloque : Bloque]
Pedido(op, nombre, tamanio, puntero, dato) ==
  [op |-> op, nombre |-> nombre, tamanio |-> tamanio, puntero |-> puntero, dato |-> dato]

(* Type correctness of the disk and of the list (funcionesfs.h).           *)
DialTypeOK ==
  /\ bitmap \subseteq Bloque /\ bloques \in [Byte -> Dato]
  /\ DOMAIN disco \subseteq Nombre
  /\ \A n \in DOMAIN disco : disco[n] \in [tamanio : Nat, inicial : Bloque]
  /\ metadatas \in Seq(Metadata) /\ leido \in Seq(Dato) /\ caida \in BOOLEAN
  /\ atendidos \in 0 .. Len(Guion)

Init == /\ bitmap = {} /\ bloques = [d \in Byte |-> BASURA] /\ disco = <<>>
        /\ metadatas = <<>> /\ leido = <<>> /\ caida = FALSE /\ atendidos = 0

-----------------------------------------------------------------------------
(* Helpers of funcionesfs.c.                                               *)

Techo(t) == (t + BLOCK_SIZE - 1) \div BLOCK_SIZE
\* C truncates (0 - 1) / block_size to 0: an empty file needs one block
CantidadDeBloquesNecesarios_Piso(t) == t \div BLOCK_SIZE
CantidadDeBloquesNecesarios(t) == IF t = 0 THEN 1 ELSE 1 + (t - 1) \div BLOCK_SIZE

Tramo(primero, cantidad) == primero .. primero + cantidad - 1
BitsHasta(ultimo, cantidad) == ultimo - cantidad + 1 .. ultimo

Listado(nombre) == \E k \in DOMAIN metadatas : metadatas[k].nombre = nombre
Posicion(nombre) == CHOOSE k \in DOMAIN metadatas : metadatas[k].nombre = nombre

ProximoBitDisponible == CHOOSE i \in 0 .. BITS : i \notin bitmap /\ 0 .. i - 1 \subseteq bitmap

\* a request for a file that is not in the list follows the NULL that
\* devolver_metadata returns
Caer == caida' = TRUE /\ UNCHANGED <<bitmap, bloques, disco, metadatas, leido>>

-----------------------------------------------------------------------------
(* CREATE and DELETE.                                                      *)

CrearArchivoMetadata(p) ==
  LET primerBloqueLibre == ProximoBitDisponible
  IN  /\ bitmap' = bitmap \cup {primerBloqueLibre}
      /\ metadatas' = Append(metadatas,
           [nombre |-> p.nombre, tamanio_archivo |-> 0,
            bloq_inicial_archivo |-> primerBloqueLibre,
            cantidad_bloques |-> 1, ultimo_bloque |-> primerBloqueLibre])
      /\ disco' = [n \in DOMAIN disco \cup {p.nombre} |->
                     IF n = p.nombre THEN [tamanio |-> 0, inicial |-> primerBloqueLibre]
                     ELSE disco[n]]
      /\ UNCHANGED <<bloques, leido, caida>>

BorrarArchivo(p) ==
  LET k == Posicion(p.nombre)
      meta == metadatas[k]
      cant_bloques_actuales == Techo(meta.tamanio_archivo)
  IN  IF ~Listado(p.nombre) THEN Caer
      ELSE /\ metadatas' = RemoveAt(metadatas, k)
           /\ bitmap' = bitmap \ Tramo(meta.bloq_inicial_archivo, cant_bloques_actuales)
           /\ disco' = [n \in DOMAIN disco \ {p.nombre} |-> disco[n]]
           /\ UNCHANGED <<bloques, leido, caida>>

-----------------------------------------------------------------------------
(* TRUNCATE.                                                               *)

ModificarConfigTam(nombre, t) == disco' = [disco EXCEPT ![nombre].tamanio = t]

HayBloquesLibresContiguos(cant, ultimo) == Tramo(ultimo + 1, cant) \cap bitmap = {}

\* every file, from block 0 and in the order of the list, gets the blocks its
\* cantidad_bloques says, the file k that grows cant more: bloque_libre_encontrado
\* counts those of the files before it; ultimo_bloque is not moved
Calculado(k, cant, i) == metadatas[i].cantidad_bloques + IF i = k THEN cant ELSE 0
Anteriores(k, cant, i) == UNION {{j} \X (1 .. Calculado(k, cant, j)) : j \in 1 .. i - 1}
Reubicados(k, cant) ==
  [i \in DOMAIN metadatas |->
     [metadatas[i] EXCEPT !.bloq_inicial_archivo = Cardinality(Anteriores(k, cant, i)),
                          !.cantidad_bloques = Calculado(k, cant, i)]]

Viejos(k, t) == [metadatas EXCEPT ![k].tamanio_archivo = t]
Nuevos(k, t, cant) ==
  [Reubicados(k, cant) EXCEPT ![k].tamanio_archivo = t]

Posterior(d, i, nuevos) == \* file i writes byte d when its data are put back
  d - nuevos[i].bloq_inicial_archivo * BLOCK_SIZE \in 0 .. nuevos[i].tamanio_archivo - 1

\* the data of all are saved before any is put back; where two overlap the
\* later one of the list stays
CopiarDatos_SinGuardar(viejos, nuevos) ==
  LET copia[k \in 0 .. Len(nuevos)] ==
        IF k = 0 THEN bloques
        ELSE [d \in Byte |->
                IF Posterior(d, k, nuevos)
                THEN copia[k - 1][d + (viejos[k].bloq_inicial_archivo
                                       - nuevos[k].bloq_inicial_archivo) * BLOCK_SIZE]
                ELSE copia[k - 1][d]]
  IN  bloques' = copia[Len(nuevos)]
CopiarDatos(viejos, nuevos) ==
  bloques' = [d \in Byte |->
    LET escritores == {i \in DOMAIN nuevos : Posterior(d, i, nuevos)}
        i == CHOOSE e \in escritores : \A f \in escritores : f <= e
    IN  IF escritores = {} THEN bloques[d]
        ELSE bloques[d + (viejos[i].bloq_inicial_archivo
                          - nuevos[i].bloq_inicial_archivo) * BLOCK_SIZE]]

VaciarBitMap == bitmap \ Tramo(0, BLOCK_COUNT)

Asignados(nuevos) == UNION {Tramo(nuevos[i].bloq_inicial_archivo,
                                  nuevos[i].cantidad_bloques) : i \in DOMAIN nuevos}

Compactar_SinConfig(k, t, cant) ==
  LET nuevos == Nuevos(k, t, cant)
  IN  /\ metadatas' = nuevos
      /\ bitmap' = VaciarBitMap \cup Asignados(nuevos)
      /\ CopiarDatos(Viejos(k, t), nuevos)
      /\ ModificarConfigTam(metadatas[k].nombre, t)
Compactar(k, t, cant) ==
  LET nuevos == Nuevos(k, t, cant)
  IN  /\ metadatas' = nuevos
      /\ bitmap' = VaciarBitMap \cup Asignados(nuevos)
      /\ CopiarDatos(Viejos(k, t), nuevos)
      /\ disco' = [n \in DOMAIN disco |->
                     [tamanio |-> IF n = metadatas[k].nombre THEN t ELSE disco[n].tamanio,
                      inicial |-> nuevos[Posicion(n)].bloq_inicial_archivo]]

NuevosBloques(meta, t) == CantidadDeBloquesNecesarios(t) - meta.cantidad_bloques

\* contiguous growth updates neither cantidad_bloques nor ultimo_bloque
AmpliarTamArchivo(k, t) ==
  LET meta == metadatas[k]
      cant == NuevosBloques(meta, t)
  IN  IF HayBloquesLibresContiguos(cant, meta.ultimo_bloque)
      THEN /\ bitmap' = bitmap \cup Tramo(meta.ultimo_bloque + 1, cant)
           /\ metadatas' = [metadatas EXCEPT ![k].tamanio_archivo = t]
           /\ ModificarConfigTam(meta.nombre, t)
           /\ UNCHANGED bloques
      ELSE Compactar(k, t, cant)

ReducirTamArchivo_UnoDeMas(k, t) ==
  LET meta == metadatas[k]
      actuales == Techo(meta.tamanio_archivo)
      ultimo_bloque_Actual == meta.bloq_inicial_archivo + actuales - 1
  IN  /\ bitmap' = bitmap \ BitsHasta(ultimo_bloque_Actual, actuales - t \div BLOCK_SIZE)
      /\ metadatas' = [metadatas EXCEPT ![k].tamanio_archivo = t]
      /\ ModificarConfigTam(meta.nombre, t)
      /\ UNCHANGED bloques
ReducirTamArchivo(k, t) ==
  LET meta == metadatas[k]
      actuales == Techo(meta.tamanio_archivo)
      ultimo_bloque_Actual == meta.bloq_inicial_archivo + actuales - 1
  IN  /\ bitmap' = bitmap \ BitsHasta(ultimo_bloque_Actual, actuales - Techo(t))
      /\ metadatas' = [metadatas EXCEPT ![k].tamanio_archivo = t]
      /\ ModificarConfigTam(meta.nombre, t)
      /\ UNCHANGED bloques

TruncarArchivo(p) ==
  LET k == Posicion(p.nombre)
      actual == metadatas[k].tamanio_archivo
  IN  IF ~Listado(p.nombre) THEN Caer
      ELSE /\ UNCHANGED <<leido, caida>>
           /\ \/ actual < p.tamanio /\ AmpliarTamArchivo(k, p.tamanio)
              \/ actual > p.tamanio /\ ReducirTamArchivo(k, p.tamanio)
              \/ actual = p.tamanio /\ UNCHANGED <<bitmap, bloques, disco, metadatas>>

-----------------------------------------------------------------------------
(* WRITE and READ.                                                         *)

ComienzoEscritura(p) ==
  metadatas[Posicion(p.nombre)].bloq_inicial_archivo * BLOCK_SIZE + p.puntero
\* a read adds the block of the pointer, and the pointer too
ComienzoLectura(p) == ComienzoEscritura(p) + (p.puntero \div BLOCK_SIZE) * BLOCK_SIZE

EscribirArchivoBloque(p) ==
  IF ~Listado(p.nombre) THEN Caer
  ELSE /\ bloques' = [d \in Byte |-> IF d \in Tramo(ComienzoEscritura(p), p.tamanio)
                                     THEN p.dato ELSE bloques[d]]
       /\ UNCHANGED <<bitmap, disco, metadatas, leido, caida>>

LeerArchivoBloque(p) ==
  IF ~Listado(p.nombre) THEN Caer
  ELSE /\ leido' = [i \in 1 .. p.tamanio |-> bloques[ComienzoLectura(p) + i - 1]]
       /\ UNCHANGED <<bitmap, bloques, disco, metadatas, caida>>

-----------------------------------------------------------------------------
(* What is asked of the requests.                                          *)

\* Always: a new name, a free bit, and blocks and bytes that exist
Razonable(p) ==
  /\ p.op = "CREATE" => ~Listado(p.nombre) /\ ProximoBitDisponible \in Bloque
  /\ p.op = "TRUNCATE" /\ Listado(p.nombre) =>
       LET k == Posicion(p.nombre)
           meta == metadatas[k]
           cant == NuevosBloques(meta, p.tamanio)
       IN  meta.tamanio_archivo < p.tamanio =>
             IF HayBloquesLibresContiguos(cant, meta.ultimo_bloque)
             THEN Tramo(meta.ultimo_bloque + 1, cant) \subseteq Bloque
             ELSE /\ meta.bloq_inicial_archivo * BLOCK_SIZE + p.tamanio - 1 \in Byte
                  /\ Asignados(Reubicados(k, cant)) \subseteq Bloque
  /\ p.op = "WRITE" /\ Listado(p.nombre) => ComienzoEscritura(p) + p.tamanio - 1 \in Byte
  /\ p.op = "READ" /\ Listado(p.nombre) => ComienzoLectura(p) + p.tamanio - 1 \in Byte

Ocupa(meta) == CantidadDeBloquesNecesarios(meta.tamanio_archivo)
UltimoReal(meta) == meta.bloq_inicial_archivo + Ocupa(meta) - 1

\* With Cuidado: a file is not reduced to nothing; one that grows where it is
\* knows where it ends; one whose growth compacts finds no other file with
\* fewer blocks in cantidad_bloques than it has
Prudente(p) ==
  Listado(p.nombre) =>
    LET k == Posicion(p.nombre)
        meta == metadatas[k]
        cant == NuevosBloques(meta, p.tamanio)
    IN  /\ p.op = "TRUNCATE" /\ p.tamanio < meta.tamanio_archivo => p.tamanio > 0
        /\ p.op = "TRUNCATE" /\ p.tamanio > meta.tamanio_archivo =>
             IF HayBloquesLibresContiguos(cant, meta.ultimo_bloque)
             THEN \/ CantidadDeBloquesNecesarios(p.tamanio) = Ocupa(meta)
                  \/ meta.cantidad_bloques = Ocupa(meta) /\ meta.ultimo_bloque = UltimoReal(meta)
             ELSE \A i \in DOMAIN metadatas \ {k} :
                    metadatas[i].cantidad_bloques >= Ocupa(metadatas[i])
        /\ p.op \in {"WRITE", "READ"} => p.puntero + p.tamanio <= meta.tamanio_archivo
        /\ p.op = "READ" => p.puntero < BLOCK_SIZE

-----------------------------------------------------------------------------
(* The process.                                                            *)

Atender(p) ==
  /\ Razonable(p) /\ (Cuidado => Prudente(p))
  /\ \/ p.op = "CREATE" /\ CrearArchivoMetadata(p)
     \/ p.op = "DELETE" /\ BorrarArchivo(p)
     \/ p.op = "TRUNCATE" /\ TruncarArchivo(p)
     \/ p.op = "WRITE" /\ EscribirArchivoBloque(p)
     \/ p.op = "READ" /\ LeerArchivoBloque(p)

\* listFiles: readdir gives the files in any order and malloc leaves in
\* ultimo_bloque whatever was there
Reiniciar ==
  /\ \E orden \in [1 .. Cardinality(DOMAIN disco) -> DOMAIN disco] :
     \E ultimo \in [DOMAIN disco -> Bloque] :
       /\ IsInjective(orden)
       /\ metadatas' = [k \in DOMAIN orden |->
            [nombre |-> orden[k], tamanio_archivo |-> disco[orden[k]].tamanio,
             bloq_inicial_archivo |-> disco[orden[k]].inicial,
             cantidad_bloques |-> CantidadDeBloquesNecesarios(disco[orden[k]].tamanio),
             ultimo_bloque |-> ultimo[orden[k]]]]
  /\ caida' = FALSE
  /\ UNCHANGED <<bitmap, bloques, disco, leido, atendidos>>

Servir ==
  /\ ~caida /\ atendidos < Len(Guion)
  /\ \E p \in Guion[atendidos + 1] : Atender(p)
  /\ atendidos' = atendidos + 1

Next == Servir \/ Reiniciar

Spec == Init /\ [][Next]_vars

-----------------------------------------------------------------------------
(* Properties.                                                             *)

BloquesDe(meta) == Tramo(meta.bloq_inicial_archivo, Ocupa(meta))

(* funcionesfs.c:460 ("los proximo bits ... simulan bloques"): the bits    *)
(* stand for the blocks, so every block of a file has its bit at 1 and no  *)
(* other file has it, after any sequence of growths, reductions,           *)
(* compactions and restarts.                                               *)
BloquesPropios ==
  \A i \in DOMAIN metadatas :
    /\ BloquesDe(metadatas[i]) \subseteq bitmap
    /\ \A j \in DOMAIN metadatas \ {i} :
         BloquesDe(metadatas[i]) \cap BloquesDe(metadatas[j]) = {}

(* modificar_config_tam (funcionesfs.c:589) and modificar_bloque_inicial   *)
(* (401): the metadata files say at any moment what the list says, which   *)
(* is what a restart will believe.                                         *)
MetadatosAlDia ==
  /\ DOMAIN disco = {metadatas[k].nombre : k \in DOMAIN metadatas}
  /\ \A k \in DOMAIN metadatas :
       disco[metadatas[k].nombre] = [tamanio |-> metadatas[k].tamanio_archivo,
                                     inicial |-> metadatas[k].bloq_inicial_archivo]

(* The files as a process sees them.                                       *)
Persistido(n) == [i \in 1 .. disco[n].tamanio |->
                    bloques[disco[n].inicial * BLOCK_SIZE + i - 1]]
Almacen == INSTANCE AlmacenIdeal WITH
             MaxTamanio <- BITS * BLOCK_SIZE,
             archivos <- DOMAIN disco,
             contenido <- [n \in Nombre |->
                             IF n \in DOMAIN disco THEN Persistido(n) ELSE <<>>]

(* The bytes of a file survive the growth, the compaction and the deletion *)
(* of others and the restart of the process (funcionesfs.c:339, 196;       *)
(* entradasalida.c:43), a read returns them and nobody else changes them.  *)
CumpleAlmacen == Almacen!Spec
=============================================================================
