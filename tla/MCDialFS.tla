------------------------------- MODULE MCDialFS -------------------------------
(***************************************************************************)
(* Small instances of DialFS: any requests over two names, and the         *)
(* sequence of requests of the repository's scripts.                       *)
(***************************************************************************)
EXTENDS DialFS, TLC

CONSTANTS MaxTamanio, MaxPedidos

Cualquiera ==
  {Pedido(op, n, 0, 0, BASURA) : op \in {"CREATE", "DELETE"}, n \in Nombre} \cup
  {Pedido("TRUNCATE", n, t, 0, BASURA) : n \in Nombre, t \in 0 .. MaxTamanio} \cup
  {Pedido("WRITE", n, t, MaxTamanio - t, d) : n \in Nombre, t \in 1 .. 2, d \in Dato \ {BASURA}} \cup
  {Pedido("READ", n, t, 1, BASURA) : n \in Nombre, t \in {1, 2}}
MCGuion == [i \in 1 .. MaxPedidos |-> Cualquiera]
MCNombre == {"a", "b"}

\* scripts_memoria/FS_1, FS_2 and FS_4, one after the other
Cree(n) == {Pedido("CREATE", n, 0, 0, BASURA)}
Trunque(n, t) == {Pedido("TRUNCATE", n, t, 0, BASURA)}
GuionDeLaPrueba ==
  <<Cree("salida"), Cree("cronologico"), Trunque("salida", 80), Trunque("cronologico", 80),
    Cree("archivo1"), Cree("archivo2"), Trunque("archivo1", 10), Trunque("archivo2", 10),
    Cree("pesado"), Trunque("pesado", 250), {Pedido("DELETE", "archivo1", 0, 0, BASURA)},
    Trunque("archivo2", 70)>>
\* the process is not restarted in between
SpecGuion == Init /\ [][Servir]_vars
NombresDeLaPrueba == {"salida", "cronologico", "archivo1", "archivo2", "pesado"}
=============================================================================
