----------------------------- MODULE MCInterfaces -----------------------------
(***************************************************************************)
(* A keyboard, a file system and a second process of the file system that  *)
(* may be started when the first has died.                                 *)
(***************************************************************************)
EXTENDS Interfaces, TLC

MCProceso == {"teclado", "fs", "otrofs"}
MCNombre == [c \in MCProceso |-> IF c = "teclado" THEN "TECLADO" ELSE "FS"]
MCTipo == [c \in MCProceso |-> IF c = "teclado" THEN "STDIN" ELSE "DIALFS"]
MCPedibles == {<<"TECLADO", "STDIN_READ">>, <<"FS", "CREATE">>, <<"FS", "WRITE">>}
=============================================================================
