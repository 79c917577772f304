--------------------------- MODULE MCPlanificacion ---------------------------
(***************************************************************************)
(* Instances of Planificacion for TLC.  The scripts are those of           *)
(* scripts_memoria cut to the instructions the planner tells apart.        *)
(***************************************************************************)
EXTENDS PropsPlanificacion

I(op) == [op |-> op, arg |-> "GEN", destino |-> 0]
Con(op, arg) == [op |-> op, arg |-> arg, destino |-> 0]
MCOperando == {"RA", "RB", "GEN", "NOEXISTE"}
MCUnRecurso == <<"RA">>
MCDosInstancias == [r \in {"RA"} |-> 2]
MCInstancias == [r \in {"RA"} |-> 1]

(* Takes RA, sleeps in an interface with it, gives it back.                *)
LOCK_A == <<Con("WAIT", "RA"), I("IO_GEN_SLEEP"), Con("SIGNAL", "RA"), I("EXIT")>>
(* Ends without giving RA back.                                            *)
LOCK_SIN_SIGNAL == <<I("CALC"), Con("WAIT", "RA"), I("IO_STD"), I("EXIT")>>
PLANI_2 == <<I("CALC"), I("IO_STD"), I("CALC"), I("EXIT")>>
(* SET PC 0: the loop of PLANI_4, and the same after a WAIT.               *)
PLANI_4 == <<I("CALC"), I("SALTO"), I("EXIT")>>
WAIT_Y_BUCLE == <<Con("WAIT", "RA"), I("CALC"), [I("SALTO") EXCEPT !.destino = 1], I("EXIT")>>
(* A SIGNAL nobody is owed.                                                *)
SIN_WAIT == <<I("CALC"), Con("SIGNAL", "RA"), I("EXIT")>>

(* What Serial leaves out.                                                 *)
AMPLIA == <<I("RESIZE"), Con("WAIT", "RA"), Con("IO_STD", "NOEXISTE"), I("EXIT")>>
ARCHIVO == <<I("IO_FS"), Con("IO_GEN_SLEEP", "NOEXISTE"), I("EXIT")>>
DOBLE_WAIT == <<Con("WAIT", "RA"), Con("WAIT", "RA"), Con("SIGNAL", "RA"), Con("WAIT", "NOEXISTE")>>

Todos == [AMPLIA |-> AMPLIA, ARCHIVO |-> ARCHIVO, DOBLE_WAIT |-> DOBLE_WAIT,
          LOCK_A |-> LOCK_A, LOCK_SIN_SIGNAL |-> LOCK_SIN_SIGNAL,
          PLANI_2 |-> PLANI_2, PLANI_4 |-> PLANI_4, SIN_WAIT |-> SIN_WAIT, WAIT_Y_BUCLE |-> WAIT_Y_BUCLE]

MCRecursos == {"LOCK_A", "LOCK_SIN_SIGNAL"}
MCRectos == {"LOCK_A", "LOCK_SIN_SIGNAL", "PLANI_2", "SIN_WAIT"}
MCBucles == {"PLANI_2", "PLANI_4"}
MCMezcla == MCRectos \cup {"PLANI_4"}
MCPeligro == {"PLANI_4", "WAIT_Y_BUCLE"}
MCSueltos == {"AMPLIA", "ARCHIVO", "DOBLE_WAIT"}
MCCodigo == [s \in Script |-> Todos[s]]
=============================================================================
