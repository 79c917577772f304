-------------------------------- MODULE MCMmu --------------------------------
(***************************************************************************)
(* A small instance of Mmu: three frames of four bytes, two processes that *)
(* use up to two pages each.                                               *)
(***************************************************************************)
EXTENDS PropsMmu, TLC

MCInstrucciones ==
  {Instruccion("RESIZE", <<>>, 0, t) : t \in {0, 3, 7}} \cup
  {Instruccion("EXIT", <<>>, 0, 0),
   Instruccion("MOV_IN", <<1>>, 1, 0),
   Instruccion("MOV_OUT", <<0>>, 4, 300),
   Instruccion("MOV_OUT", <<5>>, 1, 7),
   Instruccion("COPY_STRING", <<0, 5>>, 2, 0),
   Instruccion("STDIN_READ", <<1>>, 2, 0),
   Instruccion("STDOUT_WRITE", <<4>>, 2, 0)}
Simetria == Permutations(Pid)
=============================================================================
