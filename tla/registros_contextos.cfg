\* Two processes, bytes of 2 values.
SPECIFICATION Spec
CONSTANTS
  Pid = {p1, p2}
  BYTE = 2
  NADIE = NADIE
  MaxLargo = 2
  Programas <- MCProgramas
SYMMETRY Simetria
INVARIANT
  RegistrosTypeOK
PROPERTY
  CumpleMaquina
CHECK_DEADLOCK FALSE
