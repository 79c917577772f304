SPECIFICATION Spec
CONSTANTS
  Pid = {p1, p2, p3}
  NADIE = NADIE
  Proceso <- MCProceso
  Nombre <- MCNombre
  Tipo <- MCTipo
  Pedibles <- MCPedibles
  Mortales = {"fs"}
  MaxPedidos = 3
  Descriptor = {1, 2}
  DeAUna = TRUE
  Relevo = TRUE
  TrasCrear = TRUE
INVARIANTS
  InterfacesTypeOK
  UnPedidoPorVez
PROPERTIES
  CumpleServicio
  TodoPedidoVuelve
CHECK_DEADLOCK FALSE
