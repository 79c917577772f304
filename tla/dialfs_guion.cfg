SPECIFICATION SpecGuion
CONSTANTS
  Nombre <- NombresDeLaPrueba
  Dato = {0, 1}
  BASURA = 0
  BLOCK_SIZE = 16
  BLOCK_COUNT = 32
  BITS = 40
  MaxTamanio = 250
  MaxPedidos = 0
  Guion <- GuionDeLaPrueba
  Cuidado = FALSE
INVARIANTS
  BloquesPropios
CHECK_DEADLOCK FALSE
