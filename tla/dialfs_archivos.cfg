SPECIFICATION Spec
CONSTANTS
  Nombre <- MCNombre
  Dato = {0, 1}
  BASURA = 0
  BLOCK_SIZE = 2
  BLOCK_COUNT = 4
  BITS = 5
  MaxTamanio = 5
  MaxPedidos = 6
  Guion <- MCGuion
  Cuidado = TRUE
INVARIANTS
  DialTypeOK
  BloquesPropios
  MetadatosAlDia
PROPERTIES
  CumpleAlmacen
