SPECIFICATION EquidadSpec
CONSTANTS
  NProcesos = 2
  NADIE = NADIE
  ListaRecursos <- MCUnRecurso
  Instancias <- MCInstancias
  Script <- MCPeligro
  Codigo <- MCCodigo
  Operando <- MCOperando
  Algoritmos = {"RR"}
  Grado = 2
  Grados = {}
  Interfaz = {"GEN"}
  Eliminables = {}
  MaxOrdenes = 0
  MaxRelojes = 5
  ArranqueConCarrera = FALSE
PROPERTIES
  ListoLlegaAlCpu
CHECK_DEADLOCK FALSE
