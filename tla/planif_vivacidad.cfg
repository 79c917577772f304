SPECIFICATION EquidadSpec
CONSTANTS
  NProcesos = 2
  NADIE = NADIE
  ListaRecursos <- MCUnRecurso
  Instancias <- MCInstancias
  Script <- MCMezcla
  Codigo <- MCCodigo
  Operando <- MCOperando
  Algoritmos = {"RR", "VRR"}
  Grado = 2
  Grados = {}
  Interfaz = {"GEN"}
  Eliminables = {}
  MaxOrdenes = 0
  MaxRelojes = 5
  ArranqueConCarrera = FALSE
PROPERTIES
  EventualmenteTermina
  ListoLlegaAlCpu
CHECK_DEADLOCK FALSE
