SPECIFICATION Spec
CONSTANTS
  NProcesos = 1
  NADIE = NADIE
  ListaRecursos <- MCUnRecurso
  Instancias <- MCInstancias
  Script <- MCBucles
  Codigo <- MCCodigo
  Operando <- MCOperando
  Algoritmos = {"RR"}
  Grado = 1
  Grados = {}
  Interfaz = {"GEN"}
  Eliminables = {}
  MaxOrdenes = 3
  MaxRelojes = 5
  ArranqueConCarrera = FALSE
PROPERTIES
  PausaRespetada
CHECK_DEADLOCK FALSE
