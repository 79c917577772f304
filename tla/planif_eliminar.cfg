SPECIFICATION Spec
CONSTANTS
  NProcesos = 2
  NADIE = NADIE
  ListaRecursos <- MCUnRecurso
  Instancias <- MCInstancias
  Script <- MCBucles
  Codigo <- MCCodigo
  Operando <- MCOperando
  Algoritmos = {"FIFO"}
  Grado = 2
  Grados = {}
  Interfaz = {"GEN"}
  Eliminables = {0}
  MaxOrdenes = 1
  MaxRelojes = 5
  ArranqueConCarrera = FALSE
PROPERTIES
  EliminaLoPedido
CHECK_DEADLOCK FALSE
