SPECIFICATION Spec
CONSTANTS
  NProcesos = 2
  NADIE = NADIE
  ListaRecursos <- MCUnRecurso
  Instancias <- MCDosInstancias
  Script <- MCSueltos
  Codigo <- MCCodigo
  Operando <- MCOperando
  Algoritmos = {"FIFO", "VRR"}
  Grado = 1
  Grados = {1, 2}
  Interfaz = {"GEN"}
  Eliminables = {0}
  MaxOrdenes = 1
  MaxRelojes = 1
  ArranqueConCarrera = TRUE
INVARIANTS
  TypeOK CuentaNew Conservacion
CHECK_DEADLOCK FALSE
