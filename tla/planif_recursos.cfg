SPECIFICATION Spec
CONSTANTS
  NProcesos = 3
  NADIE = NADIE
  ListaRecursos <- MCUnRecurso
  Instancias <- MCInstancias
  Script <- MCRecursos
  Codigo <- MCCodigo
  Operando <- MCOperando
  Algoritmos = {"RR"}
  Grado = 3
  Grados = {}
  Interfaz = {"GEN"}
  Eliminables = {}
  MaxOrdenes = 0
  MaxRelojes = 5
  ArranqueConCarrera = FALSE
INVARIANTS
  NoDespertarPerdido SinFuga
CHECK_DEADLOCK FALSE
