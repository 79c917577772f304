SPECIFICATION Spec
CONSTANTS
  NProcesos = 2
  NADIE = NADIE
  ListaRecursos <- MCUnRecurso
  Instancias <- MCInstancias
  Script <- MCRectos
  Codigo <- MCCodigo
  Operando <- MCOperando
  Algoritmos = {"FIFO", "RR", "VRR"}
  Grado = 1
  Grados = {1, 2}
  Interfaz = {"GEN"}
  Eliminables = {}
  MaxOrdenes = 2
  MaxRelojes = 5
  ArranqueConCarrera = FALSE
INVARIANTS
  ExclusionCpu RunningCorrecto UnSoloLugar CuentaReady CuentaGrado NuncaCae
PROPERTIES
  TerminadoNoRevive CumpleCincoEstados
CHECK_DEADLOCK FALSE
