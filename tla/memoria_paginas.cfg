SPECIFICATION Spec
CONSTANTS
  Pid = {p1, p2}
  TAM_MEMORIA = 12
  TAM_PAGINA = 4
  NADIE = NADIE
  SIN_PID = SIN_PID
  NADA = NADA
  BASURA = 9
  Entradas = {0, 2}
  Instrucciones <- MCInstrucciones
  Tecleado = {1}
  Rebrota = FALSE
  Cruza = FALSE
  Matables = {"listo"}
  MaxInstrucciones = 5
SYMMETRY Simetria
INVARIANTS
  MmuTypeOK
  MarcosExactos
  EspacioNoSeInventa
  MemoriaNoCae
  TablaDelTamanio
PROPERTIES
  CumpleCacheIdeal
  CumpleMemoriaPrivada
CHECK_DEADLOCK FALSE
