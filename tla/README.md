# C-Comenta in TLA+

Specifications, model-checking instances and proofs for C-Comenta, the simulated
operating system of this repository: four programs in C (kernel, cpu, memoria,
entradasalida) and a shared library (utils) that talk over TCP sockets.

The definitions keep the names of the C code, which is in Spanish. `PROJECT.json`
maps each of them to the lines it stands for.

## 1. The system

| Component | Source | State it keeps | Operations |
|---|---|---|---|
| long term planner | `kernel/src/planificadores.c` | `cola_new`, `sem_new`, `sem_grado_multiprogramacion` | take a NEW process, wait for a place, obey the pause, pass it to READY |
| short term planner | `kernel/src/planificadores.c` | `cola_ready`, `cola_vrr`, `sem_ready`, `sem_exec`, `running`, one timer thread per dispatch | dispatch by FIFO, RR or VRR, interrupt at the end of the quantum |
| dispatch connection | `kernel/src/kernel.c`, `utils.c` | the request it serves, the PCB it is finishing | take every answer of the CPU: requests, preemption, end |
| console | `kernel/src/kernel.c`, `utils.c` | `contador_pcb`, `detener`, `grado_multiprogramacion_ini`, `primero` | start, kill, pause, resume, change the degree |
| resources | `kernel/src/recursos.c` | instances, who holds them, one queue each | WAIT, SIGNAL, give everything back at the end |
| interfaces (kernel) | `kernel/src/interfaces.c` | per interface: a queue, three semaphores and the number of its connection | queue a PCB, one request at a time, give it back on the reply |
| instruction cycle | `cpu/src/cpu.c` | the current context, `hay_desalojo`, `hay_finalizar` | fetch, decode, execute, check interrupts; a second thread takes interrupts |
| MMU and TLB | `cpu/src/cpu.c` | entries, FIFO counter, LRU clocks | translate, replace |
| frames and page tables | `memoria/src/envio_resize.c`, `finaliza_proceso.c`, `global.c` | frame bitmap, page table per process, `espacio_disponible` | grow, shrink, free |
| user space | `memoria/src/envio_mov_*.c`, ... | one array of bytes | read and write by physical address |
| pseudocode | `memoria/src/crear_proceso.c` | the instructions of each pid | load, serve one |
| interface process | `entradasalida/src/entradasalida.c` | its type and connection | GENERICA, STDIN, STDOUT, DIALFS |
| DialFS | `entradasalida/src/funcionesfs.c` | block bitmap, a metadata file per file | create, delete, truncate, compact, read, write |
| utils | `utils/src/utils/hello.c` | none | packets, contexts, sockets |

How they interact. The console creates PCBs in NEW; the long term planner admits
them; the short term planner locks `sem_exec`, sends the context on the dispatch
socket and, under RR and VRR, starts a timer thread. The CPU runs instructions
until it has an answer: a request (the context and then a packet), a preemption or
the end. The connection thread writes the context back in `running`, serves the
request and either answers the CPU with the same PCB (a granted WAIT, a SIGNAL)
or unlocks `sem_exec`. A PCB in an interface or in a resource's queue comes back to
READY (or VRR's queue) from another thread. memoria serves scripts, frames and
bytes to the CPU and to the interfaces.

What is hard in it:

* the right to the CPU travels: the mutex is locked by one thread, and unlocked by
  another one (or by three different paths of the console) after a round trip over
  a socket. The global `running` is written by one thread and read by three;
* timers outlive the dispatch that started them, and the interrupt thread of the
  CPU compares pids only;
* a woken process is not given the resource: its program counter was rewound and
  it has to win the resource again with a second WAIT;
* the pause is one flag and three mutexes that start locked;
* the degree of multiprogramming is a semaphore that the console lowers by waiting
  on it, in competition with the planner;
* killing a process looks for its PCB in some of the places where it may be.

What makes each component correct; section 4 says where it is checked:

* planners: one process on the CPU, each process in one place, semaphores that
  equal queues, a degree never exceeded, no starvation under a quantum, a
  pause that pauses;
* resources: no instance created or lost, no wake-up lost, every process of a
  script without deadlock ends;
* interfaces: one request at a time, each reply to the PCB that asked;
* TLB: a hit says what the page table says; the victim is FIFO's or LRU's;
* memory: no frame in two tables, bitmap equal to the tables, bytes accounted for,
  and each process reads what it wrote;
* registers: a context survives its journeys, and each register wraps at its width;
* DialFS: no block in two files, bitmap equal to the metadata, contents kept by
  truncation and compaction.

## 2. Modules

Five families, each checked by itself:

    Recursos            resources of kernel.config, their holders and queues
      CicloCpu          the CPU: dispatch thread, interrupt thread, timers
        Planificacion   the kernel: console, two planners, connection thread
          PropsPlanificacion    what all of it promises
            MCPlanificacion     instances for TLC
            Planificacion_proofs    types, the two semaphores, the right to the CPU, the NULLs
              Lugares_proofs        where each process is, the five states
                Recursos_proofs     the instances of the resources
    CincoEstados        abstract: the five-state diagram

    Memoria, Tlb        frames, page tables and bytes; the TLB
      Mmu               the CPU that translates, memoria's threads, late interfaces
        PropsMmu        what paging promises
          MCMmu         instance
        Memoria_proofs  frames and tables
          Espacio_proofs  bytes, pages and what memoria dereferences
    CacheIdeal          abstract: a cache as a queue of translations
    MemoriaPrivada      abstract: each process in a memory of its own

    Interfaces          accept loop, connection threads, queues, I/O processes
      MCInterfaces      instance
      Interfaces_proofs turns, queues and what they promise
    ServicioIdeal       abstract: a server of named queues

    DialFS              bitmap, metadata, blocks; the five requests and the restart
      MCDialFS          instances
      DialFS_proofs     directory, blocks and bytes
    AlmacenIdeal        abstract: named byte strings

    Registros           registers, the arithmetic of decode, the packet of a context
      MCRegistros       instance
      Registros_proofs  theorems
    MaquinaIdeal        abstract: a CPU per process

Each module EXTENDS the one above; the abstract ones are instantiated WITH a
refinement mapping. The families meet where one assumes what another one shows:
Registros and Mmu dispatch one process at a time, which is ExclusionCpu; Mmu lets
an interface carry out its accesses at any later moment, which Interfaces details;
Interfaces leaves to DialFS what a request does to the disk, and to Planificacion
which ready queue a PCB returns to.

`Recursos` has operators for the effect of each
C function on the resources; the effect on PCBs, READY and `sem_exec` is in the
callers. `CicloCpu` is the CPU seen from the kernel. `Planificacion` composes
both: an action is what one thread does between two points where it can block or
be seen, `pc` says where each kernel thread is (`"new"` and `"grado"` are the two
`sem_wait` of `planificador_largo_plazo`, `"exec"` is `pthread_mutex_lock(&sem_exec)`,
`"detenido"` is one of the three pause mutexes, `"recv"` is `recv` on the socket,
...), and `fin` keeps the locals of whoever is in `finalizar_pcb`: the resource the loop is
at, how many instances are still to be given back (`faltan`) and where in a turn it is
(`vuelta`). `Interfaces` does
the same with the `paso` of each thread, and `Mmu` with the `paso` of the CPU and the
two threads of memoria.

Correspondence of the state:

| TLA+ | C |
|---|---|
| `instancias`, `asignados`, `bloqueados` | `recurso->instancias`, `lista_recursos_pcb`, `recurso->cola_bloqueados` |
| `dispatch`, `respuestas` | the two directions of the dispatch socket |
| `cpu_pcb`, `hay_desalojo`, `hay_finalizar` | the CPU's globals |
| `cpu_estado` | where its dispatch thread is: waiting, between storing the PCB and clearing the flags, in the cycle |
| `relojes` | sleeping `interrupcion_quantum_*` threads, per pid |
| `finalizar_en_vuelo` | ENVIAR_FINALIZAR packets on the interrupt socket |
| `pcb[p].resto` | VRR: whether the quantum has something left |
| `en_io` | how many times a PCB is in the queues of interfaces |
| `caido` | the kernel has dereferenced NULL or freed an uninitialised pointer |
| `is_free`, `tablas`, `paginas`, `tamanio_proceso`, `espacio_disponible`, `espacio_usuario` | memoria's globals |
| `hilo_cpu`, `hilo_kernel` | the RESIZE and the FINALIZAR the two threads of memoria are in |
| `tlb`, `traducidas` | the TLB's entries; the addresses of an instruction already translated |
| `canal`, `respuesta` | the two directions of the connection from the CPU to memoria |
| `pedido` | an access whose translation has been given to an interface |
| `interfaz`, `lista_interfaces`, `hilo`, `cliente_fd`, `pendientes` | per interface its queue, semaphores and `codigo_cliente`; the list; the connection threads; the variable of the accept loop; connections not accepted |
| `proceso`, `fd` | an I/O process, with the two directions of its socket; the number of its connection in the kernel |
| `bitmap`, `disco`, `metadatas`, `bloques` | `bitmap.dat`, the metadata files, the list in memory, `bloques.dat` |
| `contexto`, `paquete`, `pcb` (Registros) | the registers in the kernel, on the socket, in the CPU |

Definitions called `X_algo` are X with a plausible slip (a forgotten `sem_post`, a
missing unlock). No action uses them; every checked property fails when one of
them replaces X.

What is abstracted, and how:

* an instruction that only computes (SET, SUM, SUB, MOV_*, COPY_STRING, a RESIZE
  that fits) is `CALC`, or a `RESIZE` that may succeed; a jump (`SALTO`: JNZ, SET
  PC) may or may not be taken. STDIN and STDOUT requests are `IO_STD`, the five
  DIALFS ones `IO_FS`;
* a write to a queue and the `sem_post` behind it are one step, and so are writing
  a queue and the state of the PCB: every reader waits on the semaphore first.
  Waking a process and answering the CPU after a SIGNAL are one step as well;
* in `liberar_recursos` the search of an entry and the read of its counter are one step;
  then each turn of the inner loop is two: a process that waits goes to READY (the test of
  the queue and the pop, 159-160, together), and then `instancias++` with
  `quitar_recurso_pcb`. `recurso->instancias` has no mutex: when another thread may be
  updating it too, an update counts or is lost (`Cuenta`);
* the end of a timer's sleep, its message and the interrupt thread's handler are
  one step: no order binds two timers. A timer does not expire before the CPU has
  taken the packet it was started with (a quantum is milliseconds, the packet is
  local);
* an interface is a bag that gives PCBs back one by one, in any order;
* the short term planner can overtake the end of the first `iniciar_proceso` (the
  console unlocks `sem_exec` there, free or not) only with
  `ArranqueConCarrera = TRUE`;
* the round trip to memoria in `iniciar_proceso` is part of the option; the file is
  chosen among `Script`.

* in `Memoria` and `Mmu` an access is by bytes, of which a few are enough; the field
  `pid` of a frame, which only feeds a log line, is left out. Instructions that use no
  memory are in Registros, and of the kernel there is what memoria sees;
* in `Interfaces` a request is its PCB, operation and name; the connection to memoria
  that a STDIN or DIALFS request opens is part of the step that serves it. A connection is
  the number `accept` gave it, free again after the `close` of `recibir_operacion`
  (`hello.c:184`), and `codigo_cliente` is that number for ever (`interfaces.c:782`): a
  request goes to whoever has it by then. `accept` gives the lowest free number; here it gives any,
  because the console opens files in between. A process does what it is asked
  whatever its type, and answers with its own name;
* in `DialFS` a request is one step, because one thread serves them one by one and
  the kernel sends the next after the answer. It begins with the request the interface has
  received: that `puntero` is packed with the length of the data (`interfaces.c:688`, `701`), so
  that less than four bytes truncate it, is not in it. A byte is one of few values. `main`
  sizes the disk with the configuration of teclado, so the bitmap may have
  more bits (`BITS`) than the blocks that `vaciar_bit_map` clears (`BLOCK_COUNT`);
* in `Registros` a byte has `BYTE` values and a word four bytes. TLC takes 2; the
  theorems take any. Memory order is the one of the machines it runs on,
  lowest byte first.

## 3. Hypotheses

### Serial systems

`Serial` names the hypothesis under which the planner is right: the start race
does not happen, option 3 is not used, no process runs out of memory or uses DIALFS,
and every IO names a connected interface. Dropping its parts one at a time, on two
processes with FIFO and VRR, TLC gives:

| Allowed | Fail | Still hold |
|---|---|---|
| start race | ExclusionCpu, RunningCorrecto, UnSoloLugar, CuentaGrado, SinFuga, TerminadoNoRevive, CumpleCincoEstados | CuentaNew, CuentaReady, InstanciasCuadran, NoDespertarPerdido, NuncaCae |
| option 3 | the same, and CuentaReady, NuncaCae, InstanciasCuadran, NoDespertarPerdido | CuentaNew |
| out of memory | ExclusionCpu | the rest |
| unknown interface, IO_GEN_SLEEP | ExclusionCpu | the rest |
| unknown interface, STDIN/STDOUT | ExclusionCpu, CumpleCincoEstados | the rest |
| DIALFS | RunningCorrecto, UnSoloLugar, CuentaGrado, TerminadoNoRevive, CumpleCincoEstados | the rest |
| two instances held by one process | NuncaCae | the rest |

The common cause of the first column is an unlock of `sem_exec` by a thread that
does not hold it: `finalizar_pcb` unlocks inside `liberar_proceso` and
some of its callers unlock again (`kernel.c:198`, `209`), the console does it for
a process that is not on the CPU, and `iniciar_proceso` does it the first
time (`utils.c:130`). DIALFS requests read `running` after the unlock
(`kernel.c:264`). Two instances make `quitar_recurso_pcb` free a local it never
wrote (`recursos.c:119`): that is the `BOOLEAN` of `PosibleCaida`.

InstanciasCuadran (free and held instances are the configured ones) needs one of these parts
only, that option 3 is not used; Conservacion asks it until then. With option 3, the console
and the connection thread may both be in `liberar_recursos` for one pid: each reads how
many instances the entry has (`recursos.c:157`) before either removes it, and they are given
back twice; TLC finds it in 22 steps when `planif_consola` asks for InstanciasCuadran. The two also
lose an `instancias++` of each other (`recursos.c:163`).

### Memory

`CumpleMemoriaPrivada` and the invariants of `memoria_paginas` hold of programs that do
what the code is prepared for. Each hypothesis is a constant or the set of
instructions, and lifting it makes TLC find what the last column says:

| Hypothesis | Without it | Why |
|---|---|---|
| `Rebrota = FALSE`: a process that has shrunk does not grow again | CumpleMemoriaPrivada fails | the TLB still has the page with its old frame (`cpu.c:818`) |
| `Matables` without `"interfaz"`: nobody finishes a process that waits in an interface | CumpleMemoriaPrivada fails | the interface writes with an old translation in a frame that has another owner |
| `Matables` without `"cpu"` | MemoriaNoCae fails | the table is gone when RESIZE or OBTENER_MARCO look for it |
| `Cruza = FALSE`: no access crosses the end of a page | CumpleMemoriaPrivada fails | `envio_mov_out.c:16` writes on in the next frame |
| RESIZE to multiples of a page (the theorem), or to 0, 3 and 7 bytes, whose pages come out right too (the run) | MemoriaNoCae fails | the pages added are the ceiling of the bytes added (`envio_resize.c:38`), and frames run out while bytes remain (`envio_resize.c:56`) |

The scripts of `scripts_memoria` also ask for 60, 40 and 22 bytes with pages of 32.
No theorem but that on MemoriaNoCae asks for whole pages, nor do MarcosExactos, TablaDelTamanio
and EspacioNoSeInventa ask anything of Rebrota or Cruza. TablaDelTamanio speaks of processes that never
shrank (`redujo`): a growth from 5 to 10 bytes with pages of 4 leaves a page too many, which
is harmless, but a RESIZE from 8 to 7 takes a page away that still has bytes (`envio_resize.c:80`).

`finalizar_proceso` never gives bytes back to `espacio_disponible`: EspacioNoSeInventa is
an inequality for that reason.

### DialFS

`Razonable` (a new name, a free bit, blocks that exist) is always asked: the
code has no answer otherwise. `Prudente` is asked by `Cuidado = TRUE`: a
file is not reduced to 0 bytes (the comment at `funcionesfs.c:241` says it is
not handled); a file grows where it is only when `cantidad_bloques` and `ultimo_bloque` are
right, and a compaction happens only when no other file has fewer blocks in
`cantidad_bloques` than it has (otherwise finding 4); reads and writes stay inside the file,
and a read begins in its first block (`funcionesfs.c:651` adds the pointer twice). A
request for a file that is not there kills the process; `Reiniciar` follows, with the
directory in any order and `ultimo_bloque` uninitialised.

### Interfaces

`DeAUna`: an I/O process connects when the kernel has finished with the others.
Otherwise two registrations share `cliente_fd` (`kernel.c:24`) or lose a node
of the list, and the kernel dies (CumpleServicio fails). `TrasCrear`: the connection that
carries a WRITE has answered a CREATE. Otherwise RESPUESTA_ESCRIBIR_ARCHIVO
(`kernel.c:372`) uses a name nobody has written.

`Relevo`: a process that starts after a death has the name of the one that died. The kernel
closes the connection of a dead process and keeps its number in `codigo_cliente`, and the next one
to connect is given that number: it serves the queue of the dead one. When both have the name FS
this is a relief that works: the new process answers as FS, and the entry found by
that name, the old one, goes on. If teclado starts after fs has died, it gets the
requests of FS, does them (`entradasalida.c:340-530` does not look at the type) and
answers as TECLADO, whose `semaforo_uso` comes to 2: without `Relevo` TLC breaks
InterfacesTypeOK. Two processes of one name are never used at a time, since the kernel finds them by name.

An interface may die in a request or at rest. A request it had is lost, and the control
thread waits for its answer for ever, with the PCBs behind it, also after a relief; those
of an interface that dies at rest wait until the relief comes (`kernel.c:411`). TodoPedidoVuelve says so.
`Propios` is asked by the theorem on CumpleServicio and true in the run: scripts ask an
interface for what its type does. Otherwise control_acceso, which sends the operation of the
type (`EnvioDe`), does something else than was asked, and ServicioIdeal has no word for that.

### Registers

`ProgramasCorrientes`: PC appears only as the target of SET, with a value that fits an
int, as in every script of `scripts_memoria`. SUM and SUB with PC use DI
(`cpu.c:774`, `cpu.c:368`), which the abstract machine does not.

## 4. Runs

The `planif_*` runs instantiate `MCPlanificacion`, with the scripts of
`scripts_memoria` cut to what the planner tells apart.

| Run | Instance | Shows |
|---|---|---|
| `planif_serial` | 2 processes, FIFO, RR and VRR, 4 scripts, 2 uses of options 4, 5, 7; 1.46 M states | under every interleaving: ExclusionCpu, RunningCorrecto, UnSoloLugar, CuentaReady, CuentaGrado, NuncaCae, TerminadoNoRevive, and CumpleCincoEstados (the refinement of `CincoEstados`) |
| `planif_recursos` | 3 processes, RR, one resource; 1.07 M states | NoDespertarPerdido, SinFuga |
| `planif_vivacidad` | 2 processes, either or both may loop for ever, RR and VRR, fairness; 179 k states | EventualmenteTermina, ListoLlegaAlCpu |
| `planif_consola` | everything `Serial` excludes at once; 5.3 M states | TypeOK and CuentaNew still hold, Conservacion until the console is used, and every remaining action happens |
| `planif_pausa` | finding | PausaRespetada is violated |
| `planif_eliminar` | finding | EliminaLoPedido is violated |
| `planif_desalojo_perdido` | finding | ListoLlegaAlCpu is violated when a WAIT comes before the loop |
| `memoria_paginas` | 2 processes, 3 frames of 4 bytes, TLB of 0 or 2 entries with FIFO and LRU, RESIZE to 0, 3 and 7, 5 instructions; 1.0 M states | MmuTypeOK, MarcosExactos, EspacioNoSeInventa, MemoriaNoCae, TablaDelTamanio; CumpleCacheIdeal and CumpleMemoriaPrivada (refinements) |
| `interfaces_pedidos` | 3 PCBs, a keyboard, a file system that may die and another one with its name, 2 numbers of connections, 3 requests; 127 k states | InterfacesTypeOK, UnPedidoPorVez, CumpleServicio (refinement), TodoPedidoVuelve (liveness) |
| `dialfs_archivos` | 2 names, 4 blocks of 2 bytes, 6 requests of any kind, restarts; 202 k states | DialTypeOK, BloquesPropios, MetadatosAlDia, CumpleAlmacen (refinement) |
| `dialfs_guion` | finding | BloquesPropios is violated by the scripts FS_1, FS_2 and FS_4 |
| `registros_contextos` | 2 processes, bytes of 2 values, every program of two instructions and two loops; 1.5 M states | RegistrosTypeOK, CumpleMaquina (refinement) |

The properties, in words:

* **ExclusionCpu**: the right to the CPU is in exactly one of six places.
* **RunningCorrecto**: the context that travels, executes or returns is that of
  `running`, so `running->contexto = contexto` never mixes two processes.
* **UnSoloLugar**: a live PCB is in exactly one queue, interface or hand, the
  one its state says; a dead one in none.
* **CuentaNew, CuentaReady**: a semaphore, plus the wait already made, is the length
  of its queues.
* **CuentaGrado**: free places plus processes admitted are the configured degree.
* **Conservacion**: instances are free or held, by the living or the dead, whatever else
  goes wrong, until option 3 can have been used.
* **SinFuga**: and whoever holds one can still give it back.
* **NoDespertarPerdido**: while somebody waits for a resource, its free
  instances are at most as many as the woken processes on their way to take them.
* **TerminadoNoRevive**: a finished process never comes back.
* **NuncaCae**: no NULL, no uninitialised pointer.
* **CumpleCincoEstados**: with threads and queues hidden, the system is the
  five-state diagram under a degree of multiprogramming. The mapping takes a
  process as WAITING from the unlock of `sem_exec` on, which STDIN, STDOUT and DIALFS
  make before they write the state in the PCB.
* **EventualmenteTermina, ListoLlegaAlCpu**: every process whose script has no jump ends,
  beside another that loops for ever too; a READY process gets the CPU.
* **MarcosExactos**: a frame is in one page of one table, or free, and `is_free` says
  which, in the middle of a RESIZE or of a release too.
* **TablaDelTamanio**: a process that never shrank has, outside its RESIZE, a page for each
  byte it was promised, although each growth is rounded by itself.
* **EspacioNoSeInventa**: bytes promised and bytes left are never more than there are.
* **MemoriaNoCae**: memoria follows no NULL table, page or frame.
* **CumpleCacheIdeal**: the TLB is a queue of translations without repetitions, whose
  victim is the oldest (FIFO) or the least recently used (LRU).
* **CumpleMemoriaPrivada**: with frames, TLB and messages hidden, each process has a
  memory of its own, where each access happens once and in the order of the program.
* **UnPedidoPorVez**: an I/O process has one request in hand at most, the one that the
  control thread of an interface with its number waits for, also after a relief.
* **CumpleServicio**: requests are served per name in the order they came, each
  answered once, to the PCB that made it.
* **TodoPedidoVuelve**: a PCB that waits comes back, unless nobody serves its interface any more or
  the request in hand was lost in a death.
* **BloquesPropios**: no block is of two files, and the blocks of a file have their bit.
* **MetadatosAlDia**: a restart would read from the metadata files what the list has.
* **CumpleAlmacen**: DialFS is a set of names with byte strings: growth, compaction,
  deletion of others and restarts keep the bytes of a file.
* **CumpleMaquina**: with the journeys of its context hidden, each process computes on
  a CPU of its own, and a register holds its result modulo its width.

Bounds. `NProcesos` is 2, or 3 where a third process matters (one holds the
resource, one is blocked, one arrives between the SIGNAL and the second WAIT).
With 2, one process can be on the CPU while the other is anywhere else.
`MaxOrdenes` counts uses of options 3, 4, 5, 7: two make pause and resume, or raise
and lower, in one behaviour; `planif_pausa` uses three. `Grado` is 1 in `planif_serial`,
so that the planner does wait for a place, and option 7 moves it between 1 and 2. `MaxRelojes` bounds
the timers of one process asleep at once. It is 5 in the serial runs, as many as
the dispatches a straight script can have (the bound never disables a dispatch
there; in `planif_vivacidad` a loop may reach it, and its dispatch waits for one of the timers,
which fairness ends), and 1 in `planif_consola`, which is there for the other branches.
One resource with one instance makes every WAIT contended; `planif_consola` has two
instances, and its one order leaves Conservacion every behaviour before it. `RecursosAssumption` leaves out the empty resource list.

Three frames for two processes make frames change owner and RESIZE fail; a TLB of two
entries replaces, and one of none disables it. Five instructions are a growth, an access,
a reduction and the same for the other process. Sizes of 3 and 7 bytes
end inside a page, a growth from 3 to 7 begins inside one; growths that end with a page too many, as
from 5 to 10 bytes, are left to the theorem on TablaDelTamanio.
In `interfaces_pedidos`, three PCBs make a
queue of two behind the one served, and two numbers are as many as processes alive at a time,
so that otrofs has to take the one fs left; in `dialfs_archivos`, four blocks for two
files make a growth find the next block taken, and compact. Six requests are two CREATEs, two
growths, a WRITE and whatever comes after. Bytes of two values make every sum wrap.

Deadlock is checked in `dialfs_archivos` only, where a restart is always possible.
Elsewhere (`CHECK_DEADLOCK FALSE`) the system rests when every
process has ended, or the requests or instructions of the bound are used up, and a crash
stops it. That it does not stop earlier is EventualmenteTermina and TodoPedidoVuelve.

Fairness (`Equidad`). Each kernel thread and the CPU is weakly fair: they are
POSIX threads that the operating system schedules, and each step waits only for a
semaphore, a mutex or a packet. Timers, packets and interfaces are weakly fair
per process: `usleep` returns, TCP delivers, an interface answers. The user is not
fair. The CPU is strongly fair in the instructions of each process: an instruction is much
shorter than a quantum, so a process that is dispatched again and again gets some of
them done; with weak fairness alone a timer could beat the CPU to every
instruction for ever, which no quantum does. The semaphores are not FIFO in the model
and no property needs that. In Interfaces the accept loop, each connection thread, each
control thread and each I/O process are weakly fair; a request at the keyboard is
answered because the user types. Nobody has to start or stop an I/O process.

## 5. Findings

1. `kernel.c:76`. Option 5 unlocks the three pause mutexes whether or not a thread
   waits in them. After pause, resume, pause, the next thread that sees `detener`
   locks at once and goes on: the second pause does not stop it.
2. `utils.c:65`. `encontrar_pcb` answers `running` for any pid it has not found in the
   resources, READY or NEW, before it looks at interfaces or VRR's queue: option 3 on
   a process in an interface finishes the one on the CPU.
3. `cpu.c:175`. RECIBIR_PCB clears `hay_desalojo`. When the packet is the answer to
   a WAIT and the timer expired meanwhile, the interrupt is lost, no other
   timer is running, and a loop keeps the CPU for ever.
4. `funcionesfs.c:322`. A file that grows where it is keeps its old `cantidad_bloques` and
   `ultimo_bloque`; the next compaction gives it the blocks it was created with. After
   FS_1, FS_2 and FS_4, `pesado` has 16 blocks and one bit at 1, as in the `bitmap.dat`
   and `dialfs/pesado` that the repository carries.

## 6. Proofs

TLAPS checks these for every number of processes, every resource list, set of
scripts, algorithm and degree. They assume the named ASSUMEs of the modules: constants of the
expected shape, distinct resource names, at least one process and one resource, and a
NULL that is neither a pid nor a context; a page of at least a byte and instructions whose
addresses and sizes are unsigned (`MemoriaAssumption`, `MmuAssumption`); blocks of at least a
byte, no more blocks for compaction than there are bits, and requests whose sizes and pointers
are unsigned (`DialAssumption`); a TLB
whose size is a natural (`TlbAssumption`); interfaces of the four types, a request whose code is
not the one of a registration, and a NADIE that is no name, entry or message
(`InterfacesAssumption`, `SinNadie`).

| Theorem | Module | Hypothesis | Invariant |
|---|---|---|---|
| `TiposCorrectos`: `Spec => []TypeOK` | `Planificacion_proofs` | none | `TipoInd` |
| `SemNewExacto`: `[]CuentaNew` | `Planificacion_proofs` | none | `CuentaNew` with `TipoInd` |
| `SemReadyExacto`: `[]CuentaReady` | `Planificacion_proofs` | option 3 not used | `ReadyInd` |
| `UnSoloDueno`: `[]ExclusionCpu` | `Planificacion_proofs` | `Serial` | `ExcInd` |
| `SinCaidas`: `[]NuncaCae` | `Planificacion_proofs` | option 3 not used, one instance per resource | `CaidaInd` |
| `ContextoDeRunning`: `[]RunningCorrecto` | `Lugares_proofs` | `Serial` | `LugInd` |
| `CadaUnoEnSuLugar`: `[]UnSoloLugar` | `Lugares_proofs` | `Serial` | `LugInd` |
| `GradoRespetado`: `[]CuentaGrado` | `Lugares_proofs` | `Serial` | `LugInd` |
| `ImplementaCincoEstados`: `Spec => CumpleCincoEstados` | `Lugares_proofs` | `Serial` | `LugInd` |
| `SinResucitados`: `Spec => TerminadoNoRevive` | `Lugares_proofs` | `Serial` | `LugInd` |
| `InstanciasExactas`: `[]Conservacion` | `Recursos_proofs` | none (Conservacion speaks until option 3 can have been used) | `InstanciasCuadran` with `TipoInd` and `Sola` |
| `NadaSeFuga`: `[]SinFuga` | `Recursos_proofs` | `Serial` | `FugaInd` |
| `NadieDuermeDeMas`: `[]NoDespertarPerdido` | `Recursos_proofs` | `Serial` | `DespInd` |
| `MarcosExactosSiempre`: `[]MarcosExactos` | `Memoria_proofs` | `Matable`: nobody finishes the process in the CPU, nor one that ended | `Inv` |
| `EspacioVerdadero`: `[]EspacioNoSeInventa` | `Espacio_proofs` | none | `EspacioInd` |
| `TiposDeMmu`: `[]MmuTypeOK` | `Espacio_proofs` | `Matable` | `MmuInd` |
| `CacheCumplida`: `Spec => CumpleCacheIdeal` | `Espacio_proofs` | `Matable` | `CacheInd` |
| `MemoriaViva`: `[]MemoriaNoCae` | `Espacio_proofs` | `MatableVivo`, `Ordenados` | `PagInd` |
| `TablasSuficientes`: `[]TablaDelTamanio` | `Espacio_proofs` | `Matable` | `TamInd` |
| `TiposDeInterfaces`: `[]InterfacesTypeOK` | `Interfaces_proofs` | `DeAUna`, `Relevo`, `SinHomonimos` | `IntInd`, `NumInd` |
| `UnaVezCadaUno`: `[]UnPedidoPorVez` | `Interfaces_proofs` | `DeAUna`, `Relevo`, `SinHomonimos` | `IntInd`, `NumInd` |
| `ColasServidas`: `Spec => CumpleServicio` | `Interfaces_proofs` | those, `TrasCrear`, `Propios` | `SerInd`, `NumInd` |
| `DiscoAlDia`: `[]MetadatosAlDia` | `DialFS_proofs` | none | `DiscoInd` |
| `TiposDeDial`: `[]DialTypeOK` | `DialFS_proofs` | `Cuidado` | `BloquesInd` |
| `BloquesDeUno`: `[]BloquesPropios` | `DialFS_proofs` | `Cuidado` | `BloquesInd` |
| `AlmacenCumplido`: `Spec => CumpleAlmacen` | `DialFS_proofs` | `Cuidado` | `BloquesInd` |
| `RegistrosTipos`: `[]RegistrosTypeOK` | `Registros_proofs` | none | `RegistrosTypeOK` |
| `MaquinaCumplida`: `Spec => CumpleMaquina` | `Registros_proofs` | `ProgramasCorrientes` | `RegistrosTypeOK` |

* `TipoInd`. TypeOK alone is not inductive: the connection thread writes into
  `pcb[running]`, so nothing may be under way while `running` is NULL (`SinDespachos`); the CPU
  executes `cpu_pcb` (`CicloConContexto`); option 7 subtracts (`BajaPosible`).
* `ReadyInd` adds that VRR's queue is empty under FIFO and RR: otherwise the planner
  would see READY empty while a promise of `sem_ready` waits in the other queue.
* `ExcInd`. That exactly one place has the CPU does not survive a step by itself,
  because the connection thread unlocks in some branches only: the invariant adds
  which branches a Serial system can reach (`Pedible`, `PedidosBuenos`), that nobody sends
  ENVIAR_FINALIZAR (`SinMuertes`), and that the mutex is free until the tail of the
  first `iniciar_proceso` unlocks it (`Arranque`). The proof has one lemma per thread.
* `CaidaInd` is the two semaphore invariants, which exclude the NULL of an empty
  queue, with `Exclusivo` (a resource of one instance has one holder), which excludes a
  remaining entry in `quitar_recurso_pcb`.
* `LugInd` is `ExcInd`, CuentaGrado and `Lugares`: the state in the PCB names the
  only place where the process is. One conjunct per kind of place: NEW in pid order (`LugNew`),
  READY and VRR's queue (`LugListo`), resources and interfaces (`LugEspera`), and the hands of a
  thread or of the CPU (`LugManos`), with `Contextos` (each context under way is that of
  `running`) and `Identidad` (a PCB keeps its pid). They are proved together: a
  thread takes a PCB out of a queue in one step and writes its state in another, and what makes
  that safe is that it is the only one with the CPU (`ExcInd`). `SinResucitados` and
  the refinement read off the same lemmas, one per action: `Mueve(S, e)` says which
  PCBs an action takes to which state, and a step of `CincoEstados` is that and the places left.
* `InstanciasCuadran` is inductive with `Sola`: until option 3 is used only the connection thread is in
  `liberar_recursos`, so no update of `recurso->instancias` is lost, and the instances the
  loop still has to give back (`faltan`) are those of the entry it read. WAIT, SIGNAL and each
  turn of the loop then move one instance between `instancias` and `asignados`, and the sums over
  processes follow from lemmas on the image of a set under a bijection, without recursion.
* `FugaInd` adds to `LugInd` that a holder can still give back (`Tenedores`) and, while
  `finalizar_pcb` goes through the list, that what is behind its index is 0 (`Devueltos`): the
  loop gives back one instance at a time while other threads run, and `Sola` says that it
  gives back all of them.
* `DespInd` adds to NoDespertarPerdido that whoever sleeps has its PC back on the
  WAIT it will make again (`Rebobinados`), and that a WAIT on its way comes from the
  instruction before its PC (`Rebobinable`): without them a woken process might never ask.
  `Repone` covers the middle of a turn, when a process has been woken and its instance is not
  back yet.

* `Inv`. MarcosExactos survives a step of one thread only if the other one is not in
  the same table: `KernelInv` (the thread of the kernel releases the table of a
  process that ended), `CpuInv` (the thread of the CPU resizes that of the process
  in the CPU, which waits), and `CanalInv` (the connection of the CPU has at most one
  question, the last one, so no old RESIZE can start later). `TablasInv` says that a pid without a
  table has no frames. Each thread has a lemma for the control part, each operation of
  memoria one for the frames. Rebrota and Cruza are free in it: only `Matable` is needed.
* `EspacioInd` needs no hypothesis: a RESIZE on its way is of the process in the CPU,
  a size is a natural (`Tamanios`), and the bytes of a process that ended stay taken.
* `MmuInd` adds to `Inv` and `EspacioInd` what the CPU waits for (`Trabajo`: no question, one question or
  one answer) and that the TLB has frames (`TlbInd`), from which the type of an answer follows.
* `CacheCumplida` is a refinement. The queue of the ideal cache is the used entries in the order
  of their times, and the place of an entry is the number of entries not newer than it
  (`Puesto`), so that the proof counts instead of sorting. `CacheInd` adds to `MmuInd` that no
  two entries have the same time, that all times are in the past (`TiemposTlb`) and that a page
  is asked for only while the TLB has not got it (`SinTraducir`). `AlFinal`: writing an entry,
  or touching it under LRU, makes it the newest and changes the order of no other;
  `FilaMueve` is what that does to the queue, and `VictimaPrimera` says that both algorithms
  choose its front.
* `PagInd`. memoria checks `espacio_disponible` in bytes and takes frames in
  pages, so a RESIZE that was accepted could find no frame. It does not when sizes are whole
  pages (`Paginados`, `Multiplos`): then the bytes of the promised pages and what is left are at
  most the memory (`Alcanzan`). `HayMarco` is the counting argument: the taken frames are in
  bijection with pages of the tables, those pages are promised, and the one still to be
  granted is promised and has no frame; so there are fewer taken frames than frames.
  `MatableVivo` keeps the table of the process in the CPU (`ConTabla`), and `Dentro` its
  accesses inside its size. Both hypotheses are lifted in the table of section 3.
* `TamInd` asks nothing of the sizes. A growth adds at least as many pages as its bytes need
  (`CantPaginasAlcanza`), so the pages a process has been promised cover its bytes
  (`Cubiertos`) until it shrinks; `Anotado` and `Reducido` say that whoever shrinks is in
  `redujo` from the moment the CPU orders it.
* `IntInd` is one conjunct per question, for each I/O process. `Camino`: how far it is on its
  way into the list (in the backlog, in `cliente_fd`, in a new thread, between the size read
  and `list_add`, inside); with `DeAUna` one process at a time is on the way (`UnoEnCamino`), which
  is what makes `cliente_fd` and the unprotected `list_add` harmless. `Turno`: either
  its control thread is at rest, or the request it took is in exactly one of three
  places (sent, being done, answered) or was lost with the process; `contador` is the length
  of the queue. `Hallado`: whoever has requests is the first of its name in the list, so the
  answer, which looks the interface up by name again, finds the same one.
* `NumInd` is what numbers add to it: no two processes have the same one, the number an interface
  keeps is that of its own process or of nobody, and while a process is on its way into the list
  no interface has lost its own. The last one needs `Relevo` and `SinHomonimos` (no two
  processes of a name): together they mean that no process starts once another has died. The
  relief by one of the same name is model-checked in `interfaces_pedidos`, and not proved.
* `SerInd` adds that what is in the queues is what the interface does (`Buenos`), and that
  the connection of a WRITE has a name to answer with. `ColasServidas` maps each of the
  actions to a request, a service, an answer or a stutter of `ServicioIdeal`.
* `DiscoInd` adds to MetadatosAlDia that names are not repeated in the list, without which
  a lookup by name could write another file's metadata, and types. It needs no hypothesis: even
  the requests that break blocks (finding 4) leave list and directory saying the same. The
  restart lists every file once (`DirectorioEntero`, counting).
* `BloquesInd` adds that `cantidad_bloques` never exceeds the device. `Cuidado` is needed: a
  file reduced to nothing, one that grows where it is twice, or a compaction after that share or
  lose blocks, which `dialfs_guion` shows with the repository's scripts. The block where compaction
  puts a file is, in the model, the number of blocks of the files before it: `Sucesivos` and
  `LugaresNuevos` show that the new places follow one another, by counting and without induction.
* `AlmacenCumplido` is a refinement. `LoCopiado` is its heart: each byte of the device is
  written by one file at most when the data are put back (`BytesDeUno`, from places without a
  common block), with what was saved from the old place, so every file says what it said.
* `MaquinaCumplida` is a refinement. A journey is a stutter: `PaqueteFiel` shows that
  unpacking what was packed gives the same registers, because the byte that comes
  first in a word is its remainder (`PalabraFiel`). An instruction is a step of its process:
  `SetFiel`, `SumFiel` and `SubFiel` show that the conversions to uint32_t, int and
  uint8_t end in the number modulo the width, because a word is a whole number of
  bytes (`BytePorWord`). The arithmetic rests on five lemmas on `%`.

Only model-checked: liveness (fairness and ENABLED are out of the prover's reach:
EventualmenteTermina, ListoLlegaAlCpu, TodoPedidoVuelve), the refinement
CumpleMemoriaPrivada, and the relief of an interface by another of its name.

## 7. Plan

Done: the five families of section 2, their abstract specifications, runs and the proofs of section 6.
Left, in this order:

1. Theorem: CumpleMemoriaPrivada.
2. The connection of an I/O process to memoria as steps of its own, so that a
   release of frames can fall between two of its accesses.
3. The theorems on Interfaces with a relief by a process of the same name, which breaks their
   numbering of one thread, one entry and one process per member of `Proceso`.

Not modelled on purpose: reading and parsing configuration and pseudocode files, logging,
the byte layout of packets other than the registers (the truncated `puntero` of
`interfaces.c:688` and `701` among it), the list of processes that
option 6 prints, the handshakes of the three servers at start, a crash of a program in the middle of
a DialFS request (nothing in the code recovers from it), and dead code: `interrupcion_quantum`
(`planificadores.c:126-161`), `io_sleep_ready` and `ejecutar_io_sleep` (`interfaces.c`).
