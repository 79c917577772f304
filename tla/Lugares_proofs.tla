--------------------------- MODULE Lugares_proofs ---------------------------
(***************************************************************************)
(* Where every process of a Serial system is: its PCB's state names the    *)
(* one queue, interface or hand that holds it, the free places make up the *)
(* degree of multiprogramming, and every step is one of the five-state     *)
(* diagram; for every number of processes, every set of scripts and        *)
(* resources and every algorithm.                                          *)
(***************************************************************************)
EXTENDS Planificacion_proofs

-----------------------------------------------------------------------------
(* Queues.                                                                 *)

(* list_add puts one element at the end.                                   *)
LEMMA AlFinal ==
  ASSUME NEW S, NEW q \in Seq(S), NEW x \in S
  PROVE  /\ ToSet(Append(q, x)) = ToSet(q) \cup {x}
         /\ IsInjective(q) /\ x \notin ToSet(q) => IsInjective(Append(q, x))
<1> DEFINE n == Len(q)
           s == Append(q, x)
<1>1. /\ n \in Nat /\ DOMAIN q = 1 .. n /\ DOMAIN s = 1 .. n + 1
      /\ s[n + 1] = x /\ \A i \in 1 .. n : s[i] = q[i]
  OBVIOUS
<1> HIDE DEF n, s
<1>2. ToSet(s) = ToSet(q) \cup {x}
  BY <1>1 DEF ToSet
<1>3. ASSUME IsInjective(q), x \notin ToSet(q) PROVE IsInjective(s)
  <2> SUFFICES ASSUME NEW i \in DOMAIN s, NEW j \in DOMAIN s, s[i] = s[j] PROVE i = j
    BY DEF IsInjective
  <2>1. \A k \in 1 .. n : q[k] # x
    BY <1>1, <1>3 DEF ToSet
  <2> QED
    BY <1>1, <1>3, <2>1 DEF IsInjective
<1> QED
  BY <1>2, <1>3 DEF s

(* list_remove(q, 0) takes the first one.                                  *)
LEMMA AlFrente ==
  ASSUME NEW S, NEW q \in Seq(S), q # <<>>
  PROVE  /\ Head(q) \in S /\ Tail(q) \in Seq(S)
         /\ ToSet(q) = ToSet(Tail(q)) \cup {Head(q)}
         /\ IsInjective(q) => IsInjective(Tail(q)) /\ Head(q) \notin ToSet(Tail(q))
<1> DEFINE n == Len(q)
           t == Tail(q)
<1>1. /\ n \in Nat \ {0} /\ DOMAIN q = 1 .. n /\ t \in Seq(S) /\ DOMAIN t = 1 .. n - 1
      /\ Head(q) = q[1] /\ Head(q) \in S
      /\ \A i \in 1 .. n - 1 : t[i] = q[i + 1]
  BY HeadTailProperties, LenProperties, EmptySeq
<1> HIDE DEF n, t
<1>2. \A j \in 1 .. n : j = 1 \/ (j - 1 \in 1 .. n - 1 /\ q[j] = t[j - 1])
  BY <1>1
<1>3. ToSet(q) = ToSet(t) \cup {Head(q)}
  <2>1. ToSet(q) \subseteq ToSet(t) \cup {Head(q)}
    <3> SUFFICES ASSUME NEW j \in 1 .. n, j # 1 PROVE q[j] \in ToSet(t)
      BY <1>1 DEF ToSet
    <3>1. j - 1 \in DOMAIN t /\ q[j] = t[j - 1]
      BY <1>1, <1>2
    <3> QED
      BY <3>1 DEF ToSet
  <2>2. ToSet(t) \cup {Head(q)} \subseteq ToSet(q)
    <3>1. 1 \in DOMAIN q /\ \A i \in 1 .. n - 1 : i + 1 \in DOMAIN q /\ t[i] = q[i + 1]
      BY <1>1
    <3> QED
      BY <1>1, <3>1 DEF ToSet
  <2> QED
    BY <2>1, <2>2
<1>4. ASSUME IsInjective(q) PROVE IsInjective(t) /\ Head(q) \notin ToSet(t)
  <2>1. IsInjective(t)
    <3> SUFFICES ASSUME NEW i \in DOMAIN t, NEW j \in DOMAIN t, t[i] = t[j] PROVE i = j
      BY DEF IsInjective
    <3>1. i + 1 \in DOMAIN q /\ j + 1 \in DOMAIN q /\ q[i + 1] = q[j + 1]
      BY <1>1
    <3>2. i + 1 = j + 1
      BY <1>4, <3>1 DEF IsInjective
    <3> QED
      BY <1>1, <3>2
  <2>2. \A i \in DOMAIN t : t[i] # q[1]
    <3> SUFFICES ASSUME NEW i \in DOMAIN t, t[i] = q[1] PROVE FALSE
      OBVIOUS
    <3>1. 1 \in DOMAIN q /\ i + 1 \in DOMAIN q /\ q[i + 1] = q[1]
      BY <1>1
    <3>2. i + 1 = 1
      BY <1>4, <3>1 DEF IsInjective
    <3> QED
      BY <1>1, <3>2
  <2> QED
    BY <1>1, <2>1, <2>2 DEF ToSet
<1> QED
  BY <1>1, <1>3, <1>4 DEF t

(* list_add_all of one list to another.                                    *)
LEMMA Juntar ==
  ASSUME NEW S, NEW q \in Seq(S), NEW s \in Seq(S)
  PROVE  /\ ToSet(q \o s) = ToSet(q) \cup ToSet(s)
         /\ IsInjective(q) /\ IsInjective(s) /\ ToSet(q) \cap ToSet(s) = {}
              => IsInjective(q \o s)
<1> DEFINE n == Len(q)
           m == Len(s)
           c == q \o s
<1>1. /\ n \in Nat /\ m \in Nat /\ DOMAIN q = 1 .. n /\ DOMAIN s = 1 .. m
      /\ DOMAIN c = 1 .. n + m
      /\ \A i \in 1 .. n + m : c[i] = IF i <= n THEN q[i] ELSE s[i - n]
  BY LenProperties, ConcatProperties
<1> HIDE DEF n, m, c
<1>2. /\ \A i \in 1 .. n : i \in 1 .. n + m /\ c[i] = q[i]
      /\ \A i \in 1 .. m : i + n \in 1 .. n + m /\ c[i + n] = s[i]
      /\ \A i \in 1 .. n + m : i \in 1 .. n \/ i - n \in 1 .. m
  BY <1>1
<1>3. ToSet(c) = ToSet(q) \cup ToSet(s)
  <2>1. ToSet(c) \subseteq ToSet(q) \cup ToSet(s)
    BY <1>1 DEF ToSet
  <2>2. \A i \in 1 .. n : q[i] \in ToSet(c)
    BY <1>1, <1>2 DEF ToSet
  <2>3. \A i \in 1 .. m : s[i] \in ToSet(c)
    <3> SUFFICES ASSUME NEW i \in 1 .. m PROVE s[i] \in ToSet(c)
      OBVIOUS
    <3>1. i + n \in DOMAIN c /\ c[i + n] = s[i]
      BY <1>1, <1>2
    <3> QED
      BY <3>1 DEF ToSet
  <2>4. ToSet(q) \subseteq ToSet(c) /\ ToSet(s) \subseteq ToSet(c)
    BY <1>1, <2>2, <2>3 DEF ToSet
  <2> QED
    BY <2>1, <2>4
<1>4. ASSUME IsInjective(q), IsInjective(s), ToSet(q) \cap ToSet(s) = {}
      PROVE  IsInjective(c)
  <2> SUFFICES ASSUME NEW i \in 1 .. n + m, NEW j \in 1 .. n + m, c[i] = c[j] PROVE i = j
    BY <1>1 DEF IsInjective
  <2>1. \A k \in 1 .. n, l \in 1 .. m : q[k] # s[l]
    BY <1>1, <1>4 DEF ToSet
  <2>2. CASE i <= n /\ j <= n
    <3>1. i \in DOMAIN q /\ j \in DOMAIN q /\ q[i] = q[j]
      BY <1>1, <2>2
    <3> QED
      BY <1>4, <3>1 DEF IsInjective
  <2>3. CASE ~(i <= n) /\ ~(j <= n)
    <3>1. i - n \in 1 .. m /\ j - n \in 1 .. m /\ s[i - n] = s[j - n]
      BY <1>1, <2>3
    <3>2. i - n = j - n
      BY <1>1, <1>4, <3>1 DEF IsInjective
    <3> QED
      BY <1>1, <3>2
  <2>4. ~(i <= n /\ ~(j <= n)) /\ ~(~(i <= n) /\ j <= n)
    BY <1>1, <2>1
  <2> QED
    BY <1>1, <2>2, <2>3, <2>4
<1> QED
  BY <1>3, <1>4 DEF c

(* A queue cut in two.                                                     *)
LEMMA Partir ==
  ASSUME NEW S, NEW q \in Seq(S), NEW k \in 0 .. Len(q)
  PROVE  LET a == SubSeq(q, 1, k)
             b == SubSeq(q, k + 1, Len(q))
         IN  /\ a \in Seq(S) /\ b \in Seq(S) /\ Len(a) = k
             /\ ToSet(q) = ToSet(a) \cup ToSet(b)
             /\ IsInjective(q) => /\ IsInjective(a) /\ IsInjective(b)
                                  /\ ToSet(a) \cap ToSet(b) = {}
<1> DEFINE n == Len(q)
           a == SubSeq(q, 1, k)
           b == SubSeq(q, k + 1, n)
<1>1. n \in Nat /\ DOMAIN q = 1 .. n /\ k \in Nat /\ k <= n
  BY LenProperties
<1>2. \A i \in 1 .. n : q[i] \in S
  BY <1>1, ElementOfSeq
<1>3. a \in Seq(S) /\ Len(a) = k /\ \A i \in 1 .. k : a[i] = q[i]
  BY <1>1, <1>2, SubSeqProperties
<1>4. b \in Seq(S) /\ Len(b) = n - k /\ \A i \in 1 .. n - k : b[i] = q[k + i]
  <2>1. \A i \in k + 1 .. n : q[i] \in S
    BY <1>1, <1>2
  <2>2. k + 1 \in Int /\ n \in Int
    BY <1>1
  <2>3. /\ b \in Seq(S) /\ Len(b) = IF k + 1 <= n THEN n - (k + 1) + 1 ELSE 0
        /\ \A i \in 1 .. n - (k + 1) + 1 : b[i] = q[k + 1 + i - 1]
    BY <2>1, <2>2, SubSeqProperties
  <2>4. n - (k + 1) + 1 = n - k /\ \A i \in 1 .. n - k : k + 1 + i - 1 = k + i
    BY <1>1
  <2>5. Len(b) = n - k
    <3> HIDE DEF n, b
    <3>1. (IF k + 1 <= n THEN n - (k + 1) + 1 ELSE 0) = n - k
      BY <1>1
    <3> QED
      BY <2>3, <3>1
  <2>6. \A i \in 1 .. n - k : b[i] = q[k + i]
    <3> TAKE i \in 1 .. n - k
    <3>1. i \in 1 .. n - (k + 1) + 1
      BY <2>4
    <3>2. b[i] = q[k + 1 + i - 1]
      BY <2>3, <3>1
    <3> QED
      BY <2>4, <3>2
  <2> QED
    BY <2>3, <2>5, <2>6
<1>5. DOMAIN a = 1 .. k /\ DOMAIN b = 1 .. n - k
  BY <1>3, <1>4, LenProperties
<1> HIDE DEF n, a, b
<1>6. ToSet(q) = ToSet(a) \cup ToSet(b)
  <2>1. \A i \in 1 .. n : i \in 1 .. k \/ (i - k \in 1 .. n - k /\ b[i - k] = q[i])
    BY <1>1, <1>4
  <2>2. \A i \in 1 .. n - k : k + i \in 1 .. n
    BY <1>1
  <2>3. ToSet(q) \subseteq ToSet(a) \cup ToSet(b)
    BY <1>1, <1>3, <1>5, <2>1 DEF ToSet
  <2>4. ToSet(a) \subseteq ToSet(q)
    <3>1. \A i \in 1 .. k : i \in DOMAIN q
      BY <1>1
    <3> QED
      BY <1>3, <1>5, <3>1 DEF ToSet
  <2>5. ToSet(b) \subseteq ToSet(q)
    BY <1>1, <1>4, <1>5, <2>2 DEF ToSet
  <2> QED
    BY <2>3, <2>4, <2>5
<1>7. ASSUME IsInjective(q)
      PROVE  IsInjective(a) /\ IsInjective(b) /\ ToSet(a) \cap ToSet(b) = {}
  <2>1. \A i, j \in 1 .. n : q[i] = q[j] => i = j
    BY <1>1, <1>7 DEF IsInjective
  <2>2. IsInjective(a)
    BY <1>1, <1>3, <1>5, <2>1 DEF IsInjective
  <2>3. IsInjective(b)
    BY <1>1, <1>4, <1>5, <2>1 DEF IsInjective
  <2>4. \A i \in 1 .. k, j \in 1 .. n - k : a[i] # b[j]
    BY <1>1, <1>3, <1>4, <2>1
  <2> QED
    BY <1>5, <2>2, <2>3, <2>4 DEF ToSet
<1> QED
  BY <1>3, <1>4, <1>6, <1>7 DEF n, a, b

(* How often an element is in a queue without repetitions.                 *)
LEMMA VecesUna ==
  ASSUME NEW S, NEW q \in Seq(S), IsInjective(q), NEW p
  PROVE  Veces(q, p) = IF p \in ToSet(q) THEN 1 ELSE 0
<1> DEFINE D == {i \in DOMAIN q : q[i] = p}
<1>1. CASE p \in ToSet(q)
  <2>1. PICK i \in DOMAIN q : q[i] = p
    BY <1>1 DEF ToSet
  <2>2. D = {i}
    BY <2>1 DEF IsInjective
  <2> QED
    BY <1>1, <2>2, FS_Singleton DEF Veces
<1>2. CASE p \notin ToSet(q)
  <2>1. D = {}
    BY <1>2 DEF ToSet
  <2> QED
    BY <1>2, <2>1, FS_EmptySet DEF Veces
<1> QED
  BY <1>1, <1>2

(* A queue in increasing order, as processes are created.                  *)
Creciente(q) == \A i, j \in DOMAIN q : i < j => q[i] < q[j]

(* Adding a pid larger than all keeps the queue of NEW in order ...        *)
LEMMA CrecienteFinal ==
  ASSUME NEW q \in Seq(Pid), Creciente(q), NEW x \in Pid, \A p \in ToSet(q) : p < x
  PROVE  Creciente(Append(q, x))
<1> DEFINE n == Len(q)
           s == Append(q, x)
<1>1. /\ n \in Nat /\ DOMAIN q = 1 .. n /\ DOMAIN s = 1 .. n + 1
      /\ s[n + 1] = x /\ \A i \in 1 .. n : s[i] = q[i]
  OBVIOUS
<1> HIDE DEF n, s
<1>2. \A i \in 1 .. n : q[i] < x
  BY <1>1 DEF ToSet
<1>3. Creciente(s)
  BY <1>1, <1>2 DEF Creciente
<1> QED
  BY <1>3 DEF s

(* ... and so does taking the first, which is the smallest.                *)
LEMMA CrecienteFrente ==
  ASSUME NEW q \in Seq(Pid), Creciente(q), q # <<>>
  PROVE  Creciente(Tail(q)) /\ \A p \in ToSet(Tail(q)) : Head(q) < p
<1> DEFINE n == Len(q)
           t == Tail(q)
<1>1. /\ n \in Nat \ {0} /\ DOMAIN q = 1 .. n /\ DOMAIN t = 1 .. n - 1
      /\ Head(q) = q[1]
      /\ \A i \in 1 .. n - 1 : t[i] = q[i + 1]
  BY HeadTailProperties, LenProperties, EmptySeq
<1> HIDE DEF n, t
<1>2. \A i \in 1 .. n - 1 : q[1] < t[i]
  BY <1>1 DEF Creciente
<1>3. Creciente(t)
  <2> SUFFICES ASSUME NEW i \in 1 .. n - 1, NEW j \in 1 .. n - 1, i < j PROVE t[i] < t[j]
    BY <1>1 DEF Creciente
  <2>1. i + 1 \in DOMAIN q /\ j + 1 \in DOMAIN q /\ i + 1 < j + 1
    BY <1>1
  <2>2. q[i + 1] < q[j + 1]
    BY <2>1 DEF Creciente
  <2> QED
    BY <1>1, <2>2
<1> QED
  BY <1>1, <1>2, <1>3 DEF ToSet, t

-----------------------------------------------------------------------------
(* The invariant: one column per place a process can be in.                *)

(* A PCB keeps its pid, and pids are handed out in order.                  *)
Identidad ==
  \A p \in Pid :
    /\ pcb[p].pid = p
    /\ pcb[p].estado = "SIN_CREAR" <=> p >= contador_pcb

LugNew ==
  /\ Creciente(cola_new)
  /\ \A p \in Pid : p \in ToSet(cola_new) <=> pcb[p].estado = "NEW"

LugListo ==
  /\ IsInjective(cola_ready) /\ IsInjective(cola_vrr)
  /\ \A p \in Pid :
       /\ ~(p \in ToSet(cola_ready) /\ p \in ToSet(cola_vrr))
       /\ p \in ToSet(cola_ready) \/ p \in ToSet(cola_vrr) <=> pcb[p].estado = "READY"

(* A waiting process is in one interface or in the queue of one resource.  *)
Bloqueado(p) == \E r \in Recurso : p \in ToSet(bloqueados[r])
LugEspera ==
  /\ \A r \in Recurso : IsInjective(bloqueados[r])
  /\ \A p \in Pid :
       /\ en_io[p] \in {0, 1}
       /\ \A r, s \in Recurso :
            p \in ToSet(bloqueados[r]) /\ p \in ToSet(bloqueados[s]) => r = s
       /\ Bloqueado(p) => en_io[p] = 0
       /\ en_io[p] = 1 \/ Bloqueado(p) <=> pcb[p].estado = "WAITING"

(* The CPU, its channels or the connection thread work for running ...     *)
Ocupado ==
  \/ dispatch # <<>> \/ cpu_estado = "ciclo" \/ respuestas # <<>>
  \/ pc["conexion"] \in {"detenido", "atender"}
(* ... and the connection thread, at times, for the PCB it has kept.       *)
Guardado == pc["conexion"] \in {"liberar", "bloquear"}
ManosDe(p) == (Ocupado /\ running = p) \/ (Guardado /\ fin["conexion"].pcb = p)
LugManos ==
  /\ \A p \in Pid : ManosDe(p) <=> pcb[p].estado = "RUNNING"
  /\ Ocupado /\ Guardado => running # fin["conexion"].pcb

(* Every context under way is the one of running.                          *)
Contextos ==
  /\ \A i \in DOMAIN dispatch : dispatch[i].ctx.pid = running
  /\ cpu_estado # "ocioso" => cpu_pcb.pid = running
  /\ \A i \in DOMAIN respuestas : respuestas[i].ctx.pid = running
  /\ pc["conexion"] = "liberar" => fin["conexion"].pcb = fin["conexion"].pid

Lugares == Identidad /\ LugNew /\ LugListo /\ LugEspera /\ LugManos /\ Contextos
LugInd == ExcInd /\ Lugares /\ CuentaGrado

-----------------------------------------------------------------------------
(* What a step does to the states of the PCBs: those of S go to e.         *)
Mueve(S, e) ==
  \A p \in Pid :
    /\ pcb'[p].estado = IF p \in S THEN e ELSE pcb[p].estado
    /\ pcb'[p].pid = pcb[p].pid

(* A column is kept by a step that leaves its queue alone and moves no     *)
(* process in or out of its state.                                         *)
LEMMA IdentidadQuieta ==
  ASSUME Identidad, UNCHANGED contador_pcb, NEW S, NEW e, Mueve(S, e), e # "SIN_CREAR",
         \A p \in Pid : p \in S => pcb[p].estado # "SIN_CREAR"
  PROVE  Identidad'
  BY DEF Identidad, Mueve

(* The queue of NEW.                                                       *)
LEMMA NewQuieto ==
  ASSUME LugNew, UNCHANGED cola_new, NEW S, NEW e, Mueve(S, e), e # "NEW",
         \A p \in Pid : p \in S => pcb[p].estado # "NEW"
  PROVE  LugNew'
  BY DEF LugNew, Mueve

(* The queues of READY and VRR.                                            *)
LEMMA ListoQuieto ==
  ASSUME LugListo, UNCHANGED <<cola_ready, cola_vrr>>, NEW S, NEW e, Mueve(S, e),
         e # "READY", \A p \in Pid : p \in S => pcb[p].estado # "READY"
  PROVE  LugListo'
  BY DEF LugListo, Mueve

(* The queues of the resources and the interfaces.                         *)
LEMMA EsperaQuieta ==
  ASSUME LugEspera, UNCHANGED <<bloqueados, en_io>>, NEW S, NEW e, Mueve(S, e),
         e # "WAITING", \A p \in Pid : p \in S => pcb[p].estado # "WAITING"
  PROVE  LugEspera'
  BY DEF LugEspera, Mueve, Bloqueado

(* The process in the CPU, or in the connection thread's hands.            *)
LEMMA ManosQuieto ==
  ASSUME LugManos, NEW S, NEW e, Mueve(S, e),
         e # "RUNNING", \A p \in Pid : p \in S => pcb[p].estado # "RUNNING",
         Ocupado' <=> Ocupado, Guardado' <=> Guardado, UNCHANGED running,
         fin'["conexion"].pcb = fin["conexion"].pcb \/ ~Guardado
  PROVE  LugManos'
<1>1. \A p : ManosDe(p)' <=> ManosDe(p)
  BY DEF ManosDe
<1>2. (Ocupado /\ Guardado => running # fin["conexion"].pcb)'
  BY DEF LugManos
<1> QED
  BY <1>1, <1>2 DEF LugManos, Mueve

(* The contexts under way while running and the channels stay.             *)
LEMMA ContextosQuietos ==
  ASSUME Contextos, UNCHANGED <<dispatch, respuestas, cpu_pcb, cpu_estado, running>>,
         pc'["conexion"] = "liberar" =>
           pc["conexion"] = "liberar" /\ fin'["conexion"].pcb = fin["conexion"].pcb
           /\ fin'["conexion"].pid = fin["conexion"].pid
  PROVE  Contextos'
  BY DEF Contextos

(* Nobody moves when the PCBs stay.                                        *)
LEMMA NadieSeMueve == pcb' = pcb => \A e : Mueve({}, e)
  BY DEF Mueve

-----------------------------------------------------------------------------
(* The degree of multiprogramming.                                         *)
Admitido == {p \in Pid : pcb[p].estado \in {"READY", "RUNNING", "WAITING"}}

(* How many are admitted is a natural number.                              *)
LEMMA AdmitidosTipo == IsFiniteSet(Admitido) /\ Admitidos = Cardinality(Admitido) /\ Admitidos \in Nat
<1>1. IsFiniteSet(Pid)
  <2>1. 0 \in Int /\ NProcesos - 1 \in Int
    BY NProcesosAssumption
  <2> QED
    BY <2>1, FS_Interval DEF Pid
<1>2. Admitido \in SUBSET Pid
  BY DEF Admitido
<1>3. IsFiniteSet(Admitido)
  BY <1>1, <1>2, FS_Subset
<1> QED
  BY <1>3, FS_CardinalityType DEF Admitido, Admitidos

(* Admitted processes that change state stay admitted ...                  *)
LEMMA AdmitidosQuietos ==
  ASSUME NEW S, NEW e, Mueve(S, e), e \in {"READY", "RUNNING", "WAITING"},
         \A p \in Pid : p \in S => p \in Admitido
  PROVE  Admitido' = Admitido /\ Admitidos' = Admitidos
<1>1. Admitido' = Admitido
  BY DEF Admitido, Mueve
<1> QED
  BY <1>1 DEF Admitido, Admitidos

(* ... and one that is admitted, or ends, changes their number by one.     *)
LEMMA AdmitidosMas ==
  ASSUME NEW p \in Pid, Mueve({p}, "READY"), p \notin Admitido
  PROVE  Admitidos' = Admitidos + 1
<1>1. Admitido' = Admitido \cup {p}
  BY DEF Admitido, Mueve
<1>2. Cardinality(Admitido \cup {p}) = Cardinality(Admitido) + 1
  BY AdmitidosTipo, FS_AddElement
<1>3. Admitidos' = Cardinality(Admitido')
  BY DEF Admitidos, Admitido
<1> QED
  BY <1>1, <1>2, <1>3, AdmitidosTipo

(* The end of an admitted process takes one from their number.             *)
LEMMA AdmitidosMenos ==
  ASSUME NEW p \in Pid, Mueve({p}, "TERMINATED"), p \in Admitido
  PROVE  Admitidos' = Admitidos - 1
<1>1. Admitido' = Admitido \ {p}
  BY DEF Admitido, Mueve
<1>2. Cardinality(Admitido \ {p}) = Cardinality(Admitido) - 1
  BY AdmitidosTipo, FS_RemoveElement
<1>3. Admitidos' = Cardinality(Admitido')
  BY DEF Admitidos, Admitido
<1> QED
  BY <1>1, <1>2, <1>3, AdmitidosTipo

(* The count is kept while places, degree and planner stay.                *)
LEMMA GradoQuieto ==
  ASSUME CuentaGrado, Admitidos' = Admitidos, UNCHANGED <<sem_grado, grado>>,
         pc'["largo"] = pc["largo"]
  PROVE  CuentaGrado'
  BY DEF CuentaGrado

-----------------------------------------------------------------------------
(* The five-state diagram, as EstadoVisible shows it.                      *)
PasoDiagrama == [Abstracto!Next]_<<EstadoVisible, grado>>

(* The connection thread has unlocked the CPU and not written WAITING yet. *)
Oculto(p) == pc["conexion"] = "bloquear" /\ fin["conexion"].pcb = p

(* Moving processes in the PCBs moves them in the diagram.                 *)
LEMMA VisibleMueve ==
  ASSUME NEW S, NEW e, Mueve(S, e), \A p \in Pid : Oculto(p)' <=> Oculto(p),
         \A p \in Pid : p \in S => ~Oculto(p)
  PROVE  /\ Abstracto!Pasar(S, e)
         /\ S = {} => EstadoVisible' = EstadoVisible
  BY DEF Mueve, Oculto, EstadoVisible, Abstracto!Pasar

(* A state of the diagram, but RUNNING and WAITING, is that of the PCB.    *)
LEMMA VisibleEs ==
  ASSUME LugManos, NEW p \in Pid
  PROVE  /\ \A e \in {"SIN_CREAR", "NEW", "READY"} :
              EstadoVisible[p] = e <=> pcb[p].estado = e
         /\ EstadoVisible[p] = "RUNNING" <=> pcb[p].estado = "RUNNING" /\ ~Oculto(p)
         /\ pcb[p].estado = "WAITING" => EstadoVisible[p] = "WAITING"
<1>1. Oculto(p) => pcb[p].estado = "RUNNING"
  BY DEF Oculto, LugManos, ManosDe, Guardado
<1> QED
  BY <1>1 DEF EstadoVisible, Oculto

(* The diagram's Cardinality is the library's.                             *)
LEMMA MismoCardinal == \A S : Abstracto!Cardinality(S) = Cardinality(S)
  BY DEF Cardinality, Abstracto!Cardinality

(* Both count the same processes as admitted.                              *)
LEMMA VisibleAdmitidos ==
  ASSUME LugManos
  PROVE  Abstracto!Cardinality(Abstracto!Admitido) = Admitidos
<1>1. \A p \in Pid : Oculto(p) => pcb[p].estado = "RUNNING"
  BY DEF Oculto, LugManos, ManosDe, Guardado
<1>2. Abstracto!Admitido = Admitido
  BY <1>1 DEF Abstracto!Admitido, Abstracto!Con, EstadoVisible, Oculto, Admitido
<1> QED
  BY <1>2, AdmitidosTipo, MismoCardinal

-----------------------------------------------------------------------------
(* A step that moves no process: it keeps the columns, and the diagram     *)
(* sees at most a change of the degree.                                    *)
LEMMA Inmovil ==
  ASSUME LugInd, TypeOK', Mueve({}, "READY"),
         UNCHANGED <<colas, bloqueados, contador_pcb>>,
         LugManos', Contextos', CuentaGrado',
         \A p \in Pid : Oculto(p)' <=> Oculto(p)
  PROVE  Lugares' /\ CuentaGrado' /\ PasoDiagrama
<1>1. Identidad /\ LugNew /\ LugListo /\ LugEspera /\ LugManos
  BY DEF LugInd, Lugares
<1>2. UNCHANGED <<cola_new, cola_ready, cola_vrr, en_io, bloqueados, contador_pcb>>
  BY DEF colas
<1>3. Mueve({}, "SIN_CREAR") /\ Mueve({}, "TERMINATED")
  BY DEF Mueve
<1>4. Identidad' /\ LugNew' /\ LugListo' /\ LugEspera'
  BY <1>1, <1>2, <1>3, IdentidadQuieta, NewQuieto, ListoQuieto, EsperaQuieta
<1>5. EstadoVisible' = EstadoVisible
  BY VisibleMueve
<1>6. Admitidos' = Admitidos
  BY AdmitidosQuietos
<1>7. grado' \in Nat /\ sem_grado' \in Nat
  BY DEF TypeOK
<1>8. grado' >= Admitidos
  BY <1>6, <1>7, AdmitidosTipo DEF CuentaGrado
<1>9. Abstracto!CambiarLimite
  BY <1>1, <1>5, <1>7, <1>8, VisibleAdmitidos DEF Abstracto!CambiarLimite
<1> QED
  BY <1>4, <1>9 DEF Lugares, PasoDiagrama, Abstracto!Next

(* The same, when nobody gains or loses a PCB.                             *)
LEMMA Quieto ==
  ASSUME LugInd, TypeOK', Mueve({}, "READY"),
         UNCHANGED <<colas, bloqueados, contador_pcb, running>>,
         Contextos', CuentaGrado',
         Ocupado' <=> Ocupado, Guardado' <=> Guardado,
         pc'["conexion"] = "bloquear" <=> pc["conexion"] = "bloquear",
         fin'["conexion"].pcb = fin["conexion"].pcb \/ ~Guardado
  PROVE  Lugares' /\ CuentaGrado' /\ PasoDiagrama
<1>1. LugManos
  BY DEF LugInd, Lugares
<1>2. LugManos'
  BY <1>1, ManosQuieto
<1>3. \A p \in Pid : Oculto(p)' <=> Oculto(p)
  BY DEF Oculto, Guardado
<1> QED
  BY <1>2, <1>3, Inmovil

(* The same, far from the CPU and the connection thread.                   *)
LEMMA LejosDelCpu ==
  ASSUME LugInd, TypeOK', CuentaGrado',
         UNCHANGED <<pcb, colas, bloqueados, contador_pcb, running, dispatch, respuestas,
                     cpu_pcb, cpu_estado, fin>>,
         pc'["conexion"] = pc["conexion"]
  PROVE  Lugares' /\ CuentaGrado' /\ PasoDiagrama
<1>1. Contextos'
  BY ContextosQuietos DEF LugInd, Lugares
<1>2. (Ocupado' <=> Ocupado) /\ (Guardado' <=> Guardado)
  BY DEF Ocupado, Guardado
<1> QED
  BY <1>1, <1>2, NadieSeMueve, Quieto

(* The PCB, pid or state, that one field's write changes.                  *)
LEMMA MueveUno ==
  ASSUME pcb \in [Pid -> Pcb], NEW p \in Pid, NEW e
  PROVE  /\ pcb' = [pcb EXCEPT ![p].estado = e] => Mueve({p}, e)
         /\ \A x : pcb' = [pcb EXCEPT ![p].estado = e, ![p].pc = x] => Mueve({p}, e)
         /\ \A x : pcb' = [pcb EXCEPT ![p].estado = e, ![p].resto = x] => Mueve({p}, e)
<1>1. \A q \in Pid : pcb[q] \in Pcb
  OBVIOUS
<1> QED
  BY <1>1 DEF Mueve, Pcb

(* iniciar_proceso: the next pid, the greatest so far, goes to NEW.        *)
LEMMA LugInicia ==
  ASSUME LugInd, TypeOK', IniciarProceso
  PROVE  Lugares' /\ CuentaGrado' /\ PasoDiagrama
<1> DEFINE n == contador_pcb
<1>1. /\ Identidad /\ LugNew /\ LugListo /\ LugEspera /\ LugManos /\ Contextos
      /\ CuentaGrado /\ TypeOK
  BY DEF LugInd, Lugares, ExcInd, TipoInd
<1>2. /\ n \in Pid /\ cola_new \in Seq(Pid) /\ pc \in [Hilo -> Punto] /\ pcb \in [Pid -> Pcb]
      /\ Pid \subseteq Nat /\ n \in Nat
  BY <1>1, NProcesosAssumption, PidCero DEF IniciarProceso, TypeOK, Pid
<1>3. /\ contador_pcb' = n + 1 /\ cola_new' = Append(cola_new, n)
      /\ pcb' = [pcb EXCEPT ![n].estado = "NEW"]
      /\ UNCHANGED <<dispatch, respuestas, cpu_pcb, cpu_estado, cola_ready, cola_vrr, en_io,
                     bloqueados, running, fin, sem_grado, grado>>
      /\ \A h \in {"largo", "conexion"} : pc'[h] = pc[h]
  BY <1>2 DEF IniciarProceso, AgregarNew, recursosVars, cicloVars, Ir, Hilo
<1>4. Mueve({n}, "NEW")
  BY <1>2, <1>3, MueveUno
<1>5. /\ pcb[n].estado = "SIN_CREAR"
      /\ \A p \in Pid : pcb[p].estado = "NEW" => p < n
  BY <1>1, <1>2 DEF Identidad
<1>6. Identidad'
  BY <1>1, <1>2, <1>3, <1>4 DEF Identidad, Mueve
<1>7. LugNew'
  <2>1. \A p \in ToSet(cola_new) : p \in Pid
    BY <1>2, LenProperties DEF ToSet
  <2>2. n \notin ToSet(cola_new) /\ \A p \in ToSet(cola_new) : p < n
    BY <1>1, <1>2, <1>5, <2>1 DEF LugNew
  <2>3. Creciente(cola_new') /\ ToSet(cola_new') = ToSet(cola_new) \cup {n}
    BY <1>1, <1>2, <1>3, <2>2, AlFinal, CrecienteFinal DEF LugNew
  <2> QED
    BY <1>1, <1>4, <2>3 DEF LugNew, Mueve
<1>8. LugListo' /\ LugEspera'
  BY <1>1, <1>3, <1>4, <1>5, ListoQuieto, EsperaQuieta
<1>9. (Ocupado' <=> Ocupado) /\ (Guardado' <=> Guardado)
  BY <1>3 DEF Ocupado, Guardado
<1>10. LugManos' /\ Contextos'
  BY <1>1, <1>3, <1>4, <1>5, <1>9, ManosQuieto, ContextosQuietos
<1>11. CuentaGrado'
  <2>1. Admitido' = Admitido
    BY <1>4, <1>5 DEF Admitido, Mueve
  <2>2. Admitidos' = Admitidos
    BY <2>1 DEF Admitido, Admitidos
  <2> QED
    BY <1>1, <1>3, <2>2, GradoQuieto
<1>12. Abstracto!Crear(n)
  <2>1. \A p \in Pid : (Oculto(p)' <=> Oculto(p)) /\ (Oculto(p) => pcb[p].estado = "RUNNING")
    BY <1>1, <1>3 DEF Oculto, LugManos, ManosDe, Guardado
  <2>2. Abstracto!Pasar({n}, "NEW")
    BY <1>4, <1>5, <2>1, VisibleMueve
  <2>3. \A p \in Pid : EstadoVisible[p] = "SIN_CREAR" <=> p >= n
    BY <1>1, VisibleEs DEF Identidad
  <2> QED
    BY <1>2, <2>2, <2>3 DEF Abstracto!Crear, Abstracto!Con
<1> QED
  BY <1>1, <1>2, <1>3, <1>6, <1>7, <1>8, <1>10, <1>11, <1>12
  DEF Lugares, PasoDiagrama, Abstracto!Next

(* The console.                                                            *)
LEMMA LugConsola ==
  ASSUME Serial, LugInd, TypeOK', Menu \/ PasoConsola
  PROVE  Lugares' /\ CuentaGrado' /\ PasoDiagrama
<1>1. TypeOK /\ CuentaGrado /\ pc["consola"] \in {"menu", "arranque", "bajar"}
  BY DEF LugInd, ExcInd, TipoInd, Reglas, Arranque
<1>2. /\ pc \in [Hilo -> Punto] /\ grado \in Nat /\ sem_grado \in Nat /\ Grados \subseteq Nat
      /\ Admitidos \in Nat
  BY <1>1, AdmitidosTipo, ConfiguracionAssumption DEF TypeOK
<1>3. ~EliminarPcb /\ ~LiberarRecurso("consola") /\ ~TerminarProceso("consola")
  BY <1>1
  DEF Serial, EliminarPcb, LiberarRecurso, MirarRecurso, DespertarUno, DevolverUna, EnVuelta,
      TerminarProceso
<1>4. CASE IniciarProceso
  BY <1>4, LugInicia
<1>5. CASE ~IniciarProceso
  <2>1. UNCHANGED <<pcb, colas, bloqueados, contador_pcb, running, dispatch, respuestas,
                    cpu_pcb, cpu_estado, fin>>
    BY <1>3, <1>5
    DEF Menu, PasoConsola, DetenerPlanificacion, IniciarPlanificacion, CambiarGrado,
        ConsolaArranque, BajarGrado, recursosVars, cicloVars
  <2>2. pc' = pc \/ \E x : Ir("consola", x)
    BY <1>3, <1>5
    DEF Menu, PasoConsola, DetenerPlanificacion, IniciarPlanificacion, CambiarGrado,
        ConsolaArranque, BajarGrado
  <2>3. pc'["conexion"] = pc["conexion"] /\ pc'["largo"] = pc["largo"]
    BY <1>2, <2>2 DEF Ir, Hilo
  <2>4. PICK x \in Int : sem_grado' = sem_grado + x /\ grado' = grado + x
    <3>1. CASE DetenerPlanificacion \/ IniciarPlanificacion \/ ConsolaArranque
      <4>1. sem_grado' = sem_grado + 0 /\ grado' = grado + 0
        BY <1>2, <3>1 DEF DetenerPlanificacion, IniciarPlanificacion, ConsolaArranque, semaforos
      <4> QED
        BY <4>1
    <3>2. CASE CambiarGrado
      <4>1. CASE UNCHANGED <<sem_grado, grado>>
        <5>1. sem_grado' = sem_grado + 0 /\ grado' = grado + 0
          BY <1>2, <4>1
        <5> QED
          BY <5>1
      <4>2. CASE ~UNCHANGED <<sem_grado, grado>>
        <5>1. PICK nuevo \in Grados : SubirGrado(nuevo)
          BY <3>2, <4>2 DEF CambiarGrado
        <5>2. nuevo \in Nat /\ nuevo - grado \in Int /\ nuevo = grado + (nuevo - grado)
          BY <1>2
        <5> QED
          BY <5>1, <5>2 DEF SubirGrado
      <4> QED
        BY <4>1, <4>2
    <3>3. CASE BajarGrado
      <4>1. \/ sem_grado' = sem_grado + (-1) /\ grado' = grado + (-1)
            \/ sem_grado' = sem_grado + 0 /\ grado' = grado + 0
        BY <1>2, <3>3 DEF BajarGrado, TomarLugar
      <4> QED
        BY <4>1
    <3> QED
      BY <1>3, <1>5, <3>1, <3>2, <3>3 DEF Menu, PasoConsola
  <2>5. CuentaGrado'
    <3>1. Admitidos' = Admitidos
      BY <2>1 DEF Admitidos
    <3>2. PICK k \in Nat : /\ k = IF pc["largo"] \in {"detenido", "pasar"} THEN 1 ELSE 0
                          /\ sem_grado + Admitidos + k = grado
      BY <1>1 DEF CuentaGrado
    <3>3. sem_grado' + Admitidos + k = grado'
      BY <1>2, <2>4, <3>2
    <3> QED
      BY <2>3, <3>1, <3>2, <3>3 DEF CuentaGrado
  <2> QED
    BY <2>1, <2>3, <2>5, LejosDelCpu
<1> QED
  BY <1>4, <1>5

-----------------------------------------------------------------------------
(* agregar_cola_ready, for the PCBs of s: they go to READY, at its end.    *)
LEMMA MueveReady ==
  ASSUME NEW f \in [Pid -> Pcb], NEW s, AgregarReady(f, s),
         \A p \in Pid : f[p].estado = pcb[p].estado /\ f[p].pid = pcb[p].pid
  PROVE  Mueve(ToSet(s), "READY")
<1>1. \A p \in Pid : f[p] \in Pcb
  OBVIOUS
<1>2. \A p \in Pid : pcb'[p] = IF p \in ToSet(s) THEN [f[p] EXCEPT !.estado = "READY"] ELSE f[p]
  BY DEF AgregarReady
<1> HIDE DEF AgregarReady
<1> QED
  BY <1>1, <1>2 DEF Mueve, Pcb

(* Appending processes to READY with the state READY.                      *)
LEMMA ListoAgrega ==
  ASSUME TypeOK, LugListo, NEW s \in Seq(Pid), IsInjective(s), Mueve(ToSet(s), "READY"),
         \A p \in Pid : p \in ToSet(s) => pcb[p].estado # "READY",
         cola_ready' = cola_ready \o s, UNCHANGED cola_vrr
  PROVE  LugListo'
<1>1. cola_ready \in Seq(Pid)
  BY DEF TypeOK
<1>2. ToSet(cola_ready) \subseteq Pid
  BY <1>1, LenProperties DEF ToSet
<1>3. ToSet(cola_ready) \cap ToSet(s) = {}
  BY <1>2 DEF LugListo
<1>4. ToSet(cola_ready') = ToSet(cola_ready) \cup ToSet(s) /\ IsInjective(cola_ready')
  BY <1>1, <1>3, Juntar DEF LugListo
<1> QED
  BY <1>4 DEF LugListo, Mueve

(* A queue of one.                                                         *)
LEMMA UnoSolo ==
  ASSUME NEW p \in Pid
  PROVE  <<p>> \in Seq(Pid) /\ ToSet(<<p>>) = {p} /\ IsInjective(<<p>>) /\ Len(<<p>>) = 1
  BY DEF ToSet, IsInjective

(* planificador_largo_plazo: the oldest process of NEW goes to READY, in   *)
(* the place the thread took for it.                                       *)
LEMMA LugPasa ==
  ASSUME LugInd, TypeOK', LargoPasa, cola_new # <<>>
  PROVE  Lugares' /\ CuentaGrado' /\ PasoDiagrama
<1> DEFINE n == Head(cola_new)
<1>1. /\ Identidad /\ LugNew /\ LugListo /\ LugEspera /\ LugManos /\ Contextos
      /\ CuentaGrado /\ TypeOK
  BY DEF LugInd, Lugares, ExcInd, TipoInd
<1>2. /\ cola_new \in Seq(Pid) /\ pc \in [Hilo -> Punto] /\ pcb \in [Pid -> Pcb]
      /\ cola_ready \in Seq(Pid)
  BY <1>1 DEF TypeOK
<1>3. /\ n \in Pid /\ n \in ToSet(cola_new) /\ ToSet(cola_new) = ToSet(Tail(cola_new)) \cup {n}
      /\ Creciente(Tail(cola_new)) /\ \A p \in ToSet(Tail(cola_new)) : n < p
      /\ Pid \subseteq Nat
  BY <1>1, <1>2, AlFrente, CrecienteFrente, PidCero DEF LugNew
<1>4. /\ cola_new' = Tail(cola_new) /\ AgregarReady(pcb, <<n>>)
      /\ UNCHANGED <<dispatch, respuestas, cpu_pcb, cpu_estado, cola_vrr, en_io,
                     bloqueados, running, fin, sem_grado, grado, contador_pcb>>
      /\ pc["largo"] = "pasar" /\ pc'["largo"] = "new" /\ pc'["conexion"] = pc["conexion"]
  BY <1>2 DEF LargoPasa, recursosVars, cicloVars, consolaVars, Ir, Hilo
<1>5. Mueve({n}, "READY")
  BY <1>2, <1>3, <1>4, MueveReady, UnoSolo
<1>6. pcb[n].estado = "NEW"
  BY <1>1, <1>3 DEF LugNew
<1>7. LugNew'
  <2>1. n \notin ToSet(cola_new')
    <3>1. n \in Nat
      BY <1>3
    <3>2. ~(n < n)
      BY <3>1
    <3> QED
      BY <1>3, <1>4, <3>2
  <2> QED
    BY <1>1, <1>3, <1>4, <1>5, <2>1 DEF LugNew, Mueve
<1>8. LugListo'
  <2>1. cola_ready' = cola_ready \o <<n>> /\ <<n>> \in Seq(Pid) /\ ToSet(<<n>>) = {n}
        /\ IsInjective(<<n>>)
    BY <1>3, <1>4, UnoSolo DEF AgregarReady
  <2> QED
    BY <1>1, <1>4, <1>5, <1>6, <2>1, ListoAgrega
<1>9. Identidad' /\ LugEspera'
  BY <1>1, <1>4, <1>5, <1>6, IdentidadQuieta, EsperaQuieta
<1>10. (Ocupado' <=> Ocupado) /\ (Guardado' <=> Guardado)
  BY <1>4 DEF Ocupado, Guardado
<1>11. LugManos' /\ Contextos'
  BY <1>1, <1>4, <1>5, <1>6, <1>10, ManosQuieto, ContextosQuietos
<1>12. sem_grado + Admitidos + 1 = grado /\ Admitidos \in Nat /\ sem_grado \in Nat
       /\ grado \in Nat
  BY <1>1, <1>4, AdmitidosTipo DEF CuentaGrado, TypeOK
<1>13. CuentaGrado'
  <2>1. Admitidos' = Admitidos + 1
    BY <1>3, <1>5, <1>6, AdmitidosMas DEF Admitido
  <2>2. sem_grado + (Admitidos + 1) + 0 = grado
    BY <1>12
  <2> QED
    BY <1>4, <2>1, <2>2 DEF CuentaGrado
<1>14. Abstracto!Admitir(n)
  <2>1. \A p \in Pid : (Oculto(p)' <=> Oculto(p)) /\ (Oculto(p) => pcb[p].estado = "RUNNING")
    BY <1>1, <1>4 DEF Oculto, LugManos, ManosDe, Guardado
  <2>2. Abstracto!Pasar({n}, "READY")
    BY <1>5, <1>6, <2>1, VisibleMueve
  <2>3. EstadoVisible[n] = "NEW"
        /\ \A p \in Pid : EstadoVisible[p] = "NEW" => n <= p
    <3>1. n \in Nat /\ n <= n /\ \A p \in Pid : n < p => n <= p
      <4>1. n \in Nat /\ \A p \in Pid : p \in Nat
        BY <1>3
      <4> HIDE DEF n
      <4> QED
        BY <4>1
    <3>2. \A p \in Pid : EstadoVisible[p] = "NEW" <=> p \in ToSet(Tail(cola_new)) \cup {n}
      BY <1>1, <1>3, VisibleEs DEF LugNew
    <3>3. ASSUME NEW p \in Pid, EstadoVisible[p] = "NEW" PROVE n <= p
      <4>1. CASE p = n
        BY <3>1, <4>1
      <4>2. CASE p \in ToSet(Tail(cola_new))
        BY <1>3, <3>1, <4>2
      <4> QED
        BY <3>2, <3>3, <4>1, <4>2
    <3> QED
      BY <1>1, <1>3, <1>6, <3>3, VisibleEs
  <2>4. Abstracto!Cardinality(Abstracto!Admitido) < grado
    BY <1>1, <1>12, VisibleAdmitidos
  <2> QED
    BY <1>3, <2>2, <2>3, <2>4 DEF Abstracto!Admitir, Abstracto!Con
<1> QED
  BY <1>1, <1>3, <1>4, <1>7, <1>8, <1>9, <1>11, <1>13, <1>14
  DEF Lugares, PasoDiagrama, Abstracto!Next

(* Every step of the long term planner (planificadores.c:59).              *)
LEMMA LugLargo ==
  ASSUME LugInd, TypeOK', PasoLargo
  PROVE  Lugares' /\ CuentaGrado' /\ PasoDiagrama
<1>1. CASE LargoPasa /\ cola_new # <<>>
  BY <1>1, LugPasa
<1>2. CASE ~(LargoPasa /\ cola_new # <<>>)
  <2>1. TypeOK /\ CuentaGrado /\ pc \in [Hilo -> Punto] /\ sem_grado \in Nat
    BY DEF LugInd, ExcInd, TipoInd, TypeOK
  <2>2. UNCHANGED <<pcb, colas, bloqueados, contador_pcb, running, dispatch, respuestas,
                    cpu_pcb, cpu_estado, fin, grado>>
    BY <1>2
    DEF PasoLargo, LargoEspera, LargoDetenido, LargoPasa, recursosVars, cicloVars,
        consolaVars, colas
  <2>3. pc' = pc \/ \E x : Ir("largo", x)
    BY DEF PasoLargo, LargoEspera, LargoDetenido, LargoPasa
  <2>4. pc'["conexion"] = pc["conexion"]
    BY <2>1, <2>3 DEF Ir, Hilo
  <2>5. Admitidos' = Admitidos /\ Admitidos \in Nat
    BY <2>2, AdmitidosTipo DEF Admitidos
  <2>6. CuentaGrado'
    <3>1. CASE LargoEspera
      <4>1. CASE pc["largo"] = "new"
        <5>1. UNCHANGED sem_grado /\ pc'["largo"] = "grado"
          BY <2>1, <3>1, <4>1 DEF LargoEspera, Ir, Hilo
        <5> QED
          BY <2>1, <2>2, <2>5, <4>1, <5>1 DEF CuentaGrado
      <4>2. CASE pc["largo"] = "grado"
        <5>1. sem_grado' = sem_grado - 1 /\ pc'["largo"] \in {"detenido", "pasar"}
          BY <2>1, <3>1, <4>2 DEF LargoEspera, TomarLugar, Ir, Hilo
        <5>2. sem_grado + Admitidos + 0 = grado
          BY <2>1, <4>2 DEF CuentaGrado
        <5>3. sem_grado' + Admitidos + 1 = grado
          BY <2>1, <2>5, <5>1, <5>2
        <5> QED
          BY <2>2, <2>5, <5>1, <5>3 DEF CuentaGrado
      <4> QED
        BY <3>1, <4>1, <4>2 DEF LargoEspera
    <3>2. CASE LargoDetenido
      <4>1. /\ UNCHANGED sem_grado /\ pc["largo"] = "detenido" /\ pc'["largo"] = "pasar"
        BY <2>1, <3>2 DEF LargoDetenido, semaforos, Ir, Hilo
      <4> QED
        BY <2>1, <2>2, <2>5, <4>1 DEF CuentaGrado
    <3>3. CASE LargoPasa
      <4>1. UNCHANGED <<sem_grado, pc>>
        BY <1>2, <3>3 DEF LargoPasa
      <4> QED
        BY <2>1, <2>2, <2>5, <4>1 DEF CuentaGrado
    <3> QED
      BY <3>1, <3>2, <3>3 DEF PasoLargo
  <2> QED
    BY <2>2, <2>4, <2>6, LejosDelCpu
<1> QED
  BY <1>1, <1>2

-----------------------------------------------------------------------------
(* planificador_corto_plazo: a process leaves the front of its queue for   *)
(* the CPU, which nobody has.                                              *)
LEMMA LugDespacha ==
  ASSUME LugInd, TypeOK', CortoDespacha, ~DespachaNulo
  PROVE  Lugares' /\ CuentaGrado' /\ PasoDiagrama
<1>1. /\ Identidad /\ LugNew /\ LugListo /\ LugEspera /\ LugManos /\ Contextos
      /\ CuentaGrado /\ TypeOK /\ CicloConContexto
  BY DEF LugInd, Lugares, ExcInd, TipoInd
<1>2. /\ cola_vrr \in Seq(Pid) /\ pc \in [Hilo -> Punto] /\ pcb \in [Pid -> Pcb]
      /\ cola_ready \in Seq(Pid) /\ cpu_estado \in {"ocioso", "recibiendo", "ciclo"}
  BY <1>1 DEF TypeOK, CicloTypeOK
<1>3. PICK n : /\ EnviarPorDispatch(n)
               /\ \/ cola_vrr # <<>> /\ n = Head(cola_vrr) /\ cola_vrr' = Tail(cola_vrr)
                     /\ UNCHANGED cola_ready
                  \/ cola_ready # <<>> /\ n = Head(cola_ready) /\ cola_ready' = Tail(cola_ready)
                     /\ UNCHANGED cola_vrr
  BY DEF CortoDespacha, DespachaVrr, DespachaReady
<1>4. /\ n \in Pid /\ IsInjective(cola_ready') /\ IsInjective(cola_vrr')
      /\ pcb[n].estado = "READY"
      /\ n \notin ToSet(cola_ready') /\ n \notin ToSet(cola_vrr')
      /\ ToSet(cola_ready) \cup ToSet(cola_vrr) = ToSet(cola_ready') \cup ToSet(cola_vrr') \cup {n}
      /\ ToSet(cola_ready') \subseteq ToSet(cola_ready)
      /\ ToSet(cola_vrr') \subseteq ToSet(cola_vrr)
  <2>1. CASE cola_vrr # <<>> /\ n = Head(cola_vrr) /\ cola_vrr' = Tail(cola_vrr)
             /\ UNCHANGED cola_ready
    <3>1. /\ n \in Pid /\ ToSet(cola_vrr) = ToSet(cola_vrr') \cup {n}
          /\ IsInjective(cola_vrr') /\ n \notin ToSet(cola_vrr')
      BY <1>1, <1>2, <2>1, AlFrente DEF LugListo
    <3> QED
      BY <1>1, <2>1, <3>1 DEF LugListo
  <2>2. CASE cola_ready # <<>> /\ n = Head(cola_ready) /\ cola_ready' = Tail(cola_ready)
             /\ UNCHANGED cola_vrr
    <3>1. /\ n \in Pid /\ ToSet(cola_ready) = ToSet(cola_ready') \cup {n}
          /\ IsInjective(cola_ready') /\ n \notin ToSet(cola_ready')
      BY <1>1, <1>2, <2>2, AlFrente DEF LugListo
    <3> QED
      BY <1>1, <2>2, <3>1 DEF LugListo
  <2> QED
    BY <1>3, <2>1, <2>2
<1>5. /\ pcb' = [pcb EXCEPT ![n].estado = "RUNNING"] /\ running' = n
      /\ EnviarPcb(n, ConQuantum)
      /\ UNCHANGED <<respuestas, cpu_pcb, cpu_estado, cola_new, en_io, bloqueados, fin,
                     sem_grado, grado, contador_pcb>>
      /\ pc["corto"] = "despachar"
      /\ \A h \in {"largo", "conexion"} : pc'[h] = pc[h]
  BY <1>2, <1>3 DEF CortoDespacha, EnviarPorDispatch, recursosVars, cpuVars, semaforos,
                    consolaVars, Ir, Hilo
<1>6. Mueve({n}, "RUNNING")
  BY <1>2, <1>4, <1>5, MueveUno
<1>7. /\ dispatch = <<>> /\ respuestas = <<>> /\ cpu_estado = "ocioso"
      /\ pc["conexion"] \notin {"detenido", "atender", "liberar"}
  <2> PICK d \in Dueno : Manos(d)
    BY DEF LugInd, ExcInd
  <2>1. d = "corto"
    BY <1>5 DEF Manos
  <2> QED
    BY <1>1, <1>2, <2>1 DEF Manos, CicloConContexto
<1>8. ~Ocupado /\ (Guardado' <=> Guardado) /\ (Guardado => pc["conexion"] = "bloquear")
  BY <1>5, <1>7 DEF Ocupado, Guardado
<1>9. /\ dispatch' # <<>>
      /\ \A i \in DOMAIN dispatch' : dispatch'[i].ctx.pid = n
  BY <1>1, <1>4, <1>5, <1>7 DEF EnviarPcb, Identidad
<1>10. Ocupado'
  BY <1>9 DEF Ocupado
<1>11. Identidad' /\ LugNew' /\ LugEspera'
  BY <1>1, <1>4, <1>5, <1>6, IdentidadQuieta, NewQuieto, EsperaQuieta
<1>12. LugListo'
  BY <1>1, <1>4, <1>6 DEF LugListo, Mueve
<1>13. LugManos'
  <2>1. Guardado => pcb[fin["conexion"].pcb].estado = "RUNNING"
    <3>1. fin["conexion"].pcb \in Pid
      BY <1>1 DEF TypeOK, Fin
    <3> QED
      BY <1>1, <3>1 DEF LugManos, ManosDe
  <2>2. \A p \in Pid : ManosDe(p)' <=> p = n \/ ManosDe(p)
    BY <1>5, <1>8, <1>10 DEF ManosDe
  <2>3. Guardado' => running' # fin'["conexion"].pcb
    BY <1>4, <1>5, <1>8, <2>1
  <2> QED
    BY <1>1, <1>6, <2>2, <2>3 DEF LugManos, Mueve
<1>14. Contextos'
  BY <1>5, <1>7, <1>9 DEF Contextos
<1>15. CuentaGrado'
  <2>1. Admitidos' = Admitidos
    BY <1>4, <1>6, AdmitidosQuietos DEF Admitido
  <2> QED
    BY <1>1, <1>5, <2>1, GradoQuieto
<1>16. Abstracto!Despachar(n)
  <2>1. \A p \in Pid : (Oculto(p)' <=> Oculto(p)) /\ (Oculto(p) => pcb[p].estado = "RUNNING")
    BY <1>1, <1>5 DEF Oculto, LugManos, ManosDe, Guardado
  <2>2. Abstracto!Pasar({n}, "RUNNING")
    BY <1>4, <1>6, <2>1, VisibleMueve
  <2>3. \A p \in Pid : pcb[p].estado = "RUNNING" => Oculto(p)
    BY <1>1, <1>8 DEF LugManos, ManosDe, Oculto
  <2>4. EstadoVisible[n] = "READY" /\ \A p \in Pid : EstadoVisible[p] # "RUNNING"
    BY <1>1, <1>4, <2>3, VisibleEs
  <2> QED
    BY <1>4, <2>2, <2>4 DEF Abstracto!Despachar, Abstracto!Con
<1> QED
  BY <1>1, <1>4, <1>5, <1>11, <1>12, <1>13, <1>14, <1>15, <1>16
  DEF Lugares, PasoDiagrama, Abstracto!Next

(* Every step of the short term planner (planificadores.c:75).             *)
LEMMA LugCorto ==
  ASSUME LugInd, TypeOK', PasoCorto
  PROVE  Lugares' /\ CuentaGrado' /\ PasoDiagrama
<1>1. CASE CortoDespacha /\ ~DespachaNulo
  BY <1>1, LugDespacha
<1>2. CASE ~(CortoDespacha /\ ~DespachaNulo)
  <2>1. CuentaGrado /\ pc \in [Hilo -> Punto]
    BY DEF LugInd, ExcInd, TipoInd, TypeOK
  <2>2. UNCHANGED <<pcb, colas, bloqueados, contador_pcb, running, dispatch, respuestas,
                    cpu_pcb, cpu_estado, fin, sem_grado, grado>>
    BY <1>2
    DEF PasoCorto, CortoEspera, CortoDetenido, CortoDespacha, DespachaNulo, recursosVars,
        cicloVars, cpuVars, consolaVars, colas, semaforos
  <2>3. pc' = pc \/ \E x : Ir("corto", x)
    BY <1>2 DEF PasoCorto, CortoEspera, CortoDetenido, CortoDespacha, DespachaNulo
  <2>4. pc'["conexion"] = pc["conexion"] /\ pc'["largo"] = pc["largo"]
    BY <2>1, <2>3 DEF Ir, Hilo
  <2>5. CuentaGrado'
    BY <2>1, <2>2, <2>4, GradoQuieto DEF Admitidos
  <2> QED
    BY <2>2, <2>4, <2>5, LejosDelCpu
<1> QED
  BY <1>1, <1>2

(* The CPU: what it holds and sends is always the context of running.      *)
LEMMA LugCpu ==
  ASSUME LugInd, TypeOK', Cpu \/ LlegaFinalizar \/ \E p \in Pid : FinQuantum(p)
  PROVE  Lugares' /\ CuentaGrado' /\ PasoDiagrama
<1>1. Contextos /\ CuentaGrado /\ TypeOK /\ CicloConContexto
  BY DEF LugInd, Lugares, ExcInd, TipoInd
<1>2. /\ UNCHANGED <<pcb, colas, bloqueados, contador_pcb, running, fin, sem_grado, grado, pc>>
  BY DEF Cpu, LlegaFinalizar, FinQuantum, recursosVars, kernelVars, semaforos, consolaVars
<1>3. CuentaGrado'
  BY <1>1, <1>2, GradoQuieto DEF Admitidos
<1>4. CASE ~Cpu
  <2>1. UNCHANGED <<dispatch, respuestas, cpu_pcb, cpu_estado>>
    BY <1>4
    DEF LlegaFinalizar, FinQuantum, InterrupcionQuantum, InterrupcionFinalizar, canales
  <2> QED
    BY <1>2, <1>3, <2>1, LejosDelCpu
<1>5. CASE Cpu
  <2> PICK d \in Dueno : Manos(d)
    BY DEF LugInd, ExcInd
  <2>1. CpuPaso /\ dispatch \in Seq(Despacho) /\ respuestas \in Seq(Respuesta)
    BY <1>1, <1>5 DEF Cpu, TypeOK, CicloTypeOK
  <2>2. Contextos' /\ (Ocupado' <=> Ocupado)
    <3>1. CASE CpuRecibe
      <4>1. /\ dispatch # <<>> /\ cpu_pcb' = Head(dispatch).ctx
            /\ UNCHANGED <<dispatch, respuestas>> /\ cpu_estado # "ciclo" /\ cpu_estado' # "ciclo"
        BY <3>1 DEF CpuRecibe, canales
      <4>2. 1 \in DOMAIN dispatch /\ Head(dispatch) = dispatch[1]
        BY <2>1, <4>1, LenProperties, EmptySeq
      <4> QED
        BY <1>1, <1>2, <4>1, <4>2 DEF Contextos, Ocupado
    <3>2. CASE CpuBajaBanderas
      <4>1. /\ dispatch # <<>> /\ cpu_estado = "recibiendo" /\ cpu_estado' = "ciclo"
            /\ UNCHANGED <<respuestas, cpu_pcb>> /\ dispatch' = Tail(dispatch)
        BY <1>1, <3>2 DEF CpuBajaBanderas, CicloConContexto
      <4>2. dispatch' = <<>>
        BY <2>1, <4>1, ColaDeUno DEF Manos
      <4> QED
        BY <1>1, <1>2, <4>1, <4>2 DEF Contextos, Ocupado
    <3>3. CASE CpuCalcula \/ CpuSalta
      <4>1. /\ UNCHANGED <<dispatch, respuestas, cpu_estado>> /\ cpu_estado = "ciclo"
            /\ cpu_pcb'.pid = cpu_pcb.pid
        <5>1. cpu_estado = "ciclo"
          BY <3>3 DEF CpuCalcula, CpuSalta, EnFetch
        <5>2. cpu_pcb \in Contexto
          BY <1>1, <5>1 DEF CicloConContexto, TypeOK, CicloTypeOK
        <5> QED
          BY <3>3, <5>1, <5>2 DEF CpuCalcula, CpuSalta, Seguir, Avanzado, Contexto, canales
      <4> QED
        BY <1>1, <1>2, <4>1 DEF Contextos, Ocupado
    <3>4. CASE CpuFinaliza \/ CpuDesaloja \/ CpuPide \/ CpuTermina
      <4>1. cpu_estado = "ciclo"
        BY <3>4 DEF CpuFinaliza, CpuDesaloja, CpuPide, CpuTermina, EnFetch
      <4>2. cpu_pcb \in Contexto
        BY <1>1, <4>1 DEF CicloConContexto, TypeOK, CicloTypeOK
      <4>3. Avanzado.pid = cpu_pcb.pid
        BY <4>2 DEF Avanzado, Contexto
      <4>4. PICK op, arg, ctx : Responder(op, arg, ctx) /\ ctx.pid = cpu_pcb.pid
        BY <3>4, <4>3 DEF CpuFinaliza, CpuDesaloja, CpuPide, CpuTermina
      <4>5. respuestas = <<>>
        BY <4>1 DEF Manos
      <4>6. /\ respuestas' = <<[op |-> op, arg |-> arg, ctx |-> ctx]>> /\ UNCHANGED dispatch
            /\ cpu_estado' = "ocioso"
        BY <4>4, <4>5 DEF Responder
      <4>7. respuestas' # <<>> /\ \A i \in DOMAIN respuestas' : respuestas'[i].ctx = ctx
        BY <4>6
      <4> QED
        BY <1>1, <1>2, <4>1, <4>4, <4>6, <4>7 DEF Contextos, Ocupado
    <3> QED
      BY <2>1, <3>1, <3>2, <3>3, <3>4 DEF CpuPaso, CpuInstruccion
  <2>3. Guardado' <=> Guardado
    BY <1>2 DEF Guardado
  <2> QED
    BY <1>2, <1>3, <2>2, <2>3, NadieSeMueve, Quieto
<1> QED
  BY <1>4, <1>5

-----------------------------------------------------------------------------
(* A step that wakes the processes of S, all of them waiting.              *)
LEMMA Despiertan ==
  ASSUME LugInd, TypeOK', NEW S, Mueve(S, "READY"), S \subseteq Pid,
         \A p \in S : pcb[p].estado = "WAITING",
         LugListo', LugEspera', Contextos',
         UNCHANGED <<cola_new, contador_pcb, running, sem_grado, grado>>,
         pc'["largo"] = pc["largo"],
         Ocupado' <=> Ocupado, Guardado' <=> Guardado,
         pc'["conexion"] = "bloquear" <=> pc["conexion"] = "bloquear",
         fin'["conexion"].pcb = fin["conexion"].pcb \/ ~Guardado
  PROVE  Lugares' /\ CuentaGrado' /\ PasoDiagrama
<1>1. Identidad /\ LugNew /\ LugManos /\ CuentaGrado
  BY DEF LugInd, Lugares
<1>2. Identidad' /\ LugNew' /\ LugManos'
  BY <1>1, IdentidadQuieta, NewQuieto, ManosQuieto
<1>3. CuentaGrado'
  <2>1. Admitidos' = Admitidos
    BY AdmitidosQuietos DEF Admitido
  <2> QED
    BY <1>1, <2>1, GradoQuieto
<1>4. Abstracto!Despertar
  <2>1. \A p \in Pid : (Oculto(p)' <=> Oculto(p)) /\ (Oculto(p) => pcb[p].estado = "RUNNING")
    BY <1>1 DEF Oculto, LugManos, ManosDe, Guardado
  <2>2. Abstracto!Pasar(S, "READY")
    BY <2>1, VisibleMueve
  <2>3. S \subseteq Abstracto!Con("WAITING")
    BY <1>1, VisibleEs DEF Abstracto!Con
  <2> QED
    BY <2>2, <2>3 DEF Abstracto!Despertar
<1> QED
  BY <1>2, <1>3, <1>4 DEF Lugares, PasoDiagrama, Abstracto!Next

(* A step in which the process that runs leaves the CPU.                   *)
LEMMA Deja ==
  ASSUME LugInd, TypeOK', NEW n \in Pid, NEW e \in {"READY", "WAITING", "TERMINATED"},
         Mueve({n}, e), pcb[n].estado = "RUNNING", ~Oculto(n),
         \A p \in Pid : Oculto(p)' <=> Oculto(p),
         LugListo', LugEspera', LugManos', Contextos',
         UNCHANGED <<cola_new, contador_pcb, grado>>, pc'["largo"] = pc["largo"],
         sem_grado' = IF e = "TERMINATED" THEN sem_grado + 1 ELSE sem_grado
  PROVE  Lugares' /\ CuentaGrado' /\ PasoDiagrama
<1>1. Identidad /\ LugNew /\ LugManos /\ CuentaGrado /\ TypeOK
  BY DEF LugInd, Lugares, ExcInd, TipoInd
<1>2. Identidad' /\ LugNew'
  BY <1>1, IdentidadQuieta, NewQuieto
<1>3. CuentaGrado'
  <2>1. CASE e # "TERMINATED"
    <3>1. Admitidos' = Admitidos
      BY <2>1, AdmitidosQuietos DEF Admitido
    <3> QED
      BY <1>1, <2>1, <3>1, GradoQuieto
  <2>2. CASE e = "TERMINATED"
    <3>1. Admitidos' = Admitidos - 1 /\ sem_grado' = sem_grado + 1
      BY <2>2, AdmitidosMenos DEF Admitido
    <3>2. PICK k \in Nat : /\ k = IF pc["largo"] \in {"detenido", "pasar"} THEN 1 ELSE 0
                          /\ sem_grado + Admitidos + k = grado
      BY <1>1 DEF CuentaGrado
    <3>3. sem_grado' + Admitidos' + k = grado
      BY <1>1, <3>1, <3>2, AdmitidosTipo DEF TypeOK
    <3> QED
      BY <3>2, <3>3 DEF CuentaGrado
  <2> QED
    BY <2>1, <2>2
<1>4. Abstracto!Dejar(n)
  <2>1. Abstracto!Pasar({n}, e)
    BY VisibleMueve
  <2>2. n \in Abstracto!Con("RUNNING")
    BY <1>1, VisibleEs DEF Abstracto!Con
  <2> QED
    BY <2>1, <2>2 DEF Abstracto!Dejar
<1> QED
  BY <1>2, <1>3, <1>4 DEF Lugares, PasoDiagrama, Abstracto!Next

(* The PCBs that a resource wakes were waiting in its queue, once each;    *)
(* the others stay in theirs.                                              *)
LEMMA DespertadosEsperan ==
  ASSUME TypeOK, LugEspera, NEW r \in Recurso
  PROVE  LET s == Despertados(r)
             q == SubSeq(bloqueados[r], Len(s) + 1, Len(bloqueados[r]))
         IN  /\ s \in Seq(Pid) /\ IsInjective(s) /\ ToSet(s) \subseteq Pid
             /\ \A p \in ToSet(s) : pcb[p].estado = "WAITING"
             /\ IsInjective(q) /\ ToSet(s) \cap ToSet(q) = {}
             /\ ToSet(bloqueados[r]) = ToSet(s) \cup ToSet(q)
<1> DEFINE b == bloqueados[r]
           m == IF b = <<>> THEN 0 ELSE 1
           s == Despertados(r)
           q == SubSeq(b, Len(s) + 1, Len(b))
<1>1. b \in Seq(Pid) /\ Len(b) \in Nat /\ IsInjective(b)
  BY LenProperties DEF TypeOK, RecursosTypeOK, LugEspera
<1>2. m \in 0 .. Len(b)
  BY <1>1, EmptySeq
<1>3. s = SubSeq(b, 1, m)
  BY DEF Despertados
<1> HIDE DEF b, m, s
<1>4. /\ s \in Seq(Pid) /\ Len(s) = m /\ ToSet(b) = ToSet(s) \cup ToSet(q)
      /\ IsInjective(s) /\ IsInjective(q) /\ ToSet(s) \cap ToSet(q) = {}
  BY <1>1, <1>2, <1>3, Partir
<1>5. ToSet(s) \subseteq Pid
  BY <1>4, LenProperties DEF ToSet
<1>6. \A p \in ToSet(s) : pcb[p].estado = "WAITING"
  BY <1>4, <1>5 DEF LugEspera, Bloqueado, b
<1> QED
  BY <1>4, <1>5, <1>6 DEF b, s

(* ejecutar_signal and liberar_recursos keep the waiting column.           *)
LEMMA EsperaDespierta ==
  ASSUME TypeOK, LugEspera, NEW r \in Recurso, Despertar(r),
         Mueve(ToSet(Despertados(r)), "READY"), UNCHANGED en_io
  PROVE  LugEspera'
<1> DEFINE b == bloqueados[r]
           s == Despertados(r)
           q == SubSeq(b, Len(s) + 1, Len(b))
<1>1. /\ IsInjective(q) /\ ToSet(s) \cap ToSet(q) = {} /\ ToSet(b) = ToSet(s) \cup ToSet(q)
      /\ ToSet(s) \subseteq Pid
  BY DespertadosEsperan
<1>2. bloqueados' = [bloqueados EXCEPT ![r] = q]
  BY DEF Despertar
<1>3. bloqueados \in [Recurso -> Seq(Pid)]
  BY DEF TypeOK, RecursosTypeOK
<1> HIDE DEF s, q
<1>4. \A t \in Recurso : bloqueados'[t] = IF t = r THEN q ELSE bloqueados[t]
  BY <1>2, <1>3
<1>5. \A t \in Recurso : IsInjective(bloqueados'[t])
  BY <1>1, <1>4 DEF LugEspera
<1>6. \A t \in Recurso : \A p \in Pid :
        p \in ToSet(bloqueados'[t]) <=> p \in ToSet(bloqueados[t]) /\ p \notin ToSet(s)
  <2> SUFFICES ASSUME NEW t \in Recurso, NEW p \in Pid
               PROVE  p \in ToSet(bloqueados'[t])
                        <=> p \in ToSet(bloqueados[t]) /\ p \notin ToSet(s)
    OBVIOUS
  <2>1. CASE t = r
    BY <1>1, <1>4, <2>1
  <2>2. CASE t # r
    BY <1>1, <1>4, <2>2 DEF LugEspera
  <2> QED
    BY <2>1, <2>2
<1>7. \A p \in Pid : Bloqueado(p)' <=> Bloqueado(p) /\ p \notin ToSet(s)
  BY <1>6 DEF Bloqueado
<1>8. \A p \in Pid : p \in ToSet(s) => Bloqueado(p)
  BY <1>1 DEF Bloqueado
<1>9. \A p \in Pid : pcb'[p].estado = IF p \in ToSet(s) THEN "READY" ELSE pcb[p].estado
  BY DEF Mueve, s
<1> QED
  BY <1>5, <1>6, <1>7, <1>8, <1>9 DEF LugEspera

(* ejecutar_wait puts a process that waits for nothing else in the queue.  *)
LEMMA EsperaEncola ==
  ASSUME TypeOK, LugEspera, NEW r \in Recurso, NEW n \in Pid, Encolar(n, r),
         Mueve({n}, "WAITING"), pcb[n].estado # "WAITING", UNCHANGED en_io
  PROVE  LugEspera'
<1>1. bloqueados \in [Recurso -> Seq(Pid)] /\ bloqueados[r] \in Seq(Pid)
  BY DEF TypeOK, RecursosTypeOK
<1>2. en_io[n] = 0 /\ ~Bloqueado(n)
  BY DEF LugEspera
<1>3. n \notin ToSet(bloqueados[r])
  BY <1>2 DEF Bloqueado
<1>4. \A t \in Recurso : bloqueados'[t] = IF t = r THEN Append(bloqueados[r], n) ELSE bloqueados[t]
  BY <1>1 DEF Encolar
<1>5. /\ ToSet(Append(bloqueados[r], n)) = ToSet(bloqueados[r]) \cup {n}
      /\ IsInjective(Append(bloqueados[r], n))
  BY <1>1, <1>3, AlFinal DEF LugEspera
<1>6. \A t \in Recurso : IsInjective(bloqueados'[t])
  BY <1>4, <1>5 DEF LugEspera
<1>7. \A t \in Recurso : \A p \in Pid :
        p \in ToSet(bloqueados'[t]) <=> p \in ToSet(bloqueados[t]) \/ (t = r /\ p = n)
  BY <1>4, <1>5
<1>8. \A p \in Pid : Bloqueado(p)' <=> Bloqueado(p) \/ p = n
  BY <1>7 DEF Bloqueado
<1>9. \A p \in Pid : pcb'[p].estado = IF p = n THEN "WAITING" ELSE pcb[p].estado
  BY DEF Mueve
<1>10. \A t \in Recurso : n \notin ToSet(bloqueados[t])
  BY <1>2 DEF Bloqueado
<1> HIDE DEF Encolar, Bloqueado
<1> QED
  BY <1>2, <1>6, <1>7, <1>8, <1>9, <1>10 DEF LugEspera

(* An interface takes a process that waits for nothing else.               *)
LEMMA EsperaInterfaz ==
  ASSUME TypeOK, LugEspera, NEW n \in Pid, Mueve({n}, "WAITING"),
         pcb[n].estado # "WAITING", en_io' = [en_io EXCEPT ![n] = @ + 1],
         UNCHANGED bloqueados
  PROVE  LugEspera'
<1>1. en_io[n] = 0 /\ ~Bloqueado(n)
  BY DEF LugEspera
<1>2. \A p \in Pid : en_io'[p] = IF p = n THEN 1 ELSE en_io[p]
  BY <1>1 DEF TypeOK
<1>3. \A p \in Pid : pcb'[p].estado = IF p = n THEN "WAITING" ELSE pcb[p].estado
  BY DEF Mueve
<1>4. \A p \in Pid : Bloqueado(p)' <=> Bloqueado(p)
  BY DEF Bloqueado
<1> QED
  BY <1>1, <1>2, <1>3, <1>4 DEF LugEspera

(* An interface gives back a process that waited for it alone.             *)
LEMMA LugVuelta ==
  ASSUME LugInd, TypeOK', NEW n \in Pid, VueltaIO(n)
  PROVE  Lugares' /\ CuentaGrado' /\ PasoDiagrama
<1>1. LugListo /\ LugEspera /\ Contextos /\ TypeOK
  BY DEF LugInd, Lugares, ExcInd, TipoInd
<1>2. pcb \in [Pid -> Pcb] /\ cola_ready \in Seq(Pid) /\ cola_vrr \in Seq(Pid)
      /\ en_io \in [Pid -> Nat]
  BY <1>1 DEF TypeOK
<1>3. en_io[n] = 1 /\ ~Bloqueado(n) /\ pcb[n].estado = "WAITING"
  BY <1>1, <1>2 DEF VueltaIO, LugEspera
<1>4. /\ UNCHANGED <<bloqueados, dispatch, respuestas, cpu_pcb, cpu_estado, cola_new,
                     contador_pcb, running, sem_grado, grado, pc, fin>>
      /\ en_io' = [en_io EXCEPT ![n] = 0]
  BY <1>2, <1>3 DEF VueltaIO, recursosVars, cicloVars, consolaVars
<1>5. Mueve({n}, "READY") /\ LugListo'
  <2>1. CASE AgregarVrr(n) /\ UNCHANGED cola_ready
    <3>1. Mueve({n}, "READY") /\ cola_vrr' = Append(cola_vrr, n)
      BY <1>2, <2>1, MueveUno DEF AgregarVrr
    <3>2. n \notin ToSet(cola_ready) /\ n \notin ToSet(cola_vrr)
      BY <1>1, <1>3 DEF LugListo
    <3>3. ToSet(cola_vrr') = ToSet(cola_vrr) \cup {n} /\ IsInjective(cola_vrr')
      BY <1>1, <1>2, <3>1, <3>2, AlFinal DEF LugListo
    <3>4. LugListo'
      BY <1>1, <2>1, <3>1, <3>2, <3>3 DEF LugListo, Mueve
    <3> QED
      BY <3>1, <3>4
  <2>2. CASE AgregarReady(pcb, <<n>>) /\ UNCHANGED cola_vrr
    <3>1. <<n>> \in Seq(Pid) /\ ToSet(<<n>>) = {n} /\ IsInjective(<<n>>)
      BY UnoSolo
    <3>2. Mueve({n}, "READY")
      BY <1>2, <2>2, <3>1, MueveReady
    <3>3. cola_ready' = cola_ready \o <<n>>
      BY <2>2 DEF AgregarReady
    <3> QED
      BY <1>1, <1>3, <2>2, <3>1, <3>2, <3>3, ListoAgrega
  <2> QED
    BY <2>1, <2>2 DEF VueltaIO
<1>6. LugEspera'
  <2>1. \A p \in Pid : en_io'[p] = IF p = n THEN 0 ELSE en_io[p]
    BY <1>2, <1>4
  <2>2. \A p \in Pid : pcb'[p].estado = IF p = n THEN "READY" ELSE pcb[p].estado
    BY <1>5 DEF Mueve
  <2>3. \A p \in Pid : Bloqueado(p)' <=> Bloqueado(p)
    BY <1>4 DEF Bloqueado
  <2> QED
    BY <1>1, <1>3, <1>4, <2>1, <2>2, <2>3 DEF LugEspera
<1>7. Contextos' /\ (Ocupado' <=> Ocupado) /\ (Guardado' <=> Guardado)
  BY <1>1, <1>4 DEF Contextos, Ocupado, Guardado
<1> QED
  BY <1>3, <1>4, <1>5, <1>6, <1>7, Despiertan

-----------------------------------------------------------------------------
(* procesar_conexion: the context that comes home is that of running ...   *)
LEMMA LugRecibe ==
  ASSUME LugInd, TypeOK', ConexionRecibe
  PROVE  Lugares' /\ CuentaGrado' /\ PasoDiagrama
<1> DEFINE ctx == Head(respuestas).ctx
<1>1. /\ LugListo /\ LugEspera /\ LugManos /\ Contextos /\ Identidad /\ CuentaGrado
      /\ TypeOK /\ SinDespachos /\ PedidosBuenos
  BY DEF LugInd, Lugares, ExcInd, TipoInd, Reglas
<1>2. /\ respuestas \in Seq(Respuesta) /\ pc \in [Hilo -> Punto] /\ pcb \in [Pid -> Pcb]
      /\ running \in Pid \cup {NADIE} /\ fin \in [{"consola", "conexion"} -> Fin]
  BY <1>1 DEF TypeOK, CicloTypeOK
<1>3. /\ pc["conexion"] = "recv" /\ respuestas # <<>> /\ respuestas' = Tail(respuestas)
      /\ UNCHANGED <<bloqueados, dispatch, cpu_pcb, cpu_estado, cola_new, cola_vrr, en_io,
                     sem_grado, grado, running, contador_pcb>>
      /\ RecibirPedido \/ RecibirDesalojo \/ RecibirFinalizado \/ RecibirFin
  BY DEF ConexionRecibe, recursosVars, cpuVars, consolaVars
<1>4. running \in Pid /\ Ocupado /\ ~Guardado /\ pcb[running].estado = "RUNNING"
  BY <1>1, <1>2, <1>3 DEF SinDespachos, Ocupado, Guardado, LugManos, ManosDe
<1>5. /\ respuestas' = <<>> /\ dispatch = <<>> /\ cpu_estado # "ciclo"
      /\ Pedible(Head(respuestas))
  <2> PICK d \in Dueno : Manos(d)
    BY DEF LugInd, ExcInd
  <2>1. d = "vuelta"
    BY <1>3 DEF Manos
  <2> QED
    BY <1>1, <1>2, <1>3, <2>1, ColaDeUno DEF Manos, PedidosBuenos
<1>6. ctx.pid = running /\ ctx \in Contexto
  <2>1. 1 \in DOMAIN respuestas /\ Head(respuestas) = respuestas[1] /\ Head(respuestas) \in Respuesta
    BY <1>2, <1>3, HeadTailProperties, LenProperties, EmptySeq
  <2> QED
    BY <1>1, <2>1 DEF Contextos, Respuesta
<1> HIDE DEF ctx
<1>7. \A x : /\ pc' = [pc EXCEPT !["conexion"] = x] => pc'["conexion"] = x
             /\ pc' = [pc EXCEPT !["conexion"] = x] => pc'["largo"] = pc["largo"]
  BY <1>2 DEF Hilo
<1>8. pcb' = ConContexto(running, ctx) => Mueve({}, "READY")
  <2> SUFFICES ASSUME pcb' = ConContexto(running, ctx) PROVE Mueve({}, "READY")
    OBVIOUS
  <2>1. \A p \in Pid : pcb[p] \in Pcb /\ pcb[p].pid = p
    BY <1>1, <1>2 DEF Identidad
  <2>2. \A p \in Pid : pcb'[p].estado = pcb[p].estado /\ pcb'[p].pid = pcb[p].pid
    BY <1>2, <1>4, <1>6, <2>1 DEF ConContexto, Pcb
  <2> QED
    BY <2>2 DEF Mueve
<1>9. ASSUME pc'["conexion"] # "liberar" PROVE Contextos'
  BY <1>1, <1>3, <1>5, <1>9 DEF Contextos
<1>10. CASE RecibirPedido
  <2>1. /\ pcb' = ConContexto(running, ctx) /\ UNCHANGED <<cola_ready, fin>>
        /\ pc'["conexion"] \in {"detenido", "atender"} /\ pc'["largo"] = pc["largo"]
    BY <1>7, <1>10 DEF RecibirPedido, Ir, ctx
  <2>2. Mueve({}, "READY") /\ Contextos'
    BY <1>8, <1>9, <2>1
  <2>3. Ocupado' /\ ~Guardado' /\ pc'["conexion"] # "bloquear"
    BY <2>1 DEF Ocupado, Guardado
  <2>4. CuentaGrado'
    BY <1>1, <1>3, <2>1, <2>2, AdmitidosQuietos, GradoQuieto
  <2> QED
    BY <1>3, <1>4, <2>1, <2>2, <2>3, <2>4, Quieto DEF colas
<1>11. CASE RecibirDesalojo
  <2> DEFINE f == [ConContexto(running, ctx) EXCEPT ![running].resto = FALSE]
  <2>1. AgregarReady(f, <<running>>) /\ UNCHANGED <<pc, fin>>
    BY <1>11 DEF RecibirDesalojo, ctx
  <2>2. f \in [Pid -> Pcb]
        /\ \A p \in Pid : f[p].estado = pcb[p].estado /\ f[p].pid = pcb[p].pid
    <3> DEFINE g == ConContexto(running, ctx)
    <3>1. g \in [Pid -> Pcb]
      BY <1>2, <1>4, <1>6, ContextoTipo
    <3>2. f = [g EXCEPT ![running].resto = FALSE]
      OBVIOUS
    <3> HIDE DEF f, g
    <3>3. f \in [Pid -> Pcb]
      BY <1>4, <3>1, <3>2, RestoTipo
    <3>4. \A p \in Pid : pcb[p] \in Pcb /\ pcb[p].pid = p /\ g[p] \in Pcb
      BY <1>1, <1>2, <3>1 DEF Identidad
    <3>5. \A p \in Pid : g[p].estado = pcb[p].estado /\ g[p].pid = pcb[p].pid
      BY <1>2, <1>4, <1>6, <3>4 DEF ConContexto, Pcb, g
    <3>6. \A p \in Pid : f[p].estado = g[p].estado /\ f[p].pid = g[p].pid
      BY <3>1, <3>2, <3>4 DEF Pcb
    <3> QED
      BY <3>5, <3>6, <3>3
  <2> HIDE DEF f
  <2>3. <<running>> \in Seq(Pid) /\ ToSet(<<running>>) = {running} /\ IsInjective(<<running>>)
    BY <1>4, UnoSolo
  <2>4. Mueve({running}, "READY")
    BY <2>1, <2>2, <2>3, MueveReady
  <2>5. cola_ready' = cola_ready \o <<running>>
    BY <2>1 DEF AgregarReady
  <2>6. LugListo'
    BY <1>1, <1>3, <1>4, <2>3, <2>4, <2>5, ListoAgrega
  <2>7. LugEspera'
    BY <1>1, <1>3, <1>4, <2>4, EsperaQuieta
  <2>8. ~Ocupado' /\ ~Guardado'
    BY <1>3, <1>5, <2>1 DEF Ocupado, Guardado
  <2>9. LugManos'
    <3>1. \A p \in Pid : ~ManosDe(p)' /\ (ManosDe(p) => p = running)
      BY <1>4, <2>8 DEF ManosDe
    <3> QED
      BY <1>1, <2>4, <2>8, <3>1 DEF LugManos, Mueve
  <2>10. Contextos' /\ \A p \in Pid : ~Oculto(p) /\ ~Oculto(p)'
    BY <1>3, <1>9, <2>1 DEF Oculto
  <2> QED
    BY <1>3, <1>4, <2>1, <2>4, <2>6, <2>7, <2>9, <2>10, Deja
<1>12. CASE RecibirFin
  <2>1. /\ pcb' = ConContexto(running, ctx) /\ UNCHANGED cola_ready
        /\ FinalizarPcb("conexion", running, ctx.pid, "recv")
    BY <1>12 DEF RecibirFin, ctx
  <2>2. /\ pc'["conexion"] = "liberar" /\ pc'["largo"] = pc["largo"]
        /\ fin'["conexion"].pcb = running /\ fin'["conexion"].pid = running
    BY <1>2, <1>6, <1>7, <2>1 DEF FinalizarPcb, LiberarDesde, Ir
  <2>3. Mueve({}, "READY")
    BY <1>8, <2>1
  <2>4. Contextos'
    BY <1>1, <1>3, <1>5, <2>2 DEF Contextos
  <2>5. CuentaGrado'
    BY <1>1, <1>3, <2>2, <2>3, AdmitidosQuietos, GradoQuieto
  <2>6. ~Ocupado' /\ Guardado'
    BY <1>3, <1>5, <2>2 DEF Ocupado, Guardado
  <2>7. LugManos'
    <3>1. \A p \in Pid : ManosDe(p)' <=> ManosDe(p)
      BY <1>4, <2>2, <2>6 DEF ManosDe
    <3> QED
      BY <1>1, <2>3, <2>6, <3>1 DEF LugManos, Mueve
  <2>8. \A p \in Pid : ~Oculto(p) /\ ~Oculto(p)'
    BY <1>3, <2>2 DEF Oculto
  <2> QED
    BY <1>3, <2>1, <2>3, <2>4, <2>5, <2>7, <2>8, Inmovil DEF colas
<1>13. ~RecibirFinalizado
  BY <1>5 DEF RecibirFinalizado, Pedible
<1> QED
  BY <1>3, <1>10, <1>11, <1>12, <1>13

(* ... the request it serves is that of running, which nobody else has ... *)
LEMMA AtiendeDatos ==
  ASSUME LugInd, ConexionAtiende
  PROVE  /\ running \in Pid /\ pcb[running].estado = "RUNNING" /\ pcb[running].pid = running
         /\ dispatch = <<>> /\ respuestas = <<>> /\ cpu_estado # "ciclo"
         /\ pc["conexion"] = "atender" /\ Ocupado /\ ~Guardado /\ Pedible(pedido)
         /\ \A p : ManosDe(p) <=> p = running
         /\ \A p : ~Oculto(p)
         /\ UNCHANGED <<respuestas, cpu_pcb, cpu_estado, cola_new, cola_vrr, contador_pcb,
                        running, grado>>
         /\ \A x : Ir("conexion", x) => pc'["conexion"] = x /\ pc'["largo"] = pc["largo"]
         /\ pc \in [Hilo -> Punto]
<1>1. /\ LugManos /\ Identidad /\ TypeOK /\ SinDespachos /\ PedidosBuenos
  BY DEF LugInd, Lugares, ExcInd, TipoInd, Reglas
<1>2. /\ pc \in [Hilo -> Punto] /\ running \in Pid \cup {NADIE} /\ pc["conexion"] = "atender"
  BY <1>1 DEF TypeOK, ConexionAtiende
<1>3. running \in Pid
  BY <1>1, <1>2 DEF SinDespachos
<1>4. Ocupado /\ ~Guardado
  BY <1>2 DEF Ocupado, Guardado
<1>5. dispatch = <<>> /\ respuestas = <<>> /\ cpu_estado # "ciclo"
  BY <1>2 DEF LugInd, ExcInd, Manos
<1>6. \A p : (ManosDe(p) <=> p = running) /\ ~Oculto(p)
  BY <1>2, <1>4 DEF ManosDe, Oculto
<1>7. pcb[running].estado = "RUNNING" /\ pcb[running].pid = running
  BY <1>1, <1>3, <1>6 DEF LugManos, Identidad
<1>8. UNCHANGED <<respuestas, cpu_pcb, cpu_estado, cola_new, cola_vrr, contador_pcb,
                  running, grado>>
  BY DEF ConexionAtiende, cpuVars, consolaVars
<1>9. \A x : Ir("conexion", x) => pc'["conexion"] = x /\ pc'["largo"] = pc["largo"]
  BY <1>2 DEF Ir, Hilo
<1>10. Pedible(pedido)
  BY <1>1, <1>2 DEF PedidosBuenos
<1> QED
  BY <1>2, <1>3, <1>4, <1>5, <1>6, <1>7, <1>8, <1>9, <1>10

(* A process that leaves everybody's hands.                                *)
LEMMA SueltaManos ==
  ASSUME LugManos, NEW n, NEW e, Mueve({n}, e), e # "RUNNING",
         \A p \in Pid : ManosDe(p) => p = n, ~Ocupado', ~Guardado'
  PROVE  LugManos'
<1>1. \A p \in Pid : ~ManosDe(p)'
  BY DEF ManosDe
<1> QED
  BY <1>1 DEF LugManos, Mueve

(* ... which goes back to the CPU with the instance it asked for ...       *)
LEMMA LugConcede ==
  ASSUME LugInd, TypeOK', ConexionAtiende, NEW r \in Recurso, Conceder(running, r),
         Ir("conexion", "recv"), UNCHANGED <<cola_ready, en_io, sem_grado, fin>>
  PROVE  Lugares' /\ CuentaGrado' /\ PasoDiagrama
<1>1. /\ CuentaGrado /\ Contextos
  BY DEF LugInd, Lugares
<1>2. /\ pc["conexion"] = "atender" /\ pc'["conexion"] = "recv" /\ pc'["largo"] = pc["largo"]
      /\ UNCHANGED <<respuestas, cpu_pcb, cpu_estado, cola_new, cola_vrr, contador_pcb,
                     running, grado>>
      /\ Ocupado /\ ~Guardado /\ pcb[running].pid = running /\ dispatch = <<>>
  BY AtiendeDatos
<1>3. /\ UNCHANGED <<pcb, bloqueados, colas>>
      /\ dispatch' = Append(dispatch, [ctx |-> [pid |-> pcb[running].pid, pc |-> pcb[running].pc],
                                       con_quantum |-> FALSE])
  BY <1>2 DEF Conceder, Otorgar, EnviarPcb, colas
<1>4. Ocupado' /\ ~Guardado'
  BY <1>2, <1>3 DEF Ocupado, Guardado
<1>5. Contextos'
  BY <1>1, <1>2, <1>3 DEF Contextos
<1>6. CuentaGrado'
  BY <1>1, <1>2, <1>3, GradoQuieto DEF Admitidos
<1> QED
  BY <1>2, <1>3, <1>4, <1>5, <1>6, NadieSeMueve, Quieto

(* ... or waits for one in the queue of the resource ...                   *)
LEMMA LugBloquea ==
  ASSUME LugInd, TypeOK', ConexionAtiende, NEW r \in Recurso, Bloquear(running, r),
         Ir("conexion", "recv"), UNCHANGED <<cola_ready, en_io, sem_grado, fin>>
  PROVE  Lugares' /\ CuentaGrado' /\ PasoDiagrama
<1>1. /\ LugListo /\ LugEspera /\ LugManos /\ Contextos /\ TypeOK /\ pcb \in [Pid -> Pcb]
  BY DEF LugInd, Lugares, ExcInd, TipoInd, TypeOK
<1>2. /\ running \in Pid /\ pcb[running].estado = "RUNNING" /\ \A p : ManosDe(p) => p = running
      /\ pc["conexion"] = "atender" /\ pc'["conexion"] = "recv" /\ pc'["largo"] = pc["largo"]
      /\ UNCHANGED <<dispatch, respuestas, cpu_pcb, cpu_estado, cola_new, cola_vrr,
                     contador_pcb, running, grado>>
      /\ dispatch = <<>> /\ respuestas = <<>> /\ cpu_estado # "ciclo" /\ \A p : ~Oculto(p)
  BY AtiendeDatos DEF Bloquear
<1>3. Mueve({running}, "WAITING")
  BY <1>1, <1>2, MueveUno DEF Bloquear
<1>4. LugEspera'
  BY <1>1, <1>2, <1>3, EsperaEncola DEF Bloquear
<1>5. LugListo'
  BY <1>1, <1>2, <1>3, ListoQuieto
<1>6. ~Ocupado' /\ ~Guardado'
  BY <1>2 DEF Ocupado, Guardado
<1>7. LugManos'
  BY <1>1, <1>2, <1>3, <1>6, SueltaManos
<1>8. Contextos' /\ \A p \in Pid : ~Oculto(p)'
  BY <1>1, <1>2 DEF Contextos, Oculto
<1> QED
  BY <1>2, <1>3, <1>4, <1>5, <1>7, <1>8, Deja

(* ... gives one back, which may wake another ...                          *)
LEMMA LugSenal ==
  ASSUME LugInd, TypeOK', ConexionAtiende, EjecutarSignal
  PROVE  Lugares' /\ CuentaGrado' /\ PasoDiagrama
<1> DEFINE r == pedido.arg
           s == Despertados(r)
<1>1. /\ LugListo /\ LugEspera /\ LugManos /\ Contextos /\ TypeOK /\ pcb \in [Pid -> Pcb]
  BY DEF LugInd, Lugares, ExcInd, TipoInd, TypeOK
<1>2. /\ r \in Recurso /\ Despertar(r) /\ AgregarReady(pcb, s)
      /\ UNCHANGED <<en_io, sem_grado, fin>>
      /\ dispatch' = Append(dispatch, [ctx |-> [pid |-> pcb[running].pid, pc |-> pcb[running].pc],
                                       con_quantum |-> FALSE])
  BY DEF EjecutarSignal, EnviarPcb
<1>3. /\ pcb[running].pid = running /\ Ocupado /\ ~Guardado
      /\ pc["conexion"] = "atender" /\ pc'["conexion"] = "recv" /\ pc'["largo"] = pc["largo"]
      /\ UNCHANGED <<respuestas, cpu_pcb, cpu_estado, cola_new, cola_vrr,
                     contador_pcb, running, grado>>
      /\ dispatch = <<>>
  BY AtiendeDatos DEF EjecutarSignal
<1>4. /\ s \in Seq(Pid) /\ IsInjective(s) /\ ToSet(s) \subseteq Pid
      /\ \A p \in ToSet(s) : pcb[p].estado = "WAITING"
  BY <1>1, <1>2, DespertadosEsperan
<1> HIDE DEF s, r
<1>5. Mueve(ToSet(s), "READY")
  BY <1>1, <1>2, MueveReady
<1>6. LugEspera'
  BY <1>1, <1>2, <1>5, EsperaDespierta DEF s
<1>7. LugListo'
  BY <1>1, <1>2, <1>3, <1>4, <1>5, ListoAgrega DEF AgregarReady
<1>8. Ocupado' /\ ~Guardado'
  BY <1>2, <1>3 DEF Ocupado, Guardado
<1>9. Contextos'
  BY <1>1, <1>2, <1>3 DEF Contextos
<1> QED
  BY <1>2, <1>3, <1>4, <1>5, <1>6, <1>7, <1>8, <1>9, Despiertan

(* ... is finished for a resource that it may not use ...                  *)
LEMMA LugInvalido ==
  ASSUME LugInd, TypeOK', ConexionAtiende, RecursoInvalido
  PROVE  Lugares' /\ CuentaGrado' /\ PasoDiagrama
<1>1. /\ LugListo /\ LugEspera /\ LugManos /\ Contextos /\ TypeOK /\ pcb \in [Pid -> Pcb]
  BY DEF LugInd, Lugares, ExcInd, TipoInd, TypeOK
<1>2. /\ running \in Pid /\ pcb[running].estado = "RUNNING" /\ \A p : ManosDe(p) => p = running
      /\ pc["conexion"] = "atender" /\ pc'["conexion"] = "devolver"
      /\ pc'["largo"] = pc["largo"]
      /\ UNCHANGED <<respuestas, cpu_pcb, cpu_estado, cola_new, cola_vrr,
                     contador_pcb, running, grado>>
      /\ dispatch = <<>> /\ respuestas = <<>> /\ cpu_estado # "ciclo" /\ \A p : ~Oculto(p)
  BY AtiendeDatos DEF RecursoInvalido
<1>3. /\ UNCHANGED <<bloqueados, dispatch, cola_ready, en_io>>
      /\ pcb' = [pcb EXCEPT ![running].estado = "TERMINATED"] /\ sem_grado' = sem_grado + 1
  BY DEF RecursoInvalido, LiberarProceso, recursosVars
<1>4. Mueve({running}, "TERMINATED")
  BY <1>1, <1>2, <1>3, MueveUno
<1>5. LugListo' /\ LugEspera'
  BY <1>1, <1>2, <1>3, <1>4, ListoQuieto, EsperaQuieta
<1>6. ~Ocupado' /\ ~Guardado'
  BY <1>2, <1>3 DEF Ocupado, Guardado
<1>7. LugManos'
  BY <1>1, <1>2, <1>4, <1>6, SueltaManos
<1>8. Contextos' /\ \A p \in Pid : ~Oculto(p)'
  BY <1>1, <1>2, <1>3 DEF Contextos, Oculto
<1> QED
  BY <1>2, <1>3, <1>4, <1>5, <1>7, <1>8, Deja

(* ... sleeps in a generic interface ...                                   *)
LEMMA LugDuerme ==
  ASSUME LugInd, TypeOK', ConexionAtiende, IoSleep
  PROVE  Lugares' /\ CuentaGrado' /\ PasoDiagrama
<1>1. /\ LugListo /\ LugEspera /\ LugManos /\ Contextos /\ TypeOK /\ pcb \in [Pid -> Pcb]
  BY DEF LugInd, Lugares, ExcInd, TipoInd, TypeOK
<1>2. pedido.arg \in Interfaz
  BY AtiendeDatos DEF IoSleep, Pedible
<1>3. /\ \E queda : pcb' = [pcb EXCEPT ![running].estado = "WAITING", ![running].resto = queda]
      /\ en_io' = [en_io EXCEPT ![running] = @ + 1]
      /\ Ir("conexion", "soltar")
      /\ UNCHANGED <<bloqueados, dispatch, cola_ready, sem_grado>>
  BY <1>2 DEF IoSleep, EjecutarIO, recursosVars
<1>4. /\ running \in Pid /\ pcb[running].estado = "RUNNING" /\ \A p : ManosDe(p) => p = running
      /\ pc["conexion"] = "atender" /\ pc \in [Hilo -> Punto]
      /\ UNCHANGED <<respuestas, cpu_pcb, cpu_estado, cola_new, cola_vrr,
                     contador_pcb, running, grado>>
      /\ dispatch = <<>> /\ respuestas = <<>> /\ cpu_estado # "ciclo" /\ \A p : ~Oculto(p)
  BY AtiendeDatos
<1>5. pc'["conexion"] = "soltar" /\ pc'["largo"] = pc["largo"]
  BY <1>3, <1>4 DEF Ir, Hilo
<1>6. Mueve({running}, "WAITING")
  <2>1. PICK queda : pcb' = [pcb EXCEPT ![running].estado = "WAITING", ![running].resto = queda]
    BY <1>3
  <2>2. pcb \in [Pid -> Pcb] /\ running \in Pid
    BY <1>1, <1>4
  <2> QED
    BY <2>1, <2>2, MueveUno
<1>7. LugEspera'
  BY <1>1, <1>3, <1>4, <1>6, EsperaInterfaz
<1>8. LugListo'
  BY <1>1, <1>3, <1>4, <1>6, ListoQuieto
<1>9. ~Ocupado' /\ ~Guardado'
  BY <1>3, <1>4, <1>5 DEF Ocupado, Guardado
<1>10. LugManos'
  BY <1>1, <1>4, <1>6, <1>9, SueltaManos
<1>11. Contextos' /\ \A p \in Pid : ~Oculto(p)'
  BY <1>1, <1>3, <1>4, <1>5 DEF Contextos, Oculto
<1> QED
  BY <1>3, <1>4, <1>5, <1>6, <1>7, <1>8, <1>10, <1>11, Deja

(* ... or leaves the CPU before its PCB says so: the diagram already sees  *)
(* it WAITING.                                                             *)
LEMMA LugSuelta ==
  ASSUME LugInd, TypeOK', ConexionAtiende, IoSuelta
  PROVE  Lugares' /\ CuentaGrado' /\ PasoDiagrama
<1>1. /\ Identidad /\ LugNew /\ LugListo /\ LugEspera /\ LugManos /\ Contextos /\ CuentaGrado
      /\ fin \in [{"consola", "conexion"} -> Fin]
  BY DEF LugInd, Lugares, ExcInd, TipoInd, TypeOK
<1>2. /\ running \in Pid /\ pcb[running].estado = "RUNNING" /\ \A p : ManosDe(p) <=> p = running
      /\ pc["conexion"] = "atender" /\ pc'["conexion"] = "bloquear"
      /\ pc'["largo"] = pc["largo"]
      /\ UNCHANGED <<respuestas, cpu_pcb, cpu_estado, cola_new, cola_vrr,
                     contador_pcb, running, grado>>
      /\ dispatch = <<>> /\ respuestas = <<>> /\ cpu_estado # "ciclo" /\ \A p : ~Oculto(p)
  BY AtiendeDatos DEF IoSuelta
<1>3. /\ UNCHANGED <<pcb, bloqueados, dispatch, cola_ready, en_io, sem_grado>>
      /\ fin'["conexion"].pcb = running
  BY <1>1 DEF IoSuelta, recursosVars, Fin
<1>4. Mueve({}, "READY") /\ Mueve({}, "SIN_CREAR")
  BY <1>3, NadieSeMueve
<1>5. Identidad' /\ LugNew' /\ LugListo' /\ LugEspera'
  BY <1>1, <1>2, <1>3 DEF Identidad, LugNew, LugListo, LugEspera, Bloqueado
<1>6. ~Ocupado' /\ Guardado' /\ \A p \in Pid : Oculto(p)' <=> p = running
  BY <1>2, <1>3 DEF Ocupado, Guardado, Oculto
<1>7. LugManos'
  <2>1. \A p : ManosDe(p)' <=> ManosDe(p)
    BY <1>2, <1>3, <1>6 DEF ManosDe
  <2> QED
    BY <1>1, <1>3, <1>6, <2>1 DEF LugManos
<1>8. Contextos'
  BY <1>1, <1>2, <1>3 DEF Contextos
<1>9. CuentaGrado'
  BY <1>1, <1>2, <1>3, GradoQuieto DEF Admitidos
<1>10. Abstracto!Dejar(running)
  <2>1. Abstracto!Pasar({running}, "WAITING")
    BY <1>2, <1>3, <1>6 DEF Abstracto!Pasar, EstadoVisible, Oculto
  <2>2. running \in Abstracto!Con("RUNNING")
    BY <1>1, <1>2, VisibleEs DEF Abstracto!Con
  <2> QED
    BY <2>1, <2>2 DEF Abstracto!Dejar
<1> QED
  BY <1>2, <1>5, <1>7, <1>8, <1>9, <1>10 DEF Lugares, PasoDiagrama, Abstracto!Next

(* Every branch of the request.                                            *)
LEMMA LugAtiende ==
  ASSUME LugInd, TypeOK', ConexionAtiende
  PROVE  Lugares' /\ CuentaGrado' /\ PasoDiagrama
<1>1. CASE EjecutarWait
  <2> DEFINE r == pedido.arg
  <2>1. /\ r \in Recurso
        /\ Ir("conexion", "recv") /\ UNCHANGED <<cola_ready, en_io, sem_grado, fin>>
    BY <1>1 DEF EjecutarWait
  <2>2. Conceder(running, r) \/ Bloquear(running, r)
    BY <1>1 DEF EjecutarWait
  <2> HIDE DEF r
  <2>3. CASE Conceder(running, r)
    BY <2>1, <2>3, LugConcede
  <2>4. CASE Bloquear(running, r)
    BY <2>1, <2>4, LugBloquea
  <2> QED
    BY <2>2, <2>3, <2>4
<1>2. ~SinMemoria
  BY AtiendeDatos DEF SinMemoria, Pedible
<1> QED
  BY <1>1, <1>2, LugSenal, LugInvalido, LugDuerme, LugSuelta DEF ConexionAtiende

(* ... the PCB that it kept enters its interface ...                       *)
LEMMA LugEntra ==
  ASSUME LugInd, TypeOK', ConexionBloquea
  PROVE  Lugares' /\ CuentaGrado' /\ PasoDiagrama
<1> DEFINE n == fin["conexion"].pcb
<1>1. /\ Identidad /\ LugNew /\ LugListo /\ LugEspera /\ LugManos /\ Contextos /\ CuentaGrado
      /\ TypeOK /\ pcb \in [Pid -> Pcb] /\ fin \in [{"consola", "conexion"} -> Fin]
      /\ PedidosBuenos /\ pc \in [Hilo -> Punto]
  BY DEF LugInd, Lugares, ExcInd, TipoInd, Reglas, TypeOK
<1>2. /\ pc["conexion"] = "bloquear"
      /\ UNCHANGED <<bloqueados, dispatch, respuestas, cpu_pcb, cpu_estado, cola_new,
                     cola_ready, cola_vrr, sem_grado, grado, contador_pcb, running>>
  BY DEF ConexionBloquea, recursosVars, cicloVars, canales, cpuVars, semaforos, consolaVars
<1>3. pedido.op = "IO_STD" /\ pedido.arg \in Interfaz
  BY <1>1, <1>2 DEF PedidosBuenos, Pedible
<1>4. n \in Pid
  BY <1>1 DEF Fin
<1>5. /\ \E queda : pcb' = [pcb EXCEPT ![n].estado = "WAITING", ![n].resto = queda]
      /\ en_io' = [en_io EXCEPT ![n] = @ + 1]
      /\ Ir("conexion", "recv")
  BY <1>3 DEF ConexionBloquea, EjecutarIO
<1>6. pc'["conexion"] = "recv" /\ pc'["largo"] = pc["largo"]
  BY <1>1, <1>5 DEF Ir, Hilo
<1> HIDE DEF n
<1>7. Mueve({n}, "WAITING")
  BY <1>1, <1>4, <1>5, MueveUno
<1>8. Guardado /\ ~Guardado' /\ (Ocupado' <=> Ocupado)
  BY <1>2, <1>6 DEF Guardado, Ocupado
<1>9. pcb[n].estado = "RUNNING"
  BY <1>1, <1>4, <1>8 DEF LugManos, ManosDe, n
<1>10. Identidad' /\ LugNew' /\ LugListo' /\ LugEspera'
  <2>1. Identidad' /\ LugNew' /\ LugListo'
    BY <1>1, <1>2, <1>7, <1>9, IdentidadQuieta, NewQuieto, ListoQuieto
  <2>2. LugEspera'
    BY <1>1, <1>2, <1>4, <1>5, <1>7, <1>9, EsperaInterfaz
  <2> QED
    BY <2>1, <2>2
<1>11. LugManos'
  <2>1. \A p \in Pid : ManosDe(p)' <=> ManosDe(p) /\ p # n
    BY <1>1, <1>2, <1>8 DEF ManosDe, LugManos, n
  <2> QED
    BY <1>1, <1>7, <1>8, <2>1 DEF LugManos, Mueve
<1>12. Contextos'
  BY <1>1, <1>2, <1>6 DEF Contextos
<1>13. CuentaGrado'
  <2>1. Admitidos' = Admitidos
    BY <1>7, <1>9, AdmitidosQuietos DEF Admitido
  <2> QED
    BY <1>1, <1>2, <1>6, <2>1, GradoQuieto
<1>14. UNCHANGED <<EstadoVisible, grado>>
  <2>1. \A p \in Pid : (Oculto(p) <=> p = n) /\ ~Oculto(p)'
    BY <1>2, <1>6 DEF Oculto, n
  <2> QED
    BY <1>2, <1>7, <2>1 DEF EstadoVisible, Oculto, Mueve
<1> QED
  BY <1>10, <1>11, <1>12, <1>13, <1>14 DEF Lugares, PasoDiagrama

(* ... gives back what the process that ends holds ...                     *)
LEMMA LugDevuelve ==
  ASSUME LugInd, TypeOK', LiberarRecurso("conexion")
  PROVE  Lugares' /\ CuentaGrado' /\ PasoDiagrama
<1> DEFINE r == RecursoDe("conexion")
           s == Despertados(r)
<1>1. /\ LugListo /\ LugEspera /\ LugManos /\ Contextos /\ CuentaGrado /\ TypeOK
      /\ pcb \in [Pid -> Pcb] /\ fin \in [{"consola", "conexion"} -> Fin]
  BY DEF LugInd, Lugares, ExcInd, TipoInd, TypeOK
<1>2. UNCHANGED <<pc, dispatch, respuestas, cpu_pcb, cpu_estado, cola_new, cola_vrr, en_io,
                  sem_grado, grado, contador_pcb, running>>
  BY LiberarQuieto DEF cicloVars, canales, cpuVars, consolaVars
<1>3. fin'["conexion"].pcb = fin["conexion"].pcb /\ fin'["conexion"].pid = fin["conexion"].pid
  BY <1>1, LiberarMismo
<1>4. (Ocupado' <=> Ocupado) /\ (Guardado' <=> Guardado)
  BY <1>2 DEF Ocupado, Guardado
<1>5. Contextos'
  BY <1>1, <1>2, <1>3 DEF Contextos
<1>6. CASE DespertarUno("conexion")
  <2>1. r \in Recurso /\ Despertar(r) /\ AgregarReady(pcb, s)
    BY <1>1, <1>6, TipoVuelta DEF DespertarUno, EnVuelta
  <2> HIDE DEF r
  <2>2. /\ s \in Seq(Pid) /\ IsInjective(s) /\ ToSet(s) \subseteq Pid
        /\ \A p \in ToSet(s) : pcb[p].estado = "WAITING"
    BY <1>1, <2>1, DespertadosEsperan
  <2>3. Mueve(ToSet(s), "READY")
    BY <1>1, <2>1, <2>2, MueveReady
  <2>4. LugEspera'
    BY <1>1, <1>2, <2>1, <2>3, EsperaDespierta
  <2> HIDE DEF s
  <2>5. LugListo'
    BY <1>1, <1>2, <2>1, <2>2, <2>3, ListoAgrega DEF AgregarReady
  <2> QED
    BY <1>2, <1>3, <1>4, <1>5, <2>2, <2>3, <2>4, <2>5, Despiertan
<1>7. CASE MirarRecurso("conexion") \/ DevolverUna("conexion")
  <2>1. UNCHANGED <<pcb, colas, bloqueados>>
    BY <1>7 DEF MirarRecurso, DevolverUna, recursosVars
  <2>2. CuentaGrado'
    BY <1>1, <1>2, <2>1, GradoQuieto DEF Admitidos
  <2> QED
    BY <1>2, <1>3, <1>4, <1>5, <2>1, <2>2, NadieSeMueve, Quieto
<1> QED
  BY <1>6, <1>7 DEF LiberarRecurso

(* ... and frees its place; its PCB is in nobody's hands any more ...      *)
LEMMA LugTermina ==
  ASSUME LugInd, TypeOK', TerminarProceso("conexion")
  PROVE  Lugares' /\ CuentaGrado' /\ PasoDiagrama
<1> DEFINE n == fin["conexion"].pcb
<1>1. /\ LugListo /\ LugEspera /\ LugManos /\ Contextos /\ PedidosBuenos
      /\ TypeOK /\ pcb \in [Pid -> Pcb] /\ fin \in [{"consola", "conexion"} -> Fin]
      /\ pc \in [Hilo -> Punto]
  BY DEF LugInd, Lugares, ExcInd, TipoInd, Reglas, TypeOK
<1>2. /\ pc["conexion"] = "liberar" /\ Ir("conexion", "recv")
      /\ pcb' = [pcb EXCEPT ![n].estado = "TERMINATED"] /\ sem_grado' = sem_grado + 1
      /\ UNCHANGED <<bloqueados, dispatch, respuestas, cpu_pcb, cpu_estado, cola_new,
                     cola_ready, cola_vrr, en_io, grado, contador_pcb, running>>
  BY <1>1 DEF PedidosBuenos, TerminarProceso, LiberarProceso, recursosVars, cicloVars, canales,
              cpuVars, colas, consolaVars
<1>3. pc'["conexion"] = "recv" /\ pc'["largo"] = pc["largo"]
  BY <1>1, <1>2 DEF Ir, Hilo
<1>4. n \in Pid
  BY <1>1 DEF Fin
<1>5. Guardado /\ ~Guardado' /\ (Ocupado' <=> Ocupado)
  BY <1>2, <1>3 DEF Guardado, Ocupado
<1> HIDE DEF n
<1>6. Mueve({n}, "TERMINATED")
  BY <1>1, <1>2, <1>4, MueveUno
<1>7. pcb[n].estado = "RUNNING"
  BY <1>1, <1>4, <1>5 DEF LugManos, ManosDe, n
<1>8. LugListo' /\ LugEspera'
  BY <1>1, <1>2, <1>4, <1>6, <1>7, ListoQuieto, EsperaQuieta
<1>9. LugManos'
  <2>1. \A p \in Pid : ManosDe(p)' <=> ManosDe(p) /\ p # n
    BY <1>1, <1>2, <1>5 DEF ManosDe, LugManos, n
  <2> QED
    BY <1>1, <1>5, <1>6, <2>1 DEF LugManos, Mueve
<1>10. Contextos' /\ \A p \in Pid : ~Oculto(p) /\ ~Oculto(p)'
  BY <1>1, <1>2, <1>3 DEF Contextos, Oculto
<1> QED
  BY <1>2, <1>3, <1>4, <1>6, <1>7, <1>8, <1>9, <1>10, Deja

(* ... or only goes on, in its pause, after an unlock, after a give-back.  *)
LEMMA LugConexion ==
  ASSUME Serial, LugInd, TypeOK', PasoConexion
  PROVE  Lugares' /\ CuentaGrado' /\ PasoDiagrama
<1>1. CASE ConexionDetenida \/ ConexionSuelta \/ TerminarDevolucion
  <2>1. /\ CuentaGrado /\ Contextos /\ pc \in [Hilo -> Punto]
    BY DEF LugInd, Lugares, ExcInd, TipoInd, TypeOK
  <2>2. /\ UNCHANGED <<pcb, colas, bloqueados, dispatch, respuestas, cpu_pcb, cpu_estado,
                       sem_grado, grado, contador_pcb, running>>
        /\ UNCHANGED fin \/ pc["conexion"] = "devolver"
    BY <1>1
    DEF ConexionDetenida, ConexionSuelta, TerminarDevolucion, recursosVars, cicloVars, canales,
        cpuVars, semaforos, consolaVars
  <2>3. /\ \/ pc["conexion"] = "detenido" /\ pc'["conexion"] = "atender"
           \/ pc["conexion"] \in {"soltar", "devolver"} /\ pc'["conexion"] = "recv"
        /\ pc'["largo"] = pc["largo"]
    BY <1>1, <2>1 DEF ConexionDetenida, ConexionSuelta, TerminarDevolucion, Ir, Hilo
  <2>4. (Ocupado' <=> Ocupado) /\ (Guardado' <=> Guardado)
    BY <2>2, <2>3 DEF Ocupado, Guardado
  <2>5. Contextos'
    BY <2>1, <2>2, <2>3 DEF Contextos
  <2>6. CuentaGrado'
    BY <2>1, <2>2, <2>3, GradoQuieto DEF Admitidos
  <2>7. fin'["conexion"].pcb = fin["conexion"].pcb \/ ~Guardado
    BY <2>2 DEF Guardado
  <2> QED
    BY <2>2, <2>3, <2>4, <2>5, <2>6, <2>7, NadieSeMueve, Quieto
<1> QED
  BY <1>1, LugRecibe, LugAtiende, LugEntra, LugDevuelve, LugTermina DEF PasoConexion

-----------------------------------------------------------------------------
(* Before the first process everything is empty and every place is free.   *)
LEMMA LugInicial == Init => LugInd /\ Abstracto!Init
<1> SUFFICES ASSUME Init PROVE LugInd /\ Abstracto!Init
  OBVIOUS
<1>1. /\ \A p \in Pid : pcb[p].estado = "SIN_CREAR" /\ pcb[p].pid = p
      /\ contador_pcb = 0 /\ cola_new = <<>> /\ cola_ready = <<>> /\ cola_vrr = <<>>
      /\ \A p \in Pid : en_io[p] = 0
      /\ \A r \in Recurso : bloqueados[r] = <<>>
      /\ dispatch = <<>> /\ respuestas = <<>> /\ cpu_estado = "ocioso"
      /\ pc["conexion"] = "recv" /\ pc["largo"] = "new" /\ sem_grado = Grado /\ grado = Grado
  BY DEF Init, RecursosInit, CicloInit
<1>2. ToSet(<<>>) = {} /\ IsInjective(<<>>)
  BY DEF ToSet, IsInjective
<1>3. Identidad
  <2>1. \A p \in Pid : p >= 0
    BY PidCero
  <2> QED
    BY <1>1, <2>1 DEF Identidad
<1>4. LugNew /\ LugListo /\ LugEspera
  BY <1>1, <1>2 DEF LugNew, Creciente, LugListo, LugEspera, Bloqueado
<1>5. LugManos /\ Contextos
  BY <1>1 DEF LugManos, ManosDe, Ocupado, Guardado, Contextos
<1>6. CuentaGrado
  <2>1. Admitido = {}
    BY <1>1 DEF Admitido
  <2>2. Admitidos = 0
    BY <2>1, FS_EmptySet DEF Admitido, Admitidos
  <2> QED
    BY <1>1, <2>2, ConfiguracionAssumption DEF CuentaGrado
<1>7. Abstracto!Init
  BY <1>1 DEF Abstracto!Init, EstadoVisible
<1> QED
  BY <1>3, <1>4, <1>5, <1>6, <1>7, ExcInicial DEF LugInd, Lugares

(* A stutter keeps everything where it is.                                 *)
LEMMA LugIgual == LugInd /\ UNCHANGED vars => LugInd' /\ PasoDiagrama
<1> SUFFICES ASSUME LugInd, UNCHANGED vars PROVE LugInd' /\ PasoDiagrama
  OBVIOUS
<1>1. UNCHANGED <<pcb, contador_pcb, cola_new, cola_ready, cola_vrr, en_io, bloqueados,
                  dispatch, respuestas, cpu_pcb, cpu_estado, pc, fin, running, sem_grado,
                  grado>>
  BY DEF vars, kernelVars, recursosVars, cicloVars, canales, cpuVars, colas, semaforos,
         consolaVars
<1>2. Lugares'
  BY <1>1 DEF LugInd, Lugares, Identidad, LugNew, LugListo, LugEspera, Bloqueado, LugManos,
              ManosDe, Ocupado, Guardado, Contextos
<1>3. CuentaGrado'
  BY <1>1 DEF LugInd, CuentaGrado, Admitidos
<1>4. UNCHANGED <<EstadoVisible, grado>>
  BY <1>1 DEF EstadoVisible
<1> QED
  BY <1>2, <1>3, <1>4, ExcIgual DEF LugInd, PasoDiagrama

(* Every step keeps the invariant and is a step of the diagram.            *)
LEMMA LugPaso == Serial /\ LugInd /\ [Next]_vars => LugInd' /\ PasoDiagrama
<1> SUFFICES ASSUME Serial, LugInd, Next PROVE LugInd' /\ PasoDiagrama
  BY LugIgual
<1>1. ExcInd'
  <2>1. TipoInd'
    BY TipoPaso DEF LugInd, ExcInd
  <2>2. Reglas' /\ \E d \in Dueno : Manos(d)'
    BY ExcConsola, ExcLargo, ExcCorto, ExcCpu, ExcOtros, ExcConexion DEF Next, LugInd
  <2> QED
    BY <2>1, <2>2 DEF ExcInd
<1>2. TypeOK'
  BY <1>1 DEF ExcInd, TipoInd
<1>3. Lugares' /\ CuentaGrado' /\ PasoDiagrama
  BY <1>2, LugConsola, LugLargo, LugCorto, LugCpu, LugVuelta, LugConexion DEF Next
<1> QED
  BY <1>1, <1>3 DEF LugInd

(* In a Serial system every reachable state is one of the invariant.       *)
LEMMA LugSiempre == Serial => (Spec => [](LugInd /\ TypeOK))
<1>1. LugInd => TypeOK
  BY DEF LugInd, ExcInd, TipoInd
<1> SUFFICES ASSUME Serial PROVE Spec => [](LugInd /\ TypeOK)
  OBVIOUS
<1> QED
  BY <1>1, LugInicial, LugPaso, PTL DEF Spec

-----------------------------------------------------------------------------
(* running is the process whose context travels, executes or comes back,   *)
(* so no process's registers are ever written into another's PCB.          *)
THEOREM ContextoDeRunning == Serial => (Spec => []RunningCorrecto)
<1>1. LugInd => RunningCorrecto
  <2> SUFFICES ASSUME LugInd PROVE RunningCorrecto
    OBVIOUS
  <2>1. Identidad /\ LugManos /\ Contextos /\ SinDespachos /\ running \in Pid \cup {NADIE}
    BY DEF LugInd, Lugares, ExcInd, TipoInd, TypeOK
  <2>2. Tiene("viaje") \/ Tiene("ciclo") \/ Tiene("vuelta") => Ocupado /\ running # NADIE
    BY <2>1 DEF Tiene, Ocupado, SinDespachos
  <2>3. Tiene("viaje") \/ Tiene("ciclo") \/ Tiene("vuelta") => pcb[running].estado = "RUNNING"
    BY <2>1, <2>2 DEF LugManos, ManosDe
  <2> QED
    BY <2>1, <2>3 DEF RunningCorrecto, Identidad, Contextos
<1> QED
  <2> SUFFICES ASSUME Serial PROVE Spec => []RunningCorrecto
    OBVIOUS
  <2> QED
    BY <1>1, LugSiempre, PTL

(* A ready process is once in one of the two ready queues.                 *)
LEMMA ListosUna ==
  ASSUME TypeOK, LugListo, NEW p \in Pid
  PROVE  EnListos(p) = IF pcb[p].estado = "READY" THEN 1 ELSE 0
<1>1. cola_ready \in Seq(Pid) /\ cola_vrr \in Seq(Pid)
  BY DEF TypeOK
<1>2. /\ Veces(cola_ready, p) = IF p \in ToSet(cola_ready) THEN 1 ELSE 0
      /\ Veces(cola_vrr, p) = IF p \in ToSet(cola_vrr) THEN 1 ELSE 0
  BY <1>1, VecesUna DEF LugListo
<1> QED
  BY <1>2 DEF LugListo, EnListos

(* A waiting process waits once.                                           *)
LEMMA EsperaUna ==
  ASSUME TypeOK, LugEspera, NEW p \in Pid
  PROVE  EnEspera(p) = IF pcb[p].estado = "WAITING" THEN 1 ELSE 0
<1>1. bloqueados \in [Recurso -> Seq(Pid)]
  BY DEF TypeOK, RecursosTypeOK
<1>2. \A x : x \in Esperas(p) <=>
               \E r \in Recurso : \E i \in DOMAIN bloqueados[r] :
                 bloqueados[r][i] = p /\ x = <<r, i>>
  BY DEF Esperas
<1>3. CASE Bloqueado(p)
  <2>1. PICK r \in Recurso : p \in ToSet(bloqueados[r])
    BY <1>3 DEF Bloqueado
  <2>2. PICK i \in DOMAIN bloqueados[r] : bloqueados[r][i] = p
    BY <2>1 DEF ToSet
  <2>3. \A s \in Recurso : \A j \in DOMAIN bloqueados[s] :
          bloqueados[s][j] = p => s = r /\ j = i
    <3> SUFFICES ASSUME NEW s \in Recurso, NEW j \in DOMAIN bloqueados[s],
                        bloqueados[s][j] = p
                 PROVE  s = r /\ j = i
      OBVIOUS
    <3>1. p \in ToSet(bloqueados[s])
      BY DEF ToSet
    <3>2. s = r
      BY <2>1, <3>1 DEF LugEspera
    <3> QED
      BY <2>2, <3>2 DEF LugEspera, IsInjective
  <2>4. Esperas(p) = {<<r, i>>}
    <3>1. \A x : x \in Esperas(p) <=> x = <<r, i>>
      BY <1>2, <2>2, <2>3
    <3> QED
      BY <3>1
  <2>5. Cardinality(Esperas(p)) = 1
    BY <2>4, FS_Singleton
  <2> QED
    BY <1>3, <2>5 DEF LugEspera, EnEspera
<1>4. CASE ~Bloqueado(p)
  <2>1. Esperas(p) = {}
    BY <1>2, <1>4 DEF Bloqueado, ToSet
  <2>2. Cardinality(Esperas(p)) = 0
    BY <2>1, FS_EmptySet
  <2>3. en_io[p] \in {0, 1} /\ (en_io[p] = 1 <=> pcb[p].estado = "WAITING")
    BY <1>4 DEF LugEspera
  <2> QED
    BY <2>2, <2>3 DEF EnEspera
<1> QED
  BY <1>3, <1>4

(* Every live process is in exactly one queue, interface or hand, the one  *)
(* its state names, and a dead one in none.                                *)
THEOREM CadaUnoEnSuLugar == Serial => (Spec => []UnSoloLugar)
<1>1. LugInd => UnSoloLugar
  <2> SUFFICES ASSUME LugInd, NEW p \in Pid
               PROVE  <<Veces(cola_new, p), EnListos(p), IF EnManos(p) THEN 1 ELSE 0,
                        EnEspera(p)>>
                        = CASE pcb[p].estado = "NEW" -> <<1, 0, 0, 0>>
                            [] pcb[p].estado = "READY" -> <<0, 1, 0, 0>>
                            [] pcb[p].estado = "RUNNING" -> <<0, 0, 1, 0>>
                            [] pcb[p].estado = "WAITING" -> <<0, 0, 0, 1>>
                            [] OTHER -> <<0, 0, 0, 0>>
    BY DEF UnSoloLugar
  <2>1. /\ LugNew /\ LugListo /\ LugEspera /\ LugManos /\ TypeOK
        /\ cola_new \in Seq(Pid) /\ cola_ready \in Seq(Pid) /\ cola_vrr \in Seq(Pid)
    BY DEF LugInd, Lugares, ExcInd, TipoInd, TypeOK
  <2>2. Veces(cola_new, p) = IF pcb[p].estado = "NEW" THEN 1 ELSE 0
    <3>1. IsInjective(cola_new)
      <4> SUFFICES ASSUME NEW i \in DOMAIN cola_new, NEW j \in DOMAIN cola_new,
                          cola_new[i] = cola_new[j]
                   PROVE  i = j
        BY DEF IsInjective
      <4>1. i \in Nat /\ j \in Nat /\ cola_new[i] \in Nat
        <5>1. i \in 1 .. Len(cola_new) /\ j \in 1 .. Len(cola_new) /\ Len(cola_new) \in Nat
          BY <2>1, LenProperties
        <5>2. cola_new[i] \in Pid
          BY <2>1, <5>1, ElementOfSeq
        <5>3. cola_new[i] \in Nat
          BY <5>2, PidCero
        <5> QED
          BY <5>1, <5>3
      <4>2. ~(i < j) /\ ~(j < i)
        BY <2>1, <4>1 DEF LugNew, Creciente
      <4> QED
        BY <4>1, <4>2
    <3> QED
      BY <2>1, <3>1, VecesUna DEF LugNew
  <2>3. EnListos(p) = IF pcb[p].estado = "READY" THEN 1 ELSE 0
    BY <2>1, ListosUna
  <2>4. EnManos(p) <=> pcb[p].estado = "RUNNING"
    <3>1. Tiene("viaje") \/ Tiene("ciclo") \/ Tiene("vuelta")
            <=> dispatch # <<>> \/ cpu_estado = "ciclo" \/ respuestas # <<>>
      BY DEF Tiene
    <3>2. EnManos(p) <=> ManosDe(p)
      BY <3>1 DEF EnManos, ManosDe, Ocupado, Guardado
    <3> QED
      BY <2>1, <3>2 DEF LugManos
  <2>5. EnEspera(p) = IF pcb[p].estado = "WAITING" THEN 1 ELSE 0
    BY <2>1, EsperaUna
  <2> QED
    BY <2>2, <2>3, <2>4, <2>5
<1> QED
  <2> SUFFICES ASSUME Serial PROVE Spec => []UnSoloLugar
    OBVIOUS
  <2> QED
    BY <1>1, LugSiempre, PTL

(* Free places plus processes admitted make the configured degree.         *)
THEOREM GradoRespetado == Serial => (Spec => []CuentaGrado)
<1>1. LugInd => CuentaGrado
  BY DEF LugInd
<1> QED
  <2> SUFFICES ASSUME Serial PROVE Spec => []CuentaGrado
    OBVIOUS
  <2> QED
    BY <1>1, LugSiempre, PTL

(* The threads, semaphores and queues implement the five-state diagram     *)
(* under a degree of multiprogramming, step by step.                       *)
THEOREM ImplementaCincoEstados == Serial => (Spec => CumpleCincoEstados)
<1> SUFFICES ASSUME Serial PROVE Spec => CumpleCincoEstados
  OBVIOUS
<1>1. Init => Abstracto!Init
  BY LugInicial
<1>2. LugInd /\ [Next]_vars => [Abstracto!Next]_<<EstadoVisible, grado>>
  BY LugPaso DEF PasoDiagrama
<1> QED
  BY <1>1, <1>2, LugSiempre, PTL DEF Spec, CumpleCincoEstados, Abstracto!Spec

(* No queue, timer or interface brings a terminated process back.          *)
THEOREM SinResucitados == Serial => (Spec => TerminadoNoRevive)
<1> DEFINE Muertos == \A p \in Pid : pcb[p].estado = "TERMINATED" => pcb'[p].estado = "TERMINATED"
<1> SUFFICES ASSUME Serial PROVE Spec => TerminadoNoRevive
  OBVIOUS
<1>1. LugInd => \A p \in Pid : EstadoVisible[p] = "TERMINATED" <=> pcb[p].estado = "TERMINATED"
  <2> SUFFICES ASSUME LugInd, NEW p \in Pid
               PROVE  EstadoVisible[p] = "TERMINATED" <=> pcb[p].estado = "TERMINATED"
    OBVIOUS
  <2>1. Oculto(p) => pcb[p].estado = "RUNNING"
    BY DEF LugInd, Lugares, Oculto, LugManos, ManosDe, Guardado
  <2> QED
    BY <2>1 DEF EstadoVisible, Oculto
<1>2. PasoDiagrama => \A p \in Pid : EstadoVisible[p] = "TERMINATED"
                                       => EstadoVisible'[p] = "TERMINATED"
  BY DEF PasoDiagrama, Abstracto!Next, Abstracto!Crear, Abstracto!Admitir,
         Abstracto!Despachar, Abstracto!Dejar, Abstracto!Despertar, Abstracto!CambiarLimite,
         Abstracto!Con, Abstracto!Pasar
<1>3. LugInd /\ [Next]_vars => Muertos
  <2> SUFFICES ASSUME LugInd, [Next]_vars PROVE Muertos
    OBVIOUS
  <2>1. LugInd' /\ PasoDiagrama
    BY LugPaso
  <2>2. \A p \in Pid : EstadoVisible'[p] = "TERMINATED" <=> pcb'[p].estado = "TERMINATED"
    <3> SUFFICES ASSUME NEW p \in Pid
                 PROVE  EstadoVisible'[p] = "TERMINATED" <=> pcb'[p].estado = "TERMINATED"
      OBVIOUS
    <3>1. Oculto(p)' => pcb'[p].estado = "RUNNING"
      BY <2>1 DEF LugInd, Lugares, Oculto, LugManos, ManosDe, Guardado
    <3> QED
      BY <3>1 DEF EstadoVisible, Oculto
  <2> QED
    BY <1>1, <1>2, <2>1, <2>2
<1> QED
  BY <1>3, LugSiempre, PTL DEF Spec, TerminadoNoRevive
=============================================================================
