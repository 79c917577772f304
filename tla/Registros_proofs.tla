--------------------------- MODULE Registros_proofs ---------------------------
(***************************************************************************)
(* Theorems about Registros, for bytes of any size, any programs and any   *)
(* number of processes: types, and the refinement of MaquinaIdeal.         *)
(***************************************************************************)
EXTENDS Registros, TLAPS

-----------------------------------------------------------------------------
(* Arithmetic modulo m.                                                    *)

\* A remainder is in range.
LEMMA ModTipo ==
  ASSUME NEW m \in Nat \ {0}, NEW v \in Int
  PROVE  v % m \in 0 .. m - 1
  OBVIOUS

\* A number in range is its own remainder.
LEMMA ModPropio ==
  ASSUME NEW m \in Nat \ {0}, NEW v \in 0 .. m - 1
  PROVE  v % m = v
  OBVIOUS

\* Quotient and remainder.
LEMMA DivMod ==
  ASSUME NEW m \in Nat \ {0}, NEW v \in Int
  PROVE  v \div m \in Int /\ v = m * (v \div m) + (v % m)
  OBVIOUS

\* Two remainders that differ by a multiple are equal.
LEMMA Unico ==
  ASSUME NEW m \in Nat \ {0}, NEW a \in 0 .. m - 1, NEW b \in 0 .. m - 1,
         NEW j \in Int, NEW k \in Int, a + m * j = b + m * k
  PROVE  a = b
  <1>1. a - b = m * (k - j) OBVIOUS
  <1>2. a - b < m /\ a - b > -m OBVIOUS
  <1> DEFINE d == k - j
  <1>3. d \in Int OBVIOUS
  <1>4. d >= 1 => m * d >= m BY <1>3
  <1>5. d <= -1 => m * d <= -m BY <1>3
  <1>6. d = 0 BY <1>1, <1>2, <1>3, <1>4, <1>5
  <1> QED BY <1>1, <1>6

\* A multiple of the modulus adds nothing.
LEMMA ModSuma ==
  ASSUME NEW m \in Nat \ {0}, NEW v \in Int, NEW k \in Int, NEW w \in Int, w = v + m * k
  PROVE  w % m = v % m
  <1> DEFINE a == v % m
             b == w % m
             q == v \div m
             r == w \div m
             j == q + k
  <1>1. v = m * q + a /\ q \in Int BY DivMod
  <1>2. w = m * r + b /\ r \in Int BY DivMod
  <1>3. a \in 0 .. m - 1 /\ b \in 0 .. m - 1 BY ModTipo
  <1> HIDE DEF a, b, q, r
  <1>4. a + m * j = b + m * r /\ j \in Int BY <1>1, <1>2, <1>3
  <1> HIDE DEF j
  <1>5. a = b BY <1>2, <1>3, <1>4, Unico
  <1> QED BY <1>5 DEF a, b

-----------------------------------------------------------------------------
(* The widths.                                                             *)

\* A word is a whole number of bytes.
LEMMA WordTipo ==
  /\ BYTE \in Nat \ {0} /\ WORD \in Nat \ {0} /\ WORD >= BYTE
  /\ BYTE * BYTE * BYTE \in Nat /\ WORD = BYTE * (BYTE * BYTE * BYTE)
  <1> DEFINE c == BYTE * BYTE * BYTE
  <1>1. BYTE \in Nat /\ BYTE >= 1 BY RegistrosAssumption
  <1>2. BYTE * BYTE \in Nat /\ BYTE * BYTE >= 1 BY <1>1
  <1>3. c \in Nat /\ c >= 1 BY <1>1, <1>2
  <1>4. WORD = BYTE * c BY <1>1 DEF WORD
  <1> HIDE DEF c
  <1>5. BYTE * c >= BYTE /\ BYTE * c \in Nat BY <1>1, <1>3
  <1> QED BY <1>1, <1>3, <1>4, <1>5 DEF c

\* Truncating to a word first does not change the byte.
LEMMA BytePorWord ==
  ASSUME NEW v \in Int
  PROVE  AUint8(AUint32(v)) = AUint8(v)
  <1> DEFINE k == BYTE * BYTE * BYTE
             q == v \div WORD
             j == k * (-q)
  <1>1. v = WORD * q + (v % WORD) /\ q \in Int BY DivMod, WordTipo
  <1>2. v % WORD \in Int BY ModTipo, WordTipo
  <1>3. k \in Nat /\ WORD = BYTE * k BY WordTipo
  <1> HIDE DEF k, q
  <1>4. WORD * q = BYTE * (k * q) BY <1>1, <1>3, WordTipo
  <1> DEFINE w == v % WORD
  <1>5. j \in Int /\ w \in Int /\ w = v + BYTE * j BY <1>1, <1>2, <1>3, <1>4, WordTipo
  <1> HIDE DEF j, w
  <1>6. w % BYTE = v % BYTE BY <1>5, ModSuma, WordTipo
  <1> QED BY <1>6 DEF AUint8, AUint32, w

\* What is truncated is in range.
LEMMA Truncado ==
  ASSUME NEW v \in Int
  PROVE  AUint8(v) \in 0 .. BYTE - 1 /\ AUint32(v) \in 0 .. WORD - 1
  BY ModTipo, WordTipo DEF AUint8, AUint32

\* An uint32_t that passes through an int keeps its value, and its last byte.
LEMMA PorEntero ==
  ASSUME NEW v \in 0 .. WORD - 1
  PROVE  /\ AEntero(v) \in Int
         /\ AUint32(AEntero(v)) = v
         /\ AUint8(AEntero(v)) = AUint8(v)
  <1>1. AEntero(v) \in Int BY WordTipo DEF AEntero
  <1>2. AUint32(AEntero(v)) = v
    <2> DEFINE k == -1
    <2> DEFINE w == v - WORD
    <2>1. k \in Int /\ v \in Int /\ w \in Int /\ w = v + WORD * k BY WordTipo
    <2> HIDE DEF k, w
    <2>2. w % WORD = v % WORD BY <2>1, ModSuma, WordTipo
    <2>3. v % WORD = v BY ModPropio, WordTipo
    <2> QED BY <2>2, <2>3 DEF AEntero, AUint32, w
  <1>3. AUint8(AUint32(AEntero(v))) = AUint8(AEntero(v)) BY <1>1, BytePorWord
  <1> QED BY <1>1, <1>2, <1>3

\* The byte that comes first in a word is the one the receiver keeps.
LEMMA PalabraFiel ==
  ASSUME NEW a \in 0 .. BYTE - 1, NEW b \in 0 .. BYTE - 1, NEW c \in 0 .. BYTE - 1,
         NEW d \in 0 .. BYTE - 1
  PROVE  Palabra(a, b, c, d) \in 0 .. WORD - 1 /\ AUint8(Palabra(a, b, c, d)) = a
  <1> DEFINE m == BYTE
             C2 == m * m
             C3 == m * m * m
             k1 == c + m * d
             k2 == b + m * k1
  <1>0. m \in Nat \ {0} /\ WORD = m * C3 /\ a \in 0 .. m - 1 BY WordTipo
  <1>1. m * d <= m * (m - 1) BY <1>0
  <1>2. k1 \in 0 .. C2 - 1 BY <1>0, <1>1
  <1>3. C2 \in Nat /\ C3 = m * C2 BY <1>0
  <1> HIDE DEF k1, C2
  <1>4. m * k1 <= m * (C2 - 1) /\ m * k1 >= 0 /\ m * k1 \in Int BY <1>0, <1>2, <1>3
  <1>5. m * (C2 - 1) = m * C2 - m BY <1>0, <1>3
  <1>6. k2 \in 0 .. C3 - 1 BY <1>0, <1>3, <1>4, <1>5
  <1>7. C3 \in Nat BY <1>0, <1>3
  <1> HIDE DEF k2, C3
  <1>8. m * k2 <= m * (C3 - 1) /\ m * k2 >= 0 /\ m * k2 \in Int BY <1>0, <1>6, <1>7
  <1>9. m * (C3 - 1) = m * C3 - m BY <1>0, <1>7
  <1>10. a + m * k2 \in 0 .. WORD - 1
    <2> HIDE DEF m
    <2> QED BY <1>0, <1>7, <1>8, <1>9
  <1>11. (a + m * k2) % m = a
    <2> DEFINE w == a + m * k2
    <2> HIDE DEF m
    <2>1. a \in Int /\ w \in Int /\ w = a + m * k2 /\ k2 \in Int BY <1>0, <1>6, <1>7, <1>8
    <2> HIDE DEF w
    <2>2. w % m = a % m BY <1>0, <2>1, ModSuma
    <2>3. a % m = a BY <1>0, ModPropio DEF m
    <2> QED BY <2>2, <2>3 DEF w
  <1>12. Palabra(a, b, c, d) = a + m * k2 BY DEF Palabra, k1, k2
  <1> QED BY <1>10, <1>11, <1>12 DEF AUint8

-----------------------------------------------------------------------------
(* The packets.                                                            *)

\* The bytes of a 32 bit register.
LEMMA BytesDe ==
  ASSUME NEW e \in 0 .. WORD - 1
  PROVE  /\ e % BYTE \in 0 .. BYTE - 1
         /\ (e \div BYTE) % BYTE \in 0 .. BYTE - 1
         /\ (e \div (BYTE * BYTE)) % BYTE \in 0 .. BYTE - 1
  <1>1. BYTE \in Nat \ {0} /\ e \in Int BY WordTipo
  <1>2. BYTE * BYTE \in Nat \ {0} BY <1>1
  <1>3. e \div BYTE \in Int BY <1>1
  <1> DEFINE c == BYTE * BYTE
  <1> HIDE DEF c
  <1>4. e \div c \in Int BY <1>1, <1>2 DEF c
  <1> QED BY <1>1, <1>3, <1>4, ModTipo DEF c

\* A context is the same after the packet, whatever bytes travel with the
\* short registers.
LEMMA PaqueteFiel ==
  ASSUME NEW c \in Contexto
  PROVE  /\ EmpaquetarPcb(c) \in Paquete
         /\ DesempaquetarPcb(EmpaquetarPcb(c)) = c
  <1> DEFINE r == c.registros
             v == EmpaquetarRegistro(r)
             e == r["EAX"]
             e1 == e % BYTE
             e2 == (e \div BYTE) % BYTE
             e3 == (e \div (BYTE * BYTE)) % BYTE
  <1>1. /\ \A x \in Cortos : r[x] \in 0 .. BYTE - 1
        /\ \A x \in Registro : r[x] \in 0 .. WORD - 1
        /\ r \in Valores
    BY WordTipo DEF Contexto, Registros, Valores, Registro, Cortos
  <1>2. e1 \in 0 .. BYTE - 1 /\ e2 \in 0 .. BYTE - 1 /\ e3 \in 0 .. BYTE - 1
    BY <1>1, BytesDe DEF Registro, Largos
  <1> HIDE DEF e1, e2, e3
  <1>3. \A x \in Cortos : v[x] \in 0 .. WORD - 1 /\ AUint8(v[x]) = r[x]
    <2>1. /\ v["AX"] = Palabra(r["AX"], r["BX"], r["CX"], r["DX"])
          /\ v["BX"] = Palabra(r["BX"], r["CX"], r["DX"], e1)
          /\ v["CX"] = Palabra(r["CX"], r["DX"], e1, e2)
          /\ v["DX"] = Palabra(r["DX"], e1, e2, e3)
      BY DEF EmpaquetarRegistro, Registro, Cortos, e1, e2, e3
    <2>2. /\ r["AX"] \in 0 .. BYTE - 1 /\ r["BX"] \in 0 .. BYTE - 1
          /\ r["CX"] \in 0 .. BYTE - 1 /\ r["DX"] \in 0 .. BYTE - 1
      BY <1>1 DEF Cortos
    <2> HIDE DEF v, r
    <2>3. v["AX"] \in 0 .. WORD - 1 /\ AUint8(v["AX"]) = r["AX"] BY <2>1, <2>2, PalabraFiel
    <2>4. v["BX"] \in 0 .. WORD - 1 /\ AUint8(v["BX"]) = r["BX"]
      BY <1>2, <2>1, <2>2, PalabraFiel, SMTT(90)
    <2>5. v["CX"] \in 0 .. WORD - 1 /\ AUint8(v["CX"]) = r["CX"]
      BY <1>2, <2>1, <2>2, PalabraFiel, SMTT(30)
    <2>6. v["DX"] \in 0 .. WORD - 1 /\ AUint8(v["DX"]) = r["DX"] BY <1>2, <2>1, <2>2, PalabraFiel
    <2> QED BY <2>3, <2>4, <2>5, <2>6 DEF Cortos
  <1>4. \A x \in Registro \ Cortos : v[x] = r[x]
    BY DEF EmpaquetarRegistro, Registro, Cortos
  <1>5. DOMAIN v = Registro BY DEF EmpaquetarRegistro
  <1>6. v \in Valores
    <2>1. v = [x \in Registro |-> v[x]] BY DEF EmpaquetarRegistro
    <2> HIDE DEF v
    <2>2. \A x \in Registro : v[x] \in 0 .. WORD - 1 BY <1>1, <1>3, <1>4
    <2> QED BY <2>1, <2>2 DEF Valores
  <1> HIDE DEF v
  <1>7. DesempaquetarRegistros(v) = r
    BY <1>1, <1>3, <1>4, <1>5 DEF DesempaquetarRegistros, Valores
  <1> QED BY <1>6, <1>7 DEF EmpaquetarPcb, DesempaquetarPcb, Paquete, Contexto, v

\* What is unpacked is a context.
LEMMA DesempaquetadoTipo ==
  ASSUME NEW q \in Paquete
  PROVE  DesempaquetarPcb(q) \in Contexto
  <1>1. \A x \in Registro : q.registros[x] \in 0 .. WORD - 1 BY DEF Paquete, Valores
  <1>2. \A x \in Cortos : AUint8(q.registros[x]) \in 0 .. BYTE - 1
    BY <1>1, Truncado, WordTipo DEF Registro
  <1>3. DesempaquetarRegistros(q.registros) \in Registros
    <2> DEFINE r == DesempaquetarRegistros(q.registros)
    <2>1. \A x \in Registro : r[x] = IF x \in Cortos THEN AUint8(q.registros[x])
                                                     ELSE q.registros[x]
      BY DEF DesempaquetarRegistros
    <2>2. r = [x \in Registro |-> r[x]] BY DEF DesempaquetarRegistros
    <2> HIDE DEF r
    <2>3. \A x \in Registro : r[x] \in 0 .. WORD - 1 BY <1>1, <1>2, <2>1, WordTipo
    <2>4. \A x \in Cortos : r[x] < BYTE BY <1>2, <2>1, WordTipo DEF Registro
    <2>5. r \in Valores BY <2>2, <2>3 DEF Valores
    <2> QED BY <2>4, <2>5 DEF r, Registros
  <1> QED BY <1>3 DEF DesempaquetarPcb, Contexto, Paquete

-----------------------------------------------------------------------------
(* The instructions.                                                       *)

Modulo(x) == IF x \in Cortos THEN BYTE ELSE WORD

\* A register keeps its width.
LEMMA GuardarTipo ==
  ASSUME NEW r \in Registros, NEW x \in Registro, NEW v \in Int
  PROVE  Guardar(r, x, v) \in Registros
  <1>1. AUint8(v) \in 0 .. BYTE - 1 /\ AUint32(v) \in 0 .. WORD - 1 BY Truncado
  <1> DEFINE n == IF x \in Cortos THEN AUint8(v) ELSE AUint32(v)
             s == [r EXCEPT ![x] = n]
  <1>2. n \in 0 .. WORD - 1 /\ (x \in Cortos => n < BYTE) BY <1>1, WordTipo
  <1> HIDE DEF n
  <1>3. s \in Registros
    <2>1. r \in Valores /\ \A y \in Cortos : r[y] < BYTE BY DEF Registros
    <2>2. s \in Valores BY <1>2, <2>1 DEF Valores
    <2>3. \A y \in Cortos : s[y] = IF y = x THEN n ELSE r[y]
      BY <2>1 DEF Valores, Registro
    <2> HIDE DEF s
    <2>4. \A y \in Cortos : s[y] < BYTE BY <1>2, <2>1, <2>3
    <2> QED BY <2>2, <2>4 DEF Registros
  <1> QED BY <1>3 DEF Guardar, n

\* What is stored is the number modulo the width: directly, as setear and SUB
\* do, ...
LEMMA GuardarModulo ==
  ASSUME NEW r \in Registros, NEW x \in Registro, NEW v \in Int
  PROVE  Guardar(r, x, AUint32(v)) = [r EXCEPT ![x] = v % Modulo(x)]
  <1>1. AUint8(AUint32(v)) = AUint8(v) BY BytePorWord
  <1>2. AUint32(v) \in 0 .. WORD - 1 BY Truncado
  <1>3. AUint32(AUint32(v)) = AUint32(v) BY <1>2, ModPropio, WordTipo DEF AUint32
  <1>4. AUint8(v) = v % BYTE /\ AUint32(v) = v % WORD BY DEF AUint8, AUint32
  <1> QED BY <1>1, <1>3, <1>4 DEF Guardar, Modulo

\* ... or through the int of asignar_valor_registro.
LEMMA GuardarEntero ==
  ASSUME NEW r \in Registros, NEW x \in Registro, NEW v \in Int
  PROVE  /\ AEntero(AUint32(v)) \in Int
         /\ Guardar(r, x, AEntero(AUint32(v))) = [r EXCEPT ![x] = v % Modulo(x)]
  <1> DEFINE u == AUint32(v)
  <1>1. u \in 0 .. WORD - 1 /\ u \in Int BY Truncado, WordTipo
  <1>2. AUint8(u) = AUint8(v) BY BytePorWord
  <1>3. u = v % WORD /\ AUint8(v) = v % BYTE BY DEF AUint8, AUint32
  <1> HIDE DEF u
  <1>4. AEntero(u) \in Int /\ AUint32(AEntero(u)) = u /\ AUint8(AEntero(u)) = AUint8(u)
    BY <1>1, PorEntero
  <1> QED BY <1>2, <1>3, <1>4 DEF Guardar, Modulo, u

\* The register an operand stands for, and its value through an int.
LEMMA OperandoTipo ==
  ASSUME NEW r \in Registros, NEW x \in Operando
  PROVE  /\ ODi(x) \in Registro
         /\ r[ODi(x)] \in 0 .. WORD - 1 /\ r[ODi(x)] \in Int
         /\ AUint32(ObtenerValorRegistro(r, x)) = r[ODi(x)]
         /\ ObtenerValor(r, x) \in Int
  <1>1. ODi(x) \in Registro BY DEF ODi, Operando, Registro, Largos
  <1>2. r[ODi(x)] \in 0 .. WORD - 1 /\ r[ODi(x)] \in Int
    BY <1>1, WordTipo DEF Registros, Valores
  <1>3. AUint32(AEntero(r[ODi(x)])) = r[ODi(x)] BY <1>2, PorEntero
  <1>4. ObtenerValor(r, x) \in Int BY WordTipo DEF ObtenerValor, Registros, Valores
  <1> QED BY <1>1, <1>2, <1>3, <1>4 DEF ObtenerValorRegistro

\* What each instruction does to a context.
LEMMA SetFiel ==
  ASSUME NEW c \in Contexto, NEW i \in Instruccion
  PROVE  /\ Set(c, i) \in Contexto
         /\ i.reg \in Registro =>
              /\ Set(c, i).pc = c.pc
              /\ Set(c, i).registros = [c.registros EXCEPT ![i.reg] = i.valor % Modulo(i.reg)]
         /\ i.reg \notin Registro /\ i.valor < WORD \div 2 =>
              /\ Set(c, i).pc = i.valor
              /\ Set(c, i).registros = c.registros
  <1>1. i.valor \in Int /\ i.valor \in Nat BY DEF Instruccion
  <1>2. AUint32(i.valor) \in 0 .. WORD - 1 /\ AUint32(i.valor) \in Int BY <1>1, Truncado, WordTipo
  <1>3. AEntero(AUint32(i.valor)) \in Int BY <1>2, PorEntero
  <1>4. CASE i.reg \in Registro
    <2>1. Guardar(c.registros, i.reg, AUint32(i.valor)) \in Registros
      BY <1>2, <1>4, GuardarTipo DEF Contexto
    <2>2. Guardar(c.registros, i.reg, AUint32(i.valor))
            = [c.registros EXCEPT ![i.reg] = i.valor % Modulo(i.reg)]
      BY <1>1, <1>4, GuardarModulo DEF Contexto
    <2> QED BY <1>4, <2>1, <2>2 DEF Set, Setear, Contexto
  <1>5. CASE i.reg \notin Registro
    <2>1. i.valor < WORD \div 2 => AEntero(AUint32(i.valor)) = i.valor
      <3> SUFFICES ASSUME i.valor < WORD \div 2 PROVE AEntero(AUint32(i.valor)) = i.valor
        OBVIOUS
      <3>1. i.valor \in 0 .. WORD - 1 BY <1>1, WordTipo
      <3>2. AUint32(i.valor) = i.valor BY <3>1, ModPropio, WordTipo DEF AUint32
      <3> QED BY <3>1, <3>2, WordTipo DEF AEntero
    <2> QED BY <1>3, <1>5, <2>1 DEF Set, Setear, Contexto
  <1> QED BY <1>4, <1>5

(* SUB: the difference, modulo the width of the register.                  *)
LEMMA SubFiel ==
  ASSUME NEW c \in Contexto, NEW i \in Instruccion
  PROVE  /\ Sub(c, i) \in Contexto
         /\ i.reg \in Registro /\ i.origen \in Registro =>
              /\ Sub(c, i).pc = c.pc
              /\ Sub(c, i).registros =
                   [c.registros EXCEPT ![i.reg] =
                      (c.registros[i.reg] - c.registros[i.origen]) % Modulo(i.reg)]
  <1> DEFINE d == c.registros[ODi(i.reg)]
             o == c.registros[ODi(i.origen)]
             v == d - o
  <1>1. c.registros \in Registros /\ i.reg \in Operando /\ i.origen \in Operando
    BY DEF Contexto, Instruccion
  <1>2. ODi(i.reg) \in Registro /\ d \in Int /\ o \in Int BY <1>1, OperandoTipo
  <1>3. v \in Int BY <1>2
  <1>4. i.reg \in Registro /\ i.origen \in Registro =>
          ODi(i.reg) = i.reg /\ v = c.registros[i.reg] - c.registros[i.origen]
    BY DEF ODi
  <1>5. Sub(c, i) = [c EXCEPT !.registros = Guardar(c.registros, ODi(i.reg), AUint32(v))]
    BY DEF Sub
  <1> HIDE DEF v
  <1>6. AUint32(v) \in Int BY <1>3, Truncado, WordTipo
  <1>7. Guardar(c.registros, ODi(i.reg), AUint32(v)) \in Registros
    BY <1>1, <1>2, <1>6, GuardarTipo
  <1>8. Guardar(c.registros, ODi(i.reg), AUint32(v))
          = [c.registros EXCEPT ![ODi(i.reg)] = v % Modulo(ODi(i.reg))]
    BY <1>1, <1>2, <1>3, GuardarModulo
  <1> QED BY <1>4, <1>5, <1>7, <1>8 DEF Contexto

(* SUM: the sum, modulo the width of the register.                         *)
LEMMA SumFiel ==
  ASSUME NEW c \in Contexto, NEW i \in Instruccion
  PROVE  /\ Sum(c, i) \in Contexto
         /\ i.reg \in Registro /\ i.origen \in Registro =>
              /\ Sum(c, i).pc = c.pc
              /\ Sum(c, i).registros =
                   [c.registros EXCEPT ![i.reg] =
                      (c.registros[i.reg] + c.registros[i.origen]) % Modulo(i.reg)]
  <1> DEFINE d == c.registros[ODi(i.reg)]
             o == c.registros[ODi(i.origen)]
             v == d + o
  <1>1. c.registros \in Registros /\ i.reg \in Operando /\ i.origen \in Operando
    BY DEF Contexto, Instruccion
  <1>2. ODi(i.reg) \in Registro /\ d \in Int /\ o \in Int BY <1>1, OperandoTipo
  <1>3. v \in Int BY <1>2
  <1>4. i.reg \in Registro /\ i.origen \in Registro =>
          ODi(i.reg) = i.reg /\ v = c.registros[i.reg] + c.registros[i.origen]
    BY DEF ODi
  <1>5. Sum(c, i) = [c EXCEPT !.registros =
                       Guardar(c.registros, ODi(i.reg), AEntero(AUint32(v)))]
    <2>1. /\ AUint32(ObtenerValorRegistro(c.registros, i.reg)) = d
          /\ AUint32(ObtenerValorRegistro(c.registros, i.origen)) = o
      BY <1>1, OperandoTipo
    <2> QED BY <2>1 DEF Sum, AsignarValorRegistro
  <1> HIDE DEF v
  <1>6. /\ AEntero(AUint32(v)) \in Int
        /\ Guardar(c.registros, ODi(i.reg), AEntero(AUint32(v)))
              = [c.registros EXCEPT ![ODi(i.reg)] = v % Modulo(ODi(i.reg))]
    BY <1>1, <1>2, <1>3, GuardarEntero
  <1>7. Guardar(c.registros, ODi(i.reg), AEntero(AUint32(v))) \in Registros
    BY <1>1, <1>2, <1>6, GuardarTipo
  <1> QED BY <1>4, <1>5, <1>6, <1>7 DEF Contexto

-----------------------------------------------------------------------------
(* The types.                                                              *)

\* The instruction that is fetched is one, and of a program.
LEMMA FetchTipo ==
  ASSUME RegistrosTypeOK, EnFetch
  PROVE  /\ Leida \in Instruccion
         /\ Avanzado \in Contexto /\ Avanzado.pc = pcb.pc + 1
         /\ Avanzado.registros = pcb.registros
         /\ cpu_pid \in Pid /\ pcb \in Contexto
         /\ ProgramasCorrientes => Corriente(Leida)
  <1>1. cpu_pid \in Pid /\ pcb \in Contexto BY DEF RegistrosTypeOK, EnFetch
  <1>2. codigo[cpu_pid] \in Programas BY <1>1 DEF RegistrosTypeOK
  <1>3. codigo[cpu_pid] \in Seq(Instruccion) BY <1>2, RegistrosAssumption
  <1>4. Leida \in Instruccion BY <1>3 DEF EnFetch, Leida
  <1>5. ProgramasCorrientes => Corriente(Leida)
    BY <1>2 DEF ProgramasCorrientes, EnFetch, Leida
  <1>6. /\ Avanzado \in Contexto /\ Avanzado.pc = pcb.pc + 1
        /\ Avanzado.registros = pcb.registros
    BY <1>1 DEF Avanzado, Contexto
  <1> QED BY <1>1, <1>4, <1>5, <1>6

\* Decode leaves a context in the CPU.
LEMMA DecodeTipo ==
  ASSUME RegistrosTypeOK, Decode
  PROVE  pcb' \in Contexto
  <1>1. Leida \in Instruccion /\ Avanzado \in Contexto BY FetchTipo DEF Decode
  <1>2. CASE pcb' = Set(Avanzado, Leida) BY <1>1, <1>2, SetFiel
  <1>3. CASE pcb' = Sum(Avanzado, Leida) BY <1>1, <1>3, SumFiel
  <1>4. CASE pcb' = Sub(Avanzado, Leida) BY <1>1, <1>4, SubFiel
  <1>5. CASE pcb' = Jnz(Avanzado, Leida) BY <1>1, <1>5 DEF Jnz, Contexto, Instruccion
  <1> QED BY <1>2, <1>3, <1>4, <1>5 DEF Decode

\* The initial registers are 0.
LEMMA InicioTipo ==
  ASSUME Init
  PROVE  RegistrosTypeOK
  <1>1. [x \in Registro |-> 0] \in Registros
    BY WordTipo DEF Registros, Valores, Registro
  <1> QED BY <1>1 DEF Init, RegistrosTypeOK, Contexto

\* Each step keeps the types.
LEMMA PasoTipo ==
  ASSUME RegistrosTypeOK, [Next]_vars
  PROVE  RegistrosTypeOK'
  <1> USE DEF RegistrosTypeOK
  <1>1. ASSUME NEW p \in Pid, Despachar(p) PROVE RegistrosTypeOK'
    <2>1. EmpaquetarPcb(contexto[p]) \in Paquete BY PaqueteFiel
    <2> QED BY <1>1, <2>1 DEF Despachar
  <1>2. CASE RecibirPcb
    <2>1. DesempaquetarPcb(paquete) \in Contexto BY <1>2, DesempaquetadoTipo DEF RecibirPcb
    <2> QED BY <1>2, <2>1 DEF RecibirPcb
  <1>3. CASE Decode BY <1>3, DecodeTipo DEF Decode, EnFetch
  <1>4. CASE Exit
    <2>1. Avanzado \in Contexto BY <1>4, FetchTipo DEF Exit
    <2>2. EmpaquetarPcb(Avanzado) \in Paquete BY <2>1, PaqueteFiel
    <2> QED BY <1>4, <2>1, <2>2 DEF Exit, EnFetch
  <1>5. CASE Devolver
    <2>1. EmpaquetarPcb(pcb) \in Paquete BY <1>5, PaqueteFiel DEF Devolver
    <2> QED BY <1>5, <2>1 DEF Devolver
  <1>6. CASE RecibirContexto
    <2>1. DesempaquetarPcb(paquete) \in Contexto
      BY <1>6, DesempaquetadoTipo DEF RecibirContexto
    <2> QED BY <1>6, <2>1 DEF RecibirContexto
  <1>7. CASE UNCHANGED vars BY <1>7 DEF vars
  <1> QED BY <1>1, <1>2, <1>3, <1>4, <1>5, <1>6, <1>7 DEF Next

(* A context has its type wherever it is, and a short register never holds *)
(* more than a byte, for any programs and bytes of any size (cpu.c:282,    *)
(* hello.c:264).                                                           *)
THEOREM RegistrosTipos == Spec => []RegistrosTypeOK
  <1>1. Init => RegistrosTypeOK BY InicioTipo
  <1>2. RegistrosTypeOK /\ [Next]_vars => RegistrosTypeOK' BY PasoTipo
  <1> QED BY <1>1, <1>2, PTL DEF Spec

-----------------------------------------------------------------------------
(* The refinement.                                                         *)

\* A journey changes the context of nobody.
LEMMA ViajeQuieto ==
  ASSUME RegistrosTypeOK,
         \/ \E p \in Pid : Despachar(p)
         \/ RecibirPcb \/ Devolver \/ RecibirContexto
         \/ UNCHANGED vars
  PROVE  (\A p \in Pid : Vigente(p)' = Vigente(p)) /\ UNCHANGED codigo
  <1> USE DEF RegistrosTypeOK, Vigente
  <1>1. ASSUME NEW p \in Pid, Despachar(p)
        PROVE  (\A q \in Pid : Vigente(q)' = Vigente(q)) /\ UNCHANGED codigo
    <2>1. DesempaquetarPcb(EmpaquetarPcb(contexto[p])) = contexto[p] BY PaqueteFiel
    <2> QED BY <1>1, <2>1 DEF Despachar
  <1>2. CASE RecibirPcb BY <1>2 DEF RecibirPcb
  <1>3. CASE Devolver
    <2>1. DesempaquetarPcb(EmpaquetarPcb(pcb)) = pcb BY <1>3, PaqueteFiel DEF Devolver
    <2> QED BY <1>3, <2>1 DEF Devolver
  <1>4. CASE RecibirContexto BY <1>4 DEF RecibirContexto
  <1>5. CASE UNCHANGED vars BY <1>5 DEF vars
  <1> QED BY <1>1, <1>2, <1>3, <1>4, <1>5

\* An instruction changes the context of its process only.
LEMMA InstruccionPropia ==
  ASSUME RegistrosTypeOK, Decode \/ Exit
  PROVE  /\ \A q \in Pid \ {cpu_pid} : Vigente(q)' = Vigente(q)
         /\ Vigente(cpu_pid) = pcb /\ Vigente(cpu_pid)' = pcb'
         /\ UNCHANGED <<codigo, cpu_pid>>
  <1>1. CASE Decode BY <1>1 DEF Decode, EnFetch, Vigente
  <1>2. CASE Exit
    <2>1. Avanzado \in Contexto BY <1>2, FetchTipo DEF Exit
    <2>2. DesempaquetarPcb(EmpaquetarPcb(Avanzado)) = Avanzado BY <2>1, PaqueteFiel
    <2> QED BY <1>2, <2>2 DEF Exit, EnFetch, Vigente
  <1> QED BY <1>1, <1>2

\* A step of the CPU is a step of the process in the abstract machine.
LEMMA PasoMaquina ==
  ASSUME ProgramasCorrientes, RegistrosTypeOK, Decode \/ Exit
  PROVE  Maquina!Paso(cpu_pid)
  <1> DEFINE p == cpu_pid
             P == [q \in Pid |-> Vigente(q).pc]
             R == [q \in Pid |-> Vigente(q).registros]
             i == Leida
  <1>1. /\ i \in Instruccion /\ Corriente(i) /\ p \in Pid
        /\ pcb.pc + 1 \in DOMAIN codigo[p] /\ i = codigo[p][pcb.pc + 1]
        /\ Avanzado \in Contexto /\ Avanzado.pc = pcb.pc + 1
        /\ Avanzado.registros = pcb.registros
    BY FetchTipo DEF Decode, Exit, EnFetch, Leida
  <1>2. /\ \A q \in Pid \ {p} : Vigente(q)' = Vigente(q)
        /\ Vigente(p) = pcb /\ Vigente(p)' = pcb'
        /\ UNCHANGED <<codigo, cpu_pid>>
    BY InstruccionPropia
  <1>3. P[p] = pcb.pc /\ R[p] = pcb.registros BY <1>1, <1>2
  <1>4. P' = [P EXCEPT ![p] = pcb'.pc] BY <1>1, <1>2
  <1>5. R' = [R EXCEPT ![p] = pcb'.registros] BY <1>1, <1>2
  <1>6. Maquina!Actual(p) = i BY <1>1, <1>3 DEF Maquina!Actual
  <1>7. \A x \in Registro : Maquina!Modulo(x) = Modulo(x)
    BY DEF Maquina!Modulo, Modulo, WORD
  <1>8. ASSUME pcb'.pc = pcb.pc + 1, i.reg \in Registro, NEW v,
               pcb'.registros = [pcb.registros EXCEPT ![i.reg] = v % Modulo(i.reg)]
        PROVE  Maquina!Escribe(p, i.reg, v) /\ Maquina!Sigue(p)
    BY <1>1, <1>3, <1>4, <1>5, <1>7, <1>8 DEF Maquina!Escribe, Maquina!Sigue
  <1>9. ASSUME pcb'.registros = pcb.registros
        PROVE  R' = R
    BY <1>1, <1>3, <1>5, <1>9
  <1>10. ASSUME Maquina!Calcula(p) \/ Maquina!SaltaSiempre(p) \/ Maquina!SaltaSiNoEsCero(p)
                  \/ Maquina!Termina(p)
         PROVE  Maquina!Paso(p)
    BY <1>1, <1>2, <1>3, <1>10 DEF Maquina!Paso
  <1>11. CASE i.op = "SET" /\ pcb' = Set(Avanzado, i)
    <2>1. CASE i.reg \in Registro
      <3>1. /\ pcb'.pc = pcb.pc + 1
            /\ pcb'.registros = [pcb.registros EXCEPT ![i.reg] = i.valor % Modulo(i.reg)]
        BY <1>1, <1>11, <2>1, SetFiel
      <3>2. Maquina!Escribe(p, i.reg, i.valor) /\ Maquina!Sigue(p) BY <1>8, <2>1, <3>1
      <3> QED BY <1>6, <1>10, <1>11, <2>1, <3>2 DEF Maquina!Calcula
    <2>2. CASE i.reg \notin Registro
      <3>1. i.reg = "PC" /\ i.valor < WORD \div 2
        BY <1>1, <1>11, <2>2 DEF Instruccion, Operando, Corriente
      <3>2. pcb'.pc = i.valor /\ pcb'.registros = pcb.registros
        BY <1>1, <1>11, <2>2, <3>1, SetFiel
      <3>3. Maquina!Salta(p, i.valor) BY <1>4, <1>9, <3>2 DEF Maquina!Salta
      <3> QED BY <1>6, <1>10, <1>11, <3>1, <3>3 DEF Maquina!SaltaSiempre
    <2> QED BY <2>1, <2>2
  <1>12. CASE i.op = "SUM" /\ pcb' = Sum(Avanzado, i)
    <2>1. i.reg \in Registro /\ i.origen \in Registro BY <1>1, <1>12 DEF Corriente
    <2>2. /\ pcb'.pc = pcb.pc + 1
          /\ pcb'.registros = [pcb.registros EXCEPT ![i.reg] =
                (pcb.registros[i.reg] + pcb.registros[i.origen]) % Modulo(i.reg)]
      BY <1>1, <1>12, <2>1, SumFiel
    <2>3. /\ Maquina!Escribe(p, i.reg, R[p][i.reg] + R[p][i.origen])
          /\ Maquina!Sigue(p)
      BY <1>3, <1>8, <2>1, <2>2
    <2> QED BY <1>6, <1>10, <1>12, <2>1, <2>3 DEF Maquina!Calcula
  <1>13. CASE i.op = "SUB" /\ pcb' = Sub(Avanzado, i)
    <2>1. i.reg \in Registro /\ i.origen \in Registro BY <1>1, <1>13 DEF Corriente
    <2>2. /\ pcb'.pc = pcb.pc + 1
          /\ pcb'.registros = [pcb.registros EXCEPT ![i.reg] =
                (pcb.registros[i.reg] - pcb.registros[i.origen]) % Modulo(i.reg)]
      BY <1>1, <1>13, <2>1, SubFiel
    <2>3. /\ Maquina!Escribe(p, i.reg, R[p][i.reg] - R[p][i.origen])
          /\ Maquina!Sigue(p)
      BY <1>3, <1>8, <2>1, <2>2
    <2> QED BY <1>6, <1>10, <1>13, <2>1, <2>3 DEF Maquina!Calcula
  <1>14. CASE i.op = "JNZ" /\ pcb' = Jnz(Avanzado, i)
    <2>1. i.reg \in Registro BY <1>1, <1>14 DEF Corriente
    <2>2. pcb'.registros = pcb.registros BY <1>1, <1>14 DEF Jnz, Contexto
    <2>3. pcb'.pc = IF pcb.registros[i.reg] # 0 THEN i.valor ELSE pcb.pc + 1
      BY <1>1, <1>14, <2>1 DEF Jnz, ObtenerValor, Contexto
    <2>4. IF R[p][i.reg] # 0 THEN Maquina!Salta(p, i.valor)
                             ELSE Maquina!Sigue(p) /\ R' = R
      BY <1>3, <1>4, <1>9, <2>2, <2>3 DEF Maquina!Salta, Maquina!Sigue
    <2> QED BY <1>6, <1>10, <1>14, <2>4 DEF Maquina!SaltaSiNoEsCero
  <1>15. CASE i.op = "EXIT" /\ pcb' = Avanzado
    <2>1. Maquina!Sigue(p) /\ R' = R
      BY <1>1, <1>3, <1>4, <1>9, <1>15 DEF Maquina!Sigue
    <2> QED BY <1>6, <1>10, <1>15, <2>1 DEF Maquina!Termina
  <1> QED BY <1>11, <1>12, <1>13, <1>14, <1>15 DEF Decode, Exit

(* Each process computes as on a CPU of its own: for bytes of any size and *)
(* any programs that use PC as the scripts of the repository do, neither   *)
(* the preemptions nor the packets (hello.c:264) nor the conversions of    *)
(* decode (cpu.c:282-399) show.                                            *)
THEOREM MaquinaCumplida ==
  ASSUME ProgramasCorrientes
  PROVE  Spec => CumpleMaquina
  <1>1. Init => Maquina!Init BY DEF Init, Maquina!Init, Vigente
  <1>2. RegistrosTypeOK /\ [Next]_vars =>
          [\E p \in Pid : Maquina!Paso(p)]_(Maquina!vars)
    <2> SUFFICES ASSUME RegistrosTypeOK, [Next]_vars
                 PROVE  (\E p \in Pid : Maquina!Paso(p)) \/ UNCHANGED Maquina!vars
      OBVIOUS
    <2>1. CASE Decode \/ Exit
      <3>1. Maquina!Paso(cpu_pid) BY <2>1, PasoMaquina
      <3>2. cpu_pid \in Pid BY <2>1, FetchTipo DEF Decode, Exit
      <3> QED BY <3>1, <3>2
    <2>2. CASE \/ \E p \in Pid : Despachar(p)
               \/ RecibirPcb \/ Devolver \/ RecibirContexto
               \/ UNCHANGED vars
      <3>1. (\A p \in Pid : Vigente(p)' = Vigente(p)) /\ UNCHANGED codigo
        BY <2>2, ViajeQuieto
      <3> QED BY <3>1 DEF Maquina!vars
    <2> QED BY <2>1, <2>2 DEF Next
  <1>3. Spec => []RegistrosTypeOK BY RegistrosTipos
  <1> QED BY <1>1, <1>2, <1>3, PTL DEF Spec, CumpleMaquina, Maquina!Spec
=============================================================================
