---------------------------- MODULE DialFS_proofs ----------------------------
(***************************************************************************)
(* What the file system keeps for any number of files, blocks and requests *)
(* and with restarts anywhere between two requests: the metadata files say *)
(* what the list says; and, when the requests are those the code is        *)
(* prepared for, no block is in two files and no byte of a file is lost.   *)
(***************************************************************************)
EXTENDS DialFS, TLAPS, FiniteSetTheorems, SequenceTheorems, WellFoundedInduction

-----------------------------------------------------------------------------
(* The list and the metadata files.                                        *)

(* A restart believes any size it reads, so cantidad_bloques may say more  *)
(* blocks than there are.                                                  *)
Ficha == [nombre : Nombre, tamanio_archivo : Nat, bloq_inicial_archivo : Bloque,
          cantidad_bloques : Nat \ {0}, ultimo_bloque : Bloque]
SinRepetidos == \A i, j \in DOMAIN metadatas :
                  metadatas[i].nombre = metadatas[j].nombre => i = j
DiscoTipo == /\ DOMAIN disco \subseteq Nombre
             /\ \A n \in DOMAIN disco : disco[n] \in [tamanio : Nat, inicial : Bloque]
ListaInd == /\ metadatas \in Seq(Ficha) /\ DiscoTipo /\ SinRepetidos /\ MetadatosAlDia
DiscoInd == ListaInd /\ atendidos \in 0 .. Len(Guion)

(* The least of a set of numbers.                                          *)
LEMMA Menor ==
  ASSUME NEW S, S \subseteq Nat, S # {}
  PROVE  \E k \in S : \A j \in S : k <= j
<1> DEFINE R == OpToRel(<, Nat)
<1>1. \A x, y \in Nat : y < x => <<y, x>> \in R
  BY DEF OpToRel
<1>2. IsWellFoundedOn(R, Nat)
  BY NatLessThanWellFounded
<1> HIDE DEF R
<1>3. PICK k \in S : \A j \in S : ~(<<j, k>> \in R)
  BY <1>2, WFMin
<1>4. \A j \in S : k \in Nat /\ j \in Nat /\ ~(j < k)
  BY <1>1, <1>3
<1> QED
  BY <1>4

(* devolver_metadata finds the only one of that name.                      *)
LEMMA Encontrada ==
  ASSUME SinRepetidos, NEW n, Listado(n)
  PROVE  /\ Posicion(n) \in DOMAIN metadatas /\ metadatas[Posicion(n)].nombre = n
         /\ \A k \in DOMAIN metadatas : metadatas[k].nombre = n => k = Posicion(n)
  BY DEF SinRepetidos, Listado, Posicion

(* list_remove_element keeps the others, in their order.                   *)
LEMMA Quitada ==
  ASSUME NEW S, NEW s \in Seq(S), NEW k \in 1 .. Len(s)
  PROVE  /\ RemoveAt(s, k) \in Seq(S) /\ Len(RemoveAt(s, k)) = Len(s) - 1
         /\ \A i \in 1 .. Len(s) - 1 : RemoveAt(s, k)[i] = s[IF i < k THEN i ELSE i + 1]
<1> DEFINE a == SubSeq(s, 1, k - 1)
           b == SubSeq(s, k + 1, Len(s))
<1>1. /\ Len(s) \in Nat /\ k \in Nat /\ k >= 1 /\ k <= Len(s)
      /\ \A i \in 1 .. Len(s) : s[i] \in S
  OBVIOUS
<1>2. a \in Seq(S) /\ Len(a) = k - 1 /\ \A i \in 1 .. k - 1 : a[i] = s[i]
  BY <1>1
<1>3. b \in Seq(S) /\ Len(b) = Len(s) - k /\ \A i \in 1 .. Len(s) - k : b[i] = s[i + k]
  BY <1>1
<1> HIDE DEF a, b
<1>4. /\ a \o b \in Seq(S) /\ Len(a \o b) = Len(s) - 1
      /\ \A i \in 1 .. Len(s) - 1 : (a \o b)[i] = IF i < k THEN s[i] ELSE s[i + 1]
  <2>1. /\ a \o b \in Seq(S) /\ Len(a \o b) = Len(a) + Len(b)
        /\ \A i \in 1 .. Len(a) + Len(b) :
             (a \o b)[i] = IF i <= Len(a) THEN a[i] ELSE b[i - Len(a)]
    BY <1>2, <1>3, ConcatProperties
  <2>2. Len(a) + Len(b) = Len(s) - 1
    BY <1>1, <1>2, <1>3
  <2>3. ASSUME NEW i \in 1 .. Len(s) - 1
        PROVE  (a \o b)[i] = IF i < k THEN s[i] ELSE s[i + 1]
    <3>1. CASE i < k
      <4>1. i \in 1 .. k - 1 /\ i <= Len(a)
        BY <3>1, <1>1, <1>2
      <4> QED
        BY <4>1, <3>1, <2>1, <2>2, <1>2
    <3>2. CASE ~(i < k)
      <4>1. i - (k - 1) \in 1 .. Len(s) - k /\ ~(i <= Len(a)) /\ i - (k - 1) + k = i + 1
        BY <3>2, <1>1, <1>2
      <4>2. b[i - (k - 1)] = s[i + 1]
        BY <4>1, <1>3
      <4> QED
        BY <4>1, <4>2, <3>2, <2>1, <2>2, <1>2
    <3> QED
      BY <3>1, <3>2
  <2> QED
    BY <2>1, <2>2, <2>3
<1>5. RemoveAt(s, k) = a \o b
  BY DEF RemoveAt, a, b
<1>6. \A i : s[IF i < k THEN i ELSE i + 1] = IF i < k THEN s[i] ELSE s[i + 1]
  OBVIOUS
<1> QED
  BY <1>4, <1>5, <1>6

(* A metadata in the list, field by field.                                 *)
LEMMA FichaDe ==
  ASSUME metadatas \in Seq(Ficha), NEW k \in DOMAIN metadatas
  PROVE  /\ metadatas[k] \in Ficha /\ metadatas[k].nombre \in Nombre
         /\ metadatas[k].tamanio_archivo \in Nat
         /\ metadatas[k].bloq_inicial_archivo \in Bloque
         /\ metadatas[k].cantidad_bloques \in Nat \ {0}
         /\ metadatas[k].ultimo_bloque \in Bloque
         /\ Len(metadatas) \in Nat /\ DOMAIN metadatas = 1 .. Len(metadatas)
<1>1. metadatas[k] \in Ficha
  OBVIOUS
<1> QED
  BY <1>1 DEF Ficha

-----------------------------------------------------------------------------
(* CREATE and DELETE.                                                      *)

(* CREATE adds its file to the list and to the directory.                  *)
LEMMA ListaCrear ==
  ASSUME ListaInd, NEW p \in Peticion, ~Listado(p.nombre), ProximoBitDisponible \in Bloque,
         CrearArchivoMetadata(p)
  PROVE  ListaInd'
<1> DEFINE b == ProximoBitDisponible
           n == Len(metadatas)
           m == [nombre |-> p.nombre, tamanio_archivo |-> 0, bloq_inicial_archivo |-> b,
                 cantidad_bloques |-> 1, ultimo_bloque |-> b]
<1>1. m \in Ficha /\ m.nombre = p.nombre /\ p.nombre \in Nombre
  <2>1. 1 \in Nat \ {0}
    OBVIOUS
  <2> QED
    BY <2>1 DEF Ficha, Peticion
<1>2. b \in Bloque /\ metadatas' = Append(metadatas, m)
  BY DEF CrearArchivoMetadata
<1>3. /\ DOMAIN disco' = DOMAIN disco \cup {p.nombre}
      /\ disco'[p.nombre] = [tamanio |-> 0, inicial |-> b]
      /\ \A x \in DOMAIN disco : x # p.nombre => disco'[x] = disco[x]
  BY DEF CrearArchivoMetadata
<1>m. m.tamanio_archivo = 0 /\ m.bloq_inicial_archivo = b
  OBVIOUS
<1> HIDE DEF b, m
<1>4. metadatas \in Seq(Ficha) /\ n \in Nat /\ DOMAIN metadatas = 1 .. n
  BY DEF ListaInd
<1>5. /\ metadatas' \in Seq(Ficha) /\ DOMAIN metadatas' = 1 .. n + 1
      /\ metadatas'[n + 1] = m /\ \A i \in 1 .. n : metadatas'[i] = metadatas[i]
  BY <1>1, <1>2, <1>4
<1>6. /\ n + 1 \in 1 .. n + 1 /\ \A i \in 1 .. n : i \in 1 .. n + 1
      /\ \A i \in 1 .. n + 1 : i \in 1 .. n \/ i = n + 1
  BY <1>4
<1> HIDE DEF n
<1>7. \A i \in 1 .. n : metadatas[i].nombre # p.nombre
  BY <1>4 DEF Listado
<1>8. p.nombre \notin DOMAIN disco
  BY <1>7, <1>4 DEF ListaInd, MetadatosAlDia
<1>9. DiscoTipo'
  <2>1. 0 \in Nat
    OBVIOUS
  <2> QED
    BY <2>1, <1>1, <1>2, <1>3 DEF DiscoTipo, ListaInd, Bloque
<1>10. SinRepetidos'
  BY <1>1, <1>4, <1>5, <1>6, <1>7 DEF SinRepetidos, ListaInd
<1>11. MetadatosAlDia'
  <2>1. \A k \in 1 .. n + 1 : metadatas'[k].nombre \in DOMAIN disco'
    BY <1>1, <1>3, <1>4, <1>5, <1>6 DEF ListaInd, MetadatosAlDia
  <2>2. \A x \in DOMAIN disco' : \E k \in 1 .. n + 1 : x = metadatas'[k].nombre
    BY <1>1, <1>3, <1>4, <1>5, <1>6 DEF ListaInd, MetadatosAlDia
  <2>3. \A k \in 1 .. n + 1 :
          disco'[metadatas'[k].nombre] = [tamanio |-> metadatas'[k].tamanio_archivo,
                                          inicial |-> metadatas'[k].bloq_inicial_archivo]
    <3>1. \A k \in 1 .. n : metadatas[k].nombre \in DOMAIN disco
      BY <1>4 DEF ListaInd, MetadatosAlDia
    <3>2. \A k \in 1 .. n : disco[metadatas[k].nombre] =
             [tamanio |-> metadatas[k].tamanio_archivo,
              inicial |-> metadatas[k].bloq_inicial_archivo]
      BY <1>4 DEF ListaInd, MetadatosAlDia
    <3> QED
      BY <1>1, <1>m, <1>3, <1>5, <1>6, <1>7, <3>1, <3>2
  <2> QED
    BY <1>5, <2>1, <2>2, <2>3 DEF MetadatosAlDia
<1> QED
  BY <1>5, <1>9, <1>10, <1>11 DEF ListaInd

(* DELETE takes its file out of the list and of the directory.             *)
LEMMA ListaBorrar ==
  ASSUME ListaInd, NEW p, Listado(p.nombre), BorrarArchivo(p)
  PROVE  ListaInd'
<1> DEFINE k == Posicion(p.nombre)
           n == Len(metadatas)
           de(i) == IF i < k THEN i ELSE i + 1
<1>1. metadatas \in Seq(Ficha) /\ n \in Nat /\ DOMAIN metadatas = 1 .. n
  BY DEF ListaInd
<1>2. /\ k \in 1 .. n /\ metadatas[k].nombre = p.nombre
      /\ \A i \in 1 .. n : metadatas[i].nombre = p.nombre => i = k
  BY <1>1, Encontrada DEF ListaInd
<1>3. metadatas' = RemoveAt(metadatas, k)
  BY DEF BorrarArchivo
<1>4. /\ DOMAIN disco' = DOMAIN disco \ {p.nombre}
      /\ \A x \in DOMAIN disco' : disco'[x] = disco[x]
  BY DEF BorrarArchivo
<1> HIDE DEF k
<1>5. /\ metadatas' \in Seq(Ficha) /\ DOMAIN metadatas' = 1 .. n - 1
      /\ \A i \in 1 .. n - 1 : metadatas'[i] = metadatas[de(i)]
  <2>1. /\ RemoveAt(metadatas, k) \in Seq(Ficha)
        /\ Len(RemoveAt(metadatas, k)) = n - 1
        /\ \A i \in 1 .. n - 1 : RemoveAt(metadatas, k)[i] = metadatas[de(i)]
    BY <1>1, <1>2, Quitada
  <2> QED
    BY <2>1, <1>3
<1>6. /\ \A i \in 1 .. n - 1 : de(i) \in 1 .. n /\ de(i) # k
      /\ \A i, j \in 1 .. n - 1 : de(i) = de(j) => i = j
      /\ \A h \in 1 .. n : h # k => \E i \in 1 .. n - 1 : de(i) = h
  <2>1. \A i \in 1 .. n - 1 : de(i) \in 1 .. n /\ de(i) # k
    BY <1>1, <1>2
  <2>2. \A i, j \in 1 .. n - 1 : de(i) = de(j) => i = j
    BY <1>1, <1>2
  <2>3. ASSUME NEW h \in 1 .. n, h # k
        PROVE  \E i \in 1 .. n - 1 : de(i) = h
    <3>1. CASE h < k
      BY <3>1, <1>1, <1>2
    <3>2. CASE h > k
      <4>1. h - 1 \in 1 .. n - 1 /\ de(h - 1) = h
        BY <3>2, <1>1, <1>2
      <4> QED
        BY <4>1
    <3> QED
      BY <3>1, <3>2, <2>3, <1>1, <1>2
  <2> QED
    BY <2>1, <2>2, <2>3
<1> HIDE DEF de, n
<1>7. SinRepetidos'
  BY <1>1, <1>5, <1>6 DEF ListaInd, SinRepetidos
<1>8. DiscoTipo'
  BY <1>4 DEF ListaInd, DiscoTipo, Bloque
<1>9. MetadatosAlDia'
  <2>1. \A i \in 1 .. n : /\ metadatas[i].nombre \in DOMAIN disco
                          /\ disco[metadatas[i].nombre] =
                               [tamanio |-> metadatas[i].tamanio_archivo,
                                inicial |-> metadatas[i].bloq_inicial_archivo]
    BY <1>1 DEF ListaInd, MetadatosAlDia
  <2>2. \A x \in DOMAIN disco : \E i \in 1 .. n : x = metadatas[i].nombre
    BY <1>1 DEF ListaInd, MetadatosAlDia
  <2>3. \A i \in 1 .. n - 1 : metadatas'[i].nombre \in DOMAIN disco'
    BY <2>1, <1>2, <1>4, <1>5, <1>6
  <2>4. \A x \in DOMAIN disco' : \E i \in 1 .. n - 1 : x = metadatas'[i].nombre
    BY <2>2, <1>2, <1>4, <1>5, <1>6
  <2>5. \A i \in 1 .. n - 1 :
          disco'[metadatas'[i].nombre] = [tamanio |-> metadatas'[i].tamanio_archivo,
                                          inicial |-> metadatas'[i].bloq_inicial_archivo]
    BY <2>1, <2>3, <1>4, <1>5, <1>6
  <2> QED
    BY <1>5, <2>3, <2>4, <2>5 DEF MetadatosAlDia
<1> QED
  BY <1>5, <1>7, <1>8, <1>9 DEF ListaInd

-----------------------------------------------------------------------------
(* compactar (funcionesfs.c:339): where each file goes.                    *)

(* The blocks of a file, each with the file it is of.                      *)
LEMMA Paridad ==
  ASSUME NEW p, NEW n \in Nat
  PROVE  IsFiniteSet({p} \X (1 .. n)) /\ Cardinality({p} \X (1 .. n)) = n
<1>1. IsFiniteSet({p}) /\ Cardinality({p}) = 1
  BY FS_Singleton
<1>2. IsFiniteSet(1 .. n) /\ Cardinality(1 .. n) = n
  <2>1. 1 \in Int /\ n \in Int
    OBVIOUS
  <2>2. IsFiniteSet(1 .. n) /\ Cardinality(1 .. n) = IF 1 > n THEN 0 ELSE n - 1 + 1
    BY <2>1, FS_Interval
  <2> QED
    BY <2>2
<1>3. \A A, B : IsFiniteSet(A) /\ IsFiniteSet(B) =>
        IsFiniteSet(A \X B) /\ Cardinality(A \X B) = Cardinality(A) * Cardinality(B)
  BY FS_Product
<1>4. IsFiniteSet({p} \X (1 .. n)) /\ Cardinality({p} \X (1 .. n)) = 1 * n
  BY <1>1, <1>2, <1>3, ZenonT(60)
<1> QED
  BY <1>4

(* The files before one take finitely many blocks.                         *)
LEMMA AnterioresFinitos ==
  ASSUME NEW n \in Nat, NEW k, NEW cant, NEW i \in 1 .. n + 1,
         \A j \in 1 .. n : Calculado(k, cant, j) \in Nat
  PROVE  /\ IsFiniteSet(Anteriores(k, cant, i))
         /\ Cardinality(Anteriores(k, cant, i)) \in Nat
<1> DEFINE S == 1 .. i - 1
           g == [j \in S |-> {j} \X (1 .. Calculado(k, cant, j))]
           T == {{j} \X (1 .. Calculado(k, cant, j)) : j \in S}
<1>1. g \in Surjection(S, T)
  BY DEF Surjection
<1>2. IsFiniteSet(S) /\ S \subseteq 1 .. n
  <2>1. 1 \in Int /\ i - 1 \in Int
    OBVIOUS
  <2> QED
    BY <2>1, FS_Interval
<1>3. IsFiniteSet(T)
  BY <1>1, <1>2, FS_Surjection
<1>4. \A t \in T : IsFiniteSet(t)
  <2>1. \A j \in S : Calculado(k, cant, j) \in Nat
    BY <1>2
  <2>2. \A j \in S : IsFiniteSet({j} \X (1 .. Calculado(k, cant, j)))
    BY <2>1, Paridad
  <2> QED
    BY <2>2, Zenon
<1>5. IsFiniteSet(UNION T)
  <2> HIDE DEF T
  <2> QED
    BY <1>3, <1>4, FS_UNION
<1>6. IsFiniteSet(Anteriores(k, cant, i))
  BY <1>5 DEF Anteriores
<1> QED
  BY <1>6, FS_CardinalityType

(* A file begins where the one before has ended, or later.                 *)
LEMMA Sucesivos ==
  ASSUME NEW n \in Nat, NEW k, NEW cant, NEW i \in 1 .. n, NEW j \in 1 .. n, i < j,
         \A h \in 1 .. n : Calculado(k, cant, h) \in Nat
  PROVE  Cardinality(Anteriores(k, cant, i)) + Calculado(k, cant, i)
           <= Cardinality(Anteriores(k, cant, j))
<1> DEFINE A == Anteriores(k, cant, i)
           B == {i} \X (1 .. Calculado(k, cant, i))
           C == Anteriores(k, cant, j)
<1>0. i \in 1 .. n + 1 /\ j \in 1 .. n + 1
  OBVIOUS
<1>1. IsFiniteSet(A) /\ IsFiniteSet(C) /\ Cardinality(A) \in Nat /\ Cardinality(C) \in Nat
  BY <1>0, AnterioresFinitos
<1>2. IsFiniteSet(B) /\ Cardinality(B) = Calculado(k, cant, i)
  BY Paridad
<1>3. A \cap B = {}
  <2>1. ASSUME NEW x \in A, x \in B PROVE FALSE
    <3>1. PICK h \in 1 .. i - 1 : x \in {h} \X (1 .. Calculado(k, cant, h))
      BY <2>1 DEF Anteriores
    <3>2. x[1] = h /\ x[1] = i
      BY <3>1, <2>1
    <3> QED
      BY <3>1, <3>2
  <2> QED
    BY <2>1
<1>4. A \cup B \subseteq C
  <2>1. \A h \in 1 .. i - 1 : h \in 1 .. j - 1
    OBVIOUS
  <2>2. i \in 1 .. j - 1
    OBVIOUS
  <2> QED
    BY <2>1, <2>2 DEF Anteriores
<1> HIDE DEF A, B, C
<1>5. Cardinality(A \cap B) = 0
  BY <1>3, FS_EmptySet
<1>6. /\ IsFiniteSet(A \cup B)
      /\ Cardinality(A \cup B) = Cardinality(A) + Cardinality(B) - Cardinality(A \cap B)
  BY <1>1, <1>2, FS_Union
<1>7. Cardinality(A \cup B) <= Cardinality(C)
  BY <1>1, <1>4, FS_Subset
<1>8. Cardinality(A) + Cardinality(B) <= Cardinality(C)
  <2>1. Cardinality(B) \in Nat
    BY <1>2
  <2> QED
    BY <1>1, <1>5, <1>6, <1>7, <2>1
<1> QED
  BY <1>2, <1>8 DEF A, B, C

(* ceil(tamanio / block_size), a block for nothing.                        *)
LEMMA Necesarios ==
  ASSUME NEW t \in Nat
  PROVE  /\ CantidadDeBloquesNecesarios(t) \in Nat \ {0}
         /\ t <= CantidadDeBloquesNecesarios(t) * BLOCK_SIZE
         /\ t > 0 => Techo(t) = CantidadDeBloquesNecesarios(t)
<1>1. BLOCK_SIZE \in Nat \ {0}
  BY DialAssumption
<1>2. CASE t = 0
  BY <1>1, <1>2 DEF CantidadDeBloquesNecesarios
<1>3. CASE t > 0
  <2> DEFINE a == t - 1
             q == a \div BLOCK_SIZE
  <2>1. a \in Nat
    BY <1>3
  <2>2. q \in Nat /\ BLOCK_SIZE * q <= a /\ a < BLOCK_SIZE * q + BLOCK_SIZE
    <3> HIDE DEF a
    <3> QED
      BY <1>1, <2>1
  <2>3. (a + BLOCK_SIZE) \div BLOCK_SIZE = q + 1
    <3> HIDE DEF a
    <3> QED
      BY <1>1, <2>1
  <2>4. Techo(t) = q + 1
    <3>1. t + BLOCK_SIZE - 1 = a + BLOCK_SIZE
      BY <1>1
    <3> QED
      BY <3>1, <2>3 DEF Techo
  <2>5. CantidadDeBloquesNecesarios(t) = 1 + q
    BY <1>3 DEF CantidadDeBloquesNecesarios
  <2> HIDE DEF q, a
  <2>6. (1 + q) * BLOCK_SIZE = BLOCK_SIZE * q + BLOCK_SIZE
    BY <1>1, <2>2
  <2>7. t <= (1 + q) * BLOCK_SIZE
    BY <2>1, <2>2, <2>6, <1>1 DEF a
  <2> QED
    BY <2>2, <2>4, <2>5, <2>7
<1> QED
  BY <1>2, <1>3

-----------------------------------------------------------------------------
(* TRUNCATE and the list.                                                  *)

(* One size changes, in the list and in its metadata file.                 *)
LEMMA ListaTamanio ==
  ASSUME ListaInd, NEW k \in DOMAIN metadatas, NEW t \in Nat,
         metadatas' = [metadatas EXCEPT ![k].tamanio_archivo = t],
         ModificarConfigTam(metadatas[k].nombre, t)
  PROVE  ListaInd'
<1> DEFINE n == Len(metadatas)
           nom == metadatas[k].nombre
           m == [metadatas[k] EXCEPT !.tamanio_archivo = t]
<1>1. metadatas \in Seq(Ficha) /\ n \in Nat /\ DOMAIN metadatas = 1 .. n
  BY DEF ListaInd
<1>2. /\ m \in Ficha /\ m.nombre = nom /\ m.tamanio_archivo = t
      /\ m.bloq_inicial_archivo = metadatas[k].bloq_inicial_archivo
  <2>1. metadatas[k] \in Ficha
    BY <1>1
  <2> QED
    BY <2>1 DEF Ficha
<1>3. metadatas' = [metadatas EXCEPT ![k] = m]
  OBVIOUS
<1> HIDE DEF m
<1>4. /\ metadatas' \in Seq(Ficha) /\ DOMAIN metadatas' = 1 .. n /\ metadatas'[k] = m
      /\ \A i \in 1 .. n : i # k => metadatas'[i] = metadatas[i]
  BY <1>1, <1>2, <1>3
<1> HIDE DEF n
<1>5. \A i \in 1 .. n : /\ metadatas[i].nombre \in DOMAIN disco
                        /\ disco[metadatas[i].nombre] =
                             [tamanio |-> metadatas[i].tamanio_archivo,
                              inicial |-> metadatas[i].bloq_inicial_archivo]
  BY <1>1 DEF ListaInd, MetadatosAlDia
<1>6. /\ DOMAIN disco' = DOMAIN disco
      /\ \A x \in DOMAIN disco : x # nom => disco'[x] = disco[x]
      /\ disco'[nom] = [disco[nom] EXCEPT !.tamanio = t]
  <2>1. nom \in DOMAIN disco
    BY <1>1, <1>5
  <2> QED
    BY <2>1 DEF ModificarConfigTam
<1>7. disco'[nom] = [tamanio |-> t, inicial |-> metadatas[k].bloq_inicial_archivo]
  <2>1. disco[nom] = [tamanio |-> metadatas[k].tamanio_archivo,
                      inicial |-> metadatas[k].bloq_inicial_archivo]
    BY <1>1, <1>5
  <2>2. \A a, b : [[tamanio |-> a, inicial |-> b] EXCEPT !.tamanio = t]
                    = [tamanio |-> t, inicial |-> b]
    OBVIOUS
  <2> QED
    BY <2>1, <2>2, <1>6
<1>8. \A i \in 1 .. n : metadatas[i].nombre = nom => i = k
  BY <1>1 DEF ListaInd, SinRepetidos
<1> HIDE DEF nom
<1>9. DiscoTipo'
  <2>1. metadatas[k].bloq_inicial_archivo \in Bloque
    BY <1>1, FichaDe
  <2> QED
    BY <2>1, <1>6, <1>7 DEF ListaInd, DiscoTipo, Bloque
<1>10. \A i \in 1 .. n : metadatas'[i].nombre = metadatas[i].nombre
  BY <1>1, <1>2, <1>4 DEF nom
<1>11. SinRepetidos'
  BY <1>1, <1>4, <1>10 DEF ListaInd, SinRepetidos
<1>12. MetadatosAlDia'
  <2>1. DOMAIN disco' = {metadatas'[i].nombre : i \in 1 .. n}
    BY <1>1, <1>6, <1>10 DEF ListaInd, MetadatosAlDia
  <2>2. ASSUME NEW i \in 1 .. n
        PROVE  disco'[metadatas'[i].nombre] =
                 [tamanio |-> metadatas'[i].tamanio_archivo,
                  inicial |-> metadatas'[i].bloq_inicial_archivo]
    <3>1. CASE i = k
      BY <3>1, <1>2, <1>4, <1>7
    <3>2. CASE i # k
      BY <3>2, <1>4, <1>5, <1>6, <1>8
    <3> QED
      BY <3>1, <3>2
  <2> QED
    BY <1>4, <2>1, <2>2 DEF MetadatosAlDia
<1> QED
  BY <1>4, <1>9, <1>11, <1>12 DEF ListaInd

(* The new record of each file: compactar leaves its name and gives it a   *)
(* place among the blocks that exist.                                      *)
LEMMA FichasNuevas ==
  ASSUME metadatas \in Seq(Ficha), NEW k \in DOMAIN metadatas, NEW t \in Nat, NEW cant,
         cant = NuevosBloques(metadatas[k], t), Asignados(Reubicados(k, cant)) \subseteq Bloque
  PROVE  /\ DOMAIN Nuevos(k, t, cant) = DOMAIN metadatas
         /\ Nuevos(k, t, cant) \in Seq(Ficha)
         /\ \A i \in DOMAIN metadatas :
              LET r == Nuevos(k, t, cant)[i]
              IN  /\ r.nombre = metadatas[i].nombre
                  /\ r.tamanio_archivo = IF i = k THEN t ELSE metadatas[i].tamanio_archivo
                  /\ r.bloq_inicial_archivo = Cardinality(Anteriores(k, cant, i))
                  /\ r.cantidad_bloques =
                       IF i = k THEN CantidadDeBloquesNecesarios(t)
                                ELSE metadatas[i].cantidad_bloques
                  /\ r.cantidad_bloques = Calculado(k, cant, i)
                  /\ r.cantidad_bloques \in 1 .. BITS
                  /\ r.bloq_inicial_archivo \in Bloque
                  /\ Tramo(r.bloq_inicial_archivo, r.cantidad_bloques) \subseteq Bloque
<1> DEFINE n == Len(metadatas)
           R == Reubicados(k, cant)
           N == Nuevos(k, t, cant)
<1>1. n \in Nat /\ DOMAIN metadatas = 1 .. n
  OBVIOUS
<1>2. BITS \in Nat
  BY DialAssumption
<1>3. ASSUME NEW i \in 1 .. n
      PROVE  /\ Calculado(k, cant, i) \in Nat \ {0}
             /\ Calculado(k, cant, i) = IF i = k THEN CantidadDeBloquesNecesarios(t)
                                        ELSE metadatas[i].cantidad_bloques
  <2>1. /\ metadatas[i].cantidad_bloques \in Nat \ {0}
        /\ metadatas[k].cantidad_bloques \in Nat \ {0}
    BY <1>1, FichaDe
  <2>2. CantidadDeBloquesNecesarios(t) \in Nat \ {0}
    BY Necesarios
  <2> QED
    BY <2>1, <2>2, <1>2 DEF Calculado, NuevosBloques
<1>4. ASSUME NEW i \in 1 .. n
      PROVE  Cardinality(Anteriores(k, cant, i)) \in Nat
  <2>1. i \in 1 .. n + 1
    BY <1>1
  <2>2. \A j \in 1 .. n : Calculado(k, cant, j) \in Nat
    BY <1>3
  <2> QED
    BY <1>1, <2>1, <2>2, AnterioresFinitos
<1>5. ASSUME NEW i \in 1 .. n
      PROVE  R[i] = [metadatas[i] EXCEPT
                       !.bloq_inicial_archivo = Cardinality(Anteriores(k, cant, i)),
                       !.cantidad_bloques = Calculado(k, cant, i)]
  BY <1>1 DEF Reubicados
<1>6. DOMAIN R = 1 .. n
  BY <1>1 DEF Reubicados
<1> HIDE DEF R
<1>7. ASSUME NEW i \in 1 .. n
      PROVE  /\ R[i].nombre = metadatas[i].nombre
             /\ R[i].tamanio_archivo = metadatas[i].tamanio_archivo
             /\ R[i].bloq_inicial_archivo = Cardinality(Anteriores(k, cant, i))
             /\ R[i].cantidad_bloques = Calculado(k, cant, i)
             /\ R[i].ultimo_bloque = metadatas[i].ultimo_bloque
             /\ DOMAIN R[i] = DOMAIN metadatas[i]
  <2>1. metadatas[i] \in Ficha
    BY <1>1
  <2> QED
    BY <2>1, <1>5 DEF Ficha
<1>8. ASSUME NEW i \in 1 .. n
      PROVE  /\ Tramo(R[i].bloq_inicial_archivo, R[i].cantidad_bloques) \subseteq Bloque
             /\ R[i].bloq_inicial_archivo \in Bloque /\ R[i].cantidad_bloques \in 1 .. BITS
  <2> DEFINE b == R[i].bloq_inicial_archivo
             c == R[i].cantidad_bloques
  <2>1. b \in Nat /\ c \in Nat \ {0}
    BY <1>3, <1>4, <1>7
  <2>2. Tramo(b, c) \subseteq Asignados(Reubicados(k, cant))
    BY <1>6 DEF Asignados, R
  <2> HIDE DEF b, c
  <2>3. b \in Tramo(b, c) /\ b + c - 1 \in Tramo(b, c)
    BY <2>1 DEF Tramo
  <2>4. b \in 0 .. BITS - 1 /\ b + c - 1 \in 0 .. BITS - 1
    BY <2>2, <2>3 DEF Bloque
  <2> QED
    BY <2>1, <2>2, <2>4, <1>2 DEF b, c, Bloque
<1>9. R[k].tamanio_archivo \in Nat /\ k \in 1 .. n
  BY <1>1, <1>7, FichaDe
<1>10. N = [R EXCEPT ![k] = [R[k] EXCEPT !.tamanio_archivo = t]]
  BY DEF Nuevos, R
<1>11. ASSUME NEW i \in 1 .. n
       PROVE  R[i] \in Ficha /\ R[i].tamanio_archivo \in Nat
  <2>1. /\ metadatas[i].nombre \in Nombre /\ metadatas[i].tamanio_archivo \in Nat
        /\ metadatas[i].ultimo_bloque \in Bloque /\ metadatas[i] \in Ficha
    BY <1>1, FichaDe
  <2>2. R[i].bloq_inicial_archivo \in Bloque /\ R[i].cantidad_bloques \in 1 .. BITS
    BY <1>8
  <2>3. R[i] \in Ficha
    <3>1. R[i].cantidad_bloques \in Nat \ {0}
      BY <1>3, <1>7
    <3> QED
      BY <3>1, <2>1, <2>2, <1>5, <1>7 DEF Ficha
  <2> QED
    BY <2>1, <2>3, <1>7
<1> DEFINE m == [R[k] EXCEPT !.tamanio_archivo = t]
<1>12. /\ m \in Ficha /\ m.nombre = R[k].nombre /\ m.tamanio_archivo = t
       /\ m.bloq_inicial_archivo = R[k].bloq_inicial_archivo
       /\ m.cantidad_bloques = R[k].cantidad_bloques
  BY <1>9, <1>11 DEF Ficha
<1>13. N = [R EXCEPT ![k] = m]
  BY <1>10
<1> HIDE DEF m, N
<1>14. /\ DOMAIN N = 1 .. n /\ N[k] = m
       /\ \A i \in 1 .. n : i # k => N[i] = R[i]
  BY <1>6, <1>9, <1>13
<1>15. \A i \in 1 .. n : N[i] \in Ficha
  BY <1>11, <1>12, <1>14
<1>16. N \in Seq(Ficha)
  <2>1. N = [i \in 1 .. n |-> N[i]]
    BY <1>6, <1>13
  <2>2. n \in Nat
    BY <1>1
  <2> HIDE DEF n
  <2> QED
    BY <2>1, <2>2, <1>15, SeqDef
<1>17. ASSUME NEW i \in 1 .. n
       PROVE  /\ N[i].nombre = metadatas[i].nombre
              /\ N[i].tamanio_archivo = IF i = k THEN t ELSE metadatas[i].tamanio_archivo
              /\ N[i].bloq_inicial_archivo = R[i].bloq_inicial_archivo
              /\ N[i].cantidad_bloques = R[i].cantidad_bloques
  BY <1>7, <1>12, <1>14
<1>18. ASSUME NEW i \in 1 .. n
       PROVE  /\ N[i].nombre = metadatas[i].nombre
              /\ N[i].tamanio_archivo = IF i = k THEN t ELSE metadatas[i].tamanio_archivo
              /\ N[i].bloq_inicial_archivo = Cardinality(Anteriores(k, cant, i))
              /\ N[i].cantidad_bloques = IF i = k THEN CantidadDeBloquesNecesarios(t)
                                         ELSE metadatas[i].cantidad_bloques
              /\ N[i].cantidad_bloques = Calculado(k, cant, i)
              /\ N[i].cantidad_bloques \in 1 .. BITS
              /\ N[i].bloq_inicial_archivo \in Bloque
              /\ Tramo(N[i].bloq_inicial_archivo, N[i].cantidad_bloques) \subseteq Bloque
  BY <1>17, <1>3, <1>7, <1>8
<1> QED
  BY <1>1, <1>14, <1>16, <1>18 DEF N

(* compactar writes in the metadata files what it writes in the list.      *)
LEMMA ListaCompactar ==
  ASSUME ListaInd, NEW k \in DOMAIN metadatas, NEW t \in Nat, NEW cant,
         cant = NuevosBloques(metadatas[k], t), Asignados(Reubicados(k, cant)) \subseteq Bloque,
         Compactar(k, t, cant)
  PROVE  ListaInd'
<1> DEFINE n == Len(metadatas)
           N == Nuevos(k, t, cant)
<1>1. metadatas \in Seq(Ficha) /\ n \in Nat /\ DOMAIN metadatas = 1 .. n
  BY DEF ListaInd
<1>2. /\ DOMAIN N = 1 .. n /\ N \in Seq(Ficha)
      /\ \A i \in 1 .. n :
           /\ N[i].nombre = metadatas[i].nombre
           /\ N[i].tamanio_archivo = IF i = k THEN t ELSE metadatas[i].tamanio_archivo
           /\ N[i].bloq_inicial_archivo \in Bloque
  BY <1>1, FichasNuevas
<1>3. metadatas' = N
  BY DEF Compactar
<1>4. /\ DOMAIN disco' = DOMAIN disco
      /\ \A x \in DOMAIN disco :
           disco'[x] = [tamanio |-> IF x = metadatas[k].nombre THEN t ELSE disco[x].tamanio,
                        inicial |-> N[Posicion(x)].bloq_inicial_archivo]
  BY DEF Compactar
<1> HIDE DEF N
<1>5. \A i \in 1 .. n : /\ metadatas[i].nombre \in DOMAIN disco
                        /\ disco[metadatas[i].nombre].tamanio = metadatas[i].tamanio_archivo
                        /\ metadatas[i].nombre = metadatas[k].nombre => i = k
  <2>1. \A i \in 1 .. n : metadatas[i].nombre = metadatas[k].nombre => i = k
    BY <1>1 DEF ListaInd, SinRepetidos
  <2>2. \A i \in 1 .. n : /\ metadatas[i].nombre \in DOMAIN disco
                          /\ disco[metadatas[i].nombre] =
                               [tamanio |-> metadatas[i].tamanio_archivo,
                                inicial |-> metadatas[i].bloq_inicial_archivo]
    BY <1>1 DEF ListaInd, MetadatosAlDia
  <2>3. ASSUME NEW i \in 1 .. n
        PROVE  disco[metadatas[i].nombre].tamanio = metadatas[i].tamanio_archivo
    <3> DEFINE x == disco[metadatas[i].nombre]
    <3>1. x = [tamanio |-> metadatas[i].tamanio_archivo,
               inicial |-> metadatas[i].bloq_inicial_archivo]
      BY <2>2
    <3> HIDE DEF x
    <3>2. x.tamanio = metadatas[i].tamanio_archivo
      BY <3>1
    <3> QED
      BY <3>2 DEF x
  <2> QED
    BY <2>1, <2>2, <2>3
<1>p. ASSUME NEW i \in 1 .. n PROVE Posicion(metadatas[i].nombre) = i
  <2>1. Listado(metadatas[i].nombre)
    BY <1>1 DEF Listado
  <2> QED
    BY <1>1, <2>1, Encontrada DEF ListaInd
<1>6. \A x \in DOMAIN disco : \E i \in 1 .. n : x = metadatas[i].nombre
  BY <1>1 DEF ListaInd, MetadatosAlDia
<1>7. ASSUME NEW i \in 1 .. n
      PROVE  disco'[N[i].nombre] = [tamanio |-> N[i].tamanio_archivo,
                                    inicial |-> N[i].bloq_inicial_archivo]
  <2> DEFINE x == metadatas[i].nombre
  <2>1. /\ x \in DOMAIN disco /\ disco[x].tamanio = metadatas[i].tamanio_archivo
        /\ x = metadatas[k].nombre <=> i = k
        /\ Posicion(x) = i /\ N[i].nombre = x
    BY <1>1, <1>2, <1>5, <1>p
  <2>2. N[i].tamanio_archivo = IF i = k THEN t ELSE metadatas[i].tamanio_archivo
    BY <1>2
  <2>3. disco'[x] = [tamanio |-> IF x = metadatas[k].nombre THEN t ELSE disco[x].tamanio,
                     inicial |-> N[Posicion(x)].bloq_inicial_archivo]
    BY <1>4, <2>1
  <2> HIDE DEF x
  <2> QED
    BY <2>1, <2>2, <2>3
<1>8. DiscoTipo'
  <2>1. ASSUME NEW x \in DOMAIN disco
        PROVE  disco'[x] \in [tamanio : Nat, inicial : Bloque]
    <3>1. PICK i \in 1 .. n : x = metadatas[i].nombre
      BY <1>6
    <3>2. metadatas[i].tamanio_archivo \in Nat
      BY <1>1, FichaDe
    <3>3. disco'[x] = [tamanio |-> N[i].tamanio_archivo, inicial |-> N[i].bloq_inicial_archivo]
      BY <3>1, <1>2, <1>7
    <3>4. N[i].tamanio_archivo \in Nat /\ N[i].bloq_inicial_archivo \in Bloque
      BY <3>2, <1>2
    <3> QED
      BY <3>3, <3>4
  <2> QED
    BY <2>1, <1>4 DEF ListaInd, DiscoTipo, Bloque
<1>9. SinRepetidos'
  BY <1>1, <1>2, <1>3 DEF ListaInd, SinRepetidos
<1>10. MetadatosAlDia'
  <2>1. DOMAIN disco' = {N[i].nombre : i \in 1 .. n}
    <3>1. \A i \in 1 .. n : N[i].nombre = metadatas[i].nombre /\ metadatas[i].nombre \in DOMAIN disco
      BY <1>2, <1>5
    <3>0. DOMAIN disco' = DOMAIN disco
      BY <1>4
    <3>2. ASSUME NEW x \in DOMAIN disco' PROVE \E i \in 1 .. n : x = N[i].nombre
      <4>1. PICK i \in 1 .. n : x = metadatas[i].nombre
        BY <3>0, <1>6
      <4> QED
        BY <4>1, <3>1
    <3>3. \A i \in 1 .. n : N[i].nombre \in DOMAIN disco'
      BY <3>1, <3>0
    <3> QED
      BY <3>2, <3>3
  <2> QED
    BY <2>1, <1>2, <1>3, <1>7 DEF MetadatosAlDia
<1> QED
  BY <1>2, <1>3, <1>8, <1>9, <1>10 DEF ListaInd

-----------------------------------------------------------------------------
(* listFiles (funcionesfs.c): a restart.                                   *)

(* The directory is listed whole, each file once.                          *)
LEMMA DirectorioEntero ==
  ASSUME ListaInd, NEW orden \in [1 .. Cardinality(DOMAIN disco) -> DOMAIN disco],
         IsInjective(orden)
  PROVE  /\ Cardinality(DOMAIN disco) \in Nat
         /\ \A x \in DOMAIN disco : \E k \in 1 .. Cardinality(DOMAIN disco) : x = orden[k]
<1> DEFINE n == Len(metadatas)
           D == DOMAIN disco
           c == Cardinality(D)
           f == [i \in 1 .. n |-> metadatas[i].nombre]
<1>1. n \in Nat /\ DOMAIN metadatas = 1 .. n /\ D = {metadatas[i].nombre : i \in 1 .. n}
  BY DEF ListaInd, MetadatosAlDia
<1>2. IsFiniteSet(1 .. n)
  BY <1>1, FS_Interval
<1>3. f \in Surjection(1 .. n, D)
  BY <1>1 DEF Surjection
<1>4. IsFiniteSet(D)
  <2> HIDE DEF f, D, n
  <2> QED
    BY <1>2, <1>3, FS_Surjection
<1>5. c \in Nat
  BY <1>4, FS_CardinalityType
<1> HIDE DEF c
<1>6. IsFiniteSet(1 .. c) /\ Cardinality(1 .. c) = c
  <2>1. 1 \in Int /\ c \in Int
    BY <1>5
  <2>2. IsFiniteSet(1 .. c) /\ Cardinality(1 .. c) = IF 1 > c THEN 0 ELSE c - 1 + 1
    BY <2>1, FS_Interval
  <2> QED
    BY <2>2, <1>5
<1>7. orden \in [1 .. c -> D] /\ orden \in Injection(1 .. c, D)
  BY DEF c, IsInjective, Injection
<1>8. orden \in Surjection(1 .. c, D)
  <2>1. Cardinality(1 .. c) = Cardinality(D)
    BY <1>6 DEF c
  <2> HIDE DEF D
  <2> QED
    BY <1>4, <1>6, <1>7, <2>1, FS_Injection
<1>9. \A x \in D : \E k \in 1 .. c : x = orden[k]
  BY <1>8 DEF Surjection
<1> QED
  BY <1>5, <1>9 DEF c

(* The list read back from the metadata files says what they say.          *)
LEMMA ListaReiniciar ==
  ASSUME ListaInd, Reiniciar
  PROVE  ListaInd'
<1> DEFINE D == DOMAIN disco
           c == Cardinality(D)
<1>1. PICK orden \in [1 .. c -> D] : \E ultimo \in [D -> Bloque] :
        /\ IsInjective(orden)
        /\ metadatas' = [k \in DOMAIN orden |->
             [nombre |-> orden[k], tamanio_archivo |-> disco[orden[k]].tamanio,
              bloq_inicial_archivo |-> disco[orden[k]].inicial,
              cantidad_bloques |-> CantidadDeBloquesNecesarios(disco[orden[k]].tamanio),
              ultimo_bloque |-> ultimo[orden[k]]]]
  BY DEF Reiniciar
<1>2. PICK ultimo \in [D -> Bloque] :
        /\ IsInjective(orden)
        /\ metadatas' = [k \in 1 .. c |->
             [nombre |-> orden[k], tamanio_archivo |-> disco[orden[k]].tamanio,
              bloq_inicial_archivo |-> disco[orden[k]].inicial,
              cantidad_bloques |-> CantidadDeBloquesNecesarios(disco[orden[k]].tamanio),
              ultimo_bloque |-> ultimo[orden[k]]]]
  BY <1>1
<1>3. disco' = disco
  BY DEF Reiniciar
<1>4. c \in Nat /\ \A x \in D : \E k \in 1 .. c : x = orden[k]
  BY <1>2, DirectorioEntero
<1>5. \A a, b \in 1 .. c : orden[a] = orden[b] => a = b
  BY <1>2 DEF IsInjective
<1> HIDE DEF c
<1>6. ASSUME NEW k \in 1 .. c
      PROVE  /\ orden[k] \in D /\ metadatas'[k] \in Ficha
             /\ metadatas'[k].nombre = orden[k]
             /\ metadatas'[k].tamanio_archivo = disco[orden[k]].tamanio
             /\ metadatas'[k].bloq_inicial_archivo = disco[orden[k]].inicial
  <2>1. orden[k] \in D
    OBVIOUS
  <2>2. /\ disco[orden[k]] \in [tamanio : Nat, inicial : Bloque] /\ orden[k] \in Nombre
        /\ ultimo[orden[k]] \in Bloque
    BY <2>1 DEF ListaInd, DiscoTipo
  <2>3. CantidadDeBloquesNecesarios(disco[orden[k]].tamanio) \in Nat \ {0}
    BY <2>2, Necesarios
  <2> QED
    BY <1>2, <2>1, <2>2, <2>3 DEF Ficha
<1>7. DOMAIN metadatas' = 1 .. c
  BY <1>2
<1>8. metadatas' \in Seq(Ficha)
  <2>1. metadatas' = [k \in 1 .. c |-> metadatas'[k]]
    BY <1>2
  <2> QED
    BY <2>1, <1>4, <1>6, SeqDef
<1>9. \A k \in 1 .. c : disco[orden[k]] = [tamanio |-> disco[orden[k]].tamanio,
                                          inicial |-> disco[orden[k]].inicial]
  BY <1>6 DEF ListaInd, DiscoTipo
<1>10. MetadatosAlDia'
  <2>1. DOMAIN disco' = {metadatas'[k].nombre : k \in DOMAIN metadatas'}
    <3>1. \A x \in D : \E k \in 1 .. c : x = metadatas'[k].nombre
      BY <1>4, <1>6
    <3>2. \A k \in 1 .. c : metadatas'[k].nombre \in D
      BY <1>6
    <3> QED
      BY <3>1, <3>2, <1>3, <1>7
  <2>2. ASSUME NEW k \in DOMAIN metadatas'
        PROVE  disco'[metadatas'[k].nombre] = [tamanio |-> metadatas'[k].tamanio_archivo,
                                               inicial |-> metadatas'[k].bloq_inicial_archivo]
    BY <1>3, <1>6, <1>7, <1>9
  <2> QED
    BY <2>1, <2>2 DEF MetadatosAlDia
<1>11. SinRepetidos'
  BY <1>5, <1>6, <1>7 DEF SinRepetidos
<1>12. DiscoTipo'
  BY <1>3 DEF DiscoTipo, ListaInd, Bloque
<1> QED
  BY <1>8, <1>10, <1>11, <1>12 DEF ListaInd

-----------------------------------------------------------------------------
(* Every step.                                                             *)

(* What is served is a request.                                            *)
LEMMA Pedida ==
  ASSUME atendidos \in 0 .. Len(Guion), Servir
  PROVE  /\ \E p \in Peticion : Atender(p)
         /\ atendidos' \in 0 .. Len(Guion)
<1>1. /\ Len(Guion) \in Nat /\ \A i \in 1 .. Len(Guion) : Guion[i] \in SUBSET Peticion
  BY DialAssumption
<1>2. atendidos + 1 \in 1 .. Len(Guion)
  BY <1>1 DEF Servir
<1>3. \E p \in Guion[atendidos + 1] : Atender(p)
  BY DEF Servir
<1>4. atendidos' = atendidos + 1
  BY DEF Servir
<1>5. \E p \in Peticion : Atender(p)
  BY <1>1, <1>2, <1>3
<1>6. atendidos' \in 0 .. Len(Guion)
  BY <1>1, <1>2, <1>4
<1> QED
  BY <1>5, <1>6

(* A TRUNCATE that finds its file grows it where it is, compacts, reduces  *)
(* it or leaves it as it was.                                              *)
LEMMA FormasDeTruncar ==
  ASSUME ListaInd, NEW p \in Peticion, p.op = "TRUNCATE", Listado(p.nombre), Razonable(p),
         TruncarArchivo(p), NEW k, k = Posicion(p.nombre), NEW cant,
         cant = NuevosBloques(metadatas[k], p.tamanio)
  PROVE  /\ k \in DOMAIN metadatas /\ p.tamanio \in Nat /\ UNCHANGED <<leido, caida>>
         /\ \/ /\ metadatas[k].tamanio_archivo < p.tamanio
               /\ HayBloquesLibresContiguos(cant, metadatas[k].ultimo_bloque)
               /\ Tramo(metadatas[k].ultimo_bloque + 1, cant) \subseteq Bloque
               /\ bitmap' = bitmap \cup Tramo(metadatas[k].ultimo_bloque + 1, cant)
               /\ metadatas' = [metadatas EXCEPT ![k].tamanio_archivo = p.tamanio]
               /\ ModificarConfigTam(metadatas[k].nombre, p.tamanio)
               /\ UNCHANGED bloques
            \/ /\ metadatas[k].tamanio_archivo < p.tamanio
               /\ ~HayBloquesLibresContiguos(cant, metadatas[k].ultimo_bloque)
               /\ metadatas[k].bloq_inicial_archivo * BLOCK_SIZE + p.tamanio - 1 \in Byte
               /\ Asignados(Reubicados(k, cant)) \subseteq Bloque
               /\ Compactar(k, p.tamanio, cant)
            \/ /\ metadatas[k].tamanio_archivo > p.tamanio
               /\ ReducirTamArchivo(k, p.tamanio)
            \/ UNCHANGED <<bitmap, bloques, disco, metadatas>>
<1>1. k \in DOMAIN metadatas
  BY Encontrada DEF ListaInd
<1>2. p.tamanio \in Nat
  BY DEF Peticion
<1>3. /\ UNCHANGED <<leido, caida>>
      /\ \/ metadatas[k].tamanio_archivo < p.tamanio /\ AmpliarTamArchivo(k, p.tamanio)
         \/ metadatas[k].tamanio_archivo > p.tamanio /\ ReducirTamArchivo(k, p.tamanio)
         \/ UNCHANGED <<bitmap, bloques, disco, metadatas>>
  BY DEF TruncarArchivo
<1>4. metadatas[k].tamanio_archivo < p.tamanio =>
        IF HayBloquesLibresContiguos(cant, metadatas[k].ultimo_bloque)
        THEN Tramo(metadatas[k].ultimo_bloque + 1, cant) \subseteq Bloque
        ELSE /\ metadatas[k].bloq_inicial_archivo * BLOCK_SIZE + p.tamanio - 1 \in Byte
             /\ Asignados(Reubicados(k, cant)) \subseteq Bloque
  BY DEF Razonable
<1>5. AmpliarTamArchivo(k, p.tamanio) =>
        IF HayBloquesLibresContiguos(cant, metadatas[k].ultimo_bloque)
        THEN /\ bitmap' = bitmap \cup Tramo(metadatas[k].ultimo_bloque + 1, cant)
             /\ metadatas' = [metadatas EXCEPT ![k].tamanio_archivo = p.tamanio]
             /\ ModificarConfigTam(metadatas[k].nombre, p.tamanio)
             /\ UNCHANGED bloques
        ELSE Compactar(k, p.tamanio, cant)
  BY DEF AmpliarTamArchivo
<1> QED
  BY <1>1, <1>2, <1>3, <1>4, <1>5

(* No request leaves the list and the directory saying two things.         *)
LEMMA ListaAtender ==
  ASSUME ListaInd, NEW p \in Peticion, Atender(p)
  PROVE  ListaInd'
<1>1. CASE UNCHANGED <<disco, metadatas>>
  BY <1>1 DEF ListaInd, DiscoTipo, SinRepetidos, MetadatosAlDia
<1>2. CASE p.op = "CREATE"
  <2>1. Razonable(p) /\ CrearArchivoMetadata(p)
    BY <1>2 DEF Atender
  <2>2. ~Listado(p.nombre) /\ ProximoBitDisponible \in Bloque
    BY <1>2, <2>1 DEF Razonable
  <2> QED
    BY <2>1, <2>2, ListaCrear
<1>3. CASE p.op = "DELETE" /\ Listado(p.nombre)
  BY <1>3, ListaBorrar DEF Atender
<1>4. CASE p.op = "TRUNCATE" /\ Listado(p.nombre)
  <2> DEFINE k == Posicion(p.nombre)
             cant == NuevosBloques(metadatas[k], p.tamanio)
  <2>1. Razonable(p) /\ TruncarArchivo(p)
    BY <1>4 DEF Atender
  <2>2. /\ k \in DOMAIN metadatas /\ p.tamanio \in Nat
        /\ \/ /\ metadatas' = [metadatas EXCEPT ![k].tamanio_archivo = p.tamanio]
              /\ ModificarConfigTam(metadatas[k].nombre, p.tamanio)
           \/ /\ Asignados(Reubicados(k, cant)) \subseteq Bloque
              /\ Compactar(k, p.tamanio, cant)
           \/ ReducirTamArchivo(k, p.tamanio)
           \/ UNCHANGED <<disco, metadatas>>
    BY <1>4, <2>1, FormasDeTruncar
  <2>3. ReducirTamArchivo(k, p.tamanio) =>
          /\ metadatas' = [metadatas EXCEPT ![k].tamanio_archivo = p.tamanio]
          /\ ModificarConfigTam(metadatas[k].nombre, p.tamanio)
    BY DEF ReducirTamArchivo
  <2> HIDE DEF k
  <2> QED
    BY <1>1, <2>2, <2>3, ListaTamanio, ListaCompactar
<1>5. CASE p.op \in {"DELETE", "TRUNCATE"} /\ ~Listado(p.nombre)
  <2>1. UNCHANGED <<disco, metadatas>>
    BY <1>5 DEF Atender, BorrarArchivo, TruncarArchivo, Caer
  <2> QED
    BY <2>1, <1>1
<1>6. CASE p.op \in {"WRITE", "READ"}
  <2>1. UNCHANGED <<disco, metadatas>>
    BY <1>6 DEF Atender, EscribirArchivoBloque, LeerArchivoBloque, Caer
  <2> QED
    BY <2>1, <1>1
<1> QED
  BY <1>2, <1>3, <1>4, <1>5, <1>6 DEF Atender

(* What listFiles reads after a restart at any moment is what the list had *)
(* (funcionesfs.c:401, 589), for any requests, even those the code is not  *)
(* prepared for.                                                           *)
LEMMA DiscoSiempre == Spec => []DiscoInd
<1>1. Init => DiscoInd
  <2> SUFFICES ASSUME Init PROVE DiscoInd
    OBVIOUS
  <2>1. metadatas = <<>> /\ disco = <<>> /\ atendidos = 0
    BY DEF Init
  <2>2. 0 \in 0 .. Len(Guion)
    BY DialAssumption
  <2>3. DOMAIN disco = {} /\ DOMAIN metadatas = {} /\ metadatas \in Seq(Ficha)
    BY <2>1
  <2> QED
    BY <2>1, <2>2, <2>3 DEF DiscoInd, ListaInd, DiscoTipo, SinRepetidos, MetadatosAlDia
<1>2. DiscoInd /\ [Next]_vars => DiscoInd'
  <2> SUFFICES ASSUME DiscoInd, [Next]_vars PROVE DiscoInd'
    OBVIOUS
  <2>1. CASE Servir
    <3>1. PICK p \in Peticion : Atender(p)
      BY <2>1, Pedida DEF DiscoInd
    <3>2. atendidos' \in 0 .. Len(Guion)
      BY <2>1, Pedida DEF DiscoInd
    <3> QED
      BY <3>1, <3>2, ListaAtender DEF DiscoInd
  <2>2. CASE Reiniciar
    BY <2>2, ListaReiniciar DEF DiscoInd, Reiniciar
  <2>3. CASE UNCHANGED vars
    BY <2>3 DEF vars, DiscoInd, ListaInd, DiscoTipo, SinRepetidos, MetadatosAlDia
  <2> QED
    BY <2>1, <2>2, <2>3 DEF Next
<1> QED
  BY <1>1, <1>2, PTL DEF Spec

(* modificar_config_tam and modificar_bloque_inicial: the metadata files   *)
(* say at every moment what the list says.                                 *)
THEOREM DiscoAlDia == Spec => []MetadatosAlDia
<1>1. DiscoInd => MetadatosAlDia
  BY DEF DiscoInd, ListaInd
<1> QED
  BY <1>1, DiscoSiempre, PTL

-----------------------------------------------------------------------------
(* Blocks and bytes.                                                       *)

(* More blocks are more bytes.                                             *)
LEMMA Producto ==
  ASSUME NEW a \in Int, NEW b \in Int, NEW c \in Nat, a <= b
  PROVE  a * c <= b * c
  OBVIOUS

(* A file that is not longer has no more blocks.                           *)
LEMMA NoMasBloques ==
  ASSUME NEW t \in Nat, NEW u \in Nat, t <= u
  PROVE  CantidadDeBloquesNecesarios(t) <= CantidadDeBloquesNecesarios(u)
<1> DEFINE m == CantidadDeBloquesNecesarios(t)
           n == CantidadDeBloquesNecesarios(u)
<1>1. BLOCK_SIZE \in Nat \ {0}
  BY DialAssumption
<1>2. m \in Nat \ {0} /\ n \in Nat \ {0} /\ u <= n * BLOCK_SIZE
  BY Necesarios
<1>3. CASE t = 0
  <2>1. m = 1
    BY <1>3 DEF CantidadDeBloquesNecesarios
  <2> QED
    BY <1>2, <2>1
<1>4. CASE t > 0
  <2> DEFINE q == (t - 1) \div BLOCK_SIZE
  <2>1. q \in Nat /\ BLOCK_SIZE * q <= t - 1
    <3> DEFINE a == t - 1
    <3>1. a \in Nat
      BY <1>4
    <3> HIDE DEF a
    <3>2. a \div BLOCK_SIZE \in Nat /\ BLOCK_SIZE * (a \div BLOCK_SIZE) <= a
      BY <1>1, <3>1
    <3> QED
      BY <3>2 DEF a
  <2>2. m = 1 + q
    BY <1>4 DEF CantidadDeBloquesNecesarios
  <2> HIDE DEF q, m, n
  <2>3. q * BLOCK_SIZE < n * BLOCK_SIZE
    BY <1>1, <1>2, <1>4, <2>1
  <2>4. ~(n <= q)
    <3> SUFFICES ASSUME n <= q PROVE FALSE
      OBVIOUS
    <3>1. n * BLOCK_SIZE <= q * BLOCK_SIZE
      BY <1>1, <1>2, <2>1, Producto
    <3> QED
      BY <3>1, <2>3, <1>1, <1>2, <2>1
  <2>5. q \in Nat /\ n \in Nat /\ q < n => 1 + q <= n
    OBVIOUS
  <2>6. q \in Nat /\ n \in Nat /\ q < n
    BY <2>1, <2>4, <1>2
  <2>7. m <= n
    BY <2>2, <2>5, <2>6
  <2> QED
    BY <2>7 DEF m, n
<1> QED
  BY <1>3, <1>4

(* Two runs of blocks without a common one come one after the other.       *)
LEMMA UnoTrasOtro ==
  ASSUME NEW a \in Nat, NEW b \in Nat, NEW m \in Nat \ {0}, NEW n \in Nat \ {0},
         Tramo(a, m) \cap Tramo(b, n) = {}
  PROVE  a + m <= b \/ b + n <= a
<1> SUFFICES ASSUME ~(a + m <= b), ~(b + n <= a) PROVE FALSE
  OBVIOUS
<1>1. CASE a <= b
  <2>1. b \in Tramo(a, m) /\ b \in Tramo(b, n)
    BY <1>1 DEF Tramo
  <2> QED
    BY <2>1
<1>2. CASE b <= a
  <2>1. a \in Tramo(a, m) /\ a \in Tramo(b, n)
    BY <1>2 DEF Tramo
  <2> QED
    BY <2>1
<1> QED
  BY <1>1, <1>2

(* The bytes of blocks that exist exist.                                   *)
LEMMA BytesQueHay ==
  ASSUME NEW a \in Nat, NEW n \in Nat \ {0}, NEW t \in Nat, t <= n * BLOCK_SIZE,
         Tramo(a, n) \subseteq Bloque, NEW x \in 0 .. t - 1
  PROVE  a * BLOCK_SIZE + x \in Byte
<1>1. BLOCK_SIZE \in Nat \ {0} /\ BITS \in Nat
  BY DialAssumption
<1>2. a + n <= BITS
  <2>1. a + n - 1 \in Tramo(a, n)
    BY DEF Tramo
  <2>2. a + n - 1 \in 0 .. BITS - 1
    BY <2>1 DEF Bloque
  <2> QED
    BY <2>2, <1>1
<1>3. (a + n) * BLOCK_SIZE <= BITS * BLOCK_SIZE
  BY <1>1, <1>2, Producto
<1>4. (a + n) * BLOCK_SIZE = a * BLOCK_SIZE + n * BLOCK_SIZE
  BY <1>1
<1> DEFINE A == a * BLOCK_SIZE
           N == n * BLOCK_SIZE
           B == BITS * BLOCK_SIZE
<1>5. A \in Nat /\ N \in Nat /\ B \in Nat
  BY <1>1
<1>6. A + N <= B /\ t <= N
  BY <1>3, <1>4
<1>7. Byte = 0 .. B - 1
  BY DEF Byte
<1> HIDE DEF A, N, B
<1>8. A + x \in Byte
  BY <1>5, <1>6, <1>7
<1> QED
  BY <1>8 DEF A

(* The bytes of files without common blocks are different.                 *)
LEMMA BytesAparte ==
  ASSUME NEW a \in Nat, NEW b \in Nat, NEW m \in Nat \ {0}, NEW n \in Nat \ {0},
         Tramo(a, m) \cap Tramo(b, n) = {},
         NEW t \in Nat, NEW u \in Nat, t <= m * BLOCK_SIZE, u <= n * BLOCK_SIZE,
         NEW d \in Int,
         d - a * BLOCK_SIZE \in 0 .. t - 1, d - b * BLOCK_SIZE \in 0 .. u - 1
  PROVE  FALSE
<1>1. BLOCK_SIZE \in Nat
  BY DialAssumption
<1> DEFINE A == a * BLOCK_SIZE
           M == m * BLOCK_SIZE
           B == b * BLOCK_SIZE
           N == n * BLOCK_SIZE
<1>2. A \in Nat /\ M \in Nat /\ B \in Nat /\ N \in Nat
  BY <1>1
<1>3. (a + m) * BLOCK_SIZE = A + M /\ (b + n) * BLOCK_SIZE = B + N
  BY <1>1
<1>4. a + m <= b \/ b + n <= a
  BY UnoTrasOtro
<1>5. a + m <= b => (a + m) * BLOCK_SIZE <= b * BLOCK_SIZE
  BY <1>1, Producto
<1>6. b + n <= a => (b + n) * BLOCK_SIZE <= a * BLOCK_SIZE
  BY <1>1, Producto
<1>7. A + M <= B \/ B + N <= A
  BY <1>3, <1>4, <1>5, <1>6
<1>8. t <= M /\ u <= N /\ d - A \in 0 .. t - 1 /\ d - B \in 0 .. u - 1
  OBVIOUS
<1> HIDE DEF A, M, B, N
<1> QED
  BY <1>2, <1>7, <1>8

-----------------------------------------------------------------------------
(* The blocks.                                                             *)

(* What BloquesPropios needs to be inductive: a byte has a value of a      *)
(* byte, a bit stands for a block that exists and no file claims more      *)
(* blocks than there are.                                                  *)
CuerpoInd ==
  /\ bitmap \subseteq Bloque /\ bloques \in [Byte -> Dato] /\ BloquesPropios
  /\ \A k \in DOMAIN metadatas : metadatas[k].cantidad_bloques <= BITS
\* with the list and the answer to the last read
BloquesInd == DiscoInd /\ CuerpoInd /\ leido \in Seq(Dato) /\ caida \in BOOLEAN

(* A file in the list has its blocks among those that exist.               *)
LEMMA BloquesQueTiene ==
  ASSUME ListaInd, CuerpoInd, NEW i \in DOMAIN metadatas
  PROVE  /\ metadatas[i].bloq_inicial_archivo \in Nat /\ metadatas[i].tamanio_archivo \in Nat
         /\ Ocupa(metadatas[i]) \in Nat \ {0} /\ Ocupa(metadatas[i]) <= BITS
         /\ metadatas[i].tamanio_archivo <= Ocupa(metadatas[i]) * BLOCK_SIZE
         /\ BloquesDe(metadatas[i]) \subseteq bitmap /\ BloquesDe(metadatas[i]) \subseteq Bloque
<1>1. BITS \in Nat
  BY DialAssumption
<1>2. /\ metadatas[i].bloq_inicial_archivo \in Bloque /\ metadatas[i].tamanio_archivo \in Nat
  BY FichaDe DEF ListaInd
<1>3. /\ Ocupa(metadatas[i]) \in Nat \ {0}
      /\ metadatas[i].tamanio_archivo <= Ocupa(metadatas[i]) * BLOCK_SIZE
  BY <1>2, Necesarios DEF Ocupa
<1>4. BloquesDe(metadatas[i]) \subseteq bitmap /\ BloquesDe(metadatas[i]) \subseteq Bloque
  BY DEF CuerpoInd, BloquesPropios
<1>5. metadatas[i].bloq_inicial_archivo \in Nat
  BY <1>1, <1>2 DEF Bloque
<1> DEFINE b == metadatas[i].bloq_inicial_archivo
           o == Ocupa(metadatas[i])
<1>6. b + o - 1 \in Bloque
  <2>1. Tramo(b, o) \subseteq Bloque
    BY <1>4 DEF BloquesDe
  <2>2. b \in Nat /\ o \in Nat \ {0}
    BY <1>3, <1>5
  <2> HIDE DEF b, o
  <2>3. b + o - 1 \in Tramo(b, o)
    BY <2>2 DEF Tramo
  <2> QED
    BY <2>1, <2>3
<1>7. o <= BITS
  <2>1. b \in Nat /\ o \in Nat \ {0}
    BY <1>3, <1>5
  <2> HIDE DEF b, o
  <2> QED
    BY <2>1, <1>1, <1>6 DEF Bloque
<1> QED
  BY <1>2, <1>3, <1>4, <1>5, <1>7

(* The first bit at 0 is one.                                              *)
LEMMA BitLibre ==
  ASSUME bitmap \subseteq Bloque
  PROVE  ProximoBitDisponible \notin bitmap
<1> DEFINE S == (0 .. BITS) \ bitmap
<1>1. BITS \in Nat
  BY DialAssumption
<1>2. BITS \in S /\ S \subseteq Nat
  BY <1>1 DEF Bloque
<1>3. PICK k \in S : \A j \in S : k <= j
  BY <1>2, Menor
<1>4. 0 .. k - 1 \subseteq bitmap
  BY <1>1, <1>3
<1>5. \E i \in 0 .. BITS : i \notin bitmap /\ 0 .. i - 1 \subseteq bitmap
  BY <1>3, <1>4
<1> QED
  BY <1>5 DEF ProximoBitDisponible

(* CREATE gives its file a block that nobody has.                          *)
LEMMA CuerpoCrear ==
  ASSUME ListaInd, CuerpoInd, NEW p, ProximoBitDisponible \in Bloque, CrearArchivoMetadata(p)
  PROVE  CuerpoInd'
<1> DEFINE b == ProximoBitDisponible
           n == Len(metadatas)
           m == [nombre |-> p.nombre, tamanio_archivo |-> 0, bloq_inicial_archivo |-> b,
                 cantidad_bloques |-> 1, ultimo_bloque |-> b]
<1>1. b \in Bloque /\ b \notin bitmap
  BY BitLibre DEF CuerpoInd
<1>2. metadatas' = Append(metadatas, m) /\ bitmap' = bitmap \cup {b} /\ bloques' = bloques
  BY DEF CrearArchivoMetadata
<1>3. BloquesDe(m) = {b} /\ m.cantidad_bloques = 1
  <2>1. b \in Int
    BY <1>1 DEF Bloque
  <2>2. Tramo(b, 1) = {b}
    <3> HIDE DEF b
    <3> QED
      BY <2>1 DEF Tramo
  <2>3. Ocupa(m) = 1 /\ m.bloq_inicial_archivo = b
    BY DEF Ocupa, CantidadDeBloquesNecesarios
  <2> QED
    BY <2>2, <2>3 DEF BloquesDe
<1> HIDE DEF b, m
<1>4. n \in Nat /\ DOMAIN metadatas = 1 .. n
  BY DEF ListaInd
<1>5. /\ DOMAIN metadatas' = 1 .. n + 1 /\ metadatas'[n + 1] = m
      /\ \A i \in 1 .. n : metadatas'[i] = metadatas[i]
  BY <1>2, <1>4 DEF ListaInd
<1>6. /\ \A i \in 1 .. n + 1 : i \in 1 .. n \/ i = n + 1
      /\ 1 <= BITS
  BY <1>4, DialAssumption
<1> HIDE DEF n
<1>7. \A i \in 1 .. n : /\ BloquesDe(metadatas[i]) \subseteq bitmap
                        /\ \A j \in (1 .. n) \ {i} :
                             BloquesDe(metadatas[i]) \cap BloquesDe(metadatas[j]) = {}
  BY <1>4 DEF CuerpoInd, BloquesPropios
<1>8. BloquesPropios'
  <2>1. \A i \in 1 .. n + 1 : BloquesDe(metadatas'[i]) \subseteq bitmap'
    BY <1>2, <1>3, <1>5, <1>6, <1>7
  <2>2. \A i \in 1 .. n : BloquesDe(metadatas'[i]) \cap BloquesDe(metadatas'[n + 1]) = {}
    BY <1>1, <1>3, <1>5, <1>7
  <2>3. \A i, j \in 1 .. n + 1 :
          i # j => BloquesDe(metadatas'[i]) \cap BloquesDe(metadatas'[j]) = {}
    BY <2>2, <1>5, <1>6, <1>7
  <2> QED
    BY <2>1, <2>3, <1>5 DEF BloquesPropios
<1>9. \A i \in DOMAIN metadatas' : metadatas'[i].cantidad_bloques <= BITS
  BY <1>3, <1>4, <1>5, <1>6 DEF CuerpoInd
<1> QED
  BY <1>1, <1>2, <1>8, <1>9 DEF CuerpoInd, Byte, Bloque

(* DELETE frees only blocks of its file.                                   *)
LEMMA CuerpoBorrar ==
  ASSUME ListaInd, CuerpoInd, NEW p, Listado(p.nombre), BorrarArchivo(p)
  PROVE  CuerpoInd'
<1> DEFINE k == Posicion(p.nombre)
           n == Len(metadatas)
           de(i) == IF i < k THEN i ELSE i + 1
           liberados == Tramo(metadatas[k].bloq_inicial_archivo, Techo(metadatas[k].tamanio_archivo))
<1>1. metadatas \in Seq(Ficha) /\ n \in Nat /\ DOMAIN metadatas = 1 .. n
  BY DEF ListaInd
<1>2. k \in 1 .. n
  BY <1>1, Encontrada DEF ListaInd
<1>3. metadatas' = RemoveAt(metadatas, k) /\ bitmap' = bitmap \ liberados /\ bloques' = bloques
  BY DEF BorrarArchivo
<1> HIDE DEF k
<1>4. /\ DOMAIN metadatas' = 1 .. n - 1
      /\ \A i \in 1 .. n - 1 : metadatas'[i] = metadatas[de(i)]
  <2>1. /\ RemoveAt(metadatas, k) \in Seq(Ficha)
        /\ Len(RemoveAt(metadatas, k)) = n - 1
        /\ \A i \in 1 .. n - 1 : RemoveAt(metadatas, k)[i] = metadatas[de(i)]
    BY <1>1, <1>2, Quitada
  <2> QED
    BY <2>1, <1>3
<1>5. \A i \in 1 .. n - 1 : de(i) \in 1 .. n /\ de(i) # k
  BY <1>1, <1>2
<1>6. \A i, j \in 1 .. n - 1 : de(i) = de(j) => i = j
  BY <1>1, <1>2
<1>7. liberados \subseteq BloquesDe(metadatas[k])
  <2> DEFINE b == metadatas[k].bloq_inicial_archivo
             t == metadatas[k].tamanio_archivo
             o == CantidadDeBloquesNecesarios(t)
  <2>1. b \in Nat /\ t \in Nat /\ o \in Nat \ {0}
    BY <1>1, <1>2, BloquesQueTiene DEF Ocupa
  <2>2. t > 0 => Techo(t) = o
    <3> HIDE DEF t
    <3> QED
      BY <2>1, Necesarios
  <2>3. t = 0 => Tramo(b, Techo(t)) = {}
    <3> HIDE DEF t
    <3>1. BLOCK_SIZE \in Nat \ {0}
      BY DialAssumption
    <3>2. (0 + BLOCK_SIZE - 1) \div BLOCK_SIZE = 0
      BY <3>1
    <3>3. t = 0 => Techo(t) = 0
      BY <3>2 DEF Techo
    <3>4. Tramo(b, 0) = {}
      <4> HIDE DEF b
      <4> QED
        BY <2>1 DEF Tramo
    <3> QED
      BY <3>3, <3>4
  <2>4. Tramo(b, o) = BloquesDe(metadatas[k])
    BY DEF BloquesDe, Ocupa
  <2> HIDE DEF b, t, o
  <2>5. Tramo(b, Techo(t)) \subseteq Tramo(b, o)
    BY <2>1, <2>2, <2>3
  <2> QED
    BY <2>4, <2>5 DEF b, t
<1> HIDE DEF liberados, de, n
<1>8. /\ \A i \in 1 .. n : BloquesDe(metadatas[i]) \subseteq bitmap
      /\ \A i, j \in 1 .. n : i # j => BloquesDe(metadatas[i]) \cap BloquesDe(metadatas[j]) = {}
  BY <1>1 DEF CuerpoInd, BloquesPropios
<1>9. BloquesPropios'
  <2>1. \A i \in 1 .. n - 1 : BloquesDe(metadatas'[i]) \subseteq bitmap'
    <3> SUFFICES ASSUME NEW i \in 1 .. n - 1
                 PROVE  BloquesDe(metadatas'[i]) \subseteq bitmap'
      OBVIOUS
    <3>1. BloquesDe(metadatas[de(i)]) \cap BloquesDe(metadatas[k]) = {}
      BY <1>2, <1>5, <1>8
    <3>2. BloquesDe(metadatas[de(i)]) \subseteq bitmap
      BY <1>5, <1>8
    <3>3. metadatas'[i] = metadatas[de(i)]
      BY <1>4
    <3> QED
      BY <3>1, <3>2, <3>3, <1>3, <1>7
  <2>2. \A i, j \in 1 .. n - 1 :
          i # j => BloquesDe(metadatas'[i]) \cap BloquesDe(metadatas'[j]) = {}
    BY <1>4, <1>5, <1>6, <1>8
  <2> QED
    BY <2>1, <2>2, <1>4 DEF BloquesPropios
<1>10. \A i \in DOMAIN metadatas' : metadatas'[i].cantidad_bloques <= BITS
  BY <1>1, <1>4, <1>5 DEF CuerpoInd
<1> QED
  BY <1>3, <1>9, <1>10 DEF CuerpoInd, Byte, Bloque

(* A file changes its size where it is.                                    *)
LEMMA CuerpoTamanio ==
  ASSUME ListaInd, CuerpoInd, NEW k \in DOMAIN metadatas, NEW t \in Nat,
         metadatas' = [metadatas EXCEPT ![k].tamanio_archivo = t], bloques' = bloques,
         bitmap' \subseteq Bloque, NEW T,
         T = Tramo(metadatas[k].bloq_inicial_archivo, CantidadDeBloquesNecesarios(t)),
         T \subseteq bitmap',
         \A i \in DOMAIN metadatas \ {k} : /\ BloquesDe(metadatas[i]) \subseteq bitmap'
                                           /\ BloquesDe(metadatas[i]) \cap T = {}
  PROVE  CuerpoInd'
<1> DEFINE D == DOMAIN metadatas
<1>1. metadatas[k] \in Ficha
  BY FichaDe DEF ListaInd
<1>2. /\ DOMAIN metadatas' = D /\ \A i \in D \ {k} : metadatas'[i] = metadatas[i]
      /\ metadatas'[k] = [metadatas[k] EXCEPT !.tamanio_archivo = t]
  OBVIOUS
<1>3. /\ metadatas'[k].tamanio_archivo = t
      /\ metadatas'[k].bloq_inicial_archivo = metadatas[k].bloq_inicial_archivo
      /\ metadatas'[k].cantidad_bloques = metadatas[k].cantidad_bloques
  BY <1>1, <1>2 DEF Ficha
<1>4. BloquesDe(metadatas'[k]) = T
  BY <1>3 DEF BloquesDe, Ocupa
<1>5. \A i, j \in D : i # j => BloquesDe(metadatas[i]) \cap BloquesDe(metadatas[j]) = {}
  BY DEF CuerpoInd, BloquesPropios
<1> HIDE DEF D
<1>6. \A i \in D : BloquesDe(metadatas'[i]) \subseteq bitmap'
  BY <1>2, <1>4 DEF D
<1>7. ASSUME NEW i \in D, NEW j \in D, i # j
      PROVE  BloquesDe(metadatas'[i]) \cap BloquesDe(metadatas'[j]) = {}
  <2>1. CASE i # k /\ j # k
    BY <2>1, <1>2, <1>5, <1>7
  <2>2. CASE i = k
    <3>1. BloquesDe(metadatas[j]) \cap T = {} /\ metadatas'[j] = metadatas[j]
      BY <2>2, <1>2, <1>7 DEF D
    <3> QED
      BY <3>1, <2>2, <1>4
  <2>3. CASE j = k
    <3>1. BloquesDe(metadatas[i]) \cap T = {} /\ metadatas'[i] = metadatas[i]
      BY <2>3, <1>2, <1>7 DEF D
    <3> QED
      BY <3>1, <2>3, <1>4
  <2> QED
    BY <2>1, <2>2, <2>3
<1>8. BloquesPropios'
  BY <1>2, <1>6, <1>7 DEF BloquesPropios
<1>9. \A i \in D : metadatas'[i].cantidad_bloques <= BITS
  BY <1>2, <1>3 DEF CuerpoInd, D
<1> QED
  BY <1>2, <1>8, <1>9 DEF CuerpoInd, Byte, Bloque

(* A growth where the file is takes the blocks behind its last one, which  *)
(* nobody has.                                                             *)
LEMMA CuerpoAmpliar ==
  ASSUME ListaInd, CuerpoInd, NEW k \in DOMAIN metadatas, NEW t \in Nat, NEW cant,
         cant = NuevosBloques(metadatas[k], t),
         \/ CantidadDeBloquesNecesarios(t) = Ocupa(metadatas[k])
         \/ /\ metadatas[k].cantidad_bloques = Ocupa(metadatas[k])
            /\ metadatas[k].ultimo_bloque = UltimoReal(metadatas[k]),
         HayBloquesLibresContiguos(cant, metadatas[k].ultimo_bloque),
         Tramo(metadatas[k].ultimo_bloque + 1, cant) \subseteq Bloque,
         bitmap' = bitmap \cup Tramo(metadatas[k].ultimo_bloque + 1, cant),
         metadatas' = [metadatas EXCEPT ![k].tamanio_archivo = t], bloques' = bloques
  PROVE  CuerpoInd'
<1> DEFINE b == metadatas[k].bloq_inicial_archivo
           o == Ocupa(metadatas[k])
           m == CantidadDeBloquesNecesarios(t)
           N == Tramo(metadatas[k].ultimo_bloque + 1, cant)
           T == Tramo(b, m)
<1>1. /\ b \in Nat /\ o \in Nat \ {0} /\ BloquesDe(metadatas[k]) = Tramo(b, o)
      /\ Tramo(b, o) \subseteq bitmap
  BY BloquesQueTiene DEF BloquesDe
<1>2. m \in Nat \ {0}
  BY Necesarios
<1>3. N \cap bitmap = {} /\ bitmap' = bitmap \cup N
  BY DEF HayBloquesLibresContiguos
<1>4. T \subseteq Tramo(b, o) \cup N
  <2>1. CASE m = o
    BY <2>1
  <2>2. CASE /\ metadatas[k].cantidad_bloques = o
             /\ metadatas[k].ultimo_bloque = UltimoReal(metadatas[k])
    <3>1. cant = m - o /\ metadatas[k].ultimo_bloque = b + o - 1
      BY <2>2 DEF NuevosBloques, UltimoReal
    <3> HIDE DEF b, o, m
    <3>2. b + o - 1 + 1 = b + o
      BY <1>1
    <3>3. N = Tramo(b + o, m - o)
      BY <3>1, <3>2
    <3>4. \A a, c, d \in Nat : Tramo(a, d) \subseteq Tramo(a, c) \cup Tramo(a + c, d - c)
      BY DEF Tramo
    <3> HIDE DEF N
    <3> QED
      BY <3>3, <3>4, <1>1, <1>2
  <2> QED
    BY <2>1, <2>2
<1>5. \A i \in DOMAIN metadatas \ {k} : /\ BloquesDe(metadatas[i]) \subseteq bitmap
                                        /\ BloquesDe(metadatas[i]) \cap Tramo(b, o) = {}
  BY <1>1 DEF CuerpoInd, BloquesPropios
<1>6. bitmap' \subseteq Bloque
  BY DEF CuerpoInd
<1> HIDE DEF N, T
<1>7. T \subseteq bitmap'
  BY <1>1, <1>3, <1>4
<1>8. \A i \in DOMAIN metadatas \ {k} : /\ BloquesDe(metadatas[i]) \subseteq bitmap'
                                        /\ BloquesDe(metadatas[i]) \cap T = {}
  BY <1>3, <1>4, <1>5
<1>9. T = Tramo(metadatas[k].bloq_inicial_archivo, CantidadDeBloquesNecesarios(t))
  BY DEF T
<1> QED
  BY <1>6, <1>7, <1>8, <1>9, CuerpoTamanio

(* A reduction to something frees the last blocks of its file.             *)
LEMMA CuerpoReducir ==
  ASSUME ListaInd, CuerpoInd, NEW k \in DOMAIN metadatas, NEW t \in Nat, t > 0,
         t < metadatas[k].tamanio_archivo, ReducirTamArchivo(k, t)
  PROVE  CuerpoInd'
<1> DEFINE b == metadatas[k].bloq_inicial_archivo
           u == metadatas[k].tamanio_archivo
           o == Ocupa(metadatas[k])
           m == CantidadDeBloquesNecesarios(t)
           L == BitsHasta(b + o - 1, o - m)
           T == Tramo(b, m)
<1>1. /\ b \in Nat /\ o \in Nat \ {0} /\ u \in Nat /\ BloquesDe(metadatas[k]) = Tramo(b, o)
      /\ Tramo(b, o) \subseteq bitmap
  BY BloquesQueTiene DEF BloquesDe
<1>2. m \in Nat \ {0} /\ Techo(t) = m /\ Techo(u) = o /\ m <= o
  <2>1. u > 0 /\ t <= u
    BY <1>1
  <2> HIDE DEF u
  <2>2. Techo(u) = CantidadDeBloquesNecesarios(u) /\ m <= CantidadDeBloquesNecesarios(u)
    BY <1>1, <2>1, Necesarios, NoMasBloques
  <2>3. CantidadDeBloquesNecesarios(u) = o
    BY DEF u, Ocupa
  <2> QED
    BY <2>2, <2>3, Necesarios
<1>3. /\ bitmap' = bitmap \ L /\ bloques' = bloques
      /\ metadatas' = [metadatas EXCEPT ![k].tamanio_archivo = t]
  BY <1>2 DEF ReducirTamArchivo
<1>4. L \subseteq Tramo(b, o) /\ T \subseteq Tramo(b, o) /\ L \cap T = {}
  <2> HIDE DEF b, o, m
  <2> QED
    BY <1>1, <1>2 DEF Tramo, BitsHasta
<1>5. \A i \in DOMAIN metadatas \ {k} : /\ BloquesDe(metadatas[i]) \subseteq bitmap
                                        /\ BloquesDe(metadatas[i]) \cap Tramo(b, o) = {}
  BY <1>1 DEF CuerpoInd, BloquesPropios
<1>6. bitmap' \subseteq Bloque
  BY <1>3 DEF CuerpoInd
<1> HIDE DEF L, T
<1>7. T \subseteq bitmap'
  BY <1>1, <1>3, <1>4
<1>8. \A i \in DOMAIN metadatas \ {k} : /\ BloquesDe(metadatas[i]) \subseteq bitmap'
                                        /\ BloquesDe(metadatas[i]) \cap T = {}
  BY <1>3, <1>4, <1>5
<1>9. T = Tramo(metadatas[k].bloq_inicial_archivo, CantidadDeBloquesNecesarios(t))
  BY DEF T
<1> QED
  BY <1>3, <1>6, <1>7, <1>8, <1>9, CuerpoTamanio

-----------------------------------------------------------------------------
(* compactar and the blocks.                                               *)

(* What Prudente asks of a growth that compacts.                           *)
Compactable(k, t, cant) ==
  /\ k \in DOMAIN metadatas /\ t \in Nat /\ cant = NuevosBloques(metadatas[k], t)
  /\ metadatas[k].tamanio_archivo < t
  /\ metadatas[k].bloq_inicial_archivo * BLOCK_SIZE + t - 1 \in Byte
  /\ Asignados(Reubicados(k, cant)) \subseteq Bloque
  /\ \A i \in DOMAIN metadatas \ {k} :
       metadatas[i].cantidad_bloques >= Ocupa(metadatas[i])

(* The new places: one run of blocks per file, none in two.                *)
LEMMA LugaresNuevos ==
  ASSUME ListaInd, NEW k, NEW t, NEW cant, Compactable(k, t, cant), NEW N,
         N = Nuevos(k, t, cant)
  PROVE  \A i \in DOMAIN metadatas :
           /\ N[i].bloq_inicial_archivo \in Nat /\ N[i].cantidad_bloques \in 1 .. BITS
           /\ N[i].tamanio_archivo \in Nat
           /\ N[i].tamanio_archivo = IF i = k THEN t ELSE metadatas[i].tamanio_archivo
           /\ Ocupa(N[i]) \in Nat \ {0} /\ Ocupa(N[i]) <= N[i].cantidad_bloques
           /\ N[i].tamanio_archivo <= Ocupa(N[i]) * BLOCK_SIZE
           /\ BloquesDe(N[i]) \subseteq Tramo(N[i].bloq_inicial_archivo, N[i].cantidad_bloques)
           /\ Tramo(N[i].bloq_inicial_archivo, N[i].cantidad_bloques) \subseteq Bloque
           /\ \A j \in DOMAIN metadatas \ {i} : BloquesDe(N[i]) \cap BloquesDe(N[j]) = {}
<1> DEFINE n == Len(metadatas)
           ini(i) == N[i].bloq_inicial_archivo
           can(i) == N[i].cantidad_bloques
<1>1. metadatas \in Seq(Ficha) /\ n \in Nat /\ DOMAIN metadatas = 1 .. n /\ BITS \in Nat
  BY DialAssumption DEF ListaInd
<1>2. k \in DOMAIN metadatas /\ t \in Nat /\ cant = NuevosBloques(metadatas[k], t)
  BY DEF Compactable
<1>3. \A i \in 1 .. n :
        /\ N[i].tamanio_archivo = IF i = k THEN t ELSE metadatas[i].tamanio_archivo
        /\ ini(i) = Cardinality(Anteriores(k, cant, i))
        /\ can(i) = IF i = k THEN CantidadDeBloquesNecesarios(t)
                             ELSE metadatas[i].cantidad_bloques
        /\ can(i) = Calculado(k, cant, i) /\ can(i) \in 1 .. BITS
        /\ ini(i) \in Bloque /\ Tramo(ini(i), can(i)) \subseteq Bloque
  BY <1>1, <1>2, FichasNuevas DEF Compactable
<1>4. ASSUME NEW i \in 1 .. n
      PROVE  /\ N[i].tamanio_archivo \in Nat /\ Ocupa(N[i]) \in Nat \ {0}
             /\ Ocupa(N[i]) <= can(i)
             /\ N[i].tamanio_archivo <= Ocupa(N[i]) * BLOCK_SIZE
             /\ ini(i) \in Nat /\ can(i) \in Nat \ {0}
  <2>1. metadatas[i].tamanio_archivo \in Nat
    BY <1>1, FichaDe
  <2>2. N[i].tamanio_archivo \in Nat
    BY <2>1, <1>2, <1>3
  <2>3. /\ Ocupa(N[i]) \in Nat \ {0}
        /\ N[i].tamanio_archivo <= Ocupa(N[i]) * BLOCK_SIZE
    BY <2>2, Necesarios DEF Ocupa
  <2>4. CASE i = k
    <3>1. Ocupa(N[i]) = can(i)
      BY <2>4, <1>3 DEF Ocupa
    <3> QED
      BY <3>1, <2>2, <2>3, <1>1, <1>3 DEF Bloque
  <2>5. CASE i # k
    <3>1. Ocupa(N[i]) = Ocupa(metadatas[i]) /\ can(i) = metadatas[i].cantidad_bloques
      BY <2>5, <1>3 DEF Ocupa
    <3>2. metadatas[i].cantidad_bloques >= Ocupa(metadatas[i])
      BY <2>5, <1>1 DEF Compactable
    <3>3. can(i) \in Nat \ {0} /\ ini(i) \in Nat
      BY <1>1, <1>3 DEF Bloque
    <3> HIDE DEF can
    <3>4. Ocupa(N[i]) <= can(i)
      BY <3>1, <3>2, <3>3, <2>3
    <3> QED
      BY <3>3, <3>4, <2>2, <2>3
  <2> QED
    BY <2>4, <2>5
<1>5. ASSUME NEW i \in 1 .. n
      PROVE  BloquesDe(N[i]) \subseteq Tramo(ini(i), can(i))
  <2>1. Ocupa(N[i]) \in Nat /\ ini(i) \in Nat /\ can(i) \in Nat /\ Ocupa(N[i]) <= can(i)
    BY <1>4
  <2>2. \A a, c, d \in Nat : c <= d => Tramo(a, c) \subseteq Tramo(a, d)
    BY DEF Tramo
  <2> QED
    BY <2>1, <2>2 DEF BloquesDe
<1>6. ASSUME NEW i \in 1 .. n, NEW j \in 1 .. n, i < j
      PROVE  Tramo(ini(i), can(i)) \cap Tramo(ini(j), can(j)) = {}
  <2>1. \A h \in 1 .. n : Calculado(k, cant, h) \in Nat
    BY <1>3, <1>4
  <2>2. Cardinality(Anteriores(k, cant, i)) + Calculado(k, cant, i)
          <= Cardinality(Anteriores(k, cant, j))
    BY <2>1, <1>1, <1>6, Sucesivos
  <2>3. ini(i) + can(i) <= ini(j)
    BY <2>2, <1>3
  <2>4. ini(i) \in Nat /\ can(i) \in Nat /\ ini(j) \in Nat /\ can(j) \in Nat
    BY <1>4
  <2>5. \A a, b, c, d \in Nat : a + b <= c => Tramo(a, b) \cap Tramo(c, d) = {}
    BY DEF Tramo
  <2> QED
    BY <2>3, <2>4, <2>5, ZenonT(60)
<1>7. ASSUME NEW i \in 1 .. n, NEW j \in 1 .. n, i # j
      PROVE  BloquesDe(N[i]) \cap BloquesDe(N[j]) = {}
  <2>1. i < j \/ j < i
    BY <1>7, <1>1
  <2>2. Tramo(ini(i), can(i)) \cap Tramo(ini(j), can(j)) = {}
    <3>1. CASE i < j
      BY <3>1, <1>6
    <3>2. CASE j < i
      <4>1. Tramo(ini(j), can(j)) \cap Tramo(ini(i), can(i)) = {}
        BY <3>2, <1>6
      <4> QED
        BY <4>1
    <3> QED
      BY <2>1, <3>1, <3>2
  <2> QED
    BY <2>2, <1>5
<1> QED
  BY <1>1, <1>3, <1>4, <1>5, <1>7

(* What a file writes when the data are put back: bytes that exist, that no *)
(* other file writes, with what was saved from bytes that exist.           *)
LEMMA BytesDeUno ==
  ASSUME ListaInd, CuerpoInd, NEW k, NEW t, NEW cant, Compactable(k, t, cant), NEW N,
         N = Nuevos(k, t, cant), NEW i \in DOMAIN metadatas, NEW d \in Int, Posterior(d, i, N)
  PROVE  /\ d \in Byte
         /\ \A j \in DOMAIN metadatas : Posterior(d, j, N) => j = i
         /\ d + (Viejos(k, t)[i].bloq_inicial_archivo - N[i].bloq_inicial_archivo) * BLOCK_SIZE
              = metadatas[i].bloq_inicial_archivo * BLOCK_SIZE
                  + (d - N[i].bloq_inicial_archivo * BLOCK_SIZE)
         /\ metadatas[i].bloq_inicial_archivo * BLOCK_SIZE
              + (d - N[i].bloq_inicial_archivo * BLOCK_SIZE) \in Byte
<1> DEFINE a == N[i].bloq_inicial_archivo
           v == metadatas[i].bloq_inicial_archivo
           x == d - a * BLOCK_SIZE
           s == N[i].tamanio_archivo
<1>1. BLOCK_SIZE \in Nat \ {0} /\ BITS \in Nat
  BY DialAssumption
<1>2. \A j \in DOMAIN metadatas :
        /\ N[j].bloq_inicial_archivo \in Nat /\ N[j].tamanio_archivo \in Nat
        /\ Ocupa(N[j]) \in Nat \ {0}
        /\ N[j].tamanio_archivo <= Ocupa(N[j]) * BLOCK_SIZE
        /\ BloquesDe(N[j]) = Tramo(N[j].bloq_inicial_archivo, Ocupa(N[j]))
        /\ BloquesDe(N[j]) \subseteq Bloque
        /\ \A h \in DOMAIN metadatas \ {j} : BloquesDe(N[j]) \cap BloquesDe(N[h]) = {}
  BY LugaresNuevos DEF BloquesDe
<1>3. a \in Nat /\ s \in Nat /\ x \in 0 .. s - 1
  BY <1>2 DEF Posterior
<1>4. d \in Byte
  <2>1. a * BLOCK_SIZE + x \in Byte
    BY <1>2, <1>3, BytesQueHay
  <2>2. \A e, f \in Int : e + (f - e) = f
    OBVIOUS
  <2>3. a * BLOCK_SIZE \in Int
    BY <1>1, <1>3
  <2>4. a * BLOCK_SIZE + x = d
    BY <2>2, <2>3
  <2> QED
    BY <2>1, <2>4
<1>5. ASSUME NEW j \in DOMAIN metadatas, Posterior(d, j, N) PROVE j = i
  <2> SUFFICES ASSUME j # i PROVE FALSE
    OBVIOUS
  <2> DEFINE b == N[j].bloq_inicial_archivo
             u == N[j].tamanio_archivo
             m == Ocupa(N[i])
             n == Ocupa(N[j])
  <2>1. Tramo(a, m) \cap Tramo(b, n) = {}
    BY <1>2
  <2>2. /\ a \in Nat /\ b \in Nat /\ m \in Nat \ {0} /\ n \in Nat \ {0}
        /\ s \in Nat /\ u \in Nat /\ s <= m * BLOCK_SIZE /\ u <= n * BLOCK_SIZE
    BY <1>2
  <2>3. d - a * BLOCK_SIZE \in 0 .. s - 1 /\ d - b * BLOCK_SIZE \in 0 .. u - 1
    BY <1>5 DEF Posterior
  <2> HIDE DEF a, b, s, u, m, n
  <2> QED
    BY <2>1, <2>2, <2>3, BytesAparte
<1>6. Viejos(k, t)[i].bloq_inicial_archivo = v /\ v \in Nat
  <2>1. v \in Bloque
    BY FichaDe DEF ListaInd
  <2>2. v \in Nat
    BY <2>1, <1>1 DEF Bloque
  <2>3. Viejos(k, t)[i].bloq_inicial_archivo = v
    BY FichaDe DEF Viejos, ListaInd, Ficha
  <2> QED
    BY <2>2, <2>3
<1>7. d + (Viejos(k, t)[i].bloq_inicial_archivo - a) * BLOCK_SIZE = v * BLOCK_SIZE + x
  <2>1. (v - a) * BLOCK_SIZE = v * BLOCK_SIZE - a * BLOCK_SIZE
    <3> HIDE DEF v, a
    <3> QED
      BY <1>1, <1>3, <1>6
  <2>2. v * BLOCK_SIZE \in Int /\ a * BLOCK_SIZE \in Int
    BY <1>1, <1>3, <1>6
  <2>3. \A e, f \in Int : d + (e - f) = e + (d - f)
    OBVIOUS
  <2> QED
    BY <2>1, <2>2, <2>3, <1>6
<1>8. v * BLOCK_SIZE + x \in Byte
  <2>1. CASE i = k
    <3> DEFINE V == v * BLOCK_SIZE
               B == BITS * BLOCK_SIZE
    <3>1. V + t - 1 \in Byte /\ t \in Nat
      BY <2>1 DEF Compactable
    <3>2. s = t
      BY <2>1, LugaresNuevos
    <3>3. V \in Nat /\ B \in Nat
      BY <1>1, <1>6
    <3>4. Byte = 0 .. B - 1
      BY DEF Byte
    <3> HIDE DEF V, B, x, s
    <3>5. V + x \in Byte
      BY <3>1, <3>2, <3>3, <3>4, <1>3
    <3> QED
      BY <3>5 DEF V
  <2>2. CASE i # k
    <3>1. s = metadatas[i].tamanio_archivo
      BY <2>2, LugaresNuevos
    <3>2. /\ Ocupa(metadatas[i]) \in Nat \ {0} /\ s <= Ocupa(metadatas[i]) * BLOCK_SIZE
          /\ Tramo(v, Ocupa(metadatas[i])) \subseteq Bloque
      BY <3>1, BloquesQueTiene DEF BloquesDe
    <3> HIDE DEF v, x, s
    <3> QED
      BY <3>2, <1>3, <1>6, BytesQueHay
  <2> QED
    BY <2>1, <2>2
<1> QED
  BY <1>4, <1>5, <1>7, <1>8

(* compactar keeps the data: each file's bytes are, in its new place, what *)
(* they were in the old one, and those of its growth are bytes of the      *)
(* device.                                                                 *)
LEMMA LoCopiado ==
  ASSUME ListaInd, CuerpoInd, NEW k, NEW t, NEW cant, Compactable(k, t, cant), NEW N,
         N = Nuevos(k, t, cant), CopiarDatos(Viejos(k, t), N)
  PROVE  /\ bloques' \in [Byte -> Dato]
         /\ \A i \in DOMAIN metadatas : \A x \in 0 .. N[i].tamanio_archivo - 1 :
              bloques'[N[i].bloq_inicial_archivo * BLOCK_SIZE + x]
                = bloques[metadatas[i].bloq_inicial_archivo * BLOCK_SIZE + x]
<1> DEFINE D == DOMAIN metadatas
           E(d) == {i \in DOMAIN N : Posterior(d, i, N)}
           e(d) == CHOOSE h \in E(d) : \A f \in E(d) : f <= h
           o(d) == d + (Viejos(k, t)[e(d)].bloq_inicial_archivo
                        - N[e(d)].bloq_inicial_archivo) * BLOCK_SIZE
           b(i) == metadatas[i].bloq_inicial_archivo * BLOCK_SIZE
           a(i) == N[i].bloq_inicial_archivo * BLOCK_SIZE
<1>1. bloques' = [d \in Byte |-> IF E(d) = {} THEN bloques[d] ELSE bloques[o(d)]]
  BY DEF CopiarDatos
<1>2. DOMAIN N = D /\ D \subseteq Int
  BY FichasNuevas DEF Compactable, ListaInd
<1>3. Byte \subseteq Int
  BY DialAssumption DEF Byte
<1>4. ASSUME NEW i \in D, NEW d \in Int, Posterior(d, i, N)
      PROVE  d \in Byte /\ E(d) # {} /\ o(d) = b(i) + (d - a(i)) /\ o(d) \in Byte
  <2>1. /\ d \in Byte /\ \A j \in D : Posterior(d, j, N) => j = i
        /\ d + (Viejos(k, t)[i].bloq_inicial_archivo
                - N[i].bloq_inicial_archivo) * BLOCK_SIZE = b(i) + (d - a(i))
        /\ b(i) + (d - a(i)) \in Byte
    BY <1>4, BytesDeUno
  <2>2. E(d) = {i}
    BY <2>1, <1>2, <1>4
  <2>3. e(d) = i
    <3>1. \A f \in {i} : f <= i
      BY <1>2
    <3> QED
      BY <2>2, <3>1
  <2> HIDE DEF E, e
  <2> QED
    BY <2>1, <2>2, <2>3
<1>5. ASSUME NEW d \in Byte
      PROVE  (IF E(d) = {} THEN bloques[d] ELSE bloques[o(d)]) \in Dato
  <2>1. CASE E(d) = {}
    BY <2>1 DEF CuerpoInd
  <2>2. CASE E(d) # {}
    <3>1. PICK i \in D : Posterior(d, i, N)
      BY <2>2, <1>2
    <3>2. o(d) \in Byte
      BY <3>1, <1>3, <1>4
    <3> HIDE DEF o, E
    <3> QED
      BY <2>2, <3>2 DEF CuerpoInd
  <2> QED
    BY <2>1, <2>2
<1>6. ASSUME NEW i \in D, NEW x \in 0 .. N[i].tamanio_archivo - 1
      PROVE  bloques'[a(i) + x] = bloques[b(i) + x]
  <2> DEFINE d == a(i) + x
  <2>1. a(i) \in Int /\ x \in Int
    <3>1. N[i].bloq_inicial_archivo \in Nat /\ BLOCK_SIZE \in Nat
      BY LugaresNuevos, DialAssumption
    <3> QED
      BY <3>1
  <2>2. d \in Int /\ d - a(i) = x
    <3> HIDE DEF a
    <3> QED
      BY <2>1
  <2>3. Posterior(d, i, N)
    BY <2>2 DEF Posterior
  <2>4. d \in Byte /\ E(d) # {} /\ o(d) = b(i) + (d - a(i))
    BY <2>2, <2>3, <1>4
  <2> HIDE DEF a, b, o, E, d
  <2>5. bloques'[d] = bloques[o(d)]
    BY <2>4, <1>1
  <2> QED
    BY <2>2, <2>4, <2>5 DEF d
<1>7. bloques' \in [Byte -> Dato]
  <2> HIDE DEF E, o
  <2> QED
    BY <1>1, <1>5
<1> QED
  BY <1>6, <1>7

(* Every file has its new blocks and nobody else's.                        *)
LEMMA CuerpoCompactar ==
  ASSUME ListaInd, CuerpoInd, NEW k, NEW t, NEW cant, Compactable(k, t, cant),
         Compactar(k, t, cant)
  PROVE  CuerpoInd'
<1> DEFINE N == Nuevos(k, t, cant)
           D == DOMAIN metadatas
<1>1. DOMAIN N = D
  BY FichasNuevas DEF Compactable, ListaInd
<1>2. /\ metadatas' = N /\ bitmap' = VaciarBitMap \cup Asignados(N)
      /\ CopiarDatos(Viejos(k, t), N)
  BY DEF Compactar
<1>3. \A i \in D :
        /\ N[i].cantidad_bloques \in 1 .. BITS
        /\ BloquesDe(N[i]) \subseteq Tramo(N[i].bloq_inicial_archivo, N[i].cantidad_bloques)
        /\ Tramo(N[i].bloq_inicial_archivo, N[i].cantidad_bloques) \subseteq Bloque
        /\ \A j \in D \ {i} : BloquesDe(N[i]) \cap BloquesDe(N[j]) = {}
  BY LugaresNuevos, ZenonT(60)
<1>4. bloques' \in [Byte -> Dato]
  BY <1>2, LoCopiado
<1> HIDE DEF N
<1>5. \A i \in D : Tramo(N[i].bloq_inicial_archivo, N[i].cantidad_bloques) \subseteq Asignados(N)
  BY <1>1 DEF Asignados
<1>6. Asignados(N) \subseteq Bloque
  BY <1>1, <1>3 DEF Asignados
<1>7. bitmap' \subseteq Bloque
  BY <1>2, <1>6 DEF VaciarBitMap, CuerpoInd
<1>8. \A i \in D : BloquesDe(N[i]) \subseteq bitmap'
  BY <1>2, <1>3, <1>5
<1>9. BloquesPropios'
  BY <1>1, <1>2, <1>3, <1>8 DEF BloquesPropios
<1>10. \A i \in DOMAIN metadatas' : metadatas'[i].cantidad_bloques <= BITS
  BY <1>1, <1>2, <1>3, DialAssumption
<1> QED
  BY <1>4, <1>7, <1>9, <1>10 DEF CuerpoInd, Byte, Bloque

-----------------------------------------------------------------------------
(* WRITE, READ and the restart, and the blocks.                            *)

(* A write puts data of its process in bytes that exist.                   *)
LEMMA CuerpoEscribir ==
  ASSUME CuerpoInd, NEW p \in Peticion, EscribirArchivoBloque(p)
  PROVE  CuerpoInd'
<1>1. p.dato \in Dato
  BY DEF Peticion
<1>2. CASE Listado(p.nombre)
  <2>1. bloques' \in [Byte -> Dato]
    BY <1>1, <1>2 DEF EscribirArchivoBloque, CuerpoInd
  <2>2. bitmap' = bitmap /\ metadatas' = metadatas
    BY <1>2 DEF EscribirArchivoBloque
  <2> QED
    BY <2>1, <2>2 DEF CuerpoInd, BloquesPropios, Byte, Bloque
<1>3. CASE ~Listado(p.nombre)
  BY <1>3 DEF EscribirArchivoBloque, Caer, CuerpoInd, BloquesPropios, Byte, Bloque
<1> QED
  BY <1>2, <1>3

(* The list of a restart has the files of the one before, each with the    *)
(* blocks it had.                                                          *)
LEMMA CuerpoReiniciar ==
  ASSUME ListaInd, CuerpoInd, Reiniciar
  PROVE  CuerpoInd'
<1> DEFINE D == DOMAIN disco
           c == Cardinality(D)
<1>1. PICK orden \in [1 .. c -> D] : \E ultimo \in [D -> Bloque] :
        /\ IsInjective(orden)
        /\ metadatas' = [k \in DOMAIN orden |->
             [nombre |-> orden[k], tamanio_archivo |-> disco[orden[k]].tamanio,
              bloq_inicial_archivo |-> disco[orden[k]].inicial,
              cantidad_bloques |-> CantidadDeBloquesNecesarios(disco[orden[k]].tamanio),
              ultimo_bloque |-> ultimo[orden[k]]]]
  BY DEF Reiniciar
<1>2. /\ IsInjective(orden) /\ DOMAIN metadatas' = 1 .. c
      /\ \A k \in 1 .. c :
           /\ metadatas'[k].tamanio_archivo = disco[orden[k]].tamanio
           /\ metadatas'[k].bloq_inicial_archivo = disco[orden[k]].inicial
           /\ metadatas'[k].cantidad_bloques =
                CantidadDeBloquesNecesarios(disco[orden[k]].tamanio)
  BY <1>1
<1>3. /\ bitmap' = bitmap /\ bloques' = bloques /\ disco' = disco
  BY DEF Reiniciar
<1>4. \A x \in D : \E i \in DOMAIN metadatas : x = metadatas[i].nombre
  BY DEF ListaInd, MetadatosAlDia
<1>5. ASSUME NEW i \in DOMAIN metadatas
      PROVE  /\ disco[metadatas[i].nombre].tamanio = metadatas[i].tamanio_archivo
             /\ disco[metadatas[i].nombre].inicial = metadatas[i].bloq_inicial_archivo
  <2> DEFINE x == disco[metadatas[i].nombre]
  <2>1. x = [tamanio |-> metadatas[i].tamanio_archivo,
             inicial |-> metadatas[i].bloq_inicial_archivo]
    BY DEF ListaInd, MetadatosAlDia
  <2> HIDE DEF x
  <2>2. x.tamanio = metadatas[i].tamanio_archivo /\ x.inicial = metadatas[i].bloq_inicial_archivo
    BY <2>1
  <2> QED
    BY <2>2 DEF x
<1> DEFINE pos(k) == CHOOSE i \in DOMAIN metadatas : orden[k] = metadatas[i].nombre
<1>6. ASSUME NEW k \in 1 .. c
      PROVE  /\ pos(k) \in DOMAIN metadatas /\ orden[k] = metadatas[pos(k)].nombre
             /\ BloquesDe(metadatas'[k]) = BloquesDe(metadatas[pos(k)])
             /\ metadatas'[k].cantidad_bloques = Ocupa(metadatas[pos(k)])
  <2>1. pos(k) \in DOMAIN metadatas /\ orden[k] = metadatas[pos(k)].nombre
    BY <1>4
  <2> HIDE DEF pos
  <2>2. /\ metadatas'[k].tamanio_archivo = metadatas[pos(k)].tamanio_archivo
        /\ metadatas'[k].bloq_inicial_archivo = metadatas[pos(k)].bloq_inicial_archivo
        /\ metadatas'[k].cantidad_bloques =
             CantidadDeBloquesNecesarios(metadatas[pos(k)].tamanio_archivo)
    BY <1>2, <1>5, <2>1
  <2> QED
    BY <2>1, <2>2 DEF BloquesDe, Ocupa
<1> HIDE DEF pos, c
<1>7. \A k, h \in 1 .. c : k # h => pos(k) # pos(h)
  BY <1>2, <1>6 DEF IsInjective
<1>8. BloquesPropios'
  <2>1. \A i \in DOMAIN metadatas : BloquesDe(metadatas[i]) \subseteq bitmap
    BY DEF CuerpoInd, BloquesPropios
  <2>2. \A i, j \in DOMAIN metadatas :
          i # j => BloquesDe(metadatas[i]) \cap BloquesDe(metadatas[j]) = {}
    BY DEF CuerpoInd, BloquesPropios
  <2>3. \A k \in 1 .. c : BloquesDe(metadatas'[k]) \subseteq bitmap
    BY <2>1, <1>6
  <2>4. \A k, h \in 1 .. c : k # h => BloquesDe(metadatas'[k]) \cap BloquesDe(metadatas'[h]) = {}
    BY <2>2, <1>6, <1>7
  <2> QED
    BY <2>3, <2>4, <1>2, <1>3 DEF BloquesPropios
<1>9. \A k \in DOMAIN metadatas' : metadatas'[k].cantidad_bloques <= BITS
  BY <1>2, <1>6, BloquesQueTiene
<1> QED
  BY <1>3, <1>8, <1>9 DEF CuerpoInd, Byte, Bloque

(* A read takes bytes that exist.                                          *)
LEMMA CuerpoLeer ==
  ASSUME ListaInd, CuerpoInd, leido \in Seq(Dato), NEW p \in Peticion, Listado(p.nombre),
         ComienzoLectura(p) + p.tamanio - 1 \in Byte, LeerArchivoBloque(p)
  PROVE  CuerpoInd' /\ leido' \in Seq(Dato) /\ caida' = caida
<1> DEFINE c == ComienzoLectura(p)
           k == Posicion(p.nombre)
           b == metadatas[k].bloq_inicial_archivo
<1>1. BLOCK_SIZE \in Nat \ {0} /\ BITS \in Nat /\ p.tamanio \in Nat /\ p.puntero \in Nat
  BY DialAssumption DEF Peticion
<1>2. c \in Nat
  <2>1. k \in DOMAIN metadatas
    BY Encontrada DEF ListaInd
  <2>2. b \in Nat
    BY <2>1, BloquesQueTiene
  <2> DEFINE q == p.puntero \div BLOCK_SIZE
             u == p.puntero
  <2>3. q \in Nat /\ u \in Nat
    BY <1>1
  <2>4. c = b * BLOCK_SIZE + u + q * BLOCK_SIZE
    BY DEF ComienzoLectura, ComienzoEscritura
  <2> HIDE DEF b, q, c, u
  <2>5. b * BLOCK_SIZE \in Nat /\ q * BLOCK_SIZE \in Nat
    BY <1>1, <2>2, <2>3
  <2> QED
    BY <2>3, <2>4, <2>5
<1>3. leido' = [i \in 1 .. p.tamanio |-> bloques[c + i - 1]]
  BY DEF LeerArchivoBloque
<1>4. ASSUME NEW i \in 1 .. p.tamanio PROVE bloques[c + i - 1] \in Dato
  <2> DEFINE B == BITS * BLOCK_SIZE
  <2>1. Byte = 0 .. B - 1 /\ B \in Nat
    BY <1>1 DEF Byte
  <2> HIDE DEF B, c
  <2>2. c + p.tamanio - 1 \in Byte
    BY DEF c
  <2>3. c + i - 1 \in Byte
    BY <1>1, <1>2, <2>1, <2>2
  <2> QED
    BY <2>3 DEF CuerpoInd
<1>5. leido' \in Seq(Dato)
  <2> HIDE DEF c
  <2> QED
    BY <1>1, <1>3, <1>4, SeqDef
<1> QED
  BY <1>5 DEF LeerArchivoBloque, CuerpoInd, BloquesPropios, Byte, Bloque

(* Every request the code is prepared for keeps them.                      *)
LEMMA CuerpoAtender ==
  ASSUME Cuidado, ListaInd, CuerpoInd, leido \in Seq(Dato), caida \in BOOLEAN,
         NEW p \in Peticion, Atender(p)
  PROVE  CuerpoInd' /\ leido' \in Seq(Dato) /\ caida' \in BOOLEAN
<1>1. Razonable(p) /\ Prudente(p)
  BY DEF Atender
<1>2. ASSUME UNCHANGED <<bitmap, bloques, metadatas, leido>>, caida' \in BOOLEAN
      PROVE  CuerpoInd' /\ leido' \in Seq(Dato) /\ caida' \in BOOLEAN
  BY <1>2 DEF CuerpoInd, BloquesPropios, Byte, Bloque
<1>3. CASE p.op = "CREATE"
  <2>1. CrearArchivoMetadata(p) /\ ProximoBitDisponible \in Bloque
    BY <1>1, <1>3 DEF Atender, Razonable
  <2>2. UNCHANGED <<leido, caida>>
    BY <2>1 DEF CrearArchivoMetadata
  <2> QED
    BY <2>1, <2>2, CuerpoCrear
<1>4. CASE p.op = "DELETE" /\ Listado(p.nombre)
  <2>1. BorrarArchivo(p)
    BY <1>4 DEF Atender
  <2>2. UNCHANGED <<leido, caida>>
    BY <1>4, <2>1 DEF BorrarArchivo
  <2> QED
    BY <1>4, <2>1, <2>2, CuerpoBorrar
<1>5. CASE p.op = "TRUNCATE" /\ Listado(p.nombre)
  <2> DEFINE k == Posicion(p.nombre)
             cant == NuevosBloques(metadatas[k], p.tamanio)
             libres == HayBloquesLibresContiguos(cant, metadatas[k].ultimo_bloque)
  <2>1. TruncarArchivo(p)
    BY <1>5 DEF Atender
  <2>2. /\ k \in DOMAIN metadatas /\ p.tamanio \in Nat /\ UNCHANGED <<leido, caida>>
        /\ \/ /\ metadatas[k].tamanio_archivo < p.tamanio
              /\ libres
              /\ Tramo(metadatas[k].ultimo_bloque + 1, cant) \subseteq Bloque
              /\ bitmap' = bitmap \cup Tramo(metadatas[k].ultimo_bloque + 1, cant)
              /\ metadatas' = [metadatas EXCEPT ![k].tamanio_archivo = p.tamanio]
              /\ UNCHANGED bloques
           \/ /\ metadatas[k].tamanio_archivo < p.tamanio
              /\ ~libres
              /\ metadatas[k].bloq_inicial_archivo * BLOCK_SIZE + p.tamanio - 1 \in Byte
              /\ Asignados(Reubicados(k, cant)) \subseteq Bloque
              /\ Compactar(k, p.tamanio, cant)
           \/ /\ metadatas[k].tamanio_archivo > p.tamanio
              /\ ReducirTamArchivo(k, p.tamanio)
           \/ UNCHANGED <<bitmap, bloques, metadatas>>
    BY <1>1, <1>5, <2>1, FormasDeTruncar
  <2>3. /\ p.tamanio < metadatas[k].tamanio_archivo => p.tamanio > 0
        /\ p.tamanio > metadatas[k].tamanio_archivo =>
             IF libres
             THEN \/ CantidadDeBloquesNecesarios(p.tamanio) = Ocupa(metadatas[k])
                  \/ /\ metadatas[k].cantidad_bloques = Ocupa(metadatas[k])
                     /\ metadatas[k].ultimo_bloque = UltimoReal(metadatas[k])
             ELSE \A i \in DOMAIN metadatas \ {k} :
                    metadatas[i].cantidad_bloques >= Ocupa(metadatas[i])
    BY <1>1, <1>5 DEF Prudente
  <2>4. metadatas[k].tamanio_archivo \in Nat
    BY <2>2, BloquesQueTiene
  <2> HIDE DEF k
  <2>5. CASE metadatas[k].tamanio_archivo < p.tamanio /\ libres
    <3>1. \/ CantidadDeBloquesNecesarios(p.tamanio) = Ocupa(metadatas[k])
          \/ /\ metadatas[k].cantidad_bloques = Ocupa(metadatas[k])
             /\ metadatas[k].ultimo_bloque = UltimoReal(metadatas[k])
      BY <2>2, <2>3, <2>4, <2>5
    <3>2. \/ UNCHANGED <<bitmap, bloques, metadatas>>
          \/ /\ Tramo(metadatas[k].ultimo_bloque + 1, cant) \subseteq Bloque
             /\ bitmap' = bitmap \cup Tramo(metadatas[k].ultimo_bloque + 1, cant)
             /\ metadatas' = [metadatas EXCEPT ![k].tamanio_archivo = p.tamanio]
             /\ UNCHANGED bloques
      BY <2>2, <2>4, <2>5
    <3>3. CuerpoInd'
      BY <2>2, <2>5, <3>1, <3>2, <1>2, CuerpoAmpliar
    <3> QED
      BY <3>3, <2>2
  <2>6. CASE metadatas[k].tamanio_archivo < p.tamanio /\ ~libres
    <3>1. Compactable(k, p.tamanio, cant) \/ UNCHANGED <<bitmap, bloques, metadatas>>
      BY <2>2, <2>3, <2>4, <2>6 DEF Compactable
    <3>2. Compactar(k, p.tamanio, cant) \/ UNCHANGED <<bitmap, bloques, metadatas>>
      BY <2>2, <2>4, <2>6
    <3>3. CuerpoInd'
      BY <2>2, <3>1, <3>2, <1>2, CuerpoCompactar
    <3> QED
      BY <3>3, <2>2
  <2>7. CASE ~(metadatas[k].tamanio_archivo < p.tamanio)
    <3>1. \/ /\ p.tamanio < metadatas[k].tamanio_archivo /\ p.tamanio > 0
             /\ ReducirTamArchivo(k, p.tamanio)
          \/ UNCHANGED <<bitmap, bloques, metadatas>>
      BY <2>2, <2>3, <2>4, <2>7
    <3>2. CuerpoInd'
      BY <2>2, <3>1, <1>2, CuerpoReducir
    <3> QED
      BY <3>2, <2>2
  <2> QED
    BY <2>5, <2>6, <2>7
<1>6. CASE p.op \in {"DELETE", "TRUNCATE", "READ"} /\ ~Listado(p.nombre)
  <2>1. Caer
    BY <1>6 DEF Atender, BorrarArchivo, TruncarArchivo, LeerArchivoBloque
  <2> QED
    BY <2>1, <1>2 DEF Caer
<1>7. CASE p.op = "WRITE"
  <2>1. EscribirArchivoBloque(p)
    BY <1>7 DEF Atender
  <2>2. leido' = leido /\ caida' \in BOOLEAN
    BY <2>1 DEF EscribirArchivoBloque, Caer
  <2> QED
    BY <2>1, <2>2, CuerpoEscribir
<1>8. CASE p.op = "READ" /\ Listado(p.nombre)
  <2>1. LeerArchivoBloque(p) /\ ComienzoLectura(p) + p.tamanio - 1 \in Byte
    BY <1>1, <1>8 DEF Atender, Razonable
  <2> QED
    BY <2>1, <1>8, CuerpoLeer
<1> QED
  BY <1>3, <1>4, <1>5, <1>6, <1>7, <1>8 DEF Atender

(* The blocks of the files stay theirs over any number of requests and     *)
(* restarts.                                                               *)
LEMMA BloquesSiempre ==
  ASSUME Cuidado
  PROVE  Spec => []BloquesInd
<1>1. Init => BloquesInd
  <2> SUFFICES ASSUME Init PROVE BloquesInd
    OBVIOUS
  <2>1. metadatas = <<>> /\ disco = <<>> /\ atendidos = 0
    BY DEF Init
  <2>2. 0 \in 0 .. Len(Guion) /\ BASURA \in Dato
    BY DialAssumption
  <2>3. DOMAIN disco = {} /\ DOMAIN metadatas = {} /\ metadatas \in Seq(Ficha)
    BY <2>1
  <2>4. DiscoInd
    BY <2>1, <2>2, <2>3 DEF DiscoInd, ListaInd, DiscoTipo, SinRepetidos, MetadatosAlDia
  <2>5. CuerpoInd
    BY <2>2, <2>3 DEF Init, CuerpoInd, BloquesPropios
  <2>6. leido = <<>> /\ caida \in BOOLEAN
    BY DEF Init
  <2>7. leido \in Seq(Dato)
    BY <2>6
  <2> QED
    BY <2>4, <2>5, <2>6, <2>7 DEF BloquesInd
<1>2. BloquesInd /\ [Next]_vars => BloquesInd'
  <2> SUFFICES ASSUME BloquesInd, [Next]_vars PROVE BloquesInd'
    OBVIOUS
  <2>1. CASE Servir
    <3>1. PICK p \in Peticion : Atender(p)
      BY <2>1, Pedida DEF BloquesInd, DiscoInd
    <3>2. atendidos' \in 0 .. Len(Guion)
      BY <2>1, Pedida DEF BloquesInd, DiscoInd
    <3>3. ListaInd'
      BY <3>1, ListaAtender DEF BloquesInd, DiscoInd
    <3>4. CuerpoInd' /\ leido' \in Seq(Dato) /\ caida' \in BOOLEAN
      BY <3>1, CuerpoAtender DEF BloquesInd, DiscoInd
    <3> QED
      BY <3>2, <3>3, <3>4 DEF BloquesInd, DiscoInd
  <2>2. CASE Reiniciar
    <3>1. ListaInd' /\ CuerpoInd'
      BY <2>2, ListaReiniciar, CuerpoReiniciar DEF BloquesInd, DiscoInd
    <3>2. UNCHANGED <<leido, atendidos>> /\ caida' = FALSE
      BY <2>2 DEF Reiniciar
    <3> QED
      BY <3>1, <3>2 DEF BloquesInd, DiscoInd
  <2>3. CASE UNCHANGED vars
    BY <2>3 DEF vars, BloquesInd, CuerpoInd, BloquesPropios, Byte, Bloque, DiscoInd, ListaInd,
                DiscoTipo, SinRepetidos, MetadatosAlDia
  <2> QED
    BY <2>1, <2>2, <2>3 DEF Next
<1> QED
  BY <1>1, <1>2, PTL DEF Spec

(* With requests the code is prepared for, what is on the disk and in the  *)
(* list is always a disk and a list.                                       *)
THEOREM TiposDeDial ==
  ASSUME Cuidado
  PROVE  Spec => []DialTypeOK
<1>1. BloquesInd => DialTypeOK
  <2> SUFFICES ASSUME BloquesInd PROVE DialTypeOK
    OBVIOUS
  <2>1. metadatas \in Seq(Ficha) /\ DiscoTipo /\ CuerpoInd
    BY DEF BloquesInd, DiscoInd, ListaInd
  <2>2. ASSUME NEW i \in 1 .. Len(metadatas) PROVE metadatas[i] \in Metadata
    <3>1. metadatas[i] \in Ficha /\ i \in DOMAIN metadatas
      BY <2>1, FichaDe
    <3>2. metadatas[i].cantidad_bloques <= BITS
      BY <2>1, <3>1 DEF CuerpoInd
    <3>3. metadatas[i].cantidad_bloques \in 1 .. BITS
      BY <3>1, <3>2, DialAssumption DEF Ficha
    <3> QED
      BY <3>1, <3>3 DEF Ficha, Metadata
  <2>3. metadatas \in Seq(Metadata)
    <3>1. metadatas = [i \in 1 .. Len(metadatas) |-> metadatas[i]] /\ Len(metadatas) \in Nat
      BY <2>1
    <3> QED
      BY <3>1, <2>2, SeqDef
  <2> QED
    BY <2>1, <2>3 DEF DialTypeOK, DiscoTipo, CuerpoInd, BloquesInd, DiscoInd
<1> QED
  BY <1>1, BloquesSiempre, PTL

(* The bits simulate the blocks (funcionesfs.c:460): a block of a file has *)
(* its bit at 1 and is in no other file, over any number of growths,       *)
(* reductions, compactions and restarts, when the requests are those the   *)
(* code is prepared for.                                                   *)
THEOREM BloquesDeUno ==
  ASSUME Cuidado
  PROVE  Spec => []BloquesPropios
<1>1. BloquesInd => BloquesPropios
  BY DEF BloquesInd, CuerpoInd
<1> QED
  BY <1>1, BloquesSiempre, PTL

-----------------------------------------------------------------------------
(* The bytes of the files: CumpleAlmacen.                                  *)

\* the bytes of every name, where a file starts, and that they are bytes
Contenido == [n \in Nombre |-> IF n \in DOMAIN disco THEN Persistido(n) ELSE <<>>]
Base(n) == disco[n].inicial * BLOCK_SIZE
Leidos ==
  \A n \in DOMAIN disco :
    /\ Contenido[n] \in Seq(Dato) /\ Len(Contenido[n]) = disco[n].tamanio
    /\ disco[n].tamanio \in 0 .. BITS * BLOCK_SIZE /\ Base(n) \in Nat
    /\ \A x \in 0 .. disco[n].tamanio - 1 : Base(n) + x \in Byte
    /\ Contenido[n] = [i \in 1 .. disco[n].tamanio |-> bloques[Base(n) + i - 1]]

(* A file on the disk is one of the list.                                  *)
LEMMA EnLaLista ==
  ASSUME ListaInd
  PROVE  /\ \A i \in DOMAIN metadatas :
              /\ metadatas[i].nombre \in DOMAIN disco
              /\ disco[metadatas[i].nombre].tamanio = metadatas[i].tamanio_archivo
              /\ disco[metadatas[i].nombre].inicial = metadatas[i].bloq_inicial_archivo
         /\ \A n \in DOMAIN disco : \E i \in DOMAIN metadatas : n = metadatas[i].nombre
<1>1. ASSUME NEW i \in DOMAIN metadatas
      PROVE  /\ metadatas[i].nombre \in DOMAIN disco
             /\ disco[metadatas[i].nombre].tamanio = metadatas[i].tamanio_archivo
             /\ disco[metadatas[i].nombre].inicial = metadatas[i].bloq_inicial_archivo
  <2> DEFINE x == disco[metadatas[i].nombre]
  <2>1. /\ metadatas[i].nombre \in DOMAIN disco
        /\ x = [tamanio |-> metadatas[i].tamanio_archivo,
                inicial |-> metadatas[i].bloq_inicial_archivo]
    BY DEF ListaInd, MetadatosAlDia
  <2> HIDE DEF x
  <2>2. x.tamanio = metadatas[i].tamanio_archivo /\ x.inicial = metadatas[i].bloq_inicial_archivo
    BY <2>1
  <2> QED
    BY <2>1, <2>2 DEF x
<1>2. \A n \in DOMAIN disco : \E i \in DOMAIN metadatas : n = metadatas[i].nombre
  BY DEF ListaInd, MetadatosAlDia
<1> QED
  BY <1>1, <1>2

(* What a process sees of a file are bytes of the device.                  *)
LEMMA LoLeido == ListaInd /\ CuerpoInd => Leidos
<1> SUFFICES ASSUME ListaInd, CuerpoInd, NEW n \in DOMAIN disco
             PROVE  /\ Contenido[n] \in Seq(Dato) /\ Len(Contenido[n]) = disco[n].tamanio
                    /\ disco[n].tamanio \in 0 .. BITS * BLOCK_SIZE /\ Base(n) \in Nat
                    /\ \A x \in 0 .. disco[n].tamanio - 1 : Base(n) + x \in Byte
                    /\ Contenido[n] = [i \in 1 .. disco[n].tamanio |-> bloques[Base(n) + i - 1]]
  BY DEF Leidos
<1> DEFINE t == disco[n].tamanio
           a == disco[n].inicial
<1>1. PICK i \in DOMAIN metadatas : /\ n = metadatas[i].nombre
                                    /\ t = metadatas[i].tamanio_archivo
                                    /\ a = metadatas[i].bloq_inicial_archivo
  BY EnLaLista
<1> DEFINE o == Ocupa(metadatas[i])
<1>2. /\ a \in Nat /\ t \in Nat /\ o \in Nat \ {0} /\ o <= BITS /\ t <= o * BLOCK_SIZE
      /\ Tramo(a, o) \subseteq Bloque
  BY <1>1, BloquesQueTiene DEF BloquesDe
<1>3. BLOCK_SIZE \in Nat /\ BITS \in Nat /\ n \in Nombre
  BY DialAssumption DEF ListaInd, DiscoTipo
<1>4. Contenido[n] = [j \in 1 .. t |-> bloques[a * BLOCK_SIZE + j - 1]]
  BY <1>3 DEF Contenido, Persistido
<1> HIDE DEF t, a, o
<1>5. \A x \in 0 .. t - 1 : a * BLOCK_SIZE + x \in Byte
  BY <1>2, BytesQueHay
<1>6. t <= BITS * BLOCK_SIZE
  <2>1. o * BLOCK_SIZE <= BITS * BLOCK_SIZE
    BY <1>2, <1>3, Producto
  <2>2. o * BLOCK_SIZE \in Nat /\ BITS * BLOCK_SIZE \in Nat
    BY <1>2, <1>3
  <2> QED
    BY <1>2, <2>1, <2>2
<1> DEFINE b == a * BLOCK_SIZE
<1>7. b \in Nat /\ Contenido[n] = [j \in 1 .. t |-> bloques[b + j - 1]]
  BY <1>2, <1>3, <1>4
<1>8. \A x \in 0 .. t - 1 : b + x \in Byte
  BY <1>5
<1> HIDE DEF b
<1>9. \A j \in 1 .. t : bloques[b + j - 1] \in Dato
  <2> SUFFICES ASSUME NEW j \in 1 .. t PROVE bloques[b + j - 1] \in Dato
    OBVIOUS
  <2>1. b + j - 1 = b + (j - 1) /\ j - 1 \in 0 .. t - 1
    BY <1>2, <1>7
  <2>2. b + j - 1 \in Byte
    BY <1>8, <2>1
  <2> QED
    BY <2>2 DEF CuerpoInd
<1>10. Contenido[n] \in Seq(Dato) /\ Len(Contenido[n]) = t
  BY <1>2, <1>7, <1>9, SeqDef
<1>11. Base(n) = b
  BY DEF Base, b, a
<1>12. t \in 0 .. BITS * BLOCK_SIZE
  <2>1. BITS * BLOCK_SIZE \in Int
    BY <1>3
  <2> QED
    BY <2>1, <1>2, <1>6
<1> QED
  BY <1>7, <1>8, <1>10, <1>11, <1>12 DEF t

(* And after a step too.                                                   *)
LEMMA LoLeidoDespues == (ListaInd /\ CuerpoInd => Leidos)'
  BY LoLeido, PTL

(* A byte is of one file.                                                  *)
LEMMA ArchivosAparte ==
  ASSUME ListaInd, CuerpoInd, NEW n \in DOMAIN disco, NEW m \in DOMAIN disco, n # m,
         NEW d \in Int, d - Base(n) \in 0 .. disco[n].tamanio - 1,
         d - Base(m) \in 0 .. disco[m].tamanio - 1
  PROVE  FALSE
<1>1. PICK i \in DOMAIN metadatas :
        /\ n = metadatas[i].nombre /\ disco[n].tamanio = metadatas[i].tamanio_archivo
        /\ disco[n].inicial = metadatas[i].bloq_inicial_archivo
  BY EnLaLista
<1>2. PICK j \in DOMAIN metadatas :
        /\ m = metadatas[j].nombre /\ disco[m].tamanio = metadatas[j].tamanio_archivo
        /\ disco[m].inicial = metadatas[j].bloq_inicial_archivo
  BY EnLaLista
<1> DEFINE a == metadatas[i].bloq_inicial_archivo
           b == metadatas[j].bloq_inicial_archivo
           o == Ocupa(metadatas[i])
           q == Ocupa(metadatas[j])
           t == metadatas[i].tamanio_archivo
           u == metadatas[j].tamanio_archivo
<1>3. /\ a \in Nat /\ t \in Nat /\ o \in Nat \ {0} /\ t <= o * BLOCK_SIZE
      /\ b \in Nat /\ u \in Nat /\ q \in Nat \ {0} /\ u <= q * BLOCK_SIZE
  BY BloquesQueTiene
<1>4. Tramo(a, o) \cap Tramo(b, q) = {}
  BY <1>1, <1>2 DEF CuerpoInd, BloquesPropios, BloquesDe
<1>5. d - a * BLOCK_SIZE \in 0 .. t - 1 /\ d - b * BLOCK_SIZE \in 0 .. u - 1
  BY <1>1, <1>2 DEF Base
<1> HIDE DEF a, b, o, q, t, u
<1> QED
  BY <1>3, <1>4, <1>5, BytesAparte

(* Steps that change neither disk nor answer are none of the file system.  *)
LEMMA NoSeVe ==
  ASSUME bloques' = bloques, disco' = disco, leido' = leido
  PROVE  UNCHANGED Almacen!vars
  BY DEF Almacen!vars, Persistido

(* A file that keeps its size and whose bytes are where it now starts is   *)
(* the same.                                                               *)
LEMMA MismoContenido ==
  ASSUME Leidos, Leidos', NEW n \in DOMAIN disco, n \in DOMAIN disco',
         disco'[n].tamanio = disco[n].tamanio,
         \A x \in 0 .. disco[n].tamanio - 1 : bloques'[Base(n)' + x] = bloques[Base(n) + x]
  PROVE  Contenido'[n] = Contenido[n]
<1> DEFINE t == disco[n].tamanio
           a == Base(n)
           b == Base(n)'
<1>1. /\ t \in Nat /\ a \in Nat /\ Contenido[n] = [i \in 1 .. t |-> bloques[a + i - 1]]
  BY DEF Leidos
<1>2. /\ b \in Nat /\ Contenido'[n] = [i \in 1 .. t |-> bloques'[b + i - 1]]
  BY DEF Leidos
<1>3. ASSUME NEW i \in 1 .. t PROVE bloques'[b + i - 1] = bloques[a + i - 1]
  <2> DEFINE x == i - 1
  <2>1. x \in 0 .. t - 1
    BY <1>1
  <2>2. bloques'[b + x] = bloques[a + x]
    BY <2>1
  <2> HIDE DEF a, b, t
  <2>3. b + i - 1 = b + x /\ a + i - 1 = a + x
    BY <1>1, <1>2
  <2> QED
    BY <2>2, <2>3
<1> HIDE DEF a, b, t
<1> QED
  BY <1>1, <1>2, <1>3

(* The names of the files and what they hold, as AlmacenIdeal sees them.   *)
LEMMA VistaDelAlmacen ==
  ASSUME ListaInd, ListaInd'
  PROVE  /\ \A n \in Nombre \ DOMAIN disco : Contenido[n] = <<>>
         /\ \A n \in Nombre \ DOMAIN disco' : Contenido'[n] = <<>>
         /\ DOMAIN disco \subseteq Nombre /\ DOMAIN disco' \subseteq Nombre
  BY DEF Contenido, ListaInd, DiscoTipo

(* CREATE is a new empty file.                                             *)
LEMMA AlmacenCrear ==
  ASSUME ListaInd, CuerpoInd, ListaInd', CuerpoInd', NEW p \in Peticion, ~Listado(p.nombre),
         CrearArchivoMetadata(p)
  PROVE  Almacen!Next
<1> DEFINE n == p.nombre
<1>1. n \in Nombre
  BY DEF Peticion
<1>2. n \notin DOMAIN disco
  BY EnLaLista DEF Listado
<1>3. /\ DOMAIN disco' = DOMAIN disco \cup {n} /\ disco'[n].tamanio = 0
      /\ \A m \in DOMAIN disco : disco'[m] = disco[m]
      /\ bloques' = bloques /\ leido' = leido
  BY <1>2 DEF CrearArchivoMetadata
<1>4. Leidos /\ Leidos'
  BY LoLeido, LoLeidoDespues
<1> HIDE DEF n
<1>5. ASSUME NEW m \in DOMAIN disco PROVE Contenido'[m] = Contenido[m]
  <2>1. m \in DOMAIN disco' /\ disco'[m].tamanio = disco[m].tamanio /\ Base(m)' = Base(m)
    BY <1>3 DEF Base
  <2> QED
    BY <2>1, <1>3, <1>4, MismoContenido
<1>6. Contenido'[n] = <<>>
  <2>1. n \in DOMAIN disco'
    BY <1>3
  <2>2. Contenido'[n] \in Seq(Dato) /\ Len(Contenido'[n]) = 0
    BY <2>1, <1>3, <1>4 DEF Leidos
  <2> QED
    BY <2>2
<1>7. \A m \in Nombre : Contenido'[m] = IF m = n THEN <<>> ELSE Contenido[m]
  BY <1>2, <1>3, <1>5, <1>6, VistaDelAlmacen
<1>8. Contenido' = [Contenido EXCEPT ![n] = <<>>]
  <2>1. Contenido' = [m \in Nombre |-> Contenido'[m]] /\ Contenido = [m \in Nombre |-> Contenido[m]]
    BY DEF Contenido
  <2> QED
    BY <2>1, <1>1, <1>7
<1>9. Almacen!Crear(n)
  BY <1>2, <1>3, <1>8 DEF Almacen!Crear, Contenido
<1> QED
  BY <1>1, <1>9 DEF Almacen!Next

(* DELETE empties its file and no other.                                   *)
LEMMA AlmacenBorrar ==
  ASSUME ListaInd, CuerpoInd, ListaInd', CuerpoInd', NEW p \in Peticion, Listado(p.nombre),
         BorrarArchivo(p)
  PROVE  Almacen!Next
<1> DEFINE n == p.nombre
<1>1. n \in Nombre
  BY DEF Peticion
<1>2. n \in DOMAIN disco
  BY EnLaLista DEF Listado
<1>3. /\ DOMAIN disco' = DOMAIN disco \ {n}
      /\ \A m \in DOMAIN disco' : disco'[m] = disco[m]
      /\ bloques' = bloques /\ leido' = leido
  BY DEF BorrarArchivo
<1>4. Leidos /\ Leidos'
  BY LoLeido, LoLeidoDespues
<1> HIDE DEF n
<1>5. ASSUME NEW m \in DOMAIN disco' PROVE Contenido'[m] = Contenido[m]
  <2>1. m \in DOMAIN disco /\ disco'[m].tamanio = disco[m].tamanio /\ Base(m)' = Base(m)
    BY <1>3 DEF Base
  <2> QED
    BY <2>1, <1>3, <1>4, MismoContenido
<1>6. \A m \in Nombre : Contenido'[m] = IF m = n THEN <<>> ELSE Contenido[m]
  BY <1>3, <1>5, VistaDelAlmacen
<1>7. Contenido' = [Contenido EXCEPT ![n] = <<>>]
  <2>1. Contenido' = [m \in Nombre |-> Contenido'[m]] /\ Contenido = [m \in Nombre |-> Contenido[m]]
    BY DEF Contenido
  <2> QED
    BY <2>1, <1>1, <1>6
<1>8. Almacen!Borrar(n)
  BY <1>2, <1>3, <1>7 DEF Almacen!Borrar, Contenido
<1> QED
  BY <1>1, <1>8 DEF Almacen!Next

(* A file that changes its size keeps the bytes that fit, and no other     *)
(* changes, whatever blocks they are in.                                   *)
LEMMA AlmacenTruncar ==
  ASSUME ListaInd, CuerpoInd, ListaInd', CuerpoInd', NEW n \in DOMAIN disco,
         NEW t, disco'[n].tamanio = t, DOMAIN disco' = DOMAIN disco, leido' = leido,
         \A m \in DOMAIN disco \ {n} : disco'[m].tamanio = disco[m].tamanio,
         \A m \in DOMAIN disco : \A x \in 0 .. disco'[m].tamanio - 1 :
           bloques'[Base(m)' + x] = bloques[Base(m) + x]
  PROVE  Almacen!Next
<1> DEFINE c == Contenido[n]
           comun == IF t < Len(c) THEN t ELSE Len(c)
<1>1. n \in Nombre
  BY DEF ListaInd, DiscoTipo
<1>2. Leidos /\ Leidos'
  BY LoLeido, LoLeidoDespues
<1>3. \A m \in DOMAIN disco \ {n} : Contenido'[m] = Contenido[m]
  <2> SUFFICES ASSUME NEW m \in DOMAIN disco \ {n} PROVE Contenido'[m] = Contenido[m]
    OBVIOUS
  <2>1. m \in DOMAIN disco' /\ disco'[m].tamanio = disco[m].tamanio
    OBVIOUS
  <2>2. \A x \in 0 .. disco[m].tamanio - 1 : bloques'[Base(m)' + x] = bloques[Base(m) + x]
    BY <2>1
  <2> QED
    BY <2>1, <2>2, <1>2, MismoContenido
<1>4. \A m \in Nombre \ {n} : Contenido'[m] = Contenido[m]
  BY <1>3, VistaDelAlmacen
<1>5. /\ c \in Seq(Dato) /\ Len(c) = disco[n].tamanio /\ Base(n) \in Nat
      /\ c = [i \in 1 .. disco[n].tamanio |-> bloques[Base(n) + i - 1]]
  BY <1>2 DEF Leidos
<1>6. /\ Contenido'[n] \in Seq(Dato) /\ Len(Contenido'[n]) = t /\ Base(n)' \in Nat
      /\ t \in 0 .. BITS * BLOCK_SIZE
      /\ Contenido'[n] = [i \in 1 .. t |-> bloques'[Base(n)' + i - 1]]
  BY <1>2 DEF Leidos
<1>7. t \in Nat /\ Len(c) \in Nat /\ comun \in 0 .. Len(c) /\ comun \in 0 .. t
  <2>1. t \in Nat
    BY DEF ListaInd, DiscoTipo
  <2>2. Len(c) \in Nat
    <3>1. \A q \in Seq(Dato) : Len(q) \in Nat
      OBVIOUS
    <3>2. c \in Seq(Dato)
      BY <1>5
    <3> QED
      BY <3>1, <3>2
  <2> HIDE DEF c
  <2> QED
    BY <2>1, <2>2
<1>8. ASSUME NEW i \in 1 .. comun PROVE Contenido'[n][i] = c[i]
  <2> DEFINE x == i - 1
             a == Base(n)
             b == Base(n)'
  <2>1. x \in 0 .. t - 1 /\ i \in 1 .. t /\ i \in 1 .. disco[n].tamanio
    <3> HIDE DEF comun
    <3>1. i \in 1 .. Len(c)
      <4> HIDE DEF c
      <4> QED
        BY <1>7
    <3> QED
      BY <1>7, <3>1, <1>5
  <2>2. bloques'[b + x] = bloques[a + x]
    BY <2>1
  <2> HIDE DEF a, b, comun
  <2>3. b + i - 1 = b + x /\ a + i - 1 = a + x
    BY <1>5, <1>6 DEF a, b
  <2>4. Contenido'[n][i] = bloques'[b + i - 1] /\ c[i] = bloques[a + i - 1]
    BY <2>1, <1>5, <1>6 DEF a, b
  <2> QED
    BY <2>2, <2>3, <2>4
<1>9. SubSeq(Contenido'[n], 1, comun) = SubSeq(c, 1, comun)
  <2> HIDE DEF c, comun
  <2>1. SubSeq(c, 1, comun) = Restrict(c, 1 .. comun)
    BY <1>5, <1>7, SubSeqRestrict
  <2>2. SubSeq(Contenido'[n], 1, comun) = Restrict(Contenido'[n], 1 .. comun)
    BY <1>6, <1>7, SubSeqRestrict
  <2>3. Restrict(Contenido'[n], 1 .. comun) = Restrict(c, 1 .. comun)
    BY <1>8 DEF Restrict
  <2> QED
    BY <2>1, <2>2, <2>3
<1>10. Almacen!Truncar(n, t)
  <2>1. Len(Contenido'[n]) = t
    BY <1>6
  <2> QED
    BY <1>4, <1>9, <2>1 DEF Almacen!Truncar, Almacen!Otros, Contenido, c, comun
<1>11. t \in Almacen!Tamanio
  BY <1>6 DEF Almacen!Tamanio
<1> QED
  BY <1>1, <1>10, <1>11 DEF Almacen!Next

(* A write inside its file changes what it says, there and nowhere else.   *)
LEMMA AlmacenEscribir ==
  ASSUME ListaInd, CuerpoInd, ListaInd', CuerpoInd', NEW p \in Peticion, Listado(p.nombre),
         p.op = "WRITE", Prudente(p), EscribirArchivoBloque(p)
  PROVE  Almacen!Next
<1> DEFINE n == p.nombre
           k == Posicion(n)
           t == disco[n].tamanio
           a == Base(n)
           u == p.puntero
           z == p.tamanio
<1>1. n \in Nombre /\ u \in Nat /\ z \in Nat /\ p.dato \in Dato
  BY DEF Peticion
<1>2. /\ k \in DOMAIN metadatas /\ n \in DOMAIN disco
      /\ metadatas[k].tamanio_archivo = t /\ metadatas[k].bloq_inicial_archivo = disco[n].inicial
  <2>1. k \in DOMAIN metadatas /\ metadatas[k].nombre = n
    BY Encontrada DEF ListaInd
  <2> QED
    BY <2>1, EnLaLista
<1>3. u + z <= t
  BY <1>2 DEF Prudente
<1>4. /\ bloques' = [d \in Byte |-> IF d \in Tramo(a + u, z) THEN p.dato ELSE bloques[d]]
      /\ disco' = disco /\ leido' = leido
  BY <1>2 DEF EscribirArchivoBloque, ComienzoEscritura, Base
<1>5. Leidos /\ Leidos'
  BY LoLeido, LoLeidoDespues
<1>6. t \in Nat /\ a \in Nat /\ (\A x \in 0 .. t - 1 : a + x \in Byte)
      /\ Contenido[n] = [i \in 1 .. t |-> bloques[a + i - 1]]
  BY <1>2, <1>5 DEF Leidos, ListaInd, DiscoTipo
<1>7. Contenido'[n] = [i \in 1 .. t |-> bloques'[a + i - 1]]
  BY <1>2, <1>4, <1>5 DEF Leidos, Base
<1>8. ASSUME NEW m \in DOMAIN disco, m # n PROVE Contenido'[m] = Contenido[m]
  <2>1. disco[m].tamanio \in Nat /\ Base(m) \in Nat /\ Base(m)' = Base(m)
    BY <1>4, <1>5 DEF Leidos, ListaInd, DiscoTipo, Base
  <2>2. ASSUME NEW x \in 0 .. disco[m].tamanio - 1
        PROVE  bloques'[Base(m) + x] = bloques[Base(m) + x]
    <3> DEFINE b == Base(m)
               d == b + x
    <3>1. d \in Byte
      BY <1>5 DEF Leidos
    <3>2. d \in Int /\ d - b = x
      <4> HIDE DEF b
      <4> QED
        BY <2>1 DEF b
    <3>3. ~(d - a \in 0 .. t - 1)
      BY <3>2, <1>2, <1>8, ArchivosAparte
    <3> HIDE DEF d, b, a, t, u, z
    <3>4. d \notin Tramo(a + u, z)
      BY <3>2, <3>3, <1>1, <1>3, <1>6 DEF Tramo
    <3>5. bloques'[d] = bloques[d]
      BY <3>1, <3>4, <1>4
    <3> QED
      BY <3>5 DEF d, b
  <2> QED
    BY <2>1, <2>2, <1>4, <1>5, MismoContenido
<1> HIDE DEF n, t, a, u, z
<1>9. ASSUME NEW i \in 1 .. t
      PROVE  bloques'[a + i - 1] = IF u + 1 <= i /\ i <= u + z THEN p.dato
                                   ELSE bloques[a + i - 1]
  <2>1. a + i - 1 = a + (i - 1) /\ i - 1 \in 0 .. t - 1
    BY <1>6
  <2>2. a + i - 1 \in Byte
    BY <2>1, <1>6
  <2>3. a + i - 1 \in Tramo(a + u, z) <=> u + 1 <= i /\ i <= u + z
    BY <1>1, <1>6 DEF Tramo
  <2> QED
    BY <2>2, <2>3, <1>4
<1> DEFINE nuevo == [i \in DOMAIN Contenido[n] |->
                       IF u + 1 <= i /\ i <= u + z THEN p.dato ELSE Contenido[n][i]]
<1>10. Contenido'[n] = nuevo
  <2>1. DOMAIN Contenido[n] = 1 .. t /\ \A i \in 1 .. t : Contenido[n][i] = bloques[a + i - 1]
    BY <1>6
  <2>2. nuevo = [i \in 1 .. t |-> IF u + 1 <= i /\ i <= u + z THEN p.dato
                                  ELSE bloques[a + i - 1]]
    BY <2>1
  <2> HIDE DEF nuevo
  <2> QED
    BY <2>2, <1>7, <1>9
<1> HIDE DEF nuevo
<1>11. \A m \in Nombre : Contenido'[m] = IF m = n THEN nuevo ELSE Contenido[m]
  BY <1>4, <1>8, <1>10, VistaDelAlmacen
<1>12. Contenido' = [Contenido EXCEPT ![n] = nuevo]
  <2>1. Contenido' = [m \in Nombre |-> Contenido'[m]] /\ Contenido = [m \in Nombre |-> Contenido[m]]
    BY DEF Contenido
  <2> QED
    BY <2>1, <1>1, <1>11
<1> DEFINE desde == u + 1
           hasta == u + z
<1>13. Almacen!Escribir(n, p.dato, desde, hasta)
  BY <1>2, <1>4, <1>12 DEF Almacen!Escribir, Contenido, nuevo
<1>14. desde \in 1 .. Len(Contenido[n]) + 1 /\ hasta \in 0 .. Len(Contenido[n])
  <2>1. Len(Contenido[n]) = t
    BY <1>2, <1>5 DEF Leidos, t
  <2> QED
    BY <2>1, <1>1, <1>3, <1>6
<1> HIDE DEF desde, hasta
<1> QED
  BY <1>1, <1>13, <1>14 DEF Almacen!Next, Contenido

(* A read from the first block of its file gives what the file says there. *)
LEMMA AlmacenLeer ==
  ASSUME ListaInd, CuerpoInd, NEW p \in Peticion, Listado(p.nombre),
         p.op = "READ", Prudente(p), LeerArchivoBloque(p)
  PROVE  Almacen!Next
<1> DEFINE n == p.nombre
           k == Posicion(n)
           t == disco[n].tamanio
           a == Base(n)
           u == p.puntero
           z == p.tamanio
           c == Contenido[n]
<1>1. n \in Nombre /\ u \in Nat /\ z \in Nat /\ BLOCK_SIZE \in Nat \ {0}
  BY DialAssumption DEF Peticion
<1>2. /\ k \in DOMAIN metadatas /\ n \in DOMAIN disco
      /\ metadatas[k].tamanio_archivo = t /\ metadatas[k].bloq_inicial_archivo = disco[n].inicial
  <2>1. k \in DOMAIN metadatas /\ metadatas[k].nombre = n
    BY Encontrada DEF ListaInd
  <2> QED
    BY <2>1, EnLaLista
<1>3. u + z <= t /\ u < BLOCK_SIZE
  BY <1>2 DEF Prudente
<1>4. Leidos
  BY LoLeido
<1>5. /\ t \in Nat /\ a \in Nat /\ c \in Seq(Dato) /\ Len(c) = t
      /\ c = [i \in 1 .. t |-> bloques[a + i - 1]]
  BY <1>2, <1>4 DEF Leidos, ListaInd, DiscoTipo
<1>6. ComienzoLectura(p) = a + u
  <2>1. u \div BLOCK_SIZE = 0
    <3> HIDE DEF u
    <3> QED
      BY <1>1, <1>3
  <2>2. ComienzoEscritura(p) = a + u
    BY <1>2 DEF ComienzoEscritura, Base
  <2>3. ComienzoLectura(p) = a + u + (u \div BLOCK_SIZE) * BLOCK_SIZE
    BY <2>2 DEF ComienzoLectura
  <2> HIDE DEF a, u
  <2> QED
    BY <2>1, <2>3, <1>1, <1>5
<1>7. /\ leido' = [i \in 1 .. z |-> bloques[a + u + i - 1]]
      /\ bloques' = bloques /\ disco' = disco
  BY <1>6 DEF LeerArchivoBloque
<1> DEFINE desde == u + 1
           hasta == u + z
<1> HIDE DEF n, t, a, u, z, c
<1>8. /\ SubSeq(c, desde, hasta) \in Seq(Dato)
      /\ Len(SubSeq(c, desde, hasta)) = z
      /\ \A i \in 1 .. z : SubSeq(c, desde, hasta)[i] = c[u + i]
  <2>1. desde \in Int /\ hasta \in Int
    BY <1>1
  <2>2. \A i \in desde .. hasta : c[i] \in Dato
    <3>1. \A i \in desde .. hasta : i \in 1 .. Len(c)
      BY <1>1, <1>3, <1>5
    <3> QED
      BY <3>1, <1>5
  <2>3. /\ hasta - desde + 1 = z /\ (IF desde <= hasta THEN hasta - desde + 1 ELSE 0) = z
        /\ \A i \in 1 .. z : desde + i - 1 = u + i
    BY <1>1
  <2> HIDE DEF desde, hasta
  <2> QED
    BY <2>1, <2>2, <2>3, SubSeqProperties
<1>9. \A i \in 1 .. z : c[u + i] = bloques[a + u + i - 1]
  <2> SUFFICES ASSUME NEW i \in 1 .. z PROVE c[u + i] = bloques[a + u + i - 1]
    OBVIOUS
  <2>1. u + i \in 1 .. t /\ a + (u + i) - 1 = a + u + i - 1
    BY <1>1, <1>3, <1>5
  <2> QED
    BY <2>1, <1>5
<1> HIDE DEF desde, hasta
<1>10. leido' = SubSeq(c, desde, hasta)
  <2> DEFINE s == SubSeq(c, desde, hasta)
  <2>1. s = [i \in 1 .. Len(s) |-> s[i]]
    <3>1. s \in Seq(Dato)
      BY <1>8
    <3> HIDE DEF s
    <3> QED
      BY <3>1
  <2>2. Len(s) = z /\ \A i \in 1 .. z : s[i] = bloques[a + u + i - 1]
    BY <1>8, <1>9
  <2> HIDE DEF s
  <2>3. s = [i \in 1 .. z |-> bloques[a + u + i - 1]]
    BY <2>1, <2>2
  <2> QED
    BY <2>3, <1>7 DEF s
<1>11. Almacen!Leer(n, desde, hasta)
  BY <1>2, <1>7, <1>10 DEF Almacen!Leer, Contenido, Persistido, c
<1>12. desde \in 1 .. Len(c) + 1 /\ hasta \in 0 .. Len(c)
  BY <1>1, <1>3, <1>5 DEF desde, hasta
<1> QED
  BY <1>1, <1>11, <1>12 DEF Almacen!Next, Contenido, c

(* TRUNCATE, however it gets the blocks.                                   *)
LEMMA AlmacenTruncarArchivo ==
  ASSUME ListaInd, CuerpoInd, ListaInd', CuerpoInd', NEW p \in Peticion, Listado(p.nombre),
         p.op = "TRUNCATE", Razonable(p), Prudente(p), TruncarArchivo(p)
  PROVE  [Almacen!Next]_Almacen!vars
<1> DEFINE n == p.nombre
           k == Posicion(n)
           t == p.tamanio
           cant == NuevosBloques(metadatas[k], t)
           libres == HayBloquesLibresContiguos(cant, metadatas[k].ultimo_bloque)
<1>1. /\ k \in DOMAIN metadatas /\ metadatas[k].nombre = n /\ n \in DOMAIN disco
      /\ disco[n].tamanio = metadatas[k].tamanio_archivo
  <2>1. k \in DOMAIN metadatas /\ metadatas[k].nombre = n
    BY Encontrada DEF ListaInd
  <2> QED
    BY <2>1, EnLaLista
<1>2. /\ t \in Nat /\ UNCHANGED <<leido, caida>>
      /\ \/ ModificarConfigTam(n, t) /\ bloques' = bloques
         \/ /\ metadatas[k].tamanio_archivo < t
            /\ ~libres
            /\ metadatas[k].bloq_inicial_archivo * BLOCK_SIZE + t - 1 \in Byte
            /\ Asignados(Reubicados(k, cant)) \subseteq Bloque
            /\ Compactar(k, t, cant)
         \/ bloques' = bloques /\ disco' = disco
  <2>1. ReducirTamArchivo(k, t) => ModificarConfigTam(n, t) /\ bloques' = bloques
    BY <1>1 DEF ReducirTamArchivo
  <2> QED
    BY <1>1, <2>1, FormasDeTruncar
<1>3. ASSUME ModificarConfigTam(n, t), bloques' = bloques
      PROVE  Almacen!Next
  <2>1. /\ DOMAIN disco' = DOMAIN disco /\ disco'[n] = [disco[n] EXCEPT !.tamanio = t]
        /\ \A m \in DOMAIN disco \ {n} : disco'[m] = disco[m]
    BY <1>1, <1>3 DEF ModificarConfigTam
  <2>2. disco[n] \in [tamanio : Nat, inicial : Bloque]
    BY <1>1 DEF ListaInd, DiscoTipo
  <2>3. disco'[n].tamanio = t /\ disco'[n].inicial = disco[n].inicial
    BY <2>1, <2>2
  <2> HIDE DEF n, t
  <2>4. \A m \in DOMAIN disco : Base(m)' = Base(m)
    BY <2>1, <2>3 DEF Base
  <2>5. leido' = leido
    BY <1>2
  <2> QED
    BY <1>1, <1>3, <2>1, <2>3, <2>4, <2>5, AlmacenTruncar
<1>4. ASSUME metadatas[k].tamanio_archivo < t, ~libres,
             metadatas[k].bloq_inicial_archivo * BLOCK_SIZE + t - 1 \in Byte,
             Asignados(Reubicados(k, cant)) \subseteq Bloque, Compactar(k, t, cant)
      PROVE  Almacen!Next
  <2> DEFINE N == Nuevos(k, t, cant)
             D == DOMAIN metadatas
  <2>1. metadatas[k].tamanio_archivo \in Nat
    BY <1>1, BloquesQueTiene
  <2>2. \A i \in D \ {k} : metadatas[i].cantidad_bloques >= Ocupa(metadatas[i])
    BY <1>2, <1>4, <2>1 DEF Prudente
  <2>3. Compactable(k, t, cant)
    BY <1>1, <1>2, <1>4, <2>2 DEF Compactable
  <2>4. /\ metadatas' = N /\ CopiarDatos(Viejos(k, t), N) /\ DOMAIN disco' = DOMAIN disco
    BY <1>4 DEF Compactar
  <2>5. \A i \in D : \A x \in 0 .. N[i].tamanio_archivo - 1 :
          bloques'[N[i].bloq_inicial_archivo * BLOCK_SIZE + x]
            = bloques[metadatas[i].bloq_inicial_archivo * BLOCK_SIZE + x]
    BY <2>3, <2>4, LoCopiado
  <2>6. /\ DOMAIN N = D
        /\ \A i \in D : /\ N[i].nombre = metadatas[i].nombre
                        /\ N[i].tamanio_archivo = IF i = k THEN t ELSE metadatas[i].tamanio_archivo
    BY <2>3, FichasNuevas DEF Compactable, ListaInd
  <2> HIDE DEF N, t
  <2>7. ASSUME NEW i \in D
        PROVE  /\ disco'[metadatas[i].nombre].tamanio = N[i].tamanio_archivo
               /\ disco'[metadatas[i].nombre].inicial = N[i].bloq_inicial_archivo
    <3> DEFINE x == disco'[metadatas[i].nombre]
    <3>1. i \in DOMAIN metadatas' /\ metadatas'[i] = N[i] /\ N[i].nombre = metadatas[i].nombre
      BY <2>4, <2>6
    <3>2. x = [tamanio |-> N[i].tamanio_archivo, inicial |-> N[i].bloq_inicial_archivo]
      BY <3>1 DEF ListaInd, MetadatosAlDia
    <3> HIDE DEF x
    <3>3. x.tamanio = N[i].tamanio_archivo /\ x.inicial = N[i].bloq_inicial_archivo
      BY <3>2
    <3> QED
      BY <3>3 DEF x
  <2>8. disco'[n].tamanio = t
    BY <1>1, <2>6, <2>7
  <2>9. ASSUME NEW m \in DOMAIN disco
        PROVE  /\ m # n => disco'[m].tamanio = disco[m].tamanio
               /\ \A x \in 0 .. disco'[m].tamanio - 1 :
                    bloques'[Base(m)' + x] = bloques[Base(m) + x]
    <3>1. PICK i \in D : /\ m = metadatas[i].nombre
                         /\ disco[m].tamanio = metadatas[i].tamanio_archivo
                         /\ disco[m].inicial = metadatas[i].bloq_inicial_archivo
      BY EnLaLista
    <3>2. /\ disco'[m].tamanio = N[i].tamanio_archivo
          /\ disco'[m].inicial = N[i].bloq_inicial_archivo
      BY <3>1, <2>7
    <3>3. m # n => disco'[m].tamanio = disco[m].tamanio
      BY <1>1, <2>6, <3>1, <3>2
    <3>4. /\ Base(m)' = N[i].bloq_inicial_archivo * BLOCK_SIZE
          /\ Base(m) = metadatas[i].bloq_inicial_archivo * BLOCK_SIZE
      BY <3>1, <3>2 DEF Base
    <3> QED
      BY <3>2, <3>3, <3>4, <2>5
  <2>10. leido' = leido
    BY <1>2
  <2> QED
    BY <1>1, <2>4, <2>8, <2>9, <2>10, AlmacenTruncar
<1>5. ASSUME bloques' = bloques, disco' = disco
      PROVE  UNCHANGED Almacen!vars
  BY <1>2, <1>5, NoSeVe
<1> QED
  BY <1>2, <1>3, <1>4, <1>5

(* Every request the code is prepared for is one the file system promises. *)
LEMMA AlmacenAtender ==
  ASSUME Cuidado, ListaInd, CuerpoInd, ListaInd', CuerpoInd', NEW p \in Peticion, Atender(p)
  PROVE  [Almacen!Next]_Almacen!vars
<1>1. Razonable(p) /\ Prudente(p)
  BY DEF Atender
<1>2. CASE p.op = "CREATE"
  <2>1. CrearArchivoMetadata(p) /\ ~Listado(p.nombre)
    BY <1>1, <1>2 DEF Atender, Razonable
  <2> QED
    BY <2>1, AlmacenCrear
<1>3. CASE p.op = "DELETE" /\ Listado(p.nombre)
  BY <1>3, AlmacenBorrar DEF Atender
<1>4. CASE p.op = "TRUNCATE" /\ Listado(p.nombre)
  <2>1. TruncarArchivo(p)
    BY <1>4 DEF Atender
  <2> QED
    BY <1>1, <1>4, <2>1, AlmacenTruncarArchivo
<1>5. CASE p.op = "WRITE" /\ Listado(p.nombre)
  <2>1. EscribirArchivoBloque(p)
    BY <1>5 DEF Atender
  <2> QED
    BY <1>1, <1>5, <2>1, AlmacenEscribir
<1>6. CASE p.op = "READ" /\ Listado(p.nombre)
  <2>1. LeerArchivoBloque(p)
    BY <1>6 DEF Atender
  <2> QED
    BY <1>1, <1>6, <2>1, AlmacenLeer
<1>7. CASE p.op # "CREATE" /\ ~Listado(p.nombre)
  <2>1. Caer
    BY <1>7 DEF Atender, BorrarArchivo, TruncarArchivo, EscribirArchivoBloque, LeerArchivoBloque
  <2>2. bloques' = bloques /\ disco' = disco /\ leido' = leido
    BY <2>1 DEF Caer
  <2> QED
    BY <2>2, NoSeVe
<1> QED
  BY <1>2, <1>3, <1>4, <1>5, <1>6, <1>7 DEF Atender

(* The bytes of a file survive what is asked of the others, compactions    *)
(* and restarts, and a read returns them (funcionesfs.c:339, 196;          *)
(* entradasalida.c:43), when the requests are those the code is prepared   *)
(* for.                                                                    *)
THEOREM AlmacenCumplido ==
  ASSUME Cuidado
  PROVE  Spec => CumpleAlmacen
<1>1. Init => Almacen!Init
  <2> SUFFICES ASSUME Init PROVE Almacen!Init
    OBVIOUS
  <2>1. disco = <<>> /\ leido = <<>>
    BY DEF Init
  <2>2. DOMAIN disco = {}
    BY <2>1
  <2> QED
    BY <2>1, <2>2 DEF Almacen!Init
<1>2. BloquesInd /\ BloquesInd' /\ [Next]_vars => [Almacen!Next]_Almacen!vars
  <2> SUFFICES ASSUME BloquesInd, BloquesInd', [Next]_vars
               PROVE  [Almacen!Next]_Almacen!vars
    OBVIOUS
  <2>1. ListaInd /\ CuerpoInd /\ ListaInd' /\ CuerpoInd'
    BY DEF BloquesInd, DiscoInd
  <2>2. CASE Servir
    <3>1. PICK p \in Peticion : Atender(p)
      BY <2>2, Pedida DEF BloquesInd, DiscoInd
    <3> QED
      BY <2>1, <3>1, AlmacenAtender
  <2>3. CASE Reiniciar
    <3>1. bloques' = bloques /\ disco' = disco /\ leido' = leido
      BY <2>3 DEF Reiniciar
    <3> QED
      BY <3>1, NoSeVe
  <2>4. CASE UNCHANGED vars
    <3>1. bloques' = bloques /\ disco' = disco /\ leido' = leido
      BY <2>4 DEF vars
    <3> QED
      BY <3>1, NoSeVe
  <2> QED
    BY <2>2, <2>3, <2>4 DEF Next
<1> QED
  BY <1>1, <1>2, BloquesSiempre, PTL DEF Spec, CumpleAlmacen, Almacen!Spec
=============================================================================
