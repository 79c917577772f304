----------------------------- MODULE AlmacenIdeal -----------------------------
(***************************************************************************)
(* What a file system promises to the processes: each name is a file with  *)
(* bytes of its own that only a request about that file changes.           *)
(***************************************************************************)
EXTENDS Integers, Sequences

CONSTANTS Nombre, Dato, MaxTamanio
VARIABLES archivos,  \* the files that exist
          contenido, \* name -> bytes
          leido      \* the answer to the last read

vars == <<archivos, contenido, leido>>

Tamanio == 0 .. MaxTamanio
Otros(n) == \A m \in Nombre \ {n} : contenido'[m] = contenido[m]

Init == archivos = {} /\ contenido = [n \in Nombre |-> <<>>] /\ leido = <<>>

Crear(n) == /\ n \notin archivos /\ archivos' = archivos \cup {n}
            /\ contenido' = [contenido EXCEPT ![n] = <<>>] /\ UNCHANGED leido
Borrar(n) == /\ n \in archivos /\ archivos' = archivos \ {n}
             /\ contenido' = [contenido EXCEPT ![n] = <<>>] /\ UNCHANGED leido

\* what two sizes share stays; the bytes a growth adds are unspecified
Truncar(n, t) ==
  LET c == contenido[n]
      comun == IF t < Len(c) THEN t ELSE Len(c)
  IN  /\ n \in archivos /\ UNCHANGED <<archivos, leido>> /\ Otros(n)
      /\ Len(contenido'[n]) = t
      /\ SubSeq(contenido'[n], 1, comun) = SubSeq(c, 1, comun)

Escribir(n, d, desde, hasta) ==
  /\ n \in archivos /\ UNCHANGED <<archivos, leido>>
  /\ contenido' = [contenido EXCEPT ![n] =
                     [i \in DOMAIN contenido[n] |->
                        IF desde <= i /\ i <= hasta THEN d ELSE contenido[n][i]]]

Leer(n, desde, hasta) ==
  /\ n \in archivos
  /\ leido' = SubSeq(contenido[n], desde, hasta) /\ UNCHANGED <<archivos, contenido>>

Next == \E n \in Nombre :
          \/ Crear(n) \/ Borrar(n)
          \/ \E t \in Tamanio : Truncar(n, t)
          \/ \E hasta \in 0 .. Len(contenido[n]), desde \in 1 .. Len(contenido[n]) + 1 :
               \/ Leer(n, desde, hasta)
               \/ \E d \in Dato : Escribir(n, d, desde, hasta)
Spec == Init /\ [][Next]_vars
=============================================================================
