--------------------------- MODULE BuffersProofs ---------------------------
(***************************************************************************)
(* Proofs about Buffers: a buffer has one owner, and what is copied, sent  *)
(* and split is what was encoded, for any number of records, workers and   *)
(* cells, and queues, batches and bodies of any size.                      *)
(*                                                                         *)
(* The invariant says who may hold a cell together with who else: records  *)
(* that are queued or held share no buffer with each other or with a       *)
(* batch; batches may share the raw bytes a split left to both halves, and *)
(* nothing else, so that whoever releases a set of buffers is the last to  *)
(* use it. From that and the contents of every cell, no step can write     *)
(* what somebody still reads.                                              *)
(*                                                                         *)
(* The first part is the algebra of encodings: a run of records is encoded *)
(* as the concatenation of its parts, and cutting it at a boundary cuts    *)
(* the bytes and the boundaries in the same place.                         *)
(***************************************************************************)
EXTENDS Buffers, SequenceTheorems, WellFoundedInduction, NaturalsInduction, TLAPS

-----------------------------------------------------------------------------
(* Encodings of runs of records.                                           *)

\* A set of numbers that has 0 and is closed under successor has them all.
LEMMA Reaches ==
    ASSUME NEW T, 0 \in T, \A n \in Nat : n \in T => n + 1 \in T
    PROVE  \A n \in Nat : n \in T
<1> DEFINE R == OpToRel(<, Nat)
           U == Nat \ T
<1>1. IsWellFoundedOn(R, Nat)
  BY NatLessThanWellFounded
<1>2. \A x, y \in Nat : x < y => <<x, y>> \in R
  BY DEF OpToRel
<1> SUFFICES ASSUME U # {} PROVE FALSE
  OBVIOUS
<1> HIDE DEF R
<1>3. PICK x \in U : \A y \in U : ~(<<y, x>> \in R)
  BY <1>1, WFMin
<1>4. x \in Nat /\ x # 0 /\ x - 1 \in Nat /\ x - 1 < x
  OBVIOUS
<1>5. x - 1 \in T
  BY <1>2, <1>3, <1>4
<1> QED
  BY <1>4, <1>5

\* f flattens the first n sequences of ss, prefix by prefix.
Flattens(f, ss, n) ==
    \A i \in 1..n : f[i] = IF i = 1 THEN ss[i] ELSE f[i - 1] \o ss[i]

\* Every sequence of sequences has such a flattener.
LEMMA FlattenerExists ==
    ASSUME NEW S, NEW ss \in Seq(Seq(S))
    PROVE  \E f \in [1..Len(ss) -> Seq(S)] : Flattens(f, ss, Len(ss))
<1> DEFINE T == {n \in Nat : n <= Len(ss) => \E f \in [1..n -> Seq(S)] : Flattens(f, ss, n)}
<1>0. Len(ss) \in Nat
  OBVIOUS
<1>1. 0 \in T
  <2>1. [i \in 1..0 |-> <<>>] \in [1..0 -> Seq(S)]
    OBVIOUS
  <2>2. \A f : Flattens(f, ss, 0)
    BY DEF Flattens
  <2> QED
    BY <2>1, <2>2
<1>2. ASSUME NEW n \in Nat, n \in T PROVE n + 1 \in T
  <2> SUFFICES ASSUME n + 1 <= Len(ss)
               PROVE  \E g \in [1..(n + 1) -> Seq(S)] : Flattens(g, ss, n + 1)
    OBVIOUS
  <2>1. PICK f \in [1..n -> Seq(S)] : Flattens(f, ss, n)
    BY <1>0, <1>2
  <2> DEFINE next == IF n = 0 THEN ss[1] ELSE f[n] \o ss[n + 1]
             g == [i \in 1..(n + 1) |-> IF i = n + 1 THEN next ELSE f[i]]
  <2>2. ss[n + 1] \in Seq(S)
    BY <1>0
  <2>3. next \in Seq(S)
    BY <1>2, <2>2, ConcatProperties
  <2>4. g \in [1..(n + 1) -> Seq(S)]
    <3> HIDE DEF next
    <3> QED
      BY <2>3
  <2>5. ASSUME NEW i \in 1..(n + 1) PROVE g[i] = IF i = 1 THEN ss[i] ELSE g[i - 1] \o ss[i]
    <3>1. CASE i = n + 1
      <4>1. g[i] = next
        BY <3>1
      <4>2. i # 1 => g[i - 1] = f[n] /\ n # 0
        BY <3>1
      <4> QED
        BY <3>1, <4>1, <4>2
    <3>2. CASE i # n + 1
      <4>1. i \in 1..n /\ g[i] = f[i] /\ (i # 1 => g[i - 1] = f[i - 1])
        BY <3>2
      <4> QED
        BY <2>1, <4>1 DEF Flattens
    <3> QED
      BY <3>1, <3>2
  <2> HIDE DEF g
  <2> QED
    BY <2>4, <2>5 DEF Flattens
<1> HIDE DEF T
<1>3. Len(ss) \in T
  BY <1>0, <1>1, <1>2, Reaches
<1> QED
  BY <1>0, <1>3 DEF T

\* A flattener's value depends on what it has flattened only.
LEMMA FlattenersAgree ==
    ASSUME NEW m \in Nat \ {0}, NEW f, NEW ss, NEW g, NEW tt,
           Flattens(f, ss, m), Flattens(g, tt, m), \A i \in 1..m : tt[i] = ss[i]
    PROVE  f[m] = g[m]
<1> DEFINE T == {n \in Nat : n + 1 \in 1..m => f[n + 1] = g[n + 1]}
<1>1. 0 \in T
  BY DEF Flattens
<1>2. ASSUME NEW n \in Nat, n \in T PROVE n + 1 \in T
  <2> SUFFICES ASSUME n + 2 \in 1..m PROVE f[n + 2] = g[n + 2]
    OBVIOUS
  <2>1. f[n + 1] = g[n + 1] /\ n + 2 # 1 /\ (n + 2) - 1 = n + 1
    BY <1>2
  <2> QED
    BY <2>1 DEF Flattens
<1> HIDE DEF T
<1>3. \A n \in Nat : n \in T
  BY <1>1, <1>2, Reaches
<1>4. m - 1 \in Nat /\ (m - 1) + 1 = m /\ m \in 1..m
  OBVIOUS
<1> QED
  BY <1>3, <1>4 DEF T

\* FlattenSeq is the last value of one.
LEMMA FlattenSeqIs ==
    ASSUME NEW S, NEW ss \in Seq(Seq(S)), NEW n \in Nat, n # 0, n = Len(ss)
    PROVE  \E f \in [1..n -> Seq(S)] : Flattens(f, ss, n) /\ FlattenSeq(ss) = f[n]
<1> DEFINE Step(g) == [i \in 1..n |-> IF i = 1 THEN ss[i] ELSE g[i - 1] \o ss[i]]
           fl == CHOOSE g : g = Step(g)
<1>1. PICK f \in [1..n -> Seq(S)] : Flattens(f, ss, n)
  BY FlattenerExists
<1>2. f = Step(f)
  BY <1>1 DEF Flattens
<1>3. fl = Step(fl)
  BY <1>2
<1>4. FlattenSeq(ss) = fl[n]
  BY DEF FlattenSeq
<1> HIDE DEF fl
<1>5. Flattens(fl, ss, n)
  BY <1>3 DEF Flattens
<1>6. fl[n] = f[n]
  BY <1>1, <1>5, FlattenersAgree
<1> QED
  BY <1>1, <1>4, <1>6, Zenon

\* Nothing flattens to nothing.
LEMMA FlattenEmpty == FlattenSeq(<<>>) = <<>>
BY DEF FlattenSeq

\* The result has the elements of the parts.
LEMMA FlattenType ==
    ASSUME NEW S, NEW ss \in Seq(Seq(S))
    PROVE  FlattenSeq(ss) \in Seq(S)
<1>1. CASE ss = <<>>
  BY <1>1, FlattenEmpty, EmptySeq
<1>2. CASE ss # <<>>
  <2>1. PICK n \in Nat \ {0} : Len(ss) = n
    BY <1>2, EmptySeq
  <2>2. PICK f \in [1..n -> Seq(S)] : FlattenSeq(ss) = f[n]
    BY <2>1, FlattenSeqIs
  <2> QED
    BY <2>2
<1> QED
  BY <1>1, <1>2

\* A flattener's last step.
LEMMA FlattensLast ==
    ASSUME NEW n \in Nat, NEW f, NEW ss, Flattens(f, ss, n + 1)
    PROVE  /\ Flattens(f, ss, n)
           /\ n = 0 => f[n + 1] = ss[n + 1]
           /\ n # 0 => f[n + 1] = f[n] \o ss[n + 1]
<1>1. Flattens(f, ss, n)
  BY DEF Flattens
<1>2. n + 1 \in 1..(n + 1) /\ (n + 1) - 1 = n /\ (n = 0 <=> n + 1 = 1)
  OBVIOUS
<1>3. f[n + 1] = IF n + 1 = 1 THEN ss[n + 1] ELSE f[(n + 1) - 1] \o ss[n + 1]
  BY <1>2 DEF Flattens
<1> QED
  BY <1>1, <1>2, <1>3, Zenon

\* One more sequence is one more concatenation.
LEMMA FlattenLonger ==
    ASSUME NEW S, NEW ss \in Seq(Seq(S)), NEW tt \in Seq(Seq(S)), NEW n \in Nat,
           n = Len(ss), n + 1 = Len(tt), \A i \in 1..n : tt[i] = ss[i]
    PROVE  FlattenSeq(tt) = FlattenSeq(ss) \o tt[n + 1]
<1>0. n + 1 \in Nat /\ n + 1 # 0 /\ n + 1 \in 1..(n + 1)
  OBVIOUS
<1>1. PICK g \in [1..(n + 1) -> Seq(S)] : Flattens(g, tt, n + 1) /\ FlattenSeq(tt) = g[n + 1]
  <2> HIDE DEF Flattens
  <2> QED
    BY <1>0, FlattenSeqIs
<1>2. /\ Flattens(g, tt, n)
      /\ n = 0 => g[n + 1] = tt[n + 1]
      /\ n # 0 => g[n + 1] = g[n] \o tt[n + 1]
  BY <1>1, FlattensLast
<1>3. CASE n = 0
  <2>1. ss = <<>> /\ FlattenSeq(ss) = <<>>
    BY <1>3, FlattenEmpty, EmptySeq
  <2>2. tt[n + 1] \in Seq(S)
    BY <1>0, ElementOfSeq
  <2> QED
    BY <1>1, <1>2, <1>3, <2>1, <2>2, ConcatEmptySeq
<1>4. CASE n # 0
  <2>0. n # 0 /\ n \in 1..n
    BY <1>4
  <2>1. PICK f \in [1..n -> Seq(S)] : Flattens(f, ss, n) /\ FlattenSeq(ss) = f[n]
    BY <2>0, FlattenSeqIs
  <2>2. Flattens(g, tt, n)
    BY <1>2, Zenon
  <2>4. g[n] = f[n]
    BY <2>0, <2>1, <2>2, FlattenersAgree
  <2> QED
    BY <1>1, <1>2, <1>4, <2>1, <2>4
<1> QED
  BY <1>3, <1>4

-----------------------------------------------------------------------------
(* The encoding of a run of records.                                       *)

\* A record's encoding is never empty: it has its separator.
LEMMA EncodingType == \A r \in Records : Encoding(r) \in Seq(Byte) /\ Encoding(r) # <<>>
<1> SUFFICES ASSUME NEW r \in Records PROVE Encoding(r) \in Seq(Byte) /\ Encoding(r) # <<>>
  OBVIOUS
<1> DEFINE letters == [i \in 1..r |-> r]
<1>1. r \in Nat /\ r \in Byte /\ Comma \in Byte
  BY BuffersAssumption DEF Byte
<1>2. letters \in Seq(Byte)
  BY <1>1
<1>3. <<Comma>> \in Seq(Byte) /\ Len(<<Comma>>) = 1
  BY <1>1
<1> HIDE DEF letters
<1>4. /\ <<Comma>> \o letters \in Seq(Byte)
      /\ Len(<<Comma>> \o letters) = 1 + Len(letters)
  BY <1>2, <1>3, ConcatProperties
<1>5. <<Comma>> \o letters # <<>>
  BY <1>2, <1>4, EmptySeq, LenProperties
<1> QED
  BY <1>4, <1>5 DEF Encoding, letters

\* The encodings of the records of a run, one by one.
Encoded(recs) == [i \in DOMAIN recs |-> Encoding(recs[i])]

\* The encodings of a run, one by one.
LEMMA EncodedType ==
    ASSUME NEW s \in Seq(Records)
    PROVE  Encoded(s) \in Seq(Seq(Byte)) /\ Len(Encoded(s)) = Len(s)
<1>1. DOMAIN s = 1..Len(s) /\ Len(s) \in Nat /\ \A i \in 1..Len(s) : s[i] \in Records
  OBVIOUS
<1>2. \A i \in 1..Len(s) : Encoding(s[i]) \in Seq(Byte)
  BY <1>1, EncodingType
<1> QED
  BY <1>1, <1>2 DEF Encoded

\* A run's encoding is bytes.
LEMMA EncodingsType ==
    ASSUME NEW s \in Seq(Records)
    PROVE  Encodings(s) \in Seq(Byte)
BY EncodedType, FlattenType DEF Encodings, Encoded

\* No records, no bytes.
LEMMA EncodingsEmpty == Encodings(<<>>) = <<>>
<1>1. Encoded(<<>>) = <<>>
  BY DEF Encoded
<1> QED
  BY <1>1, FlattenEmpty DEF Encodings, Encoded

\* One more record adds its encoding at the end (sender.go, appendRecord).
LEMMA EncodingsAppend ==
    ASSUME NEW s \in Seq(Records), NEW r \in Records
    PROVE  Encodings(Append(s, r)) = Encodings(s) \o Encoding(r)
<1>0. PICK n \in Nat : n = Len(s)
  BY LenProperties
<1>1. PICK t \in Seq(Records) :
        /\ t = Append(s, r) /\ Len(t) = n + 1
        /\ (\A i \in 1..n : t[i] = s[i]) /\ t[n + 1] = r
  BY <1>0, AppendProperties
<1>2. /\ Encoded(t) \in Seq(Seq(Byte)) /\ Len(Encoded(t)) = n + 1
      /\ Encoded(s) \in Seq(Seq(Byte)) /\ Len(Encoded(s)) = n
  BY <1>0, <1>1, EncodedType
<1>3. /\ \A i \in 1..n : Encoded(t)[i] = Encoded(s)[i]
      /\ Encoded(t)[n + 1] = Encoding(r)
  BY <1>0, <1>1 DEF Encoded
<1>4. FlattenSeq(Encoded(t)) = FlattenSeq(Encoded(s)) \o Encoded(t)[n + 1]
  BY <1>2, <1>3, FlattenLonger
<1> QED
  BY <1>1, <1>3, <1>4, Zenon DEF Encodings, Encoded

\* Some record, some bytes.
LEMMA EncodingsNotEmpty ==
    ASSUME NEW s \in Seq(Records), s # <<>>
    PROVE  Encodings(s) \in Seq(Byte) /\ Len(Encodings(s)) \in Nat \ {0}
<1>1. PICK u \in Seq(Records), e \in Records : s = Append(u, e)
  BY SequenceEmptyOrAppend
<1>2. /\ Encodings(u) \in Seq(Byte) /\ Encoding(e) \in Seq(Byte) /\ Encoding(e) # <<>>
      /\ Encodings(s) = Encodings(u) \o Encoding(e)
  BY <1>1, EncodingsType, EncodingType, EncodingsAppend
<1>3. Encodings(s) \in Seq(Byte) /\ Encodings(s) # <<>>
  BY <1>2, ConcatProperties, ConcatEqualIffEmpty
<1> QED
  BY <1>3, EmptySeq

\* Two runs in a row encode one after the other: a body may be cut between any two
\* records (client.go, packer.split).
LEMMA EncodingsConcat ==
    ASSUME NEW s \in Seq(Records), NEW t \in Seq(Records)
    PROVE  Encodings(s \o t) = Encodings(s) \o Encodings(t)
<1> DEFINE T == {n \in Nat : \A u \in Seq(Records) :
                   Len(u) = n => Encodings(s \o u) = Encodings(s) \o Encodings(u)}
<1>1. 0 \in T
  <2> SUFFICES ASSUME NEW u \in Seq(Records), Len(u) = 0
               PROVE  Encodings(s \o u) = Encodings(s) \o Encodings(u)
    OBVIOUS
  <2>1. u = <<>>
    BY EmptySeq
  <2>2. s \o u = s /\ Encodings(s) \o Encodings(u) = Encodings(s)
    BY <2>1, ConcatEmptySeq, EncodingsEmpty, EncodingsType
  <2> QED
    BY <2>2
<1>2. ASSUME NEW n \in Nat, n \in T PROVE n + 1 \in T
  <2> SUFFICES ASSUME NEW u \in Seq(Records), Len(u) = n + 1
               PROVE  Encodings(s \o u) = Encodings(s) \o Encodings(u)
    OBVIOUS
  <2>1. u # <<>>
    BY EmptySeq
  <2>2. PICK v \in Seq(Records), e \in Records : u = Append(v, e)
    BY <2>1, SequenceEmptyOrAppend
  <2>3. Len(v) = n
    BY <2>2, AppendProperties
  <2>4. Encodings(s \o v) = Encodings(s) \o Encodings(v)
    BY <1>2, <2>3
  <2>5. s \o u = Append(s \o v, e) /\ s \o v \in Seq(Records)
    <3>1. <<e>> \in Seq(Records) /\ u = v \o <<e>> /\ s \o v \in Seq(Records)
      BY <2>2, AppendIsConcat, ConcatProperties
    <3>2. s \o (v \o <<e>>) = (s \o v) \o <<e>>
      BY <3>1, ConcatAssociative
    <3>3. Append(s \o v, e) = (s \o v) \o <<e>>
      BY <3>1, AppendIsConcat
    <3> QED
      BY <3>1, <3>2, <3>3
  <2>6. /\ Encodings(s) \in Seq(Byte) /\ Encodings(v) \in Seq(Byte) /\ Encoding(e) \in Seq(Byte)
        /\ Encodings(u) = Encodings(v) \o Encoding(e)
        /\ Encodings(s \o u) = Encodings(s \o v) \o Encoding(e)
    BY <2>2, <2>5, EncodingsType, EncodingType, EncodingsAppend
  <2> QED
    BY <2>4, <2>6, ConcatAssociative
<1> HIDE DEF T
<1>3. \A n \in Nat : n \in T
  BY <1>1, <1>2, Reaches
<1>4. Len(t) \in Nat
  BY LenProperties
<1> QED
  BY <1>3, <1>4 DEF T

-----------------------------------------------------------------------------
(* The boundaries of a run.                                                *)

\* A run has one boundary for each record.
LEMMA EndsOfType ==
    ASSUME NEW s \in Seq(Records)
    PROVE  /\ EndsOf(s) \in Seq(Nat) /\ Len(EndsOf(s)) = Len(s)
           /\ \A i \in 1..Len(s) : EndsOf(s)[i] = Len(Encodings(SubSeq(s, 1, i)))
           /\ \A i \in 1..Len(s) : SubSeq(s, 1, i) \in Seq(Records)
<1>1. Len(s) \in Nat /\ DOMAIN s = 1..Len(s) /\ \A i \in 1..Len(s) : s[i] \in Records
  OBVIOUS
<1>2. \A i \in 1..Len(s) : SubSeq(s, 1, i) \in Seq(Records)
  BY <1>1, SubSeqProperties
<1>3. \A i \in 1..Len(s) : Len(Encodings(SubSeq(s, 1, i))) \in Nat
  BY <1>2, EncodingsType, LenProperties
<1> QED
  BY <1>1, <1>2, <1>3 DEF EndsOf

\* No records, no boundaries.
LEMMA EndsOfEmpty == EndsOf(<<>>) = <<>>
BY DEF EndsOf

\* One more record adds a boundary at the end of the bytes (sender.go, appendRecord).
LEMMA EndsOfAppend ==
    ASSUME NEW s \in Seq(Records), NEW r \in Records
    PROVE  EndsOf(Append(s, r)) = Append(EndsOf(s), Len(Encodings(Append(s, r))))
<1>0. PICK n \in Nat : n = Len(s)
  BY LenProperties
<1>1. PICK t \in Seq(Records) : t = Append(s, r) /\ Len(t) = n + 1 /\ t = s \o <<r>>
  BY <1>0, AppendProperties, AppendIsConcat
<1>2. PICK last \in Nat : last = Len(Encodings(t))
  BY EncodingsType, LenProperties
<1>3. /\ EndsOf(t) \in Seq(Nat) /\ Len(EndsOf(t)) = n + 1 /\ EndsOf(s) \in Seq(Nat)
      /\ Len(EndsOf(s)) = n
  BY <1>0, <1>1, EndsOfType
<1>4. \A i \in 1..n : EndsOf(t)[i] = EndsOf(s)[i]
  <2> SUFFICES ASSUME NEW i \in 1..n PROVE EndsOf(t)[i] = EndsOf(s)[i]
    OBVIOUS
  <2>1. i \in 1..Len(s) /\ i \in 1..Len(t) /\ 1 \in 1..Len(s)
    BY <1>0, <1>1
  <2>2. SubSeq(s \o <<r>>, 1, i) = SubSeq(s, 1, i)
    <3>1. <<r>> \in Seq(Records)
      OBVIOUS
    <3> QED
      BY <2>1, <3>1, SubSeqOfConcat1
  <2>3. /\ EndsOf(t)[i] = Len(Encodings(SubSeq(t, 1, i)))
        /\ EndsOf(s)[i] = Len(Encodings(SubSeq(s, 1, i)))
    BY <2>1, EndsOfType
  <2> QED
    BY <1>1, <2>2, <2>3, Zenon
<1>5. EndsOf(t)[n + 1] = last
  <2>1. n + 1 \in 1..Len(t) /\ SubSeq(t, 1, n + 1) = t
    BY <1>1, SubSeqFull
  <2> QED
    BY <1>2, <2>1, EndsOfType
<1>6. EndsOf(t) = Append(EndsOf(s), last)
  <2>1. PICK u \in Seq(Nat) :
          /\ u = Append(EndsOf(s), last) /\ Len(u) = n + 1
          /\ (\A i \in 1..n : u[i] = EndsOf(s)[i]) /\ u[n + 1] = last
    BY <1>3, AppendProperties
  <2>2. \A i \in 1..(n + 1) : EndsOf(t)[i] = u[i]
    BY <1>4, <1>5, <2>1
  <2> QED
    BY <1>3, <2>1, <2>2, SeqEqual
<1> QED
  BY <1>1, <1>2, <1>6

-----------------------------------------------------------------------------
(* A run cut in two (client.go, packer.split).                             *)

\* The first n elements of a sequence.
LEMMA PrefixOf ==
    ASSUME NEW S, NEW s \in Seq(S), NEW n \in Nat, n <= Len(s)
    PROVE  /\ SubSeq(s, 1, n) \in Seq(S) /\ Len(SubSeq(s, 1, n)) = n
           /\ \A i \in 1..n : SubSeq(s, 1, n)[i] = s[i]
<1>1. \A i \in 1..n : s[i] \in S
  BY ElementOfSeq
<1>2. /\ SubSeq(s, 1, n) \in Seq(S)
      /\ Len(SubSeq(s, 1, n)) = IF 1 <= n THEN n - 1 + 1 ELSE 0
      /\ \A i \in 1..(n - 1 + 1) : SubSeq(s, 1, n)[i] = s[1 + i - 1]
  BY <1>1, SubSeqProperties
<1>3. n - 1 + 1 = n /\ \A i \in 1..n : 1 + i - 1 = i
  OBVIOUS
<1>4. Len(SubSeq(s, 1, n)) = n
  BY <1>2
<1>5. \A i \in 1..n : SubSeq(s, 1, n)[i] = s[i]
  BY <1>2, <1>3, Zenon
<1> QED
  BY <1>2, <1>4, <1>5

\* The two parts of a run of records.
LEMMA CutRun ==
    ASSUME NEW s \in Seq(Records), NEW k \in 1..(Len(s) - 1)
    PROVE  \E l \in Seq(Records), r \in Seq(Records) :
             /\ l = SubSeq(s, 1, k) /\ r = SubSeq(s, k + 1, Len(s)) /\ s = l \o r
             /\ l # <<>> /\ r # <<>> /\ Len(l) = k /\ Len(r) = Len(s) - k
<1>1. PICK n \in Nat : n = Len(s) /\ k \in 1..(n - 1) /\ \A i \in 1..n : s[i] \in Records
  BY LenProperties, ElementOfSeq
<1>2. /\ SubSeq(s, 1, k) \in Seq(Records) /\ Len(SubSeq(s, 1, k)) = k
      /\ SubSeq(s, k + 1, n) \in Seq(Records) /\ Len(SubSeq(s, k + 1, n)) = n - k
  BY <1>1, SubSeqProperties
<1>3. SubSeq(s, 1, k) \o SubSeq(s, k + 1, n) = SubSeq(s, 1, n)
  BY <1>1, ConcatAdjacentSubSeq
<1>4. SubSeq(s, 1, n) = s
  BY <1>1, SubSeqFull
<1>5. SubSeq(s, 1, k) # <<>> /\ SubSeq(s, k + 1, n) # <<>>
  <2>1. Len(SubSeq(s, 1, k)) # 0 /\ Len(SubSeq(s, k + 1, n)) # 0
    BY <1>1, <1>2
  <2> QED
    BY <2>1, EmptySeq
<1> QED
  BY <1>1, <1>2, <1>3, <1>4, <1>5, Zenon

\* The prefixes of a concatenation.
LEMMA PrefixOfConcat ==
    ASSUME NEW S, NEW l \in Seq(S), NEW r \in Seq(S), r # <<>>
    PROVE  /\ SubSeq(l \o r, 1, Len(l)) = l
           /\ SubSeq(l \o r, Len(l) + 1, Len(l \o r)) = r
           /\ \A i \in 1..Len(r) : SubSeq(l \o r, 1, Len(l) + i) = l \o SubSeq(r, 1, i)
<1>1. PICK a \in Nat, b \in Nat, s \in Seq(S) :
        /\ a = Len(l) /\ b = Len(r) /\ b # 0 /\ s = l \o r /\ Len(s) = a + b
        /\ \A i \in 1..(a + b) : s[i] = IF i <= a THEN l[i] ELSE r[i - a]
  <2>1. Len(l) \in Nat /\ Len(r) \in Nat /\ Len(r) # 0
    BY LenProperties, EmptySeq
  <2>2. /\ l \o r \in Seq(S) /\ Len(l \o r) = Len(l) + Len(r)
        /\ \A i \in 1..(Len(l) + Len(r)) : (l \o r)[i] = IF i <= Len(l) THEN l[i] ELSE r[i - Len(l)]
    BY ConcatProperties
  <2> QED
    BY <2>1, <2>2, Zenon
<1>2. \A i \in 1..(a + b) : s[i] \in S
  BY <1>1, ElementOfSeq
<1>3. SubSeq(s, 1, a) = l
  <2>1. /\ SubSeq(s, 1, a) \in Seq(S) /\ Len(SubSeq(s, 1, a)) = a
        /\ \A i \in 1..a : SubSeq(s, 1, a)[i] = s[i]
    BY <1>1, <1>2, SubSeqProperties
  <2>2. \A i \in 1..a : SubSeq(s, 1, a)[i] = l[i]
    BY <1>1, <2>1
  <2> QED
    BY <1>1, <2>1, <2>2, SeqEqual
<1>4. SubSeq(s, a + 1, a + b) = r
  <2>1. /\ SubSeq(s, a + 1, a + b) \in Seq(S) /\ Len(SubSeq(s, a + 1, a + b)) = b
        /\ \A i \in 1..b : SubSeq(s, a + 1, a + b)[i] = s[a + i]
    BY <1>1, <1>2, SubSeqProperties
  <2>2. \A i \in 1..b : SubSeq(s, a + 1, a + b)[i] = r[i]
    <3> SUFFICES ASSUME NEW i \in 1..b PROVE s[a + i] = r[i]
      BY <2>1
    <3>1. a + i \in 1..(a + b) /\ ~(a + i <= a) /\ (a + i) - a = i
      OBVIOUS
    <3> QED
      BY <1>1, <3>1, Zenon
  <2> QED
    BY <1>1, <2>1, <2>2, SeqEqual
<1>5. ASSUME NEW i \in 1..b PROVE SubSeq(s, 1, a + i) = l \o SubSeq(r, 1, i)
  <2>1. PICK p \in Seq(S) : /\ p = SubSeq(s, 1, a + i) /\ Len(p) = a + i
                            /\ \A j \in 1..(a + i) : p[j] = s[j]
    <3>1. a + i \in Nat /\ a + i <= Len(s)
      BY <1>1
    <3> QED
      BY <3>1, PrefixOf, Zenon
  <2>3. PICK q \in Seq(S) : /\ q = SubSeq(r, 1, i) /\ Len(q) = i
                            /\ \A j \in 1..i : q[j] = r[j]
    <3>1. i \in Nat /\ i <= Len(r)
      BY <1>1
    <3>2. /\ SubSeq(r, 1, i) \in Seq(S) /\ Len(SubSeq(r, 1, i)) = i
          /\ \A j \in 1..i : SubSeq(r, 1, i)[j] = r[j]
      BY <3>1, PrefixOf
    <3> QED
      BY <3>2, Zenon
  <2>4. PICK u \in Seq(S) : /\ u = l \o q /\ Len(u) = a + i
                            /\ \A j \in 1..(a + i) : u[j] = IF j <= a THEN l[j] ELSE q[j - a]
    <3>1. /\ l \o q \in Seq(S) /\ Len(l \o q) = Len(l) + Len(q)
          /\ \A j \in 1..(Len(l) + Len(q)) : (l \o q)[j] = IF j <= Len(l) THEN l[j] ELSE q[j - Len(l)]
      BY ConcatProperties
    <3> QED
      BY <1>1, <2>3, <3>1, Zenon
  <2>5. ASSUME NEW j \in 1..(a + i) PROVE p[j] = u[j]
    <3>1. CASE j <= a
      BY <1>1, <2>1, <2>4, <3>1
    <3>2. CASE ~(j <= a)
      <4>1. j - a \in 1..i /\ j \in 1..(a + b)
        BY <3>2
      <4>2. p[j] = s[j] /\ s[j] = r[j - a] /\ u[j] = q[j - a] /\ q[j - a] = r[j - a]
        BY <1>1, <2>1, <2>3, <2>4, <3>2, <4>1, Zenon
      <4> QED
        BY <4>2
    <3> QED
      BY <3>1, <3>2
  <2> QED
    BY <2>1, <2>3, <2>4, <2>5, SeqEqual
<1> QED
  BY <1>1, <1>3, <1>4, <1>5, Zenon

\* A split leaves each half its own bytes and, rebased, its own boundaries.
LEMMA CutEncodings ==
    ASSUME NEW l \in Seq(Records), NEW r \in Seq(Records), l # <<>>, r # <<>>
    PROVE  LET s == l \o r
               cut == EndsOf(s)[Len(l)] IN
           /\ cut \in 1..(Len(Encodings(s)) - 1)
           /\ SubSeq(Encodings(s), 1, cut) = Encodings(l)
           /\ SubSeq(Encodings(s), cut + 1, Len(Encodings(s))) = Encodings(r)
           /\ SubSeq(EndsOf(s), 1, Len(l)) = EndsOf(l)
           /\ Rebased(EndsOf(s), Len(l) + 1, cut) = EndsOf(r)
<1> SUFFICES ASSUME NEW s, s = l \o r, NEW cut, cut = EndsOf(s)[Len(l)]
             PROVE  /\ cut \in 1..(Len(Encodings(s)) - 1)
                    /\ SubSeq(Encodings(s), 1, cut) = Encodings(l)
                    /\ SubSeq(Encodings(s), cut + 1, Len(Encodings(s))) = Encodings(r)
                    /\ SubSeq(EndsOf(s), 1, Len(l)) = EndsOf(l)
                    /\ Rebased(EndsOf(s), Len(l) + 1, cut) = EndsOf(r)
  OBVIOUS
<1>1. PICK a \in Nat, b \in Nat :
        /\ a = Len(l) /\ b = Len(r) /\ a # 0 /\ b # 0 /\ s \in Seq(Records) /\ Len(s) = a + b
  BY LenProperties, ConcatProperties, EmptySeq
<1>2. /\ SubSeq(s, 1, a) = l
      /\ \A i \in 1..b : SubSeq(s, 1, a + i) = l \o SubSeq(r, 1, i)
  BY <1>1, PrefixOfConcat
<1>3. PICK x \in Seq(Byte), y \in Seq(Byte), z \in Seq(Byte) :
        x = Encodings(l) /\ y = Encodings(r) /\ z = Encodings(s) /\ z = x \o y
  BY <1>1, EncodingsType, EncodingsConcat
<1>4. Len(x) \in Nat \ {0} /\ Len(y) \in Nat \ {0} /\ Len(z) = Len(x) + Len(y) /\ y # <<>>
  BY <1>3, EncodingsNotEmpty, ConcatProperties, EmptySeq
<1>5. /\ EndsOf(s) \in Seq(Nat) /\ Len(EndsOf(s)) = a + b
      /\ \A i \in 1..(a + b) : EndsOf(s)[i] = Len(Encodings(SubSeq(s, 1, i)))
  BY <1>1, EndsOfType
<1>6. cut = Len(x)
  <2>1. a \in 1..(a + b)
    BY <1>1
  <2> QED
    BY <1>1, <1>2, <1>3, <1>5, <2>1, Zenon
<1>7. cut \in 1..(Len(z) - 1) /\ SubSeq(z, 1, cut) = x /\ SubSeq(z, cut + 1, Len(z)) = y
  <2>1. SubSeq(z, 1, Len(x)) = x /\ SubSeq(z, Len(x) + 1, Len(z)) = y
    BY <1>3, <1>4, PrefixOfConcat
  <2> QED
    BY <1>4, <1>6, <2>1
<1>8. SubSeq(EndsOf(s), 1, a) = EndsOf(l)
  <2>1. a <= Len(EndsOf(s))
    BY <1>5
  <2>2. PICK p \in Seq(Nat) : /\ p = SubSeq(EndsOf(s), 1, a) /\ Len(p) = a
                              /\ \A i \in 1..a : p[i] = EndsOf(s)[i]
    <3>1. /\ SubSeq(EndsOf(s), 1, a) \in Seq(Nat) /\ Len(SubSeq(EndsOf(s), 1, a)) = a
          /\ \A i \in 1..a : SubSeq(EndsOf(s), 1, a)[i] = EndsOf(s)[i]
      BY <1>5, <2>1, PrefixOf
    <3> QED
      BY <3>1, Zenon
  <2>3. /\ EndsOf(l) \in Seq(Nat) /\ Len(EndsOf(l)) = a
        /\ \A i \in 1..a : EndsOf(l)[i] = Len(Encodings(SubSeq(l, 1, i)))
    BY <1>1, EndsOfType
  <2>4. ASSUME NEW i \in 1..a PROVE p[i] = EndsOf(l)[i]
    <3>1. SubSeq(s, 1, i) = SubSeq(l, 1, i)
      <4>1. 1 \in 1..Len(l) /\ i \in 1..Len(l)
        BY <1>1
      <4> QED
        BY <4>1, SubSeqOfConcat1
    <3>2. i \in 1..(a + b)
      BY <1>1
    <3> QED
      BY <1>5, <2>2, <2>3, <3>1, <3>2, Zenon
  <2> QED
    BY <2>2, <2>3, <2>4, SeqEqual
<1>9. Rebased(EndsOf(s), a + 1, cut) = EndsOf(r)
  <2>1. /\ EndsOf(r) \in Seq(Nat) /\ Len(EndsOf(r)) = b
        /\ \A i \in 1..b : EndsOf(r)[i] = Len(Encodings(SubSeq(r, 1, i)))
        /\ \A i \in 1..b : SubSeq(r, 1, i) \in Seq(Records)
    BY <1>1, EndsOfType
  <2>2. ASSUME NEW i \in 1..b PROVE EndsOf(s)[a + i] - cut = EndsOf(r)[i]
    <3>1. a + i \in 1..(a + b)
      OBVIOUS
    <3>2. PICK w \in Seq(Byte) : w = Encodings(SubSeq(r, 1, i))
      BY <2>1, EncodingsType
    <3>3. Encodings(SubSeq(s, 1, a + i)) = x \o w
      BY <1>2, <1>3, <2>1, <3>2, EncodingsConcat
    <3>4. EndsOf(s)[a + i] = Len(x \o w) /\ EndsOf(r)[i] = Len(w)
      BY <1>5, <2>1, <3>1, <3>2, <3>3, Zenon
    <3>5. Len(x \o w) = Len(x) + Len(w) /\ Len(w) \in Nat
      BY ConcatProperties, LenProperties
    <3> QED
      BY <1>4, <1>6, <3>4, <3>5
  <2>3. Rebased(EndsOf(s), a + 1, cut) = [k \in 1..b |-> EndsOf(s)[a + k] - cut]
    <3>1. Len(EndsOf(s)) - (a + 1) + 1 = b /\ \A k \in 1..b : (a + 1) + k - 1 = a + k
      BY <1>5
    <3> QED
      BY <3>1 DEF Rebased
  <2>4. EndsOf(r) = [k \in 1..b |-> EndsOf(r)[k]]
    BY <2>1
  <2> QED
    BY <2>2, <2>3, <2>4
<1> QED
  BY <1>1, <1>3, <1>7, <1>8, <1>9, Zenon

-----------------------------------------------------------------------------
(* The members of a sequence.                                              *)

\* The empty sequence has none.
LEMMA NoMembers == ToSet(<<>>) = {}
BY DEF ToSet

\* A sequence of one has that one.
LEMMA OneMember == \A x : ToSet(<<x>>) = {x}
<1> SUFFICES ASSUME NEW x PROVE ToSet(<<x>>) = {x}
  OBVIOUS
<1>1. DOMAIN <<x>> = {1} /\ <<x>>[1] = x
  OBVIOUS
<1> QED
  BY <1>1 DEF ToSet

\* The members are what the indices give, and of the elements' type.
LEMMA MembersBy ==
    ASSUME NEW S, NEW s \in Seq(S)
    PROVE  ToSet(s) = {s[i] : i \in 1..Len(s)} /\ \A x \in ToSet(s) : x \in S
<1>1. DOMAIN s = 1..Len(s) /\ \A i \in 1..Len(s) : s[i] \in S
  BY ElementOfSeq
<1> QED
  BY <1>1 DEF ToSet

\* Two sequences, one after the other.
LEMMA MembersOfConcat ==
    ASSUME NEW S, NEW s \in Seq(S), NEW t \in Seq(S)
    PROVE  s \o t \in Seq(S) /\ ToSet(s \o t) = ToSet(s) \cup ToSet(t)
<1>1. PICK a \in Nat, b \in Nat, u \in Seq(S) :
        /\ a = Len(s) /\ b = Len(t) /\ u = s \o t /\ Len(u) = a + b
        /\ \A i \in 1..(a + b) : u[i] = IF i <= a THEN s[i] ELSE t[i - a]
  <2>1. Len(s) \in Nat /\ Len(t) \in Nat
    BY LenProperties
  <2>2. /\ s \o t \in Seq(S) /\ Len(s \o t) = Len(s) + Len(t)
        /\ \A i \in 1..(Len(s) + Len(t)) : (s \o t)[i] = IF i <= Len(s) THEN s[i] ELSE t[i - Len(s)]
    BY ConcatProperties
  <2> QED
    BY <2>1, <2>2, Zenon
<1>2. ToSet(u) = {u[i] : i \in 1..(a + b)} /\ ToSet(s) = {s[i] : i \in 1..a} /\ ToSet(t) = {t[i] : i \in 1..b}
  <2>1. /\ ToSet(u) = {u[i] : i \in 1..Len(u)} /\ ToSet(s) = {s[i] : i \in 1..Len(s)}
        /\ ToSet(t) = {t[i] : i \in 1..Len(t)}
    BY MembersBy
  <2> QED
    BY <1>1, <2>1, Zenon
<1>3. ASSUME NEW i \in 1..(a + b) PROVE u[i] \in ToSet(s) \cup ToSet(t)
  <2>1. CASE i <= a
    BY <1>1, <1>2, <2>1
  <2>2. CASE ~(i <= a)
    <3>1. i - a \in 1..b /\ u[i] = t[i - a]
      BY <1>1, <2>2
    <3> QED
      BY <1>2, <3>1
  <2> QED
    BY <2>1, <2>2
<1>4. ASSUME NEW i \in 1..a PROVE s[i] \in ToSet(u)
  <2>1. i \in 1..(a + b) /\ u[i] = s[i]
    BY <1>1
  <2> QED
    BY <1>2, <2>1
<1>5. ASSUME NEW i \in 1..b PROVE t[i] \in ToSet(u)
  <2>1. i + a \in 1..(a + b) /\ ~(i + a <= a) /\ (i + a) - a = i
    BY <1>1
  <2>2. u[i + a] = t[i]
    BY <1>1, <2>1, Zenon
  <2> QED
    BY <1>2, <2>1, <2>2
<1>6. ToSet(u) = ToSet(s) \cup ToSet(t)
  <2>1. ToSet(u) \subseteq ToSet(s) \cup ToSet(t)
    BY <1>2, <1>3, Zenon
  <2>2. ToSet(s) \subseteq ToSet(u) /\ ToSet(t) \subseteq ToSet(u)
    BY <1>2, <1>4, <1>5, Zenon
  <2> QED
    BY <2>1, <2>2, Zenon
<1> QED
  BY <1>1, <1>6, Zenon

\* A sequence and one more.
LEMMA MembersOfAppend ==
    ASSUME NEW S, NEW s \in Seq(S), NEW x \in S
    PROVE  Append(s, x) \in Seq(S) /\ ToSet(Append(s, x)) = ToSet(s) \cup {x}
<1>1. <<x>> \in Seq(S) /\ Append(s, x) = s \o <<x>>
  BY AppendIsConcat
<1>2. ToSet(<<x>>) = {x}
  BY OneMember
<1>3. s \o <<x>> \in Seq(S) /\ ToSet(s \o <<x>>) = ToSet(s) \cup ToSet(<<x>>)
  BY <1>1, MembersOfConcat
<1> QED
  BY <1>1, <1>2, <1>3, Zenon

\* The next of a queue, and the rest of it.
LEMMA MembersOfRest ==
    ASSUME NEW S, NEW s \in Seq(S), s # <<>>
    PROVE  /\ Head(s) \in S /\ Tail(s) \in Seq(S) /\ ToSet(s) = {Head(s)} \cup ToSet(Tail(s))
           /\ Len(s) \in Nat \ {0} /\ Len(Tail(s)) = Len(s) - 1
           /\ \A i \in 1..(Len(s) - 1) : Tail(s)[i] = s[i + 1]
           /\ Head(s) = s[1]
<1>1. /\ Head(s) \in S /\ Tail(s) \in Seq(S) /\ Len(Tail(s)) = Len(s) - 1
      /\ \A i \in 1..Len(Tail(s)) : Tail(s)[i] = s[i + 1]
  BY HeadTailProperties
<1>2. Len(s) \in Nat \ {0}
  BY EmptySeq
<1>3. Head(s) = s[1]
  OBVIOUS
<1>4. PICK n \in Nat \ {0} : n = Len(s)
  BY <1>2
<1>5. ToSet(s) = {s[i] : i \in 1..n} /\ ToSet(Tail(s)) = {Tail(s)[i] : i \in 1..(n - 1)}
  BY <1>1, <1>4, MembersBy, Zenon
<1>6. ASSUME NEW i \in 1..n PROVE s[i] \in {Head(s)} \cup ToSet(Tail(s))
  <2>1. CASE i = 1
    BY <1>3, <2>1
  <2>2. CASE i # 1
    <3>1. i - 1 \in 1..(n - 1) /\ (i - 1) + 1 = i
      BY <2>2
    <3>2. Tail(s)[i - 1] = s[i]
      BY <1>1, <1>4, <3>1, Zenon
    <3> QED
      BY <1>5, <3>1, <3>2
  <2> QED
    BY <2>1, <2>2
<1>7. ASSUME NEW i \in 1..(n - 1) PROVE Tail(s)[i] \in ToSet(s)
  <2>1. i + 1 \in 1..n /\ Tail(s)[i] = s[i + 1]
    BY <1>1, <1>4
  <2> QED
    BY <1>5, <2>1
<1>8. Head(s) \in ToSet(s)
  BY <1>3, <1>5
<1> QED
  BY <1>1, <1>2, <1>3, <1>4, <1>5, <1>6, <1>7, <1>8

\* A sequence of two.
LEMMA TwoMembers ==
    ASSUME NEW S, NEW x \in S, NEW y \in S
    PROVE  <<x, y>> \in Seq(S) /\ ToSet(<<x, y>>) = {x, y}
<1>1. DOMAIN <<x, y>> = {1, 2} /\ <<x, y>>[1] = x /\ <<x, y>>[2] = y
  OBVIOUS
<1>2. <<x, y>> \in Seq(S)
  OBVIOUS
<1> QED
  BY <1>1, <1>2 DEF ToSet

-----------------------------------------------------------------------------
(* Slices of slices.                                                       *)

\* A slice cut in two (client.go, packer.split).
LEMMA PartOfSlice ==
    ASSUME NEW S, NEW c \in Seq(S), NEW lo \in Nat, NEW hi \in Nat, NEW e \in Seq(S), e # <<>>,
           e = IF hi <= Len(c) THEN SubSeq(c, lo + 1, hi) ELSE <<>>
    PROVE  /\ hi <= Len(c)
           /\ \A k \in 1..(Len(e) - 1) :
                /\ lo + k <= Len(c) /\ SubSeq(c, lo + 1, lo + k) = SubSeq(e, 1, k)
                /\ SubSeq(c, (lo + k) + 1, hi) = SubSeq(e, k + 1, Len(e))
<1>1. hi <= Len(c) /\ e = SubSeq(c, lo + 1, hi) /\ Len(c) \in Nat
  BY LenProperties
<1>2. PICK n \in Nat \ {0} : n = Len(e)
  BY EmptySeq
<1>3. \A i \in (lo + 1)..hi : c[i] \in S
  BY <1>1, ElementOfSeq
<1>4. Len(e) = IF lo + 1 <= hi THEN hi - (lo + 1) + 1 ELSE 0
  BY <1>1, <1>3, SubSeqProperties
<1>5. hi = lo + n
  BY <1>2, <1>4
<1>6. ASSUME NEW a \in 1..n, NEW b \in 1..n
      PROVE  SubSeq(c, lo + a, lo + b) = SubSeq(e, a, b)
  <2>1. lo + 1 \in 1..Len(c) /\ hi \in 1..Len(c)
    BY <1>1, <1>5
  <2>2. a \in 1..(hi - (lo + 1) + 1) /\ b \in 1..(hi - (lo + 1) + 1)
    BY <1>5
  <2>3. SubSeq(SubSeq(c, lo + 1, hi), a, b) = SubSeq(c, (lo + 1) + a - 1, (lo + 1) + b - 1)
    BY <2>1, <2>2, SubSeqOfSubSeq
  <2>4. (lo + 1) + a - 1 = lo + a /\ (lo + 1) + b - 1 = lo + b
    OBVIOUS
  <2> QED
    BY <1>1, <2>3, <2>4
<1>7. ASSUME NEW k \in 1..(n - 1)
      PROVE  /\ lo + k <= Len(c) /\ SubSeq(c, lo + 1, lo + k) = SubSeq(e, 1, k)
             /\ SubSeq(c, (lo + k) + 1, hi) = SubSeq(e, k + 1, n)
  <2>1. 1 \in 1..n /\ k \in 1..n /\ k + 1 \in 1..n /\ n \in 1..n /\ lo + (k + 1) = (lo + k) + 1
    OBVIOUS
  <2>2. lo + k <= Len(c)
    BY <1>1, <1>5
  <2> QED
    BY <1>5, <1>6, <2>1, <2>2
<1> QED
  BY <1>1, <1>2, <1>7

-----------------------------------------------------------------------------
(* The invariant.                                                          *)

Item == [cell : Cells, record : Records]
Extent == [cell : Cells, lo : Nat, hi : Nat]
Run == Seq(Records) \ {<<>>}
Batch == [raw : Extent, ends : Extent, own : Cells, bufs : Cells \cup {Nil}, records : Run]
Sent == [own : Cells, records : Run]

\* The heap and the pools, the callers, and the batches on their way.
HeapType ==
    /\ identity \in BOOLEAN
    /\ bytes \in [Cells -> Seq(Byte)] /\ ends \in [Cells -> Seq(Nat)]
    /\ recordBufs \in [Cells -> Nat] /\ batchBufs \in [Cells -> Nat]
CallType ==
    /\ call \in [Records -> {"idle", "encoded", "refused", "returned"}]
    /\ held \in [Records -> Cells \cup {Nil}]
    /\ \A r \in Records : held[r] # Nil <=> call[r] \in {"encoded", "refused"}
    /\ queue \in Seq(Item) /\ received \in Seq(Item) /\ Len(received) <= 1
BatchType ==
    /\ todo \in Seq(Batch) /\ jobs \in Seq(Batch)
    /\ job \in [Workers -> Seq(Batch)] /\ stack \in [Workers -> Seq(Batch)]
    /\ \A w \in Workers : Len(job[w]) <= 1 /\ (stack[w] # <<>> => job[w] # <<>>)
    /\ writing \subseteq Sent

\* What the sender has accumulated is whole records.
Accumulated == carried \in Seq(Records) /\ buf = Encodings(carried) /\ bounds = EndsOf(carried)

\* What is queued, and the cells a batch reads or may give back.
Items == ToSet(queue) \cup ToSet(received)
Reads(b) == {b.raw.cell, b.ends.cell, b.own}
Uses(b) == Reads(b) \cup {b.bufs}

\* A record's buffer has one holder, and no batch uses it.
RecordsApart ==
    /\ \A r, s \in Records : held[r] # Nil /\ held[r] = held[s] => r = s
    /\ \A r \in Records : \A q \in Items : held[r] # q.cell
    /\ \A i, j \in DOMAIN queue : queue[i].cell = queue[j].cell => i = j
    /\ \A p \in ToSet(received) : \A q \in ToSet(queue) : p.cell # q.cell
    /\ \A b \in Batches : \A q \in Items : q.cell \notin Uses(b)
    /\ \A b \in Batches : \A r \in Records : held[r] # Nil => held[r] \notin Uses(b)
    /\ \A x \in writing : (\A q \in Items : q.cell # x.own) /\ (\A r \in Records : held[r] # x.own)

\* Neither of two batches uses the set of buffers the other may release.
Strangers(b, d) ==
    /\ b.bufs # Nil => b.bufs \notin Uses(d)
    /\ d.bufs # Nil => d.bufs \notin Uses(b)
Apart(B, D) == \A b \in B : \A d \in D : Strangers(b, d)

\* Batches at different places are strangers: who releases a set is the last to use it.
At(w) == ToSet(job[w]) \cup ToSet(stack[w])
BatchesApart ==
    /\ \A b \in ToSet(todo) : b.bufs # Nil => Len(todo) = 1
    /\ Apart(ToSet(todo), ToSet(jobs))
    /\ \A i, j \in DOMAIN jobs : i # j => Strangers(jobs[i], jobs[j])
    /\ \A w \in Workers : Apart(ToSet(todo), At(w)) /\ Apart(ToSet(jobs), At(w))
    /\ \A v, w \in Workers : v # w => Apart(At(v), At(w))

\* No body is framed in a set of buffers.
BodiesApart ==
    \A b \in Batches : (\A d \in Batches : b.bufs # d.own) /\ (\A x \in writing : b.bufs # x.own)

\* What is copied or sent is what was encoded.
HeldIntact == \A r \in Records : held[r] # Nil => bytes[held[r]] = Encoding(r)
Intact(b) ==
    /\ Raw(b) = Encodings(b.records) /\ Ends(b) = EndsOf(b.records)
    /\ Body(b) = Frame(Encodings(b.records))
BatchesIntact ==
    /\ \A b \in Batches : Intact(b)
    /\ \A x \in writing : bytes[x.own] = Frame(Encodings(x.records))

BuffersInv ==
    /\ HeapType /\ CallType /\ BatchType /\ Accumulated
    /\ OneOwner /\ RecordsApart /\ BatchesApart /\ BodiesApart
    /\ HeldIntact /\ QueuedIntact /\ BatchesIntact

-----------------------------------------------------------------------------
(* What is referred to.                                                    *)

RefersTo(c) ==
    \/ \E r \in Records : held[r] = c
    \/ \E q \in Items : q.cell = c
    \/ \E b \in Batches : c \in Uses(b)
    \/ \E x \in writing : x.own = c

\* What is referred to is held, queued, used by a batch or being written.
LEMMA ReferencedIs == CallType => \A c : c \in Referenced <=> RefersTo(c)
<1> SUFFICES ASSUME CallType, NEW c PROVE c \in Referenced <=> RefersTo(c)
  OBVIOUS
<1>1. ToSet(queue \o received) = Items
  BY MembersOfConcat DEF CallType, Items
<1>2. \A b : c \in Uses(b) <=> c \in {b.raw.cell, b.ends.cell, b.own, b.bufs}
  BY DEF Uses, Reads
<1>3. c \in {held[r] : r \in Records} <=> \E r \in Records : held[r] = c
  OBVIOUS
<1>4. c \in {q.cell : q \in Items} <=> \E q \in Items : q.cell = c
  OBVIOUS
<1>5. c \in UNION {{b.raw.cell, b.ends.cell, b.own, b.bufs} : b \in Batches}
      <=> \E b \in Batches : c \in Uses(b)
  BY <1>2, Zenon
<1>6. c \in {x.own : x \in writing} <=> \E x \in writing : x.own = c
  OBVIOUS
<1>7. c \in Referenced <=> \/ c \in {held[r] : r \in Records}
                           \/ c \in {q.cell : q \in Items}
                           \/ c \in UNION {{b.raw.cell, b.ends.cell, b.own, b.bufs} : b \in Batches}
                           \/ c \in {x.own : x \in writing}
  BY <1>1, Zenon DEF Referenced
<1> QED
  BY <1>3, <1>4, <1>5, <1>6, <1>7, Zenon DEF RefersTo

\* The same after a step.
LEMMA ReferencedNext == CallType' => \A c : c \in Referenced' <=> RefersTo(c)'
<1> SUFFICES ASSUME CallType', NEW c PROVE c \in Referenced' <=> RefersTo(c)'
  OBVIOUS
<1>1. ToSet(queue' \o received') = Items'
  BY MembersOfConcat DEF CallType, Items
<1>2. \A b : c \in Uses(b) <=> c \in {b.raw.cell, b.ends.cell, b.own, b.bufs}
  BY DEF Uses, Reads
<1>3. c \in {held'[r] : r \in Records} <=> \E r \in Records : held'[r] = c
  OBVIOUS
<1>4. c \in {q.cell : q \in Items'} <=> \E q \in Items' : q.cell = c
  OBVIOUS
<1>5. c \in UNION {{b.raw.cell, b.ends.cell, b.own, b.bufs} : b \in Batches'}
      <=> \E b \in Batches' : c \in Uses(b)
  BY <1>2, Zenon
<1>6. c \in {x.own : x \in writing'} <=> \E x \in writing' : x.own = c
  OBVIOUS
<1>7. c \in Referenced' <=> \/ c \in {held'[r] : r \in Records}
                           \/ c \in {q.cell : q \in Items'}
                           \/ c \in UNION {{b.raw.cell, b.ends.cell, b.own, b.bufs} : b \in Batches'}
                           \/ c \in {x.own : x \in writing'}
  BY <1>1, Zenon DEF Referenced
<1> QED
  BY <1>3, <1>4, <1>5, <1>6, <1>7, Zenon DEF RefersTo

\* Every batch is one.
LEMMA BatchesTyped == BatchType => \A b \in Batches : b \in Batch
<1> SUFFICES ASSUME BatchType PROVE \A b \in Batches : b \in Batch
  OBVIOUS
<1>1. \A b \in ToSet(todo) \cup ToSet(jobs) : b \in Batch
  BY MembersBy DEF BatchType
<1>2. ASSUME NEW w \in Workers PROVE \A b \in ToSet(job[w]) \cup ToSet(stack[w]) : b \in Batch
  <2>1. job[w] \in Seq(Batch) /\ stack[w] \in Seq(Batch)
    BY DEF BatchType
  <2> QED
    BY <2>1, MembersBy
<1> QED
  BY <1>1, <1>2 DEF Batches

\* A batch's fields.
LEMMA BatchFields ==
    ASSUME NEW b \in Batch
    PROVE  /\ b.raw \in Extent /\ b.raw.cell \in Cells /\ b.raw.lo \in Nat /\ b.raw.hi \in Nat
           /\ b.ends \in Extent /\ b.ends.cell \in Cells /\ b.ends.lo \in Nat /\ b.ends.hi \in Nat
           /\ b.own \in Cells /\ b.bufs \in Cells \cup {Nil}
           /\ b.records \in Seq(Records) /\ b.records # <<>>
BY DEF Batch, Extent, Run

-----------------------------------------------------------------------------
(* The pools.                                                              *)

Fit(p, q, R) == \A c \in Cells : p[c] + q[c] <= 1 /\ (p[c] + q[c] > 0 => c \notin R)

\* OneOwner, of the pools and what is referred to.
LEMMA FitIsOneOwner == OneOwner <=> Fit(recordBufs, batchBufs, Referenced)
BY DEF OneOwner, Fit, Pooled

\* The same after a step.
LEMMA FitIsOneOwnerNext == OneOwner' <=> Fit(recordBufs', batchBufs', Referenced')
BY DEF OneOwner, Fit, Pooled

\* The two pools are alike.
LEMMA FitBothWays ==
    ASSUME NEW p \in [Cells -> Nat], NEW q \in [Cells -> Nat], NEW R, Fit(p, q, R)
    PROVE  Fit(q, p, R)
<1>1. \A c \in Cells : p[c] + q[c] = q[c] + p[c]
  OBVIOUS
<1> QED
  BY <1>1 DEF Fit

\* A buffer taken from its pool, or allocated, may be used from then on.
LEMMA FitTaken ==
    ASSUME NEW p \in [Cells -> Nat], NEW q \in [Cells -> Nat], NEW R, Fit(p, q, R), NEW R2,
           NEW c \in Cells, p[c] > 0 \/ p[c] + q[c] = 0,
           \A d \in Cells : d \in R2 => d \in R \/ d = c \/ p[d] + q[d] = 0
    PROVE  Get(p, c) \in [Cells -> Nat] /\ Fit(Get(p, c), q, R2) /\ Get(p, c)[c] + q[c] = 0
<1>1. Get(p, c) \in [Cells -> Nat]
  BY DEF Get
<1>2. \A d \in Cells : Get(p, c)[d] = IF d = c /\ p[c] > 0 THEN p[c] - 1 ELSE p[d]
  BY DEF Get
<1>3. Get(p, c)[c] + q[c] = 0
  BY <1>2 DEF Fit
<1>4. ASSUME NEW d \in Cells
      PROVE  Get(p, c)[d] + q[d] <= 1 /\ (Get(p, c)[d] + q[d] > 0 => d \notin R2)
  <2>1. CASE d = c
    BY <1>3, <2>1
  <2>2. CASE d # c
    BY <1>2, <2>2 DEF Fit
  <2> QED
    BY <2>1, <2>2
<1> HIDE DEF Get
<1> QED
  BY <1>1, <1>3, <1>4 DEF Fit

\* A buffer that nothing uses any more may be given to a pool, once.
LEMMA FitGiven ==
    ASSUME NEW p \in [Cells -> Nat], NEW q \in [Cells -> Nat], NEW R, Fit(p, q, R), NEW R2,
           NEW c \in Cells, p[c] + q[c] = 0, c \notin R2, \A d \in Cells : d \in R2 => d \in R,
           NEW p2 \in Puts(p, c)
    PROVE  p2 \in [Cells -> Nat] /\ Fit(p2, q, R2)
<1>1. CASE p2 = p
  BY <1>1 DEF Fit
<1>2. CASE p2 = [p EXCEPT ![c] = @ + 1]
  <2>1. p2 \in [Cells -> Nat] /\ \A d \in Cells : p2[d] = IF d = c THEN p[c] + 1 ELSE p[d]
    BY <1>2
  <2> QED
    BY <2>1 DEF Fit
<1> QED
  BY <1>1, <1>2 DEF Puts

-----------------------------------------------------------------------------
(* The heap.                                                               *)

\* A step writes no cell that something reads before and after it.
Untouched ==
    \A c \in Cells : c \in Referenced /\ c \in Referenced' => bytes'[c] = bytes[c] /\ ends'[c] = ends[c]

\* What a step leaves in the heap, when it writes only what nothing refers to.
LEMMA HeapKeeps ==
    ASSUME NEW m \in [Cells -> Seq(Byte)], NEW e \in [Cells -> Seq(Nat)], Heap(m, e),
           \A c \in Cells : c \in Referenced => m[c] = bytes[c] /\ e[c] = ends[c]
    PROVE  /\ Untouched
           /\ bytes' \in [Cells -> Seq(Byte)] /\ ends' \in [Cells -> Seq(Nat)]
           /\ \A c \in Cells : c \in Referenced' => bytes'[c] = m[c] /\ ends'[c] = e[c]
<1>1. <<>> \in Seq(Byte) /\ <<>> \in Seq(Nat)
  BY EmptySeq
<1>2. \A c \in Cells : c \in Referenced' => bytes'[c] = m[c] /\ ends'[c] = e[c]
  BY DEF Heap
<1>3. bytes' \in [Cells -> Seq(Byte)] /\ ends' \in [Cells -> Seq(Nat)]
  BY <1>1 DEF Heap
<1> QED
  BY <1>2, <1>3 DEF Untouched

\* A buffer that is handed out is not in use.
LEMMA Handed ==
    ASSUME HeapType, OneOwner, NEW pool, pool = recordBufs \/ pool = batchBufs,
           NEW c \in Gettable(pool)
    PROVE  /\ c \in Cells /\ c \notin Referenced
           /\ pool[c] > 0 \/ recordBufs[c] + batchBufs[c] = 0
<1>1. CASE c \in Cells /\ pool[c] > 0
  <2>1. recordBufs[c] \in Nat /\ batchBufs[c] \in Nat
    BY <1>1 DEF HeapType
  <2>2. Pooled(c)
    BY <1>1, <2>1 DEF Pooled
  <2> QED
    BY <1>1, <2>2 DEF OneOwner
<1>2. CASE c \in Fresh(Unused)
  <2>1. c \in Cells /\ c \notin Referenced /\ ~Pooled(c)
    BY <1>2 DEF Fresh, Unused
  <2>2. recordBufs[c] \in Nat /\ batchBufs[c] \in Nat
    BY <2>1 DEF HeapType
  <2> QED
    BY <2>1, <2>2 DEF Pooled
<1> QED
  BY <1>1, <1>2 DEF Gettable

\* A cell that is allocated is in no pool and in no use.
LEMMA Allocated ==
    ASSUME HeapType, NEW S, NEW c \in Fresh(S), S \subseteq Unused
    PROVE  c \in S /\ c \in Cells /\ c \notin Referenced /\ recordBufs[c] + batchBufs[c] = 0
<1>1. c \in S /\ c \in Cells /\ c \notin Referenced /\ ~Pooled(c)
  BY DEF Fresh, Unused
<1>2. recordBufs[c] \in Nat /\ batchBufs[c] \in Nat
  BY <1>1 DEF HeapType
<1> QED
  BY <1>1, <1>2 DEF Pooled

-----------------------------------------------------------------------------
(* What the steps of the others leave as it is.                            *)

\* A batch whose cells are not written stays intact.
LEMMA StillIntact ==
    ASSUME Untouched, identity' = identity, NEW b \in Batch, Intact(b),
           \A c \in Uses(b) : c \in Referenced /\ c \in Referenced'
    PROVE  Intact(b)'
<1>1. b.raw.cell \in Cells /\ b.ends.cell \in Cells /\ b.own \in Cells
  BY BatchFields
<1>2. b.raw.cell \in Uses(b) /\ b.ends.cell \in Uses(b) /\ b.own \in Uses(b)
  BY DEF Uses, Reads
<1>3. /\ bytes'[b.raw.cell] = bytes[b.raw.cell] /\ ends'[b.ends.cell] = ends[b.ends.cell]
      /\ bytes'[b.own] = bytes[b.own]
  BY <1>1, <1>2 DEF Untouched
<1>4. Raw(b)' = Raw(b) /\ Ends(b)' = Ends(b) /\ Body(b)' = Body(b)
  BY <1>3 DEF Raw, Ends, Body, In
<1>5. Frame(Encodings(b.records))' = Frame(Encodings(b.records))
  BY DEF Frame
<1> QED
  BY <1>4, <1>5 DEF Intact

\* A record's steps, as the batches see them.
LEMMA RecordSide ==
    ASSUME BuffersInv, CallType', Untouched,
           identity' = identity, todo' = todo, jobs' = jobs, job' = job, stack' = stack,
           writing' = writing
    PROVE  BatchType' /\ BatchesApart' /\ BodiesApart' /\ BatchesIntact' /\ Batches' = Batches
<1>1. BatchType'
  BY DEF BuffersInv, BatchType
<1>2. Batches' = Batches
  BY DEF Batches
<1>3. BatchesApart'
  BY DEF BuffersInv, BatchesApart, Apart, Strangers, At, Uses, Reads
<1>4. BodiesApart'
  BY <1>2 DEF BuffersInv, BodiesApart
<1>5. ASSUME NEW b \in Batches PROVE Intact(b)'
  <2>1. b \in Batch /\ Intact(b)
    BY BatchesTyped DEF BuffersInv, BatchesIntact
  <2>2. \A c \in Uses(b) : RefersTo(c) /\ RefersTo(c)'
    BY <1>2 DEF RefersTo
  <2>3. \A c \in Uses(b) : c \in Referenced /\ c \in Referenced'
    BY <2>2, ReferencedIs, ReferencedNext DEF BuffersInv
  <2> QED
    BY <2>1, <2>3, StillIntact
<1>6. ASSUME NEW x \in writing PROVE bytes'[x.own] = Frame(Encodings(x.records))'
  <2>1. x.own \in Cells
    BY DEF BuffersInv, BatchType, Sent
  <2>2. RefersTo(x.own) /\ RefersTo(x.own)'
    BY DEF RefersTo
  <2>3. bytes'[x.own] = bytes[x.own]
    BY <2>1, <2>2, ReferencedIs, ReferencedNext DEF BuffersInv, Untouched
  <2>4. bytes[x.own] = Frame(Encodings(x.records))
    BY DEF BuffersInv, BatchesIntact
  <2> QED
    BY <2>3, <2>4 DEF Frame
<1>7. BatchesIntact'
  BY <1>2, <1>5, <1>6 DEF BatchesIntact
<1> QED
  BY <1>1, <1>2, <1>3, <1>4, <1>7

\* A cell that a batch used before the step, or that nothing did.
Old(c) == c = Nil \/ (\E b \in Batches : c \in Uses(b)) \/ c \notin Referenced

\* A batch's steps, as the records see them.
LEMMA BatchSide ==
    ASSUME BuffersInv, Untouched, BatchType',
           call' = call, held' = held, queue' = queue, received' = received,
           \A b \in Batches' : \A c \in Uses(b) : Old(c),
           \A x \in writing' : x \in writing \/ \E b \in Batches : x.own = b.own
    PROVE  CallType' /\ RecordsApart' /\ HeldIntact' /\ QueuedIntact'
<1>1. CallType'
  BY DEF BuffersInv, CallType
<1>2. Items' = Items
  BY DEF Items
<1>3. \A q \in Items : q \in Item /\ q.cell \in Cells /\ RefersTo(q.cell) /\ RefersTo(q.cell)'
  <2>1. \A q \in Items : q \in Item
    BY MembersBy DEF BuffersInv, CallType, Items
  <2> QED
    BY <1>2, <2>1 DEF Item, RefersTo
<1>4. \A r \in Records : held[r] # Nil => held[r] \in Cells /\ RefersTo(held[r]) /\ RefersTo(held[r])'
  BY DEF BuffersInv, CallType, RefersTo
<1>5. /\ \A q \in Items : q.cell \in Referenced /\ q.cell \in Referenced' /\ q.cell # Nil
      /\ \A r \in Records : held[r] # Nil => held[r] \in Referenced /\ held[r] \in Referenced'
  <2>1. Nil \notin Cells
    BY BuffersAssumption DEF Nil
  <2> QED
    BY <1>1, <1>3, <1>4, <2>1, ReferencedIs, ReferencedNext DEF BuffersInv
<1>6. ASSUME NEW b \in Batches', NEW q \in Items PROVE q.cell \notin Uses(b)
  BY <1>5 DEF Old, BuffersInv, RecordsApart
<1>7. ASSUME NEW b \in Batches', NEW r \in Records, held[r] # Nil PROVE held[r] \notin Uses(b)
  BY <1>5, <1>7 DEF Old, BuffersInv, RecordsApart
<1>8. ASSUME NEW x \in writing'
      PROVE  (\A q \in Items : q.cell # x.own) /\ (\A r \in Records : held[r] # x.own)
  <2>1. CASE x \in writing
    BY <2>1 DEF BuffersInv, RecordsApart
  <2>2. CASE \E b \in Batches : x.own = b.own
    <3>1. PICK b \in Batches : x.own = b.own
      BY <2>2
    <3>2. x.own \in Uses(b) /\ x.own \in Cells
      BY <3>1, BatchesTyped, BatchFields DEF Uses, Reads, BuffersInv
    <3>3. x.own # Nil
      BY <3>2, BuffersAssumption DEF Nil
    <3> QED
      BY <3>1, <3>2, <3>3 DEF BuffersInv, RecordsApart
  <2> QED
    BY <2>1, <2>2
<1>9. RecordsApart'
  BY <1>2, <1>6, <1>7, <1>8 DEF BuffersInv, RecordsApart
<1>10. HeldIntact'
  BY <1>4, <1>5 DEF BuffersInv, HeldIntact, Untouched
<1>11. QueuedIntact'
  <2>1. ToSet(queue \o received) = Items /\ ToSet(queue' \o received') = Items
    BY MembersOfConcat DEF BuffersInv, CallType, Items
  <2> QED
    BY <1>3, <1>5, <2>1 DEF BuffersInv, QueuedIntact, Untouched
<1> QED
  BY <1>1, <1>9, <1>10, <1>11

\* A batch's steps, as the other batches see them.
LEMMA BatchesStay ==
    ASSUME BuffersInv, Untouched, CallType', BatchType', identity' = identity,
           \A b \in Batches' : b \in Batches \/ Intact(b)',
           \A x \in writing' : \/ x \in writing
                               \/ \E b \in Batches : x.own = b.own /\ x.records = b.records
    PROVE  BatchesIntact'
<1>1. ASSUME NEW b \in Batches', b \in Batches PROVE Intact(b)'
  <2>1. b \in Batch /\ Intact(b)
    BY <1>1, BatchesTyped DEF BuffersInv, BatchesIntact
  <2>2. \A c \in Uses(b) : RefersTo(c) /\ RefersTo(c)'
    BY <1>1 DEF RefersTo
  <2>3. \A c \in Uses(b) : c \in Referenced /\ c \in Referenced'
    BY <2>2, ReferencedIs, ReferencedNext DEF BuffersInv
  <2> QED
    BY <2>1, <2>3, StillIntact
<1>2. ASSUME NEW x \in writing' PROVE bytes'[x.own] = Frame(Encodings(x.records))'
  <2>1. x.own \in Cells
    BY DEF BatchType, Sent
  <2>2. RefersTo(x.own)'
    BY DEF RefersTo
  <2>3. RefersTo(x.own) /\ bytes[x.own] = Frame(Encodings(x.records))
    <3>1. CASE x \in writing
      BY <3>1 DEF BuffersInv, BatchesIntact, RefersTo
    <3>2. CASE \E b \in Batches : x.own = b.own /\ x.records = b.records
      <4>1. PICK b \in Batches : x.own = b.own /\ x.records = b.records
        BY <3>2
      <4>2. x.own \in Uses(b)
        BY <4>1 DEF Uses, Reads
      <4>3. Intact(b)
        BY DEF BuffersInv, BatchesIntact
      <4> QED
        BY <4>1, <4>2, <4>3 DEF RefersTo, Intact, Body
    <3> QED
      BY <3>1, <3>2
  <2>4. bytes'[x.own] = bytes[x.own]
    BY <2>1, <2>2, <2>3, ReferencedIs, ReferencedNext DEF BuffersInv, Untouched
  <2> QED
    BY <2>3, <2>4 DEF Frame
<1> QED
  BY <1>1, <1>2 DEF BatchesIntact

-----------------------------------------------------------------------------
(* Initially, and when nothing moves.                                      *)

\* The client starts with nothing accepted and both pools empty.
LEMMA InvInit == Init => BuffersInv
<1> SUFFICES ASSUME Init PROVE BuffersInv
  OBVIOUS
<1>1. /\ <<>> \in Seq(Byte) /\ <<>> \in Seq(Nat) /\ <<>> \in Seq(Item) /\ <<>> \in Seq(Batch)
      /\ <<>> \in Seq(Records) /\ Len(<<>>) = 0
  BY EmptySeq
<1>2. Batches = {} /\ Items = {}
  BY NoMembers DEF Init, Batches, Items
<1>3. HeapType /\ CallType /\ BatchType
  BY <1>1 DEF Init, HeapType, CallType, BatchType
<1>4. Accumulated
  BY <1>1, EncodingsEmpty, EndsOfEmpty DEF Init, Accumulated
<1>5. OneOwner
  BY DEF Init, OneOwner, Pooled
<1>6. RecordsApart
  BY <1>2, NoMembers DEF Init, RecordsApart
<1>7. BatchesApart
  BY NoMembers DEF Init, BatchesApart, Apart, At
<1>8. BodiesApart /\ HeldIntact /\ BatchesIntact
  BY <1>2 DEF Init, BodiesApart, HeldIntact, BatchesIntact
<1>9. QueuedIntact
  BY <1>1, <1>2, <1>3, MembersOfConcat DEF CallType, Items, QueuedIntact
<1> QED
  BY <1>3, <1>4, <1>5, <1>6, <1>7, <1>8, <1>9 DEF BuffersInv

-----------------------------------------------------------------------------
(* Enqueue.                                                                *)

\* What the records' cells are before a step.
LEMMA RecordCells ==
    ASSUME BuffersInv
    PROVE  /\ \A q \in Items : q \in Item /\ q.cell \in Cells /\ q.record \in Records
           /\ \A q \in Items : q.cell \in Referenced /\ q.cell # Nil
           /\ \A r \in Records : held[r] # Nil => held[r] \in Cells /\ held[r] \in Referenced
           /\ \A q \in Items : bytes[q.cell] = Encoding(q.record)
           /\ Nil \notin Cells
<1>1. \A q \in Items : q \in Item
  BY MembersBy DEF BuffersInv, CallType, Items
<1>2. \A q \in Items : q.cell \in Cells /\ q.record \in Records /\ RefersTo(q.cell)
  BY <1>1 DEF Item, RefersTo
<1>3. \A r \in Records : held[r] # Nil => held[r] \in Cells /\ RefersTo(held[r])
  BY DEF BuffersInv, CallType, RefersTo
<1>4. Nil \notin Cells
  BY BuffersAssumption DEF Nil
<1>5. ToSet(queue \o received) = Items
  BY MembersOfConcat DEF BuffersInv, CallType, Items
<1> QED
  BY <1>1, <1>2, <1>3, <1>4, <1>5, ReferencedIs DEF BuffersInv, QueuedIntact

\* Enqueue encodes into a buffer nobody else has.
LEMMA EncodeStep ==
    ASSUME BuffersInv, NEW r \in Records, Encode(r)
    PROVE  BuffersInv'
<1>1. PICK c \in Gettable(recordBufs) :
        /\ recordBufs' = Get(recordBufs, c)
        /\ held' = [held EXCEPT ![r] = c]
        /\ \E outcome \in {"encoded", "refused"} : call' = [call EXCEPT ![r] = outcome]
        /\ UNCHANGED <<identity, batchBufs, queue, senderVars, jobs, workerVars>>
        /\ Heap([bytes EXCEPT ![c] = Encoding(r)], ends)
  BY DEF Encode
<1>2. c \in Cells /\ c \notin Referenced /\ (recordBufs[c] > 0 \/ recordBufs[c] + batchBufs[c] = 0)
  BY Handed DEF BuffersInv
<1>3. /\ identity' = identity /\ todo' = todo /\ jobs' = jobs /\ job' = job /\ stack' = stack
      /\ writing' = writing /\ queue' = queue /\ received' = received /\ batchBufs' = batchBufs
      /\ buf' = buf /\ bounds' = bounds /\ carried' = carried
  BY <1>1 DEF senderVars, workerVars
<1>4. call[r] = "idle" /\ held[r] = Nil
  BY DEF Encode, BuffersInv, CallType
<1>5. /\ held' \in [Records -> Cells \cup {Nil}] /\ held'[r] = c
      /\ \A s \in Records : s # r => held'[s] = held[s]
  BY <1>1, <1>2 DEF BuffersInv, CallType
<1>6. CallType'
  <2>1. PICK outcome \in {"encoded", "refused"} : call' = [call EXCEPT ![r] = outcome]
    BY <1>1
  <2>2. /\ call' \in [Records -> {"idle", "encoded", "refused", "returned"}] /\ call'[r] = outcome
        /\ \A s \in Records : s # r => call'[s] = call[s]
    BY <2>1 DEF BuffersInv, CallType
  <2>3. c # Nil
    BY <1>2, BuffersAssumption DEF Nil
  <2>4. \A s \in Records : held'[s] # Nil <=> call'[s] \in {"encoded", "refused"}
    BY <1>5, <2>1, <2>2, <2>3 DEF BuffersInv, CallType
  <2> QED
    BY <1>3, <1>5, <2>2, <2>4 DEF BuffersInv, CallType
<1>7. Items' = Items /\ Batches' = Batches
  BY <1>3 DEF Items, Batches
<1>8. \A d : d \in Referenced' => d \in Referenced \/ d = c
  <2>1. \A d : RefersTo(d)' => RefersTo(d) \/ d = c
    BY <1>3, <1>5, <1>7 DEF RefersTo
  <2> QED
    BY <1>6, <2>1, ReferencedIs, ReferencedNext DEF BuffersInv
<1>9. c \in Referenced'
  BY <1>5, <1>6, ReferencedNext DEF RefersTo
<1>10. /\ Untouched /\ bytes' \in [Cells -> Seq(Byte)] /\ ends' \in [Cells -> Seq(Nat)]
       /\ bytes'[c] = Encoding(r)
  <2> DEFINE m == [bytes EXCEPT ![c] = Encoding(r)]
  <2>1. m \in [Cells -> Seq(Byte)] /\ m[c] = Encoding(r) /\ \A d \in Cells : d # c => m[d] = bytes[d]
    BY <1>2, EncodingType DEF BuffersInv, HeapType
  <2>2. ends \in [Cells -> Seq(Nat)]
    BY DEF BuffersInv, HeapType
  <2>3. Heap(m, ends)
    BY <1>1
  <2> HIDE DEF m
  <2> QED
    BY <1>2, <1>9, <2>1, <2>2, <2>3, HeapKeeps
<1>11. BatchType' /\ BatchesApart' /\ BodiesApart' /\ BatchesIntact'
  BY <1>3, <1>6, <1>10, RecordSide
<1>12. HeapType' /\ OneOwner'
  <2>1. /\ recordBufs \in [Cells -> Nat] /\ batchBufs \in [Cells -> Nat]
        /\ Fit(recordBufs, batchBufs, Referenced)
    BY FitIsOneOwner DEF BuffersInv, HeapType
  <2>2. recordBufs' \in [Cells -> Nat] /\ Fit(recordBufs', batchBufs', Referenced')
    BY <1>1, <1>2, <1>3, <1>8, <2>1, FitTaken
  <2> QED
    BY <1>3, <1>10, <2>2, FitIsOneOwnerNext DEF BuffersInv, HeapType
<1>13. Accumulated'
  BY <1>3 DEF BuffersInv, Accumulated
<1>14. RecordsApart'
  <2>1. \A s \in Records : held[s] # c
    BY <1>2, RecordCells
  <2>2. \A q \in Items : q.cell # c
    BY <1>2, RecordCells
  <2>3. \A b \in Batches : c \notin Uses(b)
    BY <1>2, ReferencedIs DEF BuffersInv, RefersTo
  <2>4. \A x \in writing : x.own # c
    BY <1>2, ReferencedIs DEF BuffersInv, RefersTo
  <2>5. \A s, t \in Records : held'[s] # Nil /\ held'[s] = held'[t] => s = t
    BY <1>5, <2>1 DEF BuffersInv, RecordsApart
  <2>6. \A s \in Records : \A q \in Items : held'[s] # q.cell
    BY <1>5, <2>2 DEF BuffersInv, RecordsApart
  <2>7. \A b \in Batches : \A s \in Records : held'[s] # Nil => held'[s] \notin Uses(b)
    BY <1>5, <2>3 DEF BuffersInv, RecordsApart
  <2>8. \A x \in writing : \A s \in Records : held'[s] # x.own
    BY <1>5, <2>4 DEF BuffersInv, RecordsApart
  <2> QED
    BY <1>3, <1>7, <2>5, <2>6, <2>7, <2>8 DEF BuffersInv, RecordsApart
<1>15. HeldIntact'
  <2> SUFFICES ASSUME NEW s \in Records, held'[s] # Nil PROVE bytes'[held'[s]] = Encoding(s)
    BY DEF HeldIntact
  <2>1. CASE s = r
    BY <1>5, <1>10, <2>1
  <2>2. CASE s # r
    <3>1. held'[s] = held[s] /\ held[s] \in Cells /\ held[s] \in Referenced
      BY <1>5, <2>2, RecordCells
    <3>2. held[s] \in Referenced'
      BY <1>6, <3>1, ReferencedNext DEF RefersTo
    <3> QED
      BY <1>10, <3>1, <3>2 DEF Untouched, BuffersInv, HeldIntact
  <2> QED
    BY <2>1, <2>2
<1>16. QueuedIntact'
  <2>1. ToSet(queue' \o received') = Items
    BY <1>3, MembersOfConcat DEF BuffersInv, CallType, Items
  <2>2. \A q \in Items : q.cell \in Referenced'
    BY <1>6, <1>7, ReferencedNext DEF RefersTo
  <2> QED
    BY <1>10, <2>1, <2>2, RecordCells DEF Untouched, QueuedIntact
<1> QED
  BY <1>6, <1>11, <1>12, <1>13, <1>14, <1>15, <1>16 DEF BuffersInv

\* A step that writes nothing leaves every record as it was encoded.
LEMMA RecordsIntact ==
    ASSUME BuffersInv, CallType', Untouched,
           \A s \in Records : held'[s] # Nil => held'[s] = held[s],
           \A q \in Items' : q \in Items \/ \E s \in Records : held[s] # Nil /\ q.cell = held[s] /\ q.record = s
    PROVE  HeldIntact' /\ QueuedIntact'
<1>1. HeldIntact'
  <2> SUFFICES ASSUME NEW s \in Records, held'[s] # Nil PROVE bytes'[held'[s]] = Encoding(s)
    BY DEF HeldIntact
  <2>1. held'[s] = held[s] /\ held[s] \in Cells /\ held[s] \in Referenced
    BY RecordCells
  <2>2. held[s] \in Referenced'
    BY <2>1, ReferencedNext DEF RefersTo
  <2> QED
    BY <2>1, <2>2 DEF Untouched, BuffersInv, HeldIntact
<1>2. QueuedIntact'
  <2>1. ToSet(queue' \o received') = Items'
    BY MembersOfConcat DEF CallType, Items
  <2>2. \A q \in Items' : q.cell \in Referenced'
    BY ReferencedNext DEF RefersTo
  <2>3. ASSUME NEW q \in Items' PROVE bytes'[q.cell] = Encoding(q.record)
    <3>1. CASE q \in Items
      BY <2>2, <3>1, RecordCells DEF Untouched
    <3>2. CASE \E s \in Records : held[s] # Nil /\ q.cell = held[s] /\ q.record = s
      BY <2>2, <3>2, RecordCells DEF Untouched, BuffersInv, HeldIntact
    <3> QED
      BY <3>1, <3>2
  <2> QED
    BY <2>1, <2>3 DEF QueuedIntact
<1> QED
  BY <1>1, <1>2

\* A step that writes nothing.
LEMMA SameHeap ==
    ASSUME BuffersInv, Heap(bytes, ends)
    PROVE  Untouched /\ bytes' \in [Cells -> Seq(Byte)] /\ ends' \in [Cells -> Seq(Nat)]
BY HeapKeeps DEF BuffersInv, HeapType

\* The record reaches the queue and its buffer goes with it; the pools are as before.
LEMMA OfferSent ==
    ASSUME BuffersInv, NEW r \in Records, Offer(r), call[r] = "encoded", Len(queue) < QueueSize
    PROVE  BuffersInv'
<1> DEFINE c == held[r]
           p == [cell |-> c, record |-> r]
<1>1. /\ queue' = Append(queue, p) /\ recordBufs' = recordBufs
      /\ call' = [call EXCEPT ![r] = "returned"] /\ held' = [held EXCEPT ![r] = Nil]
      /\ Heap(bytes, ends)
  BY DEF Offer, PutUnlessSent
<1>2. /\ identity' = identity /\ todo' = todo /\ jobs' = jobs /\ job' = job /\ stack' = stack
      /\ writing' = writing /\ received' = received /\ batchBufs' = batchBufs
      /\ buf' = buf /\ bounds' = bounds /\ carried' = carried
  BY DEF Offer, senderVars, workerVars
<1>3. c # Nil /\ c \in Cells /\ c \in Referenced /\ p \in Item
  <2>1. c # Nil
    BY DEF BuffersInv, CallType
  <2>2. c \in Cells /\ c \in Referenced
    BY <2>1, RecordCells
  <2> QED
    BY <2>1, <2>2 DEF Item
<1>4. /\ held' \in [Records -> Cells \cup {Nil}] /\ held'[r] = Nil
      /\ \A s \in Records : s # r => held'[s] = held[s]
  BY <1>1 DEF BuffersInv, CallType
<1>5. queue' \in Seq(Item) /\ ToSet(queue') = ToSet(queue) \cup {p}
  BY <1>1, <1>3, MembersOfAppend DEF BuffersInv, CallType
<1> HIDE DEF c, p
<1>6. CallType'
  <2>1. /\ call' \in [Records -> {"idle", "encoded", "refused", "returned"}] /\ call'[r] = "returned"
        /\ \A s \in Records : s # r => call'[s] = call[s]
    BY <1>1 DEF BuffersInv, CallType
  <2>2. \A s \in Records : held'[s] # Nil <=> call'[s] \in {"encoded", "refused"}
    BY <1>4, <2>1 DEF BuffersInv, CallType
  <2> QED
    BY <1>2, <1>4, <1>5, <2>1, <2>2 DEF BuffersInv, CallType
<1>7. Items' = Items \cup {p} /\ Batches' = Batches
  BY <1>2, <1>5 DEF Items, Batches
<1>8. \A d : d \in Referenced' => d \in Referenced \/ d = Nil
  <2>1. \A d : RefersTo(d)' => RefersTo(d) \/ d = Nil
    <3>1. p.cell = held[r]
      BY DEF p, c
    <3> QED
      BY <1>2, <1>4, <1>7, <3>1 DEF RefersTo
  <2> QED
    BY <1>6, <2>1, ReferencedIs, ReferencedNext DEF BuffersInv
<1>9. Untouched /\ HeapType'
  BY <1>1, <1>2, SameHeap DEF BuffersInv, HeapType
<1>10. BatchType' /\ BatchesApart' /\ BodiesApart' /\ BatchesIntact'
  BY <1>2, <1>6, <1>9, RecordSide
<1>11. OneOwner'
  <2>1. Fit(recordBufs, batchBufs, Referenced) /\ Nil \notin Cells
    BY FitIsOneOwner, RecordCells DEF BuffersInv
  <2>2. Fit(recordBufs', batchBufs', Referenced')
    BY <1>1, <1>2, <1>8, <2>1 DEF Fit
  <2> QED
    BY <2>2, FitIsOneOwnerNext
<1>12. Accumulated'
  BY <1>2 DEF BuffersInv, Accumulated
<1>13. RecordsApart'
  <2>1. p.cell = held[r] /\ held[r] # Nil
    BY <1>3 DEF p, c
  <2>2. \A s, t \in Records : held'[s] # Nil /\ held'[s] = held'[t] => s = t
    BY <1>4 DEF BuffersInv, RecordsApart
  <2>3. \A s \in Records : \A q \in Items' : held'[s] # q.cell
    <3>1. \A s \in Records : s # r => held[s] # p.cell
      BY <2>1 DEF BuffersInv, RecordsApart
    <3>2. \A q \in Items : Nil # q.cell
      BY RecordCells
    <3> QED
      BY <1>4, <1>7, <2>1, <3>1, <3>2 DEF BuffersInv, RecordsApart
  <2>4. \A i, j \in DOMAIN queue' : queue'[i].cell = queue'[j].cell => i = j
    <3>1. PICK n \in Nat : n = Len(queue)
      BY LenProperties DEF BuffersInv, CallType
    <3>2. /\ Len(queue') = n + 1 /\ queue'[n + 1] = p /\ \A i \in 1..n : queue'[i] = queue[i]
      BY <1>1, <1>3, <3>1, AppendProperties DEF BuffersInv, CallType, c, p
    <3>3. DOMAIN queue' = 1..(n + 1) /\ DOMAIN queue = 1..n
      BY <1>5, <3>1, <3>2 DEF BuffersInv, CallType
    <3>4. \A i \in 1..n : queue[i] \in Items
      BY <3>3 DEF Items, ToSet
    <3>5. \A i \in 1..n : queue[i].cell # p.cell
      BY <2>1, <3>4 DEF BuffersInv, RecordsApart
    <3>6. \A i, j \in 1..n : queue[i].cell = queue[j].cell => i = j
      BY <3>3 DEF BuffersInv, RecordsApart
    <3>7. \A i \in 1..(n + 1) : i \in 1..n \/ i = n + 1
      OBVIOUS
    <3> QED
      BY <3>2, <3>3, <3>5, <3>6, <3>7, Zenon
  <2>5. \A x \in ToSet(received') : \A q \in ToSet(queue') : x.cell # q.cell
    BY <1>2, <1>5, <2>1 DEF BuffersInv, RecordsApart, Items
  <2>6. \A b \in Batches : \A q \in Items' : q.cell \notin Uses(b)
    BY <1>7, <2>1 DEF BuffersInv, RecordsApart
  <2>7. \A b \in Batches : \A s \in Records : held'[s] # Nil => held'[s] \notin Uses(b)
    BY <1>4 DEF BuffersInv, RecordsApart
  <2>8. \A x \in writing : (\A q \in Items' : q.cell # x.own) /\ (\A s \in Records : held'[s] # x.own)
    <3>1. \A x \in writing : x.own # Nil
      BY RecordCells DEF BuffersInv, BatchType, Sent
    <3> QED
      BY <1>4, <1>7, <2>1, <3>1 DEF BuffersInv, RecordsApart
  <2> QED
    BY <1>2, <1>7, <2>2, <2>3, <2>4, <2>5, <2>6, <2>7, <2>8 DEF RecordsApart
<1>14. HeldIntact' /\ QueuedIntact'
  BY <1>3, <1>4, <1>6, <1>7, <1>9, RecordsIntact DEF p, c
<1> QED
  BY <1>6, <1>9, <1>10, <1>11, <1>12, <1>13, <1>14 DEF BuffersInv

\* The record is dropped; its buffer may go back to the pool.
LEMMA OfferDropped ==
    ASSUME BuffersInv, NEW r \in Records, Offer(r), ~(call[r] = "encoded" /\ Len(queue) < QueueSize)
    PROVE  BuffersInv'
<1>1. /\ queue' = queue /\ recordBufs' \in Puts(recordBufs, held[r])
      /\ call' = [call EXCEPT ![r] = "returned"] /\ held' = [held EXCEPT ![r] = Nil]
      /\ call[r] \in {"encoded", "refused"} /\ Heap(bytes, ends)
  BY DEF Offer, PutUnlessSent
<1>2. /\ identity' = identity /\ todo' = todo /\ jobs' = jobs /\ job' = job /\ stack' = stack
      /\ writing' = writing /\ received' = received /\ batchBufs' = batchBufs
      /\ buf' = buf /\ bounds' = bounds /\ carried' = carried
  BY DEF Offer, senderVars, workerVars
<1>3. held[r] # Nil /\ held[r] \in Cells /\ held[r] \in Referenced
  BY <1>1, RecordCells DEF BuffersInv, CallType
<1>4. /\ held' \in [Records -> Cells \cup {Nil}] /\ held'[r] = Nil
      /\ \A s \in Records : s # r => held'[s] = held[s]
  BY <1>1 DEF BuffersInv, CallType
<1>5. Items' = Items /\ Batches' = Batches
  BY <1>1, <1>2 DEF Items, Batches
<1>6. CallType'
  <2>1. /\ call' \in [Records -> {"idle", "encoded", "refused", "returned"}] /\ call'[r] = "returned"
        /\ \A s \in Records : s # r => call'[s] = call[s]
    BY <1>1 DEF BuffersInv, CallType
  <2>2. \A s \in Records : held'[s] # Nil <=> call'[s] \in {"encoded", "refused"}
    BY <1>4, <2>1 DEF BuffersInv, CallType
  <2> QED
    BY <1>1, <1>2, <1>4, <2>1, <2>2 DEF BuffersInv, CallType
<1>7. \A d : d \in Referenced' => d \in Referenced \/ d = Nil
  <2>1. \A d : RefersTo(d)' => RefersTo(d) \/ d = Nil
    BY <1>2, <1>4, <1>5 DEF RefersTo
  <2> QED
    BY <1>6, <2>1, ReferencedIs, ReferencedNext DEF BuffersInv
<1>8. ASSUME NEW c, c = held[r] PROVE c \notin Referenced'
  <2>1. ~RefersTo(c)'
    <3>1. \A s \in Records : held'[s] # c
      BY <1>3, <1>4, <1>8 DEF BuffersInv, RecordsApart
    <3>2. \A q \in Items : q.cell # c
      BY <1>8 DEF BuffersInv, RecordsApart
    <3>3. \A b \in Batches : c \notin Uses(b)
      BY <1>3, <1>8 DEF BuffersInv, RecordsApart
    <3>4. \A x \in writing : x.own # c
      BY <1>8 DEF BuffersInv, RecordsApart
    <3> QED
      BY <1>2, <1>5, <3>1, <3>2, <3>3, <3>4 DEF RefersTo
  <2> QED
    BY <1>6, <2>1, ReferencedNext
<1>9. /\ Untouched /\ bytes' \in [Cells -> Seq(Byte)] /\ ends' \in [Cells -> Seq(Nat)]
  BY <1>1, SameHeap
<1>10. BatchType' /\ BatchesApart' /\ BodiesApart' /\ BatchesIntact'
  BY <1>2, <1>6, <1>9, RecordSide
<1>11. HeapType' /\ OneOwner'
  <2>1. /\ recordBufs \in [Cells -> Nat] /\ batchBufs \in [Cells -> Nat]
        /\ Fit(recordBufs, batchBufs, Referenced) /\ Nil \notin Cells
    BY FitIsOneOwner, RecordCells DEF BuffersInv, HeapType
  <2>2. recordBufs[held[r]] + batchBufs[held[r]] = 0
    BY <1>3, <2>1 DEF Fit
  <2>3. PICK c : c = held[r]
    OBVIOUS
  <2>4. c \in Cells /\ c \notin Referenced' /\ recordBufs[c] + batchBufs[c] = 0 /\ recordBufs' \in Puts(recordBufs, c)
    BY <1>1, <1>3, <1>8, <2>2, <2>3
  <2>5. \A d \in Cells : d \in Referenced' => d \in Referenced
    BY <1>7, <2>1
  <2>6. recordBufs' \in [Cells -> Nat] /\ Fit(recordBufs', batchBufs', Referenced')
    BY <1>2, <2>1, <2>4, <2>5, FitGiven
  <2> QED
    BY <1>2, <1>9, <2>6, FitIsOneOwnerNext DEF BuffersInv, HeapType
<1>12. Accumulated'
  BY <1>2 DEF BuffersInv, Accumulated
<1>13. RecordsApart'
  <2>1. (\A q \in Items : q.cell # Nil) /\ (\A x \in writing : x.own # Nil)
    BY RecordCells DEF BuffersInv, BatchType, Sent
  <2>2. \A s \in Records : held'[s] = Nil \/ (held'[s] = held[s] /\ s # r)
    BY <1>4
  <2>3. \A s, t \in Records : held'[s] # Nil /\ held'[s] = held'[t] => s = t
    BY <2>2 DEF BuffersInv, RecordsApart
  <2>4. \A s \in Records : \A q \in Items : held'[s] # q.cell
    BY <2>1, <2>2 DEF BuffersInv, RecordsApart
  <2>5. \A b \in Batches : \A s \in Records : held'[s] # Nil => held'[s] \notin Uses(b)
    BY <2>2 DEF BuffersInv, RecordsApart
  <2>6. \A x \in writing : \A s \in Records : held'[s] # x.own
    BY <2>1, <2>2 DEF BuffersInv, RecordsApart
  <2> QED
    BY <1>1, <1>2, <1>5, <2>3, <2>4, <2>5, <2>6 DEF BuffersInv, RecordsApart
<1>14. HeldIntact' /\ QueuedIntact'
  BY <1>4, <1>5, <1>6, <1>9, RecordsIntact
<1> QED
  BY <1>6, <1>9, <1>10, <1>11, <1>12, <1>13, <1>14 DEF BuffersInv

-----------------------------------------------------------------------------
(* The pools, as the steps leave them.                                     *)

\* The last user of a buffer gives it back.
LEMMA RecordBufGiven ==
    ASSUME BuffersInv, NEW c \in Cells, c \in Referenced, c \notin Referenced',
           recordBufs' \in Puts(recordBufs, c), batchBufs' = batchBufs,
           \A d \in Cells : d \in Referenced' => d \in Referenced
    PROVE  OneOwner' /\ recordBufs' \in [Cells -> Nat] /\ batchBufs' \in [Cells -> Nat]
<1>1. /\ recordBufs \in [Cells -> Nat] /\ batchBufs \in [Cells -> Nat]
      /\ Fit(recordBufs, batchBufs, Referenced)
  BY FitIsOneOwner DEF BuffersInv, HeapType
<1>2. recordBufs[c] + batchBufs[c] = 0
  BY <1>1 DEF Fit
<1>3. recordBufs' \in [Cells -> Nat] /\ Fit(recordBufs', batchBufs, Referenced')
  BY <1>1, <1>2, FitGiven
<1> QED
  BY <1>1, <1>3, FitIsOneOwnerNext

\* The same for a set of batch buffers.
LEMMA BatchBufGiven ==
    ASSUME BuffersInv, NEW c \in Cells, c \in Referenced, c \notin Referenced',
           batchBufs' \in Puts(batchBufs, c), recordBufs' = recordBufs,
           \A d \in Cells : d \in Referenced' => d \in Referenced
    PROVE  OneOwner' /\ recordBufs' \in [Cells -> Nat] /\ batchBufs' \in [Cells -> Nat]
<1>1. /\ recordBufs \in [Cells -> Nat] /\ batchBufs \in [Cells -> Nat]
      /\ Fit(batchBufs, recordBufs, Referenced)
  BY FitIsOneOwner, FitBothWays DEF BuffersInv, HeapType
<1>2. batchBufs[c] + recordBufs[c] = 0
  BY <1>1 DEF Fit
<1>3. batchBufs' \in [Cells -> Nat] /\ Fit(batchBufs', recordBufs, Referenced')
  BY <1>1, <1>2, FitGiven
<1> QED
  BY <1>1, <1>3, FitBothWays, FitIsOneOwnerNext

\* Nothing is taken or given back.
LEMMA PoolsAlone ==
    ASSUME BuffersInv, recordBufs' = recordBufs, batchBufs' = batchBufs,
           \A d \in Cells : d \in Referenced' => d \in Referenced \/ recordBufs[d] + batchBufs[d] = 0
    PROVE  OneOwner' /\ recordBufs' \in [Cells -> Nat] /\ batchBufs' \in [Cells -> Nat]
<1>1. /\ recordBufs \in [Cells -> Nat] /\ batchBufs \in [Cells -> Nat]
      /\ Fit(recordBufs, batchBufs, Referenced)
  BY FitIsOneOwner DEF BuffersInv, HeapType
<1>2. Fit(recordBufs, batchBufs, Referenced')
  BY <1>1 DEF Fit
<1> QED
  BY <1>1, <1>2, FitIsOneOwnerNext

-----------------------------------------------------------------------------
(* Receive and appendRecord.                                               *)

\* The sender takes a record from the queue.
LEMMA ReceiveStep == ASSUME BuffersInv, Receive PROVE BuffersInv'
<1>1. /\ queue # <<>> /\ received = <<>>
      /\ received' = <<Head(queue)>> /\ queue' = Tail(queue)
      /\ identity' = identity /\ bytes' = bytes /\ ends' = ends
      /\ recordBufs' = recordBufs /\ batchBufs' = batchBufs /\ call' = call /\ held' = held
      /\ todo' = todo /\ jobs' = jobs /\ job' = job /\ stack' = stack /\ writing' = writing
      /\ buf' = buf /\ bounds' = bounds /\ carried' = carried
  BY DEF Receive, poolVars, callVars, workerVars
<1>2. PICK n \in Nat \ {0} :
        /\ n = Len(queue) /\ Len(queue') = n - 1
        /\ Head(queue) \in Item /\ queue' \in Seq(Item)
        /\ ToSet(queue) = {Head(queue)} \cup ToSet(queue')
        /\ Head(queue) = queue[1] /\ \A i \in 1..(n - 1) : queue'[i] = queue[i + 1]
  <2>1. /\ Len(queue) \in Nat \ {0} /\ Len(Tail(queue)) = Len(queue) - 1
        /\ Head(queue) \in Item /\ Tail(queue) \in Seq(Item)
        /\ ToSet(queue) = {Head(queue)} \cup ToSet(Tail(queue))
        /\ Head(queue) = queue[1] /\ \A i \in 1..(Len(queue) - 1) : Tail(queue)[i] = queue[i + 1]
    BY <1>1, MembersOfRest DEF BuffersInv, CallType
  <2> QED
    BY <1>1, <2>1, Zenon
<1>3. received' \in Seq(Item) /\ Len(received') = 1 /\ ToSet(received') = {Head(queue)}
  BY <1>1, <1>2, OneMember
<1>4. Items' = Items /\ Batches' = Batches /\ ToSet(received) = {}
  BY <1>1, <1>2, <1>3, NoMembers DEF Items, Batches
<1>5. CallType'
  BY <1>1, <1>2, <1>3 DEF BuffersInv, CallType
<1>6. \A d : d \in Referenced' <=> d \in Referenced
  <2>1. \A d : RefersTo(d)' <=> RefersTo(d)
    BY <1>1, <1>4 DEF RefersTo
  <2> QED
    BY <1>5, <2>1, ReferencedIs, ReferencedNext DEF BuffersInv
<1>7. Untouched
  BY <1>1 DEF Untouched
<1>8. BatchType' /\ BatchesApart' /\ BodiesApart' /\ BatchesIntact'
  BY <1>1, <1>5, <1>7, RecordSide
<1>9. HeapType' /\ OneOwner'
  BY <1>1, <1>6, PoolsAlone DEF BuffersInv, HeapType
<1>10. Accumulated'
  BY <1>1 DEF BuffersInv, Accumulated
<1>11. RecordsApart'
  <2>1. DOMAIN queue = 1..n /\ DOMAIN queue' = 1..(n - 1)
    BY <1>2 DEF BuffersInv, CallType
  <2>2. \A i, j \in 1..n : queue[i].cell = queue[j].cell => i = j
    BY <2>1 DEF BuffersInv, RecordsApart
  <2>3. ASSUME NEW i \in 1..(n - 1), NEW j \in 1..(n - 1), queue'[i].cell = queue'[j].cell
        PROVE  i = j
    <3>1. i + 1 \in 1..n /\ j + 1 \in 1..n
      OBVIOUS
    <3>2. queue[i + 1].cell = queue[j + 1].cell
      BY <1>2, <2>3
    <3> QED
      BY <2>2, <3>1, <3>2
  <2>4. ASSUME NEW q \in ToSet(queue') PROVE Head(queue).cell # q.cell
    <3>1. PICK i \in 1..(n - 1) : q = queue'[i]
      BY <2>1 DEF ToSet
    <3>2. i + 1 \in 1..n /\ 1 \in 1..n /\ i + 1 # 1 /\ q = queue[i + 1]
      BY <1>2, <3>1
    <3> QED
      BY <1>2, <2>2, <3>2
  <2>5. \A p \in ToSet(received') : \A q \in ToSet(queue') : p.cell # q.cell
    BY <1>3, <2>4
  <2> QED
    BY <1>1, <1>4, <2>1, <2>3, <2>5 DEF BuffersInv, RecordsApart
<1>12. HeldIntact' /\ QueuedIntact'
  BY <1>1, <1>4, <1>5, <1>7, RecordsIntact
<1> QED
  BY <1>5, <1>8, <1>9, <1>10, <1>11, <1>12 DEF BuffersInv

\* The sender copies a record, and its buffer may be given back.
LEMMA AppendStep == ASSUME BuffersInv, AppendRecord PROVE BuffersInv'
<1>1. PICK q : q = received[1]
  OBVIOUS
<1>2. /\ received # <<>> /\ received' = <<>> /\ recordBufs' \in Puts(recordBufs, q.cell)
      /\ buf' = buf \o bytes[q.cell] /\ bounds' = Append(bounds, Len(buf \o bytes[q.cell]))
      /\ carried' = Append(carried, q.record) /\ Heap(bytes, ends)
  BY <1>1 DEF AppendRecord
<1>3. /\ identity' = identity /\ batchBufs' = batchBufs /\ call' = call /\ held' = held
      /\ queue' = queue
      /\ todo' = todo /\ jobs' = jobs /\ job' = job /\ stack' = stack /\ writing' = writing
  BY DEF AppendRecord, callVars, workerVars
<1>4. q \in Item /\ ToSet(received) = {q}
  <2>1. received \in Seq(Item) /\ Len(received) = 1
    <3>1. received \in Seq(Item) /\ Len(received) <= 1
      BY DEF BuffersInv, CallType
    <3>2. Len(received) \in Nat \ {0}
      BY <1>2, <3>1, EmptySeq
    <3>3. \A n \in Nat \ {0} : n <= 1 => n = 1
      OBVIOUS
    <3> QED
      BY <3>1, <3>2, <3>3, Zenon
  <2>2. ToSet(received) = {received[i] : i \in 1..1}
    BY <2>1, MembersBy
  <2> QED
    BY <1>1, <2>1, <2>2
<1>5. /\ q.cell \in Cells /\ q.cell \in Referenced /\ q.cell # Nil /\ q.record \in Records
      /\ bytes[q.cell] = Encoding(q.record)
  BY <1>4, RecordCells DEF Items
<1>6. Items = Items' \cup {q} /\ Items' = ToSet(queue) /\ Batches' = Batches /\ ToSet(received') = {}
  BY <1>2, <1>3, <1>4, NoMembers DEF Items, Batches
<1>7. CallType'
  <2>1. <<>> \in Seq(Item) /\ Len(<<>>) = 0
    BY EmptySeq
  <2> QED
    BY <1>2, <1>3, <2>1 DEF BuffersInv, CallType
<1>8. \A d : d \in Referenced' => d \in Referenced
  <2>1. \A d : RefersTo(d)' => RefersTo(d)
    BY <1>3, <1>6 DEF RefersTo
  <2> QED
    BY <1>7, <2>1, ReferencedIs, ReferencedNext DEF BuffersInv
<1>9. q.cell \notin Referenced'
  <2>1. ~RefersTo(q.cell)'
    BY <1>3, <1>4, <1>6 DEF BuffersInv, RecordsApart, RefersTo
  <2> QED
    BY <1>7, <2>1, ReferencedNext
<1>10. Untouched /\ bytes' \in [Cells -> Seq(Byte)] /\ ends' \in [Cells -> Seq(Nat)]
  BY <1>2, SameHeap
<1>11. BatchType' /\ BatchesApart' /\ BodiesApart' /\ BatchesIntact'
  BY <1>3, <1>7, <1>10, RecordSide
<1>12. HeapType' /\ OneOwner'
  <2>1. OneOwner' /\ recordBufs' \in [Cells -> Nat] /\ batchBufs' \in [Cells -> Nat]
    BY <1>2, <1>3, <1>5, <1>8, <1>9, RecordBufGiven
  <2> QED
    BY <1>3, <1>10, <2>1 DEF BuffersInv, HeapType
<1>13. Accumulated'
  <2>1. carried \in Seq(Records) /\ buf = Encodings(carried) /\ bounds = EndsOf(carried)
    BY DEF BuffersInv, Accumulated
  <2>2. carried' \in Seq(Records)
    BY <1>2, <1>5, <2>1, AppendProperties
  <2>3. buf' = Encodings(carried')
    BY <1>2, <1>5, <2>1, EncodingsAppend
  <2>4. bounds' = EndsOf(carried')
    <3>1. EndsOf(Append(carried, q.record)) = Append(EndsOf(carried), Len(Encodings(Append(carried, q.record))))
      BY <1>5, <2>1, EndsOfAppend
    <3> QED
      BY <1>2, <2>1, <2>3, <3>1, Zenon
  <2> QED
    BY <2>2, <2>3, <2>4 DEF Accumulated
<1>14. RecordsApart'
  BY <1>3, <1>6 DEF BuffersInv, RecordsApart
<1>15. HeldIntact' /\ QueuedIntact'
  BY <1>3, <1>6, <1>7, <1>10, RecordsIntact
<1> QED
  BY <1>7, <1>11, <1>12, <1>13, <1>14, <1>15 DEF BuffersInv

-----------------------------------------------------------------------------
(* Flush.                                                                  *)

\* A framed body is bytes.
LEMMA FrameType == ASSUME NEW s \in Seq(Byte), s # <<>> PROVE Frame(s) \in Seq(Byte)
<1>1. Open \in Byte /\ Close \in Byte
  BY DEF Byte
<1>2. [s EXCEPT ![1] = Open] \in Seq(Byte)
  <2>1. 1 \in 1..Len(s)
    BY EmptySeq
  <2> QED
    BY <1>1, <2>1, ExceptSeq
<1>3. <<Close>> \in Seq(Byte)
  BY <1>1
<1>4. [s EXCEPT ![1] = Open] \o <<Close>> \in Seq(Byte)
  BY <1>2, <1>3, ConcatProperties
<1> QED
  BY <1>4 DEF Frame

\* A slice that is all of its cell.
LEMMA WholeSlice ==
    ASSUME NEW S, NEW s \in Seq(S)
    PROVE  \A heap, c : heap[c] = s => In(heap, Slice(c, 0, Len(s))) = s
<1> SUFFICES ASSUME NEW heap, NEW c, heap[c] = s PROVE In(heap, Slice(c, 0, Len(s))) = s
  OBVIOUS
<1>1. Len(s) \in Nat /\ Len(s) <= Len(heap[c]) /\ 0 + 1 = 1
  BY LenProperties
<1>2. SubSeq(s, 1, Len(s)) = s
  BY SubSeqFull
<1> QED
  BY <1>1, <1>2 DEF In, Slice

\* The compression fails: the set goes back, and the records are dropped.
LEMMA FlushFails ==
    ASSUME BuffersInv, NEW c \in Gettable(batchBufs),
           batchBufs' \in Puts(Get(batchBufs, c), c),
           UNCHANGED <<identity, recordBufs, callVars, queue, received, todo, jobs, workerVars>>,
           Heap(bytes, ends), buf' = <<>>, bounds' = <<>>, carried' = <<>>
    PROVE  BuffersInv'
<1>1. c \in Cells /\ c \notin Referenced /\ (batchBufs[c] > 0 \/ recordBufs[c] + batchBufs[c] = 0)
  BY Handed DEF BuffersInv
<1>2. /\ identity' = identity /\ recordBufs' = recordBufs /\ call' = call /\ held' = held
      /\ queue' = queue /\ received' = received
      /\ todo' = todo /\ jobs' = jobs /\ job' = job /\ stack' = stack /\ writing' = writing
  BY DEF callVars, workerVars
<1>3. CallType' /\ Items' = Items /\ Batches' = Batches
  BY <1>2 DEF BuffersInv, CallType, Items, Batches
<1>4. Untouched /\ bytes' \in [Cells -> Seq(Byte)] /\ ends' \in [Cells -> Seq(Nat)]
  BY SameHeap
<1>5. BatchType' /\ BatchesApart' /\ BodiesApart' /\ BatchesIntact'
  BY <1>2, <1>3, <1>4, RecordSide
<1>6. HeldIntact' /\ QueuedIntact'
  BY <1>2, <1>3, <1>4, RecordsIntact
<1>7. RecordsApart'
  BY <1>2, <1>3 DEF BuffersInv, RecordsApart
<1>8. Accumulated'
  BY EmptySeq, EncodingsEmpty, EndsOfEmpty DEF Accumulated
<1>9. HeapType' /\ OneOwner'
  <2>1. \A d : d \in Referenced' <=> d \in Referenced
    BY <1>2, <1>3, ReferencedIs, ReferencedNext DEF BuffersInv, RefersTo
  <2>2. /\ recordBufs \in [Cells -> Nat] /\ batchBufs \in [Cells -> Nat]
        /\ Fit(batchBufs, recordBufs, Referenced)
    BY FitIsOneOwner, FitBothWays DEF BuffersInv, HeapType
  <2>3. batchBufs[c] > 0 \/ batchBufs[c] + recordBufs[c] = 0
    BY <1>1, <2>2
  <2>4. PICK p \in [Cells -> Nat] : p = Get(batchBufs, c) /\ Fit(p, recordBufs, Referenced) /\ p[c] + recordBufs[c] = 0
    <3>1. Get(batchBufs, c) \in [Cells -> Nat] /\ Fit(Get(batchBufs, c), recordBufs, Referenced)
          /\ Get(batchBufs, c)[c] + recordBufs[c] = 0
      BY <1>1, <2>2, <2>3, FitTaken
    <3> QED
      BY <3>1, Zenon
  <2>5. batchBufs' \in [Cells -> Nat] /\ Fit(batchBufs', recordBufs, Referenced')
    BY <1>1, <2>1, <2>2, <2>4, FitGiven
  <2> QED
    BY <1>2, <1>4, <2>2, <2>5, FitBothWays, FitIsOneOwnerNext DEF BuffersInv, HeapType
<1> QED
  BY <1>3, <1>5, <1>6, <1>7, <1>8, <1>9 DEF BuffersInv

\* The batch is packed, and dispatched next.
LEMMA FlushPacks ==
    ASSUME BuffersInv, todo = <<>>, bounds # <<>>,
           NEW c \in Gettable(batchBufs), NEW own \in Fresh(Unused \ {c}), NEW b,
           b = [raw |-> Slice(c, 0, Len(buf)), ends |-> Slice(c, 0, Len(bounds)),
                own |-> own, bufs |-> c, records |-> carried],
           batchBufs' = Get(batchBufs, c), todo' = <<b>>,
           UNCHANGED <<identity, recordBufs, callVars, queue, received, jobs, workerVars>>,
           Heap(Packed([bytes EXCEPT ![c] = buf], own, b.raw), [ends EXCEPT ![c] = bounds]),
           buf' = <<>>, bounds' = <<>>, carried' = <<>>
    PROVE  BuffersInv'
<1>1. /\ c \in Cells /\ c \notin Referenced /\ c # Nil
      /\ batchBufs[c] > 0 \/ batchBufs[c] + recordBufs[c] = 0
      /\ own \in Cells /\ own \notin Referenced /\ own # c /\ own # Nil
      /\ batchBufs[own] + recordBufs[own] = 0
  <2>1. c \in Cells /\ c \notin Referenced /\ (batchBufs[c] > 0 \/ recordBufs[c] + batchBufs[c] = 0)
    BY Handed DEF BuffersInv
  <2>2. /\ own \in Unused \ {c} /\ own \in Cells /\ own \notin Referenced
        /\ recordBufs[own] + batchBufs[own] = 0
    BY Allocated DEF BuffersInv
  <2>3. Nil \notin Cells
    BY RecordCells
  <2>4. \A d \in Cells : recordBufs[d] + batchBufs[d] = batchBufs[d] + recordBufs[d]
    BY DEF BuffersInv, HeapType
  <2> QED
    BY <2>1, <2>2, <2>3, <2>4
<1>2. /\ identity' = identity /\ recordBufs' = recordBufs /\ call' = call /\ held' = held
      /\ queue' = queue /\ received' = received
      /\ jobs' = jobs /\ job' = job /\ stack' = stack /\ writing' = writing
  BY DEF callVars, workerVars
<1>3. /\ carried \in Seq(Records) /\ carried # <<>> /\ buf = Encodings(carried)
      /\ bounds = EndsOf(carried) /\ buf \in Seq(Byte) /\ buf # <<>> /\ bounds \in Seq(Nat)
      /\ Len(buf) \in Nat /\ Len(bounds) \in Nat
  <2>1. carried \in Seq(Records) /\ buf = Encodings(carried) /\ bounds = EndsOf(carried)
    BY DEF BuffersInv, Accumulated
  <2>2. carried # <<>>
    BY <2>1, EndsOfEmpty
  <2>3. buf \in Seq(Byte) /\ Len(buf) \in Nat \ {0} /\ bounds \in Seq(Nat)
    BY <2>1, <2>2, EncodingsNotEmpty, EndsOfType
  <2>4. buf # <<>>
    BY <2>3, EmptySeq
  <2> QED
    BY <2>1, <2>2, <2>3, <2>4, LenProperties
<1>4. /\ b \in Batch /\ b.raw = Slice(c, 0, Len(buf)) /\ b.ends = Slice(c, 0, Len(bounds))
      /\ b.own = own /\ b.bufs = c /\ b.records = carried
      /\ b.raw.cell = c /\ b.ends.cell = c
  BY <1>1, <1>3 DEF Batch, Extent, Run, Slice
<1>5. Uses(b) = {c, own} /\ Reads(b) = {c, own}
  BY <1>4 DEF Uses, Reads
<1>6. todo' \in Seq(Batch) /\ ToSet(todo') = {b} /\ Len(todo') = 1 /\ ToSet(todo) = {}
  BY <1>4, OneMember, NoMembers
<1>7. Batches' = Batches \cup {b}
  BY <1>2, <1>6 DEF Batches
<1>8. CallType' /\ BatchType'
  BY <1>2, <1>6 DEF BuffersInv, CallType, BatchType
<1>9. Items' = Items
  BY <1>2 DEF Items
<1>10. \A d : d \in Referenced' => d \in Referenced \/ d = c \/ d = own
  <2>1. \A d : RefersTo(d)' => RefersTo(d) \/ d = c \/ d = own
    BY <1>2, <1>5, <1>7, <1>9 DEF RefersTo
  <2> QED
    BY <1>8, <2>1, ReferencedIs, ReferencedNext DEF BuffersInv
<1>11. c \in Referenced' /\ own \in Referenced'
  <2>1. RefersTo(c)' /\ RefersTo(own)'
    BY <1>5, <1>7 DEF RefersTo
  <2> QED
    BY <1>8, <2>1, ReferencedNext
<1>12. /\ Untouched /\ bytes' \in [Cells -> Seq(Byte)] /\ ends' \in [Cells -> Seq(Nat)]
       /\ bytes'[c] = buf /\ ends'[c] = bounds /\ bytes'[own] = Frame(buf)
  <2> DEFINE k == [bytes EXCEPT ![c] = buf]
             m == Packed(k, own, b.raw)
             e == [ends EXCEPT ![c] = bounds]
  <2>1. k \in [Cells -> Seq(Byte)] /\ k[c] = buf /\ \A d \in Cells : d # c => k[d] = bytes[d]
    BY <1>1, <1>3 DEF BuffersInv, HeapType
  <2>2. e \in [Cells -> Seq(Nat)] /\ e[c] = bounds /\ \A d \in Cells : d # c => e[d] = ends[d]
    BY <1>1, <1>3 DEF BuffersInv, HeapType
  <2> HIDE DEF k, e
  <2>3. In(k, Slice(c, 0, Len(buf))) = buf
    <3>1. buf \in Seq(Byte) /\ k[c] = buf
      BY <1>3, <2>1
    <3>2. \A h, d : h[d] = buf => In(h, Slice(d, 0, Len(buf))) = buf
      BY <1>3, WholeSlice
    <3> QED
      BY <3>1, <3>2
  <2>4. m \in [Cells -> Seq(Byte)] /\ m[own] = Frame(buf) /\ \A d \in Cells : d # own => m[d] = k[d]
    BY <1>1, <1>3, <1>4, <2>1, <2>3, FrameType DEF Packed
  <2>5. Heap(m, e)
    BY DEF k, e
  <2> HIDE DEF m
  <2>6. \A d \in Cells : d \in Referenced => m[d] = bytes[d] /\ e[d] = ends[d]
    BY <1>1, <2>1, <2>2, <2>4
  <2>7. /\ Untouched /\ bytes' \in [Cells -> Seq(Byte)] /\ ends' \in [Cells -> Seq(Nat)]
        /\ \A d \in Cells : d \in Referenced' => bytes'[d] = m[d] /\ ends'[d] = e[d]
    BY <2>2, <2>4, <2>5, <2>6, HeapKeeps
  <2> QED
    BY <1>1, <1>11, <2>1, <2>2, <2>4, <2>7
<1>13. Intact(b)'
  <2>1. In(bytes', Slice(c, 0, Len(buf))) = buf /\ In(ends', Slice(c, 0, Len(bounds))) = bounds
    <3>1. buf \in Seq(Byte) /\ bytes'[c] = buf /\ bounds \in Seq(Nat) /\ ends'[c] = bounds
      BY <1>3, <1>12
    <3>2. /\ \A h, d : h[d] = buf => In(h, Slice(d, 0, Len(buf))) = buf
          /\ \A h, d : h[d] = bounds => In(h, Slice(d, 0, Len(bounds))) = bounds
      BY <1>3, WholeSlice
    <3> QED
      BY <3>1, <3>2
  <2>2. bytes'[b.own] = Frame(Encodings(b.records))'
    BY <1>2, <1>3, <1>4, <1>12 DEF Frame
  <2> QED
    BY <1>3, <1>4, <2>1, <2>2 DEF Intact, Raw, Ends, Body
<1>14. BatchesIntact'
  BY <1>2, <1>7, <1>8, <1>12, <1>13, BatchesStay
<1>15. RecordsApart' /\ HeldIntact' /\ QueuedIntact'
  <2>1. \A d \in Batches' : \A x \in Uses(d) : Old(x)
    BY <1>1, <1>5, <1>7 DEF Old
  <2> QED
    BY <1>2, <1>8, <1>12, <2>1, BatchSide
<1>16. \A d \in Batches : c \notin Uses(d) /\ own \notin Uses(d) /\ c # d.own /\ d.bufs # own
  <2>1. \A d \in Batches : \A x \in Uses(d) : x \in Referenced
    BY ReferencedIs DEF BuffersInv, RefersTo
  <2>2. \A d : d.own \in Uses(d) /\ d.bufs \in Uses(d)
    BY DEF Uses, Reads
  <2> QED
    BY <1>1, <2>1, <2>2
<1>17. BatchesApart'
  <2>1. \A d \in Batches : Strangers(b, d)
    <3>1. \A d : d.bufs \in Uses(d)
      BY DEF Uses
    <3> QED
      BY <1>4, <1>5, <1>16, <3>1 DEF Strangers
  <2>2. \A D : D \subseteq Batches => Apart({b}, D)
    BY <2>1 DEF Apart
  <2>3. ToSet(jobs) \subseteq Batches /\ \A w \in Workers : At(w) \subseteq Batches
    BY DEF Batches, At
  <2>4. \A w \in Workers : At(w)' = At(w)
    BY <1>2 DEF At
  <2> QED
    BY <1>2, <1>6, <2>2, <2>3, <2>4 DEF BuffersInv, BatchesApart, Apart
<1>18. BodiesApart'
  <2>1. \A x \in writing : c # x.own
    BY <1>1, ReferencedIs DEF BuffersInv, RefersTo
  <2> QED
    BY <1>1, <1>2, <1>4, <1>7, <1>16, <2>1 DEF BuffersInv, BodiesApart
<1>19. Accumulated'
  BY EmptySeq, EncodingsEmpty, EndsOfEmpty DEF Accumulated
<1>20. HeapType' /\ OneOwner'
  <2>1. /\ recordBufs \in [Cells -> Nat] /\ batchBufs \in [Cells -> Nat]
        /\ Fit(batchBufs, recordBufs, Referenced)
    BY FitIsOneOwner, FitBothWays DEF BuffersInv, HeapType
  <2>2. batchBufs' \in [Cells -> Nat] /\ Fit(batchBufs', recordBufs, Referenced')
    BY <1>1, <1>10, <2>1, FitTaken
  <2> QED
    BY <1>2, <1>12, <2>1, <2>2, FitBothWays, FitIsOneOwnerNext DEF BuffersInv, HeapType
<1> QED
  BY <1>8, <1>14, <1>15, <1>17, <1>18, <1>19, <1>20 DEF BuffersInv

\* flush, packed or dropped.
LEMMA FlushStep == ASSUME BuffersInv, Flush PROVE BuffersInv'
<1>1. /\ todo = <<>> /\ bounds # <<>> /\ buf' = <<>> /\ bounds' = <<>> /\ carried' = <<>>
  BY DEF Flush
<1>2. ASSUME NEW c \in Gettable(batchBufs), NEW own \in Fresh(Unused \ {c}), NEW b,
             b = [raw |-> Slice(c, 0, Len(buf)), ends |-> Slice(c, 0, Len(bounds)),
                  own |-> own, bufs |-> c, records |-> carried],
             \/ /\ batchBufs' \in Puts(Get(batchBufs, c), c)
                /\ UNCHANGED <<identity, recordBufs, callVars, queue, received, todo, jobs, workerVars>>
                /\ Heap(bytes, ends)
             \/ /\ batchBufs' = Get(batchBufs, c)
                /\ todo' = <<b>>
                /\ UNCHANGED <<identity, recordBufs, callVars, queue, received, jobs, workerVars>>
                /\ Heap(Packed([bytes EXCEPT ![c] = buf], own, b.raw), [ends EXCEPT ![c] = bounds])
      PROVE  BuffersInv'
  BY <1>1, <1>2, FlushFails, FlushPacks
<1> QED
  BY <1>2 DEF Flush

-----------------------------------------------------------------------------
(* Steps that make no batch.                                               *)

\* A step that makes no batch refers to nothing new, and breaks nothing in those left.
LEMMA NoNewBatch ==
    ASSUME BuffersInv, Untouched, BatchType', identity' = identity,
           call' = call, held' = held, queue' = queue, received' = received,
           Batches' \subseteq Batches,
           \A x \in writing' : \/ x \in writing
                               \/ \E b \in Batches : x.own = b.own /\ x.records = b.records
    PROVE  /\ CallType' /\ RecordsApart' /\ HeldIntact' /\ QueuedIntact' /\ BatchesIntact'
           /\ BodiesApart' /\ \A d : d \in Referenced' => d \in Referenced
<1>1. \A b \in Batches' : \A c \in Uses(b) : Old(c)
  BY DEF Old
<1>2. CallType' /\ RecordsApart' /\ HeldIntact' /\ QueuedIntact'
  BY <1>1, BatchSide
<1>3. BatchesIntact'
  BY <1>2, BatchesStay
<1>4. BodiesApart'
  BY DEF BuffersInv, BodiesApart
<1>5. Items' = Items
  BY DEF Items
<1>6. \A b : b.own \in Uses(b)
  BY DEF Uses, Reads
<1>7. \A d : RefersTo(d)' => RefersTo(d)
  BY <1>5, <1>6 DEF RefersTo
<1> QED
  BY <1>2, <1>3, <1>4, <1>7, ReferencedIs, ReferencedNext DEF BuffersInv

\* A set of buffers that the batches left do not use is not in use.
LEMMA LastUser ==
    ASSUME BuffersInv, CallType', NEW h \in Batches, h.bufs # Nil,
           held' = held, queue' = queue, received' = received, writing' = writing,
           \A d \in Batches' : h.bufs \notin Uses(d)
    PROVE  h.bufs \in Cells /\ h.bufs \in Referenced /\ h.bufs \notin Referenced'
<1>1. h \in Batch /\ h.bufs \in Uses(h)
  BY BatchesTyped DEF BuffersInv, Uses
<1>2. h.bufs \in Cells
  BY <1>1, BatchFields
<1>3. h.bufs \in Referenced
  BY <1>1, ReferencedIs DEF BuffersInv, RefersTo
<1>4. Items' = Items
  BY DEF Items
<1>5. \A r \in Records : held[r] # h.bufs
  BY <1>1 DEF BuffersInv, RecordsApart
<1>6. \A q \in Items : q.cell # h.bufs
  BY <1>1 DEF BuffersInv, RecordsApart
<1>7. \A x \in writing : x.own # h.bufs
  BY DEF BuffersInv, BodiesApart
<1>8. ~RefersTo(h.bufs)'
  BY <1>4, <1>5, <1>6, <1>7 DEF RefersTo
<1> QED
  BY <1>2, <1>3, <1>8, ReferencedNext

\* Batches that are fewer are strangers still.
LEMMA FewerApart ==
    ASSUME BuffersInv, jobs' = jobs, ToSet(todo') \subseteq ToSet(todo),
           \A b \in ToSet(todo') : b.bufs # Nil => Len(todo') = 1,
           \A w \in Workers : At(w)' \subseteq At(w)
    PROVE  BatchesApart'
BY DEF BuffersInv, BatchesApart, Apart

\* The batches, by where they are.
LEMMA BatchesAre ==
    /\ Batches = ToSet(todo) \cup ToSet(jobs) \cup UNION {At(w) : w \in Workers}
    /\ Batches' = ToSet(todo') \cup ToSet(jobs') \cup UNION {At(w)' : w \in Workers}
BY DEF Batches, At

\* The first of what is to be dispatched.
LEMMA NextToDispatch ==
    ASSUME BuffersInv, todo # <<>>
    PROVE  /\ Head(todo) \in Batch /\ Head(todo) \in ToSet(todo) /\ Head(todo) \in Batches
           /\ Tail(todo) \in Seq(Batch) /\ ToSet(todo) = {Head(todo)} \cup ToSet(Tail(todo))
           /\ \A b \in ToSet(todo) : b.bufs # Nil => Tail(todo) = <<>>
<1>1. todo \in Seq(Batch)
  BY DEF BuffersInv, BatchType
<1>2. /\ Head(todo) \in Batch /\ Tail(todo) \in Seq(Batch)
      /\ ToSet(todo) = {Head(todo)} \cup ToSet(Tail(todo)) /\ Len(Tail(todo)) = Len(todo) - 1
  BY <1>1, MembersOfRest
<1>3. \A b \in ToSet(todo) : b.bufs # Nil => Tail(todo) = <<>>
  BY <1>2, EmptySeq DEF BuffersInv, BatchesApart
<1> QED
  BY <1>2, <1>3 DEF Batches

\* The sender releases a batch it will not send.
LEMMA DispatchDropsStep == ASSUME BuffersInv, DispatchDrops PROVE BuffersInv'
<1>1. PICK h : h = Head(todo)
  OBVIOUS
<1>2. /\ todo # <<>> /\ batchBufs' \in Released(h) /\ todo' = Tail(todo) /\ Heap(bytes, ends)
      /\ identity' = identity /\ recordBufs' = recordBufs /\ call' = call /\ held' = held
      /\ queue' = queue /\ received' = received /\ buf' = buf /\ bounds' = bounds
      /\ carried' = carried /\ jobs' = jobs /\ job' = job /\ stack' = stack /\ writing' = writing
  BY <1>1 DEF DispatchDrops, callVars, workerVars
<1>3. /\ h \in Batches /\ h \in ToSet(todo) /\ h \in Batch /\ todo' \in Seq(Batch)
      /\ ToSet(todo') \subseteq ToSet(todo)
      /\ \A b \in ToSet(todo) : b.bufs # Nil => todo' = <<>>
  BY <1>1, <1>2, NextToDispatch
<1>4. \A w \in Workers : At(w)' = At(w)
  BY <1>2 DEF At
<1>5. Batches' \subseteq Batches
  BY <1>2, <1>3, <1>4, BatchesAre
<1>6. BatchType'
  BY <1>2, <1>3 DEF BuffersInv, BatchType
<1>7. Untouched /\ bytes' \in [Cells -> Seq(Byte)] /\ ends' \in [Cells -> Seq(Nat)]
  BY <1>2, SameHeap
<1>8. /\ CallType' /\ RecordsApart' /\ HeldIntact' /\ QueuedIntact' /\ BatchesIntact'
      /\ BodiesApart' /\ \A d : d \in Referenced' => d \in Referenced
  BY <1>2, <1>5, <1>6, <1>7, NoNewBatch
<1>9. BatchesApart'
  <2>1. \A b \in ToSet(todo') : b.bufs # Nil => Len(todo') = 1
    BY <1>3, NoMembers
  <2> QED
    BY <1>2, <1>3, <1>4, <2>1, FewerApart
<1>10. Accumulated'
  BY <1>2 DEF BuffersInv, Accumulated
<1>11. HeapType' /\ OneOwner'
  <2>1. CASE h.bufs = Nil
    <3>1. batchBufs' = batchBufs
      BY <1>2, <2>1 DEF Released
    <3> QED
      BY <1>2, <1>7, <1>8, <3>1, PoolsAlone DEF BuffersInv, HeapType
  <2>2. CASE h.bufs # Nil
    <3>1. batchBufs' \in Puts(batchBufs, h.bufs)
      BY <1>2, <2>2 DEF Released
    <3>2. ASSUME NEW d \in Batches' PROVE h.bufs \notin Uses(d)
      <4>1. d \in ToSet(jobs) \/ \E w \in Workers : d \in At(w)
        BY <1>2, <1>3, <1>4, <2>2, NoMembers, BatchesAre
      <4>2. Strangers(h, d)
        BY <1>3, <4>1 DEF BuffersInv, BatchesApart, Apart
      <4> QED
        BY <2>2, <4>2 DEF Strangers
    <3>3. h.bufs \in Cells /\ h.bufs \in Referenced /\ h.bufs \notin Referenced'
      BY <1>2, <1>3, <1>8, <2>2, <3>2, LastUser
    <3> QED
      BY <1>2, <1>7, <1>8, <3>1, <3>3, BatchBufGiven DEF BuffersInv, HeapType
  <2> QED
    BY <2>1, <2>2
<1> QED
  BY <1>6, <1>8, <1>9, <1>10, <1>11 DEF BuffersInv

\* A worker releases a batch when it and its halves are resolved.
LEMMA WorkerReleasesStep ==
    ASSUME BuffersInv, NEW w \in Workers, WorkerReleases(w)
    PROVE  BuffersInv'
<1>1. PICK h : h = job[w][1]
  OBVIOUS
<1>2. /\ job[w] # <<>> /\ stack[w] = <<>> /\ batchBufs' \in Released(h)
      /\ job' = [job EXCEPT ![w] = <<>>] /\ Heap(bytes, ends)
      /\ identity' = identity /\ recordBufs' = recordBufs /\ call' = call /\ held' = held
      /\ queue' = queue /\ received' = received /\ buf' = buf /\ bounds' = bounds
      /\ carried' = carried /\ todo' = todo /\ jobs' = jobs /\ stack' = stack /\ writing' = writing
  BY <1>1 DEF WorkerReleases, callVars, senderVars
<1>3. h \in At(w) /\ h \in Batches
  <2>1. job[w] \in Seq(Batch)
    BY DEF BuffersInv, BatchType
  <2>2. h = Head(job[w]) /\ ToSet(job[w]) = {Head(job[w])} \cup ToSet(Tail(job[w]))
    BY <1>1, <1>2, <2>1, MembersOfRest
  <2> QED
    BY <2>2, BatchesAre DEF At
<1>4. At(w)' = {} /\ \A v \in Workers : v # w => At(v)' = At(v)
  <2>1. job'[w] = <<>> /\ \A v \in Workers : v # w => job'[v] = job[v]
    BY <1>2 DEF BuffersInv, BatchType
  <2> QED
    BY <1>2, <2>1, NoMembers DEF At
<1>5. Batches' \subseteq Batches
  BY <1>2, <1>4, BatchesAre
<1>6. BatchType'
  <2>1. <<>> \in Seq(Batch) /\ Len(<<>>) = 0
    BY EmptySeq
  <2> QED
    BY <1>2, <2>1 DEF BuffersInv, BatchType
<1>7. Untouched /\ bytes' \in [Cells -> Seq(Byte)] /\ ends' \in [Cells -> Seq(Nat)]
  BY <1>2, SameHeap
<1>8. /\ CallType' /\ RecordsApart' /\ HeldIntact' /\ QueuedIntact' /\ BatchesIntact'
      /\ BodiesApart' /\ \A d : d \in Referenced' => d \in Referenced
  BY <1>2, <1>5, <1>6, <1>7, NoNewBatch
<1>9. BatchesApart'
  <2>1. \A b \in ToSet(todo') : b.bufs # Nil => Len(todo') = 1
    BY <1>2 DEF BuffersInv, BatchesApart
  <2> QED
    BY <1>2, <1>4, <2>1, FewerApart
<1>10. Accumulated'
  BY <1>2 DEF BuffersInv, Accumulated
<1>11. HeapType' /\ OneOwner'
  <2>1. CASE h.bufs = Nil
    <3>1. batchBufs' = batchBufs
      BY <1>2, <2>1 DEF Released
    <3> QED
      BY <1>2, <1>7, <1>8, <3>1, PoolsAlone DEF BuffersInv, HeapType
  <2>2. CASE h.bufs # Nil
    <3>1. batchBufs' \in Puts(batchBufs, h.bufs)
      BY <1>2, <2>2 DEF Released
    <3>2. ASSUME NEW d \in Batches' PROVE h.bufs \notin Uses(d)
      <4>1. d \in ToSet(todo) \/ d \in ToSet(jobs) \/ \E v \in Workers : v # w /\ d \in At(v)
        BY <1>2, <1>4, BatchesAre
      <4>2. Strangers(h, d) \/ Strangers(d, h)
        BY <1>3, <4>1 DEF BuffersInv, BatchesApart, Apart
      <4> QED
        BY <2>2, <4>2 DEF Strangers
    <3>3. h.bufs \in Cells /\ h.bufs \in Referenced /\ h.bufs \notin Referenced'
      BY <1>2, <1>3, <1>8, <2>2, <3>2, LastUser
    <3> QED
      BY <1>2, <1>7, <1>8, <3>1, <3>3, BatchBufGiven DEF BuffersInv, HeapType
  <2> QED
    BY <2>1, <2>2
<1> QED
  BY <1>6, <1>8, <1>9, <1>10, <1>11 DEF BuffersInv

-----------------------------------------------------------------------------
(* Steps that move a batch.                                                *)

\* A batch enters the job channel.
LEMMA HandOffStep == ASSUME BuffersInv, HandOff PROVE BuffersInv'
<1>1. PICK h : h = Head(todo)
  OBVIOUS
<1>2. /\ todo # <<>> /\ jobs' = Append(jobs, h) /\ todo' = Tail(todo)
      /\ identity' = identity /\ bytes' = bytes /\ ends' = ends
      /\ recordBufs' = recordBufs /\ batchBufs' = batchBufs /\ call' = call /\ held' = held
      /\ queue' = queue /\ received' = received /\ buf' = buf /\ bounds' = bounds
      /\ carried' = carried /\ job' = job /\ stack' = stack /\ writing' = writing
  BY <1>1 DEF HandOff, poolVars, callVars, workerVars
<1>3. /\ h \in Batches /\ h \in ToSet(todo) /\ h \in Batch /\ todo' \in Seq(Batch)
      /\ ToSet(todo) = {h} \cup ToSet(todo')
      /\ \A b \in ToSet(todo) : b.bufs # Nil => todo' = <<>>
  BY <1>1, <1>2, NextToDispatch
<1>4. jobs \in Seq(Batch) /\ jobs' \in Seq(Batch) /\ ToSet(jobs') = ToSet(jobs) \cup {h}
  BY <1>2, <1>3, MembersOfAppend DEF BuffersInv, BatchType
<1>5. \A w \in Workers : At(w)' = At(w)
  BY <1>2 DEF At
<1>6. Batches' \subseteq Batches
  BY <1>3, <1>4, <1>5, BatchesAre
<1>7. BatchType'
  BY <1>2, <1>3, <1>4 DEF BuffersInv, BatchType
<1>8. Untouched
  BY <1>2 DEF Untouched
<1>9. /\ CallType' /\ RecordsApart' /\ HeldIntact' /\ QueuedIntact' /\ BatchesIntact'
      /\ BodiesApart' /\ \A d : d \in Referenced' => d \in Referenced
  BY <1>2, <1>6, <1>7, <1>8, NoNewBatch
<1>10. HeapType' /\ OneOwner'
  BY <1>2, <1>9, PoolsAlone DEF BuffersInv, HeapType
<1>11. Accumulated'
  BY <1>2 DEF BuffersInv, Accumulated
<1>12. BatchesApart'
  <2>1. \A b \in ToSet(todo') : b.bufs = Nil
    BY <1>3, NoMembers
  <2>2. Apart(ToSet(todo'), ToSet(jobs'))
    <3>1. \A b \in ToSet(todo') : Strangers(b, h)
      <4>1. h.bufs # Nil => ToSet(todo') = {}
        BY <1>3, NoMembers
      <4> QED
        BY <2>1, <4>1 DEF Strangers
    <3> QED
      BY <1>3, <1>4, <3>1 DEF BuffersInv, BatchesApart, Apart
  <2>3. ASSUME NEW i \in DOMAIN jobs', NEW j \in DOMAIN jobs', i # j
        PROVE  Strangers(jobs'[i], jobs'[j])
    <3>1. PICK n \in Nat : n = Len(jobs)
      BY <1>4, LenProperties
    <3>2. /\ Len(jobs') = n + 1 /\ jobs'[n + 1] = h /\ \A k \in 1..n : jobs'[k] = jobs[k]
      BY <1>2, <1>3, <1>4, <3>1, AppendProperties
    <3>3. DOMAIN jobs' = 1..(n + 1) /\ DOMAIN jobs = 1..n
      BY <1>4, <3>1, <3>2
    <3>4. \A k \in 1..n : Strangers(h, jobs[k]) /\ Strangers(jobs[k], h)
      <4>1. \A k \in 1..n : jobs[k] \in ToSet(jobs)
        BY <3>3 DEF ToSet
      <4> QED
        BY <1>3, <4>1 DEF BuffersInv, BatchesApart, Apart, Strangers
    <3>5. \A k, l \in 1..n : k # l => Strangers(jobs[k], jobs[l])
      BY <3>3 DEF BuffersInv, BatchesApart
    <3>6. \A k \in 1..(n + 1) : k \in 1..n \/ k = n + 1
      OBVIOUS
    <3>7. CASE i \in 1..n /\ j \in 1..n
      BY <2>3, <3>2, <3>5, <3>7
    <3>8. CASE i \in 1..n /\ j = n + 1
      BY <3>2, <3>4, <3>8
    <3>9. CASE i = n + 1 /\ j \in 1..n
      BY <3>2, <3>4, <3>9
    <3> QED
      BY <2>3, <3>3, <3>6, <3>7, <3>8, <3>9
  <2>4. \A w \in Workers : Apart(ToSet(todo'), At(w)) /\ Apart(ToSet(jobs'), At(w))
    BY <1>3, <1>4 DEF BuffersInv, BatchesApart, Apart
  <2> QED
    BY <1>5, <2>1, <2>2, <2>3, <2>4 DEF BuffersInv, BatchesApart
<1> QED
  BY <1>7, <1>9, <1>10, <1>11, <1>12 DEF BuffersInv

\* A worker takes a batch from it.
LEMMA WorkerReceiveStep ==
    ASSUME BuffersInv, NEW w \in Workers, WorkerReceive(w)
    PROVE  BuffersInv'
<1>1. PICK h : h = Head(jobs)
  OBVIOUS
<1>2. /\ job[w] = <<>> /\ jobs # <<>> /\ jobs' = Tail(jobs)
      /\ job' = [job EXCEPT ![w] = <<h>>] /\ stack' = [stack EXCEPT ![w] = <<h>>]
      /\ identity' = identity /\ bytes' = bytes /\ ends' = ends
      /\ recordBufs' = recordBufs /\ batchBufs' = batchBufs /\ call' = call /\ held' = held
      /\ queue' = queue /\ received' = received /\ buf' = buf /\ bounds' = bounds
      /\ carried' = carried /\ todo' = todo /\ writing' = writing
  BY <1>1 DEF WorkerReceive, poolVars, callVars, senderVars
<1>3. PICK n \in Nat \ {0} :
        /\ n = Len(jobs) /\ jobs \in Seq(Batch) /\ jobs' \in Seq(Batch) /\ Len(jobs') = n - 1
        /\ h \in Batch /\ ToSet(jobs) = {h} \cup ToSet(jobs')
        /\ h = jobs[1] /\ \A i \in 1..(n - 1) : jobs'[i] = jobs[i + 1]
  <2>1. jobs \in Seq(Batch)
    BY DEF BuffersInv, BatchType
  <2>2. /\ Len(jobs) \in Nat \ {0} /\ Len(Tail(jobs)) = Len(jobs) - 1
        /\ Head(jobs) \in Batch /\ Tail(jobs) \in Seq(Batch)
        /\ ToSet(jobs) = {Head(jobs)} \cup ToSet(Tail(jobs))
        /\ Head(jobs) = jobs[1] /\ \A i \in 1..(Len(jobs) - 1) : Tail(jobs)[i] = jobs[i + 1]
    BY <1>2, <2>1, MembersOfRest
  <2> QED
    BY <1>1, <1>2, <2>1, <2>2, Zenon
<1>4. /\ job' \in [Workers -> Seq(Batch)] /\ stack' \in [Workers -> Seq(Batch)]
      /\ job'[w] = <<h>> /\ stack'[w] = <<h>> /\ Len(<<h>>) = 1
      /\ \A v \in Workers : v # w => job'[v] = job[v] /\ stack'[v] = stack[v]
  <2>1. <<h>> \in Seq(Batch)
    BY <1>3
  <2> QED
    BY <1>2, <2>1 DEF BuffersInv, BatchType
<1>5. At(w)' = {h} /\ At(w) = {} /\ \A v \in Workers : v # w => At(v)' = At(v)
  <2>1. stack[w] = <<>>
    BY <1>2 DEF BuffersInv, BatchType
  <2> QED
    BY <1>2, <1>4, <2>1, NoMembers, OneMember DEF At
<1>6. Batches' \subseteq Batches
  BY <1>2, <1>3, <1>5, BatchesAre
<1>7. BatchType'
  <2>1. Len(job'[w]) <= 1 /\ job'[w] # <<>>
    BY <1>4
  <2>2. \A v \in Workers : v # w => Len(job'[v]) <= 1 /\ (stack'[v] # <<>> => job'[v] # <<>>)
    BY <1>4 DEF BuffersInv, BatchType
  <2>3. \A v \in Workers : Len(job'[v]) <= 1 /\ (stack'[v] # <<>> => job'[v] # <<>>)
    BY <2>1, <2>2
  <2> QED
    BY <1>2, <1>3, <1>4, <2>3 DEF BuffersInv, BatchType
<1>8. Untouched
  BY <1>2 DEF Untouched
<1>9. /\ CallType' /\ RecordsApart' /\ HeldIntact' /\ QueuedIntact' /\ BatchesIntact'
      /\ BodiesApart' /\ \A d : d \in Referenced' => d \in Referenced
  BY <1>2, <1>6, <1>7, <1>8, NoNewBatch
<1>10. HeapType' /\ OneOwner'
  BY <1>2, <1>9, PoolsAlone DEF BuffersInv, HeapType
<1>11. Accumulated'
  BY <1>2 DEF BuffersInv, Accumulated
<1>12. BatchesApart'
  <2>1. DOMAIN jobs = 1..n /\ DOMAIN jobs' = 1..(n - 1)
    BY <1>3
  <2>2. \A i, j \in 1..n : i # j => Strangers(jobs[i], jobs[j])
    BY <2>1 DEF BuffersInv, BatchesApart
  <2>3. ASSUME NEW i \in 1..(n - 1) PROVE i + 1 \in 1..n /\ 1 \in 1..n /\ i + 1 # 1 /\ jobs'[i] = jobs[i + 1]
    BY <1>3
  <2>4. \A i, j \in 1..(n - 1) : i # j => Strangers(jobs'[i], jobs'[j])
    BY <2>2, <2>3
  <2>5. \A b \in ToSet(jobs') : Strangers(b, h)
    <3> SUFFICES ASSUME NEW b \in ToSet(jobs') PROVE Strangers(b, h)
      OBVIOUS
    <3>1. PICK i \in 1..(n - 1) : b = jobs'[i]
      BY <2>1 DEF ToSet
    <3> QED
      BY <1>3, <2>2, <2>3, <3>1
  <2>6. h \in ToSet(jobs) /\ ToSet(jobs') \subseteq ToSet(jobs)
    BY <1>3
  <2>7. Apart(ToSet(todo), ToSet(jobs'))
    BY <2>6 DEF BuffersInv, BatchesApart, Apart
  <2>8. ASSUME NEW v \in Workers PROVE Apart(ToSet(todo), At(v)') /\ Apart(ToSet(jobs'), At(v)')
    <3>1. CASE v = w
      BY <1>5, <2>5, <2>6, <3>1 DEF BuffersInv, BatchesApart, Apart
    <3>2. CASE v # w
      BY <1>5, <2>6, <3>2 DEF BuffersInv, BatchesApart, Apart
    <3> QED
      BY <3>1, <3>2
  <2>9. ASSUME NEW v \in Workers, v # w PROVE Apart(At(v)', At(w)') /\ Apart(At(w)', At(v)')
    <3>1. At(v)' = At(v) /\ At(w)' = {h}
      BY <1>5, <2>9
    <3>2. \A b \in At(v) : Strangers(h, b)
      BY <2>6 DEF BuffersInv, BatchesApart, Apart
    <3> QED
      BY <3>1, <3>2 DEF Apart, Strangers
  <2>10. ASSUME NEW u \in Workers, NEW v \in Workers, u # v PROVE Apart(At(u)', At(v)')
    <3>1. CASE u # w /\ v # w
      BY <1>5, <2>10, <3>1 DEF BuffersInv, BatchesApart
    <3>2. CASE u = w \/ v = w
      BY <2>9, <2>10, <3>2
    <3> QED
      BY <3>1, <3>2
  <2>11. \A b \in ToSet(todo') : b.bufs # Nil => Len(todo') = 1
    BY <1>2 DEF BuffersInv, BatchesApart
  <2> QED
    BY <1>2, <2>1, <2>4, <2>7, <2>8, <2>10, <2>11 DEF BatchesApart
<1> QED
  BY <1>7, <1>9, <1>10, <1>11, <1>12 DEF BuffersInv

-----------------------------------------------------------------------------
(* An upload's attempts, and the bodies net/http still reads.              *)

\* The batch a worker uploads.
LEMMA OnTop ==
    ASSUME BuffersInv, NEW w \in Workers, stack[w] # <<>>
    PROVE  /\ Head(stack[w]) \in Batch /\ Head(stack[w]) \in Batches /\ Head(stack[w]) \in At(w)
           /\ Tail(stack[w]) \in Seq(Batch)
           /\ ToSet(stack[w]) = {Head(stack[w])} \cup ToSet(Tail(stack[w]))
<1>1. stack[w] \in Seq(Batch)
  BY DEF BuffersInv, BatchType
<1>2. /\ Head(stack[w]) \in Batch /\ Tail(stack[w]) \in Seq(Batch)
      /\ ToSet(stack[w]) = {Head(stack[w])} \cup ToSet(Tail(stack[w]))
  BY <1>1, MembersOfRest
<1> QED
  BY <1>2 DEF At, Batches

\* net/http may read on in the body of the attempt, and no other.
LEMMA StillWritingIs ==
    ASSUME BuffersInv, NEW b \in Batches, writing' \in StillWriting(b)
    PROVE  /\ \A x \in writing' : x \in writing \/ (x.own = b.own /\ x.records = b.records)
           /\ writing' \subseteq Sent
<1>1. b \in Batch
  BY BatchesTyped DEF BuffersInv
<1>2. [own |-> b.own, records |-> b.records] \in Sent
  BY <1>1, BatchFields DEF Sent, Run
<1>3. writing \subseteq Sent
  BY DEF BuffersInv, BatchType
<1>4. \A x \in writing' : x \in writing \/ x = [own |-> b.own, records |-> b.records]
  BY DEF StillWriting
<1> QED
  BY <1>2, <1>3, <1>4

\* An attempt that does not split.
LEMMA AttemptStep ==
    ASSUME BuffersInv, NEW w \in Workers, Attempt(w)
    PROVE  BuffersInv'
<1>1. PICK h : h = Head(stack[w])
  OBVIOUS
<1>2. /\ stack[w] # <<>> /\ writing' \in StillWriting(h) /\ Heap(bytes, ends)
      /\ stack' = stack \/ stack' = [stack EXCEPT ![w] = Tail(@)]
      /\ identity' = identity /\ recordBufs' = recordBufs /\ batchBufs' = batchBufs
      /\ call' = call /\ held' = held
      /\ queue' = queue /\ received' = received /\ buf' = buf /\ bounds' = bounds
      /\ carried' = carried /\ todo' = todo /\ jobs' = jobs /\ job' = job
  BY <1>1 DEF Attempt, poolVars, callVars, senderVars
<1>3. /\ h \in Batches /\ Tail(stack[w]) \in Seq(Batch) /\ ToSet(Tail(stack[w])) \subseteq ToSet(stack[w])
  BY <1>1, <1>2, OnTop
<1>4. /\ stack' \in [Workers -> Seq(Batch)] /\ stack'[w] \in {stack[w], Tail(stack[w])}
      /\ \A v \in Workers : v # w => stack'[v] = stack[v]
  BY <1>2, <1>3 DEF BuffersInv, BatchType
<1>5. \A v \in Workers : At(v)' \subseteq At(v)
  BY <1>2, <1>3, <1>4 DEF At
<1>6. Batches' \subseteq Batches
  BY <1>2, <1>5, BatchesAre
<1>7. /\ \A x \in writing' : x \in writing \/ (x.own = h.own /\ x.records = h.records)
      /\ writing' \subseteq Sent
  BY <1>2, <1>3, StillWritingIs
<1>8. BatchType'
  <2>1. \A v \in Workers : stack'[v] # <<>> => job[v] # <<>>
    BY <1>2, <1>4 DEF BuffersInv, BatchType
  <2> QED
    BY <1>2, <1>4, <1>7, <2>1 DEF BuffersInv, BatchType
<1>9. Untouched /\ bytes' \in [Cells -> Seq(Byte)] /\ ends' \in [Cells -> Seq(Nat)]
  BY <1>2, SameHeap
<1>10. /\ CallType' /\ RecordsApart' /\ HeldIntact' /\ QueuedIntact' /\ BatchesIntact'
       /\ BodiesApart' /\ \A d : d \in Referenced' => d \in Referenced
  BY <1>2, <1>3, <1>6, <1>7, <1>8, <1>9, NoNewBatch
<1>11. HeapType' /\ OneOwner'
  BY <1>2, <1>9, <1>10, PoolsAlone DEF BuffersInv, HeapType
<1>12. Accumulated'
  BY <1>2 DEF BuffersInv, Accumulated
<1>13. BatchesApart'
  <2>1. \A b \in ToSet(todo') : b.bufs # Nil => Len(todo') = 1
    BY <1>2 DEF BuffersInv, BatchesApart
  <2> QED
    BY <1>2, <1>5, <2>1, FewerApart
<1> QED
  BY <1>8, <1>10, <1>11, <1>12, <1>13 DEF BuffersInv

\* net/http lets go of a body.
LEMMA WriteEndsStep == ASSUME BuffersInv, WriteEnds PROVE BuffersInv'
<1>1. /\ writing' \subseteq writing /\ Heap(bytes, ends)
      /\ identity' = identity /\ recordBufs' = recordBufs /\ batchBufs' = batchBufs
      /\ call' = call /\ held' = held
      /\ queue' = queue /\ received' = received /\ buf' = buf /\ bounds' = bounds
      /\ carried' = carried /\ todo' = todo /\ jobs' = jobs /\ job' = job /\ stack' = stack
  BY DEF WriteEnds, poolVars, callVars, senderVars
<1>2. \A v \in Workers : At(v)' = At(v)
  BY <1>1 DEF At
<1>3. Batches' = Batches
  BY <1>1 DEF Batches
<1>4. BatchType'
  BY <1>1 DEF BuffersInv, BatchType
<1>5. Untouched /\ bytes' \in [Cells -> Seq(Byte)] /\ ends' \in [Cells -> Seq(Nat)]
  BY <1>1, SameHeap
<1>6. /\ CallType' /\ RecordsApart' /\ HeldIntact' /\ QueuedIntact' /\ BatchesIntact'
      /\ BodiesApart' /\ \A d : d \in Referenced' => d \in Referenced
  BY <1>1, <1>3, <1>4, <1>5, NoNewBatch
<1>7. HeapType' /\ OneOwner'
  BY <1>1, <1>5, <1>6, PoolsAlone DEF BuffersInv, HeapType
<1>8. BatchesApart' /\ Accumulated'
  BY <1>1, <1>2 DEF BuffersInv, BatchesApart, Accumulated
<1> QED
  BY <1>4, <1>6, <1>7, <1>8 DEF BuffersInv

-----------------------------------------------------------------------------
(* split.                                                                  *)

AreHalves(h, l, r, left, right, cut) ==
    /\ Halves(h, l, r) = <<left, right>> /\ cut \in Nat /\ cut = EndsOf(h.records)[Len(left.records)]
    /\ left \in Batch /\ right \in Batch
    /\ left.records \in Seq(Records) /\ right.records \in Seq(Records)
    /\ left.records # <<>> /\ right.records # <<>>
    /\ h.records = left.records \o right.records
    /\ left.bufs = Nil /\ right.bufs = Nil /\ left.own = l /\ right.own = r
    /\ left.raw = Slice(h.raw.cell, h.raw.lo, h.raw.lo + cut)
    /\ left.ends = Slice(h.ends.cell, h.ends.lo, h.ends.lo + Len(left.records))
    /\ right.raw = Slice(h.raw.cell, h.raw.lo + cut, h.raw.hi)
    /\ right.ends = Slice(r, 0, Len(right.records))
    /\ left.raw.hi - left.raw.lo = cut

\* split makes such halves, of both the records and the slices.
LEMMA HalvesAre ==
    ASSUME BuffersInv, NEW h \in Batches, Len(h.records) > 1, NEW l \in Cells, NEW r \in Cells
    PROVE  \E cut : AreHalves(h, l, r, Halves(h, l, r)[1], Halves(h, l, r)[2], cut)
<1> SUFFICES ASSUME NEW left, left = Halves(h, l, r)[1], NEW right, right = Halves(h, l, r)[2],
                    NEW cut, cut = EndsOf(h.records)[Len(left.records)]
             PROVE  AreHalves(h, l, r, left, right, cut)
  OBVIOUS
<1>1. h \in Batch /\ Intact(h)
  BY BatchesTyped DEF BuffersInv, BatchesIntact
<1>2. PICK c \in Cells, d \in Cells, lo \in Nat, hi \in Nat, from \in Nat, s \in Seq(Records) :
        /\ h.raw.cell = c /\ h.raw.lo = lo /\ h.raw.hi = hi
        /\ h.ends.cell = d /\ h.ends.lo = from /\ h.records = s
  <2>1. /\ h.raw.cell \in Cells /\ h.raw.lo \in Nat /\ h.raw.hi \in Nat
        /\ h.ends.cell \in Cells /\ h.ends.lo \in Nat /\ h.records \in Seq(Records)
    BY <1>1, BatchFields
  <2> QED
    BY <2>1, Zenon
<1>3. PICK n \in Nat, mid \in Nat \ {0}, rest \in Nat \ {0} :
        n = Len(s) /\ n > 1 /\ mid = n \div 2 /\ mid + rest = n /\ mid \in 1..(Len(s) - 1)
  <2>1. PICK n \in Nat : n = Len(s) /\ n > 1
    BY <1>2, LenProperties
  <2>2. PICK mid \in Nat \ {0} : mid = n \div 2 /\ mid < n
    BY <2>1
  <2>3. PICK rest \in Nat \ {0} : mid + rest = n
    <3>1. n - mid \in Nat \ {0} /\ mid + (n - mid) = n
      BY <2>2
    <3> QED
      BY <3>1
  <2>4. mid \in 1..(Len(s) - 1)
    BY <2>1, <2>2
  <2> QED
    BY <2>1, <2>2, <2>3, <2>4, Zenon
<1>4. PICK k \in Nat : k = EndsOf(s)[mid]
  <2>1. EndsOf(s) \in Seq(Nat) /\ mid \in 1..Len(EndsOf(s))
    <3>1. EndsOf(s) \in Seq(Nat) /\ Len(EndsOf(s)) = Len(s)
      BY EndsOfType
    <3> QED
      BY <1>3, <3>1
  <2> QED
    BY <2>1, ElementOfSeq
<1>5. n - mid = rest
  BY <1>3
<1>6. PICK lr \in Seq(Records), rr \in Seq(Records) :
        /\ lr = SubSeq(s, 1, mid) /\ rr = SubSeq(s, mid + 1, n)
        /\ s = lr \o rr /\ lr # <<>> /\ rr # <<>> /\ Len(lr) = mid /\ Len(rr) = rest
  <2>1. \E lr \in Seq(Records), rr \in Seq(Records) :
          /\ lr = SubSeq(s, 1, mid) /\ rr = SubSeq(s, mid + 1, Len(s)) /\ s = lr \o rr
          /\ lr # <<>> /\ rr # <<>> /\ Len(lr) = mid /\ Len(rr) = Len(s) - mid
    BY <1>3, CutRun
  <2> QED
    BY <1>3, <1>5, <2>1, Zenon
<1>7. Ends(h)[mid] = k
  BY <1>1, <1>2, <1>4 DEF Intact
<1>8. /\ left = [raw |-> Slice(c, lo, lo + k), ends |-> Slice(d, from, from + mid),
                 own |-> l, bufs |-> Nil, records |-> lr]
      /\ right = [raw |-> Slice(c, lo + k, hi), ends |-> Slice(r, 0, rest),
                  own |-> r, bufs |-> Nil, records |-> rr]
      /\ Halves(h, l, r) = <<left, right>>
  <2>1. Halves(h, l, r) =
          <<[raw |-> Slice(c, lo, lo + k), ends |-> Slice(d, from, from + mid),
             own |-> l, bufs |-> Nil, records |-> lr],
            [raw |-> Slice(c, lo + k, hi), ends |-> Slice(r, 0, rest),
             own |-> r, bufs |-> Nil, records |-> rr]>>
    BY <1>2, <1>3, <1>5, <1>6, <1>7 DEF Halves, NoneOfItsOwn
  <2> QED
    BY <2>1
<1>9. /\ left.records = lr /\ left.raw = Slice(c, lo, lo + k)
      /\ left.ends = Slice(d, from, from + mid) /\ left.own = l /\ left.bufs = Nil
      /\ right.records = rr /\ right.raw = Slice(c, lo + k, hi)
      /\ right.ends = Slice(r, 0, rest) /\ right.own = r /\ right.bufs = Nil
  BY <1>8
<1>10. cut = k
  BY <1>2, <1>4, <1>6, <1>9
<1>11. left \in Batch /\ right \in Batch
  <2>1. lo + k \in Nat /\ from + mid \in Nat /\ 0 \in Nat
    BY <1>3
  <2>2. lr \in Run /\ rr \in Run
    BY <1>6 DEF Run
  <2>3. /\ Slice(c, lo, lo + k) \in Extent /\ Slice(d, from, from + mid) \in Extent
        /\ Slice(c, lo + k, hi) \in Extent /\ Slice(r, 0, rest) \in Extent
    BY <2>1 DEF Extent, Slice
  <2> QED
    BY <1>8, <2>2, <2>3 DEF Batch
<1>12. left.raw.hi - left.raw.lo = cut
  <2>1. left.raw.hi = lo + k /\ left.raw.lo = lo
    BY <1>9 DEF Slice
  <2> QED
    BY <1>10, <2>1
<1> QED
  BY <1>2, <1>4, <1>6, <1>8, <1>9, <1>10, <1>11, <1>12, Zenon DEF AreHalves

\* A run of two parts is cut inside.
LEMMA TwoRuns ==
    ASSUME NEW lr \in Seq(Records), NEW rr \in Seq(Records), lr # <<>>, rr # <<>>
    PROVE  /\ lr \o rr \in Seq(Records) /\ lr \o rr # <<>>
           /\ Len(lr) \in 1..(Len(lr \o rr) - 1)
<1>1. /\ Len(lr) \in Nat \ {0} /\ Len(rr) \in Nat \ {0} /\ lr \o rr \in Seq(Records)
      /\ Len(lr \o rr) = Len(lr) + Len(rr)
  BY EmptySeq, ConcatProperties
<1>2. Len(lr \o rr) # 0 /\ Len(lr) \in 1..(Len(lr \o rr) - 1)
  BY <1>1
<1> QED
  BY <1>1, <1>2, EmptySeq

\* Some record, some boundary.
LEMMA EndsOfNotEmpty ==
    ASSUME NEW s \in Seq(Records), s # <<>>
    PROVE  EndsOf(s) \in Seq(Nat) /\ EndsOf(s) # <<>> /\ Len(EndsOf(s)) = Len(s)
<1>1. EndsOf(s) \in Seq(Nat) /\ Len(EndsOf(s)) = Len(s) /\ Len(s) # 0
  BY EndsOfType, EmptySeq
<1> QED
  BY <1>1, EmptySeq

\* A run s read at lo..hi of c, its boundaries at from..upto of e, and the same for
\* its two parts, the cut between them.
ReadWhole(s, c, lo, hi, e, from, upto) ==
    /\ Encodings(s) = (IF hi <= Len(c) THEN SubSeq(c, lo + 1, hi) ELSE <<>>)
    /\ EndsOf(s) = (IF upto <= Len(e) THEN SubSeq(e, from + 1, upto) ELSE <<>>)
ReadInParts(s, lr, rr, cut, c, lo, hi, e, from) ==
    /\ lo + cut <= Len(c) /\ SubSeq(c, lo + 1, lo + cut) = Encodings(lr)
    /\ hi <= Len(c) /\ SubSeq(c, (lo + cut) + 1, hi) = Encodings(rr)
    /\ from + Len(lr) <= Len(e) /\ SubSeq(e, from + 1, from + Len(lr)) = EndsOf(lr)
    /\ Rebased(EndsOf(s), Len(lr) + 1, cut) = EndsOf(rr)

\* A run that is read whole is read in parts, at a boundary.
LEMMA HalvesOfSlices ==
    ASSUME NEW lr \in Seq(Records), NEW rr \in Seq(Records), lr # <<>>, rr # <<>>,
           NEW s, s = lr \o rr, NEW cut, cut = EndsOf(s)[Len(lr)],
           NEW c \in Seq(Byte), NEW lo \in Nat, NEW hi \in Nat,
           NEW e \in Seq(Nat), NEW from \in Nat, NEW upto \in Nat
    PROVE  ReadWhole(s, c, lo, hi, e, from, upto) => ReadInParts(s, lr, rr, cut, c, lo, hi, e, from)
<1>0. SUFFICES ASSUME ReadWhole(s, c, lo, hi, e, from, upto)
               PROVE  ReadInParts(s, lr, rr, cut, c, lo, hi, e, from)
  OBVIOUS
<1>1. s \in Seq(Records) /\ s # <<>> /\ Len(lr) \in 1..(Len(s) - 1)
  BY TwoRuns
<1>2. Encodings(s) \in Seq(Byte) /\ Encodings(s) # <<>>
  BY <1>1, EncodingsNotEmpty, EmptySeq
<1>3. EndsOf(s) \in Seq(Nat) /\ EndsOf(s) # <<>> /\ Len(EndsOf(s)) = Len(s)
  BY <1>1, EndsOfNotEmpty
<1>4. /\ cut \in 1..(Len(Encodings(s)) - 1)
      /\ SubSeq(Encodings(s), 1, cut) = Encodings(lr)
      /\ SubSeq(Encodings(s), cut + 1, Len(Encodings(s))) = Encodings(rr)
      /\ SubSeq(EndsOf(s), 1, Len(lr)) = EndsOf(lr)
      /\ Rebased(EndsOf(s), Len(lr) + 1, cut) = EndsOf(rr)
  BY CutEncodings
<1>5. /\ hi <= Len(c)
      /\ \A k \in 1..(Len(Encodings(s)) - 1) :
           /\ lo + k <= Len(c) /\ SubSeq(c, lo + 1, lo + k) = SubSeq(Encodings(s), 1, k)
           /\ SubSeq(c, (lo + k) + 1, hi) = SubSeq(Encodings(s), k + 1, Len(Encodings(s)))
  BY <1>0, <1>2, PartOfSlice DEF ReadWhole
<1>6. \A k \in 1..(Len(EndsOf(s)) - 1) :
        from + k <= Len(e) /\ SubSeq(e, from + 1, from + k) = SubSeq(EndsOf(s), 1, k)
  BY <1>0, <1>3, PartOfSlice DEF ReadWhole
<1> QED
  BY <1>1, <1>3, <1>4, <1>5, <1>6, Zenon DEF ReadInParts

\* What a slice reads as, while its cell is long enough.
LEMMA SliceReads ==
    ASSUME NEW a, NEW from, NEW upto, NEW s
    PROVE  \A heap : heap[a] = s /\ upto <= Len(s)
                        => In(heap, Slice(a, from, upto)) = SubSeq(s, from + 1, upto)
  BY DEF In, Slice

\* Packing the halves writes only the two new cells, and both halves read their records.
LEMMA HalvesIntact ==
    ASSUME BuffersInv, NEW h \in Batches, NEW l \in Fresh(Unused), NEW r \in Fresh(Unused \ {l}),
           NEW left, NEW right
    PROVE  /\ Len(h.records) > 1 /\ identity' = identity /\ HalvesPacked(h, l, r)
           /\ left = Halves(h, l, r)[1] /\ right = Halves(h, l, r)[2]
           /\ \A c \in Uses(left) \cup Uses(right) : c \in Cells => c \in Referenced'
           => /\ Untouched /\ bytes' \in [Cells -> Seq(Byte)] /\ ends' \in [Cells -> Seq(Nat)]
              /\ Intact(left)' /\ Intact(right)'
<1>0. SUFFICES ASSUME Len(h.records) > 1, identity' = identity, HalvesPacked(h, l, r),
                      left = Halves(h, l, r)[1], right = Halves(h, l, r)[2],
                      \A c \in Uses(left) \cup Uses(right) : c \in Cells => c \in Referenced'
               PROVE  /\ Untouched /\ bytes' \in [Cells -> Seq(Byte)] /\ ends' \in [Cells -> Seq(Nat)]
                      /\ Intact(left)' /\ Intact(right)'
  OBVIOUS
<1>1. /\ l \in Cells /\ l \notin Referenced /\ r \in Cells /\ r \notin Referenced /\ l # r
  BY Allocated DEF BuffersInv
<1>2. h \in Batch /\ Intact(h) /\ h.raw.cell \in Referenced /\ h.ends.cell \in Referenced
  <2>1. h \in Batch /\ Intact(h)
    BY BatchesTyped DEF BuffersInv, BatchesIntact
  <2>2. h.raw.cell \in Uses(h) /\ h.ends.cell \in Uses(h)
    BY DEF Uses, Reads
  <2> QED
    BY <2>1, <2>2, BatchFields, ReferencedIs DEF BuffersInv, RefersTo
<1>3. PICK c \in Cells, d \in Cells, lo \in Nat, hi \in Nat, from \in Nat, upto \in Nat,
           x \in Seq(Byte), e \in Seq(Nat) :
        /\ h.raw.cell = c /\ h.raw.lo = lo /\ h.raw.hi = hi
        /\ h.ends.cell = d /\ h.ends.lo = from /\ h.ends.hi = upto
        /\ bytes[c] = x /\ ends[d] = e
  <2>1. /\ h.raw.cell \in Cells /\ h.raw.lo \in Nat /\ h.raw.hi \in Nat
        /\ h.ends.cell \in Cells /\ h.ends.lo \in Nat /\ h.ends.hi \in Nat
    BY <1>2, BatchFields
  <2>2. bytes[h.raw.cell] \in Seq(Byte) /\ ends[h.ends.cell] \in Seq(Nat)
    BY <2>1 DEF BuffersInv, HeapType
  <2> QED
    BY <2>1, <2>2, Zenon
<1>4. PICK s \in Seq(Records), lr \in Seq(Records), rr \in Seq(Records), cut \in Nat :
        /\ h.records = s /\ s = lr \o rr /\ lr # <<>> /\ rr # <<>> /\ cut = EndsOf(s)[Len(lr)]
        /\ left.records = lr /\ left.own = l
        /\ left.raw = Slice(c, lo, lo + cut) /\ left.ends = Slice(d, from, from + Len(lr))
        /\ right.records = rr /\ right.own = r
        /\ right.raw = Slice(c, lo + cut, hi) /\ right.ends = Slice(r, 0, Len(rr))
        /\ left.raw.hi - left.raw.lo = cut
  <2>1. PICK cut : AreHalves(h, l, r, Halves(h, l, r)[1], Halves(h, l, r)[2], cut)
    BY <1>0, <1>1, HalvesAre
  <2>2. AreHalves(h, l, r, left, right, cut)
    BY <1>0, <2>1
  <2>3. h.records \in Seq(Records)
    BY <1>2, BatchFields
  <2> QED
    BY <1>3, <2>2, <2>3, Zenon DEF AreHalves
<1>5. /\ lo + cut <= Len(x) /\ SubSeq(x, lo + 1, lo + cut) = Encodings(lr)
      /\ hi <= Len(x) /\ SubSeq(x, (lo + cut) + 1, hi) = Encodings(rr)
      /\ from + Len(lr) <= Len(e) /\ SubSeq(e, from + 1, from + Len(lr)) = EndsOf(lr)
      /\ Rebased(EndsOf(s), Len(lr) + 1, cut) = EndsOf(rr)
  <2>1. /\ Encodings(s) = (IF hi <= Len(x) THEN SubSeq(x, lo + 1, hi) ELSE <<>>)
        /\ EndsOf(s) = (IF upto <= Len(e) THEN SubSeq(e, from + 1, upto) ELSE <<>>)
    <3>1. Raw(h) = Encodings(h.records) /\ Ends(h) = EndsOf(h.records) /\ h.records = s
      BY <1>2, <1>4 DEF Intact
    <3>2. /\ Raw(h) = (IF hi <= Len(x) THEN SubSeq(x, lo + 1, hi) ELSE <<>>)
          /\ Ends(h) = (IF upto <= Len(e) THEN SubSeq(e, from + 1, upto) ELSE <<>>)
      BY <1>3 DEF Raw, Ends, In
    <3> QED
      BY <3>1, <3>2
  <2>2. s = lr \o rr /\ cut = EndsOf(s)[Len(lr)]
    BY <1>4
  <2>3. lr # <<>> /\ rr # <<>>
    BY <1>4
  <2>4. ReadWhole(s, x, lo, hi, e, from, upto) => ReadInParts(s, lr, rr, cut, x, lo, hi, e, from)
    BY <2>2, <2>3, HalvesOfSlices
  <2> QED
    BY <2>1, <2>4 DEF ReadWhole, ReadInParts
<1>6. PICK y \in Seq(Byte), z \in Seq(Byte), f \in Seq(Nat) :
        /\ y = Encodings(lr) /\ z = Encodings(rr) /\ f = EndsOf(rr)
        /\ y # <<>> /\ z # <<>> /\ Len(f) = Len(rr)
  <2>1. /\ Encodings(lr) \in Seq(Byte) /\ Encodings(lr) # <<>>
        /\ Encodings(rr) \in Seq(Byte) /\ Encodings(rr) # <<>>
        /\ EndsOf(rr) \in Seq(Nat) /\ Len(EndsOf(rr)) = Len(rr)
    <3>1. lr # <<>> /\ rr # <<>>
      BY <1>4
    <3>2. /\ Encodings(lr) \in Seq(Byte) /\ Len(Encodings(lr)) \in Nat \ {0}
          /\ Encodings(rr) \in Seq(Byte) /\ Len(Encodings(rr)) \in Nat \ {0}
      BY <3>1, EncodingsNotEmpty
    <3>3. EndsOf(rr) \in Seq(Nat) /\ Len(EndsOf(rr)) = Len(rr)
      BY <3>1, EndsOfNotEmpty
    <3> QED
      BY <3>2, <3>3, EmptySeq
  <2> QED
    BY <2>1, Zenon
<1>7. \A heap :
         /\ heap[c] = x => In(heap, left.raw) = y /\ In(heap, right.raw) = z
         /\ heap[d] = e => In(heap, left.ends) = EndsOf(lr)
  <2>1. \A heap : heap[c] = x /\ lo + cut <= Len(x)
                     => In(heap, Slice(c, lo, lo + cut)) = SubSeq(x, lo + 1, lo + cut)
    BY SliceReads
  <2>2. \A heap : heap[c] = x /\ hi <= Len(x)
                     => In(heap, Slice(c, lo + cut, hi)) = SubSeq(x, (lo + cut) + 1, hi)
    BY SliceReads
  <2>3. \A heap : heap[d] = e /\ from + Len(lr) <= Len(e)
                     => In(heap, Slice(d, from, from + Len(lr))) = SubSeq(e, from + 1, from + Len(lr))
    BY SliceReads
  <2> QED
    BY <1>4, <1>5, <1>6, <2>1, <2>2, <2>3
\* The heap after the halves are packed.
<1> DEFINE m1 == Packed(bytes, l, left.raw)
           m2 == Packed(m1, r, right.raw)
           e2 == [ends EXCEPT ![r] = Rebased(Ends(h), Len(left.records) + 1, left.raw.hi - left.raw.lo)]
<1>8. Heap(m2, e2)
  BY <1>0 DEF HalvesPacked
<1>9. In(bytes, left.raw) = y
  BY <1>3, <1>7
<1>10. m1 \in [Cells -> Seq(Byte)] /\ m1[l] = Frame(y) /\ \A a \in Cells : a # l => m1[a] = bytes[a]
  <2>1. m1 = [bytes EXCEPT ![l] = Frame(y)]
    BY <1>9 DEF Packed
  <2>2. Frame(y) \in Seq(Byte)
    BY <1>6, FrameType
  <2> QED
    BY <1>1, <2>1, <2>2 DEF BuffersInv, HeapType
<1> HIDE DEF m1
<1>11. In(m1, right.raw) = z
  <2>1. c # l
    BY <1>1, <1>2, <1>3
  <2>2. m1[c] = x
    BY <1>3, <1>10, <2>1
  <2> QED
    BY <1>7, <2>2
<1>12. m2 \in [Cells -> Seq(Byte)] /\ m2[r] = Frame(z) /\ \A a \in Cells : a # r => m2[a] = m1[a]
  <2>1. m2 = [m1 EXCEPT ![r] = Frame(z)]
    BY <1>11 DEF Packed
  <2>2. Frame(z) \in Seq(Byte)
    BY <1>6, FrameType
  <2> QED
    BY <1>1, <1>10, <2>1, <2>2
<1>13. e2 \in [Cells -> Seq(Nat)] /\ e2[r] = f /\ \A a \in Cells : a # r => e2[a] = ends[a]
  <2>1. e2 = [ends EXCEPT ![r] = f]
    <3>1. Ends(h) = EndsOf(s)
      BY <1>2, <1>4 DEF Intact
    <3>2. Rebased(Ends(h), Len(left.records) + 1, left.raw.hi - left.raw.lo) = f
      BY <1>4, <1>5, <1>6, <3>1, Zenon
    <3> QED
      BY <3>2
  <2> QED
    BY <1>1, <2>1 DEF BuffersInv, HeapType
<1> HIDE DEF m2, e2
<1>14. \A a \in Cells : a \in Referenced => m2[a] = bytes[a] /\ e2[a] = ends[a]
  BY <1>1, <1>10, <1>12, <1>13
<1>15. /\ Untouched /\ bytes' \in [Cells -> Seq(Byte)] /\ ends' \in [Cells -> Seq(Nat)]
       /\ \A a \in Cells : a \in Referenced' => bytes'[a] = m2[a] /\ ends'[a] = e2[a]
  BY <1>8, <1>12, <1>13, <1>14, HeapKeeps
<1>16. /\ bytes'[c] = x /\ ends'[d] = e
       /\ bytes'[l] = Frame(y) /\ bytes'[r] = Frame(z) /\ ends'[r] = f
  <2>1. c \in Uses(left) /\ d \in Uses(left) /\ l \in Uses(left) /\ r \in Uses(right)
    BY <1>4 DEF Uses, Reads, Slice
  <2>2. c \in Referenced' /\ d \in Referenced' /\ l \in Referenced' /\ r \in Referenced'
    BY <1>0, <1>1, <2>1
  <2>3. c \in Referenced /\ d \in Referenced
    BY <1>2, <1>3
  <2>4. m2[c] = x /\ e2[d] = e
    BY <1>3, <1>14, <2>3
  <2>5. m2[l] = Frame(y)
    BY <1>1, <1>10, <1>12
  <2> QED
    BY <1>1, <1>12, <1>13, <1>15, <2>2, <2>4, <2>5
<1>17. Frame(y)' = Frame(y) /\ Frame(z)' = Frame(z)
  BY <1>0 DEF Frame
<1>18. Intact(left)'
  <2>1. In(bytes', left.raw) = y
    BY <1>16, <1>7
  <2>2. In(ends', left.ends) = EndsOf(lr)
    BY <1>16, <1>7
  <2>3. bytes'[left.own] = Frame(y)'
    BY <1>4, <1>16, <1>17
  <2> QED
    BY <1>4, <1>6, <2>1, <2>2, <2>3 DEF Intact, Raw, Ends, Body
<1>19. Intact(right)'
  <2>1. In(bytes', right.raw) = z
    BY <1>16, <1>7
  <2>2. In(ends', right.ends) = f
    <3>1. \A hp, a : hp[a] = f => In(hp, Slice(a, 0, Len(f))) = f
      BY WholeSlice
    <3> QED
      BY <1>4, <1>6, <1>16, <3>1
  <2>3. bytes'[right.own] = Frame(z)'
    BY <1>4, <1>16, <1>17
  <2> QED
    BY <1>4, <1>6, <2>1, <2>2, <2>3 DEF Intact, Raw, Ends, Body
<1> QED
  BY <1>15, <1>18, <1>19

\* The halves left and right of h, allocated in l and r, are put where h was.
SplitInto(h, l, r, left, right) ==
    /\ Len(h.records) > 1 /\ HalvesPacked(h, l, r)
    /\ left = Halves(h, l, r)[1] /\ right = Halves(h, l, r)[2]
    /\ identity' = identity /\ recordBufs' = recordBufs /\ batchBufs' = batchBufs
    /\ call' = call /\ held' = held /\ queue' = queue /\ received' = received
    /\ buf' = buf /\ bounds' = bounds /\ carried' = carried

\* The halves use the parent's slices and their own cells, and no set of buffers.
LEMMA HalvesUse ==
    ASSUME BuffersInv, NEW h \in Batches, NEW l \in Fresh(Unused), NEW r \in Fresh(Unused \ {l}),
           NEW left, NEW right, SplitInto(h, l, r, left, right)
    PROVE  /\ Halves(h, l, r) = <<left, right>> /\ left \in Batch /\ right \in Batch
           /\ l \in Cells /\ l \notin Referenced /\ recordBufs[l] + batchBufs[l] = 0
           /\ r \in Cells /\ r \notin Referenced /\ recordBufs[r] + batchBufs[r] = 0
           /\ left.bufs = Nil /\ right.bufs = Nil /\ left.own = l /\ right.own = r
           /\ \A c \in Uses(left) \cup Uses(right) : c \in Uses(h) \/ c \in {l, r, Nil}
<1>1. /\ l \in Cells /\ l \notin Referenced /\ recordBufs[l] + batchBufs[l] = 0
      /\ r \in Cells /\ r \notin Referenced /\ recordBufs[r] + batchBufs[r] = 0
  BY Allocated DEF BuffersInv
<1>2. PICK cut : AreHalves(h, l, r, Halves(h, l, r)[1], Halves(h, l, r)[2], cut)
  BY <1>1, HalvesAre DEF SplitInto
<1>3. AreHalves(h, l, r, left, right, cut)
  BY <1>2 DEF SplitInto
<1>4. /\ Halves(h, l, r) = <<left, right>> /\ left \in Batch /\ right \in Batch
      /\ left.bufs = Nil /\ right.bufs = Nil /\ left.own = l /\ right.own = r
  BY <1>3 DEF AreHalves
<1>5. /\ left.raw.cell = h.raw.cell /\ left.ends.cell = h.ends.cell
      /\ right.raw.cell = h.raw.cell /\ right.ends.cell = r
  BY <1>3 DEF AreHalves, Slice
<1>6. /\ Uses(left) = {h.raw.cell, h.ends.cell, l, Nil} /\ Uses(right) = {h.raw.cell, r, Nil}
      /\ h.raw.cell \in Uses(h) /\ h.ends.cell \in Uses(h)
  BY <1>4, <1>5 DEF Uses, Reads
<1>7. \A c \in Uses(left) \cup Uses(right) : c \in Uses(h) \/ c \in {l, r, Nil}
  BY <1>6
<1> QED
  BY <1>1, <1>4, <1>7

\* Who was a stranger to the parent is one to both halves.
LEMMA HalvesStrange ==
    ASSUME BuffersInv, NEW h \in Batches, NEW l \in Fresh(Unused), NEW r \in Fresh(Unused \ {l}),
           NEW left, NEW right, SplitInto(h, l, r, left, right),
           NEW d \in Batches, Strangers(h, d) \/ Strangers(d, h)
    PROVE  /\ Strangers(left, d) /\ Strangers(d, left)
           /\ Strangers(right, d) /\ Strangers(d, right)
<1>1. /\ l \notin Referenced /\ r \notin Referenced /\ left.bufs = Nil /\ right.bufs = Nil
      /\ \A c \in Uses(left) \cup Uses(right) : c \in Uses(h) \/ c \in {l, r, Nil}
  BY HalvesUse
<1>2. d.bufs \in Referenced
  BY ReferencedIs DEF BuffersInv, RefersTo, Uses
<1>3. d.bufs # Nil => d.bufs \notin Uses(h)
  BY DEF Strangers
<1>4. d.bufs # Nil => d.bufs \notin Uses(left) /\ d.bufs \notin Uses(right)
  BY <1>1, <1>2, <1>3
<1> QED
  BY <1>1, <1>4 DEF Strangers

\* What a split leaves true, wherever the halves are put.
LEMMA SplitKeeps ==
    ASSUME BuffersInv, NEW h \in Batches, NEW l \in Fresh(Unused), NEW r \in Fresh(Unused \ {l}),
           NEW left, NEW right, SplitInto(h, l, r, left, right), BatchType',
           left \in Batches', right \in Batches',
           \A b \in Batches' : b \in Batches \/ b = left \/ b = right,
           \A x \in writing' : x \in writing \/ (x.own = h.own /\ x.records = h.records)
    PROVE  /\ HeapType' /\ CallType' /\ Accumulated' /\ OneOwner' /\ RecordsApart' /\ BodiesApart'
           /\ HeldIntact' /\ QueuedIntact' /\ BatchesIntact'
<1>1. /\ Halves(h, l, r) = <<left, right>> /\ left \in Batch /\ right \in Batch
      /\ l \in Cells /\ l \notin Referenced /\ recordBufs[l] + batchBufs[l] = 0
      /\ r \in Cells /\ r \notin Referenced /\ recordBufs[r] + batchBufs[r] = 0
      /\ left.bufs = Nil /\ right.bufs = Nil /\ left.own = l /\ right.own = r
      /\ \A c \in Uses(left) \cup Uses(right) : c \in Uses(h) \/ c \in {l, r, Nil}
  BY HalvesUse
<1>2. /\ Len(h.records) > 1 /\ HalvesPacked(h, l, r)
      /\ left = Halves(h, l, r)[1] /\ right = Halves(h, l, r)[2]
      /\ identity' = identity /\ recordBufs' = recordBufs /\ batchBufs' = batchBufs
      /\ call' = call /\ held' = held /\ queue' = queue /\ received' = received
      /\ buf' = buf /\ bounds' = bounds /\ carried' = carried
  BY DEF SplitInto
<1>3. CallType' /\ Accumulated'
  BY <1>2 DEF BuffersInv, CallType, Accumulated
<1>4. \A c \in Uses(left) \cup Uses(right) : c \in Cells => c \in Referenced'
  BY <1>3, ReferencedNext DEF RefersTo
<1>5. /\ Untouched /\ bytes' \in [Cells -> Seq(Byte)] /\ ends' \in [Cells -> Seq(Nat)]
      /\ Intact(left)' /\ Intact(right)'
  BY <1>2, <1>4, HalvesIntact
<1>6. \A b \in Batches' : \A c \in Uses(b) : Old(c)
  BY <1>1 DEF Old
<1>7. RecordsApart' /\ HeldIntact' /\ QueuedIntact'
  <2>1. \A x \in writing' : x \in writing \/ \E b \in Batches : x.own = b.own
    OBVIOUS
  <2> QED
    BY <1>2, <1>5, <1>6, <2>1, BatchSide
<1>8. BatchesIntact'
  <2>1. \A b \in Batches' : b \in Batches \/ Intact(b)'
    BY <1>5
  <2>2. \A x \in writing' : \/ x \in writing
                            \/ \E b \in Batches : x.own = b.own /\ x.records = b.records
    OBVIOUS
  <2> QED
    BY <1>2, <1>3, <1>5, <2>1, <2>2, BatchesStay
<1>9. Nil \notin Cells
  BY BuffersAssumption DEF Nil
<1>10. HeapType' /\ OneOwner'
  <2>1. ASSUME NEW d \in Cells, d \in Referenced'
        PROVE  d \in Referenced \/ recordBufs[d] + batchBufs[d] = 0
    <3>1. RefersTo(d)'
      BY <1>3, <2>1, ReferencedNext
    <3>2. CASE \E s \in Records : held'[s] = d
      BY <1>2, <3>2, ReferencedIs DEF BuffersInv, RefersTo
    <3>3. CASE \E q \in Items' : q.cell = d
      <4>1. Items' = Items
        BY <1>2 DEF Items
      <4> QED
        BY <3>3, <4>1, ReferencedIs DEF BuffersInv, RefersTo
    <3>4. CASE \E b \in Batches' : d \in Uses(b)
      <4>1. (\E b \in Batches : d \in Uses(b)) \/ d \in {l, r}
        BY <1>1, <1>9, <2>1, <3>4
      <4> QED
        BY <1>1, <4>1, ReferencedIs DEF BuffersInv, RefersTo
    <3>5. CASE \E x \in writing' : x.own = d
      <4>1. (\E x \in writing : x.own = d) \/ d = h.own
        BY <3>5
      <4>2. h.own \in Uses(h)
        BY DEF Uses, Reads
      <4> QED
        BY <4>1, <4>2, ReferencedIs DEF BuffersInv, RefersTo
    <3> QED
      BY <3>1, <3>2, <3>3, <3>4, <3>5 DEF RefersTo
  <2> QED
    BY <1>2, <1>5, <2>1, PoolsAlone DEF BuffersInv, HeapType
<1>11. BodiesApart'
  <2>1. \A b \in Batches : b.bufs \in Referenced /\ b.own \in Cells
    <3>1. \A b \in Batches : b.bufs \in Uses(b)
      BY DEF Uses
    <3> QED
      BY <3>1, ReferencedIs, BatchesTyped, BatchFields DEF BuffersInv, RefersTo
  <2>2. \A x \in writing' : x.own \in Cells
    BY DEF BatchType, Sent
  <2>3. ASSUME NEW b \in Batches', NEW d \in Batches' PROVE b.bufs # d.own
    <3>1. d.own \in Cells
      BY <1>1, <2>1
    <3>2. CASE b \in Batches /\ d \in Batches
      BY <3>2 DEF BuffersInv, BodiesApart
    <3>3. CASE b \in Batches /\ (d = left \/ d = right)
      BY <1>1, <2>1, <3>3
    <3>4. CASE b = left \/ b = right
      BY <1>1, <1>9, <3>1, <3>4
    <3> QED
      BY <3>2, <3>3, <3>4
  <2>4. ASSUME NEW b \in Batches', NEW x \in writing' PROVE b.bufs # x.own
    <3>1. CASE b \in Batches
      BY <3>1 DEF BuffersInv, BodiesApart
    <3>2. CASE b = left \/ b = right
      BY <1>1, <1>9, <2>2, <3>2
    <3> QED
      BY <3>1, <3>2
  <2> QED
    BY <2>3, <2>4 DEF BodiesApart
<1> QED
  BY <1>3, <1>7, <1>8, <1>10, <1>11

\* Two in front of a sequence.
LEMMA MembersOfTwoFirst ==
    ASSUME NEW S, NEW x \in S, NEW y \in S, NEW t \in Seq(S)
    PROVE  <<x, y>> \o t \in Seq(S) /\ ToSet(<<x, y>> \o t) = {x, y} \cup ToSet(t)
<1>1. PICK p \in Seq(S) : p = <<x, y>> /\ ToSet(p) = {x, y}
  BY TwoMembers
<1>2. p \o t \in Seq(S) /\ ToSet(p \o t) = ToSet(p) \cup ToSet(t)
  BY MembersOfConcat
<1> QED
  BY <1>1, <1>2

\* The sender splits a batch that is over the limit.
LEMMA DispatchSplitStep == ASSUME BuffersInv, DispatchSplit PROVE BuffersInv'
<1>1. PICK h : h = Head(todo)
  OBVIOUS
<1>2. /\ todo # <<>> /\ Len(h.records) > 1 /\ batchBufs' = batchBufs
      /\ identity' = identity /\ recordBufs' = recordBufs /\ call' = call /\ held' = held
      /\ queue' = queue /\ received' = received /\ buf' = buf /\ bounds' = bounds
      /\ carried' = carried /\ jobs' = jobs /\ job' = job /\ stack' = stack /\ writing' = writing
  BY <1>1 DEF DispatchSplit, callVars, workerVars, NotReleased
<1>3. /\ h \in Batches /\ h \in ToSet(todo) /\ Tail(todo) \in Seq(Batch)
      /\ ToSet(todo) = {h} \cup ToSet(Tail(todo))
      /\ \A b \in ToSet(todo) : b.bufs # Nil => Tail(todo) = <<>>
  BY <1>1, <1>2, NextToDispatch
<1>4. SUFFICES ASSUME NEW l \in Fresh(Unused), NEW r \in Fresh(Unused \ {l}),
                      todo' = SplitFirst(todo, l, r), HalvesPacked(h, l, r)
               PROVE  BuffersInv'
  BY <1>1 DEF DispatchSplit
<1>5. PICK left, right : SplitInto(h, l, r, left, right)
  BY <1>2, <1>4 DEF SplitInto
<1>6. /\ Halves(h, l, r) = <<left, right>> /\ left \in Batch /\ right \in Batch
      /\ left.bufs = Nil /\ right.bufs = Nil
  BY <1>3, <1>5, HalvesUse
<1>7. todo' \in Seq(Batch) /\ ToSet(todo') = {left, right} \cup ToSet(Tail(todo))
  <2>1. /\ <<left, right>> \o Tail(todo) \in Seq(Batch)
        /\ ToSet(<<left, right>> \o Tail(todo)) = {left, right} \cup ToSet(Tail(todo))
    <3>1. PICK t \in Seq(Batch) : t = Tail(todo)
      BY <1>3
    <3>2. left \in Batch /\ right \in Batch
      BY <1>6
    <3>3. /\ <<left, right>> \o t \in Seq(Batch)
          /\ ToSet(<<left, right>> \o t) = {left, right} \cup ToSet(t)
      BY <3>2, MembersOfTwoFirst
    <3> QED
      BY <3>1, <3>3
  <2>2. todo' = <<left, right>> \o Tail(todo)
    BY <1>1, <1>4, <1>6 DEF SplitFirst
  <2> QED
    BY <2>1, <2>2
<1>8. \A w \in Workers : At(w)' = At(w)
  BY <1>2 DEF At
<1>9. /\ left \in Batches' /\ right \in Batches'
      /\ \A b \in Batches' : b \in Batches \/ b = left \/ b = right
  BY <1>2, <1>3, <1>7, <1>8, BatchesAre
<1>10. BatchType'
  BY <1>2, <1>7 DEF BuffersInv, BatchType
<1>11. /\ HeapType' /\ CallType' /\ Accumulated' /\ OneOwner' /\ RecordsApart' /\ BodiesApart'
       /\ HeldIntact' /\ QueuedIntact' /\ BatchesIntact'
  <2>1. \A x \in writing' : x \in writing \/ (x.own = h.own /\ x.records = h.records)
    BY <1>2
  <2> QED
    BY <1>3, <1>4, <1>5, <1>9, <1>10, <2>1, SplitKeeps
<1>12. BatchesApart'
  <2>1. \A b \in ToSet(todo') : b.bufs = Nil
    BY <1>3, <1>6, <1>7, NoMembers
  <2>2. ASSUME NEW d \in Batches, Strangers(h, d), NEW b \in {left, right} PROVE Strangers(b, d)
    BY <1>3, <1>4, <1>5, <2>2, HalvesStrange
  <2>3. ASSUME NEW D, D \subseteq Batches, Apart(ToSet(todo), D) PROVE Apart(ToSet(todo'), D)
    BY <1>3, <1>7, <2>2, <2>3 DEF Apart
  <2>4. ToSet(jobs) \subseteq Batches /\ \A w \in Workers : At(w) \subseteq Batches
    BY BatchesAre
  <2>5. Apart(ToSet(todo'), ToSet(jobs))
    BY <2>3, <2>4 DEF BuffersInv, BatchesApart
  <2>6. \A w \in Workers : Apart(ToSet(todo'), At(w))
    BY <2>3, <2>4 DEF BuffersInv, BatchesApart
  <2> QED
    BY <1>2, <1>8, <2>1, <2>5, <2>6 DEF BuffersInv, BatchesApart
<1> QED
  BY <1>10, <1>11, <1>12 DEF BuffersInv

\* A worker splits a batch after a 413.
LEMMA AttemptSplitsStep ==
    ASSUME BuffersInv, NEW w \in Workers, AttemptSplits(w)
    PROVE  BuffersInv'
<1>1. PICK h : h = Head(stack[w])
  OBVIOUS
<1>2. /\ stack[w] # <<>> /\ Len(h.records) > 1 /\ writing' \in StillWriting(h)
      /\ identity' = identity /\ recordBufs' = recordBufs /\ batchBufs' = batchBufs
      /\ call' = call /\ held' = held
      /\ queue' = queue /\ received' = received /\ buf' = buf /\ bounds' = bounds
      /\ carried' = carried /\ todo' = todo /\ jobs' = jobs /\ job' = job
  BY <1>1 DEF AttemptSplits, poolVars, callVars, senderVars
<1>3. /\ h \in Batches /\ h \in At(w) /\ Tail(stack[w]) \in Seq(Batch)
      /\ ToSet(stack[w]) = {h} \cup ToSet(Tail(stack[w]))
  BY <1>1, <1>2, OnTop
<1>4. SUFFICES ASSUME NEW l \in Fresh(Unused), NEW r \in Fresh(Unused \ {l}),
                      stack' = [stack EXCEPT ![w] = SplitFirst(@, l, r)], HalvesPacked(h, l, r)
               PROVE  BuffersInv'
  BY <1>1 DEF AttemptSplits
<1>5. PICK left, right : SplitInto(h, l, r, left, right)
  BY <1>2, <1>4 DEF SplitInto
<1>6. Halves(h, l, r) = <<left, right>> /\ left \in Batch /\ right \in Batch
  BY <1>3, <1>5, HalvesUse
<1>7. /\ stack' \in [Workers -> Seq(Batch)]
      /\ ToSet(stack'[w]) = {left, right} \cup ToSet(Tail(stack[w]))
      /\ \A v \in Workers : v # w => stack'[v] = stack[v]
  <2>1. /\ <<left, right>> \o Tail(stack[w]) \in Seq(Batch)
        /\ ToSet(<<left, right>> \o Tail(stack[w])) = {left, right} \cup ToSet(Tail(stack[w]))
    <3>1. PICK t \in Seq(Batch) : t = Tail(stack[w])
      BY <1>3
    <3>2. left \in Batch /\ right \in Batch
      BY <1>6
    <3>3. /\ <<left, right>> \o t \in Seq(Batch)
          /\ ToSet(<<left, right>> \o t) = {left, right} \cup ToSet(t)
      BY <3>2, MembersOfTwoFirst
    <3> QED
      BY <3>1, <3>3
  <2>2. SplitFirst(stack[w], l, r) = <<left, right>> \o Tail(stack[w])
    BY <1>1, <1>6 DEF SplitFirst
  <2>3. /\ SplitFirst(stack[w], l, r) \in Seq(Batch)
        /\ ToSet(SplitFirst(stack[w], l, r)) = {left, right} \cup ToSet(Tail(stack[w]))
    BY <2>1, <2>2
  <2> QED
    BY <1>4, <2>3 DEF BuffersInv, BatchType
<1>8. /\ \A v \in Workers : v # w => At(v)' = At(v)
      /\ left \in At(w)' /\ right \in At(w)' /\ At(w)' \subseteq At(w) \cup {left, right}
  BY <1>2, <1>3, <1>7 DEF At
<1>9. /\ left \in Batches' /\ right \in Batches'
      /\ \A b \in Batches' : b \in Batches \/ b = left \/ b = right
  BY <1>2, <1>8, BatchesAre
<1>10. /\ \A x \in writing' : x \in writing \/ (x.own = h.own /\ x.records = h.records)
       /\ writing' \subseteq Sent
  BY <1>2, <1>3, StillWritingIs
<1>11. BatchType'
  <2>1. \A v \in Workers : stack'[v] # <<>> => job[v] # <<>>
    BY <1>2, <1>7 DEF BuffersInv, BatchType
  <2> QED
    BY <1>2, <1>7, <1>10, <2>1 DEF BuffersInv, BatchType
<1>12. /\ HeapType' /\ CallType' /\ Accumulated' /\ OneOwner' /\ RecordsApart' /\ BodiesApart'
       /\ HeldIntact' /\ QueuedIntact' /\ BatchesIntact'
  BY <1>3, <1>4, <1>5, <1>9, <1>10, <1>11, SplitKeeps
<1>13. BatchesApart'
  <2>1. ASSUME NEW d \in Batches, Strangers(h, d) \/ Strangers(d, h), NEW b \in {left, right}
        PROVE  Strangers(b, d) /\ Strangers(d, b)
    BY <1>3, <1>4, <1>5, <2>1, HalvesStrange
  <2>2. ASSUME NEW D, D \subseteq Batches, Apart(D, At(w)) PROVE Apart(D, At(w)')
    BY <1>3, <1>8, <2>1, <2>2 DEF Apart
  <2>3. ASSUME NEW D, D \subseteq Batches, Apart(At(w), D) PROVE Apart(At(w)', D)
    BY <1>3, <1>8, <2>1, <2>3 DEF Apart
  <2>4. /\ ToSet(todo) \subseteq Batches /\ ToSet(jobs) \subseteq Batches
        /\ \A v \in Workers : At(v) \subseteq Batches
    BY BatchesAre
  <2>5. ASSUME NEW v \in Workers PROVE Apart(ToSet(todo), At(v)') /\ Apart(ToSet(jobs), At(v)')
    <3>1. CASE v = w
      BY <2>2, <2>4, <3>1 DEF BuffersInv, BatchesApart
    <3>2. CASE v # w
      BY <1>8, <3>2 DEF BuffersInv, BatchesApart
    <3> QED
      BY <3>1, <3>2
  <2>6. ASSUME NEW u \in Workers, NEW v \in Workers, u # v PROVE Apart(At(u)', At(v)')
    <3>1. Apart(At(u), At(v))
      BY <2>6 DEF BuffersInv, BatchesApart
    <3>2. CASE u = w
      BY <1>8, <2>3, <2>4, <2>6, <3>1, <3>2
    <3>3. CASE v = w
      BY <1>8, <2>2, <2>4, <2>6, <3>1, <3>3
    <3>4. CASE u # w /\ v # w
      BY <1>8, <3>1, <3>4
    <3> QED
      BY <3>2, <3>3, <3>4
  <2> QED
    BY <1>2, <2>5, <2>6 DEF BuffersInv, BatchesApart
<1> QED
  BY <1>11, <1>12, <1>13 DEF BuffersInv

-----------------------------------------------------------------------------
(* The theorems.                                                           *)

\* When nothing moves.
LEMMA NothingStep == ASSUME BuffersInv, UNCHANGED vars PROVE BuffersInv'
<1>1. /\ identity' = identity /\ bytes' = bytes /\ ends' = ends
      /\ recordBufs' = recordBufs /\ batchBufs' = batchBufs /\ call' = call /\ held' = held
      /\ queue' = queue /\ received' = received /\ buf' = buf /\ bounds' = bounds
      /\ carried' = carried /\ todo' = todo /\ jobs' = jobs /\ job' = job /\ stack' = stack
      /\ writing' = writing
  BY DEF vars, poolVars, callVars, senderVars, workerVars
<1>2. HeapType' /\ CallType' /\ BatchType' /\ Accumulated'
  BY <1>1 DEF BuffersInv, HeapType, CallType, BatchType, Accumulated
<1>3. Batches' = Batches /\ Items' = Items /\ (\A w \in Workers : At(w)' = At(w))
  BY <1>1 DEF Batches, Items, At
<1>4. Referenced' = Referenced
  BY <1>1, <1>3 DEF Referenced
<1>5. OneOwner'
  BY <1>1, <1>4 DEF BuffersInv, OneOwner, Pooled
<1>6. RecordsApart' /\ BatchesApart' /\ BodiesApart'
  BY <1>1, <1>3 DEF BuffersInv, RecordsApart, BatchesApart, BodiesApart
<1>7. HeldIntact' /\ QueuedIntact'
  BY <1>1 DEF BuffersInv, HeldIntact, QueuedIntact
<1>8. BatchesIntact'
  <2>1. Untouched
    BY <1>1 DEF Untouched
  <2>2. \A b \in Batches' : b \in Batches
    BY <1>3
  <2>3. \A x \in writing' : x \in writing
    BY <1>1
  <2> QED
    BY <1>1, <1>2, <2>1, <2>2, <2>3, BatchesStay
<1> QED
  BY <1>2, <1>5, <1>6, <1>7, <1>8 DEF BuffersInv

\* Every step of the specification preserves the invariant.
LEMMA InvStep == BuffersInv /\ [Next \/ (Resolved /\ UNCHANGED vars)]_vars => BuffersInv'
<1> SUFFICES ASSUME BuffersInv, [Next \/ (Resolved /\ UNCHANGED vars)]_vars PROVE BuffersInv'
  OBVIOUS
<1>1. CASE \E r \in Records : Encode(r) \/ Offer(r)
  BY <1>1, EncodeStep, OfferSent, OfferDropped DEF Offer
<1>2. CASE Receive
  BY <1>2, ReceiveStep
<1>3. CASE AppendRecord
  BY <1>3, AppendStep
<1>4. CASE Flush
  BY <1>4, FlushStep
<1>5. CASE DispatchDrops
  BY <1>5, DispatchDropsStep
<1>6. CASE DispatchSplit
  BY <1>6, DispatchSplitStep
<1>7. CASE HandOff
  BY <1>7, HandOffStep
<1>8. CASE \E w \in Workers : WorkerReceive(w)
  BY <1>8, WorkerReceiveStep
<1>9. CASE \E w \in Workers : Attempt(w)
  BY <1>9, AttemptStep
<1>10. CASE \E w \in Workers : AttemptSplits(w)
  BY <1>10, AttemptSplitsStep
<1>11. CASE \E w \in Workers : WorkerReleases(w)
  BY <1>11, WorkerReleasesStep
<1>12. CASE WriteEnds
  BY <1>12, WriteEndsStep
<1>13. CASE UNCHANGED vars
  BY <1>13, NothingStep
<1> QED
  BY <1>1, <1>2, <1>3, <1>4, <1>5, <1>6, <1>7, <1>8, <1>9, <1>10, <1>11, <1>12, <1>13 DEF Next

\* The invariant holds throughout, however the callers, the sender, the workers and
\* net/http take turns, and whatever the pools keep or lose.
THEOREM Shared == Spec => []BuffersInv
<1>1. Init => BuffersInv
  BY InvInit
<1>2. BuffersInv /\ [Next \/ (Resolved /\ UNCHANGED vars)]_vars => BuffersInv'
  BY InvStep
<1> QED
  BY <1>1, <1>2, PTL DEF Spec

\* OneOwner: no buffer is given back twice, to one pool or to both, or while a
\* caller, the queue, a batch or net/http still uses it (putRecordBuf, putBatchBufs
\* and releaseBatch on every path).
THEOREM NeverGivenBackTwice == Spec => []OneOwner
<1>1. BuffersInv => OneOwner
  BY DEF BuffersInv
<1> QED
  BY <1>1, Shared, PTL

\* QueuedIntact: the sender copies each record as its caller encoded it, however
\* often the buffer has been through the pool (Enqueue, appendRecord).
THEOREM QueuedAsEncoded == Spec => []QueuedIntact
<1>1. BuffersInv => QueuedIntact
  BY DEF BuffersInv
<1> QED
  BY <1>1, Shared, PTL

\* RawIntact: a batch, and each half of it at any depth of splitting, reads its own
\* records at their own bounds until it is resolved (split, releaseBatch).
THEOREM HalvesReadTheirRecords == Spec => []RawIntact
<1>1. BuffersInv => RawIntact
  BY DEF BuffersInv, BatchesIntact, Intact, RawIntact
<1> QED
  BY <1>1, Shared, PTL

\* BodyIntact: a body is the framing of whole records, while it is uploaded and for
\* as long as net/http reads it after do has returned (pack, do).
THEOREM WireCarriesWholeRecords == Spec => []BodyIntact
<1>1. BuffersInv => BodyIntact
  BY DEF BuffersInv, BatchesIntact, Intact, BodyIntact
<1> QED
  BY <1>1, Shared, PTL

=============================================================================
