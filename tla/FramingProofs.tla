---------------------------- MODULE FramingProofs ----------------------------
(* Framing: configuration records are read as they were written and only if *)
(* they are whole, samples are rewritten exactly if they are tiled, and the *)
(* parser finds every unit of a stream, for all streams and sample sizes.  *)
EXTENDS FramingLemmas

-----------------------------------------------------------------------------
(* Reading a record: units and arrays of units, each counted. A reading that *)
(* fails stays Nothing.                                                    *)

Readings == {Nothing} \cup [ok : {TRUE}, pos : Nat, nals : Seq(Data)]

\* A reading has failed or is a position with units.
LEMMA ReadingCases ==
  ASSUME NEW r \in Readings
  PROVE  \/ r = Nothing /\ r.ok = FALSE
         \/ /\ r.ok = TRUE /\ r.pos \in Nat /\ r.nals \in Seq(Data)
            /\ r = From(r.pos, r.nals)
<1>1. CASE r = Nothing
  BY <1>1 DEF Nothing
<1>2. CASE r \in [ok : {TRUE}, pos : Nat, nals : Seq(Data)]
  BY <1>2 DEF From
<1>3. QED
  BY <1>1, <1>2 DEF Readings

\* A position with units is a reading.
LEMMA FromIsReading ==
  ASSUME NEW pos \in Nat, NEW nals \in Seq(Data)
  PROVE  From(pos, nals) \in Readings /\ From(pos, nals).ok = TRUE
         /\ From(pos, nals).pos = pos /\ From(pos, nals).nals = nals
BY DEF From, Readings

\* A turn of read_units that succeeds moves past a unit within the record.
LEMMA ReadUnitType ==
  ASSUME NEW rec \in Data, NEW r \in Readings
  PROVE  /\ ReadUnit(rec, r) \in Readings
         /\ ReadUnit(rec, r).ok =>
              /\ r.ok /\ Has(rec, r.pos, 2) /\ be(Slice(rec, r.pos, 2)) \in Nat
              /\ Has(rec, r.pos + 2, be(Slice(rec, r.pos, 2)))
              /\ ReadUnit(rec, r).pos = r.pos + 2 + be(Slice(rec, r.pos, 2))
              /\ ReadUnit(rec, r).pos <= Len(rec)
<1> DEFINE len == be(Slice(rec, r.pos, 2))
           u == Slice(rec, r.pos + 2, len)
<1>0. Nothing \in Readings /\ Nothing.ok = FALSE
  BY DEF Readings, Nothing
<1>1. ReadUnit(rec, r) = IF ~r.ok \/ ~Has(rec, r.pos, 2) THEN Nothing
        ELSE IF ~Has(rec, r.pos + 2, len) THEN Nothing
        ELSE From(r.pos + 2 + len, IF len = 0 THEN r.nals ELSE Append(r.nals, u))
  BY DEF ReadUnit, From
<1>2. CASE ~r.ok \/ ~Has(rec, r.pos, 2)
  BY <1>0, <1>1, <1>2
<1>3. CASE r.ok /\ Has(rec, r.pos, 2)
  <2>1. r.pos \in Nat /\ r.nals \in Seq(Data)
    BY <1>3, ReadingCases
  <2>2. len \in Nat
    <3>1. Slice(rec, r.pos, 2) \in Data
      BY <1>3, <2>1, SliceData
    <3>2. QED
      BY <3>1, beNat
  <2> HIDE DEF len
  <2>3. CASE ~Has(rec, r.pos + 2, len)
    BY <1>0, <1>1, <2>3
  <2>4. CASE Has(rec, r.pos + 2, len)
    <3>1. r.pos + 2 \in Nat /\ r.pos + 2 + len \in Nat /\ r.pos + 2 + len <= Len(rec)
      BY <2>1, <2>2, <2>4 DEF Has
    <3>2. u \in Data
      BY <2>2, <2>4, <3>1, SliceData
    <3> HIDE DEF u
    <3> DEFINE more == IF len = 0 THEN r.nals ELSE Append(r.nals, u)
    <3>3. more \in Seq(Data)
      BY <2>1, <3>2
    <3> HIDE DEF more
    <3>4. ReadUnit(rec, r) = From(r.pos + 2 + len, more)
      BY <1>1, <1>3, <2>4 DEF more
    <3>5. /\ From(r.pos + 2 + len, more) \in Readings
          /\ From(r.pos + 2 + len, more).pos = r.pos + 2 + len
      BY <3>1, <3>3, FromIsReading
    <3>6. QED
      BY <1>3, <2>2, <2>4, <3>1, <3>4, <3>5 DEF len
  <2>5. QED
    BY <2>3, <2>4
<1>4. QED
  BY <1>2, <1>3

\* a is the iteration within read_units.
IsReading(a, rec, r, n) ==
  a \in [0..n -> Readings] /\ a[0] = r /\ \A i \in 1..n : a[i] = ReadUnit(rec, a[i - 1])

\* read_units is an iteration of ReadUnit.
LEMMA ReadUnitsDef ==
  ASSUME NEW rec \in Data, NEW r \in Readings, NEW n \in Nat
  PROVE  \E a : IsReading(a, rec, r, n) /\ read_units(rec, r, n) = a[n]
<1> DEFINE Q(v) == v = [i \in 0..n |-> IF i = 0 THEN r ELSE ReadUnit(rec, v[i - 1])]
           step == [i \in 1..n |-> [s \in Readings |-> ReadUnit(rec, s)]]
           h == CHOOSE v : Q(v)
<1>1. read_units(rec, r, n) = h[n]
  BY DEF read_units
<1>2. \A s \in Readings : ReadUnit(rec, s) \in Readings
  BY ReadUnitType
<1>3. step \in [1..n -> [Readings -> Readings]]
  BY <1>2
<1>4. PICK g : IsIteration(g, Readings, n, r, step)
  <2> HIDE DEF step
  <2>1. QED
    BY <1>3, Iterates
<1>5. g \in [0..n -> Readings] /\ g[0] = r
  BY <1>4 DEF IsIteration
<1>6. ASSUME NEW i \in 1..n PROVE g[i] = ReadUnit(rec, g[i - 1])
  <2>1. i - 1 \in 0..n /\ g[i - 1] \in Readings
    BY <1>5
  <2>2. QED
    BY <1>4, <2>1 DEF IsIteration
<1>7. Q(g)
  <2>1. \A i \in 0..n : i # 0 => i \in 1..n
    OBVIOUS
  <2>2. \A i \in 0..n : g[i] = IF i = 0 THEN r ELSE ReadUnit(rec, g[i - 1])
    BY <1>5, <1>6, <2>1
  <2>3. QED
    BY <1>5, <2>2
<1>8. Q(h)
  <2> HIDE DEF Q
  <2>1. QED
    BY <1>7
<1> HIDE DEF h
<1>9. h[0] = r /\ \A i \in 1..n : h[i] = ReadUnit(rec, h[i - 1])
  BY <1>8
<1>10. h \in [0..n -> Readings]
  <2> DEFINE T == {i \in Nat : h[i] \in Readings}
  <2>1. 0 \in T
    BY <1>9
  <2>2. ASSUME NEW i \in 1..n, i - 1 \in T PROVE i \in T
    BY <1>2, <1>9, <2>2
  <2> HIDE DEF T
  <2>3. \A i \in 0..n : i \in T
    BY <2>1, <2>2, InductUpTo
  <2>4. \A i \in 0..n : h[i] \in Readings
    BY <2>3 DEF T
  <2>5. QED
    BY <1>8, <2>4
<1>11. QED
  BY <1>1, <1>9, <1>10 DEF IsReading

\* Iterations from the same reading agree.
LEMMA ReadingUnique ==
  ASSUME NEW rec \in Data, NEW r \in Readings, NEW n \in Nat, NEW m \in 0..n,
         NEW a, IsReading(a, rec, r, n), NEW c, IsReading(c, rec, r, m)
  PROVE  a[m] = c[m]
<1> DEFINE T == {i \in 0..m : a[i] = c[i]}
<1>1. 0 \in T
  BY DEF IsReading
<1>2. ASSUME NEW i \in 1..m, i - 1 \in T PROVE i \in T
  <2>1. i \in 1..n /\ i \in 0..m
    OBVIOUS
  <2>2. a[i] = ReadUnit(rec, a[i - 1]) /\ c[i] = ReadUnit(rec, c[i - 1])
    BY <2>1 DEF IsReading
  <2>3. QED
    BY <1>2, <2>1, <2>2
<1> HIDE DEF T
<1>3. \A i \in 0..m : i \in T
  BY <1>1, <1>2, InductUpTo
<1>4. QED
  BY <1>3 DEF T

\* read_units, by its count.
LEMMA ReadUnitsSteps ==
  ASSUME NEW rec \in Data, NEW r \in Readings
  PROVE  /\ read_units(rec, r, 0) = r
         /\ \A n \in Nat : /\ read_units(rec, r, n) \in Readings
                           /\ read_units(rec, r, n + 1) = ReadUnit(rec, read_units(rec, r, n))
<1>1. read_units(rec, r, 0) = r
  <2>1. PICK a : IsReading(a, rec, r, 0) /\ read_units(rec, r, 0) = a[0]
    BY ReadUnitsDef
  <2>2. QED
    BY <2>1 DEF IsReading
<1>2. ASSUME NEW n \in Nat
      PROVE  /\ read_units(rec, r, n) \in Readings
             /\ read_units(rec, r, n + 1) = ReadUnit(rec, read_units(rec, r, n))
  <2>1. PICK c : IsReading(c, rec, r, n) /\ read_units(rec, r, n) = c[n]
    BY ReadUnitsDef
  <2>2. n + 1 \in Nat /\ n \in 0..(n + 1) /\ n + 1 \in 1..(n + 1) /\ (n + 1) - 1 = n
        /\ n \in 0..n
    OBVIOUS
  <2>3. PICK a : IsReading(a, rec, r, n + 1) /\ read_units(rec, r, n + 1) = a[n + 1]
    BY <2>2, ReadUnitsDef
  <2>4. a[n] = c[n]
    BY <2>1, <2>2, <2>3, ReadingUnique
  <2>5. a[n + 1] = ReadUnit(rec, a[n])
    BY <2>2, <2>3 DEF IsReading
  <2>6. c[n] \in Readings
    BY <2>1, <2>2 DEF IsReading
  <2>7. QED
    BY <2>1, <2>3, <2>4, <2>5, <2>6
<1>3. QED
  BY <1>1, <1>2

\* read_units ends within the record.
LEMMA ReadUnitsEnd ==
  ASSUME NEW rec \in Data, NEW r \in Readings, r.ok => r.pos <= Len(rec), NEW n \in Nat,
         read_units(rec, r, n).ok
  PROVE  read_units(rec, r, n).pos <= Len(rec)
<1>1. CASE n = 0
  BY <1>1, ReadUnitsSteps
<1>2. CASE n # 0
  <2>1. n - 1 \in Nat /\ (n - 1) + 1 = n
    BY <1>2
  <2> DEFINE s == read_units(rec, r, n - 1)
  <2>2. s \in Readings /\ read_units(rec, r, n) = ReadUnit(rec, s)
    BY <2>1, ReadUnitsSteps
  <2> HIDE DEF s
  <2>3. QED
    BY <2>2, ReadUnitType
<1>3. QED
  BY <1>1, <1>2

\* An array that is read is units behind three bytes, within the record.
LEMMA ReadArrayType ==
  ASSUME NEW rec \in Data, NEW r \in Readings
  PROVE  /\ ReadArray(rec, r) \in Readings
         /\ ReadArray(rec, r).ok =>
              /\ r.ok /\ r.pos \in Nat /\ r.nals \in Seq(Data) /\ Has(rec, r.pos + 1, 2)
              /\ be(Slice(rec, r.pos + 1, 2)) \in Nat
              /\ ReadArray(rec, r) = read_units(rec, From(r.pos + 3, r.nals),
                                                be(Slice(rec, r.pos + 1, 2)))
              /\ ReadArray(rec, r).pos <= Len(rec)
<1> DEFINE len == be(Slice(rec, r.pos + 1, 2))
           s == From(r.pos + 3, r.nals)
<1>0. Nothing \in Readings /\ Nothing.ok = FALSE
  BY DEF Readings, Nothing
<1>1. ReadArray(rec, r) = IF ~r.ok \/ ~Has(rec, r.pos + 1, 2) THEN Nothing
                          ELSE read_units(rec, s, len)
  BY DEF ReadArray
<1>2. CASE ~r.ok \/ ~Has(rec, r.pos + 1, 2)
  BY <1>0, <1>1, <1>2
<1>3. CASE r.ok /\ Has(rec, r.pos + 1, 2)
  <2>1. r.pos \in Nat /\ r.nals \in Seq(Data)
    BY <1>3, ReadingCases
  <2>2. len \in Nat
    <3>1. r.pos + 1 \in Nat
      BY <2>1
    <3>2. Slice(rec, r.pos + 1, 2) \in Data
      BY <1>3, <3>1, SliceData
    <3>3. QED
      BY <3>2, beNat
  <2>3. r.pos + 3 \in Nat /\ r.pos + 3 <= Len(rec)
    BY <1>3, <2>1 DEF Has
  <2>4. s \in Readings /\ s.pos = r.pos + 3
    BY <2>1, <2>3, FromIsReading
  <2>5. s.pos <= Len(rec)
    BY <2>3, <2>4
  <2> HIDE DEF s, len
  <2>6. read_units(rec, s, len) \in Readings
    BY <2>2, <2>4, ReadUnitsSteps
  <2>7. read_units(rec, s, len).ok => read_units(rec, s, len).pos <= Len(rec)
    BY <2>2, <2>4, <2>5, ReadUnitsEnd
  <2>8. ReadArray(rec, r) = read_units(rec, s, len)
    BY <1>1, <1>3
  <2>9. QED
    BY <1>3, <2>1, <2>2, <2>6, <2>7, <2>8 DEF s, len
<1>4. QED
  BY <1>2, <1>3

\* a is the iteration within ReadArrays.
IsReadingArrays(a, rec, r, n) ==
  a \in [0..n -> Readings] /\ a[0] = r /\ \A i \in 1..n : a[i] = ReadArray(rec, a[i - 1])

\* ReadArrays is an iteration of ReadArray.
LEMMA ReadArraysDef ==
  ASSUME NEW rec \in Data, NEW r \in Readings, NEW n \in Nat
  PROVE  \E a : IsReadingArrays(a, rec, r, n) /\ ReadArrays(rec, r, n) = a[n]
<1> DEFINE Q(v) == v = [i \in 0..n |-> IF i = 0 THEN r ELSE ReadArray(rec, v[i - 1])]
           step == [i \in 1..n |-> [s \in Readings |-> ReadArray(rec, s)]]
           h == CHOOSE v : Q(v)
<1>1. ReadArrays(rec, r, n) = h[n]
  BY DEF ReadArrays
<1>2. \A s \in Readings : ReadArray(rec, s) \in Readings
  BY ReadArrayType
<1>3. step \in [1..n -> [Readings -> Readings]]
  BY <1>2
<1>4. PICK g : IsIteration(g, Readings, n, r, step)
  <2> HIDE DEF step
  <2>1. QED
    BY <1>3, Iterates
<1>5. g \in [0..n -> Readings] /\ g[0] = r
  BY <1>4 DEF IsIteration
<1>6. ASSUME NEW i \in 1..n PROVE g[i] = ReadArray(rec, g[i - 1])
  <2>1. i - 1 \in 0..n /\ g[i - 1] \in Readings
    BY <1>5
  <2>2. QED
    BY <1>4, <2>1 DEF IsIteration
<1>7. Q(g)
  <2>1. \A i \in 0..n : i # 0 => i \in 1..n
    OBVIOUS
  <2>2. \A i \in 0..n : g[i] = IF i = 0 THEN r ELSE ReadArray(rec, g[i - 1])
    BY <1>5, <1>6, <2>1
  <2>3. QED
    BY <1>5, <2>2
<1>8. Q(h)
  <2> HIDE DEF Q
  <2>1. QED
    BY <1>7
<1> HIDE DEF h
<1>9. h[0] = r /\ \A i \in 1..n : h[i] = ReadArray(rec, h[i - 1])
  BY <1>8
<1>10. h \in [0..n -> Readings]
  <2> DEFINE T == {i \in Nat : h[i] \in Readings}
  <2>1. 0 \in T
    BY <1>9
  <2>2. ASSUME NEW i \in 1..n, i - 1 \in T PROVE i \in T
    BY <1>2, <1>9, <2>2
  <2> HIDE DEF T
  <2>3. \A i \in 0..n : i \in T
    BY <2>1, <2>2, InductUpTo
  <2>4. \A i \in 0..n : h[i] \in Readings
    BY <2>3 DEF T
  <2>5. QED
    BY <1>8, <2>4
<1>11. QED
  BY <1>1, <1>9, <1>10 DEF IsReadingArrays

\* Iterations from the same reading agree.
LEMMA ReadingArraysUnique ==
  ASSUME NEW rec \in Data, NEW r \in Readings, NEW n \in Nat, NEW m \in 0..n,
         NEW a, IsReadingArrays(a, rec, r, n), NEW c, IsReadingArrays(c, rec, r, m)
  PROVE  a[m] = c[m]
<1> DEFINE T == {i \in 0..m : a[i] = c[i]}
<1>1. 0 \in T
  BY DEF IsReadingArrays
<1>2. ASSUME NEW i \in 1..m, i - 1 \in T PROVE i \in T
  <2>1. i \in 1..n /\ i \in 0..m
    OBVIOUS
  <2>2. a[i] = ReadArray(rec, a[i - 1]) /\ c[i] = ReadArray(rec, c[i - 1])
    BY <2>1 DEF IsReadingArrays
  <2>3. QED
    BY <1>2, <2>1, <2>2
<1> HIDE DEF T
<1>3. \A i \in 0..m : i \in T
  BY <1>1, <1>2, InductUpTo
<1>4. QED
  BY <1>3 DEF T

\* ReadArrays, by its count.
LEMMA ReadArraysSteps ==
  ASSUME NEW rec \in Data, NEW r \in Readings
  PROVE  /\ ReadArrays(rec, r, 0) = r
         /\ \A n \in Nat : /\ ReadArrays(rec, r, n) \in Readings
                           /\ ReadArrays(rec, r, n + 1) = ReadArray(rec, ReadArrays(rec, r, n))
<1>1. ReadArrays(rec, r, 0) = r
  <2>1. PICK a : IsReadingArrays(a, rec, r, 0) /\ ReadArrays(rec, r, 0) = a[0]
    BY ReadArraysDef
  <2>2. QED
    BY <2>1 DEF IsReadingArrays
<1>2. ASSUME NEW n \in Nat
      PROVE  /\ ReadArrays(rec, r, n) \in Readings
             /\ ReadArrays(rec, r, n + 1) = ReadArray(rec, ReadArrays(rec, r, n))
  <2>1. PICK c : IsReadingArrays(c, rec, r, n) /\ ReadArrays(rec, r, n) = c[n]
    BY ReadArraysDef
  <2>2. n + 1 \in Nat /\ n \in 0..(n + 1) /\ n + 1 \in 1..(n + 1) /\ (n + 1) - 1 = n
        /\ n \in 0..n
    OBVIOUS
  <2>3. PICK a : IsReadingArrays(a, rec, r, n + 1) /\ ReadArrays(rec, r, n + 1) = a[n + 1]
    BY <2>2, ReadArraysDef
  <2>4. a[n] = c[n]
    BY <2>1, <2>2, <2>3, ReadingArraysUnique
  <2>5. a[n + 1] = ReadArray(rec, a[n])
    BY <2>2, <2>3 DEF IsReadingArrays
  <2>6. c[n] \in Readings
    BY <2>1, <2>2 DEF IsReadingArrays
  <2>7. QED
    BY <2>1, <2>3, <2>4, <2>5, <2>6
<1>3. QED
  BY <1>1, <1>2

-----------------------------------------------------------------------------
(* Records that are cut short.                                             *)

\* A slice of the beginning of a record is that slice of the record.
LEMMA SlicePrefix ==
  ASSUME NEW full \in Data, NEW m \in 0..Len(full), NEW pos \in Nat, NEW n \in Nat,
         Has(SubSeq(full, 1, m), pos, n)
  PROVE  /\ Has(full, pos, n)
         /\ Slice(full, pos, n) = Slice(SubSeq(full, 1, m), pos, n)
<1> DEFINE rec == SubSeq(full, 1, m)
           v == Slice(full, pos, n)
           w == Slice(rec, pos, n)
<1>1. rec \in Data /\ Len(rec) = m /\ \A i \in 1..m : rec[i] = full[i]
  BY PrefixData
<1>2. Len(full) \in Nat /\ m \in Nat
  BY DataProperties
<1> HIDE DEF rec
<1>3. Has(rec, pos, n) /\ Has(full, pos, n)
  BY <1>1, <1>2 DEF Has, rec
<1>4. v \in Data /\ Len(v) = n /\ \A i \in 1..n : v[i] = full[pos + i]
  BY <1>3, SliceData
<1>5. w \in Data /\ Len(w) = n /\ \A i \in 1..n : w[i] = rec[pos + i]
  BY <1>1, <1>3, SliceData
<1> HIDE DEF v, w
<1>6. ASSUME NEW i \in 1..n PROVE v[i] = w[i]
  <2>1. pos + i \in 1..m
    BY <1>1, <1>2, <1>3 DEF Has
  <2>2. QED
    BY <1>1, <1>4, <1>5, <2>1
<1>7. v = w
  BY <1>4, <1>5, <1>6, SeqEqual DEF Data
<1>8. QED
  BY <1>3, <1>7 DEF v, w, rec

\* What a cut record still has of a unit is what the whole record has there.
LEMMA ReadUnitOfPrefix ==
  ASSUME NEW full \in Data, NEW m \in 0..Len(full), NEW r \in Readings,
         ReadUnit(SubSeq(full, 1, m), r).ok
  PROVE  ReadUnit(full, r) = ReadUnit(SubSeq(full, 1, m), r)
<1> DEFINE rec == SubSeq(full, 1, m)
           len == be(Slice(rec, r.pos, 2))
<1>1. rec \in Data
  BY PrefixData
<1>2. r.ok /\ Has(rec, r.pos, 2) /\ len \in Nat /\ Has(rec, r.pos + 2, len)
  BY <1>1, ReadUnitType
<1>8. r.ok
  BY <1>2
<1>9. r.pos \in Nat
  BY <1>8, ReadingCases
<1>3. r.pos \in Nat /\ r.pos + 2 \in Nat
  BY <1>9
<1>4. Has(full, r.pos, 2) /\ Slice(full, r.pos, 2) = Slice(rec, r.pos, 2)
  BY <1>2, <1>3, SlicePrefix
<1>5. be(Slice(full, r.pos, 2)) = len
  BY <1>4
<1> HIDE DEF len
<1>6. Has(full, r.pos + 2, len) /\ Slice(full, r.pos + 2, len) = Slice(rec, r.pos + 2, len)
  BY <1>2, <1>3, SlicePrefix
<1> HIDE DEF rec
<1>7. QED
  BY <1>2, <1>4, <1>5, <1>6 DEF ReadUnit, rec, len

\* The same of a list of units.
LEMMA ReadUnitsOfPrefix ==
  ASSUME NEW full \in Data, NEW m \in 0..Len(full), NEW r \in Readings, NEW n \in Nat,
         read_units(SubSeq(full, 1, m), r, n).ok
  PROVE  read_units(full, r, n) = read_units(SubSeq(full, 1, m), r, n)
<1> DEFINE rec == SubSeq(full, 1, m)
           T == {k \in Nat : read_units(rec, r, k).ok
                               => read_units(full, r, k) = read_units(rec, r, k)}
<1>1. rec \in Data
  BY PrefixData
<1> HIDE DEF rec
<1>2. 0 \in T
  BY <1>1, ReadUnitsSteps
<1>3. ASSUME NEW k \in Nat, k \in T PROVE k + 1 \in T
  <2> SUFFICES ASSUME read_units(rec, r, k + 1).ok
               PROVE  read_units(full, r, k + 1) = read_units(rec, r, k + 1)
    OBVIOUS
  <2> DEFINE s == read_units(rec, r, k)
  <2>1. s \in Readings /\ read_units(rec, r, k + 1) = ReadUnit(rec, s)
    BY <1>1, ReadUnitsSteps
  <2>2. s.ok
    <3> HIDE DEF s
    <3>1. QED
      BY <1>1, <2>1, ReadUnitType
  <2>3. read_units(full, r, k) = s
    BY <1>3, <2>2
  <2>4. read_units(full, r, k + 1) = ReadUnit(full, s)
    BY <2>3, ReadUnitsSteps
  <2> HIDE DEF s
  <2>5. ReadUnit(full, s) = ReadUnit(rec, s)
    BY <2>1, ReadUnitOfPrefix DEF rec
  <2>6. QED
    BY <2>1, <2>4, <2>5
<1> HIDE DEF T
<1>4. n \in T
  BY <1>2, <1>3, Induct
<1>5. QED
  BY <1>4 DEF T, rec

\* The same of an array.
LEMMA ReadArrayOfPrefix ==
  ASSUME NEW full \in Data, NEW m \in 0..Len(full), NEW r \in Readings,
         ReadArray(SubSeq(full, 1, m), r).ok
  PROVE  ReadArray(full, r) = ReadArray(SubSeq(full, 1, m), r)
<1> DEFINE rec == SubSeq(full, 1, m)
           len == be(Slice(rec, r.pos + 1, 2))
           s == From(r.pos + 3, r.nals)
<1>1. rec \in Data
  BY PrefixData
<1> HIDE DEF rec
<1>2. /\ r.ok /\ r.pos \in Nat /\ r.nals \in Seq(Data) /\ Has(rec, r.pos + 1, 2) /\ len \in Nat
      /\ ReadArray(rec, r) = read_units(rec, s, len) /\ ReadArray(rec, r).ok
  BY <1>1, ReadArrayType DEF rec
<1>3. r.pos + 1 \in Nat /\ r.pos + 3 \in Nat
  BY <1>2
<1>4. Has(full, r.pos + 1, 2) /\ Slice(full, r.pos + 1, 2) = Slice(rec, r.pos + 1, 2)
  BY <1>2, <1>3, SlicePrefix DEF rec
<1>5. ReadArray(full, r) = read_units(full, s, len)
  BY <1>2, <1>4 DEF ReadArray
<1>6. s \in Readings
  BY <1>2, <1>3, FromIsReading
<1> HIDE DEF s, len
<1>7. read_units(full, s, len) = read_units(rec, s, len)
  BY <1>2, <1>6, ReadUnitsOfPrefix DEF rec
<1>8. QED
  BY <1>2, <1>5, <1>7 DEF rec

\* The same of the arrays, which end before the cut.
LEMMA ReadArraysOfPrefix ==
  ASSUME NEW full \in Data, NEW m \in 0..Len(full), NEW r \in Readings, NEW n \in Nat,
         ReadArrays(SubSeq(full, 1, m), r, n).ok
  PROVE  /\ ReadArrays(full, r, n) = ReadArrays(SubSeq(full, 1, m), r, n)
         /\ r.pos <= m => ReadArrays(SubSeq(full, 1, m), r, n).pos <= m
<1> DEFINE rec == SubSeq(full, 1, m)
           T == {k \in Nat : ReadArrays(rec, r, k).ok =>
                   /\ ReadArrays(full, r, k) = ReadArrays(rec, r, k)
                   /\ r.pos <= m => ReadArrays(rec, r, k).pos <= m}
<1>1. rec \in Data /\ Len(rec) = m
  BY PrefixData
<1> HIDE DEF rec
<1>2. 0 \in T
  BY <1>1, ReadArraysSteps
<1>3. ASSUME NEW k \in Nat, k \in T PROVE k + 1 \in T
  <2> SUFFICES ASSUME ReadArrays(rec, r, k + 1).ok
               PROVE  /\ ReadArrays(full, r, k + 1) = ReadArrays(rec, r, k + 1)
                      /\ ReadArrays(rec, r, k + 1).pos <= m
    OBVIOUS
  <2> DEFINE s == ReadArrays(rec, r, k)
  <2>1. s \in Readings /\ ReadArrays(rec, r, k + 1) = ReadArray(rec, s)
    BY <1>1, ReadArraysSteps
  <2>2. s.ok /\ ReadArray(rec, s).pos <= m
    <3> HIDE DEF s
    <3>1. QED
      BY <1>1, <2>1, ReadArrayType, ZenonT(30)
  <2>3. ReadArrays(full, r, k) = s
    BY <1>3, <2>2
  <2>4. ReadArrays(full, r, k + 1) = ReadArray(full, s)
    BY <2>3, ReadArraysSteps
  <2> HIDE DEF s
  <2>5. ReadArray(full, s) = ReadArray(rec, s)
    BY <2>1, ReadArrayOfPrefix DEF rec
  <2>6. QED
    BY <2>1, <2>2, <2>4, <2>5
<1> HIDE DEF T
<1>4. n \in T
  BY <1>2, <1>3, Induct
<1>5. QED
  BY <1>4 DEF T, rec

-----------------------------------------------------------------------------
(* Records as they are written: units and arrays anywhere in a record.     *)

\* NonEmpty of one unit.
LEMMA NonEmptyOne ==
  ASSUME NEW u \in Data
  PROVE  NonEmpty(<<u>>) = IF u = <<>> THEN <<>> ELSE <<u>>
<1>1. <<>> \in Seq(Data)
  OBVIOUS
<1>2. QED
  BY <1>1, NonEmptyFacts

\* A unit behind its length, anywhere in a record, is read as that unit.
LEMMA ReadsOne ==
  ASSUME NEW pre \in Data, NEW u \in Fitting(2), NEW post \in Data, NEW nals \in Seq(Data)
  PROVE  ReadUnit(pre \o ((BigEndian(2, Len(u)) \o u) \o post), From(Len(pre), nals))
           = From(Len(pre) + (2 + Len(u)), nals \o NonEmpty(<<u>>))
<1> DEFINE x == BigEndian(2, Len(u))
           rec == pre \o ((x \o u) \o post)
           P == Len(pre)
           l == Len(u)
<1>1. u \in Data /\ l \in Nat /\ P \in Nat /\ Fits(2, l)
  BY DataProperties DEF Fitting
<1>2. x \in Data /\ Len(x) = 2 /\ be(x) = l
  BY <1>1, BigEndianFacts
<1> HIDE DEF x
<1>3. x \o u \in Data /\ Len(x \o u) = 2 + l /\ (x \o u) \o post \in Data
  BY <1>1, <1>2, ConcatData
<1>4. rec = (pre \o x) \o (u \o post) /\ rec = ((pre \o x) \o u) \o post
  <2>1. u \o post \in Data /\ pre \o x \in Data
    BY <1>1, <1>2, ConcatData
  <2>2. (x \o u) \o post = x \o (u \o post)
    BY <1>1, <1>2, DataAssociative
  <2>3. pre \o (x \o (u \o post)) = (pre \o x) \o (u \o post)
    BY <1>2, <2>1, DataAssociative, ZenonT(30)
  <2>4. (pre \o x) \o (u \o post) = ((pre \o x) \o u) \o post
    BY <1>1, <2>1, DataAssociative, ZenonT(30)
  <2>5. QED
    BY <2>2, <2>3, <2>4
<1>5. /\ rec \in Data /\ Slice(rec, P, 2) = x /\ Has(rec, P, 2)
  <2>1. u \o post \in Data /\ Len(u \o post) = l + Len(post) /\ Len(post) \in Nat
    BY <1>1, ConcatData, DataProperties
  <2> DEFINE c == u \o post
  <2>2. /\ (pre \o x) \o c \in Data /\ Len((pre \o x) \o c) = P + Len(x) + Len(c)
        /\ Slice((pre \o x) \o c, P, Len(x)) = x
    <3> HIDE DEF c
    <3>1. c \in Data
      BY <2>1 DEF c
    <3>2. QED
      BY <1>2, <3>1, SliceMiddle
  <2>3. QED
    BY <1>1, <1>2, <1>4, <2>1, <2>2 DEF Has
<1>6. /\ Slice(rec, P + 2, l) = u /\ Has(rec, P + 2, l)
  <2> DEFINE px == pre \o x
  <2>1. px \in Data /\ Len(px) = P + 2 /\ Len(post) \in Nat
    BY <1>2, ConcatData, DataProperties, ZenonT(30)
  <2> HIDE DEF px
  <2>2. /\ Len((px \o u) \o post) = Len(px) + l + Len(post)
        /\ Slice((px \o u) \o post, Len(px), l) = u
    BY <1>1, <2>1, SliceMiddle
  <2>3. rec = (px \o u) \o post
    BY <1>4 DEF px
  <2> HIDE DEF rec
  <2>4. QED
    BY <1>1, <2>1, <2>2, <2>3 DEF Has
<1> DEFINE kept == IF l = 0 THEN nals ELSE Append(nals, u)
<1>7. kept = nals \o NonEmpty(<<u>>)
  <2>1. NonEmpty(<<u>>) = IF u = <<>> THEN <<>> ELSE <<u>>
    BY <1>1, NonEmptyOne
  <2>2. CASE u = <<>>
    <3>1. l = 0 /\ NonEmpty(<<u>>) = <<>>
      BY <2>1, <2>2
    <3>2. QED
      BY <3>1, ConcatEmptySeq
  <2>3. CASE u # <<>>
    <3>1. l # 0 /\ NonEmpty(<<u>>) = <<u>>
      BY <1>1, <2>1, <2>3 DEF Data
    <3>2. Append(nals, u) = nals \o <<u>>
      BY <1>1, AppendIsConcat
    <3>3. QED
      BY <3>1, <3>2
  <2>4. QED
    BY <2>2, <2>3
<1> HIDE DEF rec, P, l
<1>8. ReadUnit(rec, From(P, nals)) = From(P + 2 + l, kept)
  <2>1. From(P, nals).ok = TRUE /\ From(P, nals).pos = P /\ From(P, nals).nals = nals
    BY DEF From
  <2>2. be(Slice(rec, P, 2)) = l
    BY <1>2, <1>5
  <2>3. QED
    BY <1>5, <1>6, <2>1, <2>2 DEF ReadUnit, From
<1>9. P + 2 + l = P + (2 + l)
  BY <1>1
<1>10. QED
  BY <1>7, <1>8, <1>9 DEF rec, P, l, x

\* A list of units, anywhere in a record, is read as those units.
LEMMA ReadsUnits ==
  ASSUME NEW pre \in Data, NEW us \in Seq(Fitting(2)), NEW post \in Data, NEW nals \in Seq(Data)
  PROVE  read_units(pre \o (LengthPrefixed(us, 2) \o post), From(Len(pre), nals), Len(us))
           = From(Len(pre) + Len(LengthPrefixed(us, 2)), nals \o NonEmpty(us))
<1> DEFINE P == Len(pre)
           r == From(P, nals)
           T == {s \in Seq(Fitting(2)) : \A z \in Data :
                   read_units(pre \o (LengthPrefixed(s, 2) \o z), r, Len(s))
                     = From(P + Len(LengthPrefixed(s, 2)), nals \o NonEmpty(s))}
<1>0. Fitting(2) \subseteq Data /\ P \in Nat /\ r \in Readings
  BY DataProperties, FromIsReading DEF Fitting
<1> HIDE DEF r
<1>1. <<>> \in T
  <2>1. <<>> \in Seq(Fitting(2)) /\ Len(<<>>) = 0
    OBVIOUS
  <2>2. LengthPrefixed(<<>>, 2) = <<>>
    BY PrefixedOfNone
  <2>3. ASSUME NEW z \in Data
        PROVE  read_units(pre \o (LengthPrefixed(<<>>, 2) \o z), r, 0) = r
    <3>1. LengthPrefixed(<<>>, 2) \o z \in Data
      BY <2>2, DataEmpty, ConcatData
    <3>2. pre \o (LengthPrefixed(<<>>, 2) \o z) \in Data
      BY <3>1, ConcatData
    <3>3. QED
      BY <1>0, <3>2, ReadUnitsSteps
  <2>4. P + Len(LengthPrefixed(<<>>, 2)) = P
    BY <1>0, <2>1, <2>2
  <2>5. nals \o NonEmpty(<<>>) = nals
    BY NonEmptyOfNone, ConcatEmptySeq
  <2>6. QED
    BY <2>1, <2>3, <2>4, <2>5 DEF r
<1>2. ASSUME NEW s \in Seq(Fitting(2)), NEW u \in Fitting(2), s \in T PROVE Append(s, u) \in T
  <2>1. s \in Seq(Data) /\ u \in Data /\ Append(s, u) \in Seq(Fitting(2))
        /\ Len(Append(s, u)) = Len(s) + 1 /\ Len(s) \in Nat
    BY <1>0, SeqMonotonic
  <2> DEFINE lp == LengthPrefixed(s, 2)
             one == BigEndian(2, Len(u)) \o u
  <2>2. lp \in Data /\ LengthPrefixed(Append(s, u), 2) = lp \o one
    BY <2>1, PrefixedFacts
  <2>3. one \in Data /\ Len(one) = 2 + Len(u) /\ Len(u) \in Nat /\ Len(lp) \in Nat
    BY <2>1, <2>2, PrefixedType, DataProperties
  <2> SUFFICES ASSUME NEW z \in Data
               PROVE  read_units(pre \o (LengthPrefixed(Append(s, u), 2) \o z), r, Len(s) + 1)
                        = From(P + Len(LengthPrefixed(Append(s, u), 2)),
                               nals \o NonEmpty(Append(s, u)))
    BY <2>1
  <2> DEFINE rest == one \o z
             rec == pre \o (lp \o rest)
             pl == pre \o lp
             got == nals \o NonEmpty(s)
  <2>4. read_units(pre \o (lp \o rest), r, Len(s)) = From(P + Len(lp), got)
    <3>1. rest \in Data
      BY <2>3, ConcatData
    <3> HIDE DEF rest, lp
    <3>2. QED
      BY <1>2, <3>1 DEF lp
  <2> HIDE DEF lp, one
  <2>5. rest \in Data /\ lp \o rest \in Data /\ pl \in Data /\ Len(pl) = P + Len(lp)
    BY <2>2, <2>3, ConcatData
  <2>7. LengthPrefixed(Append(s, u), 2) \o z = lp \o rest
    <3>1. (lp \o one) \o z = lp \o (one \o z)
      BY <2>2, <2>3, DataAssociative
    <3>2. QED
      BY <2>2, <3>1
  <2> HIDE DEF rest
  <2>6. rec \in Data /\ rec = pl \o rest
    <3>1. pl \o rest = pre \o (lp \o rest)
      <4>1. lp \in Data /\ rest \in Data
        BY <2>2, <2>5
      <4>2. QED
        BY <4>1, DataAssociative, SMTT(30)
    <3>2. pre \o (lp \o rest) \in Data
      BY <2>5, ConcatData
    <3>3. QED
      BY <3>1, <3>2
  <2>8. got \in Seq(Data)
    <3>1. NonEmpty(s) \in Seq(Data)
      BY <2>1, NonEmptyFacts
    <3>2. QED
      BY <3>1, ConcatType
  <2> HIDE DEF rest, rec, got
  <2>9. read_units(rec, r, Len(s) + 1) = ReadUnit(rec, From(Len(pl), got))
    <3>1. read_units(rec, r, Len(s) + 1) = ReadUnit(rec, read_units(rec, r, Len(s)))
      BY <1>0, <2>1, <2>6, ReadUnitsSteps
    <3>2. read_units(rec, r, Len(s)) = From(Len(pl), got)
      BY <2>4, <2>5 DEF rec
    <3>3. QED
      BY <3>1, <3>2
  <2> HIDE DEF pl
  <2>10. ReadUnit(pl \o rest, From(Len(pl), got))
           = From(Len(pl) + (2 + Len(u)), got \o NonEmpty(<<u>>))
    <3>1. pl \in Data /\ u \in Fitting(2) /\ z \in Data
      BY <2>5
    <3>2. ReadUnit(pl \o ((BigEndian(2, Len(u)) \o u) \o z), From(Len(pl), got))
            = From(Len(pl) + (2 + Len(u)), got \o NonEmpty(<<u>>))
      BY <2>8, <3>1, ReadsOne, ZenonT(30)
    <3>3. QED
      BY <3>2 DEF rest, one
  <2>11. got \o NonEmpty(<<u>>) = nals \o NonEmpty(Append(s, u))
    <3> DEFINE e == NonEmpty(s)
               o == NonEmpty(<<u>>)
               a == NonEmpty(Append(s, u))
    <3>1. e \in Seq(Data) /\ a = e \o o
      BY <2>1, NonEmptyAppend, ZenonT(30)
    <3>2. o \in Seq(Data)
      <4>1. o = IF u = <<>> THEN <<>> ELSE <<u>>
        BY <2>1, NonEmptyOne
      <4> HIDE DEF o
      <4>2. QED
        BY <2>1, <4>1
    <3>3. got = nals \o e
      BY DEF got
    <3> HIDE DEF e, o, a
    <3>4. (nals \o e) \o o = nals \o (e \o o)
      BY <3>1, <3>2, ConcatAssociative, SMTT(30)
    <3>5. got \o o = nals \o a
      BY <3>1, <3>3, <3>4
    <3>6. QED
      BY <3>5 DEF o, a
  <2>12. Len(pl) + (2 + Len(u)) = P + Len(LengthPrefixed(Append(s, u), 2))
    <3>1. Len(lp \o one) = Len(lp) + (2 + Len(u))
      BY <2>2, <2>3, ConcatData
    <3>2. Len(LengthPrefixed(Append(s, u), 2)) = Len(lp) + (2 + Len(u))
      BY <2>2, <3>1
    <3>3. Len(pl) = P + Len(lp) /\ P \in Nat /\ Len(lp) \in Nat /\ Len(u) \in Nat
      BY <1>0, <2>3, <2>5
    <3> DEFINE a == Len(LengthPrefixed(Append(s, u), 2))
               b == Len(pl)
               c == Len(lp)
               d == Len(u)
    <3>4. a = c + (2 + d) /\ b = P + c /\ P \in Nat /\ c \in Nat /\ d \in Nat
      BY <3>2, <3>3
    <3> HIDE DEF a, b, c, d, P
    <3>5. b + (2 + d) = P + a
      BY <3>4
    <3>6. QED
      BY <3>5 DEF a, b, d, P
  <2>13. QED
    BY <2>6, <2>7, <2>9, <2>10, <2>11, <2>12 DEF rec
<1> HIDE DEF T
<1>3. us \in T
  BY <1>1, <1>2, InductSeq
<1>4. QED
  BY <1>3 DEF T, r

-----------------------------------------------------------------------------
(* Arrays of units, as an hvcC has them.                                   *)

Lists == {a \in Seq(Fitting(2)) : Fits(2, Len(a))}

\* The types of an array's units.
LEMMA ListData ==
  ASSUME NEW a \in Lists
  PROVE  a \in Seq(Data) /\ a \in Seq(Fitting(2)) /\ Len(a) \in Nat /\ Fits(2, Len(a))
<1>1. Fitting(2) \subseteq Data
  BY DEF Fitting
<1>2. a \in Seq(Fitting(2)) /\ Fits(2, Len(a))
  BY DEF Lists
<1>3. a \in Seq(Data)
  BY <1>1, <1>2, SeqMonotonic
<1>4. Len(a) \in Nat
  BY <1>3
<1>5. QED
  BY <1>2, <1>3, <1>4

\* The bytes of an array.
LEMMA ArrayData ==
  ASSUME NEW a \in Seq(Data)
  PROVE  /\ HevcArray(a) \in Data /\ LengthPrefixed(a, 2) \in Data
         /\ Len(HevcArray(a)) = 3 + Len(LengthPrefixed(a, 2))
<1> DEFINE t == <<32>>
           x == BigEndian(2, Len(a))
           lp == LengthPrefixed(a, 2)
<1>1. t \in Data /\ Len(t) = 1
  BY DEF Data, Byte
<1>2. x \in Data /\ Len(x) = 2
  BY BigEndianFacts
<1>3. lp \in Data /\ Len(lp) \in Nat
  BY PrefixedFacts, DataEmpty, DataProperties
<1>4. HevcArray(a) = (t \o x) \o lp
  BY DEF HevcArray
<1> HIDE DEF t, x, lp
<1> DEFINE tx == t \o x
<1>5. tx \in Data /\ Len(tx) = Len(t) + Len(x) /\ HevcArray(a) = tx \o lp
  BY <1>1, <1>2, <1>4, ConcatData
<1>6. tx \in Data /\ Len(tx) = 3 /\ HevcArray(a) = tx \o lp
  <2> HIDE DEF tx
  <2>1. QED
    BY <1>1, <1>2, <1>5
<1> HIDE DEF tx
<1>7. tx \o lp \in Data /\ Len(tx \o lp) = Len(tx) + Len(lp)
  BY <1>3, <1>6, ConcatData
<1>8. QED
  BY <1>3, <1>6, <1>7 DEF lp

\* An array, anywhere in a record, is read as its units.
LEMMA ReadsList ==
  ASSUME NEW pre \in Data, NEW a \in Lists, NEW post \in Data, NEW nals \in Seq(Data)
  PROVE  ReadArray(pre \o (HevcArray(a) \o post), From(Len(pre), nals))
           = From(Len(pre) + Len(HevcArray(a)), nals \o NonEmpty(a))
<1> DEFINE t == <<32>>
           x == BigEndian(2, Len(a))
           lp == LengthPrefixed(a, 2)
           P == Len(pre)
           rec == pre \o (HevcArray(a) \o post)
           lq == lp \o post
           pt == pre \o t
           ptx == pt \o x
<1>0. a \in Seq(Data) /\ a \in Seq(Fitting(2)) /\ Len(a) \in Nat /\ Fits(2, Len(a)) /\ P \in Nat
  BY ListData, DataProperties
<1>1. t \in Data /\ Len(t) = 1
  BY DEF Data, Byte
<1>2. x \in Data /\ Len(x) = 2 /\ be(x) = Len(a)
  BY <1>0, BigEndianFacts
<1>3. lp \in Data /\ Len(HevcArray(a)) = 3 + Len(lp) /\ Len(lp) \in Nat
  BY <1>0, ArrayData, DataProperties
<1>4. HevcArray(a) = (t \o x) \o lp
  BY DEF HevcArray
<1> HIDE DEF t, x
<1>5. lq \in Data /\ Len(lq) \in Nat
  <2>1. lq \in Data
    BY <1>3, ConcatData
  <2>2. QED
    BY <2>1, DataProperties
<1>6. pt \in Data /\ Len(pt) = P + 1
  <2>1. pre \o t \in Data /\ Len(pre \o t) = Len(pre) + Len(t)
    BY <1>1, ConcatData
  <2>2. QED
    BY <1>1, <2>1
<1>7. rec = ptx \o lq
  <2>1. t \o x \in Data /\ x \o lq \in Data
    BY <1>1, <1>2, <1>5, ConcatData
  <2>2. ((t \o x) \o lp) \o post = (t \o x) \o (lp \o post)
    <3> HIDE DEF lp
    <3>1. QED
      BY <1>3, <2>1, DataAssociative, ZenonT(30)
  <2> HIDE DEF lq, lp
  <2>3. (t \o x) \o lq = t \o (x \o lq)
    BY <1>1, <1>2, <1>5, DataAssociative, SMTT(30)
  <2>4. pt \o (x \o lq) = pre \o (t \o (x \o lq))
    BY <1>1, <2>1, DataAssociative, ZenonT(30)
  <2> HIDE DEF pt
  <2>5. (pt \o x) \o lq = pt \o (x \o lq)
    BY <1>2, <1>5, <1>6, DataAssociative
  <2>6. QED
    BY <1>4, <2>2, <2>3, <2>4, <2>5 DEF lq
<1> HIDE DEF pt
<1>8. ptx \in Data /\ Len(ptx) = P + 3
  <2>1. ptx \in Data /\ Len(ptx) = Len(pt) + Len(x)
    BY <1>2, <1>6, ConcatData
  <2> HIDE DEF ptx
  <2>2. QED
    BY <1>0, <1>2, <1>6, <2>1
<1>9. Slice(rec, P + 1, 2) = x /\ Has(rec, P + 1, 2) /\ rec \in Data
  <2> HIDE DEF lq, rec
  <2>1. /\ (pt \o x) \o lq \in Data /\ Len((pt \o x) \o lq) = Len(pt) + Len(x) + Len(lq)
        /\ Slice((pt \o x) \o lq, Len(pt), Len(x)) = x
    BY <1>2, <1>5, <1>6, SliceMiddle
  <2>2. rec \in Data /\ Len(rec) = (P + 1) + 2 + Len(lq) /\ Slice(rec, P + 1, 2) = x
    BY <1>2, <1>6, <1>7, <2>1
  <2>3. QED
    BY <1>0, <1>5, <2>2 DEF Has
<1>10. read_units(ptx \o (lp \o post), From(Len(ptx), nals), Len(a))
         = From(Len(ptx) + Len(lp), nals \o NonEmpty(a))
  <2> HIDE DEF ptx
  <2>1. QED
    BY <1>0, <1>8, ReadsUnits
<1> HIDE DEF ptx, lp
<1>11. read_units(rec, From(P + 3, nals), Len(a)) = From((P + 3) + Len(lp), nals \o NonEmpty(a))
  BY <1>7, <1>8, <1>10
<1>12. ReadArray(rec, From(P, nals)) = read_units(rec, From(P + 3, nals), Len(a))
  <2> HIDE DEF rec
  <2>1. From(P, nals).ok = TRUE /\ From(P, nals).pos = P /\ From(P, nals).nals = nals
    BY DEF From
  <2>2. be(Slice(rec, P + 1, 2)) = Len(a)
    BY <1>2, <1>9
  <2> HIDE DEF P
  <2>3. QED
    BY <1>9, <2>1, <2>2 DEF ReadArray
<1>13. (P + 3) + Len(lp) = P + Len(HevcArray(a))
  <2> DEFINE h == Len(HevcArray(a))
             l == Len(lp)
  <2>1. h = 3 + l /\ l \in Nat /\ P \in Nat
    BY <1>0, <1>3
  <2> HIDE DEF h, l, P
  <2>2. QED
    BY <2>1 DEF h, l
<1>14. QED
  BY <1>11, <1>12, <1>13

\* The elements of a sequence, for sets that are best left folded.
LEMMA ElementsOf ==
  ASSUME NEW A, NEW s \in Seq(A)
  PROVE  /\ Len(s) \in Nat /\ \A i \in 1..Len(s) : s[i] \in A
         /\ \A e \in A : Append(s, e) \in Seq(A)
OBVIOUS

ArraysData(as) == FlattenSeq([i \in 1..Len(as) |-> HevcArray(as[i])])

\* The bytes of arrays are a FlatMap.
LEMMA ArraysMap ==
  /\ ArrayOf \in [Seq(Data) -> Data]
  /\ \A as \in Seq(Seq(Data)) : ArraysData(as) = FlatMap(ArrayOf, as)
<1>1. ArrayOf \in [Seq(Data) -> Data]
  BY ArrayData DEF ArrayOf
<1>2. ASSUME NEW as \in Seq(Seq(Data)) PROVE ArraysData(as) = FlatMap(ArrayOf, as)
  <2>1. \A i \in 1..Len(as) : as[i] \in Seq(Data)
    <3> DEFINE A == Seq(Data)
    <3>1. as \in Seq(A)
      OBVIOUS
    <3> HIDE DEF A
    <3>2. \A i \in 1..Len(as) : as[i] \in A
      BY <3>1, ElementsOf
    <3>3. QED
      BY <3>2 DEF A
  <2>2. [i \in 1..Len(as) |-> HevcArray(as[i])] = [i \in 1..Len(as) |-> ArrayOf[as[i]]]
    BY <2>1 DEF ArrayOf
  <2>3. QED
    BY <2>2 DEF ArraysData, FlatMap
<1>3. QED
  BY <1>1, <1>2

\* The bytes of arrays, by the list of them.
LEMMA ArraysFacts ==
  ASSUME NEW as \in Seq(Seq(Data)), NEW a \in Seq(Data)
  PROVE  /\ ArraysData(<<>>) = <<>> /\ ArraysData(as) \in Data
         /\ ArraysData(Append(as, a)) = ArraysData(as) \o HevcArray(a)
<1>1. PICK e \in [Seq(Data) -> Seq(Byte)] : e = ArrayOf
  BY ArraysMap DEF Data
<1>2. \A s \in Seq(Seq(Data)) : ArraysData(s) = FlatMap(e, s)
  BY <1>1, ArraysMap
<1>3. ArraysData(<<>>) = <<>>
  <2>1. <<>> \in Seq(Seq(Data))
    OBVIOUS
  <2>2. QED
    BY <1>2, <2>1, FlatMapEmpty
<1>4. ArraysData(as) \in Data
  <2>1. FlatMap(e, as) \in Seq(Byte)
    BY FlatMapType
  <2>2. QED
    BY <1>2, <2>1 DEF Data
<1>5. ArraysData(Append(as, a)) = ArraysData(as) \o HevcArray(a)
  <2>1. Append(as, a) \in Seq(Seq(Data))
    <3> DEFINE A == Seq(Data)
    <3>1. as \in Seq(A) /\ a \in A
      OBVIOUS
    <3> HIDE DEF A
    <3>2. Append(as, a) \in Seq(A)
      BY <3>1, ElementsOf
    <3>3. QED
      BY <3>2 DEF A
  <2>2. FlatMap(e, Append(as, a)) = FlatMap(e, as) \o e[a]
    <3> DEFINE A == Seq(Data)
    <3>1. as \in Seq(A) /\ a \in A /\ e \in [A -> Seq(Byte)]
      OBVIOUS
    <3> HIDE DEF A
    <3>2. QED
      BY <3>1, FlatMapAppend
  <2>3. e[a] = HevcArray(a)
    BY <1>1 DEF ArrayOf
  <2>4. QED
    BY <1>2, <2>1, <2>2, <2>3
<1>6. QED
  BY <1>3, <1>4, <1>5

\* The type of a list of arrays.
LEMMA ListsData ==
  ASSUME NEW as \in Seq(Lists)
  PROVE  as \in Seq(Seq(Data))
<1> DEFINE A == Seq(Data)
<1>1. Lists \subseteq A
  BY ListData
<1> HIDE DEF A
<1>2. as \in Seq(A)
  BY <1>1, SeqMonotonic
<1>3. QED
  BY <1>2 DEF A

\* The units of arrays, by the list of them.
LEMMA NonEmptyFlat ==
  ASSUME NEW as \in Seq(Seq(Data)), NEW a \in Seq(Data)
  PROVE  /\ NonEmpty(FlattenSeq(as)) \in Seq(Data)
         /\ NonEmpty(FlattenSeq(Append(as, a))) = NonEmpty(FlattenSeq(as)) \o NonEmpty(a)
<1> DEFINE f == FlattenSeq(as)
<1>1. f \in Seq(Data) /\ FlattenSeq(Append(as, a)) = f \o a
  BY FlattenType, FlattenAppend
<1> HIDE DEF f
<1>2. NonEmpty(f) \in Seq(Data) /\ NonEmpty(f \o a) = NonEmpty(f) \o NonEmpty(a)
  <2>1. f \in Seq(Data)
    BY <1>1
  <2>2. NonEmpty(f) \in Seq(Data)
    BY <2>1, NonEmptyFacts, DataEmpty
  <2>3. NonEmpty(f \o a) = NonEmpty(f) \o NonEmpty(a)
    BY <2>1, NonEmptyConcat
  <2>4. QED
    BY <2>2, <2>3
<1>3. QED
  BY <1>1, <1>2 DEF f

\* Arrays, anywhere in a record, are read as all of their units.
LEMMA ReadsLists ==
  ASSUME NEW pre \in Data, NEW as \in Seq(Lists), NEW post \in Data, NEW nals \in Seq(Data)
  PROVE  ReadArrays(pre \o (ArraysData(as) \o post), From(Len(pre), nals), Len(as))
           = From(Len(pre) + Len(ArraysData(as)), nals \o NonEmpty(FlattenSeq(as)))
<1> DEFINE P == Len(pre)
           r == From(P, nals)
           T == {s \in Seq(Lists) : \A z \in Data :
                   ReadArrays(pre \o (ArraysData(s) \o z), r, Len(s))
                     = From(P + Len(ArraysData(s)), nals \o NonEmpty(FlattenSeq(s)))}
<1>0. P \in Nat /\ r \in Readings
  BY DataProperties, FromIsReading
<1>5. ArraysData(<<>>) = <<>>
  <2> DEFINE A == Seq(Data)
  <2>1. <<>> \in Seq(A) /\ <<>> \in A
    OBVIOUS
  <2>2. QED
    BY <2>1, ArraysFacts
<1> HIDE DEF r
<1>1. <<>> \in T
  <2>1. <<>> \in Seq(Lists) /\ Len(<<>>) = 0
    OBVIOUS
  <2>3. ASSUME NEW z \in Data
        PROVE  ReadArrays(pre \o (ArraysData(<<>>) \o z), r, 0) = r
    <3>1. ArraysData(<<>>) \o z \in Data
      BY <1>5, DataEmpty, ConcatData
    <3>2. pre \o (ArraysData(<<>>) \o z) \in Data
      BY <3>1, ConcatData
    <3>3. QED
      BY <1>0, <3>2, ReadArraysSteps
  <2>4. P + Len(ArraysData(<<>>)) = P
    BY <1>0, <1>5, <2>1
  <2>5. nals \o NonEmpty(FlattenSeq(<<>>)) = nals
    BY NonEmptyOfNone, FlattenEmpty, ConcatEmptySeq
  <2>6. QED
    BY <2>1, <2>3, <2>4, <2>5 DEF r
<1>2. ASSUME NEW s \in Seq(Lists), NEW a \in Lists, s \in T PROVE Append(s, a) \in T
  <2>1. /\ s \in Seq(Seq(Data)) /\ a \in Seq(Data) /\ Append(s, a) \in Seq(Lists)
        /\ Len(Append(s, a)) = Len(s) + 1 /\ Len(s) \in Nat
    BY ListsData, ListData
  <2> DEFINE lp == ArraysData(s)
             one == HevcArray(a)
  <2>2. lp \in Data /\ ArraysData(Append(s, a)) = lp \o one
    BY <2>1, ArraysFacts
  <2>3. one \in Data /\ Len(one) \in Nat /\ Len(lp) \in Nat
    BY <2>1, <2>2, ArrayData, DataProperties
  <2> SUFFICES ASSUME NEW z \in Data
               PROVE  ReadArrays(pre \o (ArraysData(Append(s, a)) \o z), r, Len(s) + 1)
                        = From(P + Len(ArraysData(Append(s, a))),
                               nals \o NonEmpty(FlattenSeq(Append(s, a))))
    BY <2>1
  <2> DEFINE rest == one \o z
             rec == pre \o (lp \o rest)
             pl == pre \o lp
             got == nals \o NonEmpty(FlattenSeq(s))
  <2>4. ReadArrays(pre \o (lp \o rest), r, Len(s)) = From(P + Len(lp), got)
    <3>1. rest \in Data
      BY <2>3, ConcatData
    <3> HIDE DEF rest, lp
    <3>2. QED
      BY <1>2, <3>1 DEF lp
  <2> HIDE DEF lp, one
  <2>5. rest \in Data /\ lp \o rest \in Data /\ pl \in Data /\ Len(pl) = P + Len(lp)
    BY <2>2, <2>3, ConcatData
  <2>7. ArraysData(Append(s, a)) \o z = lp \o rest
    <3>1. (lp \o one) \o z = lp \o (one \o z)
      BY <2>2, <2>3, DataAssociative
    <3>2. QED
      BY <2>2, <3>1
  <2> HIDE DEF rest
  <2>6. rec \in Data /\ rec = pl \o rest
    <3>1. pl \o rest = pre \o (lp \o rest)
      <4>1. lp \in Data /\ rest \in Data
        BY <2>2, <2>5
      <4>2. QED
        BY <4>1, DataAssociative, SMTT(30)
    <3>2. pre \o (lp \o rest) \in Data
      BY <2>5, ConcatData
    <3>3. QED
      BY <3>1, <3>2
  <2>8. got \in Seq(Data)
    <3>1. NonEmpty(FlattenSeq(s)) \in Seq(Data)
      BY <2>1, NonEmptyFlat
    <3>2. QED
      BY <3>1, ConcatType
  <2> HIDE DEF rec, got
  <2>9. ReadArrays(rec, r, Len(s) + 1) = ReadArray(rec, From(Len(pl), got))
    <3>1. ReadArrays(rec, r, Len(s) + 1) = ReadArray(rec, ReadArrays(rec, r, Len(s)))
      BY <1>0, <2>1, <2>6, ReadArraysSteps
    <3>2. ReadArrays(rec, r, Len(s)) = From(Len(pl), got)
      BY <2>4, <2>5 DEF rec
    <3>3. QED
      BY <3>1, <3>2
  <2> HIDE DEF pl
  <2>10. ReadArray(pl \o rest, From(Len(pl), got))
           = From(Len(pl) + Len(one), got \o NonEmpty(a))
    <3>1. pl \in Data /\ a \in Lists /\ z \in Data
      BY <2>5
    <3>2. ReadArray(pl \o (HevcArray(a) \o z), From(Len(pl), got))
            = From(Len(pl) + Len(HevcArray(a)), got \o NonEmpty(a))
      BY <2>8, <3>1, ReadsList
    <3>3. QED
      BY <3>2 DEF rest, one
  <2>11. got \o NonEmpty(a) = nals \o NonEmpty(FlattenSeq(Append(s, a)))
    <3> DEFINE e == NonEmpty(FlattenSeq(s))
               o == NonEmpty(a)
               f == NonEmpty(FlattenSeq(Append(s, a)))
    <3>1. e \in Seq(Data) /\ f = e \o o
      BY <2>1, NonEmptyFlat
    <3>2. o \in Seq(Data)
      BY <2>1, NonEmptyFacts, DataEmpty
    <3>3. got = nals \o e
      BY DEF got
    <3> HIDE DEF e, o, f
    <3>4. (nals \o e) \o o = nals \o (e \o o)
      BY <3>1, <3>2, ConcatAssociative
    <3>5. got \o o = nals \o f
      BY <3>1, <3>3, <3>4
    <3>6. QED
      BY <3>5 DEF o, f
  <2>12. Len(pl) + Len(one) = P + Len(ArraysData(Append(s, a)))
    <3>1. Len(lp \o one) = Len(lp) + Len(one)
      BY <2>2, <2>3, ConcatData
    <3>2. Len(ArraysData(Append(s, a))) = Len(lp) + Len(one)
      BY <2>2, <3>1
    <3>3. Len(pl) = P + Len(lp) /\ P \in Nat /\ Len(lp) \in Nat /\ Len(one) \in Nat
      BY <1>0, <2>3, <2>5
    <3> DEFINE f == Len(ArraysData(Append(s, a)))
               b == Len(pl)
               c == Len(lp)
               d == Len(one)
    <3>4. f = c + d /\ b = P + c /\ P \in Nat /\ c \in Nat /\ d \in Nat
      BY <3>2, <3>3
    <3> HIDE DEF f, b, c, d, P
    <3>5. b + d = P + f
      BY <3>4
    <3>6. QED
      BY <3>5 DEF f, b, d, P
  <2>13. QED
    BY <2>6, <2>7, <2>9, <2>10, <2>11, <2>12 DEF rec
<1> HIDE DEF T
<1>3. as \in T
  BY <1>1, <1>2, InductSeq
<1>4. QED
  BY <1>3 DEF T, r

-----------------------------------------------------------------------------
(* Whole records: what is fixed at the top, then the units.                *)

IsTop(top, h, x, y) ==
  /\ top \in Data /\ Len(top) = h + 3
  /\ top[1] = 1 /\ top[h + 2] = x /\ top[h + 3] = y

\* The fixed bytes at the top of a record.
LEMMA HeadBytes ==
  ASSUME NEW head \in Data, NEW x \in Byte, NEW y \in Byte, NEW h \in Nat, Len(head) = h
  PROVE  IsTop((<<1>> \o head) \o <<x, y>>, h, x, y)
<1> DEFINE one == <<1>>
           xy == <<x, y>>
           oh == one \o head
           w == oh \o xy
<1>1. one \in Data /\ Len(one) = 1 /\ one[1] = 1
  BY DEF Data, Byte
<1>2. xy \in Data /\ Len(xy) = 2 /\ xy[1] = x /\ xy[2] = y
  BY DEF Data
<1>3. Len(head) \in Nat
  BY DataProperties
<1> HIDE DEF one, xy
<1>4. oh \in Data /\ Len(oh) = Len(one) + Len(head)
  BY <1>1, ConcatData
<1>5. \A i \in 1..Len(one) : oh[i] = one[i]
  BY <1>1, ConcatIndex
<1> HIDE DEF oh
<1>6. w \in Data /\ Len(w) = Len(oh) + Len(xy)
  BY <1>2, <1>4, ConcatData
<1>7. (\A i \in 1..Len(oh) : w[i] = oh[i]) /\ \A i \in 1..Len(xy) : w[Len(oh) + i] = xy[i]
  BY <1>2, <1>4, ConcatIndex
<1> HIDE DEF w
<1>8. h \in Nat /\ Len(oh) = 1 + h /\ Len(w) = 1 + h + 2
  BY <1>1, <1>2, <1>3, <1>4, <1>6
<1>9. w[1] = 1
  <2>1. 1 \in 1..Len(oh) /\ 1 \in 1..Len(one)
    BY <1>1, <1>8
  <2>2. QED
    BY <1>1, <1>5, <1>7, <2>1
<1>10. w[h + 2] = x /\ w[h + 3] = y
  <2>1. Len(oh) + 1 = h + 2 /\ Len(oh) + 2 = h + 3 /\ 1 \in 1..Len(xy) /\ 2 \in 1..Len(xy)
    BY <1>2, <1>8
  <2>2. QED
    BY <1>2, <1>7, <2>1
<1>11. Len(w) = h + 3
  BY <1>8
<1>12. QED
  BY <1>6, <1>9, <1>10, <1>11 DEF IsTop, w, oh, one, xy

\* The length size survives the reserved bits above it.
LEMMA LengthSizeIs ==
  ASSUME NEW n \in 1..4
  PROVE  /\ 252 + n - 1 \in Byte /\ LengthSize(252 + n - 1) = n
         /\ 240 + n - 1 \in Byte /\ LengthSize(240 + n - 1) = n
BY SMT DEF Byte, LengthSize

\* So does the count of SPS.
LEMMA SpsCountIs ==
  ASSUME NEW k \in 0..31
  PROVE  224 + k \in Byte /\ (224 + k) % 32 = k
BY SMT DEF Byte

\* parse_avcc reads an avcC as its units, up to where its ignored fields begin.
LEMMA AvcRecordParts ==
  ASSUME NEW head \in Data, Len(head) = 3, NEW n \in 1..4, NEW sps \in Seq(Fitting(2)),
         NEW pps \in Seq(Fitting(2)), Len(sps) < 32, Len(pps) < 256, NEW more \in Data
  PROVE  \E rec \in Data :
           /\ rec = AvcRecord(head, n, sps, pps, more)
           /\ Len(rec) - Len(more) >= 7 /\ rec[1] = 1 /\ LengthSize(rec[5]) = n
           /\ n # 3 => parse_avcc(rec) = From(Len(rec) - Len(more), NonEmpty(sps) \o NonEmpty(pps))
<1> DEFINE x == 252 + n - 1
           y == 224 + Len(sps)
           top == (<<1>> \o head) \o <<x, y>>
           l1 == LengthPrefixed(sps, 2)
           c == <<Len(pps)>>
           l2 == LengthPrefixed(pps, 2)
           end == l2 \o more
           mid == c \o end
           rec == top \o (l1 \o mid)
<1>1. sps \in Seq(Data) /\ pps \in Seq(Data) /\ Len(sps) \in 0..31 /\ Len(pps) \in Byte
  <2>1. Fitting(2) \subseteq Data
    BY DEF Fitting
  <2>2. sps \in Seq(Data) /\ pps \in Seq(Data)
    BY <2>1, SeqMonotonic
  <2> DEFINE k == Len(sps)
             m == Len(pps)
  <2>3. k \in Nat /\ m \in Nat /\ k < 32 /\ m < 256
    OBVIOUS
  <2> HIDE DEF k, m
  <2>4. k \in 0..31 /\ m \in Byte
    BY <2>3 DEF Byte
  <2>5. QED
    BY <2>2, <2>4 DEF k, m
<1>2. x \in Byte /\ y \in Byte /\ LengthSize(x) = n /\ y % 32 = Len(sps)
  BY <1>1, LengthSizeIs, SpsCountIs, ZenonT(30)
<1> HIDE DEF x, y
<1>3. top \in Data /\ Len(top) = 6 /\ top[1] = 1 /\ top[5] = x /\ top[6] = y
  <2>1. IsTop(top, 3, x, y)
    BY <1>2, HeadBytes
  <2> HIDE DEF top
  <2>2. QED
    BY <2>1 DEF IsTop
<1>4. l1 \in Data /\ l2 \in Data
  BY <1>1, PrefixedFacts, DataEmpty
<1>5. c \in Data /\ Len(c) = 1 /\ c[1] = Len(pps)
  BY <1>1 DEF Data
<1>6. AvcRecord(head, n, sps, pps, more) = ((((top \o l1) \o c) \o l2) \o more)
  BY DEF AvcRecord, x, y
<1> HIDE DEF top, l1, l2, c
<1>7. end \in Data /\ Len(end) = Len(l2) + Len(more)
  BY <1>4, ConcatData
<1> HIDE DEF end
<1>8. mid \in Data /\ Len(mid) = 1 + Len(end) /\ mid[1] = Len(pps)
  <2>1. mid \in Data /\ Len(mid) = Len(c) + Len(end) /\ \A i \in 1..Len(c) : mid[i] = c[i]
    BY <1>5, <1>7, ConcatData, ConcatIndex
  <2> HIDE DEF mid
  <2>2. QED
    BY <1>5, <2>1
<1> DEFINE tl == top \o l1
           tlc == tl \o c
<1>9. tl \in Data /\ Len(tl) = 6 + Len(l1)
  BY <1>3, <1>4, ConcatData
<1>10. tlc \in Data /\ Len(tlc) = 6 + Len(l1) + 1
  <2> HIDE DEF tl
  <2>1. tlc \in Data /\ Len(tlc) = Len(tl) + Len(c)
    BY <1>5, <1>9, ConcatData
  <2> HIDE DEF tlc
  <2>2. QED
    BY <1>5, <1>9, <2>1
<1>11. rec = tl \o mid
  <2> HIDE DEF mid
  <2>1. QED
    BY <1>3, <1>4, <1>8, DataAssociative, ZenonT(30)
<1>12. rec = tlc \o end
  <2> HIDE DEF tl
  <2>1. QED
    BY <1>5, <1>7, <1>9, <1>11, DataAssociative
<1>13. rec = AvcRecord(head, n, sps, pps, more)
  <2>1. (tlc \o l2) \o more = tlc \o (l2 \o more)
    <3> HIDE DEF tlc
    <3>1. QED
      BY <1>4, <1>10, DataAssociative
  <2>2. QED
    BY <1>6, <1>12, <2>1 DEF end
<1> DEFINE a == Len(l1)
           b == Len(l2)
           d == Len(more)
           got == NonEmpty(sps)
<1>14. a \in Nat /\ b \in Nat /\ d \in Nat
  BY <1>4, DataProperties
<1>15. rec \in Data /\ Len(rec) = Len(tl) + Len(mid) /\ rec[Len(tl) + 1] = Len(pps)
  <2> HIDE DEF tl, mid, rec
  <2>1. tl \o mid \in Data /\ Len(tl \o mid) = Len(tl) + Len(mid)
    BY <1>8, <1>9, ConcatData
  <2>2. \A i \in 1..Len(mid) : (tl \o mid)[Len(tl) + i] = mid[i]
    BY <1>8, <1>9, ConcatIndex
  <2>3. 1 \in 1..Len(mid)
    BY <1>7, <1>8, <1>14
  <2>4. QED
    BY <1>8, <1>11, <2>1, <2>2, <2>3
<1>16. rec[1] = 1 /\ rec[5] = x /\ rec[6] = y
  <2> DEFINE z == l1 \o mid
  <2>1. z \in Data
    BY <1>4, <1>8, ConcatData
  <2> HIDE DEF z
  <2>2. \A i \in 1..Len(top) : (top \o z)[i] = top[i]
    BY <1>3, <2>1, ConcatIndex
  <2>3. rec = top \o z
    BY DEF z
  <2> HIDE DEF rec
  <2>4. 1 \in 1..Len(top) /\ 5 \in 1..Len(top) /\ 6 \in 1..Len(top)
    BY <1>3
  <2>5. QED
    BY <1>3, <2>2, <2>3, <2>4
<1>17. read_units(rec, From(6, <<>>), Len(sps)) = From(6 + a, got)
  <2>1. <<>> \in Seq(Data)
    OBVIOUS
  <2>2. read_units(top \o (l1 \o mid), From(Len(top), <<>>), Len(sps))
          = From(Len(top) + Len(l1), <<>> \o NonEmpty(sps))
    <3> HIDE DEF mid
    <3>1. QED
      BY <1>3, <1>8, <2>1, ReadsUnits, ZenonT(30) DEF l1
  <2>3. got \in Seq(Data)
    BY <1>1, NonEmptyFacts, DataEmpty
  <2>4. <<>> \o got = got
    <3> HIDE DEF got
    <3>1. QED
      BY <2>3, ConcatEmptySeq
  <2>5. QED
    BY <1>3, <2>2, <2>4
<1>18. read_units(rec, From(6 + a + 1, got), Len(pps)) = From(6 + a + 1 + b, got \o NonEmpty(pps))
  <2>1. got \in Seq(Data)
    BY <1>1, NonEmptyFacts, DataEmpty
  <2> HIDE DEF got, tlc, rec
  <2>2. read_units(tlc \o (l2 \o more), From(Len(tlc), got), Len(pps))
          = From(Len(tlc) + Len(l2), got \o NonEmpty(pps))
    BY <1>10, <2>1, ReadsUnits DEF l2
  <2>3. QED
    BY <1>10, <1>12, <2>2 DEF end
<1> HIDE DEF rec, a, b, d, got, tl, tlc, mid
<1>19. Len(rec) = 6 + a + 1 + b + d
  BY <1>7, <1>8, <1>9, <1>14, <1>15 DEF a, b, d
<1>20. Len(rec) - d = 6 + a + 1 + b /\ Len(rec) - d >= 7 /\ ~(Len(rec) < 7)
  BY <1>14, <1>19
<1>21. ASSUME n # 3 PROVE parse_avcc(rec) = From(Len(rec) - d, got \o NonEmpty(pps))
  <2>1. ~(Len(rec) < 7 \/ rec[1] # 1 \/ LengthSize(rec[5]) = 3)
    BY <1>2, <1>16, <1>20, <1>21
  <2> DEFINE r == read_units(rec, From(6, <<>>), rec[6] % 32)
  <2>2. r = From(6 + a, got)
    BY <1>2, <1>16, <1>17
  <2>3. r.ok = TRUE /\ r.pos = 6 + a /\ r.nals = got
    BY <2>2 DEF From
  <2> HIDE DEF r
  <2>4. Has(rec, 6 + a, 1)
    BY <1>14, <1>19 DEF Has
  <2>5. rec[6 + a + 1] = Len(pps)
    BY <1>9, <1>15 DEF a
  <2>6. parse_avcc(rec) = read_units(rec, From(6 + a + 1, got), Len(pps))
    <3>1. parse_avcc(rec) = IF ~r.ok \/ ~Has(rec, r.pos, 1) THEN Nothing
                            ELSE read_units(rec, From(r.pos + 1, r.nals), rec[r.pos + 1])
      BY <2>1 DEF parse_avcc, r
    <3>2. QED
      BY <2>3, <2>4, <2>5, <3>1
  <2>7. QED
    BY <1>18, <1>20, <2>6
<1>22. rec[1] = 1 /\ LengthSize(rec[5]) = n /\ rec \in Data
  BY <1>2, <1>15, <1>16
<1>23. QED
  BY <1>13, <1>20, <1>21, <1>22 DEF d, got

\* parse_hvcc reads an hvcC as its units, up to where its ignored fields begin.
LEMMA HevcRecordParts ==
  ASSUME NEW head \in Data, Len(head) = 20, NEW n \in 1..4, NEW as \in Seq(Lists),
         Len(as) < 256, NEW more \in Data
  PROVE  \E rec \in Data :
           /\ rec = HevcRecord(head, n, as, more)
           /\ Len(rec) - Len(more) >= 23 /\ rec[1] = 1 /\ LengthSize(rec[22]) = n
           /\ n # 3 => parse_hvcc(rec) = From(Len(rec) - Len(more), NonEmpty(FlattenSeq(as)))
<1> DEFINE x == 240 + n - 1
           y == Len(as)
           top == (<<1>> \o head) \o <<x, y>>
           l == ArraysData(as)
           end == l \o more
           rec == top \o end
<1>1. as \in Seq(Seq(Data)) /\ y \in Byte
  <2>1. y \in Nat /\ y < 256
    BY ElementsOf
  <2>2. as \in Seq(Seq(Data))
    BY ListsData
  <2> HIDE DEF y
  <2>3. y \in Byte
    BY <2>1 DEF Byte
  <2>4. QED
    BY <2>2, <2>3
<1>2. x \in Byte /\ LengthSize(x) = n
  BY LengthSizeIs
<1>6. HevcRecord(head, n, as, more) = (top \o l) \o more
  BY DEF HevcRecord, ArraysData
<1> HIDE DEF x
<1>3. top \in Data /\ Len(top) = 23 /\ top[1] = 1 /\ top[22] = x /\ top[23] = y
  <2> HIDE DEF y
  <2>1. IsTop(top, 20, x, y)
    BY <1>1, <1>2, HeadBytes
  <2> HIDE DEF top
  <2>2. QED
    BY <2>1 DEF IsTop
<1>4. l \in Data
  <2> DEFINE A == Seq(Data)
  <2>1. <<>> \in A
    OBVIOUS
  <2>2. QED
    BY <1>1, <2>1, ArraysFacts
<1> HIDE DEF top, l
<1>7. end \in Data /\ Len(end) = Len(l) + Len(more)
  BY <1>4, ConcatData
<1>8. rec = HevcRecord(head, n, as, more)
  BY <1>3, <1>4, <1>6, DataAssociative
<1> DEFINE a == Len(l)
           d == Len(more)
           got == NonEmpty(FlattenSeq(as))
<1>9. a \in Nat /\ d \in Nat
  BY <1>4, DataProperties
<1>10. got \in Seq(Data)
  <2>1. <<>> \in Seq(Data)
    OBVIOUS
  <2>2. QED
    BY <1>1, <2>1, NonEmptyFlat
<1>11. ReadArrays(rec, From(23, <<>>), y) = From(23 + a, got)
  <2>1. <<>> \in Seq(Data)
    OBVIOUS
  <2>2. ReadArrays(top \o (l \o more), From(Len(top), <<>>), Len(as))
          = From(Len(top) + Len(l), <<>> \o got)
    BY <1>3, <2>1, ReadsLists DEF l
  <2>3. <<>> \o got = got
    <3> HIDE DEF got
    <3>1. QED
      BY <1>10, ConcatEmptySeq
  <2>4. QED
    BY <1>3, <2>2, <2>3
<1>12. /\ rec \in Data /\ Len(rec) = Len(top) + Len(end)
       /\ rec[1] = 1 /\ rec[22] = x /\ rec[23] = y
  <2> HIDE DEF end
  <2>1. rec \in Data /\ Len(rec) = Len(top) + Len(end) /\ \A i \in 1..Len(top) : rec[i] = top[i]
    BY <1>3, <1>7, ConcatData, ConcatIndex, ZenonT(30)
  <2> HIDE DEF rec
  <2>2. QED
    BY <1>3, <2>1
<1> HIDE DEF rec, a, d, got, end, y
<1>13. Len(rec) = 23 + a + d
  BY <1>3, <1>7, <1>9, <1>12 DEF a, d
<1>14. Len(rec) - d = 23 + a /\ Len(rec) - d >= 23 /\ ~(Len(rec) < 23)
  BY <1>9, <1>13
<1>15. ASSUME n # 3 PROVE parse_hvcc(rec) = From(Len(rec) - d, got)
  <2>1. ~(Len(rec) < 23 \/ rec[1] # 1 \/ LengthSize(rec[22]) = 3)
    BY <1>2, <1>12, <1>14, <1>15
  <2>2. parse_hvcc(rec) = ReadArrays(rec, From(23, <<>>), rec[23])
    BY <2>1 DEF parse_hvcc
  <2>3. ReadArrays(rec, From(23, <<>>), rec[23]) = From(23 + a, got)
    BY <1>11, <1>12
  <2>4. QED
    BY <1>14, <2>2, <2>3
<1>16. rec[1] = 1 /\ LengthSize(rec[22]) = n /\ rec \in Data
  BY <1>2, <1>12
<1>17. QED
  BY <1>8, <1>14, <1>15, <1>16, ZenonT(30) DEF d, got

\* A count of five bits.
LEMMA ByteMod ==
  ASSUME NEW b \in Byte
  PROVE  b % 32 \in Nat
BY SMT DEF Byte

\* If parse_avcc takes a cut record, it takes the whole one, and ends before the
\* cut.
LEMMA ParseAvcOfPrefix ==
  ASSUME NEW full \in Data, NEW m \in 0..Len(full), parse_avcc(SubSeq(full, 1, m)).ok
  PROVE  /\ parse_avcc(full) = parse_avcc(SubSeq(full, 1, m))
         /\ parse_avcc(full).pos <= m
<1> DEFINE rec == SubSeq(full, 1, m)
<1>0. Nothing.ok = FALSE
  BY DEF Nothing
<1>1. rec \in Data /\ Len(rec) = m /\ \A i \in 1..m : rec[i] = full[i]
  BY PrefixData
<1>2. Len(full) \in Nat /\ m \in Nat /\ m <= Len(full) /\ \A i \in 1..Len(full) : full[i] \in Byte
  BY DataProperties
<1> DEFINE c == full[6] % 32
           r == read_units(rec, From(6, <<>>), c)
<1>3. parse_avcc(rec).ok
  OBVIOUS
<1> HIDE DEF rec
<1>4. ~(Len(rec) < 7 \/ rec[1] # 1 \/ LengthSize(rec[5]) = 3)
  BY <1>0, <1>3 DEF parse_avcc
<1>5. rec[1] = full[1] /\ rec[5] = full[5] /\ rec[6] = full[6] /\ m >= 7
      /\ ~(Len(full) < 7)
  BY <1>1, <1>2, <1>4
<1>6. c \in Nat
  <2>1. full[6] \in Byte
    BY <1>2, <1>5
  <2>2. QED
    BY <2>1, ByteMod
<1>7. From(6, <<>>) \in Readings /\ From(6, <<>>).pos = 6
  <2>1. <<>> \in Seq(Data)
    OBVIOUS
  <2>2. QED
    BY <2>1, FromIsReading
<1> HIDE DEF c
<1>8. parse_avcc(rec) = IF ~r.ok \/ ~Has(rec, r.pos, 1) THEN Nothing
                        ELSE read_units(rec, From(r.pos + 1, r.nals), rec[r.pos + 1])
  BY <1>4, <1>5 DEF parse_avcc, c
<1>9. r \in Readings
  BY <1>1, <1>6, <1>7, ReadUnitsSteps
<1>10. r.ok /\ Has(rec, r.pos, 1)
  BY <1>0, <1>3, <1>8
<1>11. r.pos \in Nat /\ r.nals \in Seq(Data)
  <2> HIDE DEF r
  <2>1. r.ok
    BY <1>10
  <2>2. QED
    BY <1>9, <2>1, ReadingCases
<1>12. read_units(full, From(6, <<>>), c) = r
  <2>1. read_units(rec, From(6, <<>>), c).ok
    BY <1>10
  <2>2. QED
    BY <1>6, <1>7, <2>1, ReadUnitsOfPrefix DEF rec
<1>13. parse_avcc(full) = IF ~r.ok \/ ~Has(full, r.pos, 1) THEN Nothing
                          ELSE read_units(full, From(r.pos + 1, r.nals), full[r.pos + 1])
  <2> HIDE DEF r
  <2>1. QED
    BY <1>4, <1>5, <1>12 DEF parse_avcc, c
<1> HIDE DEF r
<1>14. r.pos + 1 \in 1..m /\ r.pos + 1 \in Nat /\ Has(full, r.pos, 1)
  BY <1>1, <1>2, <1>10, <1>11 DEF Has
<1> DEFINE k == full[r.pos + 1]
           s == From(r.pos + 1, r.nals)
<1>15. rec[r.pos + 1] = k /\ k \in Nat
  <2>1. rec[r.pos + 1] = k
    BY <1>1, <1>14
  <2>2. k \in Byte
    BY <1>2, <1>14
  <2> HIDE DEF k
  <2>3. k \in Nat
    BY <2>2 DEF Byte
  <2>4. QED
    BY <2>1, <2>3
<1>16. s \in Readings /\ s.pos = r.pos + 1
  BY <1>11, <1>14, FromIsReading
<1>17. s.pos <= Len(rec)
  BY <1>1, <1>2, <1>14, <1>16
<1> HIDE DEF k, s
<1>18. parse_avcc(rec) = read_units(rec, s, k) /\ parse_avcc(full) = read_units(full, s, k)
  BY <1>8, <1>10, <1>13, <1>14, <1>15 DEF k, s
<1>19. read_units(rec, s, k).ok
  BY <1>3, <1>18
<1>20. read_units(rec, s, k).pos <= Len(rec)
  BY <1>1, <1>15, <1>16, <1>17, <1>19, ReadUnitsEnd
<1>21. read_units(full, s, k) = read_units(rec, s, k)
  BY <1>15, <1>16, <1>19, ReadUnitsOfPrefix DEF rec
<1>22. QED
  BY <1>1, <1>18, <1>20, <1>21 DEF rec

\* The same of parse_hvcc.
LEMMA ParseHevcOfPrefix ==
  ASSUME NEW full \in Data, NEW m \in 0..Len(full), parse_hvcc(SubSeq(full, 1, m)).ok
  PROVE  /\ parse_hvcc(full) = parse_hvcc(SubSeq(full, 1, m))
         /\ parse_hvcc(full).pos <= m
<1> DEFINE rec == SubSeq(full, 1, m)
<1>0. Nothing.ok = FALSE
  BY DEF Nothing
<1>1. rec \in Data /\ Len(rec) = m /\ \A i \in 1..m : rec[i] = full[i]
  BY PrefixData
<1>2. Len(full) \in Nat /\ m \in Nat /\ m <= Len(full) /\ \A i \in 1..Len(full) : full[i] \in Byte
  BY DataProperties
<1> DEFINE c == full[23]
           s == From(23, <<>>)
<1>3. parse_hvcc(rec).ok
  OBVIOUS
<1> HIDE DEF rec
<1>4. ~(Len(rec) < 23 \/ rec[1] # 1 \/ LengthSize(rec[22]) = 3)
  BY <1>0, <1>3 DEF parse_hvcc
<1>5. rec[1] = full[1] /\ rec[22] = full[22] /\ rec[23] = full[23] /\ m >= 23
      /\ ~(Len(full) < 23)
  BY <1>1, <1>2, <1>4
<1>6. c \in Nat
  <2>1. c \in Byte
    BY <1>2, <1>5
  <2> HIDE DEF c
  <2>2. QED
    BY <2>1 DEF Byte
<1>7. s \in Readings /\ s.pos = 23
  <2>1. <<>> \in Seq(Data)
    OBVIOUS
  <2>2. QED
    BY <2>1, FromIsReading
<1>8. parse_hvcc(rec) = ReadArrays(rec, s, c) /\ parse_hvcc(full) = ReadArrays(full, s, c)
  BY <1>4, <1>5 DEF parse_hvcc
<1> HIDE DEF c, s
<1>9. ReadArrays(rec, s, c).ok /\ s.pos <= m
  BY <1>3, <1>5, <1>7, <1>8
<1>10. ReadArrays(full, s, c) = ReadArrays(rec, s, c) /\ ReadArrays(rec, s, c).pos <= m
  BY <1>6, <1>7, <1>9, ReadArraysOfPrefix DEF rec
<1>11. QED
  BY <1>8, <1>10 DEF rec

\* A record of either kind, and the offset of its length size.
Parsed(kind, rec) == IF kind = "avc" THEN parse_avcc(rec) ELSE parse_hvcc(rec)
SizeAt(kind) == IF kind = "avc" THEN 5 ELSE 22

\* The same of either: no strict prefix is taken of a record that is read to its
\* end.
LEMMA ParseOfPrefix ==
  ASSUME NEW kind, NEW full \in Data, NEW m \in 0..Len(full),
         Parsed(kind, SubSeq(full, 1, m)).ok
  PROVE  /\ Parsed(kind, full) = Parsed(kind, SubSeq(full, 1, m))
         /\ Parsed(kind, full).pos <= m
<1>1. CASE kind = "avc"
  BY <1>1, ParseAvcOfPrefix DEF Parsed
<1>2. CASE kind # "avc"
  BY <1>2, ParseHevcOfPrefix DEF Parsed
<1>3. QED
  BY <1>1, <1>2

\* A sequence whose elements are in a set.
LEMMA SeqInto ==
  ASSUME NEW A, NEW B, NEW s \in Seq(A), \A i \in 1..Len(s) : s[i] \in B
  PROVE  s \in Seq(B)
OBVIOUS

\* The types of a record's fields.
LEMMA RecordLists ==
  ASSUME NEW s, IsRecord(s)
  PROVE  /\ s.lists \in Seq(Seq(Nal)) /\ s.lists \in Seq(Seq(Fitting(2)))
         /\ s.kind # "avc" => s.lists \in Seq(Lists)
         /\ s.head \in Data /\ s.more \in Data /\ s.n \in 1..4 /\ s.cut \in Nat
         /\ s.form = "record" /\ Len(s.lists) \in Nat
<1> DEFINE l == s.lists
           A == Seq(Data)
<1>1. /\ l \in Seq(A) /\ s.head \in Data /\ s.more \in Data /\ s.n \in 1..4 /\ s.cut \in Nat
      /\ s.form = "record"
  BY DEF IsRecord, Data
<1>2. /\ \A i \in DOMAIN l : \A j \in DOMAIN l[i] : IsNal(l[i][j]) /\ Fits(2, Len(l[i][j]))
      /\ s.kind # "avc" => \A i \in DOMAIN l : Fits(2, Len(l[i]))
  BY DEF IsRecord
<1> HIDE DEF A
<1>3. Len(l) \in Nat /\ (\A i \in 1..Len(l) : l[i] \in A) /\ DOMAIN l = 1..Len(l)
  BY <1>1, ElementsOf
<1> HIDE DEF l
<1>4. ASSUME NEW i \in 1..Len(l) PROVE l[i] \in Seq(Nal) /\ l[i] \in Seq(Fitting(2))
  <2> DEFINE u == l[i]
  <2>1. u \in Seq(Data)
    BY <1>3 DEF A
  <2>2. \A j \in DOMAIN u : IsNal(u[j]) /\ Fits(2, Len(u[j]))
    BY <1>2, <1>3
  <2> HIDE DEF u
  <2>3. \A j \in 1..Len(u) : u[j] \in Data
    BY <2>1
  <2>4. DOMAIN u = 1..Len(u)
    BY <2>1
  <2>5. \A j \in 1..Len(u) : u[j] \in Nal
    BY <2>2, <2>3, <2>4 DEF Nal
  <2>6. \A j \in 1..Len(u) : u[j] \in Fitting(2)
    BY <2>2, <2>3, <2>4 DEF Fitting
  <2>7. u \in Seq(Nal)
    BY <2>1, <2>5, SeqInto
  <2>8. u \in Seq(Fitting(2))
    BY <2>1, <2>6, SeqInto
  <2>9. QED
    BY <2>7, <2>8 DEF u
<1>5. l \in Seq(Seq(Nal))
  <2> DEFINE B == Seq(Nal)
  <2>1. \A i \in 1..Len(l) : l[i] \in B
    BY <1>4
  <2> HIDE DEF B
  <2>2. l \in Seq(B)
    BY <1>1, <2>1, SeqInto DEF l
  <2>3. QED
    BY <2>2 DEF B
<1>6. l \in Seq(Seq(Fitting(2)))
  <2> DEFINE B == Seq(Fitting(2))
  <2>1. \A i \in 1..Len(l) : l[i] \in B
    BY <1>4
  <2> HIDE DEF B
  <2>2. l \in Seq(B)
    BY <1>1, <2>1, SeqInto DEF l
  <2>3. QED
    BY <2>2 DEF B
<1>7. s.kind # "avc" => l \in Seq(Lists)
  <2> SUFFICES ASSUME s.kind # "avc" PROVE l \in Seq(Lists)
    OBVIOUS
  <2>1. \A i \in 1..Len(l) : l[i] \in Lists
    BY <1>2, <1>3, <1>4 DEF Lists
  <2>2. QED
    BY <1>1, <2>1, SeqInto DEF l
<1>8. QED
  BY <1>1, <1>3, <1>5, <1>6, <1>7 DEF l

\* Either parser reads a whole record as its units.
LEMMA RecordFacts ==
  ASSUME NEW s, IsRecord(s)
  PROVE  \E full \in Data :
           /\ full = Record(s) /\ Len(full) - Len(s.more) >= 7
           /\ full[1] = 1 /\ LengthSize(full[SizeAt(s.kind)]) = s.n
           /\ s.kind # "avc" => Len(full) - Len(s.more) >= 23
           /\ s.n # 3 => Parsed(s.kind, full)
                           = From(Len(full) - Len(s.more), NonEmpty(FlattenSeq(s.lists)))
<1>1. /\ s.lists \in Seq(Seq(Nal)) /\ s.lists \in Seq(Seq(Fitting(2)))
      /\ s.kind # "avc" => s.lists \in Seq(Lists)
      /\ s.head \in Data /\ s.more \in Data /\ s.n \in 1..4
  BY RecordLists
<1>2. Len(s.more) \in Nat
  BY <1>1, DataProperties
<1>3. CASE s.kind = "avc"
  <2> DEFINE sps == s.lists[1]
             pps == s.lists[2]
             one == <<sps>>
  <2>1. Len(s.head) = 3 /\ Len(s.lists) = 2 /\ Len(sps) < 32 /\ Len(pps) < 256
    BY <1>3 DEF IsRecord
  <2>2. sps \in Seq(Fitting(2)) /\ pps \in Seq(Fitting(2))
    <3> DEFINE A == Seq(Fitting(2))
    <3>1. s.lists \in Seq(A)
      BY <1>1
    <3> HIDE DEF A
    <3>2. \A i \in 1..Len(s.lists) : s.lists[i] \in A
      BY <3>1, ElementsOf
    <3>3. sps \in A /\ pps \in A
      BY <2>1, <3>2
    <3>4. QED
      BY <3>3 DEF A
  <2>3. s.lists = Append(one, pps)
    <3> DEFINE A == Seq(Fitting(2))
    <3>1. s.lists \in Seq(A) /\ sps \in A /\ pps \in A /\ Len(s.lists) = 2
      BY <1>1, <2>1, <2>2
    <3> HIDE DEF A
    <3>2. Append(one, pps) \in Seq(A) /\ Len(Append(one, pps)) = 2
          /\ Append(one, pps)[1] = s.lists[1] /\ Append(one, pps)[2] = s.lists[2]
      BY <3>1
    <3>3. \A i \in 1..2 : i = 1 \/ i = 2
      OBVIOUS
    <3>4. QED
      BY <3>1, <3>2, <3>3, SeqEqual
  <2>4. sps \in Seq(Data) /\ pps \in Seq(Data)
    <3>1. Fitting(2) \subseteq Data
      BY DEF Fitting
    <3>2. QED
      BY <2>2, <3>1, SeqMonotonic
  <2>5. FlattenSeq(s.lists) = sps \o pps
    <3>1. one \in Seq(Seq(Data)) /\ FlattenSeq(one) = sps
      <4>1. FlattenSeq(one) = sps
        BY <2>4, FlattenOne
      <4> DEFINE A == Seq(Data)
      <4>2. sps \in A
        BY <2>4
      <4> HIDE DEF A, sps
      <4>3. one \in Seq(A)
        BY <4>2
      <4>4. QED
        BY <4>1, <4>3 DEF A, sps
    <3> HIDE DEF one
    <3>2. FlattenSeq(Append(one, pps)) = FlattenSeq(one) \o pps
      BY <2>4, <3>1, FlattenAppend
    <3>3. QED
      BY <2>3, <3>1, <3>2
  <2>6. NonEmpty(FlattenSeq(s.lists)) = NonEmpty(sps) \o NonEmpty(pps)
    <3> HIDE DEF sps, pps
    <3>1. NonEmpty(sps \o pps) = NonEmpty(sps) \o NonEmpty(pps)
      BY <2>4, NonEmptyConcat
    <3>2. QED
      BY <2>5, <3>1
  <2> HIDE DEF one, sps, pps
  <2>7. PICK rec \in Data :
          /\ rec = AvcRecord(s.head, s.n, sps, pps, s.more)
          /\ Len(rec) - Len(s.more) >= 7 /\ rec[1] = 1 /\ LengthSize(rec[5]) = s.n
          /\ s.n # 3 => parse_avcc(rec) = From(Len(rec) - Len(s.more),
                                               NonEmpty(sps) \o NonEmpty(pps))
    BY <1>1, <2>1, <2>2, AvcRecordParts, ZenonT(30)
  <2>8. rec = Record(s) /\ Parsed(s.kind, rec) = parse_avcc(rec) /\ SizeAt(s.kind) = 5
    BY <1>3, <2>7 DEF Record, Parsed, SizeAt, sps, pps
  <2>9. QED
    BY <1>3, <2>6, <2>7, <2>8
<1>4. CASE s.kind # "avc"
  <2>1. Len(s.head) = 20 /\ Len(s.lists) < 256 /\ s.lists \in Seq(Lists)
    BY <1>1, <1>4 DEF IsRecord
  <2>2. PICK rec \in Data :
          /\ rec = HevcRecord(s.head, s.n, s.lists, s.more)
          /\ Len(rec) - Len(s.more) >= 23 /\ rec[1] = 1 /\ LengthSize(rec[22]) = s.n
          /\ s.n # 3 => parse_hvcc(rec) = From(Len(rec) - Len(s.more),
                                               NonEmpty(FlattenSeq(s.lists)))
    BY <1>1, <2>1, HevcRecordParts
  <2>3. rec = Record(s) /\ Parsed(s.kind, rec) = parse_hvcc(rec) /\ SizeAt(s.kind) = 22
    BY <1>4, <2>2 DEF Record, Parsed, SizeAt
  <2>4. Len(rec) - Len(s.more) >= 7
    <3>1. Len(rec) \in Nat
      BY DataProperties
    <3>2. QED
      BY <1>2, <2>2, <3>1
  <2>5. QED
    BY <2>2, <2>3, <2>4
<1>5. QED
  BY <1>3, <1>4

\* A configuration record is not taken for Annex-B.
LEMMA StartsWithZero ==
  ASSUME NEW b \in Data, b # <<>>, b[1] = 1
  PROVE  ~starts_with_start_code(b)
<1>1. Len(b) \in Nat /\ Len(b) >= 1
  BY DataProperties DEF Data
<1>2. \A k \in 1..Len(b) : SubSeq(b, 1, k)[1] = 1
  <2> SUFFICES ASSUME NEW k \in 1..Len(b) PROVE SubSeq(b, 1, k)[1] = 1
    OBVIOUS
  <2>1. k \in 0..Len(b) /\ 1 \in 1..k
    BY <1>1
  <2>2. QED
    BY <2>1, PrefixData
<1>3. ~IsPrefix(<<0, 0, 1>>, b)
  <2> SUFFICES ASSUME IsPrefix(<<0, 0, 1>>, b) PROVE FALSE
    OBVIOUS
  <2> DEFINE z == <<0, 0, 1>>
  <2>1. Len(z) = 3 /\ SubSeq(z, 1, 3)[1] = 0
    OBVIOUS
  <2>2. Len(z) <= Len(b) /\ SubSeq(z, 1, Len(z)) = SubSeq(b, 1, Len(z))
    BY DEF IsPrefix
  <2> HIDE DEF z
  <2>3. 3 \in 1..Len(b) /\ SubSeq(z, 1, 3) = SubSeq(b, 1, 3)
    BY <1>1, <2>1, <2>2
  <2>4. QED
    BY <1>2, <2>1, <2>3
<1>4. ~IsPrefix(StartCode, b)
  <2> SUFFICES ASSUME IsPrefix(StartCode, b) PROVE FALSE
    OBVIOUS
  <2>1. Len(StartCode) = 4 /\ SubSeq(StartCode, 1, 4)[1] = 0
    BY DEF StartCode
  <2>2. Len(StartCode) <= Len(b)
        /\ SubSeq(StartCode, 1, Len(StartCode)) = SubSeq(b, 1, Len(StartCode))
    BY DEF IsPrefix
  <2>3. 4 \in 1..Len(b) /\ SubSeq(StartCode, 1, 4) = SubSeq(b, 1, 4)
    BY <1>1, <2>1, <2>2
  <2>4. QED
    BY <1>2, <2>1, <2>3
<1>5. QED
  BY <1>3, <1>4 DEF starts_with_start_code

\* The framing that a stream starts with.
Opened(s) == from_extradata(s.kind, Extradata(s))

\* For every record, of any sizes and with any fields behind it: taken whole it
\* gives its length size and its parameter sets; cut short anywhere, or with
\* lengths of three bytes, it gives pass-through and nothing of it.
THEOREM RecordOpened ==
  ASSUME NEW s, IsRecord(s)
  PROVE  Opened(s) = [length_size |-> DeclaredSize(s),
                      prologue |-> Framed(NonEmpty(DeclaredSets(s)))]
<1>1. s.form = "record" /\ s.n \in 1..4 /\ s.cut \in Nat /\ s.more \in Data
  BY RecordLists
<1>2. PICK full \in Data :
           /\ full = Record(s) /\ Len(full) - Len(s.more) >= 7
           /\ full[1] = 1 /\ LengthSize(full[SizeAt(s.kind)]) = s.n
           /\ s.kind # "avc" => Len(full) - Len(s.more) >= 23
           /\ s.n # 3 => Parsed(s.kind, full)
                           = From(Len(full) - Len(s.more), NonEmpty(FlattenSeq(s.lists)))
  BY RecordFacts
<1>3. s.cut <= Len(full) /\ (s.cut > 0 => s.more = <<>>)
  BY <1>2 DEF IsRecord
<1> DEFINE m == Len(full) - s.cut
           rec == SubSeq(full, 1, m)
           p == Parsed(s.kind, rec)
<1>4. Len(full) \in Nat /\ Len(s.more) \in Nat /\ m \in 0..Len(full) /\ m \in Nat
      /\ (s.cut = 0 => m = Len(full)) /\ (s.cut > 0 => m < Len(full)) /\ Len(full) >= 7
      /\ (m = 0 => s.cut > 0)
  <2>1. Len(full) \in Nat /\ Len(s.more) \in Nat
    BY <1>1, DataProperties
  <2>2. QED
    BY <1>1, <1>2, <1>3, <2>1
<1>5. rec \in Data /\ Len(rec) = m /\ \A i \in 1..m : rec[i] = full[i]
  BY <1>4, PrefixData
<1>6. Extradata(s) = rec
  BY <1>1, <1>2 DEF Extradata
<1>7. DeclaredSize(s) = IF s.n # 3 /\ s.cut = 0 THEN s.n ELSE 0
  BY <1>1 DEF DeclaredSize
<1>8. DeclaredSets(s) = IF DeclaredSize(s) = 0 THEN <<>> ELSE FlattenSeq(s.lists)
  BY <1>1 DEF DeclaredSets
<1>9. Framed(NonEmpty(<<>>)) = <<>>
  BY NonEmptyOfNone, FramedOfNone
<1> HIDE DEF rec, m
<1>10. CASE m = 0
  <2>1. rec = <<>>
    BY <1>5, <1>10 DEF Data
  <2>2. Opened(s) = [length_size |-> 0, prologue |-> <<>>]
    BY <1>6, <2>1 DEF Opened, from_extradata
  <2>3. DeclaredSize(s) = 0
    BY <1>4, <1>7, <1>10
  <2>4. QED
    BY <1>8, <1>9, <2>2, <2>3
<1>11. CASE m # 0
  <2>1. rec # <<>> /\ rec[1] = 1
    <3>1. 1 \in 1..m
      BY <1>4, <1>11
    <3>2. rec[1] = 1
      BY <1>2, <1>5, <3>1
    <3>3. rec # <<>>
      BY <1>5, <1>11
    <3>4. QED
      BY <3>2, <3>3
  <2>2. ~starts_with_start_code(rec)
    BY <1>5, <2>1, StartsWithZero
  <2>3. Opened(s) = IF p.ok
          THEN [length_size |-> LengthSize(rec[SizeAt(s.kind)]), prologue |-> Framed(p.nals)]
          ELSE [length_size |-> 0, prologue |-> <<>>]
    BY <1>6, <2>1, <2>2 DEF Opened, from_extradata, Parsed, SizeAt
  <2>4. CASE s.n = 3
    <3>1. p = Nothing
      <4>1. CASE s.kind = "avc"
        <5>1. m >= 7 => rec[5] = full[5]
          BY <1>4, <1>5
        <5>2. full[SizeAt(s.kind)] = full[5]
          BY <4>1 DEF SizeAt
        <5>3. Len(rec) < 7 \/ LengthSize(rec[5]) = 3
          BY <1>2, <1>4, <1>5, <2>4, <5>1, <5>2
        <5>4. QED
          BY <4>1, <5>3 DEF Parsed, parse_avcc
      <4>2. CASE s.kind # "avc"
        <5>1. m >= 23 => rec[22] = full[22]
          BY <1>4, <1>5
        <5>2. full[SizeAt(s.kind)] = full[22]
          BY <4>2 DEF SizeAt
        <5>3. Len(rec) < 23 \/ LengthSize(rec[22]) = 3
          BY <1>2, <1>4, <1>5, <2>4, <5>1, <5>2
        <5>4. QED
          BY <4>2, <5>3 DEF Parsed, parse_hvcc
      <4>3. QED
        BY <4>1, <4>2
    <3>2. p.ok = FALSE
      BY <3>1 DEF Nothing
    <3> HIDE DEF p
    <3>3. DeclaredSize(s) = 0
      BY <1>7, <2>4
    <3>4. QED
      BY <1>8, <1>9, <2>3, <3>2, <3>3
  <2>5. CASE s.n # 3 /\ s.cut > 0
    <3>1. Len(s.more) = 0
      BY <1>3, <2>5
    <3>2. Parsed(s.kind, full).pos = Len(full)
      <4>1. Parsed(s.kind, full).pos = Len(full) - Len(s.more)
        BY <1>2, <2>5 DEF From
      <4>2. QED
        BY <1>4, <3>1, <4>1
    <3>3. ~p.ok
      <4> SUFFICES ASSUME p.ok PROVE FALSE
        OBVIOUS
      <4>1. Parsed(s.kind, full).pos <= m
        BY <1>4, ParseOfPrefix DEF rec
      <4>2. QED
        BY <1>4, <2>5, <3>2, <4>1
    <3> HIDE DEF p
    <3>4. DeclaredSize(s) = 0
      BY <1>7, <2>5
    <3>5. QED
      BY <1>8, <1>9, <2>3, <3>3, <3>4
  <2>6. CASE s.n # 3 /\ s.cut = 0
    <3>1. rec = full
      <4>1. m = Len(full)
        BY <1>4, <2>6
      <4>2. QED
        BY <4>1, SubSeqFull DEF rec, Data
    <3>2. p = From(Len(full) - Len(s.more), NonEmpty(FlattenSeq(s.lists)))
      BY <1>2, <2>6, <3>1
    <3>3. p.ok = TRUE /\ p.nals = NonEmpty(FlattenSeq(s.lists))
      BY <3>2 DEF From
    <3> HIDE DEF p
    <3>4. DeclaredSize(s) = s.n /\ s.n # 0
      BY <1>1, <1>7, <2>6
    <3>5. QED
      BY <1>2, <1>8, <2>3, <3>1, <3>3, <3>4
  <2>7. QED
    BY <1>1, <2>4, <2>5, <2>6
<1>12. QED
  BY <1>10, <1>11

\* Extradata that is Annex-B, or none, goes through whole.
LEMMA StreamOpened ==
  ASSUME NEW s, IsStream(s)
  PROVE  /\ Opened(s) = [length_size |-> 0, prologue |-> s.bytes]
         /\ DeclaredSize(s) = 0 /\ DeclaredSets(s) = NalUnits(s.bytes)
         /\ s.bytes \in Data
<1>1. s.form = "stream" /\ s.bytes \in Data /\ (s.bytes = <<>> \/ starts_with_start_code(s.bytes))
  BY DEF IsStream, Data
<1>2. Extradata(s) = s.bytes /\ DeclaredSize(s) = 0 /\ DeclaredSets(s) = NalUnits(s.bytes)
  BY <1>1 DEF Extradata, DeclaredSize, DeclaredSets
<1>3. Opened(s) = [length_size |-> 0, prologue |-> s.bytes]
  BY <1>1, <1>2 DEF Opened, from_extradata
<1>4. QED
  BY <1>1, <1>2, <1>3

-----------------------------------------------------------------------------
(* What from_extradata selects, and what reframe makes of samples.         *)

\* A reader keeps no empty unit when it closes one.
LEMMA ClosedNonEmpty ==
  ASSUME NEW b \in Data, NEW found \in Seq(Data), NonEmpty(found) = found, NEW at \in Nat,
         NEW end \in Int, end <= Len(b)
  PROVE  NonEmpty(Closed(b, found, at, end)) = Closed(b, found, at, end)
<1> DEFINE u == WithoutZeros(SubSeq(b, at + 1, end))
           one == <<u>>
           e == NonEmpty(one)
<1>1. u \in Data
  BY PieceData, WithoutZerosType
<1> HIDE DEF u
<1>2. one \in Seq(Data)
  BY <1>1
<1>3. Closed(b, found, at, end) = IF at = 0 THEN found ELSE found \o e
  BY DEF Closed, u
<1> HIDE DEF one
<1>4. e \in Seq(Data) /\ NonEmpty(e) = e
  BY <1>2, NonEmptyFacts, NonEmptyTwice, DataEmpty
<1> HIDE DEF e
<1>5. NonEmpty(found \o e) = NonEmpty(found) \o NonEmpty(e)
  BY <1>4, NonEmptyConcat
<1>6. QED
  BY <1>3, <1>4, <1>5

\* A reader finds no empty unit.
LEMMA NalUnitsFacts ==
  ASSUME NEW b \in Data
  PROVE  NalUnits(b) \in Seq(Data) /\ NonEmpty(NalUnits(b)) = NalUnits(b)
<1> DEFINE n == Len(b)
<1>1. PICK g : IsScan(g, b) /\ NalUnits(b) = Closed(b, g[n].found, g[n].at, n)
  BY ScanDef
<1>2. n \in Nat
  BY DataProperties
<1>3. /\ g \in [0..n -> Mark] /\ g[0] = Unread
      /\ \A k \in 1..n : g[k] = Read(b, k, g[k - 1])
  BY <1>1 DEF IsScan
<1> DEFINE T == {k \in 0..n : NonEmpty(g[k].found) = g[k].found}
<1>4. 0 \in T
  BY <1>2, <1>3, NonEmptyOfNone DEF Unread
<1>5. ASSUME NEW k \in 1..n, k - 1 \in T PROVE k \in T
  <2> DEFINE s == g[k - 1]
  <2>1. k \in 0..n /\ k - 1 \in 0..n /\ k - 3 \in Int /\ k - 3 <= n
    BY <1>2
  <2>2. s \in Mark /\ NonEmpty(s.found) = s.found
    BY <1>3, <1>5, <2>1
  <2>3. g[k] = Read(b, k, s)
    BY <1>3
  <2> HIDE DEF s
  <2>4. s.found \in Seq(Data) /\ s.at \in Nat
    BY <2>2 DEF Mark
  <2>5. NonEmpty(Closed(b, s.found, s.at, k - 3)) = Closed(b, s.found, s.at, k - 3)
    BY <2>1, <2>2, <2>4, ClosedNonEmpty
  <2>6. NonEmpty(g[k].found) = g[k].found
    BY <2>2, <2>3, <2>5 DEF Read
  <2>7. QED
    BY <2>1, <2>6
<1> HIDE DEF T
<1>6. \A k \in 0..n : k \in T
  BY <1>2, <1>4, <1>5, InductUpTo
<1>7. n \in 0..n /\ n \in Int /\ n <= Len(b)
  BY <1>2
<1>8. NonEmpty(g[n].found) = g[n].found
  BY <1>6, <1>7 DEF T
<1>9. g[n].found \in Seq(Data) /\ g[n].at \in Nat
  <2>1. g[n] \in Mark
    BY <1>3, <1>7
  <2>2. QED
    BY <2>1 DEF Mark
<1> HIDE DEF n
<1>10. QED
  BY <1>1, <1>7, <1>8, <1>9, ClosedType, ClosedNonEmpty, ZenonT(30)

\* A reader of nothing finds nothing.
LEMMA NalUnitsOfNone == NalUnits(<<>>) = <<>>
<1> DEFINE b == <<>>
<1>1. b \in Data /\ Len(b) = 0
  BY DataEmpty
<1>2. PICK g : IsScan(g, b) /\ NalUnits(b) = Closed(b, g[Len(b)].found, g[Len(b)].at, Len(b))
  BY <1>1, ScanDef
<1>3. g[Len(b)] = Unread
  BY <1>1, <1>2 DEF IsScan
<1>4. QED
  BY <1>1, <1>2, <1>3 DEF Closed, Unread

\* A reader of framed units finds those that are not empty.
LEMMA ReaderOfFramed ==
  ASSUME NEW us \in Seq(Nal)
  PROVE  Framed(us) \in Data /\ NalUnits(Framed(us)) = NonEmpty(us)
<1>1. Nal \subseteq Data
  BY DEF Nal
<1>2. us \in Seq(Data)
  BY <1>1, SeqMonotonic
<1>3. Framed(us) \in Data /\ NonEmpty(us) \in Seq(Data)
  BY <1>2, FramedFacts, NonEmptyFacts, DataEmpty
<1>4. NalUnits(<<>> \o Framed(us)) = NalUnits(<<>>) \o NonEmpty(us)
  BY DataEmpty, ReaderTakesUnits
<1>5. <<>> \o Framed(us) = Framed(us) /\ <<>> \o NonEmpty(us) = NonEmpty(us)
  BY <1>3, ConcatEmptySeq DEF Data
<1>6. QED
  BY <1>3, <1>4, <1>5, NalUnitsOfNone

\* The types of what a record declares.
LEMMA RecordSets ==
  ASSUME NEW s, IsRecord(s)
  PROVE  DeclaredSets(s) \in Seq(Nal) /\ DeclaredSize(s) \in {0, 1, 2, 4}
<1>1. s.lists \in Seq(Seq(Nal)) /\ s.n \in 1..4 /\ s.form = "record"
  BY RecordLists
<1>2. DeclaredSize(s) \in {0, 1, 2, 4}
  BY <1>1 DEF DeclaredSize
<1>3. FlattenSeq(s.lists) \in Seq(Nal)
  BY <1>1, FlattenType
<1>4. DeclaredSets(s) = IF DeclaredSize(s) = 0 THEN <<>> ELSE FlattenSeq(s.lists)
  BY <1>1 DEF DeclaredSets
<1>5. <<>> \in Seq(Nal)
  OBVIOUS
<1>6. QED
  BY <1>2, <1>3, <1>4, <1>5

\* What from_extradata selects, for every stream.
LEMMA OpenedFacts ==
  ASSUME NEW s \in Sources
  PROVE  /\ DeclaredSize(s) \in {0, 1, 2, 4} /\ DeclaredSets(s) \in Seq(Data)
         /\ Opened(s) \in [length_size : {DeclaredSize(s)}, prologue : Data]
         /\ NalUnits(Opened(s).prologue) = NonEmpty(DeclaredSets(s))
         /\ DeclaredSize(s) # 0 => Opened(s).prologue = Framed(NonEmpty(DeclaredSets(s)))
<1>1. IsRecord(s) \/ IsStream(s)
  BY FramingAssumption
<1>2. CASE IsRecord(s)
  <2> DEFINE sets == DeclaredSets(s)
             kept == NonEmpty(sets)
  <2>1. sets \in Seq(Nal) /\ DeclaredSize(s) \in {0, 1, 2, 4}
    BY <1>2, RecordSets
  <2>2. Opened(s) = [length_size |-> DeclaredSize(s), prologue |-> Framed(kept)]
    BY <1>2, RecordOpened
  <2> HIDE DEF sets
  <2>3. kept \in Seq(Nal) /\ NonEmpty(kept) = kept
    <3>1. <<>> \in Nal
      BY DataEmpty DEF Nal, IsNal, Data
    <3>2. QED
      BY <2>1, <3>1, NonEmptyFacts, NonEmptyTwice
  <2> HIDE DEF kept
  <2>4. Framed(kept) \in Data /\ NalUnits(Framed(kept)) = kept
    BY <2>3, ReaderOfFramed
  <2>5. sets \in Seq(Data)
    <3>1. Nal \subseteq Data
      BY DEF Nal
    <3>2. QED
      BY <2>1, <3>1, SeqMonotonic
  <2>6. QED
    BY <2>1, <2>2, <2>4, <2>5 DEF sets, kept
<1>3. CASE IsStream(s)
  <2>1. /\ Opened(s) = [length_size |-> 0, prologue |-> s.bytes]
        /\ DeclaredSize(s) = 0 /\ DeclaredSets(s) = NalUnits(s.bytes) /\ s.bytes \in Data
    BY <1>3, StreamOpened
  <2>2. NalUnits(s.bytes) \in Seq(Data) /\ NonEmpty(NalUnits(s.bytes)) = NalUnits(s.bytes)
    BY <2>1, NalUnitsFacts
  <2>3. QED
    BY <2>1, <2>2
<1>4. QED
  BY <1>1, <1>2, <1>3

\* The types of a sample.
LEMMA SampleFacts ==
  ASSUME NEW sample \in Samples
  PROVE  /\ sample \in Seq(Nal) /\ sample \in Seq(Data) /\ Framed(sample) \in Data
         /\ \A s \in Sources :
              DeclaredSize(s) # 0 => sample \in Seq(Fitting(DeclaredSize(s)))
<1>1. /\ sample \in Seq(Data)
      /\ \A i \in DOMAIN sample :
           /\ IsNal(sample[i])
           /\ \A s \in Sources : DeclaredSize(s) # 0 => Fits(DeclaredSize(s), Len(sample[i]))
  BY FramingAssumption DEF Data
<1>2. DOMAIN sample = 1..Len(sample) /\ \A i \in 1..Len(sample) : sample[i] \in Data
  BY <1>1
<1>3. sample \in Seq(Nal)
  <2>1. \A i \in 1..Len(sample) : sample[i] \in Nal
    BY <1>1, <1>2 DEF Nal
  <2>2. QED
    BY <1>1, <2>1, SeqInto
<1>4. ASSUME NEW s \in Sources, DeclaredSize(s) # 0
      PROVE  sample \in Seq(Fitting(DeclaredSize(s)))
  <2>1. \A i \in 1..Len(sample) : sample[i] \in Fitting(DeclaredSize(s))
    BY <1>1, <1>2, <1>4 DEF Fitting
  <2>2. QED
    BY <1>1, <2>1, SeqInto
<1>5. QED
  BY <1>1, <1>3, <1>4, ReaderOfFramed

\* reframe turns length-prefixed units into framed ones.
LEMMA BodyOfPrefixed ==
  ASSUME NEW n \in {1, 2, 4}, NEW us \in Seq(Fitting(n))
  PROVE  LengthPrefixed(us, n) \in Data /\ Body(n, LengthPrefixed(us, n)) = Framed(us)
<1> DEFINE d == LengthPrefixed(us, n)
<1>1. us \in Seq(Data)
  <2>1. Fitting(n) \subseteq Data
    BY DEF Fitting
  <2>2. QED
    BY <2>1, SeqMonotonic
<1>2. d \in Data
  BY <1>1, PrefixedFacts, DataEmpty
<1>3. PICK r : IsRewriting(r, d, n, 0) /\ length_prefixed_to_annex_b(d, n) = r[0]
  BY <1>2, RewritingDef
<1>4. <<>> \o d = d /\ Len(<<>>) = 0
  BY <1>2, ConcatEmptySeq DEF Data
<1>5. IsRewriting(r, <<>> \o LengthPrefixed(us, n), n, 0)
  BY <1>3, <1>4
<1>6. r[Len(<<>>)] = [ok |-> TRUE, out |-> Framed(us)]
  BY <1>5, DataEmpty, RewritesUnits
<1>7. r[0] = [ok |-> TRUE, out |-> Framed(us)]
  BY <1>4, <1>6
<1> HIDE DEF d
<1>8. Body(n, d) = Framed(us)
  BY <1>3, <1>7 DEF Body
<1>9. QED
  BY <1>2, <1>8 DEF d

\* Framed units of one byte are also length-prefixed: a start code is a length
\* of one.
LEMMA UnitsOfOne ==
  ASSUME NEW us \in Seq(Data), \A i \in DOMAIN us : Len(us[i]) = 1
  PROVE  Framed(us) = LengthPrefixed(us, 4)
<1>1. BigEndian(4, 1) = StartCode
  <2>1. /\ (1 \div 16777216) % 256 = 0 /\ (1 \div 65536) % 256 = 0
        /\ (1 \div 256) % 256 = 0 /\ 1 % 256 = 1 /\ 5 - 4 = 1
    BY SMT
  <2>2. BigEndian(4, 1) = SubSeq(StartCode, 1, 4)
    BY <2>1, SMT DEF BigEndian, StartCode
  <2>3. SubSeq(StartCode, 1, 4) = StartCode
    BY StartCodeData, SubSeqFull DEF Data
  <2>4. QED
    BY <2>2, <2>3
<1>2. DOMAIN us = 1..Len(us)
  OBVIOUS
<1>3. [i \in 1..Len(us) |-> StartCode \o us[i]]
        = [i \in 1..Len(us) |-> BigEndian(4, Len(us[i])) \o us[i]]
  BY <1>1, <1>2
<1>4. QED
  BY <1>3 DEF Framed, LengthPrefixed

\* The Annex-B samples of SendAnnexB that are as said come through as they are.
LEMMA BodyOfAnnexB ==
  ASSUME NEW s \in Sources, NEW sample \in Samples,
         \/ DeclaredSize(s) = 0
         \/ Tilings(Framed(sample), DeclaredSize(s)) = {}
         \/ DeclaredSize(s) = 4 /\ \A i \in DOMAIN sample : Len(sample[i]) = 1
  PROVE  Body(DeclaredSize(s), Framed(sample)) = Framed(sample)
<1> DEFINE n == DeclaredSize(s)
<1>1. n \in {0, 1, 2, 4} /\ Framed(sample) \in Data /\ sample \in Seq(Data)
  BY OpenedFacts, SampleFacts
<1>2. n # 0 => sample \in Seq(Fitting(n))
  BY SampleFacts
<1> HIDE DEF n
<1>3. CASE n = 0
  BY <1>3 DEF Body, n
<1>4. CASE n # 0 /\ Tilings(Framed(sample), n) = {}
  <2>1. n \in {1, 2, 4}
    BY <1>1, <1>4
  <2>2. Body(n, Framed(sample)) = Framed(sample)
    BY <1>1, <1>4, <2>1, BodyTiles
  <2>3. QED
    BY <2>2 DEF n
<1>5. CASE n = 4 /\ \A i \in DOMAIN sample : Len(sample[i]) = 1
  <2>1. Framed(sample) = LengthPrefixed(sample, 4)
    BY <1>1, <1>5, UnitsOfOne
  <2>2. 4 \in {1, 2, 4} /\ sample \in Seq(Fitting(4))
    BY <1>2, <1>5
  <2>3. Body(4, LengthPrefixed(sample, 4)) = Framed(sample)
    BY <2>2, BodyOfPrefixed
  <2>4. QED
    BY <1>5, <2>1, <2>3 DEF n
<1>6. QED
  BY <1>3, <1>4, <1>5 DEF n

-----------------------------------------------------------------------------
(* The invariant.                                                          *)

\* The types of the state.
FramingTypeOK ==
  /\ source \in Sources
  /\ framing \in [length_size : {0, 1, 2, 4}, prologue : Data]
  /\ written \in Seq(Nal) /\ clean \in BOOLEAN /\ packets \in 0..MaxPackets
  /\ payload \in Data /\ out \in Data /\ bytes \in Data

\* What went ahead of the last packet.
Ahead == IF packets = 1 THEN Opened(source).prologue ELSE <<>>

\* The framing is the one that was selected, without its prologue as soon as a
\* packet took it; a packet is what reframe makes of its payload.
FramingInv ==
  /\ FramingTypeOK
  /\ framing = IF packets = 0 THEN Opened(source) ELSE Taken(Opened(source))
  /\ packets = 0 => bytes = <<>> /\ written = <<>>
  /\ packets > 0 => out = Ahead \o Body(DeclaredSize(source), payload)
  /\ StreamIntact

\* What is left when the prologue is taken.
LEMMA TakenFacts ==
  ASSUME NEW s \in Sources
  PROVE  /\ Taken(Opened(s)) = [length_size |-> DeclaredSize(s), prologue |-> <<>>]
         /\ Opened(s).length_size = DeclaredSize(s) /\ Opened(s).prologue \in Data
BY OpenedFacts DEF Taken

\* The invariant holds at first.
LEMMA FramingInitInv == FramingInit => FramingInv
<1> SUFFICES ASSUME FramingInit PROVE FramingInv
  OBVIOUS
<1>1. /\ source \in Sources /\ framing = Opened(source) /\ written = <<>> /\ clean = TRUE
      /\ payload = <<>> /\ out = <<>> /\ bytes = <<>> /\ packets = 0
  BY DEF FramingInit, Opened
<1>2. framing \in [length_size : {0, 1, 2, 4}, prologue : Data]
  BY <1>1, OpenedFacts
<1>3. <<>> \in Seq(Nal) /\ <<>> \in Data /\ 0 \in 0..MaxPackets
  BY FramingAssumption, DataEmpty
<1>4. StreamIntact
  BY <1>1, NalUnitsOfNone DEF StreamIntact
<1>5. QED
  BY <1>1, <1>2, <1>3, <1>4 DEF FramingInv, FramingTypeOK

\* What a packet is: rewritten or passed whole, behind what is still ahead.
LEMMA SendEmits ==
  ASSUME FramingInv, NEW data \in Data, NEW units, NEW asSaid, Send(data, units, asSaid)
  PROVE  /\ framing' = Taken(Opened(source))
         /\ out' = framing.prologue \o Body(DeclaredSize(source), data)
         /\ framing.prologue = IF packets = 0 THEN Opened(source).prologue ELSE <<>>
<1>1. source \in Sources
  BY DEF FramingInv, FramingTypeOK
<1>2. /\ framing = IF packets = 0 THEN Opened(source) ELSE Taken(Opened(source))
      /\ Taken(Opened(source)) = [length_size |-> DeclaredSize(source), prologue |-> <<>>]
      /\ Opened(source).length_size = DeclaredSize(source)
      /\ Opened(source) \in [length_size : {DeclaredSize(source)}, prologue : Data]
  BY <1>1, TakenFacts, OpenedFacts DEF FramingInv
<1>3. framing.length_size = DeclaredSize(source)
  BY <1>2
<1>4. framing.prologue = IF packets = 0 THEN Opened(source).prologue ELSE <<>>
  BY <1>2
<1>5. CASE is_passthrough(framing)
  <2>1. framing' = framing /\ out' = data /\ DeclaredSize(source) = 0 /\ framing.prologue = <<>>
    BY <1>3, <1>5 DEF Send, is_passthrough
  <2>2. framing = Taken(Opened(source))
    BY <1>2, <2>1
  <2>3. Body(DeclaredSize(source), data) = data
    BY <2>1 DEF Body
  <2>4. <<>> \o data = data
    BY ConcatEmptySeq DEF Data
  <2>5. QED
    BY <1>4, <2>1, <2>2, <2>3, <2>4
<1>6. CASE ~is_passthrough(framing)
  <2>1. framing' = Taken(framing) /\ out' = framing.prologue \o Body(framing.length_size, data)
    BY <1>6 DEF Send, reframe
  <2>2. Taken(framing) = Taken(Opened(source))
    BY <1>2 DEF Taken
  <2>3. QED
    BY <1>3, <1>4, <2>1, <2>2
<1>7. QED
  BY <1>5, <1>6

\* The type of what reframe makes of a payload.
LEMMA BodyType ==
  ASSUME NEW data \in Data, NEW n \in {0, 1, 2, 4}
  PROVE  Body(n, data) \in Data
<1>1. CASE n = 0
  BY <1>1 DEF Body
<1>2. CASE n # 0
  <2>1. n \in {1, 2, 4}
    BY <1>2
  <2>2. PICK r : IsRewriting(r, data, n, 0) /\ length_prefixed_to_annex_b(data, n) = r[0]
    BY <2>1, RewritingDef
  <2>3. Body(n, data) = IF r[0].ok THEN r[0].out ELSE data
    BY <1>2, <2>2 DEF Body
  <2>4. CASE ~r[0].ok
    BY <2>3, <2>4
  <2>5. CASE r[0].ok
    <3>1. PICK cuts \in Tilings(data, n) : TRUE
      BY <2>1, <2>2, <2>5, RewritableIsTiled
    <3>2. r[0] = [ok |-> TRUE, out |-> Framed(Pieces(data, n, cuts))]
      BY <2>1, <2>2, TiledIsRewritten
    <3>3. Pieces(data, n, cuts) \in Seq(Data)
      BY <2>1, PiecesType
    <3>4. Framed(Pieces(data, n, cuts)) \in Data
      BY <3>3, FramedFacts, DataEmpty
    <3>5. QED
      BY <2>3, <2>5, <3>2, <3>4
  <2>6. QED
    BY <2>4, <2>5
<1>3. QED
  BY <1>1, <1>2

\* Three lists in a row.
LEMMA ConcatThree ==
  ASSUME NEW S, NEW x \in Seq(S), NEW y \in Seq(S), NEW z \in Seq(S)
  PROVE  x \o y \in Seq(S) /\ x \o (y \o z) = (x \o y) \o z
<1>1. x \o y \in Seq(S)
  BY ConcatType
<1>2. x \o (y \o z) = (x \o y) \o z
  BY ConcatAssociative, SMTT(30)
<1>3. QED
  BY <1>1, <1>2

\* What the reader finds when one more packet is framed units.
LEMMA ReaderAfter ==
  ASSUME NEW s \in Sources, NEW b \in Data, NEW w \in Seq(Nal), NEW sample \in Seq(Nal),
         NEW first \in BOOLEAN,
         first => b = <<>> /\ w = <<>>,
         ~first => NalUnits(b) = NonEmpty(DeclaredSets(s) \o w)
  PROVE  NalUnits(b \o ((IF first THEN Opened(s).prologue ELSE <<>>) \o Framed(sample)))
           = NonEmpty(DeclaredSets(s) \o (w \o sample))
<1> DEFINE sets == DeclaredSets(s)
           p == IF first THEN Opened(s).prologue ELSE <<>>
           bp == b \o p
           f == Framed(sample)
           sw == sets \o w
<1>1. sets \in Seq(Data) /\ Opened(s).prologue \in Data
      /\ NalUnits(Opened(s).prologue) = NonEmpty(sets)
  BY OpenedFacts
<1>2. p \in Data
  BY <1>1, DataEmpty
<1>3. Nal \subseteq Data
  BY DEF Nal
<1>4. sample \in Seq(Data) /\ w \in Seq(Data)
  BY <1>3, SeqMonotonic
<1>5. f \in Data
  BY ReaderOfFramed
<1>6. NalUnits(bp) = NonEmpty(sw)
  <2>1. CASE first
    <3>1. bp = Opened(s).prologue
      BY <1>1, <2>1, ConcatEmptySeq DEF Data
    <3>2. sw = sets
      BY <1>1, <2>1, ConcatEmptySeq
    <3>3. QED
      BY <1>1, <3>1, <3>2
  <2>2. CASE ~first
    <3>1. bp = b
      BY <2>2, ConcatEmptySeq DEF Data
    <3>2. QED
      BY <2>2, <3>1
  <2>3. QED
    BY <2>1, <2>2
<1> HIDE DEF sets, p, f
<1>7. bp \in Data /\ b \o (p \o f) = bp \o f
  BY <1>2, <1>5, ConcatData, DataAssociative, ZenonT(30)
<1> HIDE DEF bp
<1>8. NalUnits(bp \o f) = NalUnits(bp) \o NonEmpty(sample)
  BY <1>7, ReaderTakesUnits DEF f
<1>9. sw \in Seq(Data) /\ sets \o (w \o sample) = sw \o sample
  <2>1. sets \in Seq(Data) /\ w \in Seq(Data) /\ sample \in Seq(Data)
    BY <1>1, <1>4
  <2>3. sets \o w \in Seq(Data)
    BY <2>1, ConcatThree
  <2>4. sets \o (w \o sample) = (sets \o w) \o sample
    BY <2>1, ConcatThree, SMTT(30)
  <2>5. QED
    BY <2>3, <2>4
<1> HIDE DEF sw
<1>10. NonEmpty(sw \o sample) = NonEmpty(sw) \o NonEmpty(sample)
  BY <1>4, <1>9, NonEmptyConcat
<1>11. NalUnits(b \o (p \o f)) = NonEmpty(sets \o (w \o sample))
  BY <1>6, <1>7, <1>8, <1>9, <1>10
<1>12. QED
  BY <1>11 DEF sets, p, f

\* A packet keeps the invariant: its units are found behind those before.
LEMMA SendInv ==
  ASSUME FramingInv, NEW data \in Data, NEW units \in Seq(Nal), NEW asSaid \in BOOLEAN,
         Send(data, units, asSaid),
         asSaid => Body(DeclaredSize(source), data) = Framed(units)
  PROVE  FramingInv'
<1>1. FramingTypeOK
  BY DEF FramingInv
<1>2. /\ source \in Sources /\ written \in Seq(Nal) /\ clean \in BOOLEAN
      /\ packets \in 0..MaxPackets /\ bytes \in Data /\ MaxPackets \in Nat
  BY <1>1, FramingAssumption DEF FramingTypeOK
<1>3. /\ packets < MaxPackets /\ packets' = packets + 1 /\ clean
      /\ payload' = data /\ bytes' = bytes \o out' /\ written' = written \o units
      /\ clean' = (clean /\ asSaid) /\ source' = source
  BY DEF Send
<1> DEFINE n == DeclaredSize(source)
           body == Body(n, data)
           p == IF packets = 0 THEN Opened(source).prologue ELSE <<>>
<1>4. /\ framing' = Taken(Opened(source)) /\ out' = p \o body
  BY SendEmits
<1>5. n \in {0, 1, 2, 4} /\ Opened(source).prologue \in Data
      /\ Taken(Opened(source)) = [length_size |-> n, prologue |-> <<>>]
  BY <1>2, OpenedFacts, TakenFacts
<1>6. body \in Data /\ p \in Data
  BY <1>5, BodyType, DataEmpty
<1> HIDE DEF n, body, p
<1>7. out' \in Data
  BY <1>4, <1>6, ConcatData
<1>8. bytes' \in Data
  BY <1>2, <1>3, <1>7, ConcatData
<1>9. written' \in Seq(Nal)
  BY <1>2, <1>3, ConcatType
<1>10. packets' \in 0..MaxPackets /\ packets' # 0 /\ (packets' = 1 <=> packets = 0)
  BY <1>2, <1>3
<1>11. framing' \in [length_size : {0, 1, 2, 4}, prologue : Data]
  BY <1>4, <1>5, DataEmpty
<1>12. FramingTypeOK'
  BY <1>2, <1>3, <1>7, <1>8, <1>9, <1>10, <1>11 DEF FramingTypeOK
<1>13. Ahead' = p
  BY <1>3, <1>10 DEF Ahead, p
<1>14. StreamIntact'
  <2> SUFFICES ASSUME clean' PROVE NalUnits(bytes') = NonEmpty(DeclaredSets(source) \o written')
    BY <1>3, <1>10 DEF StreamIntact
  <2>1. asSaid
    BY <1>3
  <2>2. body = Framed(units)
    BY <2>1 DEF body, n
  <2>3. packets = 0 => bytes = <<>> /\ written = <<>>
    BY DEF FramingInv
  <2>4. packets # 0 => NalUnits(bytes) = NonEmpty(DeclaredSets(source) \o written)
    BY <1>3 DEF FramingInv, StreamIntact
  <2> DEFINE first == packets = 0
  <2>5. NalUnits(bytes \o ((IF first THEN Opened(source).prologue ELSE <<>>) \o Framed(units)))
          = NonEmpty(DeclaredSets(source) \o (written \o units))
    BY <1>2, <2>3, <2>4, ReaderAfter
  <2>6. QED
    BY <1>3, <1>4, <2>2, <2>5 DEF p
<1>15. QED
  BY <1>3, <1>4, <1>10, <1>12, <1>13, <1>14 DEF FramingInv, body, n

\* Every step keeps it.
LEMMA FramingNextInv ==
  ASSUME FramingInv, [FramingNext]_framingVars
  PROVE  FramingInv'
<1>1. source \in Sources
  BY DEF FramingInv, FramingTypeOK
<1>2. ASSUME NEW sample \in Samples, SendContainer(sample) PROVE FramingInv'
  <2> DEFINE n == DeclaredSize(source)
             data == LengthPrefixed(sample, n)
  <2>1. n # 0 /\ Send(data, sample, TRUE)
    BY <1>2 DEF SendContainer
  <2>2. n \in {1, 2, 4}
    BY <1>1, <2>1, OpenedFacts
  <2>3. sample \in Seq(Nal) /\ sample \in Seq(Fitting(n))
    BY <1>1, <2>1, SampleFacts
  <2>4. data \in Data /\ Body(n, data) = Framed(sample)
    <3> HIDE DEF n
    <3>1. QED
      BY <2>2, <2>3, BodyOfPrefixed
  <2> HIDE DEF data
  <2>5. QED
    BY <2>1, <2>3, <2>4, SendInv
<1>3. ASSUME NEW sample \in Samples, SendAnnexB(sample) PROVE FramingInv'
  <2> DEFINE data == Framed(sample)
             said == \/ DeclaredSize(source) = 0
                     \/ Tilings(data, DeclaredSize(source)) = {}
                     \/ DeclaredSize(source) = 4 /\ \A i \in DOMAIN sample : Len(sample[i]) = 1
  <2>1. Send(data, sample, said)
    BY <1>3 DEF SendAnnexB
  <2>2. sample \in Seq(Nal) /\ data \in Data
    BY SampleFacts
  <2>3. said => Body(DeclaredSize(source), data) = Framed(sample)
    BY <1>1, BodyOfAnnexB
  <2>4. said \in BOOLEAN
    OBVIOUS
  <2> HIDE DEF data, said
  <2>5. QED
    BY <2>1, <2>2, <2>3, <2>4, SendInv
<1>4. ASSUME NEW data \in Raw, SendRaw(data) PROVE FramingInv'
  <2>1. data \in Data /\ <<>> \in Seq(Nal)
    BY FramingAssumption DEF Data
  <2>2. Send(data, <<>>, FALSE)
    BY <1>4 DEF SendRaw
  <2>3. QED
    BY <2>1, <2>2, SendInv
<1>5. ASSUME UNCHANGED framingVars PROVE FramingInv'
  <2>1. /\ source' = source /\ framing' = framing /\ written' = written /\ clean' = clean
        /\ payload' = payload /\ out' = out /\ bytes' = bytes /\ packets' = packets
    BY <1>5 DEF framingVars
  <2>2. FramingTypeOK' /\ StreamIntact' /\ Ahead' = Ahead
    BY <2>1 DEF FramingInv, FramingTypeOK, StreamIntact, Ahead
  <2>3. QED
    BY <2>1, <2>2 DEF FramingInv
<1>6. QED
  BY <1>2, <1>3, <1>4, <1>5 DEF FramingNext

\* The invariant holds in every state: the framing is the one that the extradata
\* selected, with its prologue or without, and what was sent is what is read.
THEOREM FramingInvariant == FramingSpec => []FramingInv
<1>1. FramingInit => FramingInv
  BY FramingInitInv
<1>2. FramingInv /\ [FramingNext]_framingVars => FramingInv'
  BY FramingNextInv
<1>3. QED
  BY <1>1, <1>2, PTL DEF FramingSpec

\* The types of the state.
THEOREM FramingTypeCorrect == FramingSpec => []FramingTypeOK
<1>1. FramingInv => FramingTypeOK
  BY DEF FramingInv
<1>2. QED
  BY <1>1, FramingInvariant, PTL

\* Whatever the streams, samples and number of packets, the parser finds the
\* parameter sets once and first, then every unit of every sample, in order.
THEOREM ReaderFindsAll == FramingSpec => []StreamIntact
<1>1. FramingInv => StreamIntact
  BY DEF FramingInv
<1>2. QED
  BY <1>1, FramingInvariant, PTL

\* Whatever the records, a length size and a prologue come only from a whole one.
THEOREM OnlyWholeRecords == FramingSpec => []RecordJudged
<1>1. FramingInv => RecordJudged
  <2> SUFFICES ASSUME FramingInv PROVE RecordJudged
    OBVIOUS
  <2>1. source \in Sources
    BY DEF FramingInv, FramingTypeOK
  <2>2. /\ framing = IF packets = 0 THEN Opened(source) ELSE Taken(Opened(source))
        /\ Taken(Opened(source)) = [length_size |-> DeclaredSize(source), prologue |-> <<>>]
        /\ Opened(source).length_size = DeclaredSize(source)
        /\ NalUnits(Opened(source).prologue) = NonEmpty(DeclaredSets(source))
    BY <2>1, OpenedFacts, TakenFacts DEF FramingInv
  <2>3. QED
    BY <2>2 DEF RecordJudged
<1>2. QED
  BY <1>1, FramingInvariant, PTL

\* Whatever the payloads, a packet is rewritten exactly if it is tiled by
\* length-prefixed units, into those units, and passed unchanged otherwise.
THEOREM RewrittenExactly == FramingSpec => []TilesExactly
<1>1. FramingInv => TilesExactly
  <2> SUFFICES ASSUME FramingInv PROVE TilesExactly
    OBVIOUS
  <2>1. source \in Sources /\ payload \in Data
    BY DEF FramingInv, FramingTypeOK
  <2> DEFINE n == DeclaredSize(source)
             prologue == IF packets = 1 THEN Framed(NonEmpty(DeclaredSets(source))) ELSE <<>>
  <2> SUFFICES ASSUME n # 0, packets > 0
               PROVE  IF Tilings(payload, n) = {} THEN out = prologue \o payload
                      ELSE \A cuts \in Tilings(payload, n) :
                             out = prologue \o Framed(Pieces(payload, n, cuts))
    BY DEF TilesExactly
  <2>2. n \in {1, 2, 4} /\ Ahead = prologue
    BY <2>1, OpenedFacts DEF Ahead
  <2>3. out = prologue \o Body(n, payload)
    BY <2>2 DEF FramingInv
  <2> HIDE DEF n, prologue
  <2>4. /\ Tilings(payload, n) = {} => Body(n, payload) = payload
        /\ \A cuts \in Tilings(payload, n) :
             Body(n, payload) = Framed(Pieces(payload, n, cuts))
    BY <2>1, <2>2, BodyTiles
  <2>5. QED
    BY <2>3, <2>4
<1>2. QED
  BY <1>1, FramingInvariant, PTL
=============================================================================
