------------------------ MODULE DefenderDemo_proofs ------------------------
(***************************************************************************)
(* Which report an answer of the Device Defender service is taken for, and *)
(* what a report has in it: proved for any number of reports and           *)
(* notifications, every size of the buffer and the arrays, and all         *)
(* metrics.                                                                *)
(***************************************************************************)
EXTENDS DefenderDemo, TLAPS, NaturalsInduction, WellFoundedInduction

----------------------------------------------------------------------------
(* The folds of ReportBuilder, one element at a time.  FoldLeft is a       *)
(* function on the sets of the indices; its values on the prefixes 1 .. k  *)
(* are a sequence of partial results.                                      *)

\* Induction on natural numbers, for a set of them: WFMin gives the least number
\* that is not in it.
LEMMA InductionOnSets ==
    ASSUME NEW S \in SUBSET Nat, 0 \in S, \A n \in S : n + 1 \in S
    PROVE  S = Nat
<1> DEFINE LessThan == {p \in Nat \X Nat : p[1] < p[2]}
<1>1. IsWellFoundedOn(LessThan, Nat)
  BY NatLessThanWellFounded DEF OpToRel
<1> SUFFICES ASSUME S # Nat PROVE FALSE
  OBVIOUS
<1>2. Nat \ S # {}
  OBVIOUS
<1>3. PICK n \in Nat \ S : \A m \in Nat \ S : ~ (<<m, n>> \in LessThan)
  <2> HIDE DEF LessThan
  <2> QED
    BY <1>1, <1>2, WFMin
<1>4. n # 0 /\ n - 1 \in Nat
  BY <1>3
<1>5. n - 1 \in S
  <2>1. <<n - 1, n>> \in LessThan
    BY <1>3, <1>4
  <2> HIDE DEF LessThan
  <2> QED
    BY <1>3, <1>4, <2>1
<1>6. (n - 1) + 1 = n
  BY <1>3
<1> QED
  BY <1>3, <1>5, <1>6

\* h is the table of the fold of F over the sets of indices up to n.
FoldTable(h, n, base, F) ==
    \A s \in SUBSET (1 .. n) : h[s] = IF s = {} THEN base ELSE F[<<h[s \ {Max(s)}], Max(s)>>]

\* A nonempty set of numbers with a bound has a greatest one.
LEMMA MaxOfSet ==
    ASSUME NEW n \in Nat, NEW s \in SUBSET (1 .. n + 1), n + 1 \in s
    PROVE Max(s) = n + 1
<1>1. \A x \in s : n + 1 >= x
  OBVIOUS
<1>2. ASSUME NEW m \in s, \A x \in s : m >= x PROVE m = n + 1
  BY <1>1, <1>2
<1> HIDE DEF Max
<1>3. Max(s) \in s /\ \A x \in s : Max(s) >= x
  BY <1>1 DEF Max
<1> QED
  BY <1>2, <1>3

\* Max of the community modules is that one.
LEMMA MaxIsIn ==
    ASSUME NEW n \in Nat, NEW s \in SUBSET (1 .. n), s # {}
    PROVE  Max(s) \in 1 .. n
<1> DEFINE Greater == {p \in Nat \X Nat : p[1] < p[2]}
           r == {n - x : x \in s}
<1>1. IsWellFoundedOn(Greater, Nat)
  BY NatLessThanWellFounded DEF OpToRel
<1>2. r # {} /\ r \subseteq Nat
  <2>1. ASSUME NEW x \in s PROVE n - x \in Nat
    OBVIOUS
  <2> QED
    BY <2>1
<1>3. PICK m \in r : \A y \in r : <<y, m>> \notin Greater
  <2> HIDE DEF Greater, r
  <2> QED
    BY <1>1, <1>2, WFMin
<1>4. PICK x \in s : m = n - x
  BY <1>3
<1>5. ASSUME NEW y \in s PROVE x >= y
  <2>1. n - y \in r /\ n - y \in Nat /\ m \in Nat
    BY <1>2, <1>3
  <2>2. ~ (n - y < m)
    BY <1>3, <2>1
  <2> QED
    BY <1>4, <2>2
<1>6. Max(s) \in s
  BY <1>5 DEF Max
<1> QED
  BY <1>6

\* The values of a fold over the prefixes of a sequence are a function.
LEMMA FoldTableExists ==
    ASSUME NEW X, NEW base \in X, NEW N \in Nat, NEW F \in [X \X (1 .. N) -> X]
    PROVE  \E h \in [SUBSET (1 .. N) -> X] : FoldTable(h, N, base, F)
<1> DEFINE S == {n \in Nat : n <= N => \E h \in [SUBSET (1 .. n) -> X] : FoldTable(h, n, base, F)}
<1>1. 0 \in S
  <2>1. 1 .. 0 = {}
    OBVIOUS
  <2> DEFINE h == [s \in {{}} |-> base]
  <2>2. h \in [SUBSET (1 .. 0) -> X] /\ FoldTable(h, 0, base, F)
    BY <2>1 DEF FoldTable
  <2> QED
    BY <2>2
<1>2. ASSUME NEW n \in S PROVE n + 1 \in S
  <2>a. n \in Nat /\ (n <= N => \E g \in [SUBSET (1 .. n) -> X] : FoldTable(g, n, base, F))
    BY <1>2
  <2>b. n + 1 \in Nat
    BY <2>a
  <2> SUFFICES ASSUME n + 1 <= N
      PROVE \E h \in [SUBSET (1 .. n + 1) -> X] : FoldTable(h, n + 1, base, F)
    BY <2>b
  <2>c. n <= N
    BY <2>a
  <2>1. PICK g \in [SUBSET (1 .. n) -> X] : FoldTable(g, n, base, F)
    BY <2>a, <2>c
  <2> DEFINE h == [s \in SUBSET (1 .. n + 1) |->
                      IF n + 1 \in s THEN F[<<g[s \ {n + 1}], n + 1>>] ELSE g[s]]
  <2>2. ASSUME NEW s \in SUBSET (1 .. n + 1) PROVE s \ {n + 1} \in SUBSET (1 .. n)
    OBVIOUS
  <2>3. n + 1 \in 1 .. N
    BY <1>2
  <2>4. h \in [SUBSET (1 .. n + 1) -> X]
    <3>1. ASSUME NEW s \in SUBSET (1 .. n + 1) 
          PROVE (IF n + 1 \in s THEN F[<<g[s \ {n + 1}], n + 1>>] ELSE g[s]) \in X
      <4>1. g[s \ {n + 1}] \in X
        BY <2>1, <2>2
      <4>2. n + 1 \notin s => s = s \ {n + 1}
        OBVIOUS
      <4> QED
        BY <2>3, <4>1, <4>2
    <3> QED
      BY <3>1
  <2>5. ASSUME NEW s \in SUBSET (1 .. n + 1) 
        PROVE  h[s] = IF s = {} THEN base ELSE F[<<h[s \ {Max(s)}], Max(s)>>]
    <3>1. CASE n + 1 \in s
      <4>1. Max(s) = n + 1
        BY <1>2, <3>1, MaxOfSet
      <4>2. h[s \ {n + 1}] = g[s \ {n + 1}]
        BY <2>2
      <4>3. h[s] = F[<<g[s \ {n + 1}], n + 1>>]
        BY <3>1
      <4> HIDE DEF h
      <4> QED
        BY <3>1, <4>1, <4>2, <4>3
    <3>2. CASE n + 1 \notin s
      <4>1. s \in SUBSET (1 .. n) 
        BY <2>2, <3>2
      <4>2. h[s] = g[s] 
        BY <3>2
      <4>3. h[s \ {Max(s)}] = g[s \ {Max(s)}]
        BY <3>2
      <4>4. g[s] = IF s = {} THEN base ELSE F[<<g[s \ {Max(s)}], Max(s)>>]
        BY <2>1, <4>1 DEF FoldTable
      <4> HIDE DEF h
      <4> QED
        BY <4>2, <4>3, <4>4
    <3> QED
      BY <3>1, <3>2
  <2>6. FoldTable(h, n + 1, base, F)
    BY <2>5 DEF FoldTable
  <2> HIDE DEF h
  <2> QED
    BY <2>4, <2>6
<1>3. S \in SUBSET Nat
  OBVIOUS
<1>4. S = Nat
  <2> HIDE DEF S
  <2> QED
    BY <1>1, <1>2, <1>3, InductionOnSets
<1>5. N \in S /\ N <= N
  <2> HIDE DEF S
  <2> QED
    BY <1>4
<1> QED
  BY <1>5

\* Induction up to a bound.
LEMMA InductionUpTo ==
    ASSUME NEW N \in Nat, NEW S, 0 \in S, \A n \in 1 .. N : n - 1 \in S => n \in S
    PROVE  \A n \in 0 .. N : n \in S
<1> DEFINE T == {n \in Nat : n <= N => n \in S}
<1>1. 0 \in T
  OBVIOUS
<1>2. ASSUME NEW n \in T PROVE n + 1 \in T
  <2>1. n \in Nat /\ (n <= N => n \in S)
    OBVIOUS
  <2>2. CASE n + 1 <= N
    <3>1. n + 1 \in 1 .. N /\ (n + 1) - 1 = n /\ n <= N
      BY <2>1, <2>2
    <3>2. n + 1 \in S
      BY <2>1, <3>1
    <3> QED
      BY <3>1, <3>2
  <2> QED
    BY <2>1, <2>2
<1>3. T = Nat
  <2>1. T \in SUBSET Nat
    OBVIOUS
  <2> HIDE DEF T
  <2> QED
    BY <1>1, <1>2, <2>1, InductionOnSets
<1> QED
  BY <1>3

\* The last element of a prefix of a sequence.
LEMMA LastOfPrefix ==
    ASSUME NEW k \in Nat \ {0}
    PROVE  Max(1 .. k) = k /\ (1 .. k) \ {k} = 1 .. k - 1 /\ 1 .. k # {}
<1>1. k - 1 \in Nat /\ (k - 1) + 1 = k /\ k \in 1 .. k
  OBVIOUS
<1>2. Max(1 .. k) = k
  BY <1>1, MaxOfSet
<1>3. (1 .. k) \ {k} = 1 .. k - 1
  OBVIOUS
<1> QED
  BY <1>1, <1>2, <1>3

\* The table of a sum.
SumTable(h, s) ==
    h = [t \in SUBSET (1 .. Len(s)) |-> IF t = {} THEN 0 ELSE h[t \ {Max(t)}] + s[Max(t)]]

\* Lengths is such a fold.
LEMMA LengthsIsTable ==
    ASSUME NEW s \in Seq(Nat)
    PROVE  Lengths(s) = (CHOOSE h : SumTable(h, s))[1 .. Len(s)]
<1>1. DOMAIN s = 1 .. Len(s)
  OBVIOUS
<1> QED
  BY <1>1 DEF Lengths, FoldLeft, MapThenFoldSet, SumTable

\* The length of a prefix grows by the length of its last element.
LEMMA LengthsSteps ==
    ASSUME NEW s \in Seq(Nat)
    PROVE  \E p \in [0 .. Len(s) -> Nat] :
             /\ p[0] = 0
             /\ \A k \in 1 .. Len(s) : p[k] = p[k - 1] + s[k]
             /\ p[Len(s)] = Lengths(s)
<1> DEFINE N == Len(s)
           F == [x \in Nat \X (1 .. N) |-> x[1] + s[x[2]]]
<1>1. N \in Nat /\ \A k \in 1 .. N : s[k] \in Nat
  OBVIOUS
<1>2. F \in [Nat \X (1 .. N) -> Nat]
  BY <1>1
<1>3. PICK g \in [SUBSET (1 .. N) -> Nat] : FoldTable(g, N, 0, F)
  <2> HIDE DEF F, N
  <2> QED
    BY <1>1, <1>2, FoldTableExists
<1>4. SumTable(g, s)
  <2>1. ASSUME NEW t \in SUBSET (1 .. N)
        PROVE  g[t] = IF t = {} THEN 0 ELSE g[t \ {Max(t)}] + s[Max(t)]
    <3>1. CASE t = {}
      BY <1>3, <3>1 DEF FoldTable
    <3>2. CASE t # {}
      <4>1. g[t] = F[<<g[t \ {Max(t)}], Max(t)>>]
        BY <1>3, <3>2 DEF FoldTable
      <4>2. g[t \ {Max(t)}] \in Nat
        BY <1>3
      <4>3. Max(t) \in 1 .. N
        BY <1>1, <3>2, MaxIsIn
      <4> QED
        BY <3>2, <4>1, <4>2, <4>3
    <3> QED
      BY <3>1, <3>2
  <2> QED
    BY <1>3, <2>1 DEF SumTable
<1> DEFINE h == CHOOSE h : SumTable(h, s)
           p == [k \in 0 .. N |-> h[1 .. k]]
<1>5. SumTable(h, s)
  BY <1>4
<1>6. Lengths(s) = h[1 .. N]
  BY LengthsIsTable
<1> HIDE DEF h
<1>7. p[0] = 0
  <2>1. 1 .. 0 = {} /\ 0 \in 0 .. N
    BY <1>1
  <2> QED
    BY <1>5, <2>1 DEF SumTable
<1>8. ASSUME NEW k \in 1 .. N PROVE p[k] = p[k - 1] + s[k]
  <2>1. k \in Nat \ {0} /\ k \in 0 .. N /\ k - 1 \in 0 .. N /\ 1 .. k \in SUBSET (1 .. N)
    BY <1>1
  <2>2. Max(1 .. k) = k /\ (1 .. k) \ {k} = 1 .. k - 1 /\ 1 .. k # {}
    BY <2>1, LastOfPrefix
  <2>3. h[1 .. k] = h[1 .. k - 1] + s[k]
    BY <1>5, <2>1, <2>2 DEF SumTable
  <2> QED
    BY <2>1, <2>3
<1>9. \A k \in 0 .. N : p[k] \in Nat
  <2> DEFINE S == {k \in 0 .. N : p[k] \in Nat}
  <2> HIDE DEF p
  <2>1. 0 \in S
    BY <1>1, <1>7
  <2>2. ASSUME NEW k \in 1 .. N, k - 1 \in S PROVE k \in S
    <3>1. p[k - 1] \in Nat /\ s[k] \in Nat
      BY <1>1, <2>2
    <3>2. p[k] \in Nat
      BY <1>8, <3>1
    <3>3. k \in 0 .. N
      BY <1>1
    <3> QED
      BY <3>2, <3>3
  <2>3. \A k \in 0 .. N : k \in S
    <3> HIDE DEF S, N
    <3> QED
      BY <1>1, <2>1, <2>2, InductionUpTo
  <2> QED
    BY <2>3
<1>10. p \in [0 .. N -> Nat]
  BY <1>9
<1>11. p[N] = Lengths(s)
  BY <1>1, <1>6
<1> HIDE DEF p
<1> QED
  BY <1>7, <1>8, <1>10, <1>11

----------------------------------------------------------------------------
(* A report is written part by part: each helper writes the text it is     *)
(* for, or fails, and fails only for want of room.                         *)

\* What a writer may be.
Writers == [ok : BOOLEAN, remaining : Int]

\* The loop over the elements of an array, each with its comma, as a table.
WriteTable(h, w, s) ==
    h = [t \in SUBSET (1 .. Len(s)) |->
            IF t = {} THEN w ELSE Snprintf(h[t \ {Max(t)}], s[Max(t)] + 1)]

WriteElements(w, s) == (CHOOSE h : WriteTable(h, w, s))[1 .. Len(s)]

\* An array is written element by element.
LEMMA ArraysWriteElements ==
    ASSUME NEW w, NEW s \in Seq(Nat)
    PROVE  /\ prvWritePortsArray(w, s) = Marker(DiscardComma(WriteElements(Marker(w), s), s))
           /\ prvWriteConnectionsArray(w, s) = Marker(DiscardComma(WriteElements(Marker(w), s), s))
           /\ prvWriteTaskIdsArray(w, s) = Marker(DiscardComma(WriteElements(Marker(w), s), s))
<1>1. DOMAIN s = 1 .. Len(s)
  OBVIOUS
<1>2. prvWritePortsArray(w, s) = Marker(DiscardComma(WriteElements(Marker(w), s), s))
  BY <1>1 DEF prvWritePortsArray, FoldLeft, MapThenFoldSet, WriteElements, WriteTable
<1>3. prvWriteConnectionsArray(w, s) = Marker(DiscardComma(WriteElements(Marker(w), s), s))
  BY <1>1 DEF prvWriteConnectionsArray, FoldLeft, MapThenFoldSet, WriteElements, WriteTable
<1>4. prvWriteTaskIdsArray(w, s) = Marker(DiscardComma(WriteElements(Marker(w), s), s))
  BY <1>1 DEF prvWriteTaskIdsArray, FoldLeft, MapThenFoldSet, WriteElements, WriteTable
<1> QED
  BY <1>2, <1>3, <1>4

\* What a writer returns.
LEMMA WriterType ==
    ASSUME NEW w \in Writers, NEW length \in Nat
    PROVE  Snprintf(w, length) \in Writers
  BY DEF Snprintf, Writer, Writers

\* The loop over the elements, one turn at a time.
LEMMA ElementsSteps ==
    ASSUME NEW w \in Writers, NEW s \in Seq(Nat)
    PROVE  \E p \in [0 .. Len(s) -> Writers] :
             /\ p[0] = w
             /\ \A k \in 1 .. Len(s) : p[k] = Snprintf(p[k - 1], s[k] + 1)
             /\ p[Len(s)] = WriteElements(w, s)
<1> DEFINE N == Len(s)
           F == [x \in Writers \X (1 .. N) |-> Snprintf(x[1], s[x[2]] + 1)]
<1>1. N \in Nat /\ \A k \in 1 .. N : s[k] + 1 \in Nat
  OBVIOUS
<1>2. F \in [Writers \X (1 .. N) -> Writers]
  BY <1>1, WriterType
<1>3. PICK g \in [SUBSET (1 .. N) -> Writers] : FoldTable(g, N, w, F)
  <2> HIDE DEF F, N
  <2> QED
    BY <1>1, <1>2, FoldTableExists
<1>4. WriteTable(g, w, s)
  <2>1. ASSUME NEW t \in SUBSET (1 .. N)
        PROVE  g[t] = IF t = {} THEN w ELSE Snprintf(g[t \ {Max(t)}], s[Max(t)] + 1)
    <3>1. CASE t = {}
      BY <1>3, <3>1 DEF FoldTable
    <3>2. CASE t # {}
      <4>1. g[t] = F[<<g[t \ {Max(t)}], Max(t)>>]
        BY <1>3, <3>2 DEF FoldTable
      <4>2. g[t \ {Max(t)}] \in Writers
        BY <1>3
      <4>3. Max(t) \in 1 .. N
        BY <1>1, <3>2, MaxIsIn
      <4> QED
        BY <3>2, <4>1, <4>2, <4>3
    <3> QED
      BY <3>1, <3>2
  <2> QED
    BY <1>3, <2>1 DEF WriteTable
<1> DEFINE h == CHOOSE h : WriteTable(h, w, s)
           p == [k \in 0 .. N |-> h[1 .. k]]
<1>5. WriteTable(h, w, s)
  BY <1>4
<1>6. WriteElements(w, s) = h[1 .. N]
  BY DEF WriteElements
<1> HIDE DEF h
<1>7. p[0] = w
  <2>1. 1 .. 0 = {} /\ 0 \in 0 .. N
    BY <1>1
  <2> QED
    BY <1>5, <2>1 DEF WriteTable
<1>8. ASSUME NEW k \in 1 .. N PROVE p[k] = Snprintf(p[k - 1], s[k] + 1)
  <2>1. k \in Nat \ {0} /\ k \in 0 .. N /\ k - 1 \in 0 .. N /\ 1 .. k \in SUBSET (1 .. N)
    BY <1>1
  <2>2. Max(1 .. k) = k /\ (1 .. k) \ {k} = 1 .. k - 1 /\ 1 .. k # {}
    BY <2>1, LastOfPrefix
  <2>3. h[1 .. k] = Snprintf(h[1 .. k - 1], s[k] + 1)
    BY <1>5, <2>1, <2>2 DEF WriteTable
  <2> QED
    BY <2>1, <2>3
<1>9. \A k \in 0 .. N : p[k] \in Writers
  <2> DEFINE S == {k \in 0 .. N : p[k] \in Writers}
  <2> HIDE DEF p
  <2>1. 0 \in S
    BY <1>1, <1>7
  <2>2. ASSUME NEW k \in 1 .. N, k - 1 \in S PROVE k \in S
    BY <1>1, <1>8, <2>2, WriterType
  <2>3. \A k \in 0 .. N : k \in S
    <3> HIDE DEF S, N
    <3> QED
      BY <1>1, <2>1, <2>2, InductionUpTo
  <2> QED
    BY <2>3
<1>10. p \in [0 .. N -> Writers]
  BY <1>9
<1>11. p[N] = WriteElements(w, s)
  BY <1>1, <1>6
<1> HIDE DEF p
<1> QED
  BY <1>7, <1>8, <1>10, <1>11

\* After n characters were written of a buffer of the given length.
Wrote(w, length, n) ==
    /\ w \in Writers
    /\ w.ok <=> n < length
    /\ w.ok => w.remaining = length - n

\* snprintf() writes a text that fits, or says that it did not.
LEMMA SnprintfWrites ==
    ASSUME NEW length \in Nat, NEW n \in Nat, NEW w, Wrote(w, length, n), NEW l \in Nat \ {0}
    PROVE  Wrote(Snprintf(w, l), length, n + l)
  BY DEF Wrote, Snprintf, Writer, Writers

\* A marker is written if there is room for it.
LEMMA MarkerWrites ==
    ASSUME NEW length \in Nat, NEW n \in Nat, NEW w, Wrote(w, length, n)
    PROVE  Wrote(Marker(w), length, n + 1)
  BY DEF Wrote, Marker, Writer, Writers

\* The comma is replaced by the bracket.
LEMMA BracketReplacesComma ==
    ASSUME NEW length \in Nat, NEW n \in Nat, NEW w, Wrote(w, length, n), NEW s, s # <<>>
    PROVE  Wrote(Marker(DiscardComma(w, s)), length, n)
  BY DEF Wrote, Marker, DiscardComma, Writer, Writers

\* The loop over the elements succeeds just when all of them fit, with a comma
\* after each but the last.
LEMMA ElementsWritten ==
    ASSUME NEW length \in Nat, NEW n \in Nat, NEW w, Wrote(w, length, n), NEW s \in Seq(Nat)
    PROVE  Wrote(WriteElements(w, s), length, n + Lengths(s) + Len(s)) /\ Lengths(s) \in Nat
<1>1. PICK p \in [0 .. Len(s) -> Writers] :
         /\ p[0] = w
         /\ \A k \in 1 .. Len(s) : p[k] = Snprintf(p[k - 1], s[k] + 1)
         /\ p[Len(s)] = WriteElements(w, s)
  BY ElementsSteps DEF Wrote
<1>2. PICK q \in [0 .. Len(s) -> Nat] :
         /\ q[0] = 0
         /\ \A k \in 1 .. Len(s) : q[k] = q[k - 1] + s[k]
         /\ q[Len(s)] = Lengths(s)
  BY LengthsSteps
<1> DEFINE S == {k \in 0 .. Len(s) : Wrote(p[k], length, n + q[k] + k)}
<1>3. 0 \in S
  BY <1>1, <1>2
<1>4. ASSUME NEW k \in 1 .. Len(s), k - 1 \in S PROVE k \in S
  <2>1. s[k] + 1 \in Nat \ {0} /\ q[k - 1] \in Nat /\ q[k] = q[k - 1] + s[k] /\ s[k] \in Nat
    <3>1. Len(s) \in Nat /\ k - 1 \in 0 .. Len(s)
      OBVIOUS
    <3>2. s[k] \in Nat
      OBVIOUS
    <3>3. q[k - 1] \in Nat /\ q[k] = q[k - 1] + s[k]
      BY <1>2, <3>1
    <3> QED
      BY <3>2, <3>3
  <2>2. Wrote(p[k - 1], length, n + q[k - 1] + (k - 1)) /\ n + q[k - 1] + (k - 1) \in Nat
    BY <1>4, <2>1
  <2>3. Wrote(p[k], length, (n + q[k - 1] + (k - 1)) + (s[k] + 1))
    BY <1>1, <2>1, <2>2, SnprintfWrites
  <2>4. (n + q[k - 1] + (k - 1)) + (s[k] + 1) = n + q[k] + k
    BY <2>1
  <2> QED
    BY <2>3, <2>4
<1>5. Len(s) \in S
  <2>1. Len(s) \in Nat
    OBVIOUS
  <2>2. \A k \in 0 .. Len(s) : k \in S
    <3> HIDE DEF S
    <3> QED
      BY <1>3, <1>4, <2>1, InductionUpTo
  <2> QED
    BY <2>1, <2>2
<1>6. Lengths(s) \in Nat
  BY <1>2
<1> QED
  BY <1>1, <1>2, <1>5, <1>6

\* An array is written just when it fits.
LEMMA ArrayWritten ==
    ASSUME NEW length \in Nat, NEW n \in Nat, NEW w, Wrote(w, length, n), NEW s \in Seq(Nat)
    PROVE  /\ Wrote(prvWritePortsArray(w, s), length, n + ArrayText(s))
           /\ Wrote(prvWriteConnectionsArray(w, s), length, n + ArrayText(s))
           /\ Wrote(prvWriteTaskIdsArray(w, s), length, n + ArrayText(s))
           /\ ArrayText(s) \in Nat
<1> DEFINE e == WriteElements(Marker(w), s)
<1>1. n + 1 \in Nat /\ Wrote(Marker(w), length, n + 1)
  BY MarkerWrites
<1>2. Wrote(e, length, n + 1 + Lengths(s) + Len(s)) /\ Lengths(s) \in Nat
  BY <1>1, ElementsWritten
<1> HIDE DEF e
<1>3. Len(s) \in Nat /\ (s # <<>> => Len(s) > 0) /\ (s = <<>> => Len(s) = 0)
  OBVIOUS
<1>4. n + 1 + Lengths(s) + Len(s) \in Nat
  BY <1>2, <1>3
<1>5. Wrote(Marker(DiscardComma(e, s)), length, n + ArrayText(s)) /\ ArrayText(s) \in Nat
  <2>1. CASE s # <<>>
    <3>1. n + ArrayText(s) = n + 1 + Lengths(s) + Len(s)
      BY <1>2, <1>3, <2>1 DEF ArrayText
    <3>2. ArrayText(s) \in Nat
      BY <1>2, <1>3, <2>1 DEF ArrayText
    <3> QED
      BY <1>2, <1>4, <2>1, <3>1, <3>2, BracketReplacesComma
  <2>2. CASE s = <<>>
    <3>1. <<>> \in Seq(Nat) /\ Len(<<>>) = 0
      OBVIOUS
    <3>2. Lengths(s) = 0
      <4>1. PICK q \in [0 .. Len(s) -> Nat] : q[0] = 0 /\ q[Len(s)] = Lengths(s)
        BY LengthsSteps
      <4> QED
        BY <1>3, <2>2, <4>1
    <3>3. ArrayText(s) = 2
      BY <2>2, <3>2 DEF ArrayText
    <3>4. DiscardComma(e, s) = e
      BY <2>2 DEF DiscardComma
    <3>5. Wrote(Marker(e), length, n + 1 + Lengths(s) + Len(s) + 1)
      BY <1>2, <1>4, MarkerWrites
    <3>6. n + 1 + Lengths(s) + Len(s) + 1 = n + ArrayText(s)
      BY <1>3, <2>2, <3>2, <3>3
    <3> QED
      BY <3>3, <3>4, <3>5, <3>6
  <2> QED
    BY <2>1, <2>2
<1> QED
  BY <1>5, ArraysWriteElements DEF e

\* The length of the constant parts of a report.
LEMMA PartsText == Lengths([i \in Parts |-> Part[i]]) = Part[1] + Part[2] + Part[3] + Part[4] + Part[5]
<1> DEFINE s == [i \in 1 .. 5 |-> Part[i]]
<1>1. s \in Seq(Nat) /\ Len(s) = 5
  BY PartAssumption DEF Parts
<1>2. PICK q \in [0 .. 5 -> Nat] :
         /\ q[0] = 0
         /\ \A k \in 1 .. 5 : q[k] = q[k - 1] + s[k]
         /\ q[5] = Lengths(s)
  <2> HIDE DEF s
  <2> QED
    BY <1>1, LengthsSteps
<1>3. q[1] = q[0] + s[1] /\ q[2] = q[1] + s[2] /\ q[3] = q[2] + s[3] /\ q[4] = q[3] + s[4] /\ q[5] = q[4] + s[5]
  BY <1>2
<1>4. s[1] = Part[1] /\ s[2] = Part[2] /\ s[3] = Part[3] /\ s[4] = Part[4] /\ s[5] = Part[5]
  OBVIOUS
<1>5. Part[1] \in Nat /\ Part[2] \in Nat /\ Part[3] \in Nat /\ Part[4] \in Nat /\ Part[5] \in Nat
  BY PartAssumption DEF Parts
<1>6. s = [i \in Parts |-> Part[i]]
  BY DEF Parts
<1> HIDE DEF s
<1>7. q[5] = Part[1] + Part[2] + Part[3] + Part[4] + Part[5]
  BY <1>2, <1>3, <1>4, <1>5
<1> QED
  BY <1>2, <1>6, <1>7

\* What the metrics collector returns.
Metrics == [tcp : Seq(Nat), udp : Seq(Nat), connections : Seq(Nat), tasks : Seq(Nat)]

\* eGenerateJsonReport() succeeds just when the whole report fits into the buffer
\* with its terminating zero, and the length it returns is that of the report:
\* for every number of ports and connections, every length of each and of the
\* constant parts, and every size of the buffer.
THEOREM ReportTheorem ==
    ASSUME NEW length \in Nat, NEW metrics \in Metrics
    PROVE  LET report == eGenerateJsonReport(length, metrics)
           IN  /\ report.ok \in BOOLEAN /\ report.written \in Nat
               /\ report.ok <=> ReportText(metrics) < length
               /\ report.ok => report.written = ReportText(metrics)
<1> DEFINE A == ArrayText(metrics.tcp)
           B == ArrayText(metrics.udp)
           C == ArrayText(metrics.connections)
           D == ArrayText(metrics.tasks)
           w1 == Snprintf(Writer(TRUE, length), Part[1])
           w2 == prvWritePortsArray(w1, metrics.tcp)
           w3 == Snprintf(w2, Part[2])
           w4 == prvWritePortsArray(w3, metrics.udp)
           w5 == Snprintf(w4, Part[3])
           w6 == prvWriteConnectionsArray(w5, metrics.connections)
           w7 == Snprintf(w6, Part[4])
           w8 == prvWriteTaskIdsArray(w7, metrics.tasks)
           w9 == Snprintf(w8, Part[5])
<1>1. /\ metrics.tcp \in Seq(Nat) /\ metrics.udp \in Seq(Nat)
      /\ metrics.connections \in Seq(Nat) /\ metrics.tasks \in Seq(Nat)
  BY DEF Metrics
<1>2. /\ Part[1] \in Nat \ {0} /\ Part[2] \in Nat \ {0} /\ Part[3] \in Nat \ {0}
      /\ Part[4] \in Nat \ {0} /\ Part[5] \in Nat \ {0}
  BY PartAssumption DEF Parts
<1>3. Wrote(w1, length, Part[1])
  BY <1>2 DEF Wrote, Snprintf, Writer, Writers
<1> HIDE DEF w1
<1>4. Wrote(w2, length, Part[1] + A) /\ A \in Nat
  BY <1>1, <1>2, <1>3, ArrayWritten
<1> HIDE DEF w2, A
<1>5. Wrote(w3, length, Part[1] + A + Part[2])
  BY <1>2, <1>4, SnprintfWrites
<1> HIDE DEF w3
<1>6. Part[1] + A + Part[2] \in Nat
  BY <1>2, <1>4
<1>7. Wrote(w4, length, Part[1] + A + Part[2] + B) /\ B \in Nat
  BY <1>1, <1>5, <1>6, ArrayWritten
<1> HIDE DEF w4, B
<1>8. Part[1] + A + Part[2] + B \in Nat
  BY <1>6, <1>7
<1>9. Wrote(w5, length, Part[1] + A + Part[2] + B + Part[3])
  BY <1>2, <1>7, <1>8, SnprintfWrites
<1> HIDE DEF w5
<1>10. Part[1] + A + Part[2] + B + Part[3] \in Nat
  BY <1>2, <1>8
<1>11. Wrote(w6, length, Part[1] + A + Part[2] + B + Part[3] + C) /\ C \in Nat
  BY <1>1, <1>9, <1>10, ArrayWritten
<1> HIDE DEF w6, C
<1>12. Part[1] + A + Part[2] + B + Part[3] + C \in Nat
  BY <1>10, <1>11
<1>13. Wrote(w7, length, Part[1] + A + Part[2] + B + Part[3] + C + Part[4])
  BY <1>2, <1>11, <1>12, SnprintfWrites
<1> HIDE DEF w7
<1>14. Part[1] + A + Part[2] + B + Part[3] + C + Part[4] \in Nat
  BY <1>2, <1>12
<1>15. Wrote(w8, length, Part[1] + A + Part[2] + B + Part[3] + C + Part[4] + D) /\ D \in Nat
  BY <1>1, <1>13, <1>14, ArrayWritten
<1> HIDE DEF w8, D
<1>16. Part[1] + A + Part[2] + B + Part[3] + C + Part[4] + D \in Nat
  BY <1>14, <1>15
<1>17. Wrote(w9, length, Part[1] + A + Part[2] + B + Part[3] + C + Part[4] + D + Part[5])
  BY <1>2, <1>15, <1>16, SnprintfWrites
<1>18. ReportText(metrics) = Part[1] + A + Part[2] + B + Part[3] + C + Part[4] + D + Part[5]
  <2>1. ReportText(metrics) = Part[1] + Part[2] + Part[3] + Part[4] + Part[5] + A + B + C + D
    BY PartsText DEF ReportText, A, B, C, D
  <2> QED
    BY <1>2, <1>4, <1>7, <1>11, <1>15, <2>1
<1>19. ReportText(metrics) \in Nat
  BY <1>2, <1>16, <1>18
<1>20. CustomMetrics(PortMetrics(length, metrics), metrics) = w9
  BY DEF CustomMetrics, PortMetrics, w1, w2, w3, w4, w5, w6, w7, w8
<1> HIDE DEF w9
<1>21. w9 \in Writers /\ (w9.ok <=> ReportText(metrics) < length) /\ (w9.ok => w9.remaining = length - ReportText(metrics))
  BY <1>17, <1>18 DEF Wrote
<1> DEFINE report == eGenerateJsonReport(length, metrics)
<1>22. report.ok = w9.ok /\ report.written = IF w9.ok THEN length - w9.remaining ELSE 0
  BY <1>20 DEF eGenerateJsonReport
<1> HIDE DEF report
<1>23. report.ok \in BOOLEAN /\ (report.ok <=> ReportText(metrics) < length)
  BY <1>21, <1>22 DEF Writers
<1>24. report.written \in Nat /\ (report.ok => report.written = ReportText(metrics))
  BY <1>19, <1>21, <1>22
<1> QED
  BY <1>23, <1>24 DEF report

----------------------------------------------------------------------------
(* AnswerIsReal is inductive as it stands.                                 *)

\* A callback that stores a status stores one that was given to the current
\* report: prvValidateDefenderResponse() lets no other report id pass.
LEMMA IncomingIsReal ==
    ASSUME NEW id, NEW answer, Incoming(answer, id, answer), AnswerIsReal,
           UNCHANGED <<pc, ulReportId>>
    PROVE  AnswerIsReal'
<1> SUFFICES ASSUME pc' # "reset", xReportStatus' # "notReceived"
             PROVE  <<ulReportId', xReportStatus'>> \in answered'
  BY DEF AnswerIsReal
<1>1. answered' = answered \cup {<<id, answer>>}
  BY DEF Incoming
<1>2. CASE prvValidateDefenderResponse(id)
  <2>1. xReportStatus' = answer
    BY <1>2 DEF Incoming
  <2>2. id = ulReportId'
    BY <1>2 DEF prvValidateDefenderResponse
  <2> QED
    BY <1>1, <2>1, <2>2
<1>3. CASE ~prvValidateDefenderResponse(id)
  <2>1. xReportStatus' = xReportStatus
    BY <1>3 DEF Incoming
  <2> QED
    BY <1>1, <2>1 DEF AnswerIsReal
<1> QED
  BY <1>2, <1>3

\* A step of the task keeps the status and the report together: the new
\* report id is assigned before the status of the last one is reset, and
\* AnswerIsReal excepts the place in between.
LEMMA TaskKeepsAnswer ==
    ASSUME AnswerIsReal, prvDefenderDemoTask
    PROVE  AnswerIsReal'
<1>1. CASE NewReport
  BY <1>1 DEF NewReport, AnswerIsReal
<1>2. CASE ResetReportStatus
  BY <1>2 DEF ResetReportStatus, AnswerIsReal
<1>3. ASSUME pc # "reset", UNCHANGED <<ulReportId, xReportStatus, answered>>
      PROVE  AnswerIsReal'
  BY <1>3 DEF AnswerIsReal
<1>4. CASE PostSubscribe
  BY <1>3, <1>4 DEF PostSubscribe, taskVars, serviceVars
<1>5. CASE prvSubscribeToDefenderTopics
  BY <1>3, <1>5 DEF prvSubscribeToDefenderTopics, taskVars, serviceVars
<1>6. CASE prvCollectDeviceMetrics
  BY <1>3, <1>6 DEF prvCollectDeviceMetrics, serviceVars
<1>7. CASE StartReport
  BY <1>3, <1>7 DEF StartReport, taskVars, serviceVars
<1>8. CASE prvGenerateDeviceMetricsReport
  BY <1>3, <1>8 DEF prvGenerateDeviceMetricsReport, serviceVars
<1>9. CASE prvPublishDeviceMetricsReport
  BY <1>3, <1>9 DEF prvPublishDeviceMetricsReport, serviceVars
<1>10. CASE PublishNothing
  BY <1>3, <1>10 DEF PublishNothing, taskVars, serviceVars
<1>11. CASE TakeNotification
  BY <1>3, <1>11 DEF TakeNotification, serviceVars
<1>12. CASE WaitTimesOut
  BY <1>3, <1>12 DEF WaitTimesOut, taskVars, serviceVars
<1>13. CASE Sleep
  BY <1>3, <1>13 DEF Sleep, taskVars, serviceVars
<1> QED
  BY <1>1, <1>2, <1>4, <1>5, <1>6, <1>7, <1>8, <1>9, <1>10, <1>11, <1>12, <1>13
     DEF prvDefenderDemoTask

\* A report is only held to be accepted or rejected when the service said so
\* about that very report (prvValidateDefenderResponse() and the reset at
\* the head of the loop), however late, often or out of order answers come.
THEOREM AnswerIsRealTheorem == Spec => []AnswerIsReal
<1>1. Init => AnswerIsReal
  BY DEF Init, AnswerIsReal
<1>2. AnswerIsReal /\ [Next]_vars => AnswerIsReal'
  <2> SUFFICES ASSUME AnswerIsReal, [Next]_vars PROVE AnswerIsReal'
    OBVIOUS
  <2>1. CASE prvDefenderDemoTask
    BY <2>1, TaskKeepsAnswer
  <2>2. CASE prvSubscribeCommandCallback
    BY <2>2 DEF prvSubscribeCommandCallback, AnswerIsReal, taskVars, serviceVars
  <2>3. CASE ProcessPublish
    BY <2>3 DEF ProcessPublish, AnswerIsReal, taskVars
  <2>4. CASE Answer
    <3>1. PICK id : \/ prvIncomingAcceptedPublishCallback(id)
                    \/ prvIncomingRejectedPublishCallback(id)
      BY <2>4 DEF Answer
    <3>2. UNCHANGED <<pc, ulReportId>>
      BY <2>4 DEF Answer, taskVars
    <3> QED
      BY <3>1, <3>2, IncomingIsReal
         DEF prvIncomingAcceptedPublishCallback, prvIncomingRejectedPublishCallback
  <2>5. CASE UNCHANGED vars
    BY <2>5 DEF vars, taskVars, serviceVars, AnswerIsReal
  <2> QED
    BY <2>1, <2>2, <2>3, <2>4, <2>5 DEF Next
<1> QED
  BY <1>1, <1>2, PTL DEF Spec

----------------------------------------------------------------------------
(* The invariant of the demo: types, who can know which report, and, while *)
(* no notification was early or surplus, how many there are.               *)

\* The places of the task before it reports for the first time, and those
\* where it is working at a report it has not posted yet.
BeforeReports == {"subscribe", "subscribing", "asserted", "ended"}
Working == {"reset", "collect", "generate", "generating", "publish"}

\* No answer to the current report was given to a callback.
NoAnswer == \A answer \in Answers : <<ulReportId, answer>> \notin answered

\* Places and flags.
FieldTypes ==
    /\ pc \in BeforeReports \cup Working \cup {"newReport", "wait", "sleep"}
    /\ xStatus \in BOOLEAN /\ subscribing \in BOOLEAN
    /\ xReturnStatus \in BOOLEAN /\ stray \in BOOLEAN
    /\ xReportStatus \in Answers \cup {"notReceived"}
    /\ judged \in Answers \cup {"nothing", "noAnswer", "timeout"}
    /\ listed \subseteq Answers

\* Nobody knows a report that the task has not begun.
IdTypes ==
    /\ ulReportId \in Nat /\ ulReportId <= MaxReports
    /\ buffer \in Nat /\ buffer <= ulReportId
    /\ \A id \in sent : id \in Nat /\ id <= ulReportId
    /\ \A a \in answered : a \in Nat \X Answers /\ a[1] <= ulReportId

\* The metrics in the arrays, cut to the size of these.
MetricsTyped ==
    /\ xDeviceMetrics \in Metrics
    /\ Len(xDeviceMetrics.tcp) <= ArraySize /\ Len(xDeviceMetrics.udp) <= ArraySize
    /\ Len(xDeviceMetrics.connections) <= ArraySize /\ Len(xDeviceMetrics.tasks) <= ArraySize

\* At most one publish command for each report that was finished, and no
\* more notifications than the model allows.
QueueFits ==
    /\ queued \in Nat /\ queued <= ulReportId
    /\ pc \in Working => queued < ulReportId
    /\ notified \in Nat /\ notified <= MaxNotifications + 1

\* No report before the end of the SUBSCRIBE, which notifies once.
SubscribePlaces ==
    /\ pc \in BeforeReports => ulReportId = 0 /\ sent = {}
    /\ subscribing => pc \in {"subscribing", "asserted"}
    /\ pc = "subscribe" => notified = 0
    /\ pc = "subscribing" /\ subscribing => notified = 0
    /\ pc = "subscribing" /\ ~subscribing => notified = 1

\* A report that is being built has had no failure yet.
ReportPlaces ==
    /\ ulReportLength \in Nat
    /\ pc \in Working \cup {"wait", "sleep"} => ulReportId > 0
    /\ pc \in Working \ {"publish"} => xStatus
    /\ ReportFits

\* While every notification was the first answer to the report that was
\* waited for, at most one is there, and its status was stored.
InTime ==
    ~stray =>
        /\ pc \notin {"subscribing", "wait"} => notified = 0
        /\ pc \in Working => NoAnswer
        /\ pc = "wait" => \/ notified = 0 /\ NoAnswer
                          \/ notified = 1 /\ xReportStatus # "notReceived"

\* The inductive invariant.
DemoInv ==
    /\ FieldTypes /\ IdTypes /\ MetricsTyped /\ QueueFits
    /\ SubscribePlaces /\ ReportPlaces /\ InTime /\ AnswerIsSeen

\* The bounds are numbers.
LEMMA Bounds == /\ MaxReports \in Nat /\ MaxNotifications \in Nat
                /\ 1 <= MaxNotifications + 1 /\ ArraySize \in Nat
  BY DefenderAssumption

\* What is counted of the metrics fits into the arrays.
LEMMA CutFits ==
    ASSUME NEW list \in Seq(Nat \ {0})
    PROVE  Cut(list) \in Seq(Nat) /\ Len(Cut(list)) <= ArraySize
<1> DEFINE n == IF ArraySize < Len(list) THEN ArraySize ELSE Len(list)
<1>1. n \in 0 .. Len(list) /\ n <= ArraySize
  BY Bounds
<1>2. SubSeq(list, 1, n) = [i \in 1 .. n |-> list[i]]
  BY <1>1
<1>3. \A i \in 1 .. n : list[i] \in Nat
  BY <1>1
<1> HIDE DEF n
<1>4. SubSeq(list, 1, n) \in Seq(Nat) /\ Len(SubSeq(list, 1, n)) = n
  BY <1>1, <1>2, <1>3
<1> QED
  BY <1>1, <1>4 DEF Cut, n

\* The invariant holds before the SUBSCRIBE.
LEMMA DemoInvInit == Init => DemoInv
<1> SUFFICES ASSUME Init PROVE DemoInv
  OBVIOUS
<1>0. /\ pc = "subscribe" /\ xStatus = FALSE /\ ulReportId = 0 /\ xReportStatus = "notReceived"
      /\ xDeviceMetrics = NoMetrics /\ ulReportLength = 0 /\ buffer = 0 /\ notified = 0
      /\ subscribing = FALSE /\ xReturnStatus = FALSE /\ listed = {} /\ queued = 0
      /\ sent = {} /\ answered = {} /\ stray = FALSE /\ judged = "nothing"
  BY DEF Init, vStartDefenderDemo, Torn
<1>1. FieldTypes
  BY <1>0 DEF FieldTypes, BeforeReports
<1>2. IdTypes
  BY <1>0, Bounds DEF IdTypes
<1>3. MetricsTyped
  BY <1>0, Bounds DEF MetricsTyped, NoMetrics, Metrics
<1>4. QueueFits
  BY <1>0, Bounds DEF QueueFits, Working
<1>5. SubscribePlaces
  BY <1>0 DEF SubscribePlaces
<1>6. ReportPlaces
  BY <1>0 DEF ReportPlaces, ReportFits, Working
<1>7. InTime
  BY <1>0 DEF InTime, Working
<1>8. AnswerIsSeen
  BY <1>0 DEF AnswerIsSeen
<1> QED
  BY <1>1, <1>2, <1>3, <1>4, <1>5, <1>6, <1>7, <1>8 DEF DemoInv

\* Each action keeps the invariant.  In each proof the first step says what the
\* action changes; then one step follows for each part of the invariant.
LEMMA PostSubscribeKeeps ==
    ASSUME DemoInv, AnswerIsReal, PostSubscribe
    PROVE  DemoInv'
<1>1. /\ pc = "subscribe"
      /\ pc' = "subscribing"
      /\ subscribing' = TRUE
      /\ xReturnStatus' = FALSE
      /\ UNCHANGED <<xStatus, ulReportId, xDeviceMetrics, ulReportLength, xReportStatus, buffer,
                     notified, listed, queued, sent, answered, stray, judged>>
  BY DEF PostSubscribe, taskVars, serviceVars
<1>2. FieldTypes'
  BY <1>1 DEF DemoInv, FieldTypes, BeforeReports
<1>3. IdTypes'
  BY <1>1 DEF DemoInv, IdTypes
<1>4. MetricsTyped'
  BY <1>1 DEF DemoInv, MetricsTyped
<1>5. QueueFits'
  BY <1>1 DEF DemoInv, QueueFits, Working
<1>6. SubscribePlaces'
  BY <1>1 DEF DemoInv, SubscribePlaces, BeforeReports
<1>7. ReportPlaces'
  BY <1>1 DEF DemoInv, ReportPlaces, ReportFits, Working
<1>8. InTime'
  BY <1>1 DEF InTime, Working
<1>9. AnswerIsSeen'
  BY <1>1 DEF AnswerIsSeen
<1> QED
  BY <1>2, <1>3, <1>4, <1>5, <1>6, <1>7, <1>8, <1>9 DEF DemoInv

LEMMA prvSubscribeToDefenderTopicsKeeps ==
    ASSUME DemoInv, AnswerIsReal, prvSubscribeToDefenderTopics
    PROVE  DemoInv'
<1>1. /\ pc = "subscribing"
      /\ \/ notified > 0 /\ notified' = notified - 1 /\ pc' \in {"newReport", "ended"}
         \/ notified = 0 /\ notified' = notified /\ pc' = "asserted"
      /\ UNCHANGED <<xStatus, ulReportId, xDeviceMetrics, ulReportLength, xReportStatus, buffer,
                     subscribing, xReturnStatus, listed, queued, sent, answered, stray, judged>>
  BY DEF prvSubscribeToDefenderTopics, taskVars, agentVars, serviceVars
<1>2. FieldTypes'
  BY <1>1 DEF DemoInv, FieldTypes, BeforeReports
<1>3. IdTypes'
  BY <1>1 DEF DemoInv, IdTypes
<1>4. MetricsTyped'
  BY <1>1 DEF DemoInv, MetricsTyped
<1>5. QueueFits'
  BY <1>1, Bounds DEF DemoInv, QueueFits, Working
<1>6. SubscribePlaces'
  BY <1>1 DEF DemoInv, SubscribePlaces, BeforeReports
<1>7. ReportPlaces'
  BY <1>1 DEF DemoInv, ReportPlaces, ReportFits, Working
<1>8. InTime'
  BY <1>1 DEF DemoInv, InTime, Working, SubscribePlaces
<1>9. AnswerIsSeen'
  BY <1>1 DEF AnswerIsSeen
<1> QED
  BY <1>2, <1>3, <1>4, <1>5, <1>6, <1>7, <1>8, <1>9 DEF DemoInv

LEMMA prvSubscribeCommandCallbackKeeps ==
    ASSUME DemoInv, AnswerIsReal, prvSubscribeCommandCallback
    PROVE  DemoInv'
<1>1. /\ subscribing
      /\ pc # "asserted"
      /\ pc' = pc
      /\ subscribing' = FALSE
      /\ xReturnStatus' \in BOOLEAN
      /\ listed' \subseteq Answers
      /\ notified' = notified + 1
      /\ UNCHANGED <<xStatus, ulReportId, xDeviceMetrics, ulReportLength, xReportStatus, buffer,
                     queued, sent, answered, stray, judged>>
  BY DEF prvSubscribeCommandCallback, taskVars, serviceVars
<1>2. FieldTypes'
  BY <1>1 DEF DemoInv, FieldTypes
<1>3. IdTypes'
  BY <1>1 DEF DemoInv, IdTypes
<1>4. MetricsTyped'
  BY <1>1 DEF DemoInv, MetricsTyped
<1>5. QueueFits'
  BY <1>1, Bounds DEF DemoInv, QueueFits, SubscribePlaces
<1>6. SubscribePlaces'
  BY <1>1 DEF DemoInv, SubscribePlaces
<1>7. ReportPlaces'
  BY <1>1 DEF DemoInv, ReportPlaces, ReportFits
<1>8. InTime'
  BY <1>1 DEF DemoInv, InTime, Working, SubscribePlaces
<1>9. AnswerIsSeen'
  BY <1>1 DEF DemoInv, AnswerIsSeen
<1> QED
  BY <1>2, <1>3, <1>4, <1>5, <1>6, <1>7, <1>8, <1>9 DEF DemoInv

LEMMA NewReportKeeps ==
    ASSUME DemoInv, AnswerIsReal, NewReport
    PROVE  DemoInv'
<1>1. /\ pc = "newReport"
      /\ ulReportId < MaxReports
      /\ xStatus' = TRUE
      /\ ulReportId' = ulReportId + 1
      /\ pc' = "reset"
      /\ UNCHANGED <<xDeviceMetrics, ulReportLength, xReportStatus, buffer, notified, subscribing,
                     xReturnStatus, listed, queued, sent, answered, stray, judged>>
  BY DEF NewReport, agentVars, serviceVars
<1>2. FieldTypes'
  BY <1>1 DEF DemoInv, FieldTypes, Working
<1>3. IdTypes'
  BY <1>1, Bounds DEF DemoInv, IdTypes
<1>4. MetricsTyped'
  BY <1>1 DEF DemoInv, MetricsTyped
<1>5. QueueFits'
  BY <1>1 DEF DemoInv, QueueFits, IdTypes
<1>6. SubscribePlaces'
  BY <1>1 DEF DemoInv, SubscribePlaces, BeforeReports
<1>7. ReportPlaces'
  BY <1>1 DEF DemoInv, ReportPlaces, ReportFits, IdTypes
<1>8. InTime'
  BY <1>1 DEF DemoInv, InTime, IdTypes, NoAnswer
<1>9. AnswerIsSeen'
  BY <1>1 DEF AnswerIsSeen
<1> QED
  BY <1>2, <1>3, <1>4, <1>5, <1>6, <1>7, <1>8, <1>9 DEF DemoInv

LEMMA ResetReportStatusKeeps ==
    ASSUME DemoInv, AnswerIsReal, ResetReportStatus
    PROVE  DemoInv'
<1>1. /\ pc = "reset"
      /\ pc' = "collect"
      /\ xReportStatus' = "notReceived"
      /\ UNCHANGED <<xStatus, ulReportId, xDeviceMetrics, ulReportLength, buffer, notified,
                     subscribing, xReturnStatus, listed, queued, sent, answered, stray, judged>>
  BY DEF ResetReportStatus, taskVars, agentVars, serviceVars
<1>2. FieldTypes'
  BY <1>1 DEF DemoInv, FieldTypes, Working
<1>3. IdTypes'
  BY <1>1 DEF DemoInv, IdTypes
<1>4. MetricsTyped'
  BY <1>1 DEF DemoInv, MetricsTyped
<1>5. QueueFits'
  BY <1>1 DEF DemoInv, QueueFits, Working
<1>6. SubscribePlaces'
  BY <1>1 DEF DemoInv, SubscribePlaces, BeforeReports
<1>7. ReportPlaces'
  BY <1>1 DEF DemoInv, ReportPlaces, ReportFits, Working
<1>8. InTime'
  BY <1>1 DEF DemoInv, InTime, NoAnswer, Working
<1>9. AnswerIsSeen'
  BY <1>1 DEF AnswerIsSeen
<1> QED
  BY <1>2, <1>3, <1>4, <1>5, <1>6, <1>7, <1>8, <1>9 DEF DemoInv

LEMMA prvCollectDeviceMetricsKeeps ==
    ASSUME DemoInv, AnswerIsReal, prvCollectDeviceMetrics
    PROVE  DemoInv'
<1>1. ASSUME NEW o \in Observations, NEW failing,
             LET tcp == eGetOpenTcpPorts(failing # 2, o.tcp)
                 udp == eGetOpenUdpPorts(failing # 3, o.udp)
                 connections == eGetEstablishedConnections(failing # 4, o.connections)
                 tasks == TaskNumbers(o.tasks)
             IN  /\ tcp.ok /\ udp.ok /\ connections.ok /\ tasks.ok
                 /\ xDeviceMetrics' = [tcp |-> tcp.list, udp |-> udp.list,
                                       connections |-> connections.list, tasks |-> tasks.list]
      PROVE  MetricsTyped'
  <2>1. /\ o.tcp \in Seq(Nat \ {0}) /\ o.udp \in Seq(Nat \ {0})
        /\ o.connections \in Seq(Nat \ {0}) /\ o.tasks \in Seq(Nat \ {0})
    BY DefenderAssumption
  <2>2. /\ xDeviceMetrics'.tcp = Cut(o.tcp) /\ xDeviceMetrics'.udp = Cut(o.udp)
        /\ xDeviceMetrics'.connections = Cut(o.connections) /\ xDeviceMetrics'.tasks = o.tasks
        /\ Len(o.tasks) \in 1 .. ArraySize
        /\ xDeviceMetrics' = [tcp |-> Cut(o.tcp), udp |-> Cut(o.udp), connections |-> Cut(o.connections), tasks |-> o.tasks]
    BY <1>1 DEF eGetOpenTcpPorts, eGetOpenUdpPorts, eGetEstablishedConnections, TaskNumbers,
       Collected
  <2>3. o.tasks \in Seq(Nat) /\ Len(o.tasks) <= ArraySize
    BY <2>1, <2>2
  <2>4. /\ Cut(o.tcp) \in Seq(Nat) /\ Len(Cut(o.tcp)) <= ArraySize
        /\ Cut(o.udp) \in Seq(Nat) /\ Len(Cut(o.udp)) <= ArraySize
        /\ Cut(o.connections) \in Seq(Nat) /\ Len(Cut(o.connections)) <= ArraySize
    BY <2>1, CutFits
  <2> HIDE DEF Cut
  <2> QED
    BY <2>2, <2>3, <2>4 DEF MetricsTyped, Metrics
<1>2. /\ pc = "collect"
      /\ \/ MetricsTyped' /\ pc' = "generate" /\ xStatus' = xStatus
         \/ xStatus' = FALSE /\ pc' = "wait" /\ xDeviceMetrics' = xDeviceMetrics
      /\ UNCHANGED <<ulReportId, ulReportLength, xReportStatus, buffer, notified, subscribing,
                     xReturnStatus, listed, queued, sent, answered, stray, judged>>
  BY <1>1 DEF prvCollectDeviceMetrics, agentVars, serviceVars
<1>3. FieldTypes'
  BY <1>2 DEF DemoInv, FieldTypes, Working
<1>4. IdTypes'
  BY <1>2 DEF DemoInv, IdTypes
<1>5. MetricsTyped'
  BY <1>2 DEF DemoInv, MetricsTyped
<1>6. QueueFits'
  BY <1>2 DEF DemoInv, QueueFits, Working
<1>7. SubscribePlaces'
  BY <1>2 DEF DemoInv, SubscribePlaces, BeforeReports
<1>8. ReportPlaces'
  BY <1>2 DEF DemoInv, ReportPlaces, ReportFits, Working
<1>9. InTime'
  BY <1>2 DEF DemoInv, InTime, NoAnswer, Working
<1>10. AnswerIsSeen'
  BY <1>2 DEF AnswerIsSeen
<1> QED
  BY <1>3, <1>4, <1>5, <1>6, <1>7, <1>8, <1>9, <1>10 DEF DemoInv

LEMMA StartReportKeeps ==
    ASSUME DemoInv, AnswerIsReal, StartReport
    PROVE  DemoInv'
<1>1. /\ pc = "generate"
      /\ pc' = "generating"
      /\ buffer' = 0
      /\ UNCHANGED <<xStatus, ulReportId, xDeviceMetrics, ulReportLength, xReportStatus, notified,
                     subscribing, xReturnStatus, listed, queued, sent, answered, stray, judged>>
  BY DEF StartReport, taskVars, agentVars, serviceVars, Torn
<1>2. FieldTypes'
  BY <1>1 DEF DemoInv, FieldTypes, Working
<1>3. IdTypes'
  BY <1>1 DEF DemoInv, IdTypes
<1>4. MetricsTyped'
  BY <1>1 DEF DemoInv, MetricsTyped
<1>5. QueueFits'
  BY <1>1 DEF DemoInv, QueueFits, Working
<1>6. SubscribePlaces'
  BY <1>1 DEF DemoInv, SubscribePlaces, BeforeReports
<1>7. ReportPlaces'
  BY <1>1 DEF DemoInv, ReportPlaces, ReportFits, Working
<1>8. InTime'
  BY <1>1 DEF DemoInv, InTime, NoAnswer, Working
<1>9. AnswerIsSeen'
  BY <1>1 DEF AnswerIsSeen
<1> QED
  BY <1>2, <1>3, <1>4, <1>5, <1>6, <1>7, <1>8, <1>9 DEF DemoInv

LEMMA prvGenerateDeviceMetricsReportKeeps ==
    ASSUME DemoInv, AnswerIsReal, prvGenerateDeviceMetricsReport
    PROVE  DemoInv'
<1> DEFINE report == eGenerateJsonReport(BufferLength, xDeviceMetrics)
<1>1. /\ report.ok \in BOOLEAN /\ report.written \in Nat
      /\ report.ok <=> ReportText(xDeviceMetrics) < BufferLength
      /\ report.ok => report.written = ReportText(xDeviceMetrics)
  BY ReportTheorem, DefenderAssumption DEF DemoInv, MetricsTyped
<1>2. /\ pc = "generating"
      /\ pc' = "publish"
      /\ \/ report.ok /\ buffer' = ulReportId /\ ulReportLength' = report.written /\ xStatus' = xStatus
         \/ ~report.ok /\ xStatus' = FALSE /\ buffer' = buffer /\ ulReportLength' = ulReportLength
      /\ UNCHANGED <<ulReportId, xDeviceMetrics, xReportStatus, notified, subscribing,
                     xReturnStatus, listed, queued, sent, answered, stray, judged>>
  BY DEF prvGenerateDeviceMetricsReport, agentVars, serviceVars
<1>3. FieldTypes'
  BY <1>2 DEF DemoInv, FieldTypes, Working
<1>4. IdTypes'
  BY <1>2 DEF DemoInv, IdTypes
<1>5. MetricsTyped'
  BY <1>2 DEF DemoInv, MetricsTyped
<1>6. QueueFits'
  BY <1>2 DEF DemoInv, QueueFits, Working
<1>7. SubscribePlaces'
  BY <1>2 DEF DemoInv, SubscribePlaces, BeforeReports
<1>8. ReportPlaces'
  BY <1>2, <1>1 DEF DemoInv, ReportPlaces, ReportFits, Working
<1>9. InTime'
  BY <1>2 DEF DemoInv, InTime, NoAnswer, Working
<1>10. AnswerIsSeen'
  BY <1>2 DEF AnswerIsSeen
<1> QED
  BY <1>3, <1>4, <1>5, <1>6, <1>7, <1>8, <1>9, <1>10 DEF DemoInv

LEMMA prvPublishDeviceMetricsReportKeeps ==
    ASSUME DemoInv, AnswerIsReal, prvPublishDeviceMetricsReport
    PROVE  DemoInv'
<1>1. /\ pc = "publish"
      /\ pc' = "wait"
      /\ \/ queued' = queued + 1 /\ xStatus' = xStatus
         \/ xStatus' = FALSE /\ queued' = queued
      /\ UNCHANGED <<ulReportId, xDeviceMetrics, ulReportLength, xReportStatus, buffer, notified,
                     subscribing, xReturnStatus, listed, sent, answered, stray, judged>>
  BY DEF prvPublishDeviceMetricsReport, agentVars, serviceVars
<1>2. FieldTypes'
  BY <1>1 DEF DemoInv, FieldTypes
<1>3. IdTypes'
  BY <1>1 DEF DemoInv, IdTypes
<1>4. MetricsTyped'
  BY <1>1 DEF DemoInv, MetricsTyped
<1>5. QueueFits'
  BY <1>1 DEF DemoInv, QueueFits, IdTypes, Working
<1>6. SubscribePlaces'
  BY <1>1 DEF DemoInv, SubscribePlaces, BeforeReports
<1>7. ReportPlaces'
  BY <1>1 DEF DemoInv, ReportPlaces, ReportFits, Working
<1>8. InTime'
  BY <1>1 DEF DemoInv, InTime, NoAnswer, Working
<1>9. AnswerIsSeen'
  BY <1>1 DEF AnswerIsSeen
<1> QED
  BY <1>2, <1>3, <1>4, <1>5, <1>6, <1>7, <1>8, <1>9 DEF DemoInv

LEMMA PublishNothingKeeps ==
    ASSUME DemoInv, AnswerIsReal, PublishNothing
    PROVE  DemoInv'
<1>1. /\ pc = "publish"
      /\ pc' = "wait"
      /\ UNCHANGED <<xStatus, ulReportId, xDeviceMetrics, ulReportLength, xReportStatus, buffer,
                     notified, subscribing, xReturnStatus, listed, queued, sent, answered, stray,
                     judged>>
  BY DEF PublishNothing, taskVars, agentVars, serviceVars
<1>2. FieldTypes'
  BY <1>1 DEF DemoInv, FieldTypes
<1>3. IdTypes'
  BY <1>1 DEF DemoInv, IdTypes
<1>4. MetricsTyped'
  BY <1>1 DEF DemoInv, MetricsTyped
<1>5. QueueFits'
  BY <1>1 DEF DemoInv, QueueFits, Working
<1>6. SubscribePlaces'
  BY <1>1 DEF DemoInv, SubscribePlaces, BeforeReports
<1>7. ReportPlaces'
  BY <1>1 DEF DemoInv, ReportPlaces, ReportFits, Working
<1>8. InTime'
  BY <1>1 DEF DemoInv, InTime, NoAnswer, Working
<1>9. AnswerIsSeen'
  BY <1>1 DEF AnswerIsSeen
<1> QED
  BY <1>2, <1>3, <1>4, <1>5, <1>6, <1>7, <1>8, <1>9 DEF DemoInv

LEMMA TakeNotificationKeeps ==
    ASSUME DemoInv, AnswerIsReal, TakeNotification
    PROVE  DemoInv'
<1>1. /\ pc = "wait"
      /\ pc' = "sleep"
      /\ notified > 0
      /\ notified' = notified - 1
      /\ judged' = Judged
      /\ xStatus' \in BOOLEAN
      /\ UNCHANGED <<ulReportId, xDeviceMetrics, ulReportLength, xReportStatus, buffer,
                     subscribing, xReturnStatus, listed, queued, sent, answered, stray>>
  BY DEF TakeNotification, agentVars, serviceVars
<1>2. FieldTypes'
  BY <1>1 DEF DemoInv, FieldTypes, Judged
<1>3. IdTypes'
  BY <1>1 DEF DemoInv, IdTypes
<1>4. MetricsTyped'
  BY <1>1 DEF DemoInv, MetricsTyped
<1>5. QueueFits'
  BY <1>1, Bounds DEF DemoInv, QueueFits, Working
<1>6. SubscribePlaces'
  BY <1>1 DEF DemoInv, SubscribePlaces, BeforeReports
<1>7. ReportPlaces'
  BY <1>1 DEF DemoInv, ReportPlaces, ReportFits, Working
<1>8. InTime'
  BY <1>1 DEF DemoInv, InTime, Working
<1>9. AnswerIsSeen'
  BY <1>1 DEF DemoInv, AnswerIsSeen, InTime, FieldTypes, AnswerIsReal, Judged, Answers
<1> QED
  BY <1>2, <1>3, <1>4, <1>5, <1>6, <1>7, <1>8, <1>9 DEF DemoInv

LEMMA WaitTimesOutKeeps ==
    ASSUME DemoInv, AnswerIsReal, WaitTimesOut
    PROVE  DemoInv'
<1>1. /\ pc = "wait"
      /\ pc' = "sleep"
      /\ notified = 0
      /\ judged' = "timeout"
      /\ UNCHANGED <<xStatus, ulReportId, xDeviceMetrics, ulReportLength, xReportStatus, buffer,
                     notified, subscribing, xReturnStatus, listed, queued, sent, answered, stray>>
  BY DEF WaitTimesOut, taskVars, agentVars, serviceVars
<1>2. FieldTypes'
  BY <1>1 DEF DemoInv, FieldTypes
<1>3. IdTypes'
  BY <1>1 DEF DemoInv, IdTypes
<1>4. MetricsTyped'
  BY <1>1 DEF DemoInv, MetricsTyped
<1>5. QueueFits'
  BY <1>1 DEF DemoInv, QueueFits, Working
<1>6. SubscribePlaces'
  BY <1>1 DEF DemoInv, SubscribePlaces, BeforeReports
<1>7. ReportPlaces'
  BY <1>1 DEF DemoInv, ReportPlaces, ReportFits, Working
<1>8. InTime'
  BY <1>1 DEF InTime, Working
<1>9. AnswerIsSeen'
  BY <1>1 DEF DemoInv, AnswerIsSeen, InTime, NoAnswer, Answers
<1> QED
  BY <1>2, <1>3, <1>4, <1>5, <1>6, <1>7, <1>8, <1>9 DEF DemoInv

LEMMA SleepKeeps ==
    ASSUME DemoInv, AnswerIsReal, Sleep
    PROVE  DemoInv'
<1>1. /\ pc = "sleep"
      /\ pc' = "newReport"
      /\ UNCHANGED <<xStatus, ulReportId, xDeviceMetrics, ulReportLength, xReportStatus, buffer,
                     notified, subscribing, xReturnStatus, listed, queued, sent, answered, stray,
                     judged>>
  BY DEF Sleep, taskVars, agentVars, serviceVars
<1>2. FieldTypes'
  BY <1>1 DEF DemoInv, FieldTypes
<1>3. IdTypes'
  BY <1>1 DEF DemoInv, IdTypes
<1>4. MetricsTyped'
  BY <1>1 DEF DemoInv, MetricsTyped
<1>5. QueueFits'
  BY <1>1 DEF DemoInv, QueueFits, Working
<1>6. SubscribePlaces'
  BY <1>1 DEF DemoInv, SubscribePlaces, BeforeReports
<1>7. ReportPlaces'
  BY <1>1 DEF DemoInv, ReportPlaces, ReportFits, Working
<1>8. InTime'
  BY <1>1 DEF DemoInv, InTime, Working
<1>9. AnswerIsSeen'
  BY <1>1 DEF AnswerIsSeen
<1> QED
  BY <1>2, <1>3, <1>4, <1>5, <1>6, <1>7, <1>8, <1>9 DEF DemoInv

LEMMA ProcessPublishKeeps ==
    ASSUME DemoInv, AnswerIsReal, ProcessPublish
    PROVE  DemoInv'
<1>1. /\ pc' = pc
      /\ queued > 0
      /\ queued' = queued - 1
      /\ sent' = sent \cup {buffer}
      /\ UNCHANGED <<xStatus, ulReportId, xDeviceMetrics, ulReportLength, xReportStatus, buffer,
                     notified, subscribing, xReturnStatus, listed, answered, stray, judged>>
  BY DEF ProcessPublish, taskVars, agentVars
<1>2. FieldTypes'
  BY <1>1 DEF DemoInv, FieldTypes
<1>3. IdTypes'
  BY <1>1 DEF DemoInv, IdTypes
<1>4. MetricsTyped'
  BY <1>1 DEF DemoInv, MetricsTyped
<1>5. QueueFits'
  BY <1>1 DEF DemoInv, QueueFits, IdTypes
<1>6. SubscribePlaces'
  BY <1>1 DEF DemoInv, SubscribePlaces, QueueFits
<1>7. ReportPlaces'
  BY <1>1 DEF DemoInv, ReportPlaces, ReportFits
<1>8. InTime'
  BY <1>1 DEF DemoInv, InTime, NoAnswer
<1>9. AnswerIsSeen'
  BY <1>1 DEF DemoInv, AnswerIsSeen
<1> QED
  BY <1>2, <1>3, <1>4, <1>5, <1>6, <1>7, <1>8, <1>9 DEF DemoInv

LEMMA AnswerKeeps ==
    ASSUME DemoInv, AnswerIsReal, Answer
    PROVE  DemoInv'
<1>1. PICK report \in sent : \E id \in {report, Torn} :
          \/ prvIncomingAcceptedPublishCallback(id)
          \/ prvIncomingRejectedPublishCallback(id)
  BY DEF Answer
<1>2. PICK id \in {report, Torn}, answer \in Answers : Incoming(answer, id, answer)
  <2>1. PICK id \in {report, Torn} : \/ prvIncomingAcceptedPublishCallback(id)
                                    \/ prvIncomingRejectedPublishCallback(id)
    BY <1>1
  <2> QED
    BY <2>1 DEF prvIncomingAcceptedPublishCallback, prvIncomingRejectedPublishCallback, Answers
<1>3. id \in Nat /\ id <= ulReportId
  BY DEF DemoInv, IdTypes, Torn
<1>4. sent # {}
  OBVIOUS
<1>5. /\ notified < MaxNotifications
      /\ sent # {}
      /\ pc' = pc
      /\ notified' = notified + 1
      /\ xReportStatus' = IF id # 0 /\ id = ulReportId THEN answer ELSE xReportStatus
      /\ answered' = answered \cup {<<id, answer>>}
      /\ stray' = (stray \/ pc # "wait" \/ id # ulReportId \/ notified > 0)
      /\ UNCHANGED <<xStatus, ulReportId, xDeviceMetrics, ulReportLength, buffer, subscribing,
                     xReturnStatus, listed, queued, sent, judged>>
  BY <1>2 DEF Answer, Incoming, prvValidateDefenderResponse, taskVars, agentVars, Torn
<1>6. FieldTypes'
  BY <1>5 DEF DemoInv, FieldTypes
<1>7. IdTypes'
  BY <1>5, <1>3 DEF DemoInv, IdTypes
<1>8. MetricsTyped'
  BY <1>5 DEF DemoInv, MetricsTyped
<1>9. QueueFits'
  BY <1>5, Bounds DEF DemoInv, QueueFits
<1>10. SubscribePlaces'
  BY <1>5 DEF DemoInv, SubscribePlaces, BeforeReports
<1>11. ReportPlaces'
  BY <1>5 DEF DemoInv, ReportPlaces, ReportFits
<1>12. InTime'
  <2> SUFFICES ASSUME ~stray' PROVE InTime'
    BY DEF InTime
  <2>1. pc = "wait" /\ id = ulReportId /\ notified = 0
    <3>1. pc = "wait" /\ id = ulReportId /\ ~(notified > 0)
      BY <1>5
    <3> QED
      BY <3>1 DEF DemoInv, QueueFits
  <2>2. id # 0
    BY <2>1 DEF DemoInv, ReportPlaces
  <2>3. notified' = 1 /\ xReportStatus' = answer /\ pc' = "wait"
    BY <1>5, <2>1, <2>2
  <2> QED
    BY <2>3 DEF InTime, Answers, Working
<1>13. AnswerIsSeen'
  BY <1>5 DEF AnswerIsSeen
<1> QED
  BY <1>6, <1>7, <1>8, <1>9, <1>10, <1>11, <1>12, <1>13 DEF DemoInv

\* Every step keeps the invariant.
LEMMA DemoInvNext ==
    ASSUME DemoInv, AnswerIsReal, [Next]_vars
    PROVE  DemoInv'
<1>1. CASE UNCHANGED vars
  BY <1>1 DEF vars, taskVars, agentVars, serviceVars, DemoInv, FieldTypes, IdTypes, MetricsTyped,
     QueueFits, SubscribePlaces, ReportPlaces, InTime, AnswerIsSeen, NoAnswer, ReportFits
<1>2. CASE Next
  BY <1>2, PostSubscribeKeeps, prvSubscribeToDefenderTopicsKeeps, prvSubscribeCommandCallbackKeeps,
     NewReportKeeps, ResetReportStatusKeeps, prvCollectDeviceMetricsKeeps, StartReportKeeps,
     prvGenerateDeviceMetricsReportKeeps, prvPublishDeviceMetricsReportKeeps, PublishNothingKeeps,
     TakeNotificationKeeps, WaitTimesOutKeeps, SleepKeeps, ProcessPublishKeeps,
     AnswerKeeps DEF Next, prvDefenderDemoTask
<1> QED
  BY <1>1, <1>2

\* The inductive invariant of the demo.
LEMMA DemoInvAlways == Spec => []DemoInv
<1>1. Init => DemoInv
  BY DemoInvInit
<1>2. DemoInv /\ AnswerIsReal /\ [Next]_vars => DemoInv'
  BY DemoInvNext
<1> QED
  BY <1>1, <1>2, AnswerIsRealTheorem, PTL DEF Spec

\* An answer that the service gave to the current report while the task waited
\* for it is the one the task judges, and a timeout means that there was none, as
\* long as no notification was early or surplus.
THEOREM AnswerIsSeenTheorem == Spec => []AnswerIsSeen
<1>1. DemoInv => AnswerIsSeen
  BY DEF DemoInv
<1> QED
  BY <1>1, DemoInvAlways, PTL

\* A report that is published is the whole text of the metrics, its length is
\* the one returned, and it leaves room for the terminator; one that does not
\* fit is not published.
THEOREM ReportFitsTheorem == Spec => []ReportFits
<1>1. DemoInv => ReportFits
  BY DEF DemoInv, ReportPlaces
<1> QED
  BY <1>1, DemoInvAlways, PTL

\* The invariant gives the types.
LEMMA DemoInvTypes == DemoInv => TypeOK
<1> SUFFICES ASSUME DemoInv PROVE TypeOK
  OBVIOUS
<1>1. pc \in {"subscribe", "subscribing", "asserted", "ended", "newReport", "reset", "collect",
               "generate", "generating", "publish", "wait", "sleep"}
  BY DEF DemoInv, FieldTypes, BeforeReports, Working
<1>2. {xStatus, subscribing, xReturnStatus, stray} \subseteq BOOLEAN
  BY DEF DemoInv, FieldTypes
<1>3. {ulReportId, buffer} \cup sent \subseteq Ids \cup {Torn}
  <2>1. 0 .. ulReportId \subseteq Ids \cup {Torn}
    BY DefenderAssumption DEF DemoInv, IdTypes, Ids, Torn
  <2>2. {ulReportId, buffer} \cup sent \subseteq 0 .. ulReportId
    BY DEF DemoInv, IdTypes
  <2> QED
    BY <2>1, <2>2
<1>4. \A l \in {xDeviceMetrics.tcp, xDeviceMetrics.udp, xDeviceMetrics.connections, xDeviceMetrics.tasks} :
          l \in Seq(Nat) /\ Len(l) <= ArraySize
  BY DEF DemoInv, MetricsTyped, Metrics
<1>5. queued \in 0 .. MaxReports
  BY DefenderAssumption DEF DemoInv, QueueFits, IdTypes
<1>6. answered \subseteq (Ids \cup {Torn}) \X Answers
  <2>1. 0 .. ulReportId \subseteq Ids \cup {Torn}
    BY DefenderAssumption DEF DemoInv, IdTypes, Ids, Torn
  <2> QED
    BY <2>1 DEF DemoInv, IdTypes
<1>7. notified \in 0 .. MaxNotifications + 1
  BY DEF DemoInv, QueueFits
<1> QED
  BY <1>1, <1>3, <1>4, <1>5, <1>6, <1>7 DEF DemoInv, FieldTypes, ReportPlaces, TypeOK

\* The variables of the Defender demo keep their types.
THEOREM DemoTypesTheorem == Spec => []TypeOK
  BY DemoInvTypes, DemoInvAlways, PTL
=============================================================================
