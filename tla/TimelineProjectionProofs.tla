----------------------- MODULE TimelineProjectionProofs -----------------------
(***************************************************************************)
(* The theorems about TimelineProjection.                                  *)
(***************************************************************************)
EXTENDS TimelineProjection, SequenceTheorems, WellFoundedInduction, TLAPS

-----------------------------------------------------------------------------
(* Induction over the numbers, stated for sets instead of predicates.      *)

(* A set of numbers that is not empty has a least one.                     *)
LEMMA LeastNumber ==
    ASSUME NEW T \in SUBSET Nat, T # {}
    PROVE  \E x \in T : \A y \in T : x <= y
  <1>1. \E x \in T : \A y \in T : ~ (<<y, x>> \in OpToRel(<, Nat))
    BY NatLessThanWellFounded, WFMin, Zenon
  <1>2. ASSUME NEW x \in T, NEW y \in T, ~ (<<y, x>> \in OpToRel(<, Nat))
        PROVE  x <= y
    BY <1>2 DEF OpToRel
  <1> QED BY <1>1, <1>2

(* A set of numbers with zero, and with every successor, has them all.     *)
LEMMA EveryNumber ==
    ASSUME NEW T \in SUBSET Nat, 0 \in T, \A n \in T : n + 1 \in T
    PROVE  T = Nat
  <1>1. SUFFICES ASSUME Nat \ T # {} PROVE FALSE
    OBVIOUS
  <1>2. PICK x \in Nat \ T : \A y \in Nat \ T : x <= y
    <2>1. Nat \ T \in SUBSET Nat
      OBVIOUS
    <2> QED BY <1>1, <2>1, LeastNumber
  <1>3. x # 0 /\ x - 1 \in Nat /\ x - 1 \notin Nat \ T
    BY <1>2
  <1> QED BY <1>2, <1>3

-----------------------------------------------------------------------------
(* The recursive function in FlattenSeq.                                   *)

(* One value of the function, from those before.                           *)
FlattenStep(seqs, f, i) == IF i = 1 THEN seqs[i] ELSE f[i - 1] \o seqs[i]

(* The recursion has a solution up to every number.                        *)
LEMMA FlattenSolved ==
    ASSUME NEW seqs
    PROVE  \A m \in Nat : \E f : f = [i \in 1..m |-> FlattenStep(seqs, f, i)]
  <1> DEFINE T == {m \in Nat : \E f : f = [i \in 1..m |-> FlattenStep(seqs, f, i)]}
  <1>1. 0 \in T
    <2> DEFINE f == [i \in 1..0 |-> <<>>]
    <2>1. f = [i \in 1..0 |-> FlattenStep(seqs, f, i)]
      OBVIOUS
    <2> QED BY <2>1
  <1>2. ASSUME NEW m \in T PROVE m + 1 \in T
    <2>1. PICK f : f = [i \in 1..m |-> FlattenStep(seqs, f, i)]
      OBVIOUS
    <2> DEFINE g == [i \in 1..(m + 1) |->
                        IF i = m + 1 THEN FlattenStep(seqs, f, m + 1) ELSE f[i]]
    <2>2. ASSUME NEW i \in 1..(m + 1) PROVE g[i] = FlattenStep(seqs, g, i)
      <3>1. CASE i = m + 1
        BY <3>1 DEF FlattenStep
      <3>2. CASE i # m + 1
        <4>1. f[i] = FlattenStep(seqs, f, i)
          BY <2>1, <3>2
        <4> QED BY <4>1, <3>2 DEF FlattenStep
      <3> QED BY <3>1, <3>2
    <2>3. g = [i \in 1..(m + 1) |-> FlattenStep(seqs, g, i)]
      BY <2>2, Zenon
    <2> HIDE DEF g
    <2>4. \E h : h = [i \in 1..(m + 1) |-> FlattenStep(seqs, h, i)]
      BY <2>3
    <2>5. m + 1 \in Nat
      OBVIOUS
    <2> QED BY <2>4, <2>5
  <1>3. T = Nat
    <2>1. T \in SUBSET Nat
      OBVIOUS
    <2> HIDE DEF T
    <2> QED BY <1>1, <1>2, <2>1, EveryNumber
  <1> QED BY <1>3

(* The sums f of the first parts.                                          *)
Sums(parts, f) ==
    /\ f[0] = <<>>
    /\ \A i \in 0..(Len(parts) - 1) : f[i + 1] = f[i] \o parts[i + 1]

(* FlattenSeq is the last of them.                                         *)
LEMMA FlattenSums ==
    ASSUME NEW S, NEW parts \in Seq(Seq(S))
    PROVE  \E f \in [0..Len(parts) -> Seq(S)] :
               Sums(parts, f) /\ FlattenSeq(parts) = f[Len(parts)]
  <1>1. CASE Len(parts) = 0
    <2> DEFINE f == [i \in 0..0 |-> <<>>]
    <2>1. f \in [0..Len(parts) -> Seq(S)] /\ Sums(parts, f)
      BY <1>1 DEF Sums
    <2>2. FlattenSeq(parts) = f[Len(parts)]
      BY <1>1 DEF FlattenSeq
    <2> QED BY <2>1, <2>2
  <1>2. CASE Len(parts) # 0
    <2> DEFINE m == Len(parts)
               g == CHOOSE g : g = [i \in 1..m |-> FlattenStep(parts, g, i)]
    <2>0. m \in Nat \ {0} /\ \A i \in 1..m : parts[i] \in Seq(S)
      BY <1>2
    <2>1. g = [i \in 1..m |-> FlattenStep(parts, g, i)]
      BY <2>0, FlattenSolved
    <2>2. FlattenSeq(parts) = g[m]
      BY <1>2 DEF FlattenSeq, FlattenStep
    <2> HIDE DEF g, m
    <2>3. \A i \in 1..m : g[i] = FlattenStep(parts, g, i)
      BY <2>1
    <2> DEFINE T == {i \in Nat : i + 1 <= m => g[i + 1] \in Seq(S)}
    <2>4. 0 \in T
      BY <2>0, <2>3 DEF FlattenStep
    <2>5. ASSUME NEW i \in T PROVE i + 1 \in T
      <3> SUFFICES ASSUME (i + 1) + 1 <= m PROVE g[(i + 1) + 1] \in Seq(S)
        OBVIOUS
      <3>1. g[i + 1] \in Seq(S) /\ (i + 1) + 1 \in 1..m /\ (i + 1) + 1 # 1
        BY <2>0
      <3>2. g[(i + 1) + 1] = g[i + 1] \o parts[(i + 1) + 1]
        <4>1. ((i + 1) + 1) - 1 = i + 1
          OBVIOUS
        <4> QED BY <3>1, <4>1, <2>3 DEF FlattenStep
      <3>3. parts[(i + 1) + 1] \in Seq(S)
        BY <2>0, <3>1
      <3> QED BY <3>1, <3>2, <3>3
    <2>6. T = Nat
      <3>1. T \in SUBSET Nat
        OBVIOUS
      <3> HIDE DEF T
      <3> QED BY <2>4, <2>5, <3>1, EveryNumber
    <2>7. \A i \in 1..m : g[i] \in Seq(S)
      <3> SUFFICES ASSUME NEW i \in 1..m PROVE g[i] \in Seq(S)
        OBVIOUS
      <3>1. i - 1 \in Nat /\ (i - 1) + 1 = i /\ i <= m
        BY <2>0
      <3>2. i - 1 \in T
        BY <3>1, <2>6
      <3> QED BY <3>1, <3>2
    <2> DEFINE f == [i \in 0..m |-> IF i = 0 THEN <<>> ELSE g[i]]
    <2>8. f \in [0..m -> Seq(S)]
      BY <2>7, <2>0
    <2>9. ASSUME NEW i \in 0..(m - 1) PROVE f[i + 1] = f[i] \o parts[i + 1]
      <3>1. i + 1 \in 1..m /\ f[i + 1] = g[i + 1] /\ parts[i + 1] \in Seq(S)
        BY <2>0
      <3>2. CASE i = 0
        <4>1. g[1] = parts[1]
          BY <2>3, <3>1, <3>2 DEF FlattenStep
        <4>2. f[0] = <<>>
          BY <2>0
        <4>3. i + 1 = 1
          BY <3>2
        <4> HIDE DEF f
        <4>4. <<>> \o parts[1] = parts[1]
          BY <3>1, <4>3, ConcatEmptySeq, Zenon
        <4> QED BY <3>1, <3>2, <4>1, <4>2, <4>3, <4>4
      <3>3. CASE i # 0
        <4>1. (i + 1) - 1 = i /\ i + 1 # 1 /\ f[i] = g[i]
          BY <3>3, <2>0
        <4> QED BY <2>3, <3>1, <4>1 DEF FlattenStep
      <3> QED BY <3>2, <3>3
    <2>10. f[0] = <<>> /\ f[m] = g[m]
      BY <2>0
    <2> HIDE DEF f
    <2> QED BY <2>2, <2>8, <2>9, <2>10 DEF Sums, m
  <1> QED BY <1>1, <1>2

(* FlattenSeq of no part, of one, and of two sequences of parts.           *)
LEMMA FlattenNone == FlattenSeq(<<>>) = <<>>
  BY DEF FlattenSeq

LEMMA FlattenOne ==
    ASSUME NEW S, NEW part \in Seq(S)
    PROVE  FlattenSeq(<<part>>) = part
  <1>1. <<part>> \in Seq(Seq(S)) /\ Len(<<part>>) = 1 /\ <<part>>[1] = part
    OBVIOUS
  <1>2. PICK f \in [0..1 -> Seq(S)] : Sums(<<part>>, f) /\ FlattenSeq(<<part>>) = f[1]
    BY <1>1, FlattenSums
  <1>3. f[0] = <<>> /\ f[0 + 1] = f[0] \o <<part>>[0 + 1]
    BY <1>1, <1>2 DEF Sums
  <1>4. <<>> \o part = part
    BY ConcatEmptySeq, Zenon
  <1> QED BY <1>1, <1>2, <1>3, <1>4

LEMMA FlattenConcat ==
    ASSUME NEW S, NEW s \in Seq(Seq(S)), NEW t \in Seq(Seq(S))
    PROVE  /\ FlattenSeq(s) \in Seq(S) /\ FlattenSeq(t) \in Seq(S)
           /\ FlattenSeq(s \o t) = FlattenSeq(s) \o FlattenSeq(t)
  <1> DEFINE u == s \o t
  <1>1. /\ u \in Seq(Seq(S)) /\ Len(s) \in Nat /\ Len(t) \in Nat /\ Len(u) = Len(s) + Len(t)
        /\ \A i \in 1..Len(s) : u[i] = s[i]
        /\ \A i \in 1..Len(t) : u[Len(s) + i] = t[i]
    OBVIOUS
  <1> HIDE DEF u
  <1>2. PICK f \in [0..Len(s) -> Seq(S)] : Sums(s, f) /\ FlattenSeq(s) = f[Len(s)]
    BY FlattenSums
  <1>3. PICK g \in [0..Len(t) -> Seq(S)] : Sums(t, g) /\ FlattenSeq(t) = g[Len(t)]
    BY FlattenSums
  <1>4. PICK h \in [0..Len(u) -> Seq(S)] : Sums(u, h) /\ FlattenSeq(u) = h[Len(u)]
    BY <1>1, FlattenSums
  <1>5. Len(s) \in 0..Len(s) /\ Len(t) \in 0..Len(t)
    BY <1>1
  <1>6. FlattenSeq(s) \in Seq(S) /\ FlattenSeq(t) \in Seq(S) /\ f[Len(s)] \in Seq(S)
    BY <1>5, <1>2, <1>3, Zenon
  <1> DEFINE T == {m \in Nat : m <= Len(s) => h[m] = f[m]}
  <1>7. T = Nat
    <2>1. 0 \in T
      BY <1>2, <1>4 DEF Sums
    <2>2. ASSUME NEW m \in T PROVE m + 1 \in T
      <3> SUFFICES ASSUME m + 1 <= Len(s) PROVE h[m + 1] = f[m + 1]
        OBVIOUS
      <3>1. m \in 0..(Len(s) - 1) /\ m \in 0..(Len(u) - 1) /\ h[m] = f[m] /\ m + 1 \in 1..Len(s)
        BY <1>1
      <3>2. f[m + 1] = f[m] \o s[m + 1] /\ h[m + 1] = h[m] \o u[m + 1]
        BY <3>1, <1>2, <1>4 DEF Sums
      <3> QED BY <3>1, <3>2, <1>1
    <2>3. T \in SUBSET Nat
      OBVIOUS
    <2> HIDE DEF T
    <2> QED BY <2>1, <2>2, <2>3, EveryNumber
  <1>8. h[Len(s)] = f[Len(s)]
    <2>1. Len(s) \in T
      BY <1>1, <1>7
    <2> QED BY <2>1
  <1>9. \A i \in 1..Len(t) : t[i] \in Seq(S)
    BY ElementOfSeq, Zenon
  <1> DEFINE V == {m \in Nat : m <= Len(t) => h[Len(s) + m] = f[Len(s)] \o g[m]}
  <1>10. V = Nat
    <2>1. 0 \in V
      <3>1. g[0] = <<>> /\ f[Len(s)] \in Seq(S)
        BY <1>6, <1>3 DEF Sums
      <3>2. f[Len(s)] \o <<>> = f[Len(s)]
        BY <3>1, ConcatEmptySeq, Zenon
      <3>3. Len(s) + 0 = Len(s)
        BY <1>1
      <3> QED BY <1>8, <3>1, <3>2, <3>3
    <2>2. ASSUME NEW m \in V PROVE m + 1 \in V
      <3>1. SUFFICES ASSUME m + 1 <= Len(t) PROVE h[Len(s) + (m + 1)] = f[Len(s)] \o g[m + 1]
        <4>1. m \in Nat
          OBVIOUS
        <4>2. m + 1 \in Nat
          BY <4>1
        <4> QED BY <4>2, Zenon
      <3>2. /\ m \in 0..(Len(t) - 1) /\ Len(s) + m \in 0..(Len(u) - 1) /\ m + 1 \in 1..Len(t)
            /\ Len(s) + (m + 1) = (Len(s) + m) + 1 /\ m \in 0..Len(t) /\ Len(s) \in 0..Len(s)
        <4>1. m \in Nat
          OBVIOUS
        <4> HIDE DEF V
        <4> QED BY <1>1, <3>1, <4>1
      <3>3. h[Len(s) + m] = f[Len(s)] \o g[m]
        BY <3>2
      <3>4. g[m + 1] = g[m] \o t[m + 1] /\ h[(Len(s) + m) + 1] = h[Len(s) + m] \o u[(Len(s) + m) + 1]
        BY <3>2, <1>3, <1>4 DEF Sums
      <3>5. u[(Len(s) + m) + 1] = t[m + 1]
        BY <3>2, <1>1
      <3>6. t[m + 1] \in Seq(S)
        BY <3>2, <1>9
      <3>7. f[Len(s)] \in Seq(S) /\ g[m] \in Seq(S) /\ t[m + 1] \in Seq(S)
        BY <3>2, <3>6, <1>6, <1>3, Zenon
      <3>8. (f[Len(s)] \o g[m]) \o t[m + 1] = f[Len(s)] \o (g[m] \o t[m + 1])
        <4> DEFINE a == f[Len(s)]
                   b == g[m]
                   c == t[m + 1]
        <4>1. a \in Seq(S) /\ b \in Seq(S) /\ c \in Seq(S)
          BY <3>7
        <4> HIDE DEF a, b, c, V, T
        <4>2. (a \o b) \o c = a \o (b \o c)
          BY <4>1, ConcatAssociative
        <4> QED BY <4>2 DEF a, b, c
      <3> QED BY <3>2, <3>3, <3>4, <3>5, <3>8
    <2>3. V \in SUBSET Nat
      OBVIOUS
    <2> HIDE DEF V
    <2> QED BY <2>1, <2>2, <2>3, EveryNumber
  <1>11. h[Len(u)] = f[Len(s)] \o g[Len(t)]
    <2>1. Len(t) \in V
      BY <1>1, <1>10
    <2> QED BY <2>1, <1>1
  <1> QED BY <1>2, <1>3, <1>4, <1>6, <1>11 DEF u

(* What FlattenSeq holds is of one of the parts.                           *)
LEMMA FlattenEntries ==
    ASSUME NEW S, NEW parts \in Seq(Seq(S)), NEW x \in Range(FlattenSeq(parts))
    PROVE  \E i \in DOMAIN parts : x \in Range(parts[i])
  <1>1. PICK f \in [0..Len(parts) -> Seq(S)] :
            Sums(parts, f) /\ FlattenSeq(parts) = f[Len(parts)]
    BY FlattenSums
  <1>2. Len(parts) \in Nat /\ DOMAIN parts = 1..Len(parts)
    OBVIOUS
  <1> DEFINE T == {m \in Nat : m <= Len(parts) /\ x \in Range(f[m]) =>
                                   \E i \in DOMAIN parts : x \in Range(parts[i])}
  <1>3. 0 \in T
    BY <1>1 DEF Sums, Range
  <1>4. ASSUME NEW m \in T PROVE m + 1 \in T
    <2> SUFFICES ASSUME m + 1 <= Len(parts), x \in Range(f[m + 1])
                 PROVE  \E i \in DOMAIN parts : x \in Range(parts[i])
      OBVIOUS
    <2>1. m \in 0..(Len(parts) - 1) /\ m + 1 \in DOMAIN parts /\ m \in 0..Len(parts)
      BY <1>2
    <2>2. f[m] \in Seq(S)
      BY <1>1, <2>1, Zenon
    <2>3. parts[m + 1] \in Seq(S)
      BY <2>1, <1>2, ElementOfSeq, Zenon
    <2>4. f[m + 1] = f[m] \o parts[m + 1]
      BY <1>1, <2>1 DEF Sums
    <2>5. x \in Range(f[m]) \/ x \in Range(parts[m + 1])
      <3> DEFINE a == f[m]
                 b == parts[m + 1]
      <3>1. a \in Seq(S) /\ b \in Seq(S) /\ x \in Range(a \o b)
        BY <2>2, <2>3, <2>4
      <3> HIDE DEF a, b
      <3>2. PICK i \in DOMAIN (a \o b) : x = (a \o b)[i]
        BY <3>1 DEF Range
      <3>3. Len(a) \in Nat /\ Len(b) \in Nat /\ DOMAIN a = 1..Len(a) /\ DOMAIN b = 1..Len(b)
            /\ i \in 1..(Len(a) + Len(b))
        BY <3>1, <3>2
      <3>4. CASE i <= Len(a)
        <4>1. i \in DOMAIN a /\ x = a[i]
          BY <3>1, <3>2, <3>3, <3>4
        <4> QED BY <4>1 DEF Range, a
      <3>5. CASE ~(i <= Len(a))
        <4>1. i - Len(a) \in DOMAIN b /\ x = b[i - Len(a)]
          BY <3>1, <3>2, <3>3, <3>5
        <4> QED BY <4>1 DEF Range, b
      <3> QED BY <3>4, <3>5
    <2> QED BY <2>1, <2>5
  <1>5. T = Nat
    <2>1. T \in SUBSET Nat
      OBVIOUS
    <2> HIDE DEF T
    <2> QED BY <1>3, <1>4, <2>1, EveryNumber
  <1>6. Len(parts) \in T
    BY <1>2, <1>5
  <1> QED BY <1>1, <1>2, <1>6

-----------------------------------------------------------------------------
(* The text of a kind of rows.                                             *)

(* What one row has of it, and what each row of a sequence has.            *)
PartOf(row, kind, key) ==
    IF row.kind = kind /\ row.key = key THEN row.body ELSE <<>>

Parts(rows, kind, key) == [i \in DOMAIN rows |-> PartOf(rows[i], kind, key)]

LEMMA PartOfType ==
    ASSUME NEW row \in Row, NEW kind, NEW key
    PROVE  PartOf(row, kind, key) \in Seq(Index)
  BY DEF Row, PartOf

LEMMA PartsType ==
    ASSUME NEW rows \in Seq(Row), NEW kind, NEW key
    PROVE  /\ Parts(rows, kind, key) \in Seq(Seq(Index))
           /\ Len(Parts(rows, kind, key)) = Len(rows)
           /\ \A i \in 1..Len(rows) : Parts(rows, kind, key)[i] = PartOf(rows[i], kind, key)
  <1>1. Len(rows) \in Nat /\ DOMAIN rows = 1..Len(rows)
    OBVIOUS
  <1>2. \A i \in 1..Len(rows) : rows[i] \in Row
    BY ElementOfSeq
  <1>3. \A i \in 1..Len(rows) : PartOf(rows[i], kind, key) \in Seq(Index)
    BY <1>2, PartOfType
  <1> QED BY <1>1, <1>3 DEF Parts

(* The text of two sequences of rows.                                      *)
LEMMA TextConcat ==
    ASSUME NEW rows \in Seq(Row), NEW more \in Seq(Row), NEW kind, NEW key
    PROVE  /\ Text(rows, kind, key) \in Seq(Index)
           /\ Text(more, kind, key) \in Seq(Index)
           /\ Text(rows \o more, kind, key) = Text(rows, kind, key) \o Text(more, kind, key)
  <1> DEFINE both == rows \o more
             p == Parts(rows, kind, key)
             q == Parts(more, kind, key)
             r == Parts(both, kind, key)
  <1>1. /\ Len(rows) \in Nat /\ Len(more) \in Nat /\ both \in Seq(Row)
        /\ Len(both) = Len(rows) + Len(more)
        /\ \A i \in 1..Len(both) :
               both[i] = IF i <= Len(rows) THEN rows[i] ELSE more[i - Len(rows)]
    <2>1. both \in Seq(Row) /\ Len(both) = Len(rows) + Len(more)
      BY ConcatProperties
    <2> QED BY <2>1, ConcatProperties
  <1>2. /\ p \in Seq(Seq(Index)) /\ q \in Seq(Seq(Index)) /\ r \in Seq(Seq(Index))
        /\ Len(p) = Len(rows) /\ Len(q) = Len(more) /\ Len(r) = Len(both)
        /\ \A i \in 1..Len(rows) : p[i] = PartOf(rows[i], kind, key)
        /\ \A i \in 1..Len(more) : q[i] = PartOf(more[i], kind, key)
        /\ \A i \in 1..Len(both) : r[i] = PartOf(both[i], kind, key)
    <2> HIDE DEF both
    <2>1. p \in Seq(Seq(Index)) /\ Len(p) = Len(rows)
          /\ \A i \in 1..Len(rows) : p[i] = PartOf(rows[i], kind, key)
      BY PartsType
    <2>2. q \in Seq(Seq(Index)) /\ Len(q) = Len(more)
          /\ \A i \in 1..Len(more) : q[i] = PartOf(more[i], kind, key)
      BY PartsType
    <2>3. r \in Seq(Seq(Index)) /\ Len(r) = Len(both)
          /\ \A i \in 1..Len(both) : r[i] = PartOf(both[i], kind, key)
      BY <1>1, PartsType
    <2> QED BY <2>1, <2>2, <2>3
  <1>3. Text(rows, kind, key) = FlattenSeq(p) /\ Text(more, kind, key) = FlattenSeq(q)
        /\ Text(both, kind, key) = FlattenSeq(r)
    BY DEF Text, Parts, PartOf
  <1> HIDE DEF p, q, r, both
  <1>4. r = p \o q
    <2>1. p \o q \in Seq(Seq(Index)) /\ Len(p \o q) = Len(r)
      BY <1>1, <1>2, ConcatProperties
    <2>2. ASSUME NEW i \in 1..Len(r) PROVE r[i] = (p \o q)[i]
      <3>1. (p \o q)[i] = IF i <= Len(p) THEN p[i] ELSE q[i - Len(p)]
        BY <1>1, <1>2, ConcatProperties
      <3>2. CASE i <= Len(rows)
        BY <3>1, <3>2, <1>1, <1>2
      <3>3. CASE ~ (i <= Len(rows))
        <4>1. i - Len(rows) \in 1..Len(more)
          BY <3>3, <1>1, <1>2
        <4> QED BY <3>1, <3>3, <4>1, <1>1, <1>2
      <3> QED BY <3>2, <3>3
    <2> QED BY <1>2, <2>1, <2>2, SeqEqual, Zenon
  <1> QED BY <1>2, <1>3, <1>4, FlattenConcat DEF both

(* The text of one row, and of none.                                       *)
LEMMA TextOne ==
    ASSUME NEW row \in Row, NEW kind, NEW key
    PROVE  Text(<<row>>, kind, key) = PartOf(row, kind, key)
  <1>1. Text(<<row>>, kind, key) = FlattenSeq(Parts(<<row>>, kind, key))
    BY DEF Text, Parts, PartOf
  <1>2. Parts(<<row>>, kind, key) = <<PartOf(row, kind, key)>>
    <2> DEFINE p == PartOf(row, kind, key)
    <2>1. Parts(<<row>>, kind, key) = [i \in 1..1 |-> p]
      BY DEF Parts
    <2> HIDE DEF p
    <2> QED BY <2>1 DEF p
  <1> QED BY <1>1, <1>2, FlattenOne, PartOfType

LEMMA TextNone ==
    ASSUME NEW kind, NEW key
    PROVE  Text(<<>>, kind, key) = <<>>
  <1>1. Text(<<>>, kind, key) = FlattenSeq([i \in {} |-> PartOf(<<>>[i], kind, key)])
    BY DEF Text, PartOf
  <1>2. [i \in {} |-> PartOf(<<>>[i], kind, key)] = <<>>
    OBVIOUS
  <1> QED BY <1>1, <1>2, FlattenNone

(* Some row is made of the event n.                                        *)
Holds(rows, n) == \E i \in DOMAIN rows : n \in Range(rows[i].body)

(* An event in the text of some rows is in one of them.                    *)
LEMMA TextHeld ==
    ASSUME NEW rows \in Seq(Row), NEW kind, NEW key, NEW n \in Range(Text(rows, kind, key))
    PROVE  Holds(rows, n)
  <1> DEFINE p == Parts(rows, kind, key)
  <1>1. /\ p \in Seq(Seq(Index)) /\ Len(p) = Len(rows)
        /\ \A i \in 1..Len(rows) : p[i] = PartOf(rows[i], kind, key)
    BY PartsType
  <1>2. n \in Range(FlattenSeq(p))
    BY DEF Text, Parts, PartOf
  <1> HIDE DEF p
  <1>3. PICK i \in DOMAIN p : n \in Range(p[i])
    BY <1>1, <1>2, FlattenEntries
  <1>4. DOMAIN p = 1..Len(rows) /\ DOMAIN rows = 1..Len(rows)
    BY <1>1
  <1>5. n \in Range(PartOf(rows[i], kind, key))
    BY <1>1, <1>3, <1>4
  <1>6. n \in Range(rows[i].body)
    BY <1>5 DEF PartOf, Range
  <1> QED BY <1>3, <1>4, <1>6 DEF Holds

-----------------------------------------------------------------------------
(* What take_items makes of a buffer.                                      *)

DeltaRows == {"message_delta_batch", "command_output_delta_batch"}

(* Rows of collected deltas only.                                          *)
OfDeltas(rows) == \A i \in DOMAIN rows : rows[i].kind \in DeltaRows

(* A buffer whose texts are of their types.                                *)
Buffer(buf) == buf.message \in Seq(Index) /\ buf.commands \in [Commands -> Seq(Index)]

MessageText(rows) == Text(rows, "message_delta_batch", None)

CommandText(rows, c) == Text(rows, "command_output_delta_batch", <<"command", c>>)

LEMMA DeltaTextConcat ==
    ASSUME NEW rows \in Seq(Row), NEW more \in Seq(Row)
    PROVE  /\ MessageText(rows \o more) = MessageText(rows) \o MessageText(more)
           /\ \A c : CommandText(rows \o more, c) = CommandText(rows, c) \o CommandText(more, c)
  <1>1. MessageText(rows \o more) = MessageText(rows) \o MessageText(more)
    BY TextConcat DEF MessageText
  <1>2. ASSUME NEW c
        PROVE  CommandText(rows \o more, c) = CommandText(rows, c) \o CommandText(more, c)
    <2> DEFINE key == <<"command", c>>
               kind == "command_output_delta_batch"
    <2> HIDE DEF key, kind
    <2>1. Text(rows \o more, kind, key) = Text(rows, kind, key) \o Text(more, kind, key)
      BY TextConcat
    <2> QED BY <2>1 DEF CommandText, key, kind
  <1> QED BY <1>1, <1>2

RowKey == ({"command"} \X Commands) \cup ({"request"} \X Index) \cup {None}

LEMMA RowsOfType ==
    ASSUME NEW kind \in DeltaRows, NEW text \in Seq(Index), NEW key \in RowKey
    PROVE  /\ RowsOf(kind, text, key) \in Seq(Row)
           /\ OfDeltas(RowsOf(kind, text, key))
           /\ \A k, x : Text(RowsOf(kind, text, key), k, x)
                        = IF k = kind /\ x = key THEN text ELSE <<>>
  <1>1. CASE text = <<>>
    <2>1. RowsOf(kind, text, key) = <<>>
      BY <1>1 DEF RowsOf
    <2>2. \A k, x : Text(<<>>, k, x) = <<>>
      BY TextNone
    <2>3. OfDeltas(<<>>) /\ <<>> \in Seq(Row)
      BY DEF OfDeltas
    <2> QED BY <1>1, <2>1, <2>2, <2>3
  <1>2. CASE text # <<>>
    <2> DEFINE row == [kind |-> kind, body |-> text, key |-> key]
    <2>1. RowsOf(kind, text, key) = <<row>>
      BY <1>2 DEF RowsOf
    <2>2. row \in Row
      BY DEF Row, RowKinds, RowKey, DeltaRows
    <2>3. row.kind = kind /\ row.body = text /\ row.key = key
      OBVIOUS
    <2> HIDE DEF row
    <2>4. <<row>> \in Seq(Row) /\ OfDeltas(<<row>>)
      BY <2>2, <2>3 DEF OfDeltas
    <2>5. \A k, x : Text(<<row>>, k, x) = PartOf(row, k, x)
      BY <2>2, TextOne
    <2>6. \A k, x : PartOf(row, k, x) = IF k = kind /\ x = key THEN text ELSE <<>>
      BY <2>3 DEF PartOf
    <2> QED BY <2>1, <2>4, <2>5, <2>6
  <1> QED BY <1>1, <1>2

LEMMA DeltasConcat ==
    ASSUME NEW rows \in Seq(Row), NEW more \in Seq(Row), OfDeltas(rows), OfDeltas(more)
    PROVE  OfDeltas(rows \o more)
  <1> SUFFICES ASSUME NEW i \in DOMAIN (rows \o more)
               PROVE  (rows \o more)[i].kind \in DeltaRows
    BY DEF OfDeltas
  <1>1. CASE i \in 1..Len(rows)
    <2>1. (rows \o more)[i] = rows[i] /\ i \in DOMAIN rows
      BY <1>1
    <2> QED BY <2>1 DEF OfDeltas
  <1>2. CASE i \notin 1..Len(rows)
    <2>1. (rows \o more)[i] = more[i - Len(rows)] /\ i - Len(rows) \in DOMAIN more
      BY <1>2
    <2> QED BY <2>1 DEF OfDeltas
  <1> QED BY <1>1, <1>2

(* The rows of the commands, in the order of their ids.                    *)
CommandParts(buf) ==
    [c \in Commands |-> RowsOf("command_output_delta_batch", buf.commands[c], <<"command", c>>)]

LEMMA CommandItems ==
    ASSUME NEW buf, Buffer(buf)
    PROVE  /\ FlattenSeq(CommandParts(buf)) \in Seq(Row)
           /\ OfDeltas(FlattenSeq(CommandParts(buf)))
           /\ MessageText(FlattenSeq(CommandParts(buf))) = <<>>
           /\ \A c \in Commands :
                CommandText(FlattenSeq(CommandParts(buf)), c) = buf.commands[c]
  <1> DEFINE parts == CommandParts(buf)
  <1>1. MaxCommands \in Nat /\ Commands = 1..MaxCommands
    BY ProjectionAssumption DEF Commands
  <1>2. \A c \in Commands : buf.commands[c] \in Seq(Index) /\ <<"command", c>> \in RowKey
    BY DEF Buffer, RowKey
  <1>3. ASSUME NEW c \in Commands
        PROVE  /\ parts[c] \in Seq(Row) /\ OfDeltas(parts[c]) /\ MessageText(parts[c]) = <<>>
               /\ \A d \in Commands : CommandText(parts[c], d)
                                      = IF d = c THEN buf.commands[c] ELSE <<>>
    <2> DEFINE kind == "command_output_delta_batch"
               text == buf.commands[c]
               key == <<"command", c>>
    <2>1. parts[c] = RowsOf(kind, text, key)
      BY DEF CommandParts
    <2>2. kind \in DeltaRows /\ text \in Seq(Index) /\ key \in RowKey
      BY <1>2 DEF DeltaRows
    <2>3. kind # "message_delta_batch" /\ \A d \in Commands : <<"command", d>> = key <=> d = c
      OBVIOUS
    <2>4. kind = "command_output_delta_batch"
      OBVIOUS
    <2> HIDE DEF parts, kind, text, key
    <2>5. /\ RowsOf(kind, text, key) \in Seq(Row)
          /\ OfDeltas(RowsOf(kind, text, key))
          /\ \A k, x : Text(RowsOf(kind, text, key), k, x)
                        = IF k = kind /\ x = key THEN text ELSE <<>>
      BY <2>2, RowsOfType
    <2>6. MessageText(parts[c]) = <<>>
      BY <2>1, <2>3, <2>5 DEF MessageText
    <2>7. \A d \in Commands : CommandText(parts[c], d) = IF d = c THEN text ELSE <<>>
      BY <2>1, <2>3, <2>4, <2>5 DEF CommandText
    <2> QED BY <2>1, <2>5, <2>6, <2>7 DEF text
  <1>4. parts \in Seq(Seq(Row)) /\ Len(parts) = MaxCommands
    <2>1. parts = [c \in 1..MaxCommands |-> parts[c]]
      BY <1>1 DEF CommandParts
    <2> HIDE DEF parts
    <2>2. \A c \in 1..MaxCommands : parts[c] \in Seq(Row)
      BY <1>1, <1>3
    <2> QED BY <1>1, <2>1, <2>2
  <1> HIDE DEF parts
  <1>5. PICK f \in [0..Len(parts) -> Seq(Row)] :
            Sums(parts, f) /\ FlattenSeq(parts) = f[Len(parts)]
    BY <1>4, FlattenSums
  <1>6. f[0] = <<>> /\ \A i \in 0..(MaxCommands - 1) : f[i + 1] = f[i] \o parts[i + 1]
    BY <1>4, <1>5 DEF Sums
  <1>7. \A i \in 0..MaxCommands : f[i] \in Seq(Row)
    BY <1>4, <1>5
  <1> DEFINE Good(m) == /\ OfDeltas(f[m]) /\ MessageText(f[m]) = <<>>
                        /\ \A d \in Commands :
                             CommandText(f[m], d) = IF d <= m THEN buf.commands[d] ELSE <<>>
             T == {m \in Nat : m <= MaxCommands => Good(m)}
  <1>8. 0 \in T
    <2>1. OfDeltas(f[0]) /\ MessageText(f[0]) = <<>>
      BY <1>6, TextNone DEF OfDeltas, MessageText
    <2>2. ASSUME NEW d \in Commands
          PROVE  CommandText(f[0], d) = IF d <= 0 THEN buf.commands[d] ELSE <<>>
      <3>1. ~ (d <= 0)
        BY <1>1
      <3>2. CommandText(f[0], d) = <<>>
        BY <1>6, TextNone DEF CommandText
      <3> QED BY <3>1, <3>2
    <2> QED BY <2>1, <2>2
  <1>9. ASSUME NEW m \in T PROVE m + 1 \in T
    <2>1. m \in Nat /\ m + 1 \in Nat
      OBVIOUS
    <2>2. SUFFICES ASSUME m + 1 <= MaxCommands PROVE Good(m + 1)
      BY <2>1, Zenon
    <2>3. m \in 0..(MaxCommands - 1) /\ m + 1 \in Commands /\ m <= MaxCommands /\ m \in 0..MaxCommands
      BY <1>1, <2>1, <2>2
    <2>4. Good(m)
      BY <2>3, Zenon
    <2>5. /\ OfDeltas(f[m]) /\ MessageText(f[m]) = <<>>
          /\ \A d \in Commands :
               CommandText(f[m], d) = IF d <= m THEN buf.commands[d] ELSE <<>>
      BY <2>4
    <2>6. /\ parts[m + 1] \in Seq(Row) /\ OfDeltas(parts[m + 1]) /\ MessageText(parts[m + 1]) = <<>>
          /\ \A d \in Commands : CommandText(parts[m + 1], d)
                                 = IF d = m + 1 THEN buf.commands[m + 1] ELSE <<>>
      <3> HIDE DEF T, Good
      <3> QED BY <1>3, <2>3
    <2> DEFINE a == f[m]
               b == parts[m + 1]
    <2>7. a \in Seq(Row) /\ b \in Seq(Row) /\ f[m + 1] = a \o b
      BY <1>6, <1>7, <2>3, <2>6
    <2> SUFFICES /\ OfDeltas(a \o b) /\ MessageText(a \o b) = <<>>
                 /\ \A d \in Commands :
                      CommandText(a \o b, d) = IF d <= m + 1 THEN buf.commands[d] ELSE <<>>
      BY <2>7
    <2>8. /\ OfDeltas(a) /\ MessageText(a) = <<>>
          /\ \A d \in Commands :
               CommandText(a, d) = IF d <= m THEN buf.commands[d] ELSE <<>>
      BY <2>5
    <2>9. /\ OfDeltas(b) /\ MessageText(b) = <<>>
          /\ \A d \in Commands : CommandText(b, d)
                                 = IF d = m + 1 THEN buf.commands[m + 1] ELSE <<>>
      BY <2>6
    <2> HIDE DEF a, b, T, Good
    <2>10. OfDeltas(a \o b)
      BY <2>7, <2>8, <2>9, DeltasConcat
    <2>11. MessageText(a \o b) = <<>>
      <3>1. MessageText(a \o b) = MessageText(a) \o MessageText(b)
        BY <2>7, DeltaTextConcat
      <3> QED BY <3>1, <2>8, <2>9
    <2>12. ASSUME NEW d, d \in Commands
           PROVE  CommandText(a \o b, d) = IF d <= m + 1 THEN buf.commands[d] ELSE <<>>
      <3>0. CommandText(a \o b, d) = CommandText(a, d) \o CommandText(b, d)
        BY <2>7, DeltaTextConcat
      <3>1. m \in Nat /\ d \in Nat
        BY <1>1, <2>1, <2>12
      <3>2. buf.commands[d] \in Seq(Index) /\ d \in Nat
        BY <1>2, <2>12, <3>1
      <3>3. CommandText(a, d) = (IF d <= m THEN buf.commands[d] ELSE <<>>)
            /\ CommandText(b, d) = (IF d = m + 1 THEN buf.commands[m + 1] ELSE <<>>)
        BY <2>8, <2>9, <2>12
      <3>4. buf.commands[d] \o <<>> = buf.commands[d] /\ <<>> \o buf.commands[d] = buf.commands[d]
        BY <3>2, ConcatEmptySeq
      <3>5. CASE d <= m
        <4>1. d # m + 1 /\ d <= m + 1
          BY <3>5, <3>1
        <4> QED BY <3>0, <3>3, <3>4, <3>5, <4>1
      <3>6. CASE d = m + 1
        <4>1. ~ (d <= m) /\ d <= m + 1
          BY <3>6, <3>1
        <4> QED BY <3>0, <3>3, <3>4, <3>6, <4>1
      <3>7. CASE ~ (d <= m) /\ d # m + 1
        <4>1. ~ (d <= m + 1)
          BY <3>7, <3>1
        <4> QED BY <3>0, <3>3, <3>7, <4>1
      <3> QED BY <3>5, <3>6, <3>7
    <2> QED BY <2>10, <2>11, <2>12
  <1>10. T = Nat
    <2>1. T \in SUBSET Nat
      OBVIOUS
    <2> HIDE DEF T
    <2> QED BY <1>8, <1>9, <2>1, EveryNumber
  <1>11. Good(MaxCommands)
    <2>1. MaxCommands \in T
      BY <1>1, <1>10
    <2> QED BY <2>1, <1>1
  <1>12. FlattenSeq(parts) = f[MaxCommands] /\ f[MaxCommands] \in Seq(Row)
         /\ \A d \in Commands : d <= MaxCommands
    BY <1>1, <1>4, <1>5, <1>7
  <1> QED BY <1>11, <1>12 DEF parts

LEMMA Items ==
    ASSUME NEW buf, Buffer(buf)
    PROVE  /\ TakeItems(buf) \in Seq(Row)
           /\ OfDeltas(TakeItems(buf))
           /\ MessageText(TakeItems(buf)) = buf.message
           /\ \A c \in Commands : CommandText(TakeItems(buf), c) = buf.commands[c]
  <1> DEFINE a == RowsOf("message_delta_batch", buf.message, None)
             b == FlattenSeq(CommandParts(buf))
  <1>1. TakeItems(buf) = a \o b
    BY DEF TakeItems, CommandParts
  <1>2. "message_delta_batch" \in DeltaRows /\ buf.message \in Seq(Index) /\ None \in RowKey
        /\ \A c \in Commands : buf.commands[c] \in Seq(Index)
    BY DEF DeltaRows, RowKey, Buffer
  <1>3. /\ a \in Seq(Row) /\ OfDeltas(a)
        /\ \A k, x : Text(a, k, x)
                     = IF k = "message_delta_batch" /\ x = None THEN buf.message ELSE <<>>
    BY <1>2, RowsOfType
  <1>4. MessageText(a) = buf.message /\ \A c \in Commands : CommandText(a, c) = <<>>
    BY <1>3 DEF MessageText, CommandText
  <1>5. /\ b \in Seq(Row) /\ OfDeltas(b) /\ MessageText(b) = <<>>
        /\ \A c \in Commands : CommandText(b, c) = buf.commands[c]
    BY CommandItems
  <1> HIDE DEF a, b
  <1>6. TakeItems(buf) \in Seq(Row) /\ OfDeltas(TakeItems(buf))
    BY <1>1, <1>3, <1>5, DeltasConcat, ConcatProperties
  <1>7. MessageText(TakeItems(buf)) = buf.message \o <<>>
    <2>1. MessageText(a \o b) = MessageText(a) \o MessageText(b)
      BY <1>3, <1>5, DeltaTextConcat
    <2> QED BY <1>1, <1>4, <1>5, <2>1
  <1>8. ASSUME NEW c \in Commands PROVE CommandText(TakeItems(buf), c) = <<>> \o buf.commands[c]
    <2>1. CommandText(a \o b, c) = CommandText(a, c) \o CommandText(b, c)
      BY <1>3, <1>5, DeltaTextConcat
    <2> QED BY <1>1, <1>4, <1>5, <2>1
  <1>9. buf.message \o <<>> = buf.message
        /\ \A c \in Commands : <<>> \o buf.commands[c] = buf.commands[c]
    BY <1>2, ConcatEmptySeq
  <1> QED BY <1>6, <1>7, <1>8, <1>9

(* An empty buffer makes no row.                                           *)
LEMMA NoItems == Buffer(NoDeltas) /\ TakeItems(NoDeltas) = <<>>
  <1>1. Buffer(NoDeltas)
    BY DEF Buffer, NoDeltas
  <1>2. MaxCommands \in Nat /\ Commands = 1..MaxCommands
    BY ProjectionAssumption DEF Commands
  <1> DEFINE parts == CommandParts(NoDeltas)
  <1>3. parts \in Seq(Seq(Row)) /\ Len(parts) = MaxCommands /\ \A c \in 1..MaxCommands : parts[c] = <<>>
    BY <1>2 DEF CommandParts, RowsOf, NoDeltas
  <1>4. TakeItems(NoDeltas) = <<>> \o FlattenSeq(parts)
    BY DEF TakeItems, CommandParts, RowsOf, NoDeltas
  <1> HIDE DEF parts
  <1>5. PICK f \in [0..Len(parts) -> Seq(Row)] :
            Sums(parts, f) /\ FlattenSeq(parts) = f[Len(parts)]
    BY <1>3, FlattenSums
  <1>6. f[0] = <<>> /\ \A i \in 0..(MaxCommands - 1) : f[i + 1] = f[i] \o parts[i + 1]
    BY <1>3, <1>5 DEF Sums
  <1> DEFINE T == {m \in Nat : m <= MaxCommands => f[m] = <<>>}
  <1>7. T = Nat
    <2>1. 0 \in T
      BY <1>6
    <2>2. ASSUME NEW m \in T PROVE m + 1 \in T
      <3>1. ASSUME m + 1 <= MaxCommands PROVE f[m + 1] = <<>>
        <4>1. m \in 0..(MaxCommands - 1) /\ m + 1 \in 1..MaxCommands /\ f[m] = <<>>
          BY <1>2, <3>1
        <4>2. f[m + 1] = <<>> \o <<>>
          BY <4>1, <1>3, <1>6
        <4> QED BY <4>2
      <3> QED BY <3>1
    <2>3. T \in SUBSET Nat
      OBVIOUS
    <2> HIDE DEF T
    <2> QED BY <2>1, <2>2, <2>3, EveryNumber
  <1>8. FlattenSeq(parts) = <<>>
    <2>1. MaxCommands \in T
      BY <1>2, <1>7
    <2> QED BY <2>1, <1>2, <1>3, <1>5
  <1> QED BY <1>1, <1>4, <1>8

-----------------------------------------------------------------------------
(* The inductive invariant.                                                *)

(* The event n makes a row, or is text of one.                             *)
Own(n) == sent[n].kind \notin {"approval", "terminal"}

(* What the provider emits: output and completion of commands of the run,  *)
(* and nothing after the end.                                              *)
Emitted ==
    /\ Len(sent) <= MaxEvents
    /\ \A n \in DOMAIN sent :
         /\ sent[n].kind \in CommandKinds => sent[n].command \in Commands
         /\ sent[n].kind \notin CommandKinds => sent[n].command = None
         /\ sent[n].kind = "terminal" => n = Len(sent)

(* The consumer is at the last event it took, with an empty buffer, unless *)
(* it waits for the next; a run is completed only by its last event.       *)
AtEvent ==
    /\ consumer.pc # "append" => consumer.batch = <<>>
    /\ consumer.pc # "recv" => deltas = NoDeltas
    /\ consumer.pc \in {"append", "record", "terminal"} =>
         taken \in DOMAIN sent /\ consumer.event = taken
    /\ consumer.pc = "record" => sent[taken].kind = "approval"
    /\ consumer.pc = "terminal" => sent[taken].kind = "terminal"
    /\ status = "completed" =>
         /\ consumer.pc = "done"
         /\ \E n \in DOMAIN sent : sent[n].kind = "terminal"

(* The request n is in some rows; the answer to it is in some rows.        *)
Asked(rows, n) ==
    \E i \in DOMAIN rows : rows[i].kind = "user_input" /\ rows[i].body = <<n>>

Responded(rows, n) ==
    \E i \in DOMAIN rows : rows[i].kind = "user_input_responded" /\ rows[i].body = <<n>>

(* The answer in progress is to a request, within the bound, is recorded   *)
(* when it is delivered, and forgotten when it is recorded.                *)
Answering ==
    /\ answer.pc # "idle" => answer.request \in Index
    /\ answer.pc = "respond" => answers[answer.request] < MaxAnswers
    /\ answer.pc = "append" => answers[answer.request] > 0
    /\ answer.pc = "forget" => Responded(timeline, answer.request)

Steps == TypeOK /\ Emitted /\ AtEvent /\ Answering

(* The event n is in the buffer.                                           *)
InBuffer(buf, n) ==
    n \in Range(buf.message) \/ \E c \in Commands : n \in Range(buf.commands[c])

(* Every event taken is in the timeline, in the batch or in the buffer.    *)
Covered ==
    consumer.pc # "done" /\ faults.restart = 0 =>
        \A n \in 1..taken :
            Own(n) => \/ Holds(timeline, n)
                      \/ Holds(consumer.batch, n)
                      \/ InBuffer(deltas, n)

(* A request without its answer, in the timeline or on its way, is open.   *)
InputsOpen ==
    status = "running" =>
        \A n \in Index :
            (Asked(timeline, n) \/ Asked(consumer.batch, n)) /\ ~Responded(timeline, n)
                => n \in inputs

(* The answers of the timeline were delivered; none is in a batch.         *)
AnswersSent ==
    \A n \in Index : /\ ~Responded(consumer.batch, n)
                     /\ Responded(timeline, n) => answers[n] > 0

(* The approvals recorded are those of events taken and rows written.      *)
Recorded ==
    \A k \in DOMAIN approvals :
        approvals[k].request <= taken /\ approvals[k].after <= Len(timeline)

ProjectionInv ==
    /\ Steps
    /\ Covered
    /\ DeltasAreConserved
    /\ EndedRunsAreComplete
    /\ Recorded
    /\ ApprovalsFollowTheirContext
    /\ InputsOpen
    /\ AnswersSent

-----------------------------------------------------------------------------
(* The types.                                                              *)

EventType == [kind : EmitKinds, command : Commands \cup {None}]

DeltaType == [chunks : 0..BatchChunks, message : Seq(Index),
              commands : [Commands -> Seq(Index)]]

ConsumerType == [pc : {"recv", "append", "record", "terminal", "done"},
                 batch : Seq(Row), event : Index \cup {0}]

ApprovalType == [request : Index, after : Nat]

AnswerType == [pc : {"idle", "respond", "append", "forget"}, request : Index \cup {0}]

FaultType == [store : 0..MaxStoreFaults, restart : 0..MaxRestarts]

(* TypeOK in its parts, in a state and in the next one.                    *)
LEMMA TypesApart ==
    TypeOK <=> /\ sent \in Seq(EventType) /\ taken \in 0..Len(sent)
               /\ deltas \in DeltaType /\ consumer \in ConsumerType
               /\ timeline \in Seq(Row) /\ approvals \in Seq(ApprovalType)
               /\ status \in {"running", "completed", "disconnected", "outcome_unknown"}
               /\ inputs \subseteq Index /\ uncertain \in BOOLEAN
               /\ answer \in AnswerType /\ answers \in [Index -> 0..MaxAnswers]
               /\ faults \in FaultType
  BY DEF TypeOK, EventType, DeltaType, ConsumerType, ApprovalType, AnswerType, FaultType

LEMMA TypesApartNext ==
    TypeOK' <=> /\ sent' \in Seq(EventType) /\ taken' \in 0..Len(sent')
                /\ deltas' \in DeltaType /\ consumer' \in ConsumerType
                /\ timeline' \in Seq(Row) /\ approvals' \in Seq(ApprovalType)
                /\ status' \in {"running", "completed", "disconnected", "outcome_unknown"}
                /\ inputs' \subseteq Index /\ uncertain' \in BOOLEAN
                /\ answer' \in AnswerType /\ answers' \in [Index -> 0..MaxAnswers]
                /\ faults' \in FaultType
  BY DEF TypeOK, EventType, DeltaType, ConsumerType, ApprovalType, AnswerType, FaultType

LEMMA Bounds ==
    /\ MaxCommands \in Nat /\ MaxEvents \in Nat /\ MaxStoreFaults \in Nat
    /\ MaxRestarts \in Nat /\ MaxAnswers \in Nat /\ BatchChunks \in Nat \ {0}
    /\ Commands = 1..MaxCommands /\ Index = 1..MaxEvents /\ EmitKinds \subseteq Kinds
  BY ProjectionAssumption DEF Commands, Index

LEMMA NoDeltasType == NoDeltas \in DeltaType
  <1>1. [c \in Commands |-> <<>>] \in [Commands -> Seq(Index)]
    OBVIOUS
  <1>2. 0 \in 0..BatchChunks /\ <<>> \in Seq(Index)
    BY Bounds
  <1> DEFINE a == [c \in Commands |-> <<>>]
  <1> HIDE DEF a
  <1>3. a \in [Commands -> Seq(Index)]
    BY <1>1 DEF a
  <1>4. [chunks |-> 0, message |-> <<>>, commands |-> a] \in DeltaType
    BY <1>2, <1>3 DEF DeltaType
  <1> QED BY <1>4 DEF NoDeltas, a

LEMMA DeltaParts ==
    ASSUME NEW buf \in DeltaType
    PROVE  Buffer(buf) /\ buf.chunks \in 0..BatchChunks
  BY DEF DeltaType, Buffer

(* The consumer where it holds no batch.                                   *)
LEMMA RestingTypes ==
    /\ Receiving \in ConsumerType /\ Stopped \in ConsumerType
    /\ Receiving.pc = "recv" /\ Receiving.batch = <<>>
    /\ Stopped.pc = "done" /\ Stopped.batch = <<>>
  <1>1. Stopped = [pc |-> "done", batch |-> <<>>, event |-> 0]
    BY DEF Stopped, Receiving
  <1>2. Receiving = [pc |-> "recv", batch |-> <<>>, event |-> 0]
    BY DEF Receiving
  <1> QED BY <1>1, <1>2 DEF ConsumerType

LEMMA ConsumerParts ==
    ASSUME NEW c \in ConsumerType
    PROVE  /\ c.pc \in {"recv", "append", "record", "terminal", "done"}
           /\ c.batch \in Seq(Row) /\ c.event \in Index \cup {0}
  BY DEF ConsumerType

(* The event that the consumer takes.                                      *)
LEMMA TakenEvent ==
    ASSUME sent \in Seq(EventType), taken \in 0..Len(sent), Emitted, taken < Len(sent)
    PROVE  /\ taken + 1 \in DOMAIN sent /\ taken + 1 \in Index
           /\ sent[taken + 1] \in EventType
           /\ sent[taken + 1].kind \in Kinds
  <1>1. Len(sent) \in Nat /\ DOMAIN sent = 1..Len(sent)
    OBVIOUS
  <1>2. taken + 1 \in 1..Len(sent) /\ taken + 1 \in Index
    BY <1>1, Bounds DEF Emitted
  <1>3. sent[taken + 1] \in EventType
    BY <1>2, ElementOfSeq
  <1> QED BY <1>1, <1>2, <1>3, Bounds DEF EventType

(* The buffer with the event n in it.                                      *)
Pushed(n) == IF sent[n].kind = "message_delta" THEN PushMessage(deltas, n)
             ELSE PushCommand(deltas, sent[n].command, n)

LEMMA PushedParts ==
    ASSUME deltas \in DeltaType, NEW n \in DOMAIN sent, n \in Index, Emitted,
           sent[n].kind \in {"message_delta", "command_delta"}
    PROVE  /\ Buffer(Pushed(n)) /\ Pushed(n).chunks = deltas.chunks + 1
           /\ Pushed(n).chunks < BatchChunks => Pushed(n) \in DeltaType
           /\ Pushed(n).message = IF sent[n].kind = "message_delta"
                                  THEN Append(deltas.message, n) ELSE deltas.message
           /\ \A c \in Commands :
                Pushed(n).commands[c] = IF sent[n].kind = "command_delta" /\ sent[n].command = c
                                        THEN Append(deltas.commands[c], n)
                                        ELSE deltas.commands[c]
  <1>1. /\ deltas.chunks \in 0..BatchChunks /\ deltas.message \in Seq(Index)
        /\ deltas.commands \in [Commands -> Seq(Index)]
        /\ deltas = [chunks |-> deltas.chunks, message |-> deltas.message,
                     commands |-> deltas.commands]
    BY DEF DeltaType
  <1> DEFINE more == deltas.chunks + 1
             text == Append(deltas.message, n)
  <1>2. text \in Seq(Index) /\ (more < BatchChunks => more \in 0..BatchChunks)
    BY <1>1, Bounds
  <1>3. CASE sent[n].kind = "message_delta"
    <2>1. Pushed(n) = [chunks |-> more, message |-> text, commands |-> deltas.commands]
      BY <1>1, <1>3 DEF Pushed, PushMessage
    <2> HIDE DEF more, text
    <2>2. /\ Pushed(n).chunks = more /\ Pushed(n).message = text
          /\ Pushed(n).commands = deltas.commands
      BY <2>1
    <2>3. Buffer(Pushed(n))
      BY <1>1, <1>2, <2>2 DEF Buffer
    <2>4. more < BatchChunks => Pushed(n) \in DeltaType
      BY <1>1, <1>2, <2>1 DEF DeltaType
    <2> QED BY <1>3, <2>2, <2>3, <2>4 DEF more, text
  <1>4. CASE sent[n].kind = "command_delta"
    <2> DEFINE k == sent[n].command
               other == [deltas.commands EXCEPT ![k] = Append(@, n)]
    <2>1. Pushed(n) = [chunks |-> more, message |-> deltas.message, commands |-> other]
      BY <1>1, <1>4 DEF Pushed, PushCommand
    <2>2. k \in Commands
      BY <1>4 DEF Emitted, CommandKinds
    <2>3. Append(deltas.commands[k], n) \in Seq(Index)
      <3>1. deltas.commands[k] \in Seq(Index)
        BY <1>1, <2>2
      <3> QED BY <3>1
    <2>4. /\ other \in [Commands -> Seq(Index)]
          /\ \A c \in Commands : other[c] = IF k = c THEN Append(deltas.commands[c], n)
                                                     ELSE deltas.commands[c]
      BY <1>1, <2>2, <2>3
    <2> HIDE DEF more, text, other, k
    <2>5. /\ Pushed(n).chunks = more /\ Pushed(n).message = deltas.message
          /\ Pushed(n).commands = other
      BY <2>1
    <2>6. Buffer(Pushed(n))
      BY <1>1, <2>4, <2>5 DEF Buffer
    <2>7. more < BatchChunks => Pushed(n) \in DeltaType
      BY <1>1, <1>2, <2>1, <2>4 DEF DeltaType
    <2> QED BY <1>4, <2>4, <2>5, <2>6, <2>7 DEF more, k
  <1> QED BY <1>3, <1>4

(* The row of an event that is not a delta, an approval or the end.        *)
OwnRows == {"message_completed", "command_completed", "item", "user_input"}

LEMMA RowOfType ==
    ASSUME NEW n \in DOMAIN sent, n \in Index, Emitted, sent[n].kind \in OwnRows
    PROVE  RowOf(n) \in Row /\ RowOf(n).kind = sent[n].kind /\ RowOf(n).body = <<n>>
  <1>1. KeyOf(n) \in RowKey
    <2>1. CASE sent[n].kind = "command_completed"
      <3>1. sent[n].command \in Commands
        BY <2>1 DEF Emitted, CommandKinds
      <3> QED BY <2>1, <3>1 DEF KeyOf, RowKey
    <2>2. CASE sent[n].kind = "user_input"
      BY <2>2 DEF KeyOf, RowKey
    <2>3. CASE sent[n].kind \notin {"command_completed", "user_input"}
      BY <2>3 DEF KeyOf, RowKey
    <2> QED BY <2>1, <2>2, <2>3
  <1>2. <<n>> \in Seq(Index) /\ sent[n].kind \in RowKinds
    BY DEF OwnRows, RowKinds
  <1> QED BY <1>1, <1>2 DEF RowOf, Row, RowKey

LEMMA WritingType ==
    ASSUME taken + 1 \in Index, NEW batch \in Seq(Row), NEW pc \in {"append", "record", "terminal"}
    PROVE  /\ Writing(pc, batch) \in ConsumerType
           /\ Writing(pc, batch).pc = pc /\ Writing(pc, batch).batch = batch
           /\ Writing(pc, batch).event = taken + 1
  BY DEF Writing, ConsumerType

(* What follows a batch is the rest of an approval or of the end.          *)
LEMMA AfterType ==
    ASSUME consumer \in ConsumerType
    PROVE  /\ AfterAppend \in ConsumerType /\ AfterAppend.batch = <<>>
           /\ AfterAppend.pc \in {"recv", "record", "terminal"}
           /\ AfterAppend.pc # "recv" => AfterAppend.event = consumer.event
           /\ AfterAppend.pc = "record" => sent[consumer.event].kind = "approval"
           /\ AfterAppend.pc = "terminal" => sent[consumer.event].kind = "terminal"
  <1>1. /\ consumer = [pc |-> consumer.pc, batch |-> consumer.batch, event |-> consumer.event]
        /\ consumer.event \in Index \cup {0}
    BY DEF ConsumerType
  <1> DEFINE kind == sent[consumer.event].kind
  <1>2. CASE kind = "approval"
    <2>1. AfterAppend = [pc |-> "record", batch |-> <<>>, event |-> consumer.event]
      BY <1>1, <1>2 DEF AfterAppend
    <2> QED BY <1>1, <1>2, <2>1 DEF ConsumerType
  <1>3. CASE kind = "terminal"
    <2>1. AfterAppend = [pc |-> "terminal", batch |-> <<>>, event |-> consumer.event]
      BY <1>1, <1>3 DEF AfterAppend
    <2> QED BY <1>1, <1>3, <2>1 DEF ConsumerType
  <1>4. CASE kind \notin {"approval", "terminal"}
    <2>1. AfterAppend = Receiving
      BY <1>4 DEF AfterAppend
    <2> QED BY <2>1, RestingTypes
  <1> QED BY <1>2, <1>3, <1>4

(* A failure of the store is counted, a restart is not.                    *)
LEMMA FaultCounted ==
    ASSUME faults \in FaultType, StoreFault
    PROVE  faults' \in FaultType /\ faults'.restart = faults.restart
  <1>1. /\ faults = [store |-> faults.store, restart |-> faults.restart]
        /\ faults.store \in 0..MaxStoreFaults /\ faults.restart \in 0..MaxRestarts
    BY DEF FaultType
  <1>2. faults' = [store |-> faults.store + 1, restart |-> faults.restart]
    BY <1>1 DEF StoreFault
  <1>3. faults.store + 1 \in 0..MaxStoreFaults
    BY <1>1, Bounds DEF StoreFault
  <1> QED BY <1>1, <1>2, <1>3 DEF FaultType

LEMMA RestartCounted ==
    ASSUME faults \in FaultType, Restart
    PROVE  faults' \in FaultType /\ faults'.restart # 0
  <1>1. /\ faults = [store |-> faults.store, restart |-> faults.restart]
        /\ faults.store \in 0..MaxStoreFaults /\ faults.restart \in 0..MaxRestarts
    BY DEF FaultType
  <1>2. faults' = [store |-> faults.store, restart |-> faults.restart + 1]
    BY <1>1 DEF Restart
  <1>3. faults.restart + 1 \in 0..MaxRestarts /\ faults.restart + 1 # 0
    BY <1>1, Bounds DEF Restart
  <1> QED BY <1>1, <1>2, <1>3 DEF FaultType

(* The event a consumer takes that is no delta: its own row, or none.      *)
LEMMA Authoritative ==
    ASSUME Steps, TakeAuthoritative
    PROVE  /\ taken + 1 \in DOMAIN sent /\ taken + 1 \in Index
           /\ TakeItems(deltas) \in Seq(Row) /\ OfDeltas(TakeItems(deltas))
           /\ \/ /\ sent[taken + 1].kind \in OwnRows /\ RowOf(taken + 1) \in Row
                 /\ consumer' = Writing("append", Append(TakeItems(deltas), RowOf(taken + 1)))
              \/ /\ sent[taken + 1].kind \in {"approval", "terminal"}
                 /\ \E pc \in {"append", "record", "terminal"} :
                      /\ consumer' = Writing(pc, TakeItems(deltas))
                      /\ pc # "append" => TakeItems(deltas) = <<>>
                      /\ pc = "record" => sent[taken + 1].kind = "approval"
                      /\ pc = "terminal" => sent[taken + 1].kind = "terminal"
           /\ consumer' \in ConsumerType /\ consumer'.event = taken + 1
  <1>1. sent \in Seq(EventType) /\ taken \in 0..Len(sent) /\ Emitted /\ taken < Len(sent)
        /\ deltas \in DeltaType
    BY TypesApart DEF Steps, TakeAuthoritative
  <1>2. taken + 1 \in DOMAIN sent /\ taken + 1 \in Index /\ sent[taken + 1].kind \in Kinds
    BY <1>1, TakenEvent
  <1>3. TakeItems(deltas) \in Seq(Row) /\ OfDeltas(TakeItems(deltas))
    BY <1>1, DeltaParts, Items
  <1>4. sent[taken + 1].kind \in OwnRows \cup {"approval", "terminal"}
    BY <1>2 DEF TakeAuthoritative, NextKind, Kinds, CommandKinds, OwnRows
  <1>5. CASE sent[taken + 1].kind \in OwnRows
    <2>1. consumer' = Writing("append", Append(TakeItems(deltas), RowOf(taken + 1)))
      BY <1>5 DEF TakeAuthoritative, NextKind, OwnRows
    <2>2. RowOf(taken + 1) \in Row
      BY <1>1, <1>2, <1>5, RowOfType
    <2>3. Append(TakeItems(deltas), RowOf(taken + 1)) \in Seq(Row)
      BY <1>3, <2>2
    <2>4. consumer' \in ConsumerType /\ consumer'.event = taken + 1
      BY <1>2, <2>1, <2>3, WritingType
    <2> QED BY <1>2, <1>3, <1>5, <2>1, <2>2, <2>4
  <1>6. CASE sent[taken + 1].kind \in {"approval", "terminal"}
    <2> DEFINE last == IF sent[taken + 1].kind = "approval" THEN "record" ELSE "terminal"
               pc == IF TakeItems(deltas) = <<>> THEN last ELSE "append"
    <2>1. consumer' = Writing(pc, TakeItems(deltas))
      BY <1>6 DEF TakeAuthoritative, NextKind
    <2>2. /\ pc \in {"append", "record", "terminal"}
          /\ pc # "append" => TakeItems(deltas) = <<>>
          /\ pc = "record" => sent[taken + 1].kind = "approval"
          /\ pc = "terminal" => sent[taken + 1].kind = "terminal"
      BY <1>6
    <2> HIDE DEF pc
    <2>3. consumer' \in ConsumerType /\ consumer'.event = taken + 1
      BY <1>2, <1>3, <2>1, <2>2, WritingType
    <2> QED BY <1>2, <1>3, <1>6, <2>1, <2>2, <2>3
  <1> QED BY <1>4, <1>5, <1>6

(* A delta is collected, or the full buffer is written out.                *)
LEMMA Delta ==
    ASSUME Steps, TakeDelta
    PROVE  /\ taken + 1 \in DOMAIN sent /\ taken + 1 \in Index
           /\ sent[taken + 1].kind \in {"message_delta", "command_delta"}
           /\ Buffer(Pushed(taken + 1))
           /\ TakeItems(Pushed(taken + 1)) \in Seq(Row)
           /\ \/ /\ deltas' = NoDeltas
                 /\ consumer' = Writing("append", TakeItems(Pushed(taken + 1)))
                 /\ consumer' \in ConsumerType /\ consumer'.pc = "append"
                 /\ consumer'.batch = TakeItems(Pushed(taken + 1))
                 /\ consumer'.event = taken + 1
              \/ /\ deltas' = Pushed(taken + 1) /\ deltas' \in DeltaType
                 /\ UNCHANGED consumer
  <1> DEFINE n == taken + 1
  <1>1. sent \in Seq(EventType) /\ taken \in 0..Len(sent) /\ Emitted /\ taken < Len(sent)
        /\ deltas \in DeltaType
    BY TypesApart DEF Steps, TakeDelta
  <1>2. n \in DOMAIN sent /\ n \in Index
    BY <1>1, TakenEvent
  <1>3. sent[n].kind \in {"message_delta", "command_delta"}
    BY DEF TakeDelta, NextKind
  <1>4. IF Pushed(n).chunks >= BatchChunks
        THEN deltas' = NoDeltas /\ consumer' = Writing("append", TakeItems(Pushed(n)))
        ELSE deltas' = Pushed(n) /\ UNCHANGED consumer
    BY DEF TakeDelta, NextKind, Pushed
  <1> HIDE DEF n
  <1>5. /\ Buffer(Pushed(n)) /\ Pushed(n).chunks = deltas.chunks + 1
        /\ Pushed(n).chunks < BatchChunks => Pushed(n) \in DeltaType
    BY <1>1, <1>2, <1>3, PushedParts
  <1>6. TakeItems(Pushed(n)) \in Seq(Row)
    BY <1>5, Items
  <1>7. CASE Pushed(n).chunks >= BatchChunks
    <2>1. taken + 1 \in Index
      BY <1>2 DEF n
    <2> QED BY <1>2, <1>3, <1>4, <1>5, <1>6, <1>7, <2>1, WritingType DEF n
  <1>8. CASE ~ (Pushed(n).chunks >= BatchChunks)
    <2>1. Pushed(n).chunks < BatchChunks
      BY <1>1, <1>5, <1>8, DeltaParts, Bounds
    <2> QED BY <1>2, <1>3, <1>4, <1>5, <1>6, <1>8, <2>1 DEF n
  <1> QED BY <1>7, <1>8

(* A step keeps the types: one case for each action.                       *)
LEMMA TypeStep ==
    ASSUME Steps, Next
    PROVE  TypeOK'
  <1>1. /\ sent \in Seq(EventType) /\ taken \in 0..Len(sent)
        /\ deltas \in DeltaType /\ consumer \in ConsumerType
        /\ timeline \in Seq(Row) /\ approvals \in Seq(ApprovalType)
        /\ status \in {"running", "completed", "disconnected", "outcome_unknown"}
        /\ inputs \subseteq Index /\ uncertain \in BOOLEAN
        /\ answer \in AnswerType /\ answers \in [Index -> 0..MaxAnswers]
        /\ faults \in FaultType /\ Emitted
    BY TypesApart DEF Steps
  <1>2. Len(sent) \in Nat /\ DOMAIN sent = 1..Len(sent) /\ {} \subseteq Index /\ FALSE \in BOOLEAN
        /\ TRUE \in BOOLEAN
    BY <1>1
  <1>3. NoDeltas \in DeltaType /\ Receiving \in ConsumerType /\ Stopped \in ConsumerType
    BY NoDeltasType, RestingTypes
  <1>4. NoAnswer \in AnswerType
    BY DEF NoAnswer, AnswerType
  <1>5. answer.request \in Index \cup {0} /\ \A pc \in {"idle", "respond", "append", "forget"} :
            [answer EXCEPT !.pc = pc] \in AnswerType
    BY <1>1 DEF AnswerType
  <1>6. PendingInputs \subseteq Index
    BY DEF PendingInputs
  <1>7. CASE \E kind \in EmitKinds, c \in Commands \cup {None} : Emit(kind, c)
    <2>1. PICK kind \in EmitKinds, c \in Commands \cup {None} : Emit(kind, c)
      BY <1>7
    <2> DEFINE event == [kind |-> kind, command |-> c]
    <2>2. sent' = Append(sent, event)
      BY <2>1 DEF Emit
    <2>3. event \in EventType
      BY DEF EventType
    <2> HIDE DEF event
    <2>4. sent' \in Seq(EventType) /\ Len(sent') = Len(sent) + 1
      BY <1>1, <2>2, <2>3
    <2>5. taken' \in 0..Len(sent')
      BY <1>1, <1>2, <2>1, <2>4 DEF Emit, consumerVars
    <2> QED BY <1>1, <2>1, <2>4, <2>5, TypesApartNext DEF Emit, consumerVars, requestVars
  <1>8. CASE TakeDelta
    <2>1. taken + 1 \in DOMAIN sent /\ deltas' \in DeltaType /\ consumer' \in ConsumerType
      BY <1>1, <1>3, <1>8, Delta
    <2>2. taken' = taken + 1 /\ sent' = sent
      BY <1>8 DEF TakeDelta
    <2>3. taken' \in 0..Len(sent')
      BY <1>1, <1>2, <2>1, <2>2
    <2> QED BY <1>1, <1>8, <2>1, <2>3, TypesApartNext DEF TakeDelta, requestVars
  <1>9. CASE TakeAuthoritative
    <2>1. taken + 1 \in DOMAIN sent /\ taken + 1 \in Index /\ consumer' \in ConsumerType
      BY <1>9, Authoritative
    <2>2. taken' = taken + 1 /\ sent' = sent /\ deltas' = NoDeltas
          /\ inputs' \subseteq inputs \cup {taken + 1}
      BY <1>9 DEF TakeAuthoritative
    <2>3. taken' \in 0..Len(sent') /\ inputs' \subseteq Index
      BY <1>1, <1>2, <2>1, <2>2
    <2> QED BY <1>1, <1>3, <1>9, <2>1, <2>2, <2>3, TypesApartNext DEF TakeAuthoritative
  <1>10. CASE AppendBatch
    <2>1. AfterAppend \in ConsumerType /\ consumer.batch \in Seq(Row)
      BY <1>1, AfterType, ConsumerParts
    <2>2. timeline \o consumer.batch \in Seq(Row)
      BY <1>1, <2>1, ConcatProperties
    <2>3. StoreFault => faults' \in FaultType
      BY <1>1, FaultCounted
    <2>4. CASE timeline' = timeline \o consumer.batch /\ consumer' = AfterAppend
               /\ UNCHANGED <<status, inputs, uncertain, deltas, faults>>
      BY <1>1, <1>10, <2>1, <2>2, <2>4, TypesApartNext DEF AppendBatch
    <2>5. CASE (UNCHANGED faults \/ StoreFault) /\ ConsumerFails /\ UNCHANGED timeline
      BY <1>1, <1>2, <1>3, <1>10, <2>3, <2>5, TypesApartNext DEF AppendBatch, ConsumerFails, ConsumerStops
    <2> QED BY <1>10, <2>4, <2>5 DEF AppendBatch
  <1>11. CASE RecordApproval
    <2>1. Len(timeline) \in Nat /\ consumer.event \in Index \cup {0}
      BY <1>1, ConsumerParts
    <2>2. consumer.event \in Index
      <3>1. consumer.event = taken /\ taken \in DOMAIN sent
        BY <1>11 DEF RecordApproval, Steps, AtEvent
      <3> QED BY <2>1, <3>1, <1>2
    <2> DEFINE approval == [request |-> consumer.event, after |-> Len(timeline)]
    <2>3. approval \in ApprovalType
      BY <2>1, <2>2 DEF ApprovalType
    <2>4. StoreFault => faults' \in FaultType
      BY <1>1, FaultCounted
    <2>5. CASE approvals' = Append(approvals, approval) /\ consumer' = Receiving
               /\ UNCHANGED <<status, inputs, uncertain, deltas, faults>>
      <3> HIDE DEF approval
      <3>1. approvals' \in Seq(ApprovalType)
        BY <1>1, <2>3, <2>5
      <3> QED BY <1>1, <1>3, <1>11, <2>5, <3>1, TypesApartNext DEF RecordApproval
    <2>6. CASE (UNCHANGED faults \/ StoreFault) /\ ConsumerFails /\ UNCHANGED approvals
      BY <1>1, <1>2, <1>3, <1>11, <2>4, <2>6, TypesApartNext
      DEF RecordApproval, ConsumerFails, ConsumerStops
    <2> QED BY <1>11, <2>5, <2>6 DEF RecordApproval
  <1>12. CASE ApplyTerminal
    <2>1. StoreFault => faults' \in FaultType
      BY <1>1, FaultCounted
    <2>2. (UNCHANGED faults \/ StoreFault) /\ ConsumerStops /\ status' \in {"completed", "outcome_unknown"}
      BY <1>12 DEF ApplyTerminal, ConsumerFails
    <2> QED BY <1>1, <1>2, <1>3, <1>12, <2>1, <2>2, TypesApartNext DEF ApplyTerminal, ConsumerStops
  <1>13. CASE \E n \in Index : AnswerInput(n)
    <2>1. PICK n \in Index : AnswerInput(n)
      BY <1>13
    <2>2. answer' \in AnswerType
      BY <2>1 DEF AnswerInput, AnswerType
    <2> QED BY <1>1, <2>1, <2>2, TypesApartNext DEF AnswerInput, consumerVars
  <1>14. CASE RespondInput
    <2> DEFINE got == [answers EXCEPT ![answer.request] = @ + 1]
    <2>1. answer.request \in Index /\ answers[answer.request] < MaxAnswers
      BY <1>14 DEF RespondInput, Steps, Answering
    <2>2. got \in [Index -> 0..MaxAnswers]
      <3>1. answers[answer.request] + 1 \in 0..MaxAnswers
        BY <1>1, <2>1, Bounds
      <3> QED BY <1>1, <3>1
    <2>3. /\ answers' \in {got, answers} /\ answer' \in AnswerType
          /\ status' \in {"running", "completed", "disconnected", "outcome_unknown"}
          /\ uncertain' \in BOOLEAN
      <3> HIDE DEF got
      <3>1. answers' \in {got, answers}
        BY <1>14 DEF RespondInput, got
      <3>2. answer' \in {[answer EXCEPT !.pc = "append"], NoAnswer}
        BY <1>14 DEF RespondInput
      <3>3. status' \in {status, "outcome_unknown"} /\ uncertain' \in {uncertain, TRUE}
        BY <1>14 DEF RespondInput
      <3> QED BY <1>1, <1>2, <1>4, <1>5, <3>1, <3>2, <3>3
    <2> HIDE DEF got
    <2> QED BY <1>1, <1>14, <2>2, <2>3, TypesApartNext DEF RespondInput, consumerVars
  <1>15. CASE ClearDoubt
    BY <1>1, <1>2, <1>15, TypesApartNext DEF ClearDoubt, consumerVars
  <1>16. CASE RecordResponse
    <2> DEFINE row == [kind |-> "user_input_responded", body |-> <<answer.request>>, key |-> None]
    <2>1. answer.request \in Index
      BY <1>16 DEF RecordResponse, Steps, Answering
    <2>2. row \in Row
      BY <2>1 DEF Row, RowKinds
    <2>3. timeline' \in {Append(timeline, row), timeline}
          /\ answer' \in {[answer EXCEPT !.pc = "forget"], NoAnswer}
          /\ (UNCHANGED faults \/ StoreFault)
      BY <1>16 DEF RecordResponse
    <2> HIDE DEF row
    <2>4. timeline' \in Seq(Row) /\ answer' \in AnswerType /\ faults' \in FaultType
      <3>1. Append(timeline, row) \in Seq(Row)
        BY <1>1, <2>2
      <3> QED BY <1>1, <1>4, <1>5, <2>3, <3>1, FaultCounted
    <2> QED BY <1>1, <1>16, <2>4, TypesApartNext DEF RecordResponse, consumerVars
  <1>17. CASE ForgetInput
    <2>1. inputs' \subseteq Index
      BY <1>1, <1>17 DEF ForgetInput
    <2> QED BY <1>1, <1>4, <1>17, <2>1, TypesApartNext DEF ForgetInput, consumerVars
  <1>18. CASE Restart
    <2>1. faults' \in FaultType
      BY <1>1, <1>18, RestartCounted
    <2>2. taken' \in 0..Len(sent')
      BY <1>2, <1>18 DEF Restart
    <2> QED BY <1>1, <1>2, <1>3, <1>4, <1>6, <1>18, <2>1, <2>2, TypesApartNext DEF Restart
  <1> QED BY <1>7, <1>8, <1>9, <1>10, <1>11, <1>12, <1>13, <1>14, <1>15, <1>16, <1>17, <1>18
          DEF Next

-----------------------------------------------------------------------------
(* What a step keeps: events and rows are only added.                      *)

Keeps(old, new) ==
    /\ Len(old) <= Len(new)
    /\ \A i \in DOMAIN old : i \in DOMAIN new /\ new[i] = old[i]

LEMMA KeepsMore ==
    ASSUME NEW S, NEW old \in Seq(S), NEW more \in Seq(S), NEW x \in S
    PROVE  Keeps(old, old) /\ Keeps(old, old \o more) /\ Keeps(old, Append(old, x))
  <1>1. Len(old) \in Nat /\ Len(more) \in Nat /\ DOMAIN old = 1..Len(old)
    OBVIOUS
  <1>2. Keeps(old, old)
    BY <1>1 DEF Keeps
  <1>3. Keeps(old, old \o more)
    <2>1. Len(old \o more) = Len(old) + Len(more) /\ DOMAIN (old \o more) = 1..(Len(old) + Len(more))
          /\ \A i \in 1..Len(old) : (old \o more)[i] = old[i]
      OBVIOUS
    <2> QED BY <1>1, <2>1 DEF Keeps
  <1>4. Keeps(old, Append(old, x))
    <2>1. Len(Append(old, x)) = Len(old) + 1 /\ DOMAIN Append(old, x) = 1..(Len(old) + 1)
          /\ \A i \in 1..Len(old) : Append(old, x)[i] = old[i]
      OBVIOUS
    <2> QED BY <1>1, <2>1 DEF Keeps
  <1> QED BY <1>2, <1>3, <1>4

(* The row of an answer.                                                   *)
ResponseRow(n) == [kind |-> "user_input_responded", body |-> <<n>>, key |-> None]

LEMMA ResponseType ==
    ASSUME NEW n \in Index
    PROVE  /\ ResponseRow(n) \in Row
           /\ ResponseRow(n).kind = "user_input_responded" /\ ResponseRow(n).body = <<n>>
  BY DEF ResponseRow, Row, RowKinds

(* How the timeline and the events change.                                 *)
LEMMA Moves ==
    ASSUME Steps, Next
    PROVE  Keeps(sent, sent') /\ Keeps(timeline, timeline')
  <1>1. sent \in Seq(EventType) /\ timeline \in Seq(Row) /\ consumer \in ConsumerType
    BY TypesApart DEF Steps
  <1>2. Keeps(timeline, timeline')
    <2>1. CASE timeline' = timeline
      BY <1>1, <2>1, KeepsMore DEF Keeps
    <2>2. CASE AppendBatch /\ timeline' = timeline \o consumer.batch
      <3>1. consumer.batch \in Seq(Row)
        BY <1>1, ConsumerParts
      <3>2. \A r \in Row : Keeps(timeline, timeline \o consumer.batch)
        BY <1>1, <3>1, KeepsMore
      <3>3. CASE consumer.batch = <<>>
        <4>1. timeline \o consumer.batch = timeline
          BY <1>1, <3>3, ConcatEmptySeq
        <4> QED BY <1>1, <2>2, <4>1 DEF Keeps
      <3>4. CASE consumer.batch # <<>>
        <4>1. consumer.batch[1] \in Row
          BY <3>1, <3>4
        <4> QED BY <2>2, <3>2, <4>1
      <3> QED BY <3>3, <3>4
    <2>3. CASE RecordResponse /\ timeline' = Append(timeline, ResponseRow(answer.request))
      <3>1. answer.request \in Index
        BY <2>3 DEF RecordResponse, Steps, Answering
      <3>2. ResponseRow(answer.request) \in Row
        BY <3>1, ResponseType
      <3>3. Keeps(timeline, Append(timeline, ResponseRow(answer.request)))
        BY <1>1, <3>2, KeepsMore
      <3> QED BY <2>3, <3>3
    <2> QED BY <2>1, <2>2, <2>3
            DEF Next, Emit, TakeDelta, TakeAuthoritative, AppendBatch, RecordApproval,
                ApplyTerminal, AnswerInput, RespondInput, ClearDoubt, RecordResponse,
                ForgetInput, Restart, ResponseRow
  <1>3. Keeps(sent, sent')
    <2>1. CASE sent' = sent
      BY <1>1, <2>1, KeepsMore DEF Keeps
    <2>2. CASE \E kind \in EmitKinds, c \in Commands \cup {None} : Emit(kind, c)
      <3>1. PICK kind \in EmitKinds, c \in Commands \cup {None} : Emit(kind, c)
        BY <2>2
      <3>2. [kind |-> kind, command |-> c] \in EventType
        BY DEF EventType
      <3>3. sent' = Append(sent, [kind |-> kind, command |-> c])
        BY <3>1 DEF Emit
      <3> QED BY <1>1, <3>2, <3>3, KeepsMore
    <2> QED BY <2>1, <2>2
            DEF Next, TakeDelta, TakeAuthoritative, AppendBatch, RecordApproval,
                ApplyTerminal, AnswerInput, RespondInput, ClearDoubt, RecordResponse,
                ForgetInput, Restart
  <1> QED BY <1>2, <1>3

(* The events stay what a provider emits.                                  *)
LEMMA EmittedStep ==
    ASSUME Steps, Next
    PROVE  Emitted'
  <1>1. sent \in Seq(EventType) /\ Emitted
    BY TypesApart DEF Steps
  <1>2. CASE \E kind \in EmitKinds, c \in Commands \cup {None} : Emit(kind, c)
    <2>1. PICK kind \in EmitKinds, c \in Commands \cup {None} : Emit(kind, c)
      BY <1>2
    <2> DEFINE event == [kind |-> kind, command |-> c]
    <2>2. /\ sent' = Append(sent, event) /\ Len(sent) < MaxEvents
          /\ \A n \in DOMAIN sent : sent[n].kind # "terminal"
          /\ kind \in CommandKinds => c \in Commands
          /\ kind \notin CommandKinds => c = None
      BY <2>1 DEF Emit
    <2>3. event \in EventType /\ event.kind = kind /\ event.command = c
      BY DEF EventType
    <2> HIDE DEF event
    <2>4. /\ Len(sent) \in Nat /\ DOMAIN sent = 1..Len(sent)
          /\ Len(sent') = Len(sent) + 1 /\ DOMAIN sent' = 1..(Len(sent) + 1)
          /\ \A n \in 1..Len(sent) : sent'[n] = sent[n]
          /\ sent'[Len(sent) + 1] = event
      BY <1>1, <2>2, <2>3
    <2>5. Len(sent') <= MaxEvents
      BY <2>2, <2>4, Bounds
    <2>6. ASSUME NEW n \in DOMAIN sent'
          PROVE  /\ sent'[n].kind \in CommandKinds => sent'[n].command \in Commands
                 /\ sent'[n].kind \notin CommandKinds => sent'[n].command = None
                 /\ sent'[n].kind = "terminal" => n = Len(sent')
      <3>1. CASE n \in DOMAIN sent
        BY <1>1, <2>2, <2>4, <3>1 DEF Emitted
      <3>2. CASE n \notin DOMAIN sent
        <4>1. n = Len(sent) + 1
          BY <2>4, <3>2
        <4> QED BY <2>2, <2>3, <2>4, <4>1
      <3> QED BY <3>1, <3>2
    <2> QED BY <2>5, <2>6 DEF Emitted
  <1>3. CASE sent' = sent
    BY <1>1, <1>3 DEF Emitted
  <1> QED BY <1>2, <1>3
          DEF Next, TakeDelta, TakeAuthoritative, AppendBatch, RecordApproval,
              ApplyTerminal, AnswerInput, RespondInput, ClearDoubt, RecordResponse,
              ForgetInput, Restart

(* The consumer is where it was, and the events are as they were.          *)
LEMMA AtEventSame ==
    ASSUME AtEvent, UNCHANGED <<taken, deltas, consumer>>, Keeps(sent, sent'),
           status' \in {status, "outcome_unknown"}
    PROVE  AtEvent'
  BY DEF AtEvent, Keeps

LEMMA AtEventStep ==
    ASSUME Steps, Next
    PROVE  AtEvent'
  <1>1. /\ sent \in Seq(EventType) /\ taken \in 0..Len(sent)
        /\ deltas \in DeltaType /\ consumer \in ConsumerType /\ AtEvent /\ Emitted
    BY TypesApart DEF Steps
  <1>2. Keeps(sent, sent')
    BY Moves
  <1>3. CASE TakeDelta
    <2>1. /\ taken' = taken + 1 /\ UNCHANGED <<sent, status>> /\ consumer.pc = "recv"
      BY <1>3 DEF TakeDelta
    <2>2. taken + 1 \in DOMAIN sent
      BY <1>3, Delta
    <2>3. status # "completed"
      BY <1>1, <2>1 DEF AtEvent
    <2>4. CASE deltas' = NoDeltas /\ consumer'.pc = "append" /\ consumer'.event = taken + 1
      BY <2>1, <2>2, <2>3, <2>4 DEF AtEvent
    <2>5. CASE UNCHANGED consumer
      BY <1>1, <2>1, <2>2, <2>3, <2>5 DEF AtEvent
    <2> QED BY <1>3, <2>4, <2>5, Delta
  <1>4. CASE TakeAuthoritative
    <2>1. /\ taken' = taken + 1 /\ UNCHANGED <<sent, status>> /\ consumer.pc = "recv"
          /\ deltas' = NoDeltas
      BY <1>4 DEF TakeAuthoritative
    <2>2. taken + 1 \in DOMAIN sent /\ consumer'.event = taken + 1 /\ taken + 1 \in Index
          /\ TakeItems(deltas) \in Seq(Row)
      BY <1>4, Authoritative
    <2>3. status # "completed"
      BY <1>1, <2>1 DEF AtEvent
    <2>4. CASE RowOf(taken + 1) \in Row
               /\ consumer' = Writing("append", Append(TakeItems(deltas), RowOf(taken + 1)))
      <3>1. Append(TakeItems(deltas), RowOf(taken + 1)) \in Seq(Row)
        BY <2>2, <2>4
      <3>2. consumer'.pc = "append"
        BY <2>2, <2>4, <3>1, WritingType
      <3> QED BY <2>1, <2>2, <2>3, <3>2 DEF AtEvent
    <2>5. CASE \E pc \in {"append", "record", "terminal"} :
                  /\ consumer' = Writing(pc, TakeItems(deltas))
                  /\ pc # "append" => TakeItems(deltas) = <<>>
                  /\ pc = "record" => sent[taken + 1].kind = "approval"
                  /\ pc = "terminal" => sent[taken + 1].kind = "terminal"
      <3>1. PICK pc \in {"append", "record", "terminal"} :
                  /\ consumer' = Writing(pc, TakeItems(deltas))
                  /\ pc # "append" => TakeItems(deltas) = <<>>
                  /\ pc = "record" => sent[taken + 1].kind = "approval"
                  /\ pc = "terminal" => sent[taken + 1].kind = "terminal"
        BY <2>5
      <3>2. consumer'.pc = pc /\ consumer'.batch = TakeItems(deltas)
        BY <2>2, <3>1, WritingType
      <3> QED BY <2>1, <2>2, <2>3, <3>1, <3>2 DEF AtEvent
    <2> QED BY <1>4, <2>4, <2>5, Authoritative
  <1>5. ASSUME ConsumerStops, UNCHANGED <<sent, taken>>,
               status' = "completed" => \E n \in DOMAIN sent : sent[n].kind = "terminal"
        PROVE  AtEvent'
    <2>1. consumer'.pc = "done" /\ consumer'.batch = <<>> /\ deltas' = NoDeltas
      BY <1>5, RestingTypes DEF ConsumerStops
    <2> QED BY <1>5, <2>1 DEF AtEvent
  <1>6. ASSUME ConsumerFails, UNCHANGED <<sent, taken>> PROVE AtEvent'
    BY <1>5, <1>6 DEF ConsumerFails
  <1>7. CASE AppendBatch
    <2>1. CASE consumer' = AfterAppend /\ UNCHANGED <<status, deltas>>
      <3>1. /\ AfterAppend.batch = <<>> /\ AfterAppend.pc \in {"recv", "record", "terminal"}
            /\ AfterAppend.pc # "recv" => AfterAppend.event = consumer.event
            /\ AfterAppend.pc = "record" => sent[consumer.event].kind = "approval"
            /\ AfterAppend.pc = "terminal" => sent[consumer.event].kind = "terminal"
        BY <1>1, AfterType
      <3>2. consumer.event = taken /\ taken \in DOMAIN sent /\ deltas = NoDeltas
            /\ status # "completed"
        BY <1>1, <1>7 DEF AppendBatch, AtEvent
      <3>3. UNCHANGED <<sent, taken>>
        BY <1>7 DEF AppendBatch
      <3> QED BY <2>1, <3>1, <3>2, <3>3 DEF AtEvent
    <2>2. CASE ConsumerFails
      BY <1>6, <1>7, <2>2 DEF AppendBatch
    <2> QED BY <1>7, <2>1, <2>2 DEF AppendBatch
  <1>8. CASE RecordApproval
    <2>1. CASE consumer' = Receiving /\ UNCHANGED <<status, deltas>>
      <3>1. consumer'.pc = "recv" /\ consumer'.batch = <<>>
        BY <2>1, RestingTypes
      <3>2. status # "completed"
        BY <1>1, <1>8 DEF RecordApproval, AtEvent
      <3> QED BY <2>1, <3>1, <3>2 DEF AtEvent
    <2>2. CASE ConsumerFails
      BY <1>6, <1>8, <2>2 DEF RecordApproval
    <2> QED BY <1>8, <2>1, <2>2 DEF RecordApproval
  <1>9. CASE ApplyTerminal
    <2>1. ConsumerStops /\ UNCHANGED <<sent, taken>>
      BY <1>9 DEF ApplyTerminal, ConsumerFails
    <2>2. taken \in DOMAIN sent /\ sent[taken].kind = "terminal"
      BY <1>1, <1>9 DEF ApplyTerminal, AtEvent
    <2> QED BY <1>5, <2>1, <2>2
  <1>10. CASE Restart
    <2>1. /\ consumer'.pc \in {"recv", "done"} /\ consumer'.batch = <<>> /\ deltas' = NoDeltas
          /\ status' # "completed"
      BY <1>10, RestingTypes DEF Restart
    <2> QED BY <2>1 DEF AtEvent
  <1>11. CASE \/ \E kind \in EmitKinds, c \in Commands \cup {None} : Emit(kind, c)
              \/ \E n \in Index : AnswerInput(n)
              \/ RespondInput \/ ClearDoubt \/ RecordResponse \/ ForgetInput
    <2>1. UNCHANGED <<taken, deltas, consumer>> /\ status' \in {status, "outcome_unknown"}
      BY <1>11 DEF Emit, AnswerInput, RespondInput, ClearDoubt, RecordResponse, ForgetInput,
                   consumerVars
    <2> QED BY <1>1, <1>2, <2>1, AtEventSame
  <1> QED BY <1>3, <1>4, <1>7, <1>8, <1>9, <1>10, <1>11 DEF Next

(* An answer that is recorded stays so.                                    *)
LEMMA RespondedStays ==
    ASSUME NEW old, NEW new, Keeps(old, new), NEW n, Responded(old, n)
    PROVE  Responded(new, n)
  BY DEF Keeps, Responded

LEMMA AnsweringStep ==
    ASSUME Steps, Next
    PROVE  Answering'
  <1>1. /\ timeline \in Seq(Row) /\ answer \in AnswerType /\ answers \in [Index -> 0..MaxAnswers]
        /\ Answering
    BY TypesApart DEF Steps
  <1>2. Keeps(timeline, timeline')
    BY Moves
  <1>3. \A n : Responded(timeline, n) => Responded(timeline', n)
    BY <1>2, RespondedStays
  <1>4. ASSUME answer' = NoAnswer PROVE Answering'
    BY <1>4 DEF NoAnswer, Answering
  <1>5. ASSUME UNCHANGED <<answer, answers>> PROVE Answering'
    BY <1>1, <1>3, <1>5 DEF Answering
  <1>6. CASE \E n \in Index : AnswerInput(n)
    <2>1. PICK n \in Index : AnswerInput(n)
      BY <1>6
    <2>2. answer'.pc = "respond" /\ answer'.request = n /\ answers'[n] < MaxAnswers
      BY <2>1 DEF AnswerInput
    <2> QED BY <2>2 DEF Answering
  <1>7. CASE RespondInput
    <2>1. CASE answer' = [answer EXCEPT !.pc = "append"]
      <3>1. answer'.pc = "append" /\ answer'.request = answer.request
        BY <1>1, <2>1 DEF AnswerType
      <3>2. answer.request \in Index
        BY <1>1, <1>7 DEF RespondInput, Answering
      <3>3. answers' = [answers EXCEPT ![answer.request] = @ + 1]
        BY <1>7, <2>1 DEF RespondInput, NoAnswer
      <3>4. answers'[answer.request] > 0
        BY <1>1, <3>2, <3>3, Bounds
      <3> QED BY <3>1, <3>2, <3>4 DEF Answering
    <2> QED BY <1>4, <1>7, <2>1 DEF RespondInput
  <1>8. CASE RecordResponse
    <2>1. answer.request \in Index
      BY <1>1, <1>8 DEF RecordResponse, Answering
    <2>2. CASE /\ timeline' = Append(timeline, ResponseRow(answer.request))
               /\ answer' = [answer EXCEPT !.pc = "forget"]
      <3>1. answer'.pc = "forget" /\ answer'.request = answer.request
        BY <1>1, <2>2 DEF AnswerType
      <3> DEFINE row == ResponseRow(answer.request)
      <3>2. row \in Row /\ row.kind = "user_input_responded" /\ row.body = <<answer.request>>
        BY <2>1, ResponseType
      <3> HIDE DEF row
      <3>3. Len(timeline) + 1 \in DOMAIN Append(timeline, row)
            /\ Append(timeline, row)[Len(timeline) + 1] = row
        BY <1>1, <3>2
      <3>4. Responded(Append(timeline, row), answer.request)
        BY <3>2, <3>3 DEF Responded
      <3>5. Responded(timeline', answer'.request)
        BY <2>2, <3>1, <3>4 DEF row
      <3> QED BY <2>1, <3>1, <3>5 DEF Answering
    <2>3. CASE answer' = NoAnswer
      BY <1>4, <2>3
    <2> QED BY <1>8, <2>2, <2>3 DEF RecordResponse, ResponseRow
  <1>9. CASE ForgetInput \/ Restart
    BY <1>4, <1>9 DEF ForgetInput, Restart
  <1>10. CASE \/ \E kind \in EmitKinds, c \in Commands \cup {None} : Emit(kind, c)
              \/ TakeDelta \/ TakeAuthoritative \/ AppendBatch \/ RecordApproval
              \/ ApplyTerminal \/ ClearDoubt
    BY <1>5, <1>10 DEF Emit, TakeDelta, TakeAuthoritative, AppendBatch, RecordApproval,
                       ApplyTerminal, ClearDoubt, requestVars
  <1> QED BY <1>6, <1>7, <1>8, <1>9, <1>10 DEF Next

-----------------------------------------------------------------------------
(* Which events some rows hold, ask or answer.                             *)

LEMMA RangeConcat ==
    ASSUME NEW S, NEW s \in Seq(S), NEW t \in Seq(S)
    PROVE  Range(s \o t) = Range(s) \cup Range(t)
  <1> DEFINE u == s \o t
  <1>1. /\ Len(s) \in Nat /\ Len(t) \in Nat /\ DOMAIN s = 1..Len(s) /\ DOMAIN t = 1..Len(t)
        /\ DOMAIN u = 1..(Len(s) + Len(t))
        /\ \A i \in 1..Len(s) : u[i] = s[i]
        /\ \A i \in 1..Len(t) : u[Len(s) + i] = t[i]
    OBVIOUS
  <1> HIDE DEF u
  <1>2. ASSUME NEW x \in Range(u) PROVE x \in Range(s) \cup Range(t)
    <2>1. PICK i \in DOMAIN u : u[i] = x
      BY DEF Range
    <2>2. CASE i <= Len(s)
      <3>1. i \in DOMAIN s /\ s[i] = x
        BY <1>1, <2>1, <2>2
      <3> QED BY <3>1 DEF Range
    <2>3. CASE ~ (i <= Len(s))
      <3>1. i - Len(s) \in 1..Len(t) /\ Len(s) + (i - Len(s)) = i
        BY <1>1, <2>3
      <3>2. i - Len(s) \in DOMAIN t /\ t[i - Len(s)] = x
        BY <1>1, <2>1, <3>1
      <3> QED BY <3>2 DEF Range
    <2> QED BY <2>2, <2>3
  <1>3. ASSUME NEW x \in Range(s) PROVE x \in Range(u)
    <2>1. PICK i \in DOMAIN s : s[i] = x
      BY DEF Range
    <2>2. i \in DOMAIN u /\ u[i] = x
      BY <1>1, <2>1
    <2> QED BY <2>2 DEF Range
  <1>4. ASSUME NEW x \in Range(t) PROVE x \in Range(u)
    <2>1. PICK i \in DOMAIN t : t[i] = x
      BY DEF Range
    <2>2. Len(s) + i \in DOMAIN u /\ u[Len(s) + i] = x
      BY <1>1, <2>1
    <2> QED BY <2>2 DEF Range
  <1> QED BY <1>2, <1>3, <1>4 DEF u

LEMMA RangeAppend ==
    ASSUME NEW S, NEW s \in Seq(S), NEW x \in S
    PROVE  Range(Append(s, x)) = Range(s) \cup {x}
  <1> DEFINE t == <<x>>
  <1>1. Append(s, x) = s \o t /\ t \in Seq(S)
    BY AppendIsConcat
  <1>2. Range(t) = {x}
    BY DEF Range
  <1> HIDE DEF t
  <1>3. Range(s \o t) = Range(s) \cup Range(t)
    BY <1>1, RangeConcat
  <1> QED BY <1>1, <1>2, <1>3

(* The three in terms of the rows as a set.                                *)
LEMMA InRows ==
    ASSUME NEW rows, NEW n
    PROVE  /\ Holds(rows, n) <=> \E r \in Range(rows) : n \in Range(r.body)
           /\ Asked(rows, n) <=> \E r \in Range(rows) : r.kind = "user_input" /\ r.body = <<n>>
           /\ Responded(rows, n) <=>
                \E r \in Range(rows) : r.kind = "user_input_responded" /\ r.body = <<n>>
  <1>1. Range(rows) = {rows[i] : i \in DOMAIN rows}
    BY DEF Range
  <1> QED BY <1>1 DEF Holds, Asked, Responded

LEMMA RowsConcat ==
    ASSUME NEW rows \in Seq(Row), NEW more \in Seq(Row), NEW n
    PROVE  /\ Holds(rows \o more, n) <=> Holds(rows, n) \/ Holds(more, n)
           /\ Asked(rows \o more, n) <=> Asked(rows, n) \/ Asked(more, n)
           /\ Responded(rows \o more, n) <=> Responded(rows, n) \/ Responded(more, n)
  <1> DEFINE both == rows \o more
  <1>1. Range(both) = Range(rows) \cup Range(more)
    BY RangeConcat
  <1> HIDE DEF both
  <1>2. Holds(both, n) <=> Holds(rows, n) \/ Holds(more, n)
    BY <1>1, InRows
  <1>3. Asked(both, n) <=> Asked(rows, n) \/ Asked(more, n)
    <2> DEFINE in(r) == r.kind = "user_input" /\ r.body = <<n>>
    <2>1. \A s : Asked(s, n) <=> \E r \in Range(s) : in(r)
      BY InRows
    <2> HIDE DEF in
    <2> QED BY <1>1, <2>1
  <1>4. Responded(both, n) <=> Responded(rows, n) \/ Responded(more, n)
    <2> DEFINE in(r) == r.kind = "user_input_responded" /\ r.body = <<n>>
    <2>1. \A s : Responded(s, n) <=> \E r \in Range(s) : in(r)
      BY InRows
    <2> HIDE DEF in
    <2> QED BY <1>1, <2>1
  <1> QED BY <1>2, <1>3, <1>4 DEF both

LEMMA RowsAppend ==
    ASSUME NEW rows \in Seq(Row), NEW row \in Row, NEW n
    PROVE  /\ Holds(Append(rows, row), n) <=> Holds(rows, n) \/ n \in Range(row.body)
           /\ Asked(Append(rows, row), n) <=>
                Asked(rows, n) \/ (row.kind = "user_input" /\ row.body = <<n>>)
           /\ Responded(Append(rows, row), n) <=>
                Responded(rows, n) \/ (row.kind = "user_input_responded" /\ row.body = <<n>>)
  <1> DEFINE both == Append(rows, row)
  <1>1. Range(both) = Range(rows) \cup {row}
    BY RangeAppend
  <1> HIDE DEF both
  <1>2. Holds(both, n) <=> Holds(rows, n) \/ n \in Range(row.body)
    BY <1>1, InRows
  <1>3. Asked(both, n) <=> Asked(rows, n) \/ (row.kind = "user_input" /\ row.body = <<n>>)
    <2> DEFINE in(r) == r.kind = "user_input" /\ r.body = <<n>>
    <2>1. \A s : Asked(s, n) <=> \E r \in Range(s) : in(r)
      BY InRows
    <2>2. Asked(both, n) <=> Asked(rows, n) \/ in(row)
      <3> HIDE DEF in
      <3> QED BY <1>1, <2>1
    <2> QED BY <2>2
  <1>4. Responded(both, n) <=>
          Responded(rows, n) \/ (row.kind = "user_input_responded" /\ row.body = <<n>>)
    <2> DEFINE in(r) == r.kind = "user_input_responded" /\ r.body = <<n>>
    <2>1. \A s : Responded(s, n) <=> \E r \in Range(s) : in(r)
      BY InRows
    <2>2. Responded(both, n) <=> Responded(rows, n) \/ in(row)
      <3> HIDE DEF in
      <3> QED BY <1>1, <2>1
    <2> QED BY <2>2
  <1> QED BY <1>2, <1>3, <1>4 DEF both

LEMMA RowsNone ==
    ASSUME NEW n
    PROVE  ~Holds(<<>>, n) /\ ~Asked(<<>>, n) /\ ~Responded(<<>>, n)
  BY DEF Holds, Asked, Responded

(* The rows of a buffer hold what is in it, and ask and answer nothing.    *)
LEMMA ItemsHold ==
    ASSUME NEW buf, Buffer(buf), NEW n, InBuffer(buf, n)
    PROVE  Holds(TakeItems(buf), n)
  <1>1. /\ TakeItems(buf) \in Seq(Row) /\ MessageText(TakeItems(buf)) = buf.message
        /\ \A c \in Commands : CommandText(TakeItems(buf), c) = buf.commands[c]
    BY Items
  <1>2. CASE n \in Range(buf.message)
    <2>1. n \in Range(Text(TakeItems(buf), "message_delta_batch", None))
      BY <1>1, <1>2 DEF MessageText
    <2> QED BY <1>1, <2>1, TextHeld
  <1>3. CASE \E c \in Commands : n \in Range(buf.commands[c])
    <2>1. PICK c \in Commands : n \in Range(buf.commands[c])
      BY <1>3
    <2>2. n \in Range(Text(TakeItems(buf), "command_output_delta_batch", <<"command", c>>))
      BY <1>1, <2>1 DEF CommandText
    <2> QED BY <1>1, <2>2, TextHeld
  <1> QED BY <1>2, <1>3 DEF InBuffer

LEMMA DeltasAskNothing ==
    ASSUME NEW rows, OfDeltas(rows), NEW n
    PROVE  ~Asked(rows, n) /\ ~Responded(rows, n)
  BY DEF OfDeltas, DeltaRows, Asked, Responded

LEMMA NothingBuffered ==
    ASSUME NEW n
    PROVE  ~InBuffer(NoDeltas, n)
  BY DEF InBuffer, NoDeltas, Range

(* A pushed event is in the buffer, with what was there.                   *)
LEMMA PushedHolds ==
    ASSUME deltas \in DeltaType, NEW n \in DOMAIN sent, n \in Index, Emitted,
           sent[n].kind \in {"message_delta", "command_delta"},
           NEW m, m = n \/ InBuffer(deltas, m)
    PROVE  InBuffer(Pushed(n), m)
  <1>1. /\ deltas.message \in Seq(Index) /\ \A c \in Commands : deltas.commands[c] \in Seq(Index)
    BY DEF DeltaType
  <1>2. /\ Pushed(n).message = IF sent[n].kind = "message_delta"
                               THEN Append(deltas.message, n) ELSE deltas.message
        /\ \A c \in Commands :
             Pushed(n).commands[c] = IF sent[n].kind = "command_delta" /\ sent[n].command = c
                                     THEN Append(deltas.commands[c], n)
                                     ELSE deltas.commands[c]
    BY PushedParts
  <1>3. Range(Append(deltas.message, n)) = Range(deltas.message) \cup {n}
    BY <1>1, RangeAppend
  <1>4. \A c \in Commands : Range(Append(deltas.commands[c], n)) = Range(deltas.commands[c]) \cup {n}
    BY <1>1, RangeAppend
  <1>5. CASE m = n
    <2>1. CASE sent[n].kind = "message_delta"
      BY <1>2, <1>3, <1>5, <2>1 DEF InBuffer
    <2>2. CASE sent[n].kind = "command_delta"
      <3>1. sent[n].command \in Commands
        BY <2>2 DEF Emitted, CommandKinds
      <3>2. m \in Range(Pushed(n).commands[sent[n].command])
        BY <1>2, <1>4, <1>5, <2>2, <3>1
      <3> QED BY <3>1, <3>2 DEF InBuffer
    <2> QED BY <2>1, <2>2
  <1>6. CASE m \in Range(deltas.message)
    BY <1>2, <1>3, <1>6 DEF InBuffer
  <1>7. CASE \E c \in Commands : m \in Range(deltas.commands[c])
    <2>1. PICK c \in Commands : m \in Range(deltas.commands[c])
      BY <1>7
    <2>2. m \in Range(Pushed(n).commands[c])
      BY <1>2, <1>4, <2>1
    <2> QED BY <2>2 DEF InBuffer
  <1> QED BY <1>5, <1>6, <1>7 DEF InBuffer

LEMMA HeldStays ==
    ASSUME NEW old, NEW new, Keeps(old, new), NEW n, Holds(old, n)
    PROVE  Holds(new, n)
  BY DEF Keeps, Holds

(* A step that is no restart.                                              *)
LEMMA NoRestart ==
    ASSUME Steps, Next, faults'.restart = 0
    PROVE  ~Restart /\ faults.restart = 0
  <1>1. faults \in FaultType
    BY TypesApart DEF Steps
  <1>2. ~Restart
    BY <1>1, RestartCounted
  <1>3. UNCHANGED faults \/ StoreFault
    BY <1>2 DEF Next, Emit, TakeDelta, TakeAuthoritative, AppendBatch, RecordApproval,
                ApplyTerminal, AnswerInput, RespondInput, ClearDoubt, RecordResponse, ForgetInput
  <1> QED BY <1>1, <1>2, <1>3, FaultCounted

-----------------------------------------------------------------------------
(* Every event taken is kept somewhere.                                    *)

Kept(n) == Holds(timeline, n) \/ Holds(consumer.batch, n) \/ InBuffer(deltas, n)

LEMMA CoveredStep ==
    ASSUME Steps, Covered, Next
    PROVE  Covered'
  <1> SUFFICES ASSUME consumer'.pc # "done", faults'.restart = 0, NEW n \in 1..taken',
                      sent'[n].kind \notin {"approval", "terminal"}
               PROVE  Holds(timeline', n) \/ Holds(consumer'.batch, n) \/ InBuffer(deltas', n)
    BY DEF Covered, Own
  <1>1. /\ sent \in Seq(EventType) /\ taken \in 0..Len(sent)
        /\ deltas \in DeltaType /\ consumer \in ConsumerType /\ timeline \in Seq(Row)
        /\ AtEvent /\ Emitted
    BY TypesApart DEF Steps
  <1>2. Len(sent) \in Nat /\ DOMAIN sent = 1..Len(sent)
    BY <1>1
  <1>3. ~Restart /\ faults.restart = 0
    BY NoRestart
  <1>4. Keeps(sent, sent') /\ Keeps(timeline, timeline')
    BY Moves
  <1>5. ASSUME n \in 1..taken, consumer.pc # "done" PROVE Kept(n)
    <2>1. n \in DOMAIN sent
      BY <1>1, <1>2, <1>5
    <2>2. sent'[n] = sent[n]
      BY <1>4, <2>1 DEF Keeps
    <2> QED BY <1>3, <1>5, <2>2 DEF Covered, Own, Kept
  <1>6. consumer.pc \in {"recv", "record", "terminal"} => ~Holds(consumer.batch, n)
    BY <1>1, RowsNone DEF AtEvent
  <1>7. Holds(timeline, n) => Holds(timeline', n)
    BY <1>4, HeldStays
  <1>8. CASE TakeDelta
    <2>1. taken' = taken + 1 /\ consumer.pc = "recv"
      BY <1>8 DEF TakeDelta
    <2>2. /\ taken + 1 \in DOMAIN sent /\ taken + 1 \in Index
          /\ sent[taken + 1].kind \in {"message_delta", "command_delta"}
          /\ Buffer(Pushed(taken + 1))
      BY <1>8, Delta
    <2>3. n = taken + 1 \/ n \in 1..taken
      BY <1>1, <1>2, <2>1
    <2>4. Holds(timeline, n) \/ n = taken + 1 \/ InBuffer(deltas, n)
      BY <1>5, <1>6, <2>1, <2>3 DEF Kept
    <2>5. Holds(timeline, n) \/ InBuffer(Pushed(taken + 1), n)
      BY <1>1, <2>2, <2>4, PushedHolds
    <2>6. InBuffer(Pushed(taken + 1), n) => Holds(TakeItems(Pushed(taken + 1)), n)
      BY <2>2, ItemsHold
    <2>7. \/ consumer'.batch = TakeItems(Pushed(taken + 1))
          \/ deltas' = Pushed(taken + 1)
      BY <1>8, Delta
    <2> QED BY <1>7, <2>5, <2>6, <2>7
  <1>9. CASE TakeAuthoritative
    <2>1. taken' = taken + 1 /\ consumer.pc = "recv" /\ sent' = sent
      BY <1>9 DEF TakeAuthoritative
    <2>2. /\ taken + 1 \in DOMAIN sent /\ taken + 1 \in Index /\ TakeItems(deltas) \in Seq(Row)
      BY <1>9, Authoritative
    <2>3. n = taken + 1 \/ n \in 1..taken
      BY <1>1, <1>2, <2>1
    <2>4. n = taken + 1 \/ Holds(timeline, n) \/ InBuffer(deltas, n)
      BY <1>5, <1>6, <2>1, <2>3 DEF Kept
    <2>5. n = taken + 1 \/ Holds(timeline, n) \/ Holds(TakeItems(deltas), n)
      BY <1>1, <2>4, DeltaParts, ItemsHold
    <2>6. CASE /\ sent[taken + 1].kind \in OwnRows /\ RowOf(taken + 1) \in Row
               /\ consumer' = Writing("append", Append(TakeItems(deltas), RowOf(taken + 1)))
      <3>1. Append(TakeItems(deltas), RowOf(taken + 1)) \in Seq(Row)
        BY <2>2, <2>6
      <3>2. consumer'.batch = Append(TakeItems(deltas), RowOf(taken + 1))
        BY <2>2, <2>6, <3>1, WritingType
      <3>3. RowOf(taken + 1).body = <<taken + 1>>
        BY <1>1, <2>2, <2>6, RowOfType
      <3>4. taken + 1 \in Range(RowOf(taken + 1).body)
        BY <3>3 DEF Range
      <3>5. Holds(consumer'.batch, n) <=> Holds(TakeItems(deltas), n) \/ n \in Range(RowOf(taken + 1).body)
        <4> DEFINE items == TakeItems(deltas)
                   own == RowOf(taken + 1)
        <4>1. items \in Seq(Row) /\ own \in Row /\ consumer'.batch = Append(items, own)
          BY <2>2, <2>6, <3>2
        <4> HIDE DEF items, own
        <4>2. Holds(Append(items, own), n) <=> Holds(items, n) \/ n \in Range(own.body)
          BY <4>1, RowsAppend
        <4>3. Holds(consumer'.batch, n) <=> Holds(items, n) \/ n \in Range(own.body)
          BY <4>1, <4>2
        <4> QED BY <4>3 DEF items, own
      <3> QED BY <1>7, <2>5, <3>4, <3>5
    <2>7. CASE /\ sent[taken + 1].kind \in {"approval", "terminal"}
               /\ \E pc \in {"append", "record", "terminal"} :
                    consumer' = Writing(pc, TakeItems(deltas))
      <3>1. consumer'.batch = TakeItems(deltas)
        BY <2>2, <2>7, WritingType
      <3>2. n # taken + 1
        BY <2>1, <2>7
      <3> QED BY <1>7, <2>5, <3>1, <3>2
    <2> QED BY <1>9, <2>6, <2>7, Authoritative
  <1>10. CASE AppendBatch
    <2>1. UNCHANGED taken /\ consumer.pc = "append"
      BY <1>10 DEF AppendBatch
    <2>2. ~ConsumerFails
      BY RestingTypes DEF ConsumerFails, ConsumerStops
    <2>3. timeline' = timeline \o consumer.batch /\ UNCHANGED deltas
      BY <1>10, <2>2 DEF AppendBatch
    <2>4. Kept(n)
      BY <1>5, <2>1
    <2>5. consumer.batch \in Seq(Row)
      BY <1>1, ConsumerParts
    <2>6. Holds(timeline', n) <=> Holds(timeline, n) \/ Holds(consumer.batch, n)
      BY <1>1, <2>3, <2>5, RowsConcat
    <2> QED BY <2>3, <2>4, <2>6 DEF Kept
  <1>11. CASE RecordApproval
    <2>1. UNCHANGED taken /\ consumer.pc = "record"
      BY <1>11 DEF RecordApproval
    <2>2. ~ConsumerFails
      BY RestingTypes DEF ConsumerFails, ConsumerStops
    <2>3. UNCHANGED deltas
      BY <1>11, <2>2 DEF RecordApproval
    <2> QED BY <1>5, <1>6, <1>7, <2>1, <2>3 DEF Kept
  <1>12. CASE ApplyTerminal
    BY <1>12, RestingTypes DEF ApplyTerminal, ConsumerFails, ConsumerStops
  <1>13. CASE \/ \E kind \in EmitKinds, c \in Commands \cup {None} : Emit(kind, c)
              \/ \E m \in Index : AnswerInput(m)
              \/ RespondInput \/ ClearDoubt \/ RecordResponse \/ ForgetInput
    <2>1. UNCHANGED <<taken, deltas, consumer>>
      BY <1>13 DEF Emit, AnswerInput, RespondInput, ClearDoubt, RecordResponse, ForgetInput,
                   consumerVars
    <2> QED BY <1>5, <1>7, <2>1 DEF Kept
  <1> QED BY <1>3, <1>8, <1>9, <1>10, <1>11, <1>12, <1>13 DEF Next

(* With an empty buffer and no batch, everything taken is in the timeline. *)
LEMMA AllWritten ==
    ASSUME Steps, Covered, consumer.pc \in {"record", "terminal"}, faults.restart = 0,
           NEW n \in 1..taken, Own(n)
    PROVE  Holds(timeline, n)
  <1>1. consumer.batch = <<>> /\ deltas = NoDeltas
    BY DEF Steps, AtEvent
  <1>2. Kept(n)
    BY DEF Covered, Kept
  <1> QED BY <1>1, <1>2, RowsNone, NothingBuffered DEF Kept

-----------------------------------------------------------------------------
(* A completed run has everything in its timeline.                         *)

LEMMA EndedStep ==
    ASSUME Steps, Covered, EndedRunsAreComplete, Next
    PROVE  EndedRunsAreComplete'
  <1> SUFFICES ASSUME status' = "completed", faults'.restart = 0, NEW n \in DOMAIN sent',
                      sent'[n].kind \notin {"approval", "terminal"}
               PROVE  Holds(timeline', n)
    BY DEF EndedRunsAreComplete, Holds
  <1>1. /\ sent \in Seq(EventType) /\ taken \in 0..Len(sent) /\ AtEvent /\ Emitted
    BY TypesApart DEF Steps
  <1>2. ~Restart /\ faults.restart = 0
    BY NoRestart
  <1>3. Keeps(timeline, timeline') /\ Len(sent) \in Nat /\ DOMAIN sent = 1..Len(sent)
    BY <1>1, Moves
  <1>4. SUFFICES n \in DOMAIN sent /\ Own(n) => Holds(timeline, n)
    <2>1. sent' = sent
      <3>1. CASE \E kind \in EmitKinds, c \in Commands \cup {None} : Emit(kind, c)
        BY <1>1, <3>1 DEF Emit, AtEvent
      <3> QED BY <1>2, <3>1
              DEF Next, TakeDelta, TakeAuthoritative, AppendBatch, RecordApproval,
                  ApplyTerminal, AnswerInput, RespondInput, ClearDoubt, RecordResponse,
                  ForgetInput
    <2> QED BY <1>3, <1>4, <2>1, HeldStays DEF Own
  <1>5. CASE status = "completed"
    BY <1>2, <1>5 DEF EndedRunsAreComplete, Own, Holds
  <1>6. CASE status # "completed"
    <2>1. ApplyTerminal
      BY <1>2, <1>6 DEF Next, Emit, TakeDelta, TakeAuthoritative, AppendBatch, RecordApproval,
                        AnswerInput, RespondInput, ClearDoubt, RecordResponse, ForgetInput,
                        ConsumerFails
    <2>2. consumer.pc = "terminal"
      BY <2>1 DEF ApplyTerminal
    <2>3. taken \in DOMAIN sent /\ sent[taken].kind = "terminal"
      BY <1>1, <2>2 DEF AtEvent
    <2>4. taken = Len(sent)
      BY <1>1, <2>3 DEF Emitted
    <2> QED BY <1>2, <1>3, <2>2, <2>4, AllWritten
  <1> QED BY <1>5, <1>6

-----------------------------------------------------------------------------
(* The approvals.                                                          *)

(* An approval is recorded at the event that asks for it, after what the   *)
(* timeline holds by then.                                                 *)
LEMMA Approves ==
    ASSUME Steps, Next
    PROVE  \/ approvals' = approvals
           \/ /\ RecordApproval /\ consumer.pc = "record" /\ taken \in DOMAIN sent
              /\ UNCHANGED <<timeline, taken, faults>>
              /\ \E approval \in ApprovalType :
                   /\ approvals' = Append(approvals, approval)
                   /\ approval.request = taken /\ approval.after = Len(timeline)
  <1>1. CASE UNCHANGED approvals
    BY <1>1
  <1>2. CASE RecordApproval /\ approvals' = Append(approvals, [request |-> consumer.event,
                                                              after |-> Len(timeline)])
             /\ UNCHANGED faults
    <2>1. /\ sent \in Seq(EventType) /\ taken \in 0..Len(sent) /\ timeline \in Seq(Row)
          /\ consumer \in ConsumerType /\ AtEvent /\ Emitted
      BY TypesApart DEF Steps
    <2>2. consumer.pc = "record" /\ UNCHANGED <<timeline, taken>>
      BY <1>2 DEF RecordApproval
    <2>3. consumer.event = taken /\ taken \in DOMAIN sent
      BY <2>1, <2>2 DEF AtEvent
    <2>4. consumer.event \in Index
      BY <2>1, <2>3, ConsumerParts
    <2> DEFINE approval == [request |-> consumer.event, after |-> Len(timeline)]
    <2>5. approval \in ApprovalType /\ approval.request = taken /\ approval.after = Len(timeline)
      BY <2>1, <2>3, <2>4 DEF ApprovalType
    <2> HIDE DEF approval
    <2>6. approvals' = Append(approvals, approval)
      BY <1>2 DEF approval
    <2> QED BY <1>2, <2>2, <2>3, <2>5, <2>6
  <1> QED BY <1>1, <1>2
          DEF Next, Emit, TakeDelta, TakeAuthoritative, AppendBatch, RecordApproval,
              ApplyTerminal, AnswerInput, RespondInput, ClearDoubt, RecordResponse,
              ForgetInput, Restart

(* What is taken stays so: a restart counts everything as taken.           *)
LEMMA TakenGrows ==
    ASSUME Steps, Next
    PROVE  taken' >= taken
  <1>1. taken \in 0..Len(sent) /\ Len(sent) \in Nat
    BY TypesApart DEF Steps
  <1>2. taken' \in {taken, taken + 1, Len(sent)}
    BY DEF Next, Emit, TakeDelta, TakeAuthoritative, AppendBatch, RecordApproval,
           ApplyTerminal, AnswerInput, RespondInput, ClearDoubt, RecordResponse,
           ForgetInput, Restart, consumerVars
  <1> QED BY <1>1, <1>2

LEMMA ApprovalsStep ==
    ASSUME Steps, Covered, Recorded, ApprovalsFollowTheirContext, Next
    PROVE  Recorded' /\ ApprovalsFollowTheirContext'
  <1>1. /\ sent \in Seq(EventType) /\ taken \in 0..Len(sent) /\ timeline \in Seq(Row)
        /\ approvals \in Seq(ApprovalType)
    BY TypesApart DEF Steps
  <1>2. /\ Len(sent) \in Nat /\ DOMAIN sent = 1..Len(sent)
        /\ Len(timeline) \in Nat /\ DOMAIN timeline = 1..Len(timeline)
    BY <1>1
  <1>3. Keeps(sent, sent') /\ Keeps(timeline, timeline') /\ taken' >= taken
    BY Moves, TakenGrows
  <1>4. timeline' \in Seq(Row) /\ taken' \in 0..Len(sent') /\ sent' \in Seq(EventType)
    BY TypeStep, TypesApartNext
  <1>5. Len(timeline') \in Nat /\ taken' \in Nat /\ Len(sent') \in Nat
        /\ Len(timeline') >= Len(timeline)
    BY <1>2, <1>3, <1>4 DEF Keeps
  <1>6. faults'.restart = 0 => faults.restart = 0
    BY NoRestart
  <1> DEFINE Seen(a, rows) == \A n \in 1..(a.request - 1) :
                  sent[n].kind \notin {"approval", "terminal"} =>
                      \E i \in 1..a.after : n \in Range(rows[i].body)
  <1>7. ASSUME NEW a \in ApprovalType, a.request <= taken, a.after <= Len(timeline),
               faults.restart = 0 => Seen(a, timeline)
        PROVE  /\ a.request <= taken' /\ a.after <= Len(timeline')
               /\ faults'.restart = 0 => \A n \in 1..(a.request - 1) :
                    sent'[n].kind \notin {"approval", "terminal"} =>
                        \E i \in 1..a.after : n \in Range(timeline'[i].body)
    <2>1. a.request \in Nat /\ a.after \in Nat
      BY <1>7, Bounds DEF ApprovalType
    <2>2. a.request <= taken' /\ a.after <= Len(timeline')
      BY <1>1, <1>2, <1>3, <1>5, <1>7, <2>1
    <2>3. ASSUME faults'.restart = 0, NEW n \in 1..(a.request - 1),
                 sent'[n].kind \notin {"approval", "terminal"}
          PROVE  \E i \in 1..a.after : n \in Range(timeline'[i].body)
      <3>1. n \in DOMAIN sent
        BY <1>1, <1>2, <1>7, <2>1
      <3>2. sent'[n] = sent[n]
        BY <1>3, <3>1 DEF Keeps
      <3>3. PICK i \in 1..a.after : n \in Range(timeline[i].body)
        BY <1>6, <1>7, <2>3, <3>2
      <3>4. i \in DOMAIN timeline
        BY <1>2, <1>7, <2>1
      <3>5. timeline'[i] = timeline[i]
        BY <1>3, <3>4 DEF Keeps
      <3> QED BY <3>3, <3>5
    <2> QED BY <2>2, <2>3
  <1>8. ASSUME NEW k \in DOMAIN approvals
        PROVE  /\ approvals[k] \in ApprovalType /\ approvals[k].request <= taken
               /\ approvals[k].after <= Len(timeline)
               /\ faults.restart = 0 => Seen(approvals[k], timeline)
    BY <1>1, ElementOfSeq DEF Recorded, ApprovalsFollowTheirContext
  <1>9. SUFFICES ASSUME NEW k \in DOMAIN approvals'
                 PROVE  /\ approvals'[k] \in ApprovalType /\ approvals'[k].request <= taken
                        /\ approvals'[k].after <= Len(timeline)
                        /\ faults.restart = 0 => Seen(approvals'[k], timeline)
    <2> HIDE DEF Seen
    <2>1. \A k \in DOMAIN approvals' :
             /\ approvals'[k].request <= taken' /\ approvals'[k].after <= Len(timeline')
             /\ faults'.restart = 0 => \A n \in 1..(approvals'[k].request - 1) :
                    sent'[n].kind \notin {"approval", "terminal"} =>
                        \E i \in 1..approvals'[k].after : n \in Range(timeline'[i].body)
      BY <1>7, <1>9
    <2> QED BY <2>1 DEF Recorded, ApprovalsFollowTheirContext
  <1>10. CASE approvals' = approvals
    <2> HIDE DEF Seen
    <2> QED BY <1>8, <1>10
  <1>11. CASE /\ RecordApproval /\ consumer.pc = "record" /\ taken \in DOMAIN sent
              /\ \E approval \in ApprovalType :
                   /\ approvals' = Append(approvals, approval)
                   /\ approval.request = taken /\ approval.after = Len(timeline)
    <2>1. PICK approval \in ApprovalType :
                   /\ approvals' = Append(approvals, approval)
                   /\ approval.request = taken /\ approval.after = Len(timeline)
      BY <1>11
    <2>2. CASE k \in DOMAIN approvals
      <3>1. approvals'[k] = approvals[k]
        BY <1>1, <2>1, <2>2
      <3> HIDE DEF Seen
      <3> QED BY <1>8, <2>2, <3>1
    <2>3. CASE k \notin DOMAIN approvals
      <3>1. approvals'[k] = approval
        BY <1>1, <2>1, <2>3
      <3>2. ASSUME faults.restart = 0, NEW n \in 1..(taken - 1),
                   sent[n].kind \notin {"approval", "terminal"}
            PROVE  \E i \in 1..Len(timeline) : n \in Range(timeline[i].body)
        <4>1. n \in 1..taken
          BY <1>1, <1>2
        <4>2. Holds(timeline, n)
          BY <1>11, <3>2, <4>1, AllWritten DEF Own
        <4> QED BY <1>2, <4>2 DEF Holds
      <3>3. faults.restart = 0 => Seen(approval, timeline)
        BY <2>1, <3>2
      <3>4. approval.request <= taken /\ approval.after <= Len(timeline)
        BY <1>1, <1>2, <2>1
      <3> HIDE DEF Seen
      <3> QED BY <3>1, <3>3, <3>4
    <2> QED BY <2>2, <2>3
  <1> QED BY <1>10, <1>11, Approves

-----------------------------------------------------------------------------
(* The requests for input.                                                 *)

LEMMA InputsStep ==
    ASSUME Steps, InputsOpen, Next
    PROVE  InputsOpen'
  <1> SUFFICES ASSUME status' = "running", NEW n \in Index,
                      Asked(timeline', n) \/ Asked(consumer'.batch, n),
                      ~Responded(timeline', n)
               PROVE  n \in inputs'
    BY DEF InputsOpen
  <1>1. /\ sent \in Seq(EventType) /\ taken \in 0..Len(sent) /\ timeline \in Seq(Row)
        /\ consumer \in ConsumerType /\ consumer.batch \in Seq(Row)
        /\ AtEvent /\ Emitted /\ Answering
    BY TypesApart, ConsumerParts DEF Steps
  <1>2. ~Responded(timeline, n)
    BY Moves, RespondedStays
  <1>3. ASSUME status = "running", Asked(timeline, n) \/ Asked(consumer.batch, n)
        PROVE  n \in inputs
    BY <1>2, <1>3 DEF InputsOpen
  <1>4. ~ConsumerFails
    BY DEF ConsumerFails
  <1>5. CASE Restart
    <2>1. timeline' = timeline /\ consumer'.batch = <<>> /\ inputs' = PendingInputs
      BY <1>5, RestingTypes DEF Restart
    <2>2. Asked(timeline, n)
      BY <2>1, RowsNone
    <2> QED BY <1>2, <2>1, <2>2 DEF PendingInputs, HasRow, Asked, Responded
  <1>6. CASE TakeDelta
    <2>1. UNCHANGED <<timeline, status, inputs>>
      BY <1>6 DEF TakeDelta, requestVars
    <2>2. Buffer(Pushed(taken + 1))
      BY <1>6, Delta
    <2>3. ~Asked(TakeItems(Pushed(taken + 1)), n)
      BY <2>2, Items, DeltasAskNothing
    <2>4. consumer'.batch = TakeItems(Pushed(taken + 1)) \/ consumer' = consumer
      BY <1>6, Delta
    <2> QED BY <1>3, <2>1, <2>3, <2>4
  <1>7. CASE TakeAuthoritative
    <2>1. UNCHANGED <<timeline, status>>
          /\ inputs' = IF sent[taken + 1].kind = "user_input" THEN inputs \cup {taken + 1} ELSE inputs
      BY <1>7 DEF TakeAuthoritative, NextKind
    <2>2. /\ taken + 1 \in DOMAIN sent /\ taken + 1 \in Index
          /\ TakeItems(deltas) \in Seq(Row) /\ OfDeltas(TakeItems(deltas))
      BY <1>7, Authoritative
    <2>3. ~Asked(TakeItems(deltas), n)
      BY <2>2, DeltasAskNothing
    <2>4. CASE /\ sent[taken + 1].kind \in OwnRows /\ RowOf(taken + 1) \in Row
               /\ consumer' = Writing("append", Append(TakeItems(deltas), RowOf(taken + 1)))
      <3>1. Append(TakeItems(deltas), RowOf(taken + 1)) \in Seq(Row)
        BY <2>2, <2>4
      <3>2. consumer'.batch = Append(TakeItems(deltas), RowOf(taken + 1))
        BY <2>2, <2>4, <3>1, WritingType
      <3>3. RowOf(taken + 1).kind = sent[taken + 1].kind /\ RowOf(taken + 1).body = <<taken + 1>>
        BY <1>1, <2>2, <2>4, RowOfType
      <3>4. Asked(consumer'.batch, n) =>
                sent[taken + 1].kind = "user_input" /\ <<taken + 1>> = <<n>>
        <4> DEFINE items == TakeItems(deltas)
                   own == RowOf(taken + 1)
        <4>1. items \in Seq(Row) /\ own \in Row /\ consumer'.batch = Append(items, own)
              /\ ~Asked(items, n) /\ own.kind = sent[taken + 1].kind /\ own.body = <<taken + 1>>
          BY <2>2, <2>3, <2>4, <3>2, <3>3
        <4> HIDE DEF items, own
        <4>2. Asked(Append(items, own), n) <=>
                  Asked(items, n) \/ (own.kind = "user_input" /\ own.body = <<n>>)
          BY <4>1, RowsAppend
        <4> QED BY <4>1, <4>2
      <3>5. Asked(consumer'.batch, n) => n \in inputs'
        BY <2>1, <3>4
      <3> QED BY <1>3, <2>1, <3>5
    <2>5. CASE \E pc \in {"append", "record", "terminal"} :
                  consumer' = Writing(pc, TakeItems(deltas))
      <3>1. consumer'.batch = TakeItems(deltas)
        BY <2>2, <2>5, WritingType
      <3> QED BY <1>3, <2>1, <2>3, <3>1
    <2> QED BY <1>7, <2>4, <2>5, Authoritative
  <1>8. CASE AppendBatch
    <2>1. /\ timeline' = timeline \o consumer.batch /\ consumer' = AfterAppend
          /\ UNCHANGED <<status, inputs>>
      BY <1>4, <1>8 DEF AppendBatch
    <2>2. AfterAppend.batch = <<>>
      BY <1>1, AfterType
    <2>3. Asked(timeline', n) <=> Asked(timeline, n) \/ Asked(consumer.batch, n)
      BY <1>1, <2>1, RowsConcat
    <2> QED BY <1>3, <2>1, <2>2, <2>3, RowsNone
  <1>9. CASE RecordApproval
    <2>1. /\ consumer' = Receiving /\ UNCHANGED <<timeline, status, inputs>>
      BY <1>4, <1>9 DEF RecordApproval
    <2> QED BY <1>3, <2>1, RestingTypes, RowsNone
  <1>10. CASE ApplyTerminal
    BY <1>4, <1>10 DEF ApplyTerminal
  <1>11. CASE RecordResponse
    <2>1. answer.request \in Index
      BY <1>1, <1>11 DEF RecordResponse, Answering
    <2>2. UNCHANGED <<consumer, status, inputs>>
          /\ timeline' \in {timeline, Append(timeline, ResponseRow(answer.request))}
      BY <1>11 DEF RecordResponse, consumerVars, ResponseRow
    <2>3. Asked(Append(timeline, ResponseRow(answer.request)), n) => Asked(timeline, n)
      <3>1. ResponseRow(answer.request) \in Row
            /\ ResponseRow(answer.request).kind # "user_input"
        BY <2>1, ResponseType
      <3> QED BY <1>1, <3>1, RowsAppend
    <2> QED BY <1>3, <2>2, <2>3
  <1>12. CASE ForgetInput
    <2>1. UNCHANGED <<consumer, timeline, status>> /\ inputs' = inputs \ {answer.request}
      BY <1>12 DEF ForgetInput, consumerVars
    <2>2. Responded(timeline, answer.request)
      BY <1>1, <1>12 DEF ForgetInput, Answering
    <2> QED BY <1>2, <1>3, <2>1, <2>2
  <1>13. CASE \/ \E kind \in EmitKinds, c \in Commands \cup {None} : Emit(kind, c)
              \/ \E m \in Index : AnswerInput(m)
              \/ RespondInput \/ ClearDoubt
    <2>1. UNCHANGED <<consumer, timeline, inputs>> /\ status = "running"
      BY <1>13 DEF Emit, AnswerInput, RespondInput, ClearDoubt, consumerVars, requestVars
    <2> QED BY <1>3, <2>1
  <1> QED BY <1>5, <1>6, <1>7, <1>8, <1>9, <1>10, <1>11, <1>12, <1>13 DEF Next

(* The answers recorded were delivered: a batch of the consumer has none,  *)
(* and the provider forgets none.                                          *)
LEMMA AnswersSentStep ==
    ASSUME Steps, AnswersSent, Next
    PROVE  AnswersSent'
  <1>1. /\ sent \in Seq(EventType) /\ taken \in 0..Len(sent) /\ timeline \in Seq(Row)
        /\ consumer \in ConsumerType /\ consumer.batch \in Seq(Row)
        /\ answers \in [Index -> 0..MaxAnswers] /\ AtEvent /\ Emitted /\ Answering
    BY TypesApart, ConsumerParts DEF Steps
  <1>2. SUFFICES ASSUME NEW n \in Index
                 PROVE  /\ ~Responded(consumer'.batch, n)
                        /\ Responded(timeline', n) => answers'[n] > 0
    BY DEF AnswersSent
  <1>3. /\ ~Responded(consumer.batch, n)
        /\ Responded(timeline, n) => answers[n] > 0
    BY DEF AnswersSent
  <1>4. answers[n] > 0 => answers'[n] > 0
    <2>1. CASE UNCHANGED answers
      BY <2>1
    <2>2. CASE answers' = [answers EXCEPT ![answer.request] = @ + 1]
      BY <1>1, <2>2, Bounds
    <2> QED BY <2>1, <2>2
            DEF Next, Emit, TakeDelta, TakeAuthoritative, AppendBatch, RecordApproval,
                ApplyTerminal, AnswerInput, RespondInput, ClearDoubt, RecordResponse,
                ForgetInput, Restart, requestVars
  <1>5. ASSUME ConsumerFails PROVE consumer'.batch = <<>>
    BY <1>5, RestingTypes DEF ConsumerFails, ConsumerStops
  <1>6. CASE TakeDelta
    <2>1. UNCHANGED timeline
      BY <1>6 DEF TakeDelta
    <2>2. Buffer(Pushed(taken + 1))
      BY <1>6, Delta
    <2>3. ~Responded(TakeItems(Pushed(taken + 1)), n)
      BY <2>2, Items, DeltasAskNothing
    <2>4. consumer'.batch = TakeItems(Pushed(taken + 1)) \/ consumer' = consumer
      BY <1>6, Delta
    <2> QED BY <1>3, <1>4, <2>1, <2>3, <2>4
  <1>7. CASE TakeAuthoritative
    <2>1. UNCHANGED timeline
      BY <1>7 DEF TakeAuthoritative
    <2>2. /\ taken + 1 \in DOMAIN sent /\ taken + 1 \in Index
          /\ TakeItems(deltas) \in Seq(Row) /\ OfDeltas(TakeItems(deltas))
      BY <1>7, Authoritative
    <2>3. ~Responded(TakeItems(deltas), n)
      BY <2>2, DeltasAskNothing
    <2>4. CASE /\ sent[taken + 1].kind \in OwnRows /\ RowOf(taken + 1) \in Row
               /\ consumer' = Writing("append", Append(TakeItems(deltas), RowOf(taken + 1)))
      <3> DEFINE items == TakeItems(deltas)
                 own == RowOf(taken + 1)
      <3>1. Append(items, own) \in Seq(Row)
        BY <2>2, <2>4
      <3>2. consumer'.batch = Append(items, own)
        BY <2>2, <2>4, <3>1, WritingType
      <3>3. own.kind # "user_input_responded"
        BY <1>1, <2>2, <2>4, RowOfType DEF OwnRows
      <3>4. items \in Seq(Row) /\ own \in Row /\ ~Responded(items, n)
        BY <2>2, <2>3, <2>4
      <3> HIDE DEF items, own
      <3>5. ~Responded(Append(items, own), n)
        BY <3>3, <3>4, RowsAppend
      <3> QED BY <1>3, <1>4, <2>1, <3>2, <3>5
    <2>5. CASE \E pc \in {"append", "record", "terminal"} :
                  consumer' = Writing(pc, TakeItems(deltas))
      <3>1. consumer'.batch = TakeItems(deltas)
        BY <2>2, <2>5, WritingType
      <3> QED BY <1>3, <1>4, <2>1, <2>3, <3>1
    <2> QED BY <1>7, <2>4, <2>5, Authoritative
  <1>8. CASE AppendBatch
    <2>1. CASE timeline' = timeline \o consumer.batch /\ consumer' = AfterAppend
      <3>1. AfterAppend.batch = <<>>
        BY <1>1, <1>8, AfterType DEF AppendBatch
      <3>2. Responded(timeline', n) => Responded(timeline, n)
        BY <1>1, <1>3, <2>1, RowsConcat
      <3> QED BY <1>3, <1>4, <2>1, <3>1, <3>2, RowsNone
    <2>2. CASE ConsumerFails /\ UNCHANGED timeline
      BY <1>3, <1>4, <1>5, <2>2, RowsNone
    <2> QED BY <1>8, <2>1, <2>2 DEF AppendBatch
  <1>9. CASE RecordApproval \/ ApplyTerminal \/ Restart
    <2>1. consumer'.batch = <<>> /\ UNCHANGED timeline
      BY <1>9, RestingTypes
         DEF RecordApproval, ApplyTerminal, Restart, ConsumerFails, ConsumerStops
    <2> QED BY <1>3, <1>4, <2>1, RowsNone
  <1>10. CASE RecordResponse
    <2>1. answer.request \in Index /\ answers[answer.request] > 0
      BY <1>1, <1>10 DEF RecordResponse, Answering
    <2>2. UNCHANGED consumer
          /\ timeline' \in {timeline, Append(timeline, ResponseRow(answer.request))}
      BY <1>10 DEF RecordResponse, consumerVars, ResponseRow
    <2>3. Responded(Append(timeline, ResponseRow(answer.request)), n)
              => Responded(timeline, n) \/ n = answer.request
      <3>1. ResponseRow(answer.request) \in Row
            /\ ResponseRow(answer.request).body = <<answer.request>>
        BY <2>1, ResponseType
      <3> QED BY <1>1, <3>1, RowsAppend
    <2> QED BY <1>3, <1>4, <2>1, <2>2, <2>3
  <1>11. CASE \/ \E kind \in EmitKinds, c \in Commands \cup {None} : Emit(kind, c)
              \/ \E m \in Index : AnswerInput(m)
              \/ RespondInput \/ ClearDoubt \/ ForgetInput
    <2>1. UNCHANGED <<consumer, timeline>>
      BY <1>11 DEF Emit, AnswerInput, RespondInput, ClearDoubt, ForgetInput, consumerVars
    <2> QED BY <1>3, <1>4, <2>1
  <1> QED BY <1>6, <1>7, <1>8, <1>9, <1>10, <1>11 DEF Next

-----------------------------------------------------------------------------
(* No delta is lost, repeated or reordered.                                *)

(* The deltas of a kind among the first m events.                          *)
ReceivedParts(events, m, kind, c) ==
    [n \in 1..m |-> IF events[n] = [kind |-> kind, command |-> c] THEN <<n>> ELSE <<>>]

ReceivedOf(events, m, kind, c) == FlattenSeq(ReceivedParts(events, m, kind, c))

LEMMA ReceivedType ==
    ASSUME NEW events, NEW m \in Nat, m <= MaxEvents, NEW kind, NEW c
    PROVE  /\ ReceivedParts(events, m, kind, c) \in Seq(Seq(Index))
           /\ Len(ReceivedParts(events, m, kind, c)) = m
           /\ ReceivedOf(events, m, kind, c) \in Seq(Index)
  <1> DEFINE part(n) == IF events[n] = [kind |-> kind, command |-> c] THEN <<n>> ELSE <<>>
  <1>1. ASSUME NEW n \in 1..m PROVE part(n) \in Seq(Index)
    <2>1. n \in Index
      BY Bounds
    <2> QED BY <2>1
  <1>2. ReceivedParts(events, m, kind, c) = [n \in 1..m |-> part(n)]
    BY DEF ReceivedParts
  <1> HIDE DEF part
  <1>3. ReceivedParts(events, m, kind, c) \in Seq(Seq(Index))
        /\ Len(ReceivedParts(events, m, kind, c)) = m
    BY <1>1, <1>2
  <1> DEFINE p == ReceivedParts(events, m, kind, c)
  <1>4. <<>> \in Seq(Seq(Index)) /\ p \in Seq(Seq(Index))
    BY <1>3
  <1>5. FlattenSeq(p) \in Seq(Index)
    <2> HIDE DEF p
    <2> QED BY <1>4, FlattenConcat
  <1> QED BY <1>3, <1>5 DEF ReceivedOf

(* One event more.                                                         *)
LEMMA ReceivedNext ==
    ASSUME NEW events, NEW m \in Nat, m + 1 <= MaxEvents, NEW kind, NEW c
    PROVE  ReceivedOf(events, m + 1, kind, c)
           = ReceivedOf(events, m, kind, c)
               \o (IF events[m + 1] = [kind |-> kind, command |-> c] THEN <<m + 1>> ELSE <<>>)
  <1> DEFINE part == IF events[m + 1] = [kind |-> kind, command |-> c] THEN <<m + 1>> ELSE <<>>
             p == ReceivedParts(events, m, kind, c)
             q == ReceivedParts(events, m + 1, kind, c)
             one == <<part>>
  <1>1. m + 1 \in Index /\ m <= MaxEvents /\ m + 1 \in Nat
    BY Bounds
  <1>2. part \in Seq(Index)
    BY <1>1
  <1>3. p \in Seq(Seq(Index)) /\ Len(p) = m
    BY <1>1, ReceivedType
  <1>4. q \in Seq(Seq(Index)) /\ Len(q) = m + 1
    BY <1>1, ReceivedType
  <1>5. (\A n \in 1..m : q[n] = p[n]) /\ q[m + 1] = part
    BY <1>1 DEF ReceivedParts
  <1>6. one \in Seq(Seq(Index)) /\ Len(one) = 1 /\ one[1] = part
    <2> HIDE DEF part
    <2> QED BY <1>2
  <1>7. FlattenSeq(one) = part
    <2> HIDE DEF part
    <2> QED BY <1>2, FlattenOne
  <1> HIDE DEF part, p, q, one
  <1>8. q = p \o one
    <2> DEFINE V == Seq(Index)
    <2>1. p \in Seq(V) /\ q \in Seq(V) /\ one \in Seq(V)
      BY <1>3, <1>4, <1>6
    <2> HIDE DEF V
    <2>2. /\ p \o one \in Seq(V) /\ Len(p \o one) = Len(p) + Len(one)
          /\ \A n \in 1..(Len(p) + Len(one)) :
                (p \o one)[n] = IF n <= Len(p) THEN p[n] ELSE one[n - Len(p)]
      BY <2>1, ConcatProperties
    <2>3. ASSUME NEW n \in 1..Len(q) PROVE q[n] = (p \o one)[n]
      <3>1. n \in 1..m \/ (n = m + 1 /\ n - Len(p) = 1 /\ ~ (n <= Len(p)))
        BY <1>3, <1>4
      <3>2. (p \o one)[n] = IF n <= Len(p) THEN p[n] ELSE one[n - Len(p)]
        BY <1>3, <1>4, <1>6, <2>2
      <3> QED BY <1>3, <1>5, <1>6, <3>1, <3>2
    <2>4. Len(q) = Len(p \o one)
      BY <1>3, <1>4, <1>6, <2>2
    <2> QED BY <2>1, <2>2, <2>3, <2>4, SeqEqual, Zenon
  <1>9. FlattenSeq(q) = FlattenSeq(p) \o part
    BY <1>3, <1>6, <1>7, <1>8, FlattenConcat
  <1> QED BY <1>9 DEF ReceivedOf, p, q, part

LEMMA ReceivedKeeps ==
    ASSUME NEW events, NEW more, Keeps(events, more), NEW m, 1..m \subseteq DOMAIN events,
           NEW kind, NEW c
    PROVE  ReceivedOf(more, m, kind, c) = ReceivedOf(events, m, kind, c)
  <1>1. ReceivedParts(more, m, kind, c) = ReceivedParts(events, m, kind, c)
    BY DEF Keeps, ReceivedParts
  <1> QED BY <1>1 DEF ReceivedOf

(* The text of some rows and a buffer is that of the first m events.       *)
TextsAre(rows, buf, events, m) ==
    /\ MessageText(rows) \o buf.message = ReceivedOf(events, m, "message_delta", None)
    /\ \A c \in Commands :
         CommandText(rows, c) \o buf.commands[c] = ReceivedOf(events, m, "command_delta", c)

LEMMA ConservedApart ==
    DeltasAreConserved <=>
        (consumer.pc # "done" /\ faults.restart = 0 =>
            TextsAre(timeline \o consumer.batch, deltas, sent, taken))
  BY DEF DeltasAreConserved, TextsAre, MessageText, CommandText, Received, ReceivedOf,
         ReceivedParts

LEMMA ConservedApartNext ==
    DeltasAreConserved' <=>
        (consumer'.pc # "done" /\ faults'.restart = 0 =>
            TextsAre(timeline' \o consumer'.batch, deltas', sent', taken'))
  BY DEF DeltasAreConserved, TextsAre, MessageText, CommandText, Received, ReceivedOf,
         ReceivedParts

(* Only the texts of the rows matter, and of the events those received.    *)
LEMMA SameTexts ==
    ASSUME NEW rows, NEW new, NEW buf, NEW events, NEW m, TextsAre(rows, buf, events, m),
           MessageText(new) = MessageText(rows),
           \A c \in Commands : CommandText(new, c) = CommandText(rows, c)
    PROVE  TextsAre(new, buf, events, m)
  BY DEF TextsAre

LEMMA SameEvents ==
    ASSUME NEW rows, NEW buf, NEW events, NEW more, NEW m, TextsAre(rows, buf, events, m),
           Keeps(events, more), 1..m \subseteq DOMAIN events
    PROVE  TextsAre(rows, buf, more, m)
  BY ReceivedKeeps DEF TextsAre

(* The types of the texts.                                                 *)
LEMMA DeltaTextTypes ==
    ASSUME NEW rows \in Seq(Row)
    PROVE  MessageText(rows) \in Seq(Index) /\ \A c : CommandText(rows, c) \in Seq(Index)
  <1>1. \A k, x : Text(rows, k, x) \in Seq(Index)
    BY TextConcat
  <1> QED BY <1>1 DEF MessageText, CommandText

(* A row of no deltas adds nothing to the texts.                           *)
LEMMA PlainRow ==
    ASSUME NEW rows \in Seq(Row), NEW row \in Row, row.kind \notin DeltaRows
    PROVE  /\ MessageText(Append(rows, row)) = MessageText(rows)
           /\ \A c : CommandText(Append(rows, row), c) = CommandText(rows, c)
  <1> DEFINE one == <<row>>
  <1>1. Append(rows, row) = rows \o one /\ one \in Seq(Row)
    BY AppendIsConcat
  <1>2. MessageText(one) = <<>> /\ \A c : CommandText(one, c) = <<>>
    <2>1. \A k, x : Text(one, k, x) = PartOf(row, k, x)
      BY TextOne
    <2> QED BY <2>1 DEF PartOf, MessageText, CommandText, DeltaRows
  <1> HIDE DEF one
  <1>3. MessageText(rows \o one) = MessageText(rows) \o <<>>
        /\ \A c : CommandText(rows \o one, c) = CommandText(rows, c) \o <<>>
    <2>1. MessageText(rows \o one) = MessageText(rows) \o MessageText(one)
      BY <1>1, DeltaTextConcat
    <2>2. \A c : CommandText(rows \o one, c) = CommandText(rows, c) \o CommandText(one, c)
      BY <1>1, DeltaTextConcat
    <2> QED BY <1>2, <2>1, <2>2
  <1>4. MessageText(rows) \o <<>> = MessageText(rows)
    BY DeltaTextTypes, ConcatEmptySeq
  <1>5. \A c : CommandText(rows, c) \o <<>> = CommandText(rows, c)
    BY DeltaTextTypes, ConcatEmptySeq
  <1> QED BY <1>1, <1>3, <1>4, <1>5

(* The buffer can be written out.                                          *)
LEMMA Flushed ==
    ASSUME NEW rows \in Seq(Row), NEW buf, Buffer(buf), NEW events, NEW m,
           TextsAre(rows, buf, events, m)
    PROVE  TextsAre(rows \o TakeItems(buf), NoDeltas, events, m)
  <1>1. /\ TakeItems(buf) \in Seq(Row) /\ MessageText(TakeItems(buf)) = buf.message
        /\ \A c \in Commands : CommandText(TakeItems(buf), c) = buf.commands[c]
    BY Items
  <1>2. NoDeltas.message = <<>> /\ \A c \in Commands : NoDeltas.commands[c] = <<>>
    BY DEF NoDeltas
  <1> DEFINE both == rows \o TakeItems(buf)
  <1>3. both \in Seq(Row)
    BY <1>1, ConcatProperties
  <1>4. MessageText(both) = MessageText(rows) \o buf.message
        /\ \A c \in Commands : CommandText(both, c) = CommandText(rows, c) \o buf.commands[c]
    <2> DEFINE items == TakeItems(buf)
    <2>1. items \in Seq(Row)
      BY <1>1
    <2> HIDE DEF items
    <2>2. MessageText(rows \o items) = MessageText(rows) \o MessageText(items)
      BY <2>1, DeltaTextConcat
    <2>3. \A c : CommandText(rows \o items, c) = CommandText(rows, c) \o CommandText(items, c)
      BY <2>1, DeltaTextConcat
    <2> QED BY <1>1, <2>2, <2>3 DEF items
  <1> HIDE DEF both
  <1>5. MessageText(both) \in Seq(Index) /\ \A c : CommandText(both, c) \in Seq(Index)
    BY <1>3, DeltaTextTypes
  <1>6. MessageText(both) \o <<>> = MessageText(both)
        /\ \A c : CommandText(both, c) \o <<>> = CommandText(both, c)
    BY <1>5, ConcatEmptySeq
  <1> QED BY <1>2, <1>4, <1>6 DEF TextsAre, both

(* One more element at the end of the second of two sequences.             *)
LEMMA OneMore ==
    ASSUME NEW S, NEW a \in Seq(S), NEW b \in Seq(S), NEW x \in S
    PROVE  a \o Append(b, x) = (a \o b) \o <<x>>
  <1> DEFINE one == <<x>>
  <1>1. one \in Seq(S) /\ Append(b, x) = b \o one
    BY AppendIsConcat
  <1> HIDE DEF one
  <1>2. (a \o b) \o one = a \o (b \o one)
    BY <1>1, ConcatAssociative
  <1> QED BY <1>1, <1>2 DEF one

(* A delta that is taken is in the buffer.                                 *)
LEMMA PushedTexts ==
    ASSUME Steps, TakeDelta, TextsAre(timeline, deltas, sent, taken)
    PROVE  TextsAre(timeline, Pushed(taken + 1), sent, taken + 1)
  <1> DEFINE n == taken + 1
  <1>1. /\ sent \in Seq(EventType) /\ taken \in 0..Len(sent) /\ taken \in Nat
        /\ deltas \in DeltaType /\ timeline \in Seq(Row) /\ Emitted
    BY TypesApart DEF Steps
  <1>2. /\ n \in DOMAIN sent /\ n \in Index /\ sent[n].kind \in {"message_delta", "command_delta"}
    BY Delta
  <1>3. n <= MaxEvents
    BY <1>2, Bounds
  <1>4. sent[n] \in EventType
    BY <1>1, <1>2
  <1>5. /\ sent[n] = [kind |-> "message_delta", command |-> None] <=> sent[n].kind = "message_delta"
        /\ \A c : sent[n] = [kind |-> "command_delta", command |-> c] <=>
                      sent[n].kind = "command_delta" /\ sent[n].command = c
    <2>1. sent[n] = [kind |-> sent[n].kind, command |-> sent[n].command]
      BY <1>4 DEF EventType
    <2>2. sent[n].kind = "message_delta" => sent[n].command = None
      BY <1>1, <1>2 DEF Emitted, CommandKinds
    <2> HIDE DEF n
    <2> QED BY <2>1, <2>2
  <1>6. /\ MessageText(timeline) \in Seq(Index) /\ \A c : CommandText(timeline, c) \in Seq(Index)
        /\ deltas.message \in Seq(Index) /\ \A c \in Commands : deltas.commands[c] \in Seq(Index)
    BY <1>1, DeltaTextTypes DEF DeltaType
  <1>7. /\ Pushed(n).message = IF sent[n].kind = "message_delta"
                               THEN Append(deltas.message, n) ELSE deltas.message
        /\ \A c \in Commands :
             Pushed(n).commands[c] = IF sent[n].kind = "command_delta" /\ sent[n].command = c
                                     THEN Append(deltas.commands[c], n)
                                     ELSE deltas.commands[c]
    BY <1>1, <1>2, PushedParts
  <1>8. \A k, c : ReceivedOf(sent, taken + 1, k, c)
                  = ReceivedOf(sent, taken, k, c)
                      \o (IF sent[taken + 1] = [kind |-> k, command |-> c] THEN <<taken + 1>> ELSE <<>>)
    BY <1>1, <1>3, ReceivedNext
  <1>9. \A k, c : ReceivedOf(sent, taken, k, c) \in Seq(Index)
    <2>1. taken <= MaxEvents
      BY <1>1, <1>3, Bounds
    <2> QED BY <1>1, <2>1, ReceivedType
  <1>10. ASSUME NEW r \in Seq(Index), NEW a \in Seq(Index), NEW b \in Seq(Index), a \o b = r
         PROVE  a \o Append(b, n) = r \o <<n>> /\ r \o <<>> = r
    <2> HIDE DEF n
    <2>1. a \o Append(b, n) = (a \o b) \o <<n>>
      BY <1>2, OneMore
    <2>2. r \o <<>> = r
      BY ConcatEmptySeq
    <2> QED BY <1>10, <2>1, <2>2
  <1>11. MessageText(timeline) \o Pushed(n).message = ReceivedOf(sent, n, "message_delta", None)
    <2> DEFINE r == ReceivedOf(sent, taken, "message_delta", None)
               a == MessageText(timeline)
               b == deltas.message
    <2>1. r \in Seq(Index) /\ a \in Seq(Index) /\ b \in Seq(Index) /\ a \o b = r
      BY <1>6, <1>9 DEF TextsAre
    <2>2. ReceivedOf(sent, n, "message_delta", None)
          = r \o (IF sent[n].kind = "message_delta" THEN <<n>> ELSE <<>>)
      BY <1>5, <1>8
    <2>3. Pushed(n).message = IF sent[n].kind = "message_delta" THEN Append(b, n) ELSE b
      BY <1>7
    <2> HIDE DEF r, b, n
    <2>4. a \o Append(b, n) = r \o <<n>> /\ r \o <<>> = r
      <3> HIDE DEF a
      <3> QED BY <1>10, <2>1
    <2> QED BY <2>1, <2>2, <2>3, <2>4
  <1>12. ASSUME NEW c \in Commands
         PROVE  CommandText(timeline, c) \o Pushed(n).commands[c]
                = ReceivedOf(sent, n, "command_delta", c)
    <2> DEFINE r == ReceivedOf(sent, taken, "command_delta", c)
               a == CommandText(timeline, c)
               b == deltas.commands[c]
    <2>1. r \in Seq(Index) /\ a \in Seq(Index) /\ b \in Seq(Index) /\ a \o b = r
      BY <1>6, <1>9 DEF TextsAre
    <2>2. ReceivedOf(sent, n, "command_delta", c)
          = r \o (IF sent[n].kind = "command_delta" /\ sent[n].command = c THEN <<n>> ELSE <<>>)
      BY <1>5, <1>8
    <2>3. Pushed(n).commands[c] = IF sent[n].kind = "command_delta" /\ sent[n].command = c
                                  THEN Append(b, n) ELSE b
      BY <1>7
    <2> HIDE DEF r, b, n
    <2>4. a \o Append(b, n) = r \o <<n>> /\ r \o <<>> = r
      <3> HIDE DEF a
      <3> QED BY <1>10, <2>1
    <2> QED BY <2>1, <2>2, <2>3, <2>4
  <1> QED BY <1>11, <1>12 DEF TextsAre

(* An event that is no delta adds nothing to the deltas received.          *)
LEMMA NoDeltaReceived ==
    ASSUME Steps, TakeAuthoritative, NEW rows, NEW buf, TextsAre(rows, buf, sent, taken)
    PROVE  TextsAre(rows, buf, sent, taken + 1)
  <1>1. /\ sent \in Seq(EventType) /\ taken \in Nat /\ taken + 1 \in Index
        /\ sent[taken + 1].kind \notin {"message_delta", "command_delta"}
    BY TypesApart, Authoritative DEF Steps, TakeAuthoritative, NextKind
  <1>2. taken + 1 <= MaxEvents /\ taken <= MaxEvents
    BY <1>1, Bounds
  <1>3. \A k, c : k \in {"message_delta", "command_delta"} =>
                      sent[taken + 1] # [kind |-> k, command |-> c]
    BY <1>1
  <1>4. \A k, c : k \in {"message_delta", "command_delta"} =>
                      ReceivedOf(sent, taken + 1, k, c) = ReceivedOf(sent, taken, k, c) \o <<>>
    <2> SUFFICES ASSUME NEW k, NEW c, k \in {"message_delta", "command_delta"}
                 PROVE  ReceivedOf(sent, taken + 1, k, c) = ReceivedOf(sent, taken, k, c) \o <<>>
      OBVIOUS
    <2>1. ReceivedOf(sent, taken + 1, k, c)
          = ReceivedOf(sent, taken, k, c)
              \o (IF sent[taken + 1] = [kind |-> k, command |-> c] THEN <<taken + 1>> ELSE <<>>)
      BY <1>1, <1>2, ReceivedNext
    <2>2. sent[taken + 1] # [kind |-> k, command |-> c]
      BY <1>3
    <2> QED BY <2>1, <2>2
  <1>5. \A k, c : ReceivedOf(sent, taken, k, c) \in Seq(Index)
    BY <1>1, <1>2, ReceivedType
  <1>6. \A k, c : ReceivedOf(sent, taken, k, c) \o <<>> = ReceivedOf(sent, taken, k, c)
    BY <1>5, ConcatEmptySeq
  <1> QED BY <1>4, <1>6 DEF TextsAre

LEMMA ConservedStep ==
    ASSUME Steps, DeltasAreConserved, Next
    PROVE  DeltasAreConserved'
  <1> SUFFICES ASSUME consumer'.pc # "done", faults'.restart = 0
               PROVE  TextsAre(timeline' \o consumer'.batch, deltas', sent', taken')
    BY ConservedApartNext
  <1>1. /\ sent \in Seq(EventType) /\ taken \in 0..Len(sent) /\ deltas \in DeltaType
        /\ timeline \in Seq(Row) /\ consumer \in ConsumerType /\ consumer.batch \in Seq(Row)
        /\ AtEvent /\ Emitted /\ Answering
    BY TypesApart, ConsumerParts DEF Steps
  <1>2. ~Restart /\ faults.restart = 0
    BY NoRestart
  <1>3. consumer.pc # "done" => TextsAre(timeline \o consumer.batch, deltas, sent, taken)
    BY <1>2, ConservedApart
  <1>4. timeline \o <<>> = timeline
    BY <1>1, ConcatEmptySeq
  <1>5. consumer.pc \in {"recv", "record", "terminal"} =>
            /\ consumer.batch = <<>>
            /\ TextsAre(timeline, deltas, sent, taken)
    <2>1. consumer.pc \in {"recv", "record", "terminal"} => consumer.batch = <<>>
      BY <1>1 DEF AtEvent
    <2> QED BY <1>3, <1>4, <2>1
  <1>6. CASE TakeDelta
    <2>1. consumer.pc = "recv" /\ UNCHANGED <<sent, timeline>> /\ taken' = taken + 1
      BY <1>6 DEF TakeDelta
    <2>2. Buffer(Pushed(taken + 1))
      BY <1>6, Delta
    <2>3. TextsAre(timeline, Pushed(taken + 1), sent, taken + 1)
      BY <1>5, <1>6, <2>1, PushedTexts
    <2>4. TextsAre(timeline \o TakeItems(Pushed(taken + 1)), NoDeltas, sent, taken + 1)
      BY <1>1, <2>2, <2>3, Flushed
    <2>5. CASE deltas' = NoDeltas /\ consumer'.batch = TakeItems(Pushed(taken + 1))
      BY <2>1, <2>4, <2>5
    <2>6. CASE deltas' = Pushed(taken + 1) /\ UNCHANGED consumer
      BY <1>4, <1>5, <2>1, <2>3, <2>6
    <2> QED BY <1>6, <2>5, <2>6, Delta
  <1>7. CASE TakeAuthoritative
    <2>1. /\ consumer.pc = "recv" /\ UNCHANGED <<sent, timeline>> /\ taken' = taken + 1
          /\ deltas' = NoDeltas
      BY <1>7 DEF TakeAuthoritative
    <2>2. /\ taken + 1 \in DOMAIN sent /\ taken + 1 \in Index /\ TakeItems(deltas) \in Seq(Row)
          /\ Buffer(deltas)
      BY <1>1, <1>7, Authoritative, DeltaParts
    <2> DEFINE items == TakeItems(deltas)
               rows == timeline \o items
    <2>3. TextsAre(rows, NoDeltas, sent, taken)
      BY <1>1, <1>5, <2>1, <2>2, Flushed
    <2>4. TextsAre(rows, NoDeltas, sent, taken + 1)
      <3> HIDE DEF rows
      <3> QED BY <1>7, <2>3, NoDeltaReceived
    <2>5. rows \in Seq(Row)
      BY <1>1, <2>2, ConcatProperties
    <2>6. CASE /\ sent[taken + 1].kind \in OwnRows /\ RowOf(taken + 1) \in Row
               /\ consumer' = Writing("append", Append(TakeItems(deltas), RowOf(taken + 1)))
      <3> DEFINE row == RowOf(taken + 1)
      <3>1. row \in Row /\ row.kind \notin DeltaRows
        <4>1. RowOf(taken + 1).kind = sent[taken + 1].kind
          BY <1>1, <2>2, <2>6, RowOfType
        <4> QED BY <2>6, <4>1 DEF OwnRows, DeltaRows
      <3>2. consumer'.batch = Append(items, row)
        <4>1. Append(TakeItems(deltas), RowOf(taken + 1)) \in Seq(Row)
          BY <2>2, <2>6
        <4> QED BY <2>2, <2>6, <4>1, WritingType
      <3>3. items \in Seq(Row)
        BY <2>2
      <3> HIDE DEF row, items
      <3>4. timeline \o Append(items, row) = rows \o <<row>>
        BY <1>1, <3>1, <3>3, OneMore
      <3> HIDE DEF rows
      <3>5. rows \o <<row>> = Append(rows, row)
        BY <2>5, <3>1, AppendIsConcat
      <3>6. /\ MessageText(Append(rows, row)) = MessageText(rows)
            /\ \A c : CommandText(Append(rows, row), c) = CommandText(rows, c)
        BY <2>5, <3>1, PlainRow
      <3>7. TextsAre(Append(rows, row), NoDeltas, sent, taken + 1)
        BY <2>4, <3>6, SameTexts
      <3> QED BY <2>1, <3>2, <3>4, <3>5, <3>7
    <2>7. CASE \E pc \in {"append", "record", "terminal"} :
                  consumer' = Writing(pc, TakeItems(deltas))
      <3>1. consumer'.batch = TakeItems(deltas)
        BY <2>2, <2>7, WritingType
      <3> QED BY <2>1, <2>4, <3>1
    <2> HIDE DEF rows, items
    <2> QED BY <1>7, <2>6, <2>7, Authoritative
  <1>8. CASE AppendBatch
    <2>1. ~ConsumerFails
      BY RestingTypes DEF ConsumerFails, ConsumerStops
    <2>2. /\ timeline' = timeline \o consumer.batch /\ consumer' = AfterAppend
          /\ UNCHANGED <<deltas, sent, taken>> /\ consumer.pc = "append"
      BY <1>8, <2>1 DEF AppendBatch
    <2>3. consumer'.batch = <<>>
      BY <1>1, <2>2, AfterType
    <2> DEFINE rows == timeline \o consumer.batch
    <2>4. rows \in Seq(Row) /\ timeline' = rows
      BY <1>1, <2>2, ConcatProperties
    <2> HIDE DEF rows
    <2>5. rows \o <<>> = rows
      BY <2>4, ConcatEmptySeq
    <2>6. TextsAre(rows, deltas, sent, taken)
      BY <1>3, <2>2 DEF rows
    <2> QED BY <2>2, <2>3, <2>4, <2>5, <2>6
  <1>9. CASE RecordApproval
    <2>1. ~ConsumerFails
      BY RestingTypes DEF ConsumerFails, ConsumerStops
    <2>2. /\ consumer' = Receiving /\ consumer.pc = "record"
          /\ UNCHANGED <<deltas, sent, taken, timeline>>
      BY <1>9, <2>1 DEF RecordApproval
    <2> QED BY <1>4, <1>5, <2>2, RestingTypes
  <1>10. CASE ApplyTerminal
    BY <1>10, RestingTypes DEF ApplyTerminal, ConsumerFails, ConsumerStops
  <1>11. CASE RecordResponse
    <2>1. answer.request \in Index
      BY <1>1, <1>11 DEF RecordResponse, Answering
    <2> DEFINE row == ResponseRow(answer.request)
               batch == consumer.batch
               longer == Append(timeline, row)
    <2>2. row \in Row /\ row.kind \notin DeltaRows
      BY <2>1, ResponseType DEF DeltaRows
    <2>3. UNCHANGED <<consumer, deltas, sent, taken>> /\ timeline' \in {timeline, longer}
      BY <1>11 DEF RecordResponse, consumerVars, ResponseRow
    <2>4. TextsAre(timeline \o batch, deltas, sent, taken)
      BY <1>3, <2>3
    <2>5. batch \in Seq(Row)
      BY <1>1
    <2> HIDE DEF row, batch
    <2>6. longer \in Seq(Row)
      BY <1>1, <2>2
    <2>7. MessageText(longer) = MessageText(timeline)
          /\ \A c : CommandText(longer, c) = CommandText(timeline, c)
      BY <1>1, <2>2, PlainRow
    <2> HIDE DEF longer
    <2>8. MessageText(longer \o batch) = MessageText(longer) \o MessageText(batch)
          /\ MessageText(timeline \o batch) = MessageText(timeline) \o MessageText(batch)
      BY <1>1, <2>5, <2>6, DeltaTextConcat
    <2>9. \A c : /\ CommandText(longer \o batch, c) = CommandText(longer, c) \o CommandText(batch, c)
                 /\ CommandText(timeline \o batch, c) = CommandText(timeline, c) \o CommandText(batch, c)
      BY <1>1, <2>5, <2>6, DeltaTextConcat
    <2>10. MessageText(longer \o batch) = MessageText(timeline \o batch)
          /\ \A c : CommandText(longer \o batch, c) = CommandText(timeline \o batch, c)
      BY <2>7, <2>8, <2>9
    <2>11. TextsAre(longer \o batch, deltas, sent, taken)
      <3> DEFINE old == timeline \o batch
                 new == longer \o batch
      <3>1. TextsAre(old, deltas, sent, taken) /\ MessageText(new) = MessageText(old)
            /\ \A c \in Commands : CommandText(new, c) = CommandText(old, c)
        BY <2>4, <2>10
      <3> HIDE DEF old, new
      <3>2. TextsAre(new, deltas, sent, taken)
        BY <3>1, SameTexts
      <3> QED BY <3>2 DEF new
    <2> QED BY <2>3, <2>4, <2>11 DEF batch
  <1>12. CASE \/ \E kind \in EmitKinds, c \in Commands \cup {None} : Emit(kind, c)
              \/ \E n \in Index : AnswerInput(n)
              \/ RespondInput \/ ClearDoubt \/ ForgetInput
    <2>1. UNCHANGED <<consumer, deltas, taken, timeline>>
      BY <1>12 DEF Emit, AnswerInput, RespondInput, ClearDoubt, ForgetInput, consumerVars
    <2>2. Keeps(sent, sent') /\ 1..taken \subseteq DOMAIN sent
      BY <1>1, Moves
    <2> DEFINE rows == timeline \o consumer.batch
    <2>3. TextsAre(rows, deltas, sent, taken)
      BY <1>3, <2>1
    <2> HIDE DEF rows
    <2>4. TextsAre(rows, deltas, sent', taken)
      BY <2>2, <2>3, SameEvents
    <2> QED BY <2>1, <2>4 DEF rows
  <1> QED BY <1>2, <1>6, <1>7, <1>8, <1>9, <1>10, <1>11, <1>12 DEF Next

-----------------------------------------------------------------------------
(* The invariant.                                                          *)

LEMMA InitialTypes ==
    ASSUME Init
    PROVE  TypeOK
  <1>1. sent \in Seq(EventType) /\ timeline \in Seq(Row) /\ approvals \in Seq(ApprovalType)
        /\ taken \in 0..Len(sent) /\ inputs \subseteq Index /\ uncertain \in BOOLEAN
        /\ status \in {"running", "completed", "disconnected", "outcome_unknown"}
    <2>1. sent = <<>> /\ timeline = <<>> /\ approvals = <<>> /\ taken = 0 /\ inputs = {}
          /\ uncertain = FALSE /\ status = "running"
      BY DEF Init
    <2>2. \A S : <<>> \in Seq(S)
      BY EmptySeq
    <2>3. Len(<<>>) = 0 /\ 0 \in 0..0
      OBVIOUS
    <2> QED BY <2>1, <2>2, <2>3
  <1>2. deltas \in DeltaType /\ consumer \in ConsumerType
    BY NoDeltasType, RestingTypes DEF Init
  <1>3. answer \in AnswerType
    BY DEF Init, NoAnswer, AnswerType
  <1>4. answers \in [Index -> 0..MaxAnswers]
    BY Bounds DEF Init
  <1>5. faults \in FaultType
    BY Bounds DEF Init, FaultType
  <1> QED BY <1>1, <1>2, <1>3, <1>4, <1>5, TypesApart

LEMMA InitialInv ==
    ASSUME Init
    PROVE  ProjectionInv
  <1>1. TypeOK
    BY InitialTypes
  <1>2. Emitted
    BY Bounds DEF Init, Emitted
  <1>3. AtEvent
    BY RestingTypes DEF Init, AtEvent
  <1>4. Answering
    BY DEF Init, NoAnswer, Answering
  <1>5. Covered /\ EndedRunsAreComplete /\ Recorded /\ ApprovalsFollowTheirContext
    BY DEF Init, Covered, EndedRunsAreComplete, Recorded, ApprovalsFollowTheirContext
  <1>6. InputsOpen
    BY RestingTypes, RowsNone DEF Init, InputsOpen
  <1>7. DeltasAreConserved
    <2>1. timeline \o consumer.batch = <<>>
      BY RestingTypes DEF Init
    <2>2. MessageText(<<>>) = <<>> /\ \A c : CommandText(<<>>, c) = <<>>
      BY TextNone DEF MessageText, CommandText
    <2>3. deltas.message = <<>> /\ \A c \in Commands : deltas.commands[c] = <<>>
      BY DEF Init, NoDeltas
    <2>4. ASSUME NEW k, NEW c PROVE ReceivedOf(sent, 0, k, c) = <<>>
      <3>1. ReceivedParts(sent, 0, k, c) = <<>>
        BY DEF ReceivedParts
      <3> QED BY <3>1, FlattenNone DEF ReceivedOf
    <2>5. TextsAre(<<>>, deltas, sent, 0)
      <3>1. <<>> \o <<>> = <<>>
        OBVIOUS
      <3>2. MessageText(<<>>) \o deltas.message = ReceivedOf(sent, 0, "message_delta", None)
        BY <2>2, <2>3, <2>4, <3>1
      <3>3. ASSUME NEW c \in Commands
            PROVE  CommandText(<<>>, c) \o deltas.commands[c] = ReceivedOf(sent, 0, "command_delta", c)
        BY <2>2, <2>3, <2>4, <3>1
      <3> QED BY <3>2, <3>3 DEF TextsAre
    <2> QED BY <2>1, <2>5, ConservedApart DEF Init
  <1>8. AnswersSent
    BY RestingTypes, RowsNone DEF Init, AnswersSent
  <1> QED BY <1>1, <1>2, <1>3, <1>4, <1>5, <1>6, <1>7, <1>8 DEF ProjectionInv, Steps

(* A step that changes nothing keeps the invariant.                        *)
LEMMA Stutter ==
    ASSUME ProjectionInv, UNCHANGED vars
    PROVE  ProjectionInv'
  <1>1. UNCHANGED <<sent, taken, deltas, consumer, timeline, approvals, status, inputs,
                    uncertain, answer, answers, faults>>
    BY DEF vars, consumerVars, requestVars
  <1>2. TypeOK'
    BY <1>1 DEF ProjectionInv, Steps, TypeOK
  <1>3. Emitted' /\ AtEvent' /\ Answering'
    BY <1>1 DEF ProjectionInv, Steps, Emitted, AtEvent, Answering
  <1>4. Covered'
    BY <1>1 DEF ProjectionInv, Covered, Own
  <1>5. DeltasAreConserved'
    BY <1>1, ConservedApart, ConservedApartNext DEF ProjectionInv
  <1>6. EndedRunsAreComplete' /\ Recorded' /\ ApprovalsFollowTheirContext'
    BY <1>1 DEF ProjectionInv, EndedRunsAreComplete, Recorded, ApprovalsFollowTheirContext
  <1>7. InputsOpen' /\ AnswersSent'
    BY <1>1 DEF ProjectionInv, InputsOpen, AnswersSent
  <1> QED BY <1>2, <1>3, <1>4, <1>5, <1>6, <1>7 DEF ProjectionInv, Steps

LEMMA InvStep ==
    ASSUME ProjectionInv, [Next]_vars
    PROVE  ProjectionInv'
  <1>1. CASE UNCHANGED vars
    BY <1>1, Stutter
  <1>2. CASE Next
    <2>1. /\ Steps /\ Covered /\ DeltasAreConserved /\ EndedRunsAreComplete /\ Recorded
          /\ ApprovalsFollowTheirContext /\ InputsOpen /\ AnswersSent
      BY DEF ProjectionInv
    <2>2. TypeOK' /\ Emitted' /\ AtEvent' /\ Answering'
      BY <1>2, <2>1, TypeStep, EmittedStep, AtEventStep, AnsweringStep
    <2>3. Covered' /\ DeltasAreConserved' /\ EndedRunsAreComplete'
      BY <1>2, <2>1, CoveredStep, ConservedStep, EndedStep
    <2>4. Recorded' /\ ApprovalsFollowTheirContext' /\ InputsOpen' /\ AnswersSent'
      BY <1>2, <2>1, ApprovalsStep, InputsStep, AnswersSentStep
    <2> QED BY <2>2, <2>3, <2>4 DEF ProjectionInv, Steps
  <1> QED BY <1>1, <1>2

LEMMA InvHolds == Spec => []ProjectionInv
  <1>1. Init => ProjectionInv
    BY InitialInv
  <1>2. ProjectionInv /\ [Next]_vars => ProjectionInv'
    BY InvStep
  <1> QED BY <1>1, <1>2, PTL DEF Spec

(* Every event that a run says reaches its timeline: the deltas in their   *)
(* order, without loss or repetition, as long as nothing fails, and all of *)
(* it before the run is completed (DeltaBuffer, consume_run, apply_event). *)
THEOREM NothingLost == Spec => []NothingIsLost
  <1>1. ProjectionInv => NothingIsLost
    BY DEF ProjectionInv, Steps, NothingIsLost
  <1> QED BY <1>1, InvHolds, PTL

(* A request for approval is recorded after everything that was said       *)
(* before it is in the timeline (the flush before record_pending_approval).*)
THEOREM ApprovalsHaveContext == Spec => []ApprovalsFollowTheirContext
  <1>1. ProjectionInv => ApprovalsFollowTheirContext
    BY DEF ProjectionInv
  <1> QED BY <1>1, InvHolds, PTL

(* A running run offers every request that list_pending_user_inputs_for_run *)
(* would find, before and after a restart; and a request is recorded as    *)
(* answered, or taken from the user while its run goes on, only if the     *)
(* provider has an answer to it: neither a failed call, a failed write nor *)
(* a restart records what was not delivered (respond_user_input sends,     *)
(* then records, then forgets).                                            *)
THEOREM InputsAreSettled == Spec => []InputsAreSettledByAnswers
  <1>1. ProjectionInv => OpenInputsAreOffered
    <2> SUFFICES ASSUME InputsOpen, status = "running", NEW n \in PendingInputs
                 PROVE  n \in inputs
      BY DEF ProjectionInv, OpenInputsAreOffered
    <2>1. n \in Index /\ Asked(timeline, n) /\ ~Responded(timeline, n)
      BY DEF PendingInputs, HasRow, Asked, Responded
    <2> QED BY <2>1 DEF InputsOpen
  <1>2. ProjectionInv => RecordedAnswersWereSent
    <2> SUFFICES ASSUME InputsOpen, AnswersSent, NEW n \in Index,
                        \/ HasRow("user_input_responded", n)
                        \/ status = "running" /\ HasRow("user_input", n) /\ n \notin inputs
                 PROVE  answers[n] > 0
      BY DEF ProjectionInv, RecordedAnswersWereSent
    <2>1. Responded(timeline, n)
      BY DEF HasRow, Asked, Responded, InputsOpen
    <2> QED BY <2>1 DEF AnswersSent
  <1>3. ProjectionInv => InputsAreSettledByAnswers
    BY <1>1, <1>2 DEF InputsAreSettledByAnswers
  <1> QED BY <1>3, InvHolds, PTL

=============================================================================
