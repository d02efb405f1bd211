------------------------ MODULE ConsoleBuffer_proofs ------------------------
(***************************************************************************)
(* Proofs about ConsoleBuffer, for every limit of the buffers, every       *)
(* length of a line, and any bytes that ask for new lines or time stamps.  *)
(***************************************************************************)
EXTENDS ConsoleBuffer, FiniteSetTheorems, SequenceTheorems, WellFoundedInduction, TLAPS

USE DEF NewLine, Stamp, MessageStamp

(***************************************************************************)
(* Induction and recursive functions.                                      *)
(***************************************************************************)

\* Induction up to n, for a set instead of a predicate.
LEMMA Induction ==
    ASSUME NEW n \in Nat, NEW T, 0 \in T, \A m \in 0..(n - 1) : m \in T => m + 1 \in T
    PROVE  \A m \in 0..n : m \in T
  <1> DEFINE U == {m \in 0..n : m \notin T}
  <1> SUFFICES ASSUME U # {} PROVE FALSE
    OBVIOUS
  <1>1. PICK x \in U : \A y \in U : <<y, x>> \notin OpToRel(<, Nat)
    <2>1. U \subseteq Nat
      OBVIOUS
    <2> QED
      BY <2>1, NatLessThanWellFounded, WFMin
  <1>2. x - 1 \in U
    OBVIOUS
  <1>3. <<x - 1, x>> \in OpToRel(<, Nat)
    BY DEF OpToRel
  <1> QED
    BY <1>1, <1>2, <1>3

\* The recursive function in FlattenSeq, up to m
Flattening(g, ps, m) ==
    g = [i \in 1..m |-> IF i = 1 THEN ps[i] ELSE g[i - 1] \o ps[i]]

\* It exists.
LEMMA FlatteningExists ==
    ASSUME NEW n \in Nat \ {0}, NEW ps
    PROVE  \E g : Flattening(g, ps, n)
  <1> DEFINE T == {m \in 0..n : m > 0 => \E g : Flattening(g, ps, m)}
  <1>1. 0 \in T
    OBVIOUS
  <1>2. ASSUME NEW m \in 0..(n - 1), m \in T PROVE m + 1 \in T
    <2>1. CASE m = 0
      <3> DEFINE h == [i \in 1..1 |-> ps[i]]
      <3>1. Flattening(h, ps, 1)
        BY DEF Flattening
      <3> QED
        BY <3>1, <2>1
    <2>2. CASE m > 0
      <3>1. PICK g : Flattening(g, ps, m)
        BY <1>2, <2>2
      <3> DEFINE h == [i \in 1..(m + 1) |-> IF i <= m THEN g[i] ELSE g[m] \o ps[i]]
      <3>2. Flattening(h, ps, m + 1)
        <4>1. ASSUME NEW i \in 1..(m + 1)
              PROVE  h[i] = IF i = 1 THEN ps[i] ELSE h[i - 1] \o ps[i]
          <5>1. CASE i = m + 1
            BY <5>1, <2>2
          <5>2. CASE i <= m
            <6>1. i \in 1..m
              BY <5>2
            <6>2. g[i] = IF i = 1 THEN ps[i] ELSE g[i - 1] \o ps[i]
              BY <3>1, <6>1, Zenon DEF Flattening
            <6> QED
              BY <6>2, <5>2
          <5> QED
            BY <5>1, <5>2
        <4> QED
          BY <4>1 DEF Flattening
      <3> QED
        BY <3>2
    <2> QED
      BY <2>1, <2>2, <1>2
  <1> HIDE DEF T
  <1>3. n \in T
    BY <1>1, <1>2, Induction
  <1> QED
    BY <1>3 DEF T

\* A sequence of pieces is put together one piece after the other.
LEMMA FlattenPrefixes ==
    ASSUME NEW S, NEW ps \in Seq(Seq(S))
    PROVE  \E g : /\ g[0] = <<>>
                  /\ \A i \in 1..Len(ps) : g[i] = g[i - 1] \o ps[i]
                  /\ \A i \in 0..Len(ps) : g[i] \in Seq(S)
                  /\ FlattenSeq(ps) = g[Len(ps)]
  <1> DEFINE n == Len(ps)
  <1>0. n \in Nat /\ (\A i \in 1..n : ps[i] \in Seq(S)) /\ DOMAIN ps = 1..n
    BY LenProperties, ElementOfSeq
  <1>1. CASE n = 0
    <2>1. ps = <<>>
      BY <1>1, EmptySeq
    <2>2. FlattenSeq(ps) = <<>>
      BY <2>1, <1>1 DEF FlattenSeq
    <2> DEFINE g == [i \in 0..0 |-> <<>>]
    <2> WITNESS g
    <2> QED
      BY <2>2, <1>1
  <1>2. CASE n > 0
    <2> DEFINE h == CHOOSE g : Flattening(g, ps, n)
    <2>1. Flattening(h, ps, n)
      BY <1>0, <1>2, FlatteningExists
    <2>2. FlattenSeq(ps) = h[n]
      BY <1>2 DEF FlattenSeq, Flattening
    <2> HIDE DEF h
    <2>3. \A i \in 1..n : h[i] = IF i = 1 THEN ps[i] ELSE h[i - 1] \o ps[i]
      BY <2>1, Zenon DEF Flattening
    <2> DEFINE g == [i \in 0..n |-> IF i = 0 THEN <<>> ELSE h[i]]
    <2>4. ASSUME NEW i \in 1..n PROVE g[i] = g[i - 1] \o ps[i]
      <3>1. CASE i = 1
        <4>1. g[0] = <<>> /\ g[1] = h[1]
          BY <1>0, <1>2
        <4>2. h[1] = ps[1]
          BY <2>3, <1>0, <1>2
        <4>3. <<>> \o ps[1] = ps[1]
          BY <1>0, <1>2, ConcatEmptySeq
        <4>4. i - 1 = 0
          BY <3>1
        <4> HIDE DEF g
        <4> QED
          BY <3>1, <4>1, <4>2, <4>3, <4>4, Zenon
      <3>2. CASE i > 1
        <4>1. g[i] = h[i] /\ g[i - 1] = h[i - 1]
          BY <3>2, <1>0
        <4>2. i # 1
          BY <3>2
        <4>3. h[i] = h[i - 1] \o ps[i]
          BY <4>2, <2>3, Zenon
        <4> HIDE DEF g
        <4> QED
          BY <4>1, <4>3, Zenon
      <3>3. i = 1 \/ i > 1
        OBVIOUS
      <3> HIDE DEF g
      <3> QED
        BY <3>1, <3>2, <3>3, Zenon
    <2>5. \A i \in 0..n : g[i] \in Seq(S)
      <3> DEFINE T == {i \in 0..n : g[i] \in Seq(S)}
      <3>1. 0 \in T
        BY <1>0
      <3>2. ASSUME NEW m \in 0..(n - 1), m \in T PROVE m + 1 \in T
        <4>1. m + 1 \in 1..n /\ (m + 1) - 1 = m
          BY <1>0
        <4>2. g[m + 1] = g[m] \o ps[m + 1]
          BY <4>1, <2>4
        <4> QED
          BY <4>1, <4>2, <3>2, <1>0, ConcatProperties
      <3> HIDE DEF T
      <3>3. \A i \in 0..n : i \in T
        BY <3>1, <3>2, <1>0, Induction
      <3> QED
        BY <3>3 DEF T
    <2>6. g[0] = <<>> /\ FlattenSeq(ps) = g[n]
      BY <2>2, <1>0, <1>2
    <2> HIDE DEF g
    <2> QED
      BY <2>4, <2>5, <2>6, Zenon
  <1>3. n = 0 \/ n > 0
    BY <1>0
  <1> QED
    BY <1>1, <1>2, <1>3, Zenon

\* The recursive function in Columns, up to m
Counting(c, since, highRate, m) ==
    c = [i \in 0..m |-> IF i = 0 THEN since ELSE Column(c[i - 1], fresh[i], highRate)]

\* It exists.
LEMMA CountingExists ==
    ASSUME NEW n \in Nat, NEW since, NEW highRate
    PROVE  \E c : Counting(c, since, highRate, n)
  <1> DEFINE T == {m \in 0..n : \E c : Counting(c, since, highRate, m)}
  <1>1. 0 \in T
    <2> DEFINE c == [i \in 0..0 |-> since]
    <2>1. Counting(c, since, highRate, 0)
      BY DEF Counting
    <2> QED
      BY <2>1
  <1>2. ASSUME NEW m \in 0..(n - 1), m \in T PROVE m + 1 \in T
    <2>1. PICK c : Counting(c, since, highRate, m)
      BY <1>2
    <2> DEFINE d == [i \in 0..(m + 1) |->
                        IF i <= m THEN c[i] ELSE Column(c[m], fresh[i], highRate)]
    <2>2. ASSUME NEW i \in 0..(m + 1)
          PROVE  d[i] = IF i = 0 THEN since ELSE Column(d[i - 1], fresh[i], highRate)
      <3>1. CASE i = m + 1
        BY <3>1
      <3>2. CASE i <= m
        <4>1. i \in 0..m
          BY <3>2
        <4>2. c[i] = IF i = 0 THEN since ELSE Column(c[i - 1], fresh[i], highRate)
          BY <2>1, <4>1, Zenon DEF Counting
        <4> QED
          BY <4>2, <3>2
      <3> QED
        BY <3>1, <3>2
    <2>3. Counting(d, since, highRate, m + 1)
      BY <2>2 DEF Counting
    <2> QED
      BY <2>3
  <1> HIDE DEF T
  <1>3. n \in T
    BY <1>1, <1>2, Induction
  <1> QED
    BY <1>3 DEF T

\* The columns are counted from one element to the next.
LEMMA ColumnsDef ==
    ASSUME NEW since \in Nat, NEW highRate, Len(fresh) \in Nat
    PROVE  /\ Columns(since, highRate)[0] = since
           /\ \A i \in 1..Len(fresh) :
                Columns(since, highRate)[i] =
                    Column(Columns(since, highRate)[i - 1], fresh[i], highRate)
           /\ \A i \in 0..Len(fresh) : Columns(since, highRate)[i] \in Nat
  <1> DEFINE n == Len(fresh)
             c == Columns(since, highRate)
  <1>1. Counting(c, since, highRate, n)
    BY CountingExists DEF Columns, Counting
  <1> HIDE DEF c
  <1>2. \A i \in 0..n : c[i] = IF i = 0 THEN since ELSE Column(c[i - 1], fresh[i], highRate)
    BY <1>1, Zenon DEF Counting
  <1>3. c[0] = since
    BY <1>2
  <1>4. ASSUME NEW i \in 1..n PROVE c[i] = Column(c[i - 1], fresh[i], highRate)
    <2>1. i \in 0..n /\ i # 0
      OBVIOUS
    <2> QED
      BY <2>1, <1>2, Zenon
  <1>5. \A i \in 0..n : c[i] \in Nat
    <2> DEFINE T == {i \in 0..n : c[i] \in Nat}
    <2>1. 0 \in T
      BY <1>3
    <2>2. ASSUME NEW m \in 0..(n - 1), m \in T PROVE m + 1 \in T
      <3>1. m + 1 \in 1..n /\ (m + 1) - 1 = m
        OBVIOUS
      <3>2. c[m + 1] = Column(c[m], fresh[m + 1], highRate)
        BY <3>1, <1>4
      <3> QED
        BY <3>1, <3>2, <2>2 DEF Column
    <2> HIDE DEF T
    <2>3. \A i \in 0..n : i \in T
      BY <2>1, <2>2, Induction
    <2> QED
      BY <2>3 DEF T
  <1> QED
    BY <1>3, <1>4, <1>5 DEF c

(***************************************************************************)
(* Lines.                                                                  *)
(***************************************************************************)

\* No line is too long, and the last one has at most n elements.
LineEnds(s, n) ==
    /\ \A i, j \in 1..Len(s) : i <= j /\ Lineless(s, i, j) => j - i + 1 <= LineBytes
    /\ \A i \in 1..Len(s) : Lineless(s, i, Len(s)) => Len(s) - i + 1 <= n

\* One more element
LEMMA AppendAt ==
    ASSUME NEW S, NEW s \in Seq(S), NEW x \in S
    PROVE  /\ s \o <<x>> \in Seq(S) /\ Len(s \o <<x>>) = Len(s) + 1 /\ Len(s) \in Nat
           /\ \A i \in 1..Len(s) : (s \o <<x>>)[i] = s[i]
           /\ (s \o <<x>>)[Len(s) + 1] = x
  OBVIOUS

\* Three parts
LEMMA Concatenated ==
    ASSUME NEW S, NEW s \in Seq(S)
    PROVE  \A q \in Seq(S), r \in Seq(S) : s \o (q \o r) = (s \o q) \o r /\ s \o q \in Seq(S)
  <1> TAKE q \in Seq(S), r \in Seq(S)
  <1>1. s \o (q \o r) = (s \o q) \o r
    BY ConcatAssociative
  <1>2. s \o q \in Seq(S)
    BY ConcatProperties
  <1> QED
    BY <1>1, <1>2

\* ... of what the consoles hold
LEMMA ConcatenatedItems ==
    \A p \in Seq(Items), q \in Seq(Items), r \in Seq(Items) :
        p \o (q \o r) = (p \o q) \o r
  <1> TAKE p \in Seq(Items)
  <1> QED
    BY Concatenated

\* A mark ends the line.
LEMMA MarkEndsLine ==
    ASSUME NEW S, NEW s \in Seq(S), NEW x \in S \cap LineMarks, NEW n \in Nat, NEW m \in Nat,
           LineEnds(s, n)
    PROVE  LineEnds(s \o <<x>>, m)
  <1> DEFINE t == s \o <<x>>
  <1>1. /\ Len(t) = Len(s) + 1 /\ Len(s) \in Nat
        /\ \A i \in 1..Len(s) : t[i] = s[i]
        /\ t[Len(s) + 1] = x
    BY AppendAt
  <1> HIDE DEF t
  <1>2. ASSUME NEW i \in 1..Len(t) PROVE ~Lineless(t, i, Len(t))
    BY <1>1 DEF Lineless
  <1>3. ASSUME NEW i \in 1..Len(t), NEW j \in 1..Len(t), i <= j, Lineless(t, i, j)
        PROVE  j - i + 1 <= LineBytes
    <2>1. j # Len(t)
      BY <1>2, <1>3
    <2>2. i \in 1..Len(s) /\ j \in 1..Len(s) /\ Lineless(s, i, j)
      BY <2>1, <1>1, <1>3 DEF Lineless
    <2> QED
      BY <2>2, <1>3 DEF LineEnds
  <1> QED
    BY <1>2, <1>3 DEF LineEnds, t

\* A byte makes it longer.
LEMMA ByteGrowsLine ==
    ASSUME NEW S, NEW s \in Seq(S), NEW x \in S, NEW n \in 0..(LineBytes - 1),
           LineEnds(s, n)
    PROVE  LineEnds(s \o <<x>>, n + 1)
  <1> DEFINE t == s \o <<x>>
  <1>0. LineBytes \in Nat \ {0}
    BY ConsoleAssumption
  <1>1. /\ Len(t) = Len(s) + 1 /\ Len(s) \in Nat
        /\ \A i \in 1..Len(s) : t[i] = s[i]
        /\ t[Len(s) + 1] = x
    BY AppendAt
  <1> HIDE DEF t
  <1>2. ASSUME NEW i \in 1..Len(t), Lineless(t, i, Len(t)) PROVE Len(t) - i + 1 <= n + 1
    <2>1. CASE i = Len(t)
      BY <2>1, <1>1
    <2>2. CASE i # Len(t)
      <3>1. i \in 1..Len(s) /\ Lineless(s, i, Len(s))
        BY <2>2, <1>1, <1>2 DEF Lineless
      <3> QED
        BY <3>1, <1>1 DEF LineEnds
    <2> QED
      BY <2>1, <2>2
  <1>3. ASSUME NEW i \in 1..Len(t), NEW j \in 1..Len(t), i <= j, Lineless(t, i, j)
        PROVE  j - i + 1 <= LineBytes
    <2>1. CASE j = Len(t)
      BY <2>1, <1>0, <1>2, <1>3
    <2>2. CASE j # Len(t)
      <3>1. i \in 1..Len(s) /\ j \in 1..Len(s) /\ Lineless(s, i, j)
        BY <2>2, <1>1, <1>3 DEF Lineless
      <3> QED
        BY <3>1, <1>3 DEF LineEnds
    <2> QED
      BY <2>1, <2>2
  <1> QED
    BY <1>2, <1>3 DEF LineEnds, t

\* What WithLines makes of one element x, between columns n and m
Due(x, due) == IF splitLines /\ x \notin LineMarks /\ due THEN <<NewLine>> ELSE <<>>
LinePiece(x, n, m) == Due(x, EndsLine(n)) \o <<x>> \o Due(x, m = 0)

LEMMA LinePieceType ==
    ASSUME NEW x \in Items, NEW n, NEW m
    PROVE  LinePiece(x, n, m) \in Seq(Items)
  <1>1. NewLine \in Items
    BY DEF Items, Marks, LineMarks
  <1>2. \A due : Due(x, due) \in Seq(Items)
    BY <1>1 DEF Due
  <1>3. <<x>> \in Seq(Items)
    OBVIOUS
  <1>4. Due(x, EndsLine(n)) \o <<x>> \in Seq(Items)
    BY <1>2, <1>3, ConcatProperties
  <1> QED
    BY <1>2, <1>4, ConcatProperties DEF LinePiece

\* The pieces are put together one after the other.
LEMMA LinesPrefixes ==
    ASSUME fresh \in Seq(Items), NEW since \in Nat, NEW highRate \in BOOLEAN
    PROVE  \E g : /\ g[0] = <<>>
                  /\ \A i \in 1..Len(fresh) :
                        g[i] = g[i - 1] \o LinePiece(fresh[i], Columns(since, highRate)[i - 1],
                                                     Columns(since, highRate)[i])
                  /\ \A i \in 0..Len(fresh) : g[i] \in Seq(Items)
                  /\ WithLines(since, highRate) = g[Len(fresh)]
  <1> DEFINE c == Columns(since, highRate)
             ps == [i \in 1..Len(fresh) |-> LinePiece(fresh[i], c[i - 1], c[i])]
  <1>1. WithLines(since, highRate) = FlattenSeq(ps)
    BY DEF WithLines, LinePiece, Due
  <1> HIDE DEF c
  <1>2. Len(fresh) \in Nat /\ \A i \in 1..Len(fresh) : fresh[i] \in Items
    BY LenProperties, ElementOfSeq
  <1>3. ps \in Seq(Seq(Items)) /\ Len(ps) = Len(fresh)
    BY <1>2, LinePieceType, IsASeq
  <1>4. \A i \in 1..Len(fresh) : ps[i] = LinePiece(fresh[i], c[i - 1], c[i])
    OBVIOUS
  <1> HIDE DEF ps
  <1>5. PICK g : /\ g[0] = <<>>
                 /\ \A i \in 1..Len(ps) : g[i] = g[i - 1] \o ps[i]
                 /\ \A i \in 0..Len(ps) : g[i] \in Seq(Items)
                 /\ FlattenSeq(ps) = g[Len(ps)]
    BY <1>3, FlattenPrefixes
  <1>6. \A i \in 1..Len(fresh) : g[i] = g[i - 1] \o LinePiece(fresh[i], c[i - 1], c[i])
    BY <1>3, <1>4, <1>5, Zenon
  <1> QED
    BY <1>1, <1>3, <1>5, <1>6, Zenon DEF c

\* A piece keeps the lines short, and its column is the length of the last one or more.
LEMMA PieceKeepsShort ==
    ASSUME NEW s \in Seq(Items), NEW x \in Items, NEW n \in Nat, NEW highRate \in BOOLEAN,
           splitLines, LineEnds(s, n), LineEnds(s, LineBytes - 1)
    PROVE  LET t == s \o LinePiece(x, n, Column(n, x, highRate))
           IN LineEnds(t, Column(n, x, highRate)) /\ LineEnds(t, LineBytes - 1)
  <1>0. LineBytes \in Nat \ {0} /\ NewLine \in Items \cap LineMarks
    BY ConsoleAssumption DEF Items, Marks, LineMarks
  <1> DEFINE m == Column(n, x, highRate)
  <1>1. m \in Nat
    BY DEF Column
  <1>2. CASE x \in LineMarks
    <2>1. LinePiece(x, n, m) = <<x>>
      BY <1>2 DEF LinePiece, Due
    <2>2. LineEnds(s \o <<x>>, m) /\ LineEnds(s \o <<x>>, LineBytes - 1)
      BY <1>0, <1>1, <1>2, MarkEndsLine
    <2> QED
      BY <2>1, <2>2
  <1>3. CASE x \notin LineMarks
    <2> DEFINE first == IF EndsLine(n) THEN 0 ELSE n
               u == s \o Due(x, EndsLine(n))
               v == u \o <<x>>
               w == v \o Due(x, m = 0)
    <2>1. first \in 0..(LineBytes - 1)
      BY <1>0 DEF EndsLine
    <2>2. u \in Seq(Items) /\ LineEnds(u, first)
      <3>1. CASE EndsLine(n)
        <4>1. u = s \o <<NewLine>>
          BY <1>3, <3>1 DEF Due
        <4> QED
          BY <4>1, <3>1, <1>0, MarkEndsLine, AppendAt
      <3>2. CASE ~EndsLine(n)
        <4>1. u = s
          BY <3>2, ConcatEmptySeq DEF Due
        <4> QED
          BY <4>1, <3>2
      <3> QED
        BY <3>1, <3>2
    <2> HIDE DEF u, first
    <2>3. v \in Seq(Items) /\ LineEnds(v, first + 1)
      BY <2>1, <2>2, ByteGrowsLine, AppendAt
    <2>4. m = IF EndsLine(first + 1) THEN 0 ELSE first + 1
      BY <1>3 DEF Column, first
    <2> HIDE DEF v
    <2>5. LineEnds(w, m) /\ LineEnds(w, LineBytes - 1)
      <3>1. CASE EndsLine(first + 1)
        <4>1. w = v \o <<NewLine>> /\ m = 0
          BY <1>3, <3>1, <2>4 DEF Due
        <4>2. first + 1 \in Nat /\ LineBytes - 1 \in Nat /\ NewLine \in Items \cap LineMarks
          BY <1>0, <2>1
        <4>3. LineEnds(v \o <<NewLine>>, 0) /\ LineEnds(v \o <<NewLine>>, LineBytes - 1)
          BY <4>2, <2>3, MarkEndsLine
        <4> QED
          BY <4>1, <4>3, Zenon
      <3>2. CASE ~EndsLine(first + 1)
        <4>1. m = first + 1 /\ m # 0 /\ m <= LineBytes - 1 /\ m \in Nat
          BY <1>0, <3>2, <2>1, <2>4 DEF EndsLine
        <4>2. w = v
          BY <4>1, <2>3, ConcatEmptySeq DEF Due
        <4>3. LineEnds(v, m)
          BY <4>1, <2>3
        <4>4. LineEnds(v, LineBytes - 1)
          <5>1. Len(v) \in Nat
            BY <2>3
          <5> QED
            BY <4>1, <4>3, <1>0, <5>1 DEF LineEnds
        <4> QED
          BY <4>2, <4>3, <4>4
      <3> QED
        BY <3>1, <3>2, Zenon
    <2>6. s \o LinePiece(x, n, m) = w
      <3>1. Due(x, EndsLine(n)) \in Seq(Items) /\ <<x>> \in Seq(Items) /\ Due(x, m = 0) \in Seq(Items)
        BY <1>0 DEF Due, EndsLine
      <3> HIDE DEF m
      <3> QED
        BY <3>1 DEF LinePiece, u, v
    <2> QED
      BY <2>5, <2>6
  <1> QED
    BY <1>2, <1>3

\* What an update shows after s has short lines, and the counter stands at the
\* length of the last one or more.
LEMMA UpdateKeepsShort ==
    ASSUME fresh \in Seq(Items), NEW s \in Seq(Items), NEW since \in Nat, NEW highRate \in BOOLEAN,
           splitLines, LineEnds(s, since), LineEnds(s, LineBytes - 1)
    PROVE  LET t == s \o WithLines(since, highRate)
           IN LineEnds(t, Columns(since, highRate)[Len(fresh)]) /\ LineEnds(t, LineBytes - 1)
  <1> DEFINE n == Len(fresh)
             c == Columns(since, highRate)
  <1>0. n \in Nat /\ \A i \in 1..n : fresh[i] \in Items
    BY LenProperties, ElementOfSeq
  <1>1. /\ c[0] = since
        /\ \A i \in 1..n : c[i] = Column(c[i - 1], fresh[i], highRate)
        /\ \A i \in 0..n : c[i] \in Nat
    BY <1>0, ColumnsDef
  <1>2. PICK g : /\ g[0] = <<>>
                 /\ \A i \in 1..n : g[i] = g[i - 1] \o LinePiece(fresh[i], c[i - 1], c[i])
                 /\ \A i \in 0..n : g[i] \in Seq(Items)
                 /\ WithLines(since, highRate) = g[n]
    BY LinesPrefixes
  <1> HIDE DEF c
  <1> DEFINE T == {i \in 0..n : LineEnds(s \o g[i], c[i]) /\ LineEnds(s \o g[i], LineBytes - 1)}
  <1>3. 0 \in T
    <2>1. s \o g[0] = s
      BY <1>2, ConcatEmptySeq
    <2>2. 0 \in 0..n
      BY <1>0
    <2> QED
      BY <2>1, <2>2, <1>1, Zenon
  <1>4. ASSUME NEW m \in 0..(n - 1), m \in T PROVE m + 1 \in T
    <2> DEFINE x == fresh[m + 1]
    <2>1. m + 1 \in 1..n /\ (m + 1) - 1 = m /\ m \in 0..n /\ m + 1 \in 0..n
      BY <1>0
    <2>2. x \in Items /\ c[m] \in Nat /\ c[m + 1] = Column(c[m], x, highRate)
      BY <2>1, <1>0, <1>1
    <2>3. g[m + 1] = g[m] \o LinePiece(x, c[m], c[m + 1]) /\ g[m] \in Seq(Items)
      BY <2>1, <1>2
    <2>4. LinePiece(x, c[m], c[m + 1]) \in Seq(Items)
      BY <2>2, LinePieceType
    <2>5. s \o g[m + 1] = (s \o g[m]) \o LinePiece(x, c[m], c[m + 1]) /\ s \o g[m] \in Seq(Items)
      <3>1. \A q \in Seq(Items), r \in Seq(Items) :
                s \o (q \o r) = (s \o q) \o r /\ s \o q \in Seq(Items)
        BY Concatenated
      <3> QED
        BY <3>1, <2>3, <2>4, Zenon
    <2>6. LineEnds(s \o g[m], c[m]) /\ LineEnds(s \o g[m], LineBytes - 1)
      BY <1>4
    <2> HIDE DEF x
    <2>7. LineEnds(s \o g[m + 1], c[m + 1]) /\ LineEnds(s \o g[m + 1], LineBytes - 1)
      BY <2>2, <2>5, <2>6, PieceKeepsShort
    <2> QED
      BY <2>1, <2>7
  <1> HIDE DEF T, n
  <1>5. \A m \in 0..n : m \in T
    BY <1>0, <1>3, <1>4, Induction
  <1>6. n \in T
    BY <1>0, <1>5
  <1> QED
    BY <1>2, <1>6 DEF T, c, n

(***************************************************************************)
(* What is kept.                                                           *)
(***************************************************************************)

\* After each byte of asking there is a time stamp, or it is still to come.
Followed(s, asking, open) ==
    \A i \in 1..Len(s) :
        s[i] \in asking =>
            \/ \E j \in (i + 1)..Len(s) :
                  s[j] \in {Stamp, MessageStamp} /\ OnlyLines(s, i, j - 1)
            \/ open /\ OnlyLines(s, i, Len(s))

\* s is an end of all: the whole of it, when whole.
Sound(s, all, asking, open, whole) ==
    /\ s \in Seq(Items)
    /\ \A b \in ToSet(s) : IsByte(b) => b \in all
    /\ InOrder(s)
    /\ NoGaps(s, all \ StampBytes)
    /\ Followed(s, asking, open)
    /\ whole => all \ StampBytes \subseteq ToSet(s)

LEMMA ToSetAt ==
    ASSUME NEW S, NEW s \in Seq(S)
    PROVE  ToSet(s) = {s[i] : i \in 1..Len(s)}
  BY DEF ToSet

LEMMA BytesArePositive ==
    (\A x \in Nat \ {0} : IsByte(x)) /\ (\A x \in Items : x \in Int)
  BY ConsoleAssumption DEF IsByte, Marks, LineMarks, Items

\* What was followed remains so when an element comes that is a stamp or a line,
\* or to which nothing was open.
LEMMA FollowedAppend ==
    ASSUME NEW s \in Seq(Items), NEW x \in Items, NEW asking, NEW open \in BOOLEAN, NEW after \in BOOLEAN,
           Followed(s, asking, open),
           \/ x = NewLine /\ x \notin asking /\ (open => after)
           \/ x \in {Stamp, MessageStamp} /\ x \notin asking
           \/ ~open /\ (x \in asking => after)
    PROVE  Followed(s \o <<x>>, asking, after)
  <1> DEFINE t == s \o <<x>>
  <1>1. /\ Len(t) = Len(s) + 1 /\ Len(s) \in Nat
        /\ \A i \in 1..Len(s) : t[i] = s[i]
        /\ t[Len(s) + 1] = x
    BY AppendAt
  <1> HIDE DEF t
  <1> SUFFICES ASSUME NEW i \in 1..Len(t), t[i] \in asking
               PROVE  \/ \E j \in (i + 1)..Len(t) :
                            t[j] \in {Stamp, MessageStamp} /\ OnlyLines(t, i, j - 1)
                      \/ after /\ OnlyLines(t, i, Len(t))
    BY DEF Followed, t
  <1>2. CASE i = Len(t)
    <2>1. OnlyLines(t, i, Len(t))
      BY <1>2, <1>1 DEF OnlyLines
    <2>2. x \in asking
      BY <1>2, <1>1
    <2> QED
      BY <2>1, <2>2
  <1>3. CASE i # Len(t)
    <2>1. i \in 1..Len(s) /\ s[i] \in asking
      BY <1>1, <1>3
    <2>2. CASE \E j \in (i + 1)..Len(s) : s[j] \in {Stamp, MessageStamp} /\ OnlyLines(s, i, j - 1)
      <3>1. PICK j \in (i + 1)..Len(s) : s[j] \in {Stamp, MessageStamp} /\ OnlyLines(s, i, j - 1)
        BY <2>2
      <3>2. j \in (i + 1)..Len(t) /\ t[j] = s[j]
        BY <2>1, <1>1
      <3>3. OnlyLines(t, i, j - 1)
        BY <3>1, <2>1, <1>1 DEF OnlyLines
      <3> QED
        BY <3>1, <3>2, <3>3
    <2>3. CASE open /\ OnlyLines(s, i, Len(s))
      <3>1. CASE x = NewLine
        <4>1. OnlyLines(t, i, Len(t))
          BY <3>1, <2>3, <2>1, <1>1 DEF OnlyLines
        <4> QED
          BY <4>1, <3>1, <2>3
      <3>2. CASE x \in {Stamp, MessageStamp}
        <4>1. Len(t) \in (i + 1)..Len(t) /\ t[Len(t)] = x
          BY <1>1, <2>1
        <4>2. OnlyLines(t, i, Len(t) - 1)
          BY <2>3, <2>1, <1>1 DEF OnlyLines
        <4> QED
          BY <4>1, <4>2, <3>2
      <3> QED
        BY <3>1, <3>2, <2>3
    <2> QED
      BY <2>1, <2>2, <2>3 DEF Followed
  <1> QED
    BY <1>2, <1>3

\* One more element, and what becomes of the elements of the sequence
LEMMA AppendToSet ==
    ASSUME NEW s \in Seq(Items), NEW x \in Items
    PROVE  ToSet(s \o <<x>>) = ToSet(s) \cup {x} /\ s \o <<x>> \in Seq(Items)
  <1> DEFINE t == s \o <<x>>
  <1>1. /\ t \in Seq(Items) /\ Len(t) = Len(s) + 1 /\ Len(s) \in Nat
        /\ \A i \in 1..Len(s) : t[i] = s[i]
        /\ t[Len(s) + 1] = x
    BY AppendAt
  <1> HIDE DEF t
  <1>2. ToSet(t) = {t[i] : i \in 1..Len(t)} /\ ToSet(s) = {s[i] : i \in 1..Len(s)}
    BY <1>1, ToSetAt
  <1>3. ToSet(s) \subseteq ToSet(t)
    BY <1>1, <1>2
  <1>4. x \in ToSet(t)
    BY <1>1, <1>2
  <1>5. ASSUME NEW y \in ToSet(t) PROVE y \in ToSet(s) \cup {x}
    <2>1. PICK i \in 1..Len(t) : y = t[i]
      BY <1>2
    <2> QED
      BY <2>1, <1>1, <1>2
  <1> QED
    BY <1>1, <1>3, <1>4, <1>5 DEF t

\* A mark
LEMMA SoundMark ==
    ASSUME NEW s, NEW x \in Marks, NEW all \in SUBSET (Nat \ {0}), NEW asking \in SUBSET (Nat \ {0}),
           NEW open \in BOOLEAN, NEW after \in BOOLEAN, NEW whole \in BOOLEAN,
           Sound(s, all, asking, open, whole),
           x = NewLine /\ open => after
    PROVE  Sound(s \o <<x>>, all, asking, after, whole)
  <1> DEFINE t == s \o <<x>>
  <1>0. s \in Seq(Items) /\ x \in Items /\ ~IsByte(x) /\ x \in {NewLine, Stamp, MessageStamp}
    BY DEF Sound, Items, IsByte, Marks, LineMarks
  <1>1. /\ t \in Seq(Items) /\ Len(t) = Len(s) + 1 /\ Len(s) \in Nat
        /\ \A i \in 1..Len(s) : t[i] = s[i]
        /\ t[Len(s) + 1] = x
    BY <1>0, AppendAt
  <1>2. ToSet(t) = ToSet(s) \cup {x}
    BY <1>0, AppendToSet
  <1>3. Followed(t, asking, after)
    BY <1>0, FollowedAppend DEF Sound
  <1> HIDE DEF t
  <1>4. InOrder(t)
    <2>1. ASSUME NEW i \in 1..Len(t), NEW j \in 1..Len(t), i < j, IsByte(t[i]), IsByte(t[j])
          PROVE  t[i] < t[j]
      <3>1. j # Len(t)
        BY <2>1, <1>0, <1>1
      <3>2. i \in 1..Len(s) /\ j \in 1..Len(s) /\ t[i] = s[i] /\ t[j] = s[j]
        BY <3>1, <2>1, <1>1
      <3> QED
        BY <3>2, <2>1 DEF Sound, InOrder
    <2> QED
      BY <2>1 DEF InOrder
  <1>5. NoGaps(t, all \ StampBytes)
    BY <1>0, <1>2 DEF NoGaps, Sound
  <1> QED
    BY <1>0, <1>1, <1>2, <1>3, <1>4, <1>5 DEF Sound, t

\* A byte that comes after all others
LEMMA SoundByte ==
    ASSUME NEW s, NEW b \in (Nat \ {0}) \cap Items, NEW all \in SUBSET (Nat \ {0}),
           NEW asking \in SUBSET (Nat \ {0}),
           NEW open \in BOOLEAN, NEW after \in BOOLEAN, NEW whole \in BOOLEAN,
           Sound(s, all, asking, open, whole), ~open,
           \A c \in all : c < b,
           b \in asking => after
    PROVE  Sound(s \o <<b>>, all \cup {b}, asking, after, whole)
  <1> DEFINE t == s \o <<b>>
  <1>0. s \in Seq(Items) /\ IsByte(b)
    BY DEF Sound, IsByte, Marks, LineMarks
  <1>1. /\ t \in Seq(Items) /\ Len(t) = Len(s) + 1 /\ Len(s) \in Nat
        /\ \A i \in 1..Len(s) : t[i] = s[i]
        /\ t[Len(s) + 1] = b
    BY <1>0, AppendAt
  <1>2. ToSet(t) = ToSet(s) \cup {b}
    BY <1>0, AppendToSet
  <1>3. Followed(t, asking, after)
    BY <1>0, FollowedAppend DEF Sound
  <1> HIDE DEF t
  <1>4. InOrder(t)
    <2>1. ASSUME NEW i \in 1..Len(t), NEW j \in 1..Len(t), i < j, IsByte(t[i]), IsByte(t[j])
          PROVE  t[i] < t[j]
      <3>1. i \in 1..Len(s) /\ t[i] = s[i]
        BY <2>1, <1>1
      <3>2. CASE j = Len(t)
        <4>1. s[i] \in ToSet(s)
          BY <3>1, <1>0, ToSetAt
        <4> QED
          BY <4>1, <3>1, <3>2, <2>1, <1>1 DEF Sound
      <3>3. CASE j # Len(t)
        <4>1. j \in 1..Len(s) /\ t[j] = s[j]
          BY <3>3, <1>1
        <4> QED
          BY <4>1, <3>1, <2>1 DEF Sound, InOrder
      <3> QED
        BY <3>2, <3>3
    <2> QED
      BY <2>1 DEF InOrder
  <1>5. NoGaps(t, (all \cup {b}) \ StampBytes)
    <2> SUFFICES ASSUME NEW a \in ToSet(t), IsByte(a),
                        NEW c \in (all \cup {b}) \ StampBytes, a <= c, c # b
                 PROVE  c \in ToSet(t)
      BY <1>2 DEF NoGaps
    <2>1. c \in all \ StampBytes /\ a # b
      OBVIOUS
    <2>2. a \in ToSet(s)
      BY <2>1, <1>2
    <2> QED
      BY <2>1, <2>2, <1>2 DEF Sound, NoGaps
  <1>6. \A a \in ToSet(t) : IsByte(a) => a \in all \cup {b}
    BY <1>2 DEF Sound
  <1>7. whole => (all \cup {b}) \ StampBytes \subseteq ToSet(t)
    BY <1>2 DEF Sound
  <1> QED
    BY <1>1, <1>3, <1>4, <1>5, <1>6, <1>7 DEF Sound, t

\* Nothing is open.
Closed(s, all, asking, whole) == Sound(s, all, asking, FALSE, whole)

\* A mark, or a byte that does not ask, leaves it so.
LEMMA ClosedMark ==
    ASSUME NEW s, NEW x \in Marks, NEW all \in SUBSET (Nat \ {0}), NEW asking \in SUBSET (Nat \ {0}),
           NEW whole \in BOOLEAN, Closed(s, all, asking, whole)
    PROVE  Closed(s \o <<x>>, all, asking, whole)
  <1> DEFINE no == FALSE
  <1>1. no \in BOOLEAN /\ (x = NewLine /\ no => no) /\ no = FALSE
    OBVIOUS
  <1> HIDE DEF no
  <1>2. Sound(s, all, asking, no, whole)
    BY <1>1, Zenon DEF Closed
  <1>3. Sound(s \o <<x>>, all, asking, no, whole)
    BY <1>1, <1>2, SoundMark
  <1> QED
    BY <1>1, <1>3, Zenon DEF Closed

LEMMA ClosedByte ==
    ASSUME NEW s, NEW b \in (Nat \ {0}) \cap Items, NEW all \in SUBSET (Nat \ {0}),
           NEW asking \in SUBSET (Nat \ {0}), NEW whole \in BOOLEAN,
           Closed(s, all, asking, whole),
           \A c \in all : c < b,
           b \notin asking
    PROVE  Closed(s \o <<b>>, all \cup {b}, asking, whole)
  <1> DEFINE no == FALSE
  <1>1. no \in BOOLEAN /\ (b \in asking => no) /\ no = FALSE
    OBVIOUS
  <1> HIDE DEF no
  <1>2. Sound(s, all, asking, no, whole) /\ ~no
    BY <1>1, Zenon DEF Closed
  <1>3. Sound(s \o <<b>>, all \cup {b}, asking, no, whole)
    BY <1>1, <1>2, SoundByte
  <1> QED
    BY <1>1, <1>3, Zenon DEF Closed

\* A byte consoleTimestampAt that gets lost; what is still open may be claimed.
LEMMA SoundLost ==
    ASSUME NEW s, NEW b \in StampBytes, NEW all, NEW asking,
           NEW open \in BOOLEAN, NEW after \in BOOLEAN, NEW whole \in BOOLEAN,
           Sound(s, all, asking, open, whole), open => after
    PROVE  Sound(s, all \cup {b}, asking, after, whole)
  <1>1. (all \cup {b}) \ StampBytes = all \ StampBytes
    OBVIOUS
  <1>2. Followed(s, asking, open) => Followed(s, asking, after)
    BY DEF Followed
  <1> QED
    BY <1>1, <1>2 DEF Sound

\* Fewer bytes ask.
LEMMA SoundFewer ==
    ASSUME NEW s, NEW all, NEW asking, NEW fewer \in SUBSET asking,
           NEW open \in BOOLEAN, NEW whole \in BOOLEAN,
           Sound(s, all, asking, open, whole)
    PROVE  Sound(s, all, fewer, open, whole)
  BY DEF Sound, Followed

(***************************************************************************)
(* What a message adds.                                                    *)
(***************************************************************************)

\* The bytes of a message that comes after base, up to its m-th
Until(all, base, m) == all \cup {base + i : i \in 1..m}
Message(base, n) == [i \in 1..n |-> base + i]

LEMMA UntilNext ==
    ASSUME NEW base \in Nat, NEW all \in SUBSET (1..base), NEW m \in Nat
    PROVE  /\ Until(all, base, 0) = all
           /\ Until(all, base, m) \in SUBSET (Nat \ {0})
           /\ \A c \in Until(all, base, m) : c < base + (m + 1)
           /\ Until(all, base, m + 1) = Until(all, base, m) \cup {base + (m + 1)}
  <1>1. Until(all, base, 0) = all
    BY DEF Until
  <1>2. \A c \in Until(all, base, m) : c \in Nat \ {0} /\ c < base + (m + 1)
    <2>1. \A c \in all : c \in 1..base
      OBVIOUS
    <2>2. \A i \in 1..m : base + i \in Nat \ {0} /\ base + i < base + (m + 1)
      OBVIOUS
    <2>3. \A c \in 1..base : c \in Nat \ {0} /\ c < base + (m + 1)
      OBVIOUS
    <2> QED
      BY <2>1, <2>2, <2>3 DEF Until
  <1>3. {base + i : i \in 1..(m + 1)} = {base + i : i \in 1..m} \cup {base + (m + 1)}
    OBVIOUS
  <1> QED
    BY <1>1, <1>2, <1>3 DEF Until

\* When each piece keeps what is kept sound, all of them do.
LEMMA SoundPieces ==
    ASSUME NEW ps \in Seq(Seq(Items)), NEW u, NEW all, NEW base, NEW asking, NEW whole,
           NEW opens,
           Sound(u, Until(all, base, 0), asking, opens[0], whole),
           \A m \in 0..(Len(ps) - 1) : \A t :
              Sound(t, Until(all, base, m), asking, opens[m], whole) =>
                 Sound(t \o ps[m + 1], Until(all, base, m + 1), asking, opens[m + 1], whole)
    PROVE  /\ Sound(u \o FlattenSeq(ps), Until(all, base, Len(ps)), asking, opens[Len(ps)], whole)
           /\ FlattenSeq(ps) \in Seq(Items)
  <1> DEFINE n == Len(ps)
  <1>0. u \in Seq(Items) /\ n \in Nat /\ \A i \in 1..n : ps[i] \in Seq(Items)
    BY LenProperties, ElementOfSeq DEF Sound
  <1>1. PICK g : /\ g[0] = <<>>
                 /\ \A i \in 1..n : g[i] = g[i - 1] \o ps[i]
                 /\ \A i \in 0..n : g[i] \in Seq(Items)
                 /\ FlattenSeq(ps) = g[n]
    BY FlattenPrefixes
  <1> DEFINE T == {m \in 0..n : Sound(u \o g[m], Until(all, base, m), asking, opens[m], whole)}
  <1>2. 0 \in T
    <2>1. u \o g[0] = u
      BY <1>0, <1>1, ConcatEmptySeq
    <2>2. 0 \in 0..n
      BY <1>0
    <2> QED
      BY <2>1, <2>2, Zenon
  <1>3. ASSUME NEW m \in 0..(n - 1), m \in T PROVE m + 1 \in T
    <2>1. m + 1 \in 1..n /\ (m + 1) - 1 = m /\ m \in 0..n /\ m + 1 \in 0..n
      BY <1>0
    <2>2. g[m + 1] = g[m] \o ps[m + 1]
      BY <2>1, <1>1
    <2>3. g[m] \in Seq(Items) /\ ps[m + 1] \in Seq(Items)
      BY <2>1, <1>0, <1>1
    <2>4. u \o g[m + 1] = (u \o g[m]) \o ps[m + 1]
      <3>1. \A q \in Seq(Items), r \in Seq(Items) : u \o (q \o r) = (u \o q) \o r
        BY <1>0, ConcatenatedItems
      <3> QED
        BY <3>1, <2>2, <2>3, Zenon
    <2>5. Sound(u \o g[m], Until(all, base, m), asking, opens[m], whole)
      BY <1>3
    <2>6. Sound((u \o g[m]) \o ps[m + 1], Until(all, base, m + 1), asking, opens[m + 1], whole)
      BY <2>5, Zenon
    <2> QED
      BY <2>1, <2>4, <2>6, Zenon
  <1> HIDE DEF T
  <1>4. \A m \in 0..n : m \in T
    BY <1>0, <1>2, <1>3, Induction
  <1>5. n \in T /\ n \in 0..n
    BY <1>0, <1>4
  <1> QED
    BY <1>1, <1>5 DEF T

\* Data without bytes that ask for a stamp are appended as they are, ...
LEMMA SoundPlain ==
    ASSUME NEW u, NEW base \in Nat, NEW n \in Nat, base + n <= MaxBytes,
           NEW all \in SUBSET (1..base), NEW asking \in SUBSET (Nat \ {0}), NEW whole \in BOOLEAN,
           Closed(u, all, asking, whole),
           \A i \in 1..n : base + i \notin asking
    PROVE  /\ Closed(u \o Message(base, n), Until(all, base, n), asking, whole)
           /\ Message(base, n) \in Seq(Items)
  <1> DEFINE ps == [i \in 1..n |-> <<base + i>>]
             opens == [i \in 0..n |-> FALSE]
  <1>0. \A i \in 1..n : base + i \in (Nat \ {0}) \cap Items
    BY ConsoleAssumption DEF Items
  <1>1. ps \in Seq(Seq(Items)) /\ Len(ps) = n
    <2>1. \A i \in 1..n : <<base + i>> \in Seq(Items)
      BY <1>0
    <2> QED
      BY <2>1, IsASeq
  <1>2. FlattenSeq(ps) = Message(base, n)
    <2>1. PICK g : /\ g[0] = <<>>
                   /\ \A i \in 1..n : g[i] = g[i - 1] \o ps[i]
                   /\ \A i \in 0..n : g[i] \in Seq(Items)
                   /\ FlattenSeq(ps) = g[n]
      <3> HIDE DEF ps
      <3> QED
        BY <1>1, FlattenPrefixes
    <2> DEFINE T == {m \in 0..n : g[m] = Message(base, m)}
    <2>2. 0 \in T
      BY <2>1 DEF Message
    <2>3. ASSUME NEW m \in 0..(n - 1), m \in T PROVE m + 1 \in T
      <3>1. m + 1 \in 1..n /\ (m + 1) - 1 = m /\ m \in 0..n
        OBVIOUS
      <3>2. g[m + 1] = Message(base, m) \o <<base + (m + 1)>>
        BY <3>1, <2>1, <2>3
      <3>3. Message(base, m) \o <<base + (m + 1)>> = Message(base, m + 1)
        BY <3>1 DEF Message
      <3> QED
        BY <3>1, <3>2, <3>3
    <2> HIDE DEF T
    <2>4. \A m \in 0..n : m \in T
      BY <2>2, <2>3, Induction
    <2> QED
      BY <2>1, <2>4 DEF T
  <1>3. ASSUME NEW m \in 0..(n - 1), NEW t, Sound(t, Until(all, base, m), asking, opens[m], whole)
        PROVE  Sound(t \o ps[m + 1], Until(all, base, m + 1), asking, opens[m + 1], whole)
    <2>1. m + 1 \in 1..n /\ m \in 0..n /\ m + 1 \in 0..n /\ m \in Nat
      OBVIOUS
    <2>2. ps[m + 1] = <<base + (m + 1)>> /\ opens[m] = FALSE /\ opens[m + 1] = FALSE
      BY <2>1
    <2> HIDE DEF ps, opens
    <2>3. /\ Until(all, base, m) \in SUBSET (Nat \ {0})
          /\ \A c \in Until(all, base, m) : c < base + (m + 1)
          /\ Until(all, base, m + 1) = Until(all, base, m) \cup {base + (m + 1)}
      BY <2>1, UntilNext
    <2>4. base + (m + 1) \in (Nat \ {0}) \cap Items /\ base + (m + 1) \notin asking
      BY <2>1, <1>0
    <2>5. Closed(t, Until(all, base, m), asking, whole)
      BY <2>2, <1>3, Zenon DEF Closed
    <2>6. Closed(t \o <<base + (m + 1)>>, Until(all, base, m) \cup {base + (m + 1)}, asking, whole)
      BY <2>3, <2>4, <2>5, ClosedByte
    <2> QED
      BY <2>2, <2>3, <2>6, Zenon DEF Closed
  <1>4. Sound(u, Until(all, base, 0), asking, opens[0], whole)
    <2>1. Until(all, base, 0) = all /\ opens[0] = FALSE
      BY UntilNext
    <2> QED
      BY <2>1, Zenon DEF Closed
  <1>5. opens[n] = FALSE
    OBVIOUS
  <1> HIDE DEF ps, opens
  <1>6. /\ Sound(u \o FlattenSeq(ps), Until(all, base, n), asking, opens[n], whole)
        /\ FlattenSeq(ps) \in Seq(Items)
    BY <1>1, <1>3, <1>4, SoundPieces
  <1> QED
    BY <1>2, <1>5, <1>6, Zenon DEF Closed

\* ... or with new lines, ...
LEMMA SoundBreaks ==
    ASSUME NEW u, NEW base \in Nat, NEW n \in Nat, base + n <= MaxBytes,
           NEW all \in SUBSET (1..base), NEW asking \in SUBSET (Nat \ {0}), NEW whole \in BOOLEAN,
           Closed(u, all, asking, whole),
           \A i \in 1..n : base + i \notin asking
    PROVE  /\ Closed(u \o WithBreaks(Message(base, n)), Until(all, base, n), asking, whole)
           /\ WithBreaks(Message(base, n)) \in Seq(Items)
  <1> DEFINE ps == [i \in 1..n |-> IF base + i \in BreakBytes THEN <<base + i, NewLine>>
                                   ELSE <<base + i>>]
             opens == [i \in 0..n |-> FALSE]
  <1>0. /\ \A i \in 1..n : base + i \in (Nat \ {0}) \cap Items
        /\ NewLine \in Items \cap Marks
    BY ConsoleAssumption DEF Items, Marks, LineMarks
  <1>1. ps \in Seq(Seq(Items)) /\ Len(ps) = n
    <2>1. \A i \in 1..n : ps[i] \in Seq(Items)
      BY <1>0
    <2> QED
      BY <2>1, IsASeq
  <1>2. WithBreaks(Message(base, n)) = FlattenSeq(ps)
    <2>1. Len(Message(base, n)) = n /\ \A i \in 1..n : Message(base, n)[i] = base + i
      BY DEF Message
    <2> QED
      BY <2>1 DEF WithBreaks
  <1>3. ASSUME NEW m \in 0..(n - 1), NEW t, Sound(t, Until(all, base, m), asking, opens[m], whole)
        PROVE  Sound(t \o ps[m + 1], Until(all, base, m + 1), asking, opens[m + 1], whole)
    <2> DEFINE b == base + (m + 1)
    <2>1. m + 1 \in 1..n /\ m \in 0..n /\ m + 1 \in 0..n /\ m \in Nat
      OBVIOUS
    <2>2. /\ ps[m + 1] = IF b \in BreakBytes THEN <<b, NewLine>> ELSE <<b>>
          /\ opens[m] = FALSE /\ opens[m + 1] = FALSE
      BY <2>1
    <2> HIDE DEF ps, opens
    <2>3. /\ Until(all, base, m) \in SUBSET (Nat \ {0})
          /\ Until(all, base, m + 1) \in SUBSET (Nat \ {0})
          /\ \A c \in Until(all, base, m) : c < b
          /\ Until(all, base, m + 1) = Until(all, base, m) \cup {b}
      <3>1. m \in Nat /\ m + 1 \in Nat
        OBVIOUS
      <3>2. Until(all, base, m + 1) \in SUBSET (Nat \ {0})
        BY <3>1, UntilNext
      <3> QED
        BY <3>1, <3>2, UntilNext
    <2>4. b \in (Nat \ {0}) \cap Items /\ b \notin asking
      BY <2>1, <1>0
    <2> HIDE DEF b
    <2>5. Closed(t \o <<b>>, Until(all, base, m + 1), asking, whole)
      <3>1. Closed(t, Until(all, base, m), asking, whole)
        BY <2>2, <1>3, Zenon DEF Closed
      <3>2. Closed(t \o <<b>>, Until(all, base, m) \cup {b}, asking, whole)
        BY <2>3, <2>4, <3>1, ClosedByte
      <3> QED
        BY <2>3, <3>2, Zenon
    <2>6. CASE b \in BreakBytes
      <3>1. Closed((t \o <<b>>) \o <<NewLine>>, Until(all, base, m + 1), asking, whole)
        BY <2>3, <2>5, <1>0, ClosedMark
      <3>2. (t \o <<b>>) \o <<NewLine>> = t \o <<b, NewLine>>
        <4>1. t \in Seq(Items)
          BY <1>3, Zenon DEF Sound
        <4> QED
          BY <4>1, <2>4, <1>0
      <3>3. ps[m + 1] = <<b, NewLine>>
        BY <2>2, <2>6
      <3> QED
        BY <3>1, <3>2, <3>3, <2>2, Zenon DEF Closed
    <2>7. CASE b \notin BreakBytes
      <3>1. ps[m + 1] = <<b>>
        BY <2>2, <2>7
      <3> QED
        BY <3>1, <2>2, <2>5, Zenon DEF Closed
    <2> QED
      BY <2>6, <2>7, Zenon
  <1>4. Sound(u, Until(all, base, 0), asking, opens[0], whole)
    <2>1. Until(all, base, 0) = all /\ opens[0] = FALSE
      BY UntilNext
    <2> QED
      BY <2>1, Zenon DEF Closed
  <1>5. opens[n] = FALSE
    OBVIOUS
  <1> HIDE DEF ps, opens
  <1>6. /\ Sound(u \o FlattenSeq(ps), Until(all, base, n), asking, opens[n], whole)
        /\ FlattenSeq(ps) \in Seq(Items)
    BY <1>1, <1>3, <1>4, SoundPieces
  <1> QED
    BY <1>2, <1>5, <1>6, Zenon DEF Closed

\* ... or with time stamps: one is still to come when the last byte asks for it.
LEMMA SoundStamps ==
    ASSUME NEW u, NEW base \in Nat, NEW n \in Nat \ {0}, base + n <= MaxBytes,
           NEW all \in SUBSET (1..base), NEW asking \in SUBSET StampBytes, NEW whole \in BOOLEAN,
           Closed(u, all, asking, whole)
    PROVE  /\ Sound(u \o WithStamps(Message(base, n)), Until(all, base, n), asking,
                    EndsWithStamp(Message(base, n)), whole)
           /\ WithStamps(Message(base, n)) \in Seq(Items)
  <1> DEFINE kept(i) == base + i \notin StampBytes \/ (i > 1 /\ base + (i - 1) \notin StampBytes)
             byte(i) == IF kept(i) THEN <<base + i>> ELSE <<>>
             mark(i) == IF base + i \in StampBytes /\ i < n THEN <<Stamp>> ELSE <<>>
             ps == [i \in 1..n |-> byte(i) \o mark(i)]
             opens == [i \in 0..n |-> i = n /\ base + i \in StampBytes]
  <1>0. /\ \A i \in 1..n : base + i \in (Nat \ {0}) \cap Items
        /\ Stamp \in Items \cap Marks
        /\ asking \in SUBSET (Nat \ {0})
    BY ConsoleAssumption DEF Items, Marks, LineMarks
  <1>1. \A i \in 1..n : byte(i) \in Seq(Items) /\ mark(i) \in Seq(Items)
    BY <1>0
  <1>2. WithStamps(Message(base, n)) = FlattenSeq(ps)
    <2>1. Len(Message(base, n)) = n /\ \A i \in 1..n : Message(base, n)[i] = base + i
      BY DEF Message
    <2>2. \A i \in 1..n : i > 1 => i - 1 \in 1..n
      OBVIOUS
    <2>3. \A i \in 1..n : i > 1 => Message(base, n)[i - 1] = base + (i - 1)
      BY <2>1, <2>2
    <2> QED
      BY <2>1, <2>3 DEF WithStamps
  <1>3. ASSUME NEW m \in 0..n PROVE opens[m] \in BOOLEAN /\ (m < n => ~opens[m])
    <2>1. opens[m] = (m = n /\ base + m \in StampBytes)
      OBVIOUS
    <2>2. m < n => m # n
      OBVIOUS
    <2> HIDE DEF opens
    <2> QED
      BY <2>1, <2>2, Zenon
  <1>4. ASSUME NEW m \in 0..(n - 1), NEW t, Sound(t, Until(all, base, m), asking, opens[m], whole)
        PROVE  Sound(t \o ps[m + 1], Until(all, base, m + 1), asking, opens[m + 1], whole)
    <2> DEFINE b == base + (m + 1)
               v == t \o byte(m + 1)
               yes == b \in StampBytes
    <2>1. m + 1 \in 1..n /\ m \in 0..n /\ m + 1 \in 0..n /\ m \in Nat /\ m < n
      OBVIOUS
    <2>2. ps[m + 1] = byte(m + 1) \o mark(m + 1) /\ opens[m] \in BOOLEAN /\ ~opens[m] /\ opens[m + 1] \in BOOLEAN
      BY <2>1, <1>3
    <2>3. /\ Until(all, base, m) \in SUBSET (Nat \ {0})
          /\ Until(all, base, m + 1) \in SUBSET (Nat \ {0})
          /\ \A c \in Until(all, base, m) : c < b
          /\ Until(all, base, m + 1) = Until(all, base, m) \cup {b}
      <3>1. m \in Nat /\ m + 1 \in Nat
        OBVIOUS
      <3>2. Until(all, base, m + 1) \in SUBSET (Nat \ {0})
        BY <3>1, UntilNext
      <3> QED
        BY <3>1, <3>2, UntilNext
    <2>4. b \in (Nat \ {0}) \cap Items /\ (b \in asking => yes) /\ yes \in BOOLEAN
      BY <2>1, <1>0
    <2>5. t \in Seq(Items)
      BY <1>4, Zenon DEF Sound
    <2>6. byte(m + 1) \in Seq(Items) /\ mark(m + 1) \in Seq(Items)
      BY <2>1, <1>1
    <2>7. t \o ps[m + 1] = v \o mark(m + 1) /\ v \in Seq(Items)
      <3>1. \A q \in Seq(Items), r \in Seq(Items) : t \o (q \o r) = (t \o q) \o r /\ t \o q \in Seq(Items)
        BY <2>5, Concatenated
      <3> HIDE DEF ps, byte, mark
      <3> QED
        BY <3>1, <2>2, <2>6, Zenon
    <2>8. Sound(v, Until(all, base, m + 1), asking, yes, whole)
      <3>1. CASE kept(m + 1)
        <4>1. v = t \o <<b>>
          BY <3>1
        <4> DEFINE was == opens[m]
        <4> HIDE DEF opens, v, b, yes
        <4>2. Sound(t, Until(all, base, m), asking, was, whole) /\ was \in BOOLEAN /\ ~was
          BY <1>4, <2>2, Zenon
        <4> HIDE DEF was
        <4>3. Sound(t \o <<b>>, Until(all, base, m) \cup {b}, asking, yes, whole)
          BY <4>2, <2>3, <2>4, <1>0, SoundByte
        <4> QED
          BY <4>1, <4>3, <2>3, Zenon
      <3>2. CASE ~kept(m + 1)
        <4>1. v = t
          BY <3>2, <2>5, ConcatEmptySeq
        <4>2. b \in StampBytes
          BY <3>2
        <4> HIDE DEF opens, v, b, yes
        <4>3. Sound(t, Until(all, base, m) \cup {b}, asking, yes, whole)
          BY <1>4, <2>2, <2>4, <4>2, SoundLost
        <4> QED
          BY <4>1, <4>3, <2>3, Zenon
      <3> QED
        BY <3>1, <3>2
    <2>9. CASE b \in StampBytes /\ m + 1 < n
      <3>1. mark(m + 1) = <<Stamp>>
        BY <2>9
      <3> HIDE DEF opens, v, b, yes, ps
      <3>2. Sound(v \o <<Stamp>>, Until(all, base, m + 1), asking, opens[m + 1], whole)
        BY <1>0, <2>2, <2>3, <2>4, <2>8, SoundMark
      <3> QED
        BY <3>1, <3>2, <2>7, Zenon
    <2>10. CASE ~(b \in StampBytes /\ m + 1 < n)
      <3>1. mark(m + 1) = <<>> /\ opens[m + 1] = yes
        BY <2>1, <2>10
      <3>2. t \o ps[m + 1] = v
        <4> HIDE DEF mark, v, ps
        <4> QED
          BY <3>1, <2>7, ConcatEmptySeq
      <3> HIDE DEF opens, v, b, yes, ps
      <3> QED
        BY <3>1, <3>2, <2>8, Zenon
    <2> QED
      BY <2>9, <2>10, Zenon
  <1>5. Sound(u, Until(all, base, 0), asking, opens[0], whole)
    <2>1. Until(all, base, 0) = all
      BY UntilNext
    <2>2. opens[0] = FALSE
      <3>1. 0 \in 0..n /\ 0 < n
        OBVIOUS
      <3>2. opens[0] \in BOOLEAN /\ ~opens[0]
        BY <3>1, <1>3
      <3> HIDE DEF opens
      <3> QED
        BY <3>2, Zenon
    <2> HIDE DEF opens
    <2> QED
      BY <2>1, <2>2, Zenon DEF Closed
  <1>6. opens[n] = EndsWithStamp(Message(base, n))
    BY DEF EndsWithStamp, Message
  <1>7. ps \in Seq(Seq(Items)) /\ Len(ps) = n
    <2>1. \A i \in 1..n : byte(i) \o mark(i) \in Seq(Items)
      <3> HIDE DEF byte, mark
      <3> QED
        BY <1>1, ConcatProperties
    <2> HIDE DEF byte, mark
    <2> QED
      BY <2>1, IsASeq
  <1> HIDE DEF ps, opens
  <1>8. /\ Sound(u \o FlattenSeq(ps), Until(all, base, n), asking, opens[n], whole)
        /\ FlattenSeq(ps) \in Seq(Items)
    BY <1>4, <1>5, <1>7, SoundPieces
  <1> QED
    BY <1>2, <1>6, <1>8, Zenon

(***************************************************************************)
(* What is cut off, and what an update inserts.                            *)
(***************************************************************************)

\* The end of what is sound
LEMMA SoundEnd ==
    ASSUME NEW s, NEW all \in SUBSET (Nat \ {0}), NEW asking \in SUBSET (Nat \ {0}),
           NEW open \in BOOLEAN, NEW whole \in BOOLEAN, NEW part \in BOOLEAN, ~part,
           Sound(s, all, asking, open, whole), NEW d \in 0..Len(s)
    PROVE  LET t == SubSeq(s, d + 1, Len(s))
           IN Sound(t, all, asking, open, part) /\ Len(t) = Len(s) - d
  <1> DEFINE t == SubSeq(s, d + 1, Len(s))
  <1>0. s \in Seq(Items) /\ Len(s) \in Nat /\ \A i \in 1..Len(s) : s[i] \in Items
    BY LenProperties, ElementOfSeq DEF Sound
  <1>1. /\ t \in Seq(Items) /\ Len(t) = Len(s) - d
        /\ \A i \in 1..Len(t) : t[i] = s[i + d] /\ i + d \in 1..Len(s)
    <2>1. \A i \in (d + 1)..Len(s) : s[i] \in Items
      BY <1>0
    <2>2. t \in Seq(Items) /\ Len(t) = Len(s) - d
      BY <2>1, <1>0, SubSeqProperties
    <2>3. ASSUME NEW i \in 1..Len(t) PROVE t[i] = s[i + d] /\ i + d \in 1..Len(s)
      <3>1. i \in 1..(Len(s) - (d + 1) + 1)
        BY <2>2, <1>0
      <3>2. t[i] = s[(d + 1) + i - 1]
        BY <3>1, <2>1, <1>0, SubSeqProperties
      <3>3. (d + 1) + i - 1 = i + d
        OBVIOUS
      <3> QED
        BY <3>1, <3>2, <3>3, <1>0
    <2> QED
      BY <2>2, <2>3
  <1> HIDE DEF t
  <1>2. \A i \in (d + 1)..Len(s) : i - d \in 1..Len(t) /\ t[i - d] = s[i]
    BY <1>0, <1>1
  <1>3. ToSet(t) = {t[i] : i \in 1..Len(t)} /\ ToSet(s) = {s[i] : i \in 1..Len(s)}
    BY <1>0, <1>1, ToSetAt
  <1>4. ToSet(t) \subseteq ToSet(s)
    BY <1>1, <1>3
  <1>5. InOrder(t)
    <2>1. ASSUME NEW i \in 1..Len(t), NEW j \in 1..Len(t), i < j, IsByte(t[i]), IsByte(t[j])
          PROVE  t[i] < t[j]
      <3>1. i + d < j + d
        BY <2>1
      <3> QED
        BY <3>1, <2>1, <1>1 DEF Sound, InOrder
    <2> QED
      BY <2>1 DEF InOrder
  <1>6. NoGaps(t, all \ StampBytes)
    <2> SUFFICES ASSUME NEW b \in ToSet(t), IsByte(b), NEW c \in all \ StampBytes, b <= c
                 PROVE  c \in ToSet(t)
      BY DEF NoGaps
    <2>1. c \in ToSet(s)
      BY <1>4 DEF Sound, NoGaps
    <2>2. PICK j \in 1..Len(s) : c = s[j]
      BY <2>1, <1>3
    <2>3. PICK i \in 1..Len(t) : b = t[i]
      BY <1>3
    <2>4. IsByte(c) /\ c \in Nat /\ b \in Int
      <3>1. c \in Nat \ {0} /\ b \in Items
        BY <1>0, <1>1, <2>3
      <3> QED
        BY <3>1, BytesArePositive
    <2>5. CASE j > d
      BY <2>5, <2>2, <1>2, <1>3, <1>0
    <2>6. CASE j <= d
      <3>1. j < i + d /\ s[i + d] = b /\ i + d \in 1..Len(s)
        BY <2>6, <2>3, <1>1
      <3>2. c < b
        BY <3>1, <2>2, <2>4 DEF Sound, InOrder
      <3> QED
        BY <3>2, <2>4
    <2> QED
      BY <2>5, <2>6, <1>0
  <1>7. Followed(t, asking, open)
    <2> SUFFICES ASSUME NEW i \in 1..Len(t), t[i] \in asking
                 PROVE  \/ \E j \in (i + 1)..Len(t) :
                              t[j] \in {Stamp, MessageStamp} /\ OnlyLines(t, i, j - 1)
                        \/ open /\ OnlyLines(t, i, Len(t))
      BY DEF Followed
    <2>1. i + d \in 1..Len(s) /\ s[i + d] \in asking
      BY <1>1
    <2>2. CASE \E j \in (i + d + 1)..Len(s) :
                    s[j] \in {Stamp, MessageStamp} /\ OnlyLines(s, i + d, j - 1)
      <3>1. PICK j \in (i + d + 1)..Len(s) :
                    s[j] \in {Stamp, MessageStamp} /\ OnlyLines(s, i + d, j - 1)
        BY <2>2
      <3>2. j - d \in (i + 1)..Len(t) /\ t[j - d] = s[j]
        BY <1>0, <1>1, <1>2
      <3>3. OnlyLines(t, i, j - d - 1)
        <4> SUFFICES ASSUME NEW l \in (i + 1)..(j - d - 1) PROVE t[l] = NewLine
          BY DEF OnlyLines
        <4>1. l + d \in (i + d + 1)..(j - 1) /\ l \in 1..Len(t)
          BY <3>2, <1>0, <1>1
        <4> QED
          BY <4>1, <3>1, <1>1 DEF OnlyLines
      <3> QED
        BY <3>1, <3>2, <3>3
    <2>3. CASE open /\ OnlyLines(s, i + d, Len(s))
      <3>1. OnlyLines(t, i, Len(t))
        <4> SUFFICES ASSUME NEW l \in (i + 1)..Len(t) PROVE t[l] = NewLine
          BY DEF OnlyLines
        <4>1. l + d \in (i + d + 1)..Len(s) /\ l \in 1..Len(t)
          BY <1>0, <1>1
        <4> QED
          BY <4>1, <2>3, <1>1 DEF OnlyLines
      <3> QED
        BY <3>1, <2>3
    <2> QED
      BY <2>1, <2>2, <2>3 DEF Sound, Followed
  <1>8. \A b \in ToSet(t) : IsByte(b) => b \in all
    BY <1>4 DEF Sound
  <1>9. Sound(t, all, asking, open, part)
    BY <1>1, <1>5, <1>6, <1>7, <1>8 DEF Sound
  <1> QED
    BY <1>9, <1>1 DEF t

\* t is the first m elements of s, with new lines inserted.
Inserted(s, m, t) ==
    \E f : /\ \A i \in 1..m : f[i] \in 1..Len(t) /\ t[f[i]] = s[i]
           /\ \A i, j \in 1..m : i < j => f[i] < f[j]
           /\ \A k \in 1..Len(t) : (\E i \in 1..m : f[i] = k) \/ t[k] = NewLine
           /\ Len(t) >= m

LEMMA InsertLine ==
    ASSUME NEW s, NEW t \in Seq(Items), NEW m \in Nat, Inserted(s, m, t)
    PROVE  Inserted(s, m, t \o <<NewLine>>)
  <1> DEFINE v == t \o <<NewLine>>
  <1>0. NewLine \in Items
    BY DEF Items, Marks, LineMarks
  <1>1. /\ Len(v) = Len(t) + 1 /\ Len(t) \in Nat
        /\ \A i \in 1..Len(t) : v[i] = t[i]
        /\ v[Len(t) + 1] = NewLine
    BY <1>0, AppendAt
  <1> HIDE DEF v
  <1>2. PICK f : /\ \A i \in 1..m : f[i] \in 1..Len(t) /\ t[f[i]] = s[i]
                 /\ \A i, j \in 1..m : i < j => f[i] < f[j]
                 /\ \A k \in 1..Len(t) : (\E i \in 1..m : f[i] = k) \/ t[k] = NewLine
                 /\ Len(t) >= m
    BY DEF Inserted
  <1>3. \A i \in 1..m : f[i] \in 1..Len(v) /\ v[f[i]] = s[i]
    BY <1>1, <1>2
  <1>4. \A k \in 1..Len(v) : (\E i \in 1..m : f[i] = k) \/ v[k] = NewLine
    BY <1>1, <1>2
  <1>5. Len(v) >= m
    BY <1>1, <1>2
  <1>6. Inserted(s, m, v)
    BY <1>2, <1>3, <1>4, <1>5, Zenon DEF Inserted
  <1> QED
    BY <1>6 DEF v

LEMMA InsertNext ==
    ASSUME NEW s, NEW t \in Seq(Items), NEW m \in Nat, Inserted(s, m, t), s[m + 1] \in Items
    PROVE  Inserted(s, m + 1, t \o <<s[m + 1]>>)
  <1> DEFINE v == t \o <<s[m + 1]>>
  <1>1. /\ Len(v) = Len(t) + 1 /\ Len(t) \in Nat
        /\ \A i \in 1..Len(t) : v[i] = t[i]
        /\ v[Len(t) + 1] = s[m + 1]
    BY AppendAt
  <1> HIDE DEF v
  <1>2. PICK f : /\ \A i \in 1..m : f[i] \in 1..Len(t) /\ t[f[i]] = s[i]
                 /\ \A i, j \in 1..m : i < j => f[i] < f[j]
                 /\ \A k \in 1..Len(t) : (\E i \in 1..m : f[i] = k) \/ t[k] = NewLine
                 /\ Len(t) >= m
    BY DEF Inserted
  <1> DEFINE g == [i \in 1..(m + 1) |-> IF i = m + 1 THEN Len(v) ELSE f[i]]
  <1>3. g[m + 1] = Len(v) /\ \A i \in 1..m : g[i] = f[i]
    OBVIOUS
  <1> HIDE DEF g
  <1>4. \A i \in 1..(m + 1) : g[i] \in 1..Len(v) /\ v[g[i]] = s[i]
    <2> TAKE i \in 1..(m + 1)
    <2>1. CASE i = m + 1
      BY <2>1, <1>1, <1>3
    <2>2. CASE i # m + 1
      <3>1. i \in 1..m
        BY <2>2
      <3> QED
        BY <3>1, <1>1, <1>2, <1>3
    <2> QED
      BY <2>1, <2>2
  <1>5. \A i, j \in 1..(m + 1) : i < j => g[i] < g[j]
    <2> SUFFICES ASSUME NEW i \in 1..(m + 1), NEW j \in 1..(m + 1), i < j PROVE g[i] < g[j]
      OBVIOUS
    <2>1. i \in 1..m /\ g[i] = f[i] /\ f[i] \in 1..Len(t)
      BY <1>2, <1>3
    <2>2. CASE j = m + 1
      BY <2>1, <2>2, <1>1, <1>3
    <2>3. CASE j # m + 1
      <3>1. j \in 1..m
        BY <2>3
      <3> QED
        BY <3>1, <2>1, <1>2, <1>3
    <2> QED
      BY <2>2, <2>3
  <1>6. \A k \in 1..Len(v) : (\E i \in 1..(m + 1) : g[i] = k) \/ v[k] = NewLine
    <2> TAKE k \in 1..Len(v)
    <2>1. CASE k = Len(v)
      BY <2>1, <1>3
    <2>2. CASE k # Len(v)
      <3>1. k \in 1..Len(t) /\ v[k] = t[k]
        BY <2>2, <1>1
      <3>2. CASE \E i \in 1..m : f[i] = k
        BY <3>2, <1>3
      <3> QED
        BY <3>1, <3>2, <1>2
    <2> QED
      BY <2>1, <2>2
  <1>7. Len(v) >= m + 1
    BY <1>1, <1>2
  <1>8. Inserted(s, m + 1, v)
    BY <1>4, <1>5, <1>6, <1>7, Zenon DEF Inserted
  <1> QED
    BY <1>8 DEF v

\* New lines do not make what is kept unsound.
LEMMA SoundInserted ==
    ASSUME NEW s, NEW t \in Seq(Items), NEW all \in SUBSET (Nat \ {0}),
           NEW asking \in SUBSET (Nat \ {0}), NEW open \in BOOLEAN, NEW whole \in BOOLEAN,
           Sound(s, all, asking, open, whole), Inserted(s, Len(s), t)
    PROVE  Sound(t, all, asking, open, whole) /\ Len(t) >= Len(s)
  <1> DEFINE n == Len(s)
  <1>0. s \in Seq(Items) /\ n \in Nat /\ Len(t) \in Nat
    BY LenProperties DEF Sound
  <1>1. PICK f : /\ \A i \in 1..n : f[i] \in 1..Len(t) /\ t[f[i]] = s[i]
                 /\ \A i, j \in 1..n : i < j => f[i] < f[j]
                 /\ \A k \in 1..Len(t) : (\E i \in 1..n : f[i] = k) \/ t[k] = NewLine
                 /\ Len(t) >= n
    BY DEF Inserted
  <1>2. ToSet(t) = {t[i] : i \in 1..Len(t)} /\ ToSet(s) = {s[i] : i \in 1..n}
    BY <1>0, ToSetAt
  <1>3. ~IsByte(NewLine) /\ NewLine \notin asking
    BY DEF IsByte, Marks, LineMarks
  <1>4. ASSUME NEW k \in 1..Len(t), t[k] # NewLine PROVE \E i \in 1..n : f[i] = k /\ s[i] = t[k]
    BY <1>1, <1>4
  <1>5. ToSet(s) \subseteq ToSet(t)
    BY <1>1, <1>2
  <1>6. \A b \in ToSet(t) : b # NewLine => b \in ToSet(s)
    BY <1>2, <1>4
  <1>7. \A i \in 1..n, j \in 1..n : f[i] < f[j] => i < j
    <2> SUFFICES ASSUME NEW i \in 1..n, NEW j \in 1..n, f[i] < f[j], ~(i < j) PROVE FALSE
      OBVIOUS
    <2>1. i = j \/ j < i
      BY <1>0
    <2>2. f[i] \in Int /\ f[j] \in Int
      BY <1>1
    <2>3. CASE i = j
      BY <2>2, <2>3
    <2>4. CASE j < i
      BY <2>2, <2>4, <1>1
    <2> QED
      BY <2>1, <2>3, <2>4
  <1>8. InOrder(t)
    <2>1. ASSUME NEW k \in 1..Len(t), NEW l \in 1..Len(t), k < l, IsByte(t[k]), IsByte(t[l])
          PROVE  t[k] < t[l]
      <3>1. PICK i \in 1..n : f[i] = k /\ s[i] = t[k]
        BY <2>1, <1>3, <1>4
      <3>2. PICK j \in 1..n : f[j] = l /\ s[j] = t[l]
        BY <2>1, <1>3, <1>4
      <3>3. i < j
        BY <3>1, <3>2, <2>1, <1>7
      <3> QED
        BY <3>1, <3>2, <3>3, <2>1 DEF Sound, InOrder
    <2> QED
      BY <2>1 DEF InOrder
  <1>9. NoGaps(t, all \ StampBytes)
    BY <1>3, <1>5, <1>6 DEF Sound, NoGaps
  <1>10. Followed(t, asking, open)
    <2> SUFFICES ASSUME NEW k \in 1..Len(t), t[k] \in asking
                 PROVE  \/ \E l \in (k + 1)..Len(t) :
                              t[l] \in {Stamp, MessageStamp} /\ OnlyLines(t, k, l - 1)
                        \/ open /\ OnlyLines(t, k, Len(t))
      BY DEF Followed
    <2>1. PICK i \in 1..n : f[i] = k /\ s[i] = t[k]
      BY <1>3, <1>4
    <2>2. CASE \E j \in (i + 1)..n : s[j] \in {Stamp, MessageStamp} /\ OnlyLines(s, i, j - 1)
      <3>1. PICK j \in (i + 1)..n : s[j] \in {Stamp, MessageStamp} /\ OnlyLines(s, i, j - 1)
        BY <2>2
      <3>2. j \in 1..n /\ i < j
        BY <1>0
      <3>3. f[j] \in 1..Len(t) /\ k < f[j] /\ t[f[j]] = s[j]
        BY <3>2, <2>1, <1>1
      <3>4. f[j] \in (k + 1)..Len(t)
        BY <3>3
      <3>5. OnlyLines(t, k, f[j] - 1)
        <4> SUFFICES ASSUME NEW l \in (k + 1)..(f[j] - 1), t[l] # NewLine PROVE FALSE
          BY DEF OnlyLines
        <4>1. l \in 1..Len(t) /\ k < l /\ l < f[j]
          BY <3>3
        <4>2. PICK h \in 1..n : f[h] = l /\ s[h] = t[l]
          BY <4>1, <1>4
        <4>3. i < h /\ h < j
          BY <4>1, <4>2, <2>1, <3>2, <1>7
        <4>4. h \in (i + 1)..(j - 1)
          BY <4>3
        <4> QED
          BY <4>2, <4>4, <3>1 DEF OnlyLines
      <3> QED
        BY <3>1, <3>3, <3>4, <3>5
    <2>3. CASE open /\ OnlyLines(s, i, n)
      <3>1. OnlyLines(t, k, Len(t))
        <4> SUFFICES ASSUME NEW l \in (k + 1)..Len(t), t[l] # NewLine PROVE FALSE
          BY DEF OnlyLines
        <4>1. l \in 1..Len(t) /\ k < l
          OBVIOUS
        <4>2. PICK h \in 1..n : f[h] = l /\ s[h] = t[l]
          BY <4>1, <1>4
        <4>3. i < h
          BY <4>1, <4>2, <2>1, <1>7
        <4>4. h \in (i + 1)..n
          BY <4>3
        <4> QED
          BY <4>2, <4>4, <2>3 DEF OnlyLines
      <3> QED
        BY <3>1, <2>3
    <2> QED
      BY <2>1, <2>2, <2>3 DEF Sound, Followed
  <1>11. \A b \in ToSet(t) : IsByte(b) => b \in all
    BY <1>3, <1>6 DEF Sound
  <1>12. whole => all \ StampBytes \subseteq ToSet(t)
    BY <1>5 DEF Sound
  <1> QED
    BY <1>1, <1>8, <1>9, <1>10, <1>11, <1>12 DEF Sound

\* An update inserts nothing but new lines.
LEMMA UpdateInserts ==
    ASSUME fresh \in Seq(Items), NEW u \in Seq(Items), NEW since \in Nat, NEW highRate \in BOOLEAN
    PROVE  /\ u \o WithLines(since, highRate) \in Seq(Items)
           /\ u \o fresh \in Seq(Items)
           /\ Inserted(u \o fresh, Len(u \o fresh), u \o WithLines(since, highRate))
  <1> DEFINE n == Len(fresh)
             c == Columns(since, highRate)
             s == u \o fresh
  <1>0. n \in Nat /\ Len(u) \in Nat /\ \A i \in 1..n : fresh[i] \in Items
    BY LenProperties, ElementOfSeq
  <1>1. /\ s \in Seq(Items) /\ Len(s) = Len(u) + n
        /\ \A i \in 1..Len(u) : s[i] = u[i]
        /\ \A i \in 1..n : s[Len(u) + i] = fresh[i]
    OBVIOUS
  <1> HIDE DEF s
  <1>2. PICK g : /\ g[0] = <<>>
                 /\ \A i \in 1..n : g[i] = g[i - 1] \o LinePiece(fresh[i], c[i - 1], c[i])
                 /\ \A i \in 0..n : g[i] \in Seq(Items)
                 /\ WithLines(since, highRate) = g[n]
    BY LinesPrefixes
  <1> HIDE DEF c
  <1> DEFINE T == {m \in 0..n : Inserted(s, Len(u) + m, u \o g[m])}
  <1>3. 0 \in T
    <2>1. u \o g[0] = u /\ Len(u) + 0 = Len(u) /\ 0 \in 0..n
      BY <1>0, <1>2, ConcatEmptySeq
    <2> DEFINE f == [i \in 1..Len(u) |-> i]
    <2>2. /\ \A i \in 1..Len(u) : f[i] \in 1..Len(u) /\ u[f[i]] = s[i]
          /\ \A i, j \in 1..Len(u) : i < j => f[i] < f[j]
          /\ \A k \in 1..Len(u) : (\E i \in 1..Len(u) : f[i] = k) \/ u[k] = NewLine
          /\ Len(u) >= Len(u)
      BY <1>0, <1>1
    <2> HIDE DEF f
    <2>3. Inserted(s, Len(u), u)
      BY <2>2, Zenon DEF Inserted
    <2> QED
      BY <2>1, <2>3, Zenon
  <1>4. ASSUME NEW m \in 0..(n - 1), m \in T PROVE m + 1 \in T
    <2> DEFINE x == fresh[m + 1]
               first == Due(x, EndsLine(c[m]))
               last == Due(x, c[m + 1] = 0)
               k == Len(u) + m
               v == u \o g[m]
    <2>1. m + 1 \in 1..n /\ (m + 1) - 1 = m /\ m \in 0..n /\ m + 1 \in 0..n /\ k \in Nat
      BY <1>0
    <2>2. x \in Items /\ s[k + 1] = x /\ Len(u) + (m + 1) = k + 1
      <3>1. Len(u) + (m + 1) = k + 1
        BY <1>0
      <3> QED
        BY <2>1, <3>1, <1>0, <1>1
    <2>3. g[m + 1] = g[m] \o LinePiece(x, c[m], c[m + 1]) /\ g[m] \in Seq(Items)
      BY <2>1, <1>2
    <2>4. NewLine \in Items
      BY DEF Items, Marks, LineMarks
    <2>5. first \in {<<NewLine>>, <<>>} /\ last \in {<<NewLine>>, <<>>}
      BY DEF Due
    <2>6. v \in Seq(Items) /\ Inserted(s, k, v)
      <3>1. Inserted(s, k, v)
        BY <1>4
      <3> QED
        BY <3>1, <2>3, ConcatProperties
    <2>7. LinePiece(x, c[m], c[m + 1]) = first \o <<x>> \o last
      BY DEF LinePiece
    <2> HIDE DEF x, first, last, k, v
    <2>8. /\ v \o first \in Seq(Items) /\ Inserted(s, k, v \o first)
      <3>1. CASE first = <<NewLine>>
        <4>1. v \o <<NewLine>> \in Seq(Items) /\ Inserted(s, k, v \o <<NewLine>>)
          BY <2>1, <2>4, <2>6, InsertLine, AppendAt
        <4> QED
          BY <4>1, <3>1
      <3>2. CASE first = <<>>
        <4>1. v \o first = v
          BY <3>2, <2>6, ConcatEmptySeq
        <4> QED
          BY <4>1, <2>6
      <3> QED
        BY <3>1, <3>2, <2>5
    <2> DEFINE w == (v \o first) \o <<x>>
    <2>9. w \in Seq(Items) /\ Inserted(s, k + 1, w)
      <3>1. Inserted(s, k + 1, (v \o first) \o <<s[k + 1]>>)
        BY <2>1, <2>2, <2>8, InsertNext
      <3> QED
        BY <3>1, <2>2, <2>8, AppendAt
    <2> HIDE DEF w
    <2>10. Inserted(s, k + 1, w \o last)
      <3>1. CASE last = <<NewLine>>
        <4>1. k + 1 \in Nat
          BY <2>1
        <4>2. Inserted(s, k + 1, w \o <<NewLine>>)
          BY <4>1, <2>9, InsertLine
        <4> QED
          BY <4>2, <3>1
      <3>2. CASE last = <<>>
        <4>1. w \o last = w
          BY <3>2, <2>9, ConcatEmptySeq
        <4> QED
          BY <4>1, <2>9
      <3> QED
        BY <3>1, <3>2, <2>5
    <2>11. w \o last = u \o g[m + 1]
      <3> DEFINE y == <<x>>
                 p == first \o y
                 q == p \o last
      <3>1. <<NewLine>> \in Seq(Items) /\ <<>> \in Seq(Items) /\ y \in Seq(Items)
        BY <2>2, <2>4
      <3>2. first \in Seq(Items) /\ last \in Seq(Items) /\ y \in Seq(Items)
        BY <3>1, <2>5, Zenon
      <3>3. v = u \o g[m] /\ g[m + 1] = g[m] \o q /\ w = (v \o first) \o y
        BY <2>3, <2>7 DEF v, w
      <3> HIDE DEF y
      <3>0. \A r1 \in Seq(Items), r2 \in Seq(Items) : v \o (r1 \o r2) = (v \o r1) \o r2
        BY <2>6, ConcatenatedItems
      <3>4. p \in Seq(Items)
        BY <3>2, ConcatProperties
      <3>5. v \o p = (v \o first) \o y
        BY <3>0, <3>2, Zenon
      <3> HIDE DEF p
      <3>6. q \in Seq(Items)
        BY <3>2, <3>4, ConcatProperties
      <3>7. v \o q = (v \o p) \o last
        BY <3>0, <3>2, <3>4, Zenon
      <3> HIDE DEF q
      <3>8. u \o (g[m] \o q) = (u \o g[m]) \o q
        <4>1. \A r1 \in Seq(Items), r2 \in Seq(Items) : u \o (r1 \o r2) = (u \o r1) \o r2
          BY Concatenated
        <4> QED
          BY <4>1, <3>6, <2>3, Zenon
      <3> QED
        BY <3>3, <3>5, <3>7, <3>8, Zenon
    <2> QED
      BY <2>1, <2>2, <2>10, <2>11, Zenon
  <1> HIDE DEF T
  <1>5. \A m \in 0..n : m \in T
    BY <1>0, <1>3, <1>4, Induction
  <1>6. n \in T /\ n \in 0..n
    BY <1>0, <1>5
  <1>7. u \o WithLines(since, highRate) \in Seq(Items)
    BY <1>2, <1>6, ConcatProperties
  <1> QED
    BY <1>1, <1>2, <1>6, <1>7 DEF T, s

\* What a message adds to what is kept, a stamp that was still to come included
NoneAsks(base, n, asking) == \A i \in 1..n : base + i \notin asking

LEMMA FormattedSound ==
    ASSUME NEW u, NEW base \in Nat, NEW n \in Nat \ {0}, base + n <= MaxBytes,
           NEW all \in SUBSET (1..base), NEW asking \in SUBSET StampBytes, NEW whole \in BOOLEAN,
           NEW isUserMessage \in BOOLEAN, NEW stampDue \in BOOLEAN, NEW pause \in BOOLEAN,
           stampNext \in BOOLEAN,
           Sound(u, all, asking, stampNext, whole),
           isUserMessage => NoneAsks(base, n, asking)
    PROVE  LET data == Message(base, n)
               added == Formatted(data, isUserMessage, stampDue, pause)
           IN /\ added \in Seq(Items)
              /\ Sound(u \o added, Until(all, base, n), asking,
                       StampStillDue(data, isUserMessage), whole)
  <1> USE DEF NoneAsks
  <1> DEFINE data == Message(base, n)
             stamp == IF isUserMessage THEN MessageStamp ELSE Stamp
             first == IF stampNext THEN <<stamp>> ELSE <<>>
             second == IF stampDue THEN <<stamp>> ELSE <<>>
             third == IF pause THEN <<NewLine>> ELSE <<>>
             search == Has(data, StampBytes) /\ ~isUserMessage
             break == Has(data, BreakBytes) /\ ~isUserMessage
             added == Formatted(data, isUserMessage, stampDue, pause)
             v == u \o first
             all2 == Until(all, base, n)
  <1>0. /\ stamp \in Items \cap Marks /\ stamp # NewLine /\ NewLine \in Items \cap Marks
        /\ all \in SUBSET (Nat \ {0}) /\ asking \in SUBSET (Nat \ {0})
        /\ u \in Seq(Items)
    <2>1. u \in Seq(Items)
      BY Zenon DEF Sound
    <2> QED
      BY <2>1, ConsoleAssumption DEF Items, Marks, LineMarks
  <1>1. added = first \o (IF search THEN WithStamps(data)
                          ELSE second \o (IF break THEN WithBreaks(data) ELSE third \o data))
    BY DEF Formatted
  <1>2. StampStillDue(data, isUserMessage) = (search /\ EndsWithStamp(data))
    BY DEF StampStillDue
  <1>3. /\ first \in {<<stamp>>, <<>>} /\ second \in {<<stamp>>, <<>>}
        /\ third \in {<<NewLine>>, <<>>}
    OBVIOUS
  <1>4. <<stamp>> \in Seq(Items) /\ <<NewLine>> \in Seq(Items) /\ <<>> \in Seq(Items)
    BY <1>0
  <1>5. first \in Seq(Items) /\ second \in Seq(Items) /\ third \in Seq(Items)
    BY <1>3, <1>4, Zenon
  <1>6. Closed(v, all, asking, whole)
    <2>1. CASE stampNext
      <3> DEFINE no == FALSE
      <3>1. v = u \o <<stamp>>
        BY <2>1
      <3>2. no \in BOOLEAN /\ no = FALSE /\ (stamp = NewLine /\ stampNext => no)
        BY <1>0
      <3> HIDE DEF no, v, first, stamp
      <3>3. Sound(u \o <<stamp>>, all, asking, no, whole)
        BY <1>0, <3>2, SoundMark
      <3> QED
        BY <3>1, <3>2, <3>3, Zenon DEF Closed
    <2>2. CASE ~stampNext
      <3>1. v = u
        BY <2>2, <1>0, ConcatEmptySeq
      <3>2. stampNext = FALSE
        BY <2>2
      <3> HIDE DEF v
      <3> QED
        BY <3>1, <3>2, Zenon DEF Closed
    <2> QED
      BY <2>1, <2>2
  <1> HIDE DEF v, first, second, third, data, added, all2
  <1>7. CASE search
    <2>1. added = first \o WithStamps(data)
      BY <1>1, <1>7
    <2>2. /\ Sound(v \o WithStamps(data), all2, asking, EndsWithStamp(data), whole)
          /\ WithStamps(data) \in Seq(Items)
      BY <1>6, SoundStamps DEF data, all2
    <2>3. u \o added = v \o WithStamps(data) /\ added \in Seq(Items)
      <3>1. \A q \in Seq(Items), r \in Seq(Items) : u \o (q \o r) = (u \o q) \o r
        BY <1>0, ConcatenatedItems
      <3>2. \A q \in Seq(Items), r \in Seq(Items) : q \o r \in Seq(Items)
        BY ConcatProperties
      <3> QED
        BY <3>1, <3>2, <1>5, <2>1, <2>2, Zenon DEF v
    <2>4. StampStillDue(data, isUserMessage) = EndsWithStamp(data)
      <3>1. search
        BY <1>7
      <3>2. EndsWithStamp(data) \in BOOLEAN
        BY DEF EndsWithStamp
      <3> HIDE DEF search
      <3> QED
        BY <3>1, <3>2, <1>2, Zenon
    <2> QED
      BY <2>2, <2>3, <2>4, Zenon DEF added, data, all2
  <1>8. CASE ~search
    <2> DEFINE rest == IF break THEN WithBreaks(data) ELSE third \o data
               w == v \o second
               x == w \o third
    <2>1. added = first \o (second \o rest)
      BY <1>1, <1>8
    <2>2. \A i \in 1..n : base + i \notin asking
      <3>1. CASE isUserMessage
        BY <3>1
      <3>2. CASE ~Has(data, StampBytes)
        <4>1. Len(data) = n /\ \A i \in 1..n : data[i] = base + i
          BY DEF data, Message
        <4> QED
          BY <3>2, <4>1 DEF Has, Where
      <3> QED
        BY <3>1, <3>2, <1>8
    <2>3. v \in Seq(Items) /\ w \in Seq(Items) /\ x \in Seq(Items)
      BY <1>0, <1>5, ConcatProperties DEF v
    <2>4. Closed(w, all, asking, whole)
      <3>1. CASE second = <<stamp>>
        <4> HIDE DEF stamp
        <4>1. Closed(v \o <<stamp>>, all, asking, whole)
          BY <1>0, <1>6, ClosedMark
        <4> QED
          BY <4>1, <3>1
      <3>2. CASE second = <<>>
        <4>1. w = v
          BY <3>2, <2>3, ConcatEmptySeq
        <4> QED
          BY <4>1, <1>6
      <3> QED
        BY <3>1, <3>2, <1>3
    <2> HIDE DEF w
    <2>5. Closed(x, all, asking, whole)
      <3>1. CASE third = <<NewLine>>
        <4>1. Closed(w \o <<NewLine>>, all, asking, whole)
          BY <1>0, <2>4, ClosedMark
        <4> QED
          BY <4>1, <3>1
      <3>2. CASE third = <<>>
        <4>1. x = w
          BY <3>2, <2>3, ConcatEmptySeq
        <4> QED
          BY <4>1, <2>4
      <3> QED
        BY <3>1, <3>2, <1>3
    <2> HIDE DEF x
    <2>6. /\ Closed(w \o WithBreaks(data), all2, asking, whole) /\ WithBreaks(data) \in Seq(Items)
      <3>1. n \in Nat /\ base + n <= MaxBytes /\ asking \in SUBSET (Nat \ {0})
        BY <1>0
      <3> QED
        BY <3>1, <2>2, <2>4, SoundBreaks DEF data, all2
    <2>7. Closed(x \o data, all2, asking, whole) /\ data \in Seq(Items)
      <3>1. n \in Nat /\ base + n <= MaxBytes /\ asking \in SUBSET (Nat \ {0})
        BY <1>0
      <3> QED
        BY <3>1, <2>2, <2>5, SoundPlain DEF data, all2
    <2>8. \A p \in Seq(Items), q \in Seq(Items), r \in Seq(Items) :
              p \o (q \o r) = (p \o q) \o r /\ q \o r \in Seq(Items)
      <3> TAKE p \in Seq(Items), q \in Seq(Items), r \in Seq(Items)
      <3>1. p \o (q \o r) = (p \o q) \o r
        BY ConcatAssociative
      <3>2. q \o r \in Seq(Items)
        BY ConcatProperties
      <3> QED
        BY <3>1, <3>2
    <2>9. rest \in Seq(Items) /\ Closed(w \o rest, all2, asking, whole)
      <3>1. CASE break
        <4>1. rest = WithBreaks(data)
          BY <3>1
        <4> HIDE DEF rest, break
        <4> QED
          BY <4>1, <2>6
      <3>2. CASE ~break
        <4>1. rest = third \o data
          BY <3>2
        <4> HIDE DEF rest, break
        <4>2. w \o (third \o data) = x \o data /\ third \o data \in Seq(Items)
          BY <2>3, <2>7, <2>8, <1>5, Zenon DEF x
        <4> QED
          BY <4>1, <4>2, <2>7
      <3> QED
        BY <3>1, <3>2
    <2> HIDE DEF rest
    <2>10. u \o added = w \o rest /\ added \in Seq(Items)
      <3>0. second \o rest \in Seq(Items)
        BY <2>8, <2>9, <1>5, <2>3, Zenon
      <3>1. second \o rest \in Seq(Items) /\ v \o (second \o rest) = w \o rest
        <4>1. v \o (second \o rest) = (v \o second) \o rest
          <5>1. v \in Seq(Items) /\ second \in Seq(Items) /\ rest \in Seq(Items)
            BY <2>3, <2>9, <1>5
          <5>2. \A p \in Seq(Items), q \in Seq(Items), r \in Seq(Items) :
                    p \o (q \o r) = (p \o q) \o r
            BY ConcatenatedItems
          <5> HIDE DEF v, second, rest
          <5> QED
            BY <5>1, <5>2, Zenon
        <4> QED
          BY <3>0, <4>1 DEF w
      <3>2. u \o (first \o (second \o rest)) = v \o (second \o rest)
        <4>1. u \o (first \o (second \o rest)) = (u \o first) \o (second \o rest)
          <5>1. \A q \in Seq(Items), r \in Seq(Items) : u \o (q \o r) = (u \o q) \o r
            BY <1>0, ConcatenatedItems
          <5> QED
            BY <5>1, <3>1, <1>5, Zenon
        <4> QED
          BY <4>1 DEF v
      <3>3. first \o (second \o rest) \in Seq(Items)
        BY <3>1, <2>8, <1>5, Zenon
      <3> QED
        BY <3>1, <3>2, <3>3, <2>1, Zenon
    <2>11. StampStillDue(data, isUserMessage) = FALSE
      <3>1. ~search
        BY <1>8
      <3> HIDE DEF search
      <3> QED
        BY <3>1, <1>2, Zenon
    <2> QED
      BY <2>9, <2>10, <2>11, Zenon DEF Closed, added, data, all2
  <1> QED
    BY <1>7, <1>8

\* Nothing is kept: it is the whole of nothing.
LEMMA NothingSound ==
    ASSUME NEW asking, NEW open \in BOOLEAN, NEW whole \in BOOLEAN
    PROVE  Sound(<<>>, {}, asking, open, whole)
  BY DEF Sound, ToSet, InOrder, NoGaps, Followed

(***************************************************************************)
(* What is counted when a message is added.                                *)
(***************************************************************************)

\* How many of the first m numbers are in P
Upto(P, m) == Cardinality(P \cap (1..m))

LEMMA UptoNext ==
    ASSUME NEW P, NEW m \in Nat
    PROVE  /\ Upto(P, 0) = 0 /\ Upto(P, m) \in Nat
           /\ Upto(P, m + 1) = Upto(P, m) + IF m + 1 \in P THEN 1 ELSE 0
  <1>1. IsFiniteSet(1..m) /\ P \cap (1..m) \in SUBSET (1..m)
    BY FS_Interval
  <1>2. IsFiniteSet(P \cap (1..m)) /\ Upto(P, m) \in Nat
    BY <1>1, FS_Subset, FS_CardinalityType DEF Upto
  <1>3. Upto(P, 0) = 0
    <2>1. P \cap (1..0) = {}
      OBVIOUS
    <2> QED
      BY <2>1, FS_EmptySet DEF Upto
  <1>4. CASE m + 1 \in P
    <2>1. P \cap (1..(m + 1)) = (P \cap (1..m)) \cup {m + 1} /\ m + 1 \notin P \cap (1..m)
      BY <1>4
    <2> QED
      BY <1>2, <1>3, <1>4, <2>1, FS_AddElement DEF Upto
  <1>5. CASE m + 1 \notin P
    <2>1. P \cap (1..(m + 1)) = P \cap (1..m)
      BY <1>5
    <2> QED
      BY <1>2, <1>3, <1>5, <2>1 DEF Upto
  <1> QED
    BY <1>4, <1>5

\* When length has the same increments as the pieces, it is the length of the whole.
LEMMA LengthOfPieces ==
    ASSUME NEW ps \in Seq(Seq(Items)), NEW length,
           length[0] = 0,
           \A m \in 0..(Len(ps) - 1) :
              length[m] \in Nat => length[m + 1] = length[m] + Len(ps[m + 1])
    PROVE  FlattenSeq(ps) \in Seq(Items) /\ Len(FlattenSeq(ps)) = length[Len(ps)]
  <1> DEFINE n == Len(ps)
  <1>0. n \in Nat /\ \A i \in 1..n : ps[i] \in Seq(Items)
    BY LenProperties, ElementOfSeq
  <1>1. PICK g : /\ g[0] = <<>>
                 /\ \A i \in 1..n : g[i] = g[i - 1] \o ps[i]
                 /\ \A i \in 0..n : g[i] \in Seq(Items)
                 /\ FlattenSeq(ps) = g[n]
    BY FlattenPrefixes
  <1> DEFINE T == {m \in 0..n : Len(g[m]) = length[m]}
  <1>2. 0 \in T
    BY <1>0, <1>1
  <1>3. ASSUME NEW m \in 0..(n - 1), m \in T PROVE m + 1 \in T
    <2>1. m + 1 \in 1..n /\ (m + 1) - 1 = m /\ m \in 0..n /\ m + 1 \in 0..n
      BY <1>0
    <2>2. g[m + 1] = g[m] \o ps[m + 1]
      BY <2>1, <1>1
    <2>3. g[m] \in Seq(Items) /\ ps[m + 1] \in Seq(Items)
      BY <2>1, <1>0, <1>1
    <2>4. Len(g[m + 1]) = Len(g[m]) + Len(ps[m + 1]) /\ Len(g[m]) \in Nat
      BY <2>2, <2>3
    <2> QED
      BY <1>3, <2>1, <2>4
  <1> HIDE DEF T
  <1>4. \A m \in 0..n : m \in T
    BY <1>0, <1>2, <1>3, Induction
  <1>5. n \in T
    BY <1>0, <1>4
  <1>6. g[n] \in Seq(Items)
    BY <1>0, <1>1
  <1> QED
    BY <1>1, <1>5, <1>6 DEF T

\* Of a message with new lines, ...
LEMMA BreaksCounted ==
    ASSUME NEW base \in Nat, NEW n \in Nat, base + n <= MaxBytes
    PROVE  /\ WithBreaks(Message(base, n)) \in Seq(Items)
           /\ Len(WithBreaks(Message(base, n))) = CountedBreaks(Message(base, n))
  <1> DEFINE ps == [i \in 1..n |-> IF base + i \in BreakBytes THEN <<base + i, NewLine>>
                                   ELSE <<base + i>>]
             B == {i \in Nat : base + i \in BreakBytes}
             length == [m \in 0..n |-> m + Upto(B, m)]
             data == Message(base, n)
  <1>1. Len(data) = n /\ \A i \in 1..n : data[i] = base + i
    BY DEF Message
  <1>2. ps \in Seq(Seq(Items)) /\ Len(ps) = n
    <2>1. NewLine \in Items /\ \A i \in 1..n : base + i \in Items
      BY ConsoleAssumption DEF Items, Marks, LineMarks
    <2>2. \A i \in 1..n : ps[i] \in Seq(Items)
      BY <2>1
    <2> QED
      BY <2>2, IsASeq
  <1>3. WithBreaks(data) = FlattenSeq(ps)
    BY <1>1 DEF WithBreaks
  <1>4. length[0] = 0
    <2>1. Upto(B, 0) = 0
      BY UptoNext
    <2> QED
      BY <2>1
  <1>5. ASSUME NEW m \in 0..(n - 1) PROVE length[m + 1] = length[m] + Len(ps[m + 1])
    <2>1. m + 1 \in 1..n /\ m \in 0..n /\ m + 1 \in 0..n /\ m \in Nat
      OBVIOUS
    <2>2. /\ Upto(B, m) \in Nat
          /\ Upto(B, m + 1) = Upto(B, m) + IF m + 1 \in B THEN 1 ELSE 0
      BY <2>1, UptoNext
    <2>3. Len(ps[m + 1]) = IF m + 1 \in B THEN 2 ELSE 1
      BY <2>1
    <2>4. length[m] = m + Upto(B, m) /\ length[m + 1] = (m + 1) + Upto(B, m + 1)
      BY <2>1
    <2> HIDE DEF B, length, ps
    <2> QED
      BY <2>1, <2>2, <2>3, <2>4
  <1>6. length[n] = n + Upto(B, n) /\ Upto(B, n) \in Nat
    BY UptoNext
  <1>7. Where(data, BreakBytes) = B \cap (1..n)
    BY <1>1 DEF Where
  <1> HIDE DEF ps, length, B
  <1>8. FlattenSeq(ps) \in Seq(Items) /\ Len(FlattenSeq(ps)) = length[n]
    BY <1>2, <1>4, <1>5, LengthOfPieces
  <1> QED
    BY <1>1, <1>3, <1>6, <1>7, <1>8 DEF CountedBreaks, Upto

\* ... and with time stamps
LEMMA StampsCounted ==
    ASSUME NEW base \in Nat, NEW n \in Nat \ {0}, base + n <= MaxBytes
    PROVE  /\ WithStamps(Message(base, n)) \in Seq(Items)
           /\ Len(WithStamps(Message(base, n))) = CountedStamps(Message(base, n))
  <1> DEFINE kept(i) == base + i \notin StampBytes \/ (i > 1 /\ base + (i - 1) \notin StampBytes)
             byte(i) == IF kept(i) THEN <<base + i>> ELSE <<>>
             mark(i) == IF base + i \in StampBytes /\ i < n THEN <<Stamp>> ELSE <<>>
             ps == [i \in 1..n |-> byte(i) \o mark(i)]
             A == {i \in Nat : base + i \in StampBytes}
             C == {i \in A : i > 1 /\ i - 1 \notin A}
             D == A \ {n}
             length == [m \in 0..n |-> (m - Upto(A, m)) + Upto(C, m) + Upto(D, m)]
             data == Message(base, n)
  <1>1. Len(data) = n /\ \A i \in 1..n : data[i] = base + i
    BY DEF Message
  <1>2. WithStamps(data) = FlattenSeq(ps)
    <2>1. \A i \in 1..n : i > 1 => data[i - 1] = base + (i - 1)
      BY <1>1
    <2> QED
      BY <1>1, <2>1 DEF WithStamps
  <1>3. ps \in Seq(Seq(Items)) /\ Len(ps) = n
    <2>1. Stamp \in Items /\ \A i \in 1..n : base + i \in Items
      BY ConsoleAssumption DEF Items, Marks, LineMarks
    <2>2. \A i \in 1..n : byte(i) \in Seq(Items) /\ mark(i) \in Seq(Items)
      BY <2>1
    <2>3. \A i \in 1..n : byte(i) \o mark(i) \in Seq(Items)
      <3> HIDE DEF byte, mark
      <3> QED
        BY <2>2, ConcatProperties
    <2> HIDE DEF byte, mark
    <2> QED
      BY <2>3, IsASeq
  <1>4. length[0] = 0
    <2>1. Upto(A, 0) = 0 /\ Upto(C, 0) = 0 /\ Upto(D, 0) = 0
      <3> HIDE DEF A, C, D
      <3> QED
        BY UptoNext
    <2> HIDE DEF A, C, D
    <2> QED
      BY <2>1
  <1>5. ASSUME NEW m \in 0..(n - 1) PROVE length[m + 1] = length[m] + Len(ps[m + 1])
    <2>1. m + 1 \in 1..n /\ m \in 0..n /\ m + 1 \in 0..n /\ m \in Nat /\ (m + 1) - 1 = m
      OBVIOUS
    <2> DEFINE a == IF m + 1 \in A THEN 1 ELSE 0
               c == IF m + 1 \in C THEN 1 ELSE 0
               d == IF m + 1 \in D THEN 1 ELSE 0
    <2>2. /\ Upto(A, m) \in Nat /\ Upto(A, m + 1) = Upto(A, m) + a
          /\ Upto(C, m) \in Nat /\ Upto(C, m + 1) = Upto(C, m) + c
          /\ Upto(D, m) \in Nat /\ Upto(D, m + 1) = Upto(D, m) + d
      <3> HIDE DEF A, C, D
      <3> QED
        BY <2>1, UptoNext
    <2>3. ps[m + 1] = byte(m + 1) \o mark(m + 1)
      BY <2>1
    <2>4. Len(byte(m + 1)) = IF kept(m + 1) THEN 1 ELSE 0
      OBVIOUS
    <2>5. Len(mark(m + 1)) = d
      BY <2>1
    <2>6. kept(m + 1) <=> m + 1 \notin A \/ m + 1 \in C
      BY <2>1
    <2>7. m + 1 \in C => m + 1 \in A
      OBVIOUS
    <2>8. Len(ps[m + 1]) = Len(byte(m + 1)) + Len(mark(m + 1))
      <3>1. byte(m + 1) \in Seq(Int) /\ mark(m + 1) \in Seq(Int)
        OBVIOUS
      <3> HIDE DEF byte, mark
      <3> QED
        BY <2>3, <3>1
    <2>9. /\ length[m] = (m - Upto(A, m)) + Upto(C, m) + Upto(D, m)
          /\ length[m + 1] = ((m + 1) - Upto(A, m + 1)) + Upto(C, m + 1) + Upto(D, m + 1)
      BY <2>1
    <2>10. /\ a = IF m + 1 \in A THEN 1 ELSE 0
           /\ c = IF m + 1 \in C THEN 1 ELSE 0
           /\ a \in Nat /\ c \in Nat /\ d \in Nat
      OBVIOUS
    <2> HIDE DEF A, C, D, kept, byte, mark, ps, length, a, c, d
    <2>11. Len(byte(m + 1)) = (1 - a) + c
      <3>1. CASE m + 1 \in C
        BY <2>4, <2>6, <2>7, <2>10, <3>1
      <3>2. CASE m + 1 \notin C
        BY <2>4, <2>6, <2>10, <3>2
      <3> QED
        BY <3>1, <3>2
    <2>12. Len(ps[m + 1]) = ((1 - a) + c) + d
      BY <2>5, <2>8, <2>11
    <2>13. length[m + 1] = ((m + 1) - (Upto(A, m) + a)) + (Upto(C, m) + c) + (Upto(D, m) + d)
      BY <2>2, <2>9, Zenon
    <2>14. ASSUME NEW x \in Nat, NEW y \in Nat, NEW z \in Nat
           PROVE  ((m + 1) - (x + a)) + (y + c) + (z + d)
                      = ((m - x) + y + z) + (((1 - a) + c) + d)
      BY <2>1, <2>10
    <2>15. length[m + 1] = ((m - Upto(A, m)) + Upto(C, m) + Upto(D, m)) + (((1 - a) + c) + d)
      BY <2>2, <2>13, <2>14, Zenon
    <2> QED
      BY <2>9, <2>12, <2>15, Zenon
  <1>6. length[n] = (n - Upto(A, n)) + Upto(C, n) + Upto(D, n)
    OBVIOUS
  <1>7. /\ Where(data, StampBytes) = A \cap (1..n)
        /\ {i \in A \cap (1..n) : i > 1 /\ i - 1 \notin A \cap (1..n)} = C \cap (1..n)
        /\ (A \cap (1..n)) \ {n} = D \cap (1..n)
    BY <1>1 DEF Where
  <1> HIDE DEF ps, length, A, C, D
  <1>8. FlattenSeq(ps) \in Seq(Items) /\ Len(FlattenSeq(ps)) = length[n]
    BY <1>3, <1>4, <1>5, LengthOfPieces
  <1> QED
    BY <1>1, <1>2, <1>6, <1>7, <1>8 DEF CountedStamps, Upto

LEMMA AddedIsCounted ==
    ASSUME NEW base \in Nat, NEW n \in Nat \ {0}, base + n <= MaxBytes,
           NEW isUserMessage \in BOOLEAN, NEW stampDue \in BOOLEAN, NEW pause \in BOOLEAN,
           stampNext \in BOOLEAN,
           Formatted(Message(base, n), isUserMessage, stampDue, pause) \in Seq(Items)
    PROVE  LET data == Message(base, n)
           IN Len(Formatted(data, isUserMessage, stampDue, pause))
                  = Counted(data, isUserMessage, stampDue, pause)
  <1> DEFINE data == Message(base, n)
             stamp == IF isUserMessage THEN MessageStamp ELSE Stamp
             first == IF stampNext THEN <<stamp>> ELSE <<>>
             second == IF stampDue THEN <<stamp>> ELSE <<>>
             third == IF pause THEN <<NewLine>> ELSE <<>>
             search == Has(data, StampBytes) /\ ~isUserMessage
             break == Has(data, BreakBytes) /\ ~isUserMessage
             stamps == WithStamps(data)
             breaks == WithBreaks(data)
  <1>1. /\ first \in Seq(Items) /\ Len(first) = IF stampNext THEN 1 ELSE 0
        /\ second \in Seq(Items) /\ Len(second) = IF stampDue THEN 1 ELSE 0
        /\ third \in Seq(Items) /\ Len(third) = IF pause THEN 1 ELSE 0
    <2>1. stamp \in Items /\ NewLine \in Items
      BY DEF Items, Marks, LineMarks
    <2> HIDE DEF stamp
    <2>2. ASSUME NEW x \in Items, NEW p \in BOOLEAN
          PROVE  /\ (IF p THEN <<x>> ELSE <<>>) \in Seq(Items)
                 /\ Len(IF p THEN <<x>> ELSE <<>>) = IF p THEN 1 ELSE 0
      <3>1. CASE p
        BY <3>1
      <3>2. CASE ~p
        BY <3>2
      <3> QED
        BY <3>1, <3>2
    <2>3. first \in Seq(Items) /\ Len(first) = IF stampNext THEN 1 ELSE 0
      BY <2>1, <2>2, Zenon
    <2>4. second \in Seq(Items) /\ Len(second) = IF stampDue THEN 1 ELSE 0
      BY <2>1, <2>2, Zenon
    <2>5. third \in Seq(Items) /\ Len(third) = IF pause THEN 1 ELSE 0
      BY <2>1, <2>2, Zenon
    <2> QED
      BY <2>3, <2>4, <2>5
  <1>2. data \in Seq(Items) /\ Len(data) = n
    <2>1. \A i \in 1..n : base + i \in Items
      BY ConsoleAssumption DEF Items
    <2> QED
      BY <2>1, IsASeq DEF Message
  <1>3. stamps \in Seq(Items) /\ Len(stamps) = CountedStamps(data)
    BY StampsCounted
  <1>4. breaks \in Seq(Items) /\ Len(breaks) = CountedBreaks(data)
    BY BreaksCounted
  <1>5. /\ Formatted(data, isUserMessage, stampDue, pause) =
              first \o (IF search THEN stamps
                        ELSE second \o (IF break THEN breaks ELSE third \o data))
        /\ Counted(data, isUserMessage, stampDue, pause) =
              (IF stampNext THEN 1 ELSE 0)
              + (IF search THEN CountedStamps(data)
                 ELSE (IF stampDue THEN 1 ELSE 0)
                      + (IF break THEN CountedBreaks(data)
                         ELSE (IF pause THEN 1 ELSE 0) + Len(data)))
    BY DEF Formatted, Counted
  <1> HIDE DEF first, second, third, stamps, breaks, data, search, break
  <1>6. \A q \in Seq(Items), s \in Seq(Items) : q \o s \in Seq(Items) /\ Len(q \o s) = Len(q) + Len(s)
    BY ConcatProperties
  <1>7. third \o data \in Seq(Items) /\ Len(third \o data) = Len(third) + Len(data)
    BY <1>1, <1>2, <1>6
  <1> DEFINE lines == IF break THEN breaks ELSE third \o data
             rest == second \o lines
             all == IF search THEN stamps ELSE rest
  <1>8. /\ lines \in Seq(Items)
        /\ Len(lines) = IF break THEN CountedBreaks(data) ELSE Len(third) + Len(data)
    BY <1>4, <1>7
  <1> HIDE DEF lines
  <1>9. rest \in Seq(Items) /\ Len(rest) = Len(second) + Len(lines)
    BY <1>1, <1>6, <1>8
  <1> HIDE DEF rest
  <1>10. all \in Seq(Items) /\ Len(all) = IF search THEN CountedStamps(data) ELSE Len(rest)
    BY <1>3, <1>9
  <1> HIDE DEF all
  <1>11. Len(first \o all) = Len(first) + Len(all)
    BY <1>1, <1>6, <1>10
  <1>12. Formatted(data, isUserMessage, stampDue, pause) = first \o all
    BY <1>5 DEF all, rest, lines
  <1> QED
    BY <1>1, <1>5, <1>8, <1>9, <1>10, <1>11, <1>12 DEF data

(***************************************************************************)
(* The inductive invariant.                                                *)
(***************************************************************************)

\* What is kept is the end of what was taken, or all of it; the last line that
\* is shown is not longer than the counter says.
KeptSound ==
    \E whole \in BOOLEAN :
        /\ Sound(Kept, taken, StampBytes \ messages, stampNext, whole)
        /\ whole \/ Len(Kept) >= MaxChars

StoredLimited == Len(stored) <= MaxChars + MaxChars \div 5

ShownShort ==
    splitLines /\ ~refilled => LineEnds(console, sinceLine) /\ LineEnds(console, LineBytes - 1)

\* Before consoles are hidden or set up, lines were shown as they came.
SetUpIsRefilled == noConsoleVisible \/ refillDue => refilled

IInv ==
    /\ TypeOK /\ CountersAreSizes /\ KeptSound /\ StoredLimited /\ ShownShort
    /\ SetUpIsRefilled

LEMMA LimitIsNat ==
    /\ MaxChars \in Nat \ {0} /\ LineBytes \in Nat \ {0} /\ MaxBytes \in Nat
    /\ MaxChars \div 5 \in Nat
  BY ConsoleAssumption

LEMMA EmptyIsShort ==
    ASSUME NEW n PROVE LineEnds(<<>>, n)
  BY DEF LineEnds

\* The end that Cut leaves, of more than MaxChars
LEMMA CutEnd ==
    ASSUME NEW s \in Seq(Items), Len(s) > MaxChars
    PROVE  /\ Cut(s, Len(s), MaxChars) = SubSeq(s, Len(s) - MaxChars + 1, Len(s))
           /\ Len(s) - MaxChars \in 0..Len(s)
           /\ Cut(s, Len(s), MaxChars) \in Seq(Items)
           /\ Len(Cut(s, Len(s), MaxChars)) = MaxChars
  <1>1. Len(s) \in Nat /\ \A i \in 1..Len(s) : s[i] \in Items
    BY LenProperties, ElementOfSeq
  <1>2. \A i \in (Len(s) - MaxChars + 1)..Len(s) : s[i] \in Items
    BY <1>1, LimitIsNat
  <1> QED
    BY <1>1, <1>2, LimitIsNat, SubSeqProperties DEF Cut

\* It is also the end of what that is the end of.
LEMMA CutOfEnd ==
    ASSUME NEW r \in Seq(Items), NEW s \in Seq(Items), Len(s) > MaxChars
    PROVE  Cut(s, Len(s), MaxChars) = Cut(r \o s, Len(r \o s), MaxChars)
  <1>1. Len(s) \in Nat /\ Len(r) \in Nat /\ Len(r \o s) = Len(r) + Len(s)
    OBVIOUS
  <1> DEFINE m == Len(r) + Len(s) - MaxChars + 1
             n == Len(r) + Len(s)
  <1>2. m \in (Len(r) + 1)..(Len(r) + Len(s)) /\ n \in (Len(r) + 1)..(Len(r) + Len(s))
    BY <1>1, LimitIsNat
  <1>3. SubSeq(r \o s, m, n) = SubSeq(s, m - Len(r), n - Len(r))
    BY <1>2, SubSeqOfConcat2
  <1>4. /\ m - Len(r) = Len(s) - MaxChars + 1 /\ n - Len(r) = Len(s)
        /\ m = Len(r \o s) - MaxChars + 1 /\ n = Len(r \o s)
    BY <1>1, LimitIsNat
  <1> HIDE DEF m, n
  <1>5. Cut(r \o s, Len(r \o s), MaxChars) = SubSeq(r \o s, m, n)
    BY <1>4, Zenon DEF Cut
  <1>6. Cut(s, Len(s), MaxChars) = SubSeq(s, m - Len(r), n - Len(r))
    BY <1>4, Zenon DEF Cut
  <1> QED
    BY <1>3, <1>5, <1>6

\* Cutting keeps what is sound, but not the whole of it.
LEMMA SoundCut ==
    ASSUME NEW s, NEW all \in SUBSET (Nat \ {0}), NEW asking \in SUBSET (Nat \ {0}),
           NEW open \in BOOLEAN, NEW whole \in BOOLEAN,
           Sound(s, all, asking, open, whole), Len(s) > MaxChars
    PROVE  LET t == Cut(s, Len(s), MaxChars)
           IN Len(t) = MaxChars /\ \E part \in BOOLEAN : Sound(t, all, asking, open, part)
  <1> DEFINE part == FALSE
             d == Len(s) - MaxChars
  <1>1. s \in Seq(Items)
    BY Zenon DEF Sound
  <1>2. d \in 0..Len(s) /\ Cut(s, Len(s), MaxChars) = SubSeq(s, d + 1, Len(s))
    BY <1>1, CutEnd
  <1>3. part \in BOOLEAN /\ ~part
    OBVIOUS
  <1> HIDE DEF part, d
  <1>4. Sound(SubSeq(s, d + 1, Len(s)), all, asking, open, part)
    BY <1>2, <1>3, SoundEnd
  <1>5. Len(Cut(s, Len(s), MaxChars)) = MaxChars
    BY <1>1, CutEnd
  <1> QED
    BY <1>2, <1>3, <1>4, <1>5, Zenon

\* An update keeps all that.
LEMMA UpdateKeeps ==
    ASSUME IInv, NEW filled \in Seq(Items), NEW since \in Nat, NEW highRate \in BOOLEAN,
           Update(filled, since, highRate),
           UNCHANGED <<splitLines, stampNext, noConsoleVisible, arrived, taken, messages,
                       refilled>>,
           refillDue' \in BOOLEAN, refillDue' => refillDue,
           splitLines /\ ~refilled => LineEnds(filled, since) /\ LineEnds(filled, LineBytes - 1)
    PROVE  IInv'
  <1> DEFINE items == WithLines(since, highRate)
             before == Before(filled)
             u == before.stored
             r == before.shown
             w == u \o items
  <1>0. TypeOK /\ CountersAreSizes
    BY DEF IInv
  <1>1. /\ u \in Seq(Items) /\ r \in Seq(Items) /\ before.bytes = Len(u) /\ u \o fresh = Kept
        /\ splitLines /\ ~refilled => LineEnds(r, since) /\ LineEnds(r, LineBytes - 1)
    <2>1. CASE clearFirst
      <3>1. u = <<>> /\ r = <<>> /\ before.bytes = 0 /\ Kept = fresh
        BY <2>1 DEF Before, Emptied, Kept
      <3>2. <<>> \o fresh = fresh
        BY <1>0, ConcatEmptySeq DEF TypeOK
      <3>3. <<>> \in Seq(Items) /\ Len(<<>>) = 0
        OBVIOUS
      <3> HIDE DEF before
      <3> QED
        BY <3>1, <3>2, <3>3, EmptyIsShort
    <2>2. CASE ~clearFirst
      <3>1. u = stored /\ r = filled /\ before.bytes = storedBytes /\ Kept = stored \o fresh
        BY <2>2 DEF Before, Kept
      <3> HIDE DEF before
      <3> QED
        BY <3>1, <1>0 DEF TypeOK, CountersAreSizes
    <2> QED
      BY <2>1, <2>2
  <1>2. /\ Limit(w, before.bytes + Len(items)) /\ console' = r \o Displayed(items)
        /\ sinceLine' = IF splitLines THEN Columns(since, highRate)[Len(fresh)] ELSE 0
        /\ fresh' = <<>> /\ clearFirst' = FALSE /\ freshBytes' = 0
        /\ log' = <<>> /\ timer' = FALSE
    BY Zenon DEF Update
  <1> HIDE DEF before
  <1>3. fresh \in Seq(Items) /\ items \in Seq(Items) /\ Len(fresh) \in Nat
    <2>1. fresh \in Seq(Items)
      BY <1>0 DEF TypeOK
    <2>2. PICK g : /\ \A i \in 0..Len(fresh) : g[i] \in Seq(Items)
                   /\ WithLines(since, highRate) = g[Len(fresh)]
      BY <2>1, LinesPrefixes
    <2>3. Len(fresh) \in Nat /\ Len(fresh) \in 0..Len(fresh)
      BY <2>1
    <2> QED
      BY <2>1, <2>2, <2>3
  <1>4. w \in Seq(Items) /\ Inserted(Kept, Len(Kept), w)
    BY <1>1, <1>3, UpdateInserts
  <1> HIDE DEF items
  <1>5. before.bytes + Len(items) = Len(w)
    BY <1>1, <1>3
  <1>6. Columns(since, highRate)[Len(fresh)] \in Nat
    BY <1>3, ColumnsDef
  <1>7. console' \in Seq(Items)
    <2>1. Displayed(items) \in Seq(Items)
      BY <1>3 DEF Displayed
    <2> QED
      BY <1>1, <1>2, <2>1, ConcatProperties
  <1> DEFINE asking == StampBytes \ messages
  <1>8. taken \in SUBSET (Nat \ {0}) /\ asking \in SUBSET (Nat \ {0}) /\ stampNext \in BOOLEAN
    BY <1>0, ConsoleAssumption DEF TypeOK
  <1> HIDE DEF asking, w
  <1>9. \E whole \in BOOLEAN :
            Sound(w, taken, asking, stampNext, whole) /\ (whole \/ Len(w) >= MaxChars)
    <2>1. PICK whole \in BOOLEAN : /\ Sound(Kept, taken, asking, stampNext, whole)
                                   /\ whole \/ Len(Kept) >= MaxChars
      BY DEF IInv, KeptSound, asking
    <2>2. Kept \in Seq(Items)
      BY <2>1, Zenon DEF Sound
    <2>3. Sound(w, taken, asking, stampNext, whole) /\ Len(w) >= Len(Kept)
      BY <2>1, <1>4, <1>8, SoundInserted
    <2>4. whole \/ Len(w) >= MaxChars
      BY <2>1, <2>2, <2>3, <1>4, LimitIsNat
    <2> QED
      BY <2>3, <2>4, Zenon
  <1>10. /\ stored' \in Seq(Items) /\ storedBytes' = Len(stored') /\ StoredLimited'
         /\ \E whole \in BOOLEAN :
                Sound(stored', taken, asking, stampNext, whole) /\ (whole \/ Len(stored') >= MaxChars)
    <2>1. Len(w) \in Nat
      BY <1>4
    <2>2. CASE Len(w) > MaxChars + MaxChars \div 5
      <3>1. stored' = Cut(w, Len(w), MaxChars) /\ storedBytes' = MaxChars
        BY <1>2, <1>5, <2>2 DEF Limit
      <3>2. Len(w) > MaxChars
        BY <2>1, <2>2, LimitIsNat
      <3>3. stored' \in Seq(Items) /\ Len(stored') = MaxChars
        BY <1>4, <3>1, <3>2, CutEnd
      <3>4. \E part \in BOOLEAN : Sound(stored', taken, asking, stampNext, part)
        BY <1>8, <1>9, <3>1, <3>2, SoundCut
      <3>5. Len(stored') >= MaxChars /\ Len(stored') <= MaxChars + MaxChars \div 5
        BY <3>3, LimitIsNat
      <3> QED
        BY <3>1, <3>3, <3>4, <3>5, Zenon DEF StoredLimited
    <2>3. CASE ~(Len(w) > MaxChars + MaxChars \div 5)
      <3>1. stored' = w /\ storedBytes' = Len(w)
        BY <1>2, <1>5, <2>3 DEF Limit
      <3>2. Len(w) <= MaxChars + MaxChars \div 5
        BY <2>1, <2>3, LimitIsNat
      <3> QED
        BY <3>1, <3>2, <1>4, <1>9, Zenon DEF StoredLimited
    <2> QED
      BY <2>2, <2>3
  <1>11. Kept' = stored'
    <2>1. stored' \o <<>> = stored'
      BY <1>10, ConcatEmptySeq
    <2> QED
      BY <1>2, <2>1 DEF Kept
  <1>12. KeptSound'
    <2>1. asking' = asking /\ taken' = taken /\ stampNext' = stampNext
      BY DEF asking
    <2> QED
      BY <1>10, <1>11, <2>1, Zenon DEF KeptSound, asking
  <1>13. ShownShort'
    <2> SUFFICES ASSUME splitLines, ~refilled
                 PROVE  LineEnds(console', sinceLine') /\ LineEnds(console', LineBytes - 1)
      BY DEF ShownShort
    <2>0. console' = r \o items
      BY <1>2 DEF Displayed, IInv, SetUpIsRefilled
    <2>1. LineEnds(r, since) /\ LineEnds(r, LineBytes - 1)
      BY <1>1
    <2>2. LET t == r \o items
          IN LineEnds(t, Columns(since, highRate)[Len(fresh)]) /\ LineEnds(t, LineBytes - 1)
      BY <2>1, <1>1, <1>3, UpdateKeepsShort DEF items
    <2> QED
      BY <2>0, <2>2, <1>2, Zenon
  <1>14. TypeOK'
    <2>1. sinceLine' \in Nat
      BY <1>2, <1>6
    <2>2. fresh' \in Seq(Items) /\ log' \in Seq(1..MaxBytes) /\ freshBytes' \in 0..MaxChars
      BY <1>2, LimitIsNat
    <2>3. storedBytes' \in Nat
      BY <1>10
    <2> QED
      BY <1>0, <1>2, <1>7, <1>10, <2>1, <2>2, <2>3 DEF TypeOK
  <1>15. CountersAreSizes' /\ SetUpIsRefilled'
    BY <1>2, <1>10 DEF CountersAreSizes, IInv, SetUpIsRefilled
  <1> QED
    BY <1>10, <1>12, <1>13, <1>14, <1>15 DEF IInv

\* Fewer bytes ask for a stamp when more came in messages of the user.
LEMMA KeptFewer ==
    ASSUME TypeOK, NEW whole \in BOOLEAN, messages \subseteq messages',
           Sound(Kept, taken, StampBytes \ messages, stampNext, whole)
    PROVE  Sound(Kept, taken, StampBytes \ messages', stampNext, whole)
  <1> DEFINE before == StampBytes \ messages
             asking == StampBytes \ messages'
  <1>1. asking \in SUBSET before /\ Sound(Kept, taken, before, stampNext, whole)
    OBVIOUS
  <1>2. stampNext \in BOOLEAN
    BY DEF TypeOK
  <1> HIDE DEF asking, before
  <1>3. ASSUME NEW s, NEW open \in BOOLEAN, Sound(s, taken, before, open, whole)
        PROVE  Sound(s, taken, asking, open, whole)
    BY <1>1, <1>3, SoundFewer
  <1>4. Sound(Kept, taken, asking, stampNext, whole)
    BY <1>1, <1>2, <1>3, Zenon
  <1> QED
    BY <1>4 DEF asking

\* A message that is not shown changes nothing of what is kept.
LEMMA UnshownKeeps ==
    ASSUME IInv, NEW n \in Nat \ {0}, arrived + n <= MaxBytes,
           arrived' = arrived + n,
           log' \in Seq(1..MaxBytes), timer' \in BOOLEAN,
           messages' \in SUBSET StampBytes, messages \subseteq messages',
           UNCHANGED <<splitLines, fresh, clearFirst, freshBytes, stored, storedBytes, sinceLine,
                       stampNext, noConsoleVisible, refillDue, console, taken, refilled>>
    PROVE  IInv'
  <1>0. TypeOK
    BY DEF IInv
  <1>1. Kept' = Kept
    BY DEF Kept
  <1>2. KeptSound'
    <2>1. PICK whole \in BOOLEAN : /\ Sound(Kept, taken, StampBytes \ messages, stampNext, whole)
                                   /\ whole \/ Len(Kept) >= MaxChars
      BY DEF IInv, KeptSound
    <2>2. Sound(Kept, taken, StampBytes \ messages', stampNext, whole)
      BY <1>0, <2>1, KeptFewer
    <2>3. taken' = taken /\ stampNext' = stampNext
      OBVIOUS
    <2> QED
      BY <1>1, <2>1, <2>2, <2>3, Zenon DEF KeptSound
  <1>3. TypeOK'
    <2>1. arrived' \in 0..MaxBytes /\ taken' \subseteq 1..arrived'
      BY LimitIsNat DEF IInv, TypeOK
    <2> QED
      BY <2>1 DEF IInv, TypeOK
  <1> QED
    BY <1>2, <1>3 DEF IInv, CountersAreSizes, StoredLimited, ShownShort, SetUpIsRefilled

\* A message that is shown follows what is kept.
LEMMA AddedSound ==
    ASSUME TypeOK, NEW n \in Nat \ {0}, arrived + n <= MaxBytes,
           NEW asking \in SUBSET StampBytes, NEW whole \in BOOLEAN,
           NEW isUserMessage \in BOOLEAN, NEW stampDue \in BOOLEAN, NEW pause \in BOOLEAN,
           Sound(Kept, taken, asking, stampNext, whole),
           isUserMessage => NoneAsks(arrived, n, asking)
    PROVE  LET data == Message(arrived, n)
               added == Formatted(data, isUserMessage, stampDue, pause)
           IN /\ added \in Seq(Items)
              /\ Sound(Kept \o added, Until(taken, arrived, n), asking,
                       StampStillDue(data, isUserMessage), whole)
  <1>1. arrived \in Nat /\ taken \in SUBSET (1..arrived) /\ stampNext \in BOOLEAN
    BY DEF TypeOK
  <1> DEFINE u == Kept
             t == taken
             a == arrived
  <1>2. /\ a \in Nat /\ t \in SUBSET (1..a) /\ a + n <= MaxBytes
        /\ Sound(u, t, asking, stampNext, whole)
        /\ isUserMessage => NoneAsks(a, n, asking)
    BY <1>1
  <1> HIDE DEF u, t, a
  <1>3. /\ Formatted(Message(a, n), isUserMessage, stampDue, pause) \in Seq(Items)
        /\ Sound(u \o Formatted(Message(a, n), isUserMessage, stampDue, pause), Until(t, a, n),
                 asking, StampStillDue(Message(a, n), isUserMessage), whole)
    BY <1>1, <1>2, FormattedSound
  <1> QED
    BY <1>3 DEF u, t, a

\* A message that is shown
LEMMA CollectKeeps ==
    ASSUME IInv, NEW n \in Nat \ {0}, arrived + n <= MaxBytes,
           NEW isUserMessage \in BOOLEAN,
           arrived' = arrived + n,
           Collect(Message(arrived, n), isUserMessage),
           taken' = Until(taken, arrived, n),
           messages' \in SUBSET StampBytes, messages \subseteq messages',
           isUserMessage => \A i \in 1..n : arrived + i \in StampBytes => arrived + i \in messages',
           log' \in Seq(1..MaxBytes), timer' \in BOOLEAN,
           UNCHANGED <<splitLines, stored, storedBytes, sinceLine, noConsoleVisible, refillDue,
                       console, refilled>>
    PROVE  IInv'
  <1> DEFINE data == Message(arrived, n)
             asking == StampBytes \ messages'
             next == StampStillDue(data, isUserMessage)
  <1>0. TypeOK /\ CountersAreSizes /\ KeptSound /\ StoredLimited /\ ShownShort
    BY DEF IInv
  <1>1. PICK stampDue \in BOOLEAN, pause \in BOOLEAN :
            LET added == Formatted(data, isUserMessage, stampDue, pause)
                bytes == freshBytes + Counted(data, isUserMessage, stampDue, pause)
            IN /\ stampNext' = next
               /\ IF bytes > MaxChars THEN Overflow(fresh \o added, bytes)
                  ELSE fresh' = fresh \o added /\ freshBytes' = bytes /\ UNCHANGED clearFirst
    BY Zenon DEF Collect
  <1> DEFINE added == Formatted(data, isUserMessage, stampDue, pause)
             all == Until(taken, arrived, n)
             now == fresh \o added
  <1>2. /\ arrived \in Nat /\ taken \in SUBSET (1..arrived) /\ stampNext \in BOOLEAN
        /\ asking \in SUBSET StampBytes
        /\ asking \in SUBSET (Nat \ {0}) /\ all \in SUBSET (Nat \ {0})
        /\ all \subseteq 1..(arrived + n)
    <2>1. arrived \in Nat /\ taken \in SUBSET (1..arrived) /\ stampNext \in BOOLEAN
      BY <1>0 DEF TypeOK
    <2>2. all \in SUBSET (Nat \ {0})
      BY <2>1, UntilNext
    <2>3. \A b \in all : b < arrived + (n + 1)
      BY <2>1, UntilNext
    <2>4. all \subseteq 1..(arrived + n)
      BY <2>1, <2>2, <2>3
    <2> QED
      BY <2>1, <2>2, <2>4, ConsoleAssumption
  <1>3. next \in BOOLEAN
    BY DEF StampStillDue, EndsWithStamp
  <1>4. PICK whole \in BOOLEAN : /\ Sound(Kept, taken, StampBytes \ messages, stampNext, whole)
                                 /\ whole \/ Len(Kept) >= MaxChars
    BY <1>0 DEF KeptSound
  <1>5. Sound(Kept, taken, asking, stampNext, whole)
    BY <1>0, <1>4, KeptFewer
  <1>6. isUserMessage => \A i \in 1..n : arrived + i \notin asking
    OBVIOUS
  <1> HIDE DEF asking
  <1>7. added \in Seq(Items) /\ Sound(Kept \o added, all, asking, next, whole)
    <2>1. isUserMessage => NoneAsks(arrived, n, asking)
      BY <1>6 DEF NoneAsks
    <2> QED
      BY <1>0, <1>2, <1>5, <2>1, AddedSound
  <1>15. Counted(data, isUserMessage, stampDue, pause) = Len(added)
    BY <1>2, <1>7, AddedIsCounted
  <1> HIDE DEF added, all, next
  <1>8. /\ fresh \in Seq(Items) /\ stored \in Seq(Items) /\ freshBytes = Len(fresh)
        /\ now \in Seq(Items) /\ Len(now) = freshBytes + Len(added)
        /\ Len(now) \in Nat
    BY <1>0, <1>7 DEF TypeOK, CountersAreSizes
  <1>9. Kept \o added = IF clearFirst THEN now ELSE stored \o now
    <2> DEFINE s == stored
    <2>0. s \in Seq(Items)
      BY <1>8
    <2> HIDE DEF s
    <2>1. \A q \in Seq(Items), r \in Seq(Items) : s \o (q \o r) = (s \o q) \o r
      BY <2>0, ConcatenatedItems
    <2>2. (stored \o fresh) \o added = stored \o (fresh \o added)
      BY <2>1, <1>7, <1>8, Zenon DEF s
    <2> QED
      BY <2>2 DEF Kept
  <1> HIDE DEF now
  <1>10. /\ fresh' \in Seq(Items) /\ freshBytes' = Len(fresh') /\ freshBytes' \in 0..MaxChars
         /\ clearFirst' \in BOOLEAN
         /\ \E rest \in BOOLEAN :
                Sound(Kept', all, asking, next, rest) /\ (rest \/ Len(Kept') >= MaxChars)
    <2>1. CASE Len(now) > MaxChars
      <3>1. Overflow(now, Len(now))
        BY <1>1, <1>8, <1>15, <2>1 DEF now, added
      <3>2. fresh' = Cut(now, Len(now), MaxChars) /\ clearFirst' = TRUE /\ freshBytes' = MaxChars
        BY <3>1 DEF Overflow
      <3>3. fresh' \in Seq(Items) /\ Len(fresh') = MaxChars
        BY <1>8, <2>1, <3>2, CutEnd
      <3>4. Kept' = fresh'
        BY <3>2 DEF Kept
      <3>5. \E rest \in BOOLEAN : Sound(fresh', all, asking, next, rest)
        <4>1. CASE clearFirst
          <5>1. Sound(now, all, asking, next, whole)
            BY <1>7, <1>9, <4>1
          <5> QED
            BY <5>1, <3>2, <2>1, <1>2, <1>3, SoundCut
        <4>2. CASE ~clearFirst
          <5> DEFINE s == stored \o now
          <5>1. Sound(s, all, asking, next, whole)
            BY <1>7, <1>9, <4>2
          <5>2. Len(s) > MaxChars
            BY <1>8, <2>1, LimitIsNat
          <5>3. fresh' = Cut(s, Len(s), MaxChars)
            BY <1>8, <2>1, <3>2, CutOfEnd
          <5> HIDE DEF s
          <5> QED
            BY <5>1, <5>2, <5>3, <1>2, <1>3, SoundCut
        <4> QED
          BY <4>1, <4>2
      <3>6. Len(Kept') >= MaxChars /\ freshBytes' \in 0..MaxChars
        BY <3>2, <3>3, <3>4, LimitIsNat
      <3> QED
        BY <3>2, <3>3, <3>4, <3>5, <3>6, Zenon
    <2>2. CASE ~(Len(now) > MaxChars)
      <3>1. fresh' = now /\ freshBytes' = Len(now) /\ clearFirst' = clearFirst
        BY <1>1, <1>8, <1>15, <2>2 DEF now, added
      <3>2. Kept' = Kept \o added
        BY <3>1, <1>9 DEF Kept
      <3>3. Len(Kept \o added) >= Len(Kept)
        <4>1. Kept \in Seq(Items)
          BY <1>4, Zenon DEF Sound
        <4> QED
          BY <4>1, <1>7
      <3>4. whole \/ Len(Kept') >= MaxChars
        <4>1. Kept \in Seq(Items)
          BY <1>4, Zenon DEF Sound
        <4>2. Len(Kept \o added) \in Nat /\ Len(Kept) \in Nat
          BY <4>1, <1>7
        <4> QED
          BY <4>2, <1>4, <3>2, <3>3, LimitIsNat
      <3>5. Sound(Kept', all, asking, next, whole)
        BY <1>7, <3>2
      <3>6. freshBytes' \in 0..MaxChars /\ clearFirst' \in BOOLEAN
        BY <3>1, <2>2, <1>0, <1>8, LimitIsNat DEF TypeOK
      <3> QED
        BY <3>1, <3>4, <3>5, <3>6, <1>8, Zenon
    <2> QED
      BY <2>1, <2>2
  <1>11. stampNext' = next /\ taken' = all
    BY <1>1 DEF next, all
  <1>12. KeptSound'
    BY <1>10, <1>11, Zenon DEF KeptSound, asking
  <1>13. TypeOK'
    <2>1. arrived' \in 0..MaxBytes
      BY <1>2, LimitIsNat
    <2> QED
      BY <2>1, <1>0, <1>2, <1>3, <1>10, <1>11 DEF TypeOK
  <1>14. CountersAreSizes' /\ StoredLimited' /\ ShownShort' /\ SetUpIsRefilled'
    BY <1>0, <1>10 DEF IInv, CountersAreSizes, StoredLimited, ShownShort, SetUpIsRefilled
  <1> QED
    BY <1>12, <1>13, <1>14 DEF IInv

LEMMA ArriveKeeps ==
    ASSUME IInv, NEW n \in Sizes, NEW d \in Dirs, NEW isUserMessage \in BOOLEAN,
           Arrive(n, d, isUserMessage)
    PROVE  IInv'
  <1> DEFINE data == Message(arrived, n)
  <1>0. TypeOK /\ n \in Nat \ {0} /\ arrived \in Nat
    BY ConsoleAssumption DEF IInv, TypeOK
  <1>1. /\ arrived + n <= MaxBytes /\ arrived' = arrived + n
        /\ messages' = messages \cup (IF isUserMessage THEN ToSet(data) \cap StampBytes ELSE {})
        /\ log' \in {log \o data, log}
        /\ \/ Collect(data, isUserMessage) /\ taken' = taken \cup ToSet(data)
           \/ UNCHANGED <<fresh, clearFirst, freshBytes, stampNext, taken>>
        /\ timer' \in BOOLEAN
        /\ UNCHANGED <<splitLines, stored, storedBytes, sinceLine, noConsoleVisible, refillDue,
                       console, refilled>>
    BY DEF Arrive, Message
  <1>2. data \in Seq(1..MaxBytes) /\ Len(data) = n /\ \A i \in 1..n : data[i] = arrived + i
    <2>1. \A i \in 1..n : arrived + i \in 1..MaxBytes
      BY <1>0, <1>1, LimitIsNat
    <2> QED
      BY <2>1, <1>0, IsASeq DEF Message
  <1>3. ToSet(data) = {arrived + i : i \in 1..n}
    <2>1. ToSet(data) = {data[i] : i \in 1..n}
      BY <1>2, ToSetAt
    <2> QED
      BY <2>1, <1>2
  <1> HIDE DEF data
  <1>4. log' \in Seq(1..MaxBytes)
    <2>1. log \in Seq(1..MaxBytes)
      BY <1>0 DEF TypeOK
    <2>2. log \o data \in Seq(1..MaxBytes)
      BY <2>1, <1>2, ConcatProperties
    <2> QED
      BY <2>1, <2>2, <1>1
  <1>7. messages' \in SUBSET StampBytes /\ messages \subseteq messages'
    BY <1>0, <1>1 DEF TypeOK
  <1>5. CASE UNCHANGED <<fresh, clearFirst, freshBytes, stampNext, taken>>
    BY <1>0, <1>1, <1>4, <1>5, <1>7, UnshownKeeps
  <1>6. CASE Collect(data, isUserMessage) /\ taken' = taken \cup ToSet(data)
    <2>1. taken' = Until(taken, arrived, n)
      BY <1>3, <1>6 DEF Until
    <2>2. isUserMessage => \A i \in 1..n : arrived + i \in StampBytes => arrived + i \in messages'
      BY <1>1, <1>3
    <2>3. Collect(Message(arrived, n), isUserMessage)
      BY <1>6 DEF data
    <2> QED
      BY <2>1, <2>2, <2>3, <1>0, <1>1, <1>4, <1>7, CollectKeeps
  <1> QED
    BY <1>1, <1>5, <1>6

LEMMA TimerKeeps ==
    ASSUME IInv, TimerExpires PROVE IInv'
  <1>1. PICK highRate \in BOOLEAN : Update(console, sinceLine, highRate)
    BY Zenon DEF TimerExpires
  <1>2. UNCHANGED <<splitLines, stampNext, noConsoleVisible, refillDue, arrived, taken,
                    messages, refilled>>
    BY DEF TimerExpires
  <1>3. console \in Seq(Items) /\ sinceLine \in Nat /\ refillDue' \in BOOLEAN
    BY <1>2 DEF IInv, TypeOK
  <1>4. splitLines /\ ~refilled =>
           LineEnds(console, sinceLine) /\ LineEnds(console, LineBytes - 1)
    BY DEF IInv, ShownShort
  <1> QED
    BY <1>1, <1>2, <1>3, <1>4, UpdateKeeps

LEMMA RefillKeeps ==
    ASSUME IInv, Refill PROVE IInv'
  <1> DEFINE filled == Displayed(stored)
  <1>1. PICK highRate \in BOOLEAN : Update(filled, 0, highRate)
    BY Zenon DEF Refill
  <1>2. /\ UNCHANGED <<splitLines, stampNext, noConsoleVisible, arrived, taken, messages,
                       refilled>>
        /\ refillDue /\ refillDue' = FALSE
    BY DEF Refill
  <1>3. filled \in Seq(Items) /\ 0 \in Nat
    BY DEF IInv, TypeOK, Displayed
  <1>4. refilled
    BY <1>2 DEF IInv, SetUpIsRefilled
  <1> HIDE DEF filled
  <1> QED
    BY <1>1, <1>2, <1>3, <1>4, UpdateKeeps

LEMMA NothingKept ==
    ASSUME Kept = <<>>, taken = {}, stampNext \in BOOLEAN
    PROVE  KeptSound
  <1> DEFINE yes == TRUE
  <1>1. yes \in BOOLEAN /\ yes
    OBVIOUS
  <1> HIDE DEF yes
  <1>2. Sound(<<>>, {}, StampBytes \ messages, stampNext, yes)
    BY <1>1, NothingSound
  <1> QED
    BY <1>1, <1>2, Zenon DEF KeptSound

LEMMA ClearKeeps ==
    ASSUME IInv, ClearConsole PROVE IInv'
  <1>1. Kept' = <<>>
    <2>1. <<>> \o <<>> = <<>>
      OBVIOUS
    <2> QED
      BY <2>1 DEF ClearConsole, Kept
  <1>2. taken' = {} /\ stampNext' = stampNext /\ messages' = messages /\ stampNext \in BOOLEAN
    BY DEF ClearConsole, IInv, TypeOK
  <1>3. KeptSound'
    <2> DEFINE yes == TRUE
    <2>1. yes \in BOOLEAN /\ yes
      OBVIOUS
    <2> HIDE DEF yes
    <2>2. Sound(<<>>, {}, StampBytes \ messages, stampNext, yes)
      BY <1>2, <2>1, NothingSound
    <2> QED
      BY <1>1, <1>2, <2>1, <2>2, Zenon DEF KeptSound
  <1>4. ShownShort'
    BY EmptyIsShort DEF ClearConsole, ShownShort
  <1>5. <<>> \in Seq(Items) /\ Len(<<>>) = 0 /\ 0 \in 0..MaxChars
    BY LimitIsNat
  <1>6. TypeOK'
    BY <1>5 DEF ClearConsole, IInv, TypeOK
  <1>7. CountersAreSizes' /\ StoredLimited' /\ SetUpIsRefilled'
    BY <1>5, LimitIsNat DEF ClearConsole, CountersAreSizes, StoredLimited, IInv, SetUpIsRefilled
  <1> QED
    BY <1>3, <1>4, <1>6, <1>7 DEF IInv

LEMMA InvInit == Init => IInv
  <1> SUFFICES ASSUME Init PROVE IInv
    OBVIOUS
  <1>1. Kept = <<>>
    <2>1. <<>> \o <<>> = <<>>
      OBVIOUS
    <2> QED
      BY <2>1 DEF Init, Kept
  <1>2. KeptSound
    BY <1>1, NothingKept DEF Init
  <1>3. ShownShort
    BY EmptyIsShort DEF Init, ShownShort
  <1>4. /\ <<>> \in Seq(Items) /\ <<>> \in Seq(1..MaxBytes) /\ Len(<<>>) = 0
        /\ 0 \in 0..MaxChars /\ 0 \in 0..MaxBytes
    BY LimitIsNat
  <1>5. TypeOK
    BY <1>4 DEF Init, TypeOK
  <1>6. CountersAreSizes /\ StoredLimited /\ SetUpIsRefilled
    BY <1>4, LimitIsNat DEF Init, CountersAreSizes, StoredLimited, SetUpIsRefilled
  <1> QED
    BY <1>2, <1>3, <1>5, <1>6 DEF IInv

LEMMA SameKeeps ==
    ASSUME IInv, UNCHANGED <<splitLines, fresh, clearFirst, freshBytes, stored, storedBytes,
                             stampNext, log, timer, arrived, taken, messages>>,
           console' \in Seq(Items), refilled' \in BOOLEAN, sinceLine' = sinceLine,
           noConsoleVisible' \in BOOLEAN, refillDue' \in BOOLEAN, SetUpIsRefilled',
           refilled' \/ (console' = console /\ refilled' = refilled)
    PROVE  IInv'
  <1>1. Kept' = Kept
    BY DEF Kept
  <1>2. KeptSound'
    <2>1. KeptSound /\ taken' = taken /\ messages' = messages /\ stampNext' = stampNext
      BY DEF IInv
    <2> QED
      BY <2>1, <1>1, Zenon DEF KeptSound
  <1>3. ShownShort'
    BY DEF IInv, ShownShort
  <1> QED
    BY <1>2, <1>3 DEF IInv, TypeOK, CountersAreSizes, StoredLimited

LEMMA InvStep == IInv /\ [Next]_vars => IInv'
  <1> SUFFICES ASSUME IInv, [Next]_vars PROVE IInv'
    OBVIOUS
  <1>1. ASSUME NEW n \in Sizes, NEW d \in Dirs, Arrive(n, d, FALSE) PROVE IInv'
    <2> DEFINE no == FALSE
    <2>1. no \in BOOLEAN /\ Arrive(n, d, no)
      BY <1>1
    <2> HIDE DEF no
    <2> QED
      BY <2>1, ArriveKeeps
  <1>2. ASSUME NEW n \in Sizes, Arrive(n, "sent", TRUE) PROVE IInv'
    <2> DEFINE yes == TRUE
    <2>1. yes \in BOOLEAN /\ "sent" \in Dirs /\ Arrive(n, "sent", yes)
      BY <1>2 DEF Dirs
    <2> HIDE DEF yes
    <2> QED
      BY <2>1, ArriveKeeps
  <1>3. CASE TimerExpires
    BY <1>3, TimerKeeps
  <1>4. CASE Refill
    BY <1>4, RefillKeeps
  <1>5. CASE RefillMixed
    BY <1>5, SameKeeps DEF RefillMixed, SetUpIsRefilled, IInv, TypeOK
  <1>6. CASE ClearConsole
    BY <1>6, ClearKeeps
  <1>7. CASE SetUp
    BY <1>7, SameKeeps DEF SetUp, SetUpIsRefilled, IInv, TypeOK
  <1>8. CASE UNCHANGED vars
    BY <1>8, SameKeeps DEF vars, SetUpIsRefilled, IInv, TypeOK
  <1> QED
    BY <1>1, <1>2, <1>3, <1>4, <1>5, <1>6, <1>7, <1>8, Zenon DEF Next

LEMMA InvAlways == Spec => []IInv
  <1> QED
    BY InvInit, InvStep, PTL DEF Spec

(***************************************************************************)
(* The counters of freshly collected and of stored data are the sizes of   *)
(* the buffers, whatever is collected, shown, cut, filled again or cleared *)
(* (and everything has its type).                                          *)
(***************************************************************************)
THEOREM CountersExact == Spec => [](TypeOK /\ CountersAreSizes)
  <1>1. IInv => TypeOK /\ CountersAreSizes
    BY DEF IInv
  <1> QED
    BY <1>1, InvAlways, PTL

(***************************************************************************)
(* What is kept for the consoles is the end of what was taken, in its      *)
(* order, without gaps, and as much of it as maxCharsInConsole allows,     *)
(* however buffers overflow and are cut: for every limit and every size of *)
(* messages.                                                               *)
(***************************************************************************)
THEOREM EndKept == Spec => []KeepsTheEnd
  <1>1. IInv => KeepsTheEnd
    <2> SUFFICES ASSUME IInv PROVE KeepsTheEnd
      OBVIOUS
    <2>1. PICK whole \in BOOLEAN : /\ Sound(Kept, taken, StampBytes \ messages, stampNext, whole)
                                   /\ whole \/ Len(Kept) >= MaxChars
      BY DEF IInv, KeptSound
    <2>2. /\ \A b \in ToSet(Kept) : IsByte(b) => b \in taken
          /\ InOrder(Kept) /\ NoGaps(Kept, taken \ StampBytes)
          /\ whole => taken \ StampBytes \subseteq ToSet(Kept)
      BY <2>1, Zenon DEF Sound
    <2>3. Len(stored) <= MaxChars + MaxChars \div 5
      BY DEF IInv, StoredLimited
    <2> QED
      BY <2>1, <2>2, <2>3 DEF KeepsTheEnd
  <1> QED
    BY <1>1, InvAlways, PTL

(***************************************************************************)
(* With consoleNewLineAfterBytes no line gets longer than that, whatever   *)
(* the sizes of messages, the data rate and the updates between them,      *)
(* until the consoles are filled again.                                    *)
(***************************************************************************)
THEOREM LinesShort == Spec => []LinesAreShort
  <1>1. IInv => LinesAreShort
    <2> SUFFICES ASSUME IInv, splitLines, ~refilled,
                        NEW i \in 1..Len(console), NEW j \in 1..Len(console),
                        i <= j, Lineless(console, i, j)
                 PROVE  j - i + 1 <= LineBytes
      BY DEF LinesAreShort
    <2>1. LineEnds(console, LineBytes - 1)
      BY DEF IInv, ShownShort
    <2> QED
      BY <2>1, LimitIsNat DEF LineEnds
  <1> QED
    BY <1>1, InvAlways, PTL

(***************************************************************************)
(* After each byte consoleTimestampAt there is a time stamp, or it is      *)
(* still to come with the next message, whatever overflows in between.     *)
(***************************************************************************)
THEOREM StampsNotForgotten == Spec => []StampsFollow
  <1>1. IInv => StampsFollow
    <2> SUFFICES ASSUME IInv PROVE StampsFollow
      OBVIOUS
    <2>1. PICK whole \in BOOLEAN : Sound(Kept, taken, StampBytes \ messages, stampNext, whole)
      BY DEF IInv, KeptSound
    <2>2. Followed(Kept, StampBytes \ messages, stampNext)
      BY <2>1, Zenon DEF Sound
    <2> QED
      BY <2>2, Zenon DEF Followed, StampsFollow
  <1> QED
    BY <1>1, InvAlways, PTL

=============================================================================
