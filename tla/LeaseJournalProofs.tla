------------------------- MODULE LeaseJournalProofs -------------------------
(***************************************************************************)
(* Theorems about LeaseJournal, for any number of recoveries, records and  *)
(* faults.  The journal stays readable because payloads and commits        *)
(* alternate in it, whatever is cut off or lost, and because a payload is  *)
(* on the disk before the commit that follows it is written.               *)
(***************************************************************************)
EXTENDS LeaseJournal, TLAPS

\* Lines alternate, only the last may lack its end, and complete pairs agree.
Shape(f) ==
    /\ f \in Seq(Line)
    /\ \A i \in 1 .. Len(f) : f[i].kind = IF i % 2 = 1 THEN "payload" ELSE "commit"
    /\ \A i \in 1 .. Len(f) : i < Len(f) => f[i].whole
    /\ \A k \in 1 .. Pairs(f) : PairOK(f, k)

\* Where the reading of a file of that shape stops.
LEMMA PairsFacts ==
    ASSUME NEW f \in Seq(Line)
    PROVE  /\ Len(f) \in Nat /\ Lines(f) \in Nat /\ Pairs(f) \in Nat /\ Size(f) \in Nat
           /\ Torn(f) => Len(f) > 0 /\ Lines(f) = Len(f) - 1 /\ Size(f) = 2 * Len(f) - 1
           /\ ~Torn(f) => Lines(f) = Len(f) /\ Size(f) = 2 * Len(f)
           /\ Lines(f) = 2 * Pairs(f) \/ Lines(f) = 2 * Pairs(f) + 1
<1>1. Len(f) \in Nat
  OBVIOUS
<1>2. Torn(f) => Len(f) > 0
  BY DEF Torn
<1>3. Lines(f) \in Nat
  BY <1>1, <1>2 DEF Lines
<1>4. /\ Torn(f) => Lines(f) = Len(f) - 1 /\ Size(f) = 2 * Len(f) - 1
      /\ ~Torn(f) => Lines(f) = Len(f) /\ Size(f) = 2 * Len(f)
  BY DEF Lines, Size
<1>5. \A n \in Nat : n \div 2 \in Nat /\ (n = 2 * (n \div 2) \/ n = 2 * (n \div 2) + 1)
  OBVIOUS
<1>6. Size(f) \in Nat
  BY <1>1, <1>2, <1>4
<1> QED
  BY <1>1, <1>2, <1>3, <1>4, <1>5, <1>6 DEF Pairs

LEMMA ShapeReadable ==
    ASSUME NEW f, Shape(f), Pairs(f) > 0
    PROVE  Readable(f)
<1>1. f \in Seq(Line) /\ Len(f) \in Nat /\ Lines(f) \in Nat /\ Pairs(f) \in Nat
  BY PairsFacts DEF Shape
<1>2. ASSUME Lines(f) = 2 * Pairs(f) + 1 PROVE f[Lines(f)].kind = "payload"
  <2>1. Lines(f) \in 1 .. Len(f) /\ Lines(f) % 2 = 1
    BY <1>1, <1>2, PairsFacts
  <2> QED
    BY <2>1 DEF Shape
<1> QED
  BY <1>1, <1>2 DEF Readable, Shape

\* A line without its end.
LEMMA BrokenFacts ==
    ASSUME NEW l \in Line
    PROVE  /\ Broken(l) \in Line /\ Broken(l).kind = l.kind /\ Broken(l).record = l.record
           /\ Broken(l).good = l.good /\ ~Broken(l).whole
<1>1. Broken(l) \in Line
  BY Zenon DEF Broken, Line
<1>2. Broken(l).kind = l.kind /\ Broken(l).record = l.record /\ Broken(l).good = l.good
  BY DEF Broken, Line
<1>3. Broken(l).whole = FALSE
  BY DEF Broken, Line
<1> QED
  BY <1>1, <1>2, <1>3, Zenon

\* What cutting leaves of a sequence of lines: as many units as asked for, and
\* the records of the lines that remain.
LEMMA CutFacts ==
    ASSUME NEW f, Shape(f), NEW n \in 0 .. Size(f)
    PROVE  /\ Cut(f, n) \in Seq(Line)
           /\ Len(Cut(f, n)) = (n + 1) \div 2
           /\ Len(Cut(f, n)) <= Len(f)
           /\ n % 2 = 0 => \A i \in 1 .. Len(Cut(f, n)) : Cut(f, n)[i] = f[i] /\ f[i].whole
           /\ n % 2 = 1 => \A i \in 1 .. Len(Cut(f, n)) :
                 Cut(f, n)[i] = IF i = Len(Cut(f, n)) THEN Broken(f[i]) ELSE f[i]
<1>1. f \in Seq(Line) /\ Len(f) \in Nat /\ Size(f) \in Nat /\ n \in Nat
  BY PairsFacts DEF Shape
<1>2. Size(f) = 2 * Len(f) \/ (Torn(f) /\ Size(f) = 2 * Len(f) - 1)
  BY <1>1, PairsFacts
<1>3. CASE n % 2 = 0
  <2> DEFINE m == n \div 2
  <2>1. m \in Nat /\ n = 2 * m /\ (n + 1) \div 2 = m /\ m <= Len(f)
    BY <1>1, <1>2, <1>3
  <2>2. Cut(f, n) = SubSeq(f, 1, m)
    BY <1>3 DEF Cut
  <2> HIDE DEF m
  <2>3. /\ Cut(f, n) \in Seq(Line) /\ Len(Cut(f, n)) = m
        /\ \A i \in 1 .. m : Cut(f, n)[i] = f[i]
    BY <1>1, <2>1, <2>2
  <2>4. ASSUME NEW i \in 1 .. m PROVE f[i].whole
    <3>1. CASE i < Len(f)
      BY <1>1, <2>1, <3>1 DEF Shape
    <3>2. CASE i = Len(f)
      <4>1. Size(f) >= 2 * Len(f)
        BY <1>1, <2>1, <3>2
      <4>2. ~Torn(f) /\ Len(f) > 0
        BY <1>1, <2>1, <3>2, <4>1, PairsFacts
      <4> QED
        BY <1>1, <3>2, <4>2 DEF Torn
    <3> QED
      BY <1>1, <2>1, <3>1, <3>2
  <2> QED
    BY <1>3, <2>1, <2>3, <2>4
<1>4. CASE n % 2 = 1
  <2> DEFINE m == (n + 1) \div 2
             g == SubSeq(f, 1, m)
  <2>1. m \in Nat /\ m > 0 /\ m <= Len(f) /\ n % 2 # 0
    BY <1>1, <1>2, <1>4
  <2>2. Cut(f, n) = [g EXCEPT ![m].whole = FALSE]
    BY <2>1 DEF Cut
  <2> HIDE DEF m
  <2>3. g \in Seq(Line) /\ Len(g) = m /\ \A i \in 1 .. m : g[i] = f[i] /\ g[i] \in Line
    BY <1>1, <2>1
  <2> HIDE DEF g
  <2>4. Broken(g[m]) \in Line
    BY <2>1, <2>3, BrokenFacts
  <2>5. Cut(f, n) = [g EXCEPT ![m] = Broken(g[m])]
    BY <2>2 DEF Broken
  <2>6. /\ Cut(f, n) \in Seq(Line) /\ Len(Cut(f, n)) = m
        /\ \A i \in 1 .. m : Cut(f, n)[i] = IF i = m THEN Broken(g[m]) ELSE g[i]
    BY <2>1, <2>3, <2>4, <2>5
  <2>7. m = (n + 1) \div 2
    BY DEF m
  <2> QED
    BY <1>4, <2>1, <2>3, <2>6, <2>7
<1> QED
  BY <1>1, <1>3, <1>4

\* What is cut keeps the shape, and as many pairs as fit into it.
LEMMA CutShape ==
    ASSUME NEW f, Shape(f), NEW n \in 0 .. Size(f)
    PROVE  /\ Shape(Cut(f, n)) /\ Size(Cut(f, n)) = n
           /\ Pairs(Cut(f, n)) <= Pairs(f)
           /\ 2 * Pairs(Cut(f, n)) = n \div 2 \/ 2 * Pairs(Cut(f, n)) + 1 = n \div 2
           /\ \A i \in 1 .. 2 * Pairs(Cut(f, n)) : Cut(f, n)[i] = f[i]
<1> DEFINE g == Cut(f, n)
<1>1. f \in Seq(Line) /\ Len(f) \in Nat /\ Size(f) \in Nat /\ n \in Nat /\ Pairs(f) \in Nat
  BY PairsFacts DEF Shape
<1>2. /\ g \in Seq(Line) /\ Len(g) = (n + 1) \div 2 /\ Len(g) <= Len(f)
      /\ n % 2 = 0 => \A i \in 1 .. Len(g) : g[i] = f[i] /\ f[i].whole
      /\ n % 2 = 1 => \A i \in 1 .. Len(g) : g[i] = IF i = Len(g) THEN Broken(f[i]) ELSE f[i]
  BY CutFacts
<1> HIDE DEF g
<1>3. Len(g) \in Nat /\ Lines(g) \in Nat /\ Pairs(g) \in Nat
  BY <1>2, PairsFacts
<1>4. n % 2 = 0 \/ n % 2 = 1
  BY <1>1
<1>5. Torn(g) <=> n % 2 = 1
  <2>1. CASE n % 2 = 0
    <3>1. g # <<>> => Len(g) \in 1 .. Len(g)
      BY <1>2, <1>3
    <3> QED
      BY <1>2, <2>1, <3>1 DEF Torn
  <2>2. CASE n % 2 = 1
    <3>1. Len(g) \in 1 .. Len(g) /\ Len(g) \in 1 .. Len(f) /\ g # <<>>
      BY <1>1, <1>2, <1>3, <2>2
    <3>2. f[Len(g)] \in Line
      BY <1>1, <3>1
    <3>3. ~g[Len(g)].whole
      BY <1>2, <2>2, <3>1, <3>2, BrokenFacts
    <3> QED
      BY <2>2, <3>1, <3>3 DEF Torn
  <2> QED
    BY <1>4, <2>1, <2>2
<1>6. Size(g) = n /\ Lines(g) = n \div 2
  <2>1. CASE n % 2 = 0
    <3>1. n = 2 * ((n + 1) \div 2) /\ n \div 2 = (n + 1) \div 2
      BY <1>1, <2>1
    <3>2. ~Torn(g)
      BY <1>5, <2>1
    <3> QED
      BY <1>2, <3>1, <3>2, PairsFacts
  <2>2. CASE n % 2 = 1
    <3>1. n = 2 * ((n + 1) \div 2) - 1 /\ n \div 2 = (n + 1) \div 2 - 1
      BY <1>1, <2>2
    <3>2. Torn(g)
      BY <1>5, <2>2
    <3> QED
      BY <1>2, <3>1, <3>2, PairsFacts
  <2> QED
    BY <1>4, <2>1, <2>2
<1>7. 2 * Pairs(g) = n \div 2 \/ 2 * Pairs(g) + 1 = n \div 2
  BY <1>2, <1>3, <1>6, PairsFacts
<1>8. Lines(f) >= n \div 2
  <2>1. CASE Torn(f)
    BY <1>1, <2>1, PairsFacts
  <2>2. CASE ~Torn(f)
    BY <1>1, <2>2, PairsFacts
  <2> QED
    BY <2>1, <2>2
<1>9. Pairs(g) <= Pairs(f)
  BY <1>1, <1>3, <1>7, <1>8, PairsFacts
<1>10. \A i \in 1 .. 2 * Pairs(g) : g[i] = f[i]
  BY <1>1, <1>2, <1>3, <1>4, <1>7
<1>11. \A i \in 1 .. Len(g) : g[i].kind = f[i].kind
  BY <1>1, <1>2, <1>3, <1>4, BrokenFacts
<1>12. \A i \in 1 .. Len(g) : i < Len(g) => g[i] = f[i]
  BY <1>2, <1>3, <1>4
<1>13. \A k \in 1 .. Pairs(g) : PairOK(g, k)
  <2> SUFFICES ASSUME NEW k \in 1 .. Pairs(g) PROVE PairOK(g, k)
    OBVIOUS
  <2>1. 2 * k - 1 \in 1 .. 2 * Pairs(g) /\ 2 * k \in 1 .. 2 * Pairs(g) /\ k \in 1 .. Pairs(f)
    BY <1>1, <1>3, <1>9
  <2>2. PairOK(f, k)
    BY <2>1 DEF Shape
  <2> QED
    BY <1>10, <2>1, <2>2 DEF PairOK
<1>14. Shape(g)
  <2>1. \A i \in 1 .. Len(g) : g[i].kind = IF i % 2 = 1 THEN "payload" ELSE "commit"
    <3> SUFFICES ASSUME NEW i \in 1 .. Len(g)
                 PROVE  g[i].kind = IF i % 2 = 1 THEN "payload" ELSE "commit"
      OBVIOUS
    <3>1. i \in 1 .. Len(f)
      BY <1>1, <1>2, <1>3
    <3> QED
      BY <1>11, <3>1 DEF Shape
  <2>2. ASSUME NEW i \in 1 .. Len(g), i < Len(g) PROVE g[i].whole
    <3>1. i \in 1 .. Len(f) /\ i < Len(f)
      BY <1>1, <1>2, <1>3, <2>2
    <3>2. f[i].whole
      BY <3>1 DEF Shape
    <3> QED
      BY <1>12, <2>2, <3>2
  <2> QED
    BY <1>2, <1>13, <2>1, <2>2 DEF Shape
<1> QED
  BY <1>6, <1>7, <1>9, <1>10, <1>14 DEF g

\* Damage to payloads without a commit keeps the shape.
LEMMA DamageShape ==
    ASSUME NEW f, Shape(f), NEW i \in 1 .. Len(f), i > 2 * Pairs(f)
    PROVE  /\ Shape([f EXCEPT ![i].good = FALSE])
           /\ Size([f EXCEPT ![i].good = FALSE]) = Size(f)
           /\ Pairs([f EXCEPT ![i].good = FALSE]) = Pairs(f)
           /\ \A j \in 1 .. 2 * Pairs(f) : [f EXCEPT ![i].good = FALSE][j] = f[j]
<1> DEFINE l == [f[i] EXCEPT !.good = FALSE]
           g == [f EXCEPT ![i].good = FALSE]
<1>1. f \in Seq(Line) /\ Len(f) \in Nat /\ Pairs(f) \in Nat /\ f[i] \in Line
  BY PairsFacts DEF Shape
<1>2. l \in Line
  BY <1>1, Zenon DEF Line
<1>3. l.kind = f[i].kind /\ l.whole = f[i].whole
  BY <1>1 DEF Line
<1>4. g = [f EXCEPT ![i] = l]
  OBVIOUS
<1> HIDE DEF l, g
<1>5. /\ g \in Seq(Line) /\ Len(g) = Len(f)
      /\ \A j \in 1 .. Len(f) : g[j] = IF j = i THEN l ELSE f[j]
  BY <1>1, <1>2, <1>4
<1>6. \A j \in 1 .. Len(f) : g[j].kind = f[j].kind /\ g[j].whole = f[j].whole
  BY <1>3, <1>5
<1>7. Torn(g) <=> Torn(f)
  <2>1. f # <<>> /\ g # <<>> /\ Len(f) \in 1 .. Len(f)
    BY <1>1, <1>5
  <2> QED
    BY <1>5, <1>6, <2>1 DEF Torn
<1>8. Lines(g) = Lines(f) /\ Size(g) = Size(f) /\ Pairs(g) = Pairs(f)
  BY <1>5, <1>7 DEF Lines, Size, Pairs
<1>9. 2 * Pairs(f) <= Len(f)
  BY <1>1, PairsFacts
<1>10. \A j \in 1 .. 2 * Pairs(f) : g[j] = f[j]
  BY <1>1, <1>5, <1>9
<1>11. \A k \in 1 .. Pairs(g) : PairOK(g, k)
  <2> SUFFICES ASSUME NEW k \in 1 .. Pairs(f) PROVE PairOK(g, k)
    BY <1>8
  <2>1. 2 * k - 1 \in 1 .. 2 * Pairs(f) /\ 2 * k \in 1 .. 2 * Pairs(f)
    BY <1>1
  <2>2. PairOK(f, k)
    BY DEF Shape
  <2> QED
    BY <1>10, <2>1, <2>2 DEF PairOK
<1>12. Shape(g)
  BY <1>5, <1>6, <1>11 DEF Shape
<1> QED
  BY <1>8, <1>10, <1>12 DEF g

\* g holds the same complete pairs as f.
SamePairs(f, g) == Pairs(g) = Pairs(f) /\ \A i \in 1 .. 2 * Pairs(f) : g[i] = f[i]

\* A payload, or a part of one, behind the last commit.
LEMMA PayloadShape ==
    ASSUME NEW f, Shape(f), Size(f) = 4 * Pairs(f),
           NEW l \in Line, l.kind = "payload"
    PROVE  /\ Shape(Extend(f, l)) /\ SamePairs(f, Extend(f, l))
           /\ Len(Extend(f, l)) = 2 * Pairs(f) + 1
           /\ Extend(f, l)[2 * Pairs(f) + 1] = l
<1> DEFINE g == Extend(f, l)
           p == Pairs(f)
<1>1. f \in Seq(Line) /\ Len(f) \in Nat /\ p \in Nat
  BY PairsFacts DEF Shape
<1>2. ~Torn(f) /\ Len(f) = 2 * p
  BY <1>1, PairsFacts
<1>3. g = Append(f, l)
  BY <1>2 DEF Extend
<1> HIDE DEF g
<1>4. /\ g \in Seq(Line) /\ Len(g) = 2 * p + 1
      /\ g[2 * p + 1] = l /\ \A i \in 1 .. 2 * p : g[i] = f[i]
  BY <1>1, <1>2, <1>3
<1>5. Pairs(g) = p
  <2>1. Lines(g) = 2 * p \/ Lines(g) = 2 * p + 1
    BY <1>1, <1>4, PairsFacts
  <2>2. Pairs(g) \in Nat /\ (Lines(g) = 2 * Pairs(g) \/ Lines(g) = 2 * Pairs(g) + 1)
    BY <1>4, PairsFacts
  <2> QED
    BY <1>1, <2>1, <2>2
<1>6. \A i \in 1 .. Len(g) : i < Len(g) => g[i] = f[i] /\ i \in 1 .. Len(f)
  BY <1>1, <1>2, <1>4
<1>7. \A i \in 1 .. Len(g) : i < Len(g) => g[i].whole
  <2> SUFFICES ASSUME NEW i \in 1 .. Len(g), i < Len(g) PROVE f[i].whole
    BY <1>6
  <2>1. i \in 1 .. Len(f)
    BY <1>6
  <2>2. CASE i < Len(f)
    BY <2>1, <2>2 DEF Shape
  <2>3. CASE i = Len(f)
    BY <1>1, <1>2, <2>1, <2>3 DEF Torn
  <2> QED
    BY <1>1, <2>1, <2>2, <2>3
<1>8. \A i \in 1 .. Len(g) : g[i].kind = IF i % 2 = 1 THEN "payload" ELSE "commit"
  <2> SUFFICES ASSUME NEW i \in 1 .. Len(g)
               PROVE  g[i].kind = IF i % 2 = 1 THEN "payload" ELSE "commit"
    OBVIOUS
  <2>1. CASE i < Len(g)
    BY <1>6, <2>1 DEF Shape
  <2>2. CASE i = 2 * p + 1
    BY <1>1, <1>4, <2>2
  <2> QED
    BY <1>1, <1>4, <2>1, <2>2
<1>9. \A k \in 1 .. Pairs(g) : PairOK(g, k)
  <2> SUFFICES ASSUME NEW k \in 1 .. p PROVE PairOK(g, k)
    BY <1>5
  <2>1. 2 * k - 1 \in 1 .. 2 * p /\ 2 * k \in 1 .. 2 * p
    BY <1>1
  <2>2. PairOK(f, k)
    BY DEF Shape
  <2> QED
    BY <1>4, <2>1, <2>2 DEF PairOK
<1>10. Shape(g)
  BY <1>4, <1>7, <1>8, <1>9 DEF Shape
<1> QED
  BY <1>4, <1>5, <1>10 DEF SamePairs, g

\* A commit, or a part of one, behind the payload it belongs to.
LEMMA CommitShape ==
    ASSUME NEW f, Shape(f), NEW r \in Record, r.revision = Pairs(f),
           Len(f) = 2 * Pairs(f) + 1, f[2 * Pairs(f) + 1] = Payload(r),
           NEW l \in {CommitOf(r), Broken(CommitOf(r))}
    PROVE  /\ Shape(Extend(f, l))
           /\ l # CommitOf(r) => SamePairs(f, Extend(f, l))
           /\ l = CommitOf(r) =>
                /\ Pairs(Extend(f, l)) = Pairs(f) + 1
                /\ Size(Extend(f, l)) = 4 * Pairs(f) + 4
                /\ \A i \in 1 .. 2 * Pairs(f) : Extend(f, l)[i] = f[i]
                /\ LastRecord(Extend(f, l)) = r
<1> DEFINE g == Extend(f, l)
           p == Pairs(f)
<1>1. f \in Seq(Line) /\ Len(f) \in Nat /\ p \in Nat
  BY PairsFacts DEF Shape
<1>2. /\ CommitOf(r) \in Line /\ Payload(r) \in Line
      /\ CommitOf(r).whole /\ Payload(r).whole
  BY Zenon DEF CommitOf, Payload, Line
<1>3. /\ CommitOf(r).kind = "commit" /\ CommitOf(r).record = r
      /\ Payload(r).kind = "payload" /\ Payload(r).record = r
      /\ CommitOf(r).good /\ Payload(r).good
  BY DEF CommitOf, Payload
<1>4. /\ l \in Line /\ l.kind = "commit" /\ l.record = r /\ l.good
      /\ l # CommitOf(r) <=> ~l.whole
  BY <1>2, <1>3, BrokenFacts
<1>5. ~Torn(f)
  BY <1>1, <1>2 DEF Torn
<1>6. g = Append(f, l)
  BY <1>5 DEF Extend
<1> HIDE DEF g
<1>7. /\ g \in Seq(Line) /\ Len(g) = 2 * p + 2 /\ g[2 * p + 2] = l
      /\ \A i \in 1 .. 2 * p + 1 : g[i] = f[i]
  BY <1>1, <1>4, <1>6
<1>8. Torn(g) <=> l # CommitOf(r)
  <2>1. g # <<>> /\ g[Len(g)] = l
    BY <1>1, <1>7
  <2> QED
    BY <1>4, <2>1 DEF Torn
<1>9. /\ l # CommitOf(r) => Lines(g) = 2 * p + 1
      /\ l = CommitOf(r) => Lines(g) = 2 * p + 2 /\ Size(g) = 4 * p + 4
  <2>1. CASE Torn(g)
    <3>1. Lines(g) = Len(g) - 1
      BY <1>7, <2>1, PairsFacts
    <3> QED
      BY <1>1, <1>7, <1>8, <2>1, <3>1
  <2>2. CASE ~Torn(g)
    <3>1. Lines(g) = Len(g) /\ Size(g) = 2 * Len(g)
      BY <1>7, <2>2, PairsFacts
    <3> QED
      BY <1>1, <1>7, <1>8, <2>2, <3>1
  <2> QED
    BY <2>1, <2>2
<1>10. Pairs(g) = IF l = CommitOf(r) THEN p + 1 ELSE p
  <2>1. Pairs(g) \in Nat /\ (Lines(g) = 2 * Pairs(g) \/ Lines(g) = 2 * Pairs(g) + 1)
    BY <1>7, PairsFacts
  <2> QED
    BY <1>1, <1>9, <2>1
<1>11. \A i \in 1 .. Len(g) : i < Len(g) => g[i] = f[i] /\ i \in 1 .. Len(f)
  BY <1>1, <1>7
<1>12. \A i \in 1 .. Len(g) : i < Len(g) => g[i].whole
  <2> SUFFICES ASSUME NEW i \in 1 .. Len(g), i < Len(g) PROVE f[i].whole
    BY <1>11
  <2>1. i \in 1 .. Len(f)
    BY <1>11
  <2>2. CASE i < Len(f)
    BY <2>1, <2>2 DEF Shape
  <2>3. CASE i = Len(f)
    BY <1>2, <2>3
  <2> QED
    BY <1>1, <2>1, <2>2, <2>3
<1>13. \A i \in 1 .. Len(g) : g[i].kind = IF i % 2 = 1 THEN "payload" ELSE "commit"
  <2> SUFFICES ASSUME NEW i \in 1 .. Len(g)
               PROVE  g[i].kind = IF i % 2 = 1 THEN "payload" ELSE "commit"
    OBVIOUS
  <2>1. CASE i < Len(g)
    BY <1>11, <2>1 DEF Shape
  <2>2. CASE i = 2 * p + 2
    BY <1>1, <1>4, <1>7, <2>2
  <2> QED
    BY <1>1, <1>7, <2>1, <2>2
<1>14. ASSUME NEW k \in 1 .. Pairs(g) PROVE PairOK(g, k)
  <2>1. CASE k <= p
    <3>1. k \in 1 .. p /\ 2 * k - 1 \in 1 .. 2 * p + 1 /\ 2 * k \in 1 .. 2 * p + 1
      BY <1>1, <1>10, <2>1
    <3>2. PairOK(f, k)
      BY <3>1 DEF Shape
    <3> QED
      BY <1>7, <3>1, <3>2 DEF PairOK
  <2>2. CASE k > p
    <3>1. k = p + 1 /\ 2 * k - 1 = 2 * p + 1 /\ 2 * k = 2 * p + 2 /\ k - 1 = p
      BY <1>1, <1>10, <2>2
    <3>2. g[2 * p + 1] = Payload(r) /\ g[2 * p + 2] = l
      BY <1>1, <1>7
    <3> QED
      BY <1>3, <1>4, <3>1, <3>2 DEF PairOK
  <2> QED
    BY <1>1, <1>10, <2>1, <2>2
<1>15. Shape(g)
  BY <1>7, <1>12, <1>13, <1>14 DEF Shape
<1>16. l = CommitOf(r) => LastRecord(g) = r
  <2>1. l = CommitOf(r) => 2 * Pairs(g) = 2 * p + 2
    BY <1>1, <1>10
  <2> QED
    BY <1>4, <1>7, <2>1 DEF LastRecord
<1>17. \A i \in 1 .. 2 * p : g[i] = f[i]
  BY <1>1, <1>7
<1> QED
  BY <1>9, <1>10, <1>15, <1>16, <1>17 DEF SamePairs, g

------------------------------------------------------------------------------
(* The inductive invariant *)

\* The registry lock serialises the sections.
HolderInv == \A w \in Writers : pc[w] \in Section => w \in alive /\ lock = w

\* The disk may lag behind the file by the last commit only.
JournalInv ==
    /\ Shape(file) /\ Shape(durable)
    /\ Pairs(durable) <= Pairs(file)
    /\ \A i \in 1 .. 2 * Pairs(durable) : durable[i] = file[i]
    /\ 2 * Pairs(file) <= Len(durable) + 1
    /\ acked <= Pairs(durable)

\* The record of the append in progress follows the last one that is committed.
Fits(w) ==
    /\ plan[w].committed = 4 * Pairs(file)
    /\ plan[w].record.revision = Pairs(file)
    /\ plan[w].record.base = IF Pairs(file) = 0 THEN 0 ELSE LastRecord(file).content

\* What the file and the disk hold at each stage of an append.
Progress(w) ==
    /\ pc[w] \in {"opening", "trimming", "trimmed", "writing", "payload", "committing"} =>
         Fits(w)
    /\ pc[w] \in {"trimmed", "writing"} => Size(file) = 4 * Pairs(file)
    /\ pc[w] \in {"payload", "committing"} =>
         /\ Len(file) = 2 * Pairs(file) + 1
         /\ file[2 * Pairs(file) + 1] = Payload(plan[w].record)
    /\ pc[w] = "committing" => durable = file
    /\ pc[w] \in {"commit", "synced"} => Pairs(file) = plan[w].record.revision + 1
    /\ pc[w] = "synced" => durable = file

IInv == TypeOK /\ HolderInv /\ JournalInv /\ \A w \in Writers : Progress(w)

\* Two processes are never in a section at once.
LEMMA Alone ==
    ASSUME HolderInv, NEW v \in Writers, NEW w \in Writers,
           pc[v] \in Section, pc[w] \in Section
    PROVE  v = w
BY DEF HolderInv

\* A process outside every section has no append in progress.
LEMMA NoAppend ==
    ASSUME NEW w \in Writers, pc'[w] \notin Section
    PROVE  Progress(w)'
BY DEF Progress, Section, Appending

\* An append in progress is left as it was by a step that does not touch it.
LEMMA SameAppend ==
    ASSUME NEW w \in Writers, Progress(w), UNCHANGED <<file, durable>>,
           pc'[w] = pc[w], plan'[w] = plan[w]
    PROVE  Progress(w)'
BY DEF Progress, Fits

LEMMA InitIInv == Init => IInv
<1> SUFFICES ASSUME Init PROVE IInv
  OBVIOUS
<1> USE DEF Init
<1>1. TypeOK
  BY BoundAssumption, WritersAssumption
     DEF TypeOK, Record, NoRecord, Plan, NoPlan, Stages, Line
<1>2. Shape(<<>>) /\ Pairs(<<>>) = 0
  <2>1. <<>> \in Seq(Line) /\ Len(<<>>) = 0 /\ ~Torn(<<>>)
    BY DEF Torn
  <2>2. Pairs(<<>>) = 0
    BY <2>1 DEF Lines, Pairs
  <2> QED
    BY <2>1, <2>2 DEF Shape
<1>3. JournalInv
  BY <1>2 DEF JournalInv
<1>4. \A w \in Writers : pc[w] \notin Section
  BY DEF Section, Appending
<1>5. HolderInv /\ \A w \in Writers : Progress(w)
  BY <1>4 DEF HolderInv, Progress, Section, Appending
<1> QED
  BY <1>1, <1>3, <1>5 DEF IInv

------------------------------------------------------------------------------
(* Steps *)

\* A step of a process that leaves every section, or has not entered one.
LEMMA Outside ==
    ASSUME IInv, NEW w \in Writers, NEW stage, stage \notin Section,
           pc' = [pc EXCEPT ![w] = stage], UNCHANGED <<file, durable, plan, acked>>,
           \A v \in Writers : v # w /\ pc[v] \in Section => v \in alive' /\ lock' = v
    PROVE  HolderInv' /\ JournalInv' /\ \A v \in Writers : Progress(v)'
<1>1. pc \in [Writers -> Stages]
  BY DEF IInv, TypeOK
<1>2. \A v \in Writers : pc'[v] = IF v = w THEN stage ELSE pc[v]
  BY <1>1
<1>3. HolderInv'
  BY <1>2 DEF HolderInv
<1>4. JournalInv'
  BY DEF IInv, JournalInv, Shape, Pairs, Lines, Torn, PairOK
<1>5. ASSUME NEW v \in Writers PROVE Progress(v)'
  <2>1. CASE v = w
    BY <1>2, <2>1, NoAppend
  <2>2. CASE v # w
    BY <1>2, <2>2, SameAppend DEF IInv
  <2> QED
    BY <2>1, <2>2
<1> QED
  BY <1>3, <1>4, <1>5

\* A step of the process in a section.
LEMMA Inside ==
    ASSUME IInv, NEW w \in Writers, NEW stage, pc[w] \in Section,
           pc' = [pc EXCEPT ![w] = stage], UNCHANGED <<lock, alive>>, Progress(w)'
    PROVE  HolderInv' /\ \A v \in Writers : Progress(v)'
<1>1. pc \in [Writers -> Stages] /\ HolderInv
  BY DEF IInv, TypeOK
<1>2. \A v \in Writers : pc'[v] = IF v = w THEN stage ELSE pc[v]
  BY <1>1
<1>3. HolderInv'
  BY <1>1, <1>2 DEF HolderInv
<1>4. ASSUME NEW v \in Writers, v # w PROVE Progress(v)'
  <2>1. pc'[v] \notin Section
    BY <1>1, <1>2, <1>4, Alone
  <2> QED
    BY <2>1, NoAppend
<1> QED
  BY <1>3, <1>4

LEMMA RecordOfPair ==
    ASSUME NEW f, Shape(f), NEW k \in 1 .. Pairs(f)
    PROVE  /\ f[2 * k] \in Line /\ f[2 * k].record \in Record
           /\ f[2 * k].record.revision = k - 1 /\ 2 * k \in 1 .. Len(f)
<1>1. f \in Seq(Line) /\ Len(f) \in Nat /\ Pairs(f) \in Nat /\ 2 * Pairs(f) <= Len(f)
  <2>1. f \in Seq(Line)
    BY DEF Shape
  <2>2. Pairs(f) \in Nat /\ Lines(f) \in Nat /\ 2 * Pairs(f) <= Lines(f)
    BY <2>1, PairsFacts
  <2>3. Lines(f) <= Len(f)
    BY <2>1, PairsFacts
  <2> QED
    BY <2>1, <2>2, <2>3
<1>2. 2 * k \in 1 .. Len(f)
  BY <1>1
<1>3. f[2 * k] \in Line
  BY <1>1, <1>2
<1>4. f[2 * k].record \in Record
  BY <1>3 DEF Line
<1>5. PairOK(f, k)
  BY DEF Shape
<1> QED
  BY <1>2, <1>3, <1>4, <1>5 DEF PairOK

LEMMA MeasureStep ==
    ASSUME IInv, NEW r \in Recoveries, Measure(r)
    PROVE  IInv'
<1> USE DEF Measure, Goto
<1>1. TypeOK /\ r \in Writers /\ Size(file) \in Nat
  BY PairsFacts DEF IInv, TypeOK, Writers
<1>2. TypeOK'
  BY <1>1 DEF TypeOK, Stages
<1>3. "sized" \notin Section
  BY DEF Section, Appending
<1>4. \A v \in Writers : v # r /\ pc[v] \in Section => v \in alive' /\ lock' = v
  BY DEF IInv, HolderInv
<1> QED
  BY <1>1, <1>2, <1>3, <1>4, Outside DEF IInv

LEMMA ScanStep ==
    ASSUME IInv, NEW r \in Recoveries, Scan(r)
    PROVE  IInv'
<1> DEFINE seen == Cut(file, size[r])
<1>1. TypeOK /\ r \in Writers /\ Shape(file)
  BY DEF IInv, JournalInv, Writers
<1>2. PICK stage \in {"scanned", "gone"} : pc' = [pc EXCEPT ![r] = stage]
  BY DEF Scan, Goto
<1>3. known' \in [Writers -> Record]
  <2>1. CASE size[r] <= Size(file) /\ Readable(seen)
    <3>1. size[r] \in 0 .. Size(file)
      BY <1>1, <2>1, PairsFacts DEF TypeOK
    <3>2. Shape(seen)
      BY <1>1, <3>1, CutShape
    <3>3. Pairs(seen) \in 1 .. Pairs(seen)
      <4>1. seen \in Seq(Line)
        BY <3>2 DEF Shape
      <4>2. Pairs(seen) \in Nat
        BY <4>1, PairsFacts
      <4> QED
        BY <2>1, <4>2 DEF Readable
    <3>4. LastRecord(seen) \in Record
      BY <3>2, <3>3, RecordOfPair DEF LastRecord
    <3> QED
      BY <1>1, <2>1, <3>4 DEF Scan, TypeOK
  <2>2. CASE ~(size[r] <= Size(file) /\ Readable(seen))
    BY <1>1, <2>2 DEF Scan, TypeOK
  <2> QED
    BY <2>1, <2>2
<1>4. pc' \in [Writers -> Stages]
  BY <1>1, <1>2 DEF TypeOK, Stages
<1>5. UNCHANGED <<file, durable, lock, alive, plan, size, writes, acked, faults>>
  BY DEF Scan
<1>6. TypeOK'
  BY <1>1, <1>3, <1>4, <1>5 DEF TypeOK
<1>7. stage \notin Section
  BY <1>2 DEF Section, Appending
<1>8. \A v \in Writers : v # r /\ pc[v] \in Section => v \in alive' /\ lock' = v
  BY <1>5 DEF IInv, HolderInv
<1> QED
  BY <1>1, <1>2, <1>5, <1>6, <1>7, <1>8, Outside DEF IInv

LEMMA AcquireStep ==
    ASSUME IInv, NEW w \in Writers, Acquire(w)
    PROVE  IInv'
<1>1. TypeOK /\ HolderInv /\ pc' = [pc EXCEPT ![w] = "holding"]
  BY DEF IInv, Acquire, Goto
<1>2. UNCHANGED <<file, durable, alive, known, plan, size, writes, acked, faults>>
  BY DEF Acquire
<1>3. lock' = w /\ w \in alive
  BY DEF Acquire
<1>4. TypeOK'
  BY <1>1, <1>2, <1>3 DEF TypeOK, Stages, Section
<1>5. \A v \in Writers : pc[v] \notin Section
  BY <1>1, WritersAssumption DEF HolderInv, Acquire
<1>6. \A v \in Writers : pc'[v] = IF v = w THEN "holding" ELSE pc[v]
  BY <1>1 DEF TypeOK
<1>7. HolderInv'
  BY <1>2, <1>3, <1>5, <1>6 DEF HolderInv
<1>8. JournalInv'
  BY <1>2 DEF IInv, JournalInv, Shape, Pairs, Lines, Torn, PairOK
<1>9. ASSUME NEW v \in Writers PROVE Progress(v)'
  <2>1. CASE v = w
    BY <1>6, <2>1 DEF Progress
  <2>2. CASE v # w
    BY <1>5, <1>6, <2>2, NoAppend
  <2> QED
    BY <2>1, <2>2
<1> QED
  BY <1>4, <1>7, <1>8, <1>9 DEF IInv

LEMMA LeaveStep ==
    ASSUME IInv, NEW w \in Writers, Leave(w)
    PROVE  IInv'
<1>1. TypeOK /\ HolderInv /\ pc[w] \in Section
  BY DEF IInv, Leave, Section
<1>2. PICK stage \in {"idle", "gone"} : pc' = [pc EXCEPT ![w] = stage]
  BY DEF Leave, Goto
<1>3. UNCHANGED <<file, durable, alive, known, plan, size, writes, acked, faults>>
  BY DEF Leave
<1>4. lock' = Nobody
  BY DEF Leave
<1>5. TypeOK'
  BY <1>1, <1>2, <1>3, <1>4 DEF TypeOK, Stages
<1>6. stage \notin Section
  BY <1>2 DEF Section, Appending
<1>7. \A v \in Writers : v # w => pc[v] \notin Section
  BY <1>1, Alone
<1> QED
  BY <1>2, <1>3, <1>5, <1>6, <1>7, Outside DEF IInv

\* Lines behind the committed ones may change, and a pair may be added of which
\* the disk holds the payload.
LEMMA JournalKept ==
    ASSUME JournalInv, UNCHANGED <<durable, acked>>, Shape(file'),
           Pairs(file) <= Pairs(file'), 2 * Pairs(file') <= Len(durable) + 1,
           \A i \in 1 .. 2 * Pairs(file) : file'[i] = file[i]
    PROVE  JournalInv'
<1>1. /\ Pairs(file) \in Nat /\ Pairs(file') \in Nat
      /\ Pairs(durable) \in Nat /\ Len(durable) \in Nat
  BY PairsFacts DEF JournalInv, Shape
<1>2. Shape(durable)' /\ Pairs(durable)' = Pairs(durable) /\ Len(durable)' = Len(durable)
  <2>1. durable' = durable /\ Shape(durable)
    BY DEF JournalInv
  <2>2. Pairs(durable)' = Pairs(durable) /\ Len(durable)' = Len(durable)
    BY <2>1 DEF Pairs, Lines, Torn
  <2>3. \A k \in 1 .. Pairs(durable) : PairOK(durable, k)'
    BY <2>1 DEF Shape, PairOK
  <2> QED
    BY <2>1, <2>2, <2>3 DEF Shape
<1>3. Shape(file)' /\ Pairs(file)' = Pairs(file')
  BY DEF Shape, Pairs, Lines, Torn, PairOK
<1>4. \A i \in 1 .. 2 * Pairs(durable) : durable'[i] = file'[i]
  BY <1>1 DEF JournalInv
<1> QED
  BY <1>1, <1>2, <1>3, <1>4 DEF JournalInv

LEMMA FitsKept ==
    ASSUME NEW w \in Writers, Shape(file), SamePairs(file, file'), Fits(w), plan' = plan
    PROVE  Fits(w)'
<1>1. Pairs(file) \in Nat
  BY PairsFacts DEF Shape
<1>2. Pairs(file)' = Pairs(file)
  BY DEF SamePairs, Pairs, Lines, Torn
<1>3. Pairs(file) # 0 => LastRecord(file)' = LastRecord(file)
  <2>1. Pairs(file) # 0 => 2 * Pairs(file) \in 1 .. 2 * Pairs(file)
    BY <1>1
  <2> QED
    BY <1>2, <2>1 DEF SamePairs, LastRecord
<1> QED
  BY <1>2, <1>3 DEF Fits

LEMMA CheckStep ==
    ASSUME IInv, NEW w \in Writers, Check(w)
    PROVE  IInv'
<1>1. TypeOK /\ JournalInv /\ pc[w] \in Section /\ UNCHANGED <<lock, alive>>
  BY DEF IInv, Check, Section
<1>2. UNCHANGED <<file, durable, known, size, acked, faults>>
  BY DEF Check
<1>3. /\ Pairs(file) \in Nat /\ Size(file) \in Nat /\ Shape(file)
      /\ CommittedSize(file) = 4 * Pairs(file) /\ CommittedSize(file) \in Nat
  BY <1>1, PairsFacts DEF JournalInv, Shape, CommittedSize
<1>4. JournalInv'
  BY <1>1, <1>2 DEF JournalInv, Shape, Pairs, Lines, Torn, PairOK
<1>5. CASE UpToDate(w)
  <2> DEFINE r == NextRecord(w)
  <2>1. /\ pc' = [pc EXCEPT ![w] = "opening"] /\ writes' = writes + 1
        /\ plan' = [plan EXCEPT ![w] = [observed |-> Size(file),
                      committed |-> CommittedSize(file), record |-> r]]
    BY <1>5 DEF Check, Goto
  <2>2. known[w] \in Record
    BY <1>1 DEF TypeOK
  <2>3. r \in Record /\ r.base = known[w].content
    <3>1. known[w].revision \in Nat /\ known[w].content \in Nat /\ writes \in Nat
      BY <1>1, <2>2 DEF Record, TypeOK
    <3> QED
      BY <3>1 DEF Record, NextRecord
  <2>4. /\ r.revision = Pairs(file)
        /\ r.base = IF Pairs(file) = 0 THEN 0 ELSE LastRecord(file).content
    <3>1. CASE known[w] = NoRecord
      <4>1. file = <<>> /\ ~Torn(file)
        BY <1>5, <3>1 DEF UpToDate, Torn
      <4>2. Pairs(file) = 0
        BY <4>1 DEF Pairs, Lines
      <4> QED
        BY <2>3, <3>1, <4>2 DEF NextRecord, NoRecord
    <3>2. CASE known[w] # NoRecord
      <4>1. Readable(file) /\ LastRecord(file) = known[w]
        BY <1>5, <3>2 DEF UpToDate
      <4>2. Pairs(file) \in 1 .. Pairs(file)
        BY <1>3, <4>1 DEF Readable
      <4>3. known[w].revision = Pairs(file) - 1
        BY <1>3, <4>1, <4>2, RecordOfPair DEF LastRecord
      <4>4. r.revision = known[w].revision + 1
        BY <3>2 DEF NextRecord
      <4> QED
        BY <1>3, <2>3, <4>1, <4>2, <4>3, <4>4
    <3> QED
      BY <3>1, <3>2
  <2> HIDE DEF r
  <2>5. plan' \in [Writers -> Plan] /\ pc' \in [Writers -> Stages] /\ writes' \in Nat
    BY <1>1, <1>3, <2>1, <2>3 DEF TypeOK, Plan, Stages, Section, Appending
  <2>6. TypeOK'
    BY <1>1, <1>2, <2>5 DEF TypeOK
  <2>7. pc'[w] = "opening" /\ plan'[w].committed = CommittedSize(file) /\ plan'[w].record = r
    BY <1>1, <2>1 DEF TypeOK
  <2>8. Pairs(file)' = Pairs(file) /\ LastRecord(file)' = LastRecord(file)
    BY <1>2 DEF Pairs, Lines, Torn, LastRecord
  <2>9. Fits(w)'
    BY <1>3, <2>4, <2>7, <2>8 DEF Fits
  <2>10. Progress(w)'
    BY <2>7, <2>9 DEF Progress
  <2> QED
    BY <1>1, <1>4, <2>1, <2>6, <2>10, Inside DEF IInv
<1>6. CASE ~UpToDate(w)
  <2>1. pc' = [pc EXCEPT ![w] = "leaving"] /\ UNCHANGED <<plan, writes>>
    BY <1>6 DEF Check, Goto
  <2>2. TypeOK'
    BY <1>1, <1>2, <2>1 DEF TypeOK, Stages, Section
  <2>3. pc'[w] = "leaving"
    BY <1>1, <2>1 DEF TypeOK
  <2>4. Progress(w)'
    BY <2>3 DEF Progress
  <2> QED
    BY <1>1, <1>4, <2>1, <2>2, <2>4, Inside DEF IInv
<1> QED
  BY <1>5, <1>6

LEMMA OpenJournalStep ==
    ASSUME IInv, NEW w \in Writers, OpenJournal(w)
    PROVE  IInv'
<1>1. /\ TypeOK /\ JournalInv /\ pc[w] \in Section /\ pc[w] = "opening" /\ Progress(w)
  BY DEF IInv, OpenJournal, Section, Appending
<1>2. UNCHANGED <<file, durable, lock, alive, known, plan, size, writes, acked, faults>>
  BY DEF OpenJournal
<1>3. PICK stage \in {"leaving", "trimming", "writing"} :
        /\ pc' = [pc EXCEPT ![w] = stage]
        /\ stage = "writing" =>
             Size(file) = plan[w].observed /\ ~(plan[w].committed < plan[w].observed)
  BY DEF OpenJournal, Goto
<1>4. TypeOK'
  BY <1>1, <1>2, <1>3 DEF TypeOK, Stages, Section, Appending
<1>5. JournalInv'
  BY <1>1, <1>2 DEF JournalInv, Shape, Pairs, Lines, Torn, PairOK
<1>6. Fits(w)
  BY <1>1 DEF Progress
<1>7. Fits(w)'
  BY <1>2, <1>6 DEF Fits, Pairs, Lines, Torn, LastRecord
<1>8. stage = "writing" => Size(file) = 4 * Pairs(file)
  <2>1. /\ file \in Seq(Line) /\ Len(file) \in Nat /\ Pairs(file) \in Nat
        /\ Size(file) \in Nat
    BY <1>1, PairsFacts DEF JournalInv, Shape
  <2>2. plan[w] \in Plan
    BY <1>1 DEF TypeOK
  <2>3. plan[w].committed = 4 * Pairs(file) /\ plan[w].observed \in Nat
    BY <1>6, <2>2 DEF Fits, Plan
  <2>4. Size(file) >= 4 * Pairs(file)
    BY <2>1, PairsFacts
  <2> QED
    BY <1>3, <2>1, <2>3, <2>4
<1>9. Size(file)' = Size(file) /\ Pairs(file)' = Pairs(file)
  BY <1>2 DEF Size, Pairs, Lines, Torn
<1>10. pc'[w] = stage
  BY <1>1, <1>3 DEF TypeOK
<1>11. Progress(w)'
  BY <1>3, <1>7, <1>8, <1>9, <1>10 DEF Progress
<1> QED
  BY <1>1, <1>2, <1>3, <1>4, <1>5, <1>11, Inside DEF IInv

LEMMA TrimStep ==
    ASSUME IInv, NEW w \in Writers, WriteLine(w), pc[w] = "trimming"
    PROVE  IInv' /\ SamePairs(file, file')
<1>1. /\ TypeOK /\ JournalInv /\ Shape(file) /\ pc[w] \in Section /\ Progress(w)
      /\ file \in Seq(Line)
  BY DEF IInv, JournalInv, Shape, Section, Appending
<1>2. UNCHANGED <<durable, lock, alive, known, plan, size, writes, acked, faults>>
  BY DEF WriteLine
<1>3. pc' = [pc EXCEPT ![w] = "trimmed"]
  BY DEF WriteLine, Goto, After
<1>4. Fits(w)
  BY <1>1 DEF Progress
<1>5. file' = Cut(file, 4 * Pairs(file))
  BY <1>4 DEF WriteLine, Written, Trimmed, Fits
<1>6. Pairs(file) \in Nat /\ 4 * Pairs(file) \in 0 .. Size(file)
  BY <1>1, PairsFacts
<1>7. /\ Shape(file') /\ Size(file') = 4 * Pairs(file)
      /\ 2 * Pairs(file') = 2 * Pairs(file) \/ 2 * Pairs(file') + 1 = 2 * Pairs(file)
      /\ \A i \in 1 .. 2 * Pairs(file') : file'[i] = file[i]
  <2>1. (4 * Pairs(file)) \div 2 = 2 * Pairs(file)
    BY <1>6
  <2> QED
    BY <1>1, <1>5, <1>6, <2>1, CutShape
<1>8. Pairs(file') \in Nat
  BY <1>7, PairsFacts DEF Shape
<1>9. SamePairs(file, file')
  BY <1>6, <1>7, <1>8 DEF SamePairs
<1>10. JournalInv'
  <2>1. Pairs(file) <= Pairs(file') /\ 2 * Pairs(file') <= Len(durable) + 1
    BY <1>1, <1>6, <1>9 DEF SamePairs, JournalInv
  <2> QED
    BY <1>1, <1>2, <1>7, <1>9, <2>1, JournalKept DEF SamePairs
<1>11. pc'[w] = "trimmed"
  BY <1>1, <1>3 DEF TypeOK
<1>12. Size(file)' = 4 * Pairs(file)'
  <2>1. Size(file)' = Size(file') /\ Pairs(file)' = Pairs(file')
    BY DEF Size, Pairs, Lines, Torn
  <2> QED
    BY <1>7, <1>9, <2>1 DEF SamePairs
<1>13. Progress(w)'
  BY <1>1, <1>2, <1>4, <1>9, <1>11, <1>12, FitsKept DEF Progress
<1>14. TypeOK'
  BY <1>1, <1>2, <1>3, <1>7 DEF TypeOK, Stages, Section, Appending, Shape
<1> QED
  BY <1>1, <1>2, <1>3, <1>9, <1>10, <1>13, <1>14, Inside DEF IInv

\* Plans hold records, and the lines made from them are lines.
LEMMA PlanFacts ==
    ASSUME TypeOK, NEW w \in Writers
    PROVE  /\ plan[w].record \in Record
           /\ Payload(plan[w].record) \in Line /\ CommitOf(plan[w].record) \in Line
           /\ Payload(plan[w].record).kind = "payload"
<1>1. plan[w] \in Plan
  BY DEF TypeOK
<1>2. plan[w].record \in Record
  BY <1>1 DEF Plan
<1>3. Payload(plan[w].record) \in Line /\ CommitOf(plan[w].record) \in Line
  BY <1>2, Zenon DEF Payload, CommitOf, Line
<1> QED
  BY <1>2, <1>3 DEF Payload

LEMMA PayloadStep ==
    ASSUME IInv, NEW w \in Writers, WriteLine(w), pc[w] = "writing"
    PROVE  IInv' /\ SamePairs(file, file')
<1>1. /\ TypeOK /\ JournalInv /\ Shape(file) /\ pc[w] \in Section /\ Progress(w)
  BY DEF IInv, JournalInv, Section, Appending
<1>2. UNCHANGED <<durable, lock, alive, known, plan, size, writes, acked, faults>>
  BY DEF WriteLine
<1>3. pc' = [pc EXCEPT ![w] = "payload"]
  BY DEF WriteLine, Goto, After
<1>4. Fits(w) /\ Size(file) = 4 * Pairs(file)
  BY <1>1 DEF Progress
<1> DEFINE l == Payload(plan[w].record)
<1>5. file' = Extend(file, l)
  BY DEF WriteLine, Written
<1>6. l \in Line /\ l.kind = "payload"
  BY <1>1, PlanFacts
<1> HIDE DEF l
<1>7. /\ Shape(file') /\ SamePairs(file, file') /\ Len(file') = 2 * Pairs(file) + 1
      /\ file'[2 * Pairs(file) + 1] = l
  BY <1>1, <1>4, <1>5, <1>6, PayloadShape
<1>8. JournalInv'
  <2>1. Pairs(file) \in Nat
    BY <1>1, PairsFacts DEF Shape
  <2>2. Pairs(file) <= Pairs(file') /\ 2 * Pairs(file') <= Len(durable) + 1
    BY <1>1, <1>7, <2>1 DEF SamePairs, JournalInv
  <2> QED
    BY <1>1, <1>2, <1>7, <2>2, JournalKept DEF SamePairs
<1>9. pc'[w] = "payload"
  BY <1>1, <1>3 DEF TypeOK
<1>10. /\ Len(file)' = 2 * Pairs(file)' + 1
       /\ file'[2 * Pairs(file)' + 1] = Payload(plan[w].record)'
  <2>1. Len(file)' = Len(file') /\ Pairs(file)' = Pairs(file')
    BY DEF Pairs, Lines, Torn
  <2> QED
    BY <1>2, <1>7, <2>1 DEF SamePairs, l, Payload
<1>11. Progress(w)'
  BY <1>1, <1>2, <1>4, <1>7, <1>9, <1>10, FitsKept DEF Progress
<1>12. TypeOK'
  BY <1>1, <1>2, <1>3, <1>7 DEF TypeOK, Stages, Section, Appending, Shape
<1> QED
  BY <1>1, <1>2, <1>3, <1>7, <1>8, <1>11, <1>12, Inside DEF IInv

\* The pair that CommitStep adds.
Grown(f, g, r) ==
    /\ Pairs(g) = Pairs(f) + 1 /\ \A i \in 1 .. 2 * Pairs(f) : g[i] = f[i]
    /\ LastRecord(g) = r

LEMMA CommitStep ==
    ASSUME IInv, NEW w \in Writers, WriteLine(w), pc[w] = "committing"
    PROVE  IInv' /\ Fits(w) /\ Grown(file, file', plan[w].record)
<1>1. /\ TypeOK /\ JournalInv /\ Shape(file) /\ pc[w] \in Section /\ Progress(w)
  BY DEF IInv, JournalInv, Section, Appending
<1>2. UNCHANGED <<durable, lock, alive, known, plan, size, writes, acked, faults>>
  BY DEF WriteLine
<1>3. pc' = [pc EXCEPT ![w] = "commit"]
  BY DEF WriteLine, Goto, After
<1>4. /\ Fits(w) /\ durable = file /\ Len(file) = 2 * Pairs(file) + 1
      /\ file[2 * Pairs(file) + 1] = Payload(plan[w].record)
  BY <1>1 DEF Progress
<1>5. file' = Extend(file, CommitOf(plan[w].record))
  BY DEF WriteLine, Written
<1>6. plan[w].record \in Record /\ plan[w].record.revision = Pairs(file)
  BY <1>1, <1>4, PlanFacts DEF Fits
<1>7. Shape(file') /\ Grown(file, file', plan[w].record)
  BY <1>1, <1>4, <1>5, <1>6, CommitShape DEF Grown
<1>8. JournalInv'
  <2>1. Pairs(file) \in Nat /\ Len(durable) = Len(file)
    BY <1>1, <1>4, PairsFacts DEF Shape
  <2>2. Pairs(file) <= Pairs(file') /\ 2 * Pairs(file') <= Len(durable) + 1
    BY <1>4, <1>7, <2>1 DEF Grown
  <2> QED
    BY <1>1, <1>2, <1>7, <2>2, JournalKept DEF Grown
<1>9. pc'[w] = "commit"
  BY <1>1, <1>3 DEF TypeOK
<1>10. Pairs(file)' = plan'[w].record.revision + 1
  <2>1. Pairs(file)' = Pairs(file')
    BY DEF Pairs, Lines, Torn
  <2> QED
    BY <1>2, <1>6, <1>7, <2>1 DEF Grown
<1>11. Progress(w)'
  BY <1>9, <1>10 DEF Progress
<1>12. TypeOK'
  BY <1>1, <1>2, <1>3, <1>7 DEF TypeOK, Stages, Section, Appending, Shape
<1> QED
  BY <1>1, <1>2, <1>3, <1>4, <1>7, <1>8, <1>11, <1>12, Inside DEF IInv

LEMMA SyncStep ==
    ASSUME IInv, NEW w \in Writers, Sync(w)
    PROVE  IInv'
<1>1. /\ TypeOK /\ JournalInv /\ Shape(file) /\ pc[w] \in Section /\ Progress(w)
      /\ pc[w] \in {"trimmed", "payload", "commit"}
  BY DEF IInv, JournalInv, Sync, Section, Appending
<1>2. UNCHANGED <<file, lock, alive, known, plan, size, writes, acked, faults>>
  BY DEF Sync
<1>3. pc' = [pc EXCEPT ![w] = After[pc[w]]] /\ durable' = file
  BY DEF Sync, Goto
<1>4. After[pc[w]] \in {"writing", "committing", "synced"}
  BY <1>1 DEF After
<1>5. /\ pc[w] = "trimmed" <=> After[pc[w]] = "writing"
      /\ pc[w] = "payload" <=> After[pc[w]] = "committing"
      /\ pc[w] = "commit" <=> After[pc[w]] = "synced"
  BY <1>1 DEF After
<1>6. pc'[w] = After[pc[w]]
  BY <1>1, <1>3 DEF TypeOK
<1>7. file' = file /\ plan' = plan /\ durable' = file'
  BY <1>2, <1>3
<1>8. Pairs(file)' = Pairs(file) /\ Size(file)' = Size(file) /\ Len(file)' = Len(file)
  BY <1>7 DEF Pairs, Lines, Torn, Size
<1>9. Fits(w) => Fits(w)'
  BY <1>7, <1>8 DEF Fits, LastRecord
<1>10. Payload(plan[w].record)' = Payload(plan[w].record)
  BY <1>7
<1>11. Progress(w)'
  BY <1>1, <1>4, <1>5, <1>6, <1>7, <1>8, <1>9, <1>10 DEF Progress
<1>12. JournalInv'
  <2>1. /\ Pairs(file) \in Nat /\ Len(file) \in Nat /\ 2 * Pairs(file) <= Len(file) + 1
    BY <1>1, PairsFacts DEF Shape
  <2>2. acked' <= Pairs(file)
    <3>1. Pairs(durable) \in Nat /\ acked \in Nat
      BY <1>1, PairsFacts DEF JournalInv, Shape, TypeOK
    <3> QED
      BY <1>1, <1>2, <2>1, <3>1 DEF JournalInv
  <2>3. Shape(file)' /\ Shape(durable)' /\ Pairs(durable)' = Pairs(file)
    BY <1>1, <1>7 DEF Shape, Pairs, Lines, Torn, PairOK
  <2> QED
    BY <1>7, <1>8, <2>1, <2>2, <2>3 DEF JournalInv
<1>13. TypeOK'
  BY <1>1, <1>2, <1>3, <1>4, <1>7 DEF TypeOK, Stages, Section, Appending
<1> QED
  BY <1>1, <1>2, <1>3, <1>11, <1>12, <1>13, Inside DEF IInv

LEMMA FinishStep ==
    ASSUME IInv, NEW w \in Writers, Finish(w)
    PROVE  IInv' /\ acked' \in acked .. Pairs(file)
<1>1. /\ TypeOK /\ JournalInv /\ pc[w] \in Section /\ Progress(w) /\ pc[w] = "synced"
  BY DEF IInv, Finish, Section, Appending
<1>2. UNCHANGED <<file, durable, lock, alive, plan, size, writes, faults>>
  BY DEF Finish
<1>3. PICK stage \in {"leaving", "holding"} : pc' = [pc EXCEPT ![w] = stage]
  BY DEF Finish, Goto
<1>4. durable = file /\ Pairs(file) = plan[w].record.revision + 1
  BY <1>1 DEF Progress
<1>5. Pairs(file) \in Nat /\ acked \in Nat /\ acked <= Pairs(file)
  BY <1>1, <1>4, PairsFacts DEF JournalInv, Shape, TypeOK
<1>6. acked' \in acked .. Pairs(file)
  BY <1>4, <1>5 DEF Finish
<1>7. known' \in [Writers -> Record]
  BY <1>1, PlanFacts DEF Finish, TypeOK
<1>8. TypeOK'
  <2>1. acked' \in Nat /\ pc' \in [Writers -> Stages]
    BY <1>1, <1>3, <1>5, <1>6 DEF TypeOK, Stages, Section
  <2> QED
    BY <1>1, <1>2, <1>7, <2>1 DEF TypeOK
<1>9. JournalInv'
  <2>1. Shape(file)' /\ Shape(durable)'
    BY <1>1, <1>2 DEF JournalInv, Shape, Pairs, Lines, Torn, PairOK
  <2>2. Pairs(durable)' = Pairs(file) /\ Pairs(file)' = Pairs(file) /\ file' = durable'
    BY <1>2, <1>4 DEF Pairs, Lines, Torn
  <2> QED
    BY <1>1, <1>2, <1>4, <1>5, <1>6, <2>1, <2>2 DEF JournalInv
<1>10. pc'[w] = stage
  BY <1>1, <1>3 DEF TypeOK
<1>11. Progress(w)'
  BY <1>3, <1>10 DEF Progress
<1> QED
  BY <1>1, <1>2, <1>3, <1>6, <1>8, <1>9, <1>11, Inside DEF IInv

\* A call that is cut short leaves the complete pairs, and a tail to cut off.
LEMMA CutShortFacts ==
    ASSUME IInv, NEW w \in Writers, NEW g \in CutShort(w)
    PROVE  /\ Shape(g) /\ SamePairs(file, g)
           /\ pc[w] \notin {"writing", "committing"} => g = file
<1>1. TypeOK /\ Shape(file) /\ Progress(w)
  BY DEF IInv, JournalInv
<1>2. SamePairs(file, file)
  BY DEF SamePairs
<1>3. CASE g = file
  BY <1>1, <1>2, <1>3
<1>4. CASE pc[w] = "writing" /\ g = Extend(file, Broken(Payload(plan[w].record)))
  <2> DEFINE l == Broken(Payload(plan[w].record))
  <2>1. l \in Line /\ l.kind = "payload"
    BY <1>1, PlanFacts, BrokenFacts
  <2>2. Size(file) = 4 * Pairs(file)
    BY <1>1, <1>4 DEF Progress
  <2> HIDE DEF l
  <2>3. Shape(Extend(file, l)) /\ SamePairs(file, Extend(file, l))
    BY <1>1, <2>1, <2>2, PayloadShape
  <2> QED
    BY <1>4, <2>3 DEF l
<1>5. CASE pc[w] = "committing" /\ g = Extend(file, Broken(CommitOf(plan[w].record)))
  <2> DEFINE r == plan[w].record
  <2>1. /\ Fits(w) /\ Len(file) = 2 * Pairs(file) + 1
        /\ file[2 * Pairs(file) + 1] = Payload(r)
    BY <1>1, <1>5 DEF Progress
  <2>2. r \in Record /\ CommitOf(r) \in Line /\ r.revision = Pairs(file)
    BY <1>1, <2>1, PlanFacts DEF Fits
  <2>3. ~Broken(CommitOf(r)).whole
    BY <2>2, BrokenFacts
  <2>4. CommitOf(r).whole
    BY Zenon DEF CommitOf
  <2>5. Broken(CommitOf(r)) # CommitOf(r)
    BY <2>3, <2>4, Zenon
  <2>6. g = Extend(file, Broken(CommitOf(r)))
    BY <1>5
  <2> HIDE DEF r
  <2>7. /\ Shape(Extend(file, Broken(CommitOf(r))))
        /\ SamePairs(file, Extend(file, Broken(CommitOf(r))))
    BY <1>1, <2>1, <2>2, <2>5, CommitShape
  <2> QED
    BY <1>5, <2>6, <2>7
<1>6. pc[w] \in {"writing", "committing"} \/ g = file
  BY DEF CutShort
<1>7. pc[w] = "writing" => g \in {file, Extend(file, Broken(Payload(plan[w].record)))}
  BY DEF CutShort
<1>8. pc[w] = "committing" => g \in {file, Extend(file, Broken(CommitOf(plan[w].record)))}
  BY DEF CutShort
<1> QED
  BY <1>3, <1>4, <1>5, <1>6, <1>7, <1>8

\* Such a step leaves the journal as it is required to be.
LEMMA CutShortJournal ==
    ASSUME JournalInv, UNCHANGED <<durable, acked>>, Shape(file'), SamePairs(file, file')
    PROVE  JournalInv'
<1>1. Pairs(file) \in Nat
  BY PairsFacts DEF JournalInv, Shape
<1>2. Pairs(file) <= Pairs(file') /\ 2 * Pairs(file') <= Len(durable) + 1
  BY <1>1 DEF SamePairs, JournalInv
<1> QED
  BY <1>2, JournalKept DEF SamePairs

LEMMA SpendFacts ==
    ASSUME TypeOK, NEW f \in Faults, Spend(f)
    PROVE  /\ faults' \in [Faults -> Nat] /\ faults'[f] = faults[f] - 1
           /\ \A e \in Faults : e # f => faults'[e] = faults[e]
BY DEF TypeOK, Spend

LEMMA FailStep ==
    ASSUME IInv, NEW w \in Writers, Fail(w)
    PROVE  IInv' /\ SamePairs(file, file')
<1>1. TypeOK /\ JournalInv /\ pc[w] \in Section
  BY DEF IInv, Fail, Section
<1>2. UNCHANGED <<durable, lock, alive, known, plan, size, writes, acked>>
  BY DEF Fail
<1>3. pc' = [pc EXCEPT ![w] = "leaving"]
  BY DEF Fail, Goto
<1>4. Shape(file') /\ SamePairs(file, file')
  BY CutShortFacts DEF Fail
<1>5. JournalInv'
  BY <1>1, <1>2, <1>4, CutShortJournal
<1>6. pc'[w] = "leaving" /\ pc' \in [Writers -> Stages]
  BY <1>1, <1>3 DEF TypeOK, Stages, Section
<1>7. Progress(w)'
  BY <1>6 DEF Progress
<1>8. faults' \in [Faults -> Nat]
  BY <1>1, SpendFacts DEF Fail, Faults
<1>9. TypeOK'
  BY <1>1, <1>2, <1>4, <1>6, <1>8 DEF TypeOK, Shape
<1> QED
  BY <1>1, <1>2, <1>3, <1>4, <1>5, <1>7, <1>9, Inside DEF IInv

LEMMA KillStep ==
    ASSUME IInv, NEW w \in Writers, Kill(w)
    PROVE  IInv' /\ SamePairs(file, file')
<1>1. TypeOK /\ JournalInv /\ HolderInv
  BY DEF IInv
<1>2. UNCHANGED <<durable, lock, known, plan, size, writes, acked>>
  BY DEF Kill
<1>3. pc' = [pc EXCEPT ![w] = "gone"] /\ alive' = alive \ {w}
  BY DEF Kill, Goto
<1>4. /\ Shape(file') /\ SamePairs(file, file')
      /\ pc[w] \notin {"writing", "committing"} => file' = file
  BY CutShortFacts DEF Kill
<1>5. JournalInv'
  BY <1>1, <1>2, <1>4, CutShortJournal
<1>6. pc' \in [Writers -> Stages] /\ \A v \in Writers : pc'[v] = IF v = w THEN "gone" ELSE pc[v]
  BY <1>1, <1>3 DEF TypeOK, Stages
<1>7. faults' \in [Faults -> Nat]
  BY <1>1, SpendFacts DEF Kill, Faults
<1>8. TypeOK'
  BY <1>1, <1>2, <1>3, <1>4, <1>6, <1>7 DEF TypeOK, Shape
<1>9. "gone" \notin Section
  BY DEF Section, Appending
<1>10. CASE file' = file
  <2>1. \A v \in Writers : v # w /\ pc[v] \in Section => v \in alive' /\ lock' = v
    BY <1>1, <1>2, <1>3 DEF HolderInv
  <2> QED
    BY <1>2, <1>3, <1>4, <1>8, <1>9, <1>10, <2>1, Outside DEF IInv
<1>11. CASE file' # file
  <2>1. pc[w] \in Section
    BY <1>4, <1>11 DEF Section, Appending
  <2>2. \A v \in Writers : pc'[v] \notin Section
    BY <1>1, <1>6, <1>9, <2>1, Alone
  <2>3. HolderInv' /\ \A v \in Writers : Progress(v)'
    BY <2>2, NoAppend DEF HolderInv
  <2> QED
    BY <1>4, <1>5, <1>8, <2>3 DEF IInv
<1> QED
  BY <1>10, <1>11

\* What an outage leaves reads as a beginning of the log, which holds all that
\* was acknowledged.
LEMMA SurvivingFacts ==
    ASSUME JournalInv, acked \in Nat, NEW g \in Surviving
    PROVE  /\ Shape(g) /\ Pairs(g) \in acked .. Pairs(file)
           /\ \A i \in 1 .. 2 * Pairs(g) : g[i] = file[i]
<1>1. /\ Shape(file) /\ file \in Seq(Line) /\ Len(file) \in Nat
      /\ Pairs(file) \in Nat /\ Size(file) \in Nat /\ Lines(file) \in Nat
  BY PairsFacts DEF JournalInv, Shape
<1>2. /\ Shape(durable) /\ durable \in Seq(Line) /\ Len(durable) \in Nat
      /\ Pairs(durable) \in Nat /\ Size(durable) \in Nat /\ Lines(durable) \in Nat
  BY PairsFacts DEF JournalInv, Shape
<1>3. acked <= Pairs(durable) /\ Pairs(durable) <= Pairs(file)
  BY DEF JournalInv
<1>4. CASE g = durable
  BY <1>1, <1>2, <1>3, <1>4 DEF JournalInv
<1>5. ASSUME NEW n \in Least(Size(durable), Size(file)) .. Size(file), g \in Damaged(Cut(file, n))
      PROVE  /\ Shape(g) /\ Pairs(g) \in acked .. Pairs(file)
             /\ \A i \in 1 .. 2 * Pairs(g) : g[i] = file[i]
  <2> DEFINE c == Cut(file, n)
  <2>1. n \in 0 .. Size(file) /\ n \in Nat /\ (n >= Size(durable) \/ n = Size(file))
    BY <1>1, <1>2, <1>5 DEF Least
  <2>2. /\ Shape(c) /\ Size(c) = n /\ Pairs(c) <= Pairs(file)
        /\ 2 * Pairs(c) = n \div 2 \/ 2 * Pairs(c) + 1 = n \div 2
        /\ \A i \in 1 .. 2 * Pairs(c) : c[i] = file[i]
    BY <1>1, <2>1, CutShape
  <2> HIDE DEF c
  <2>3. Pairs(c) \in Nat /\ Len(c) \in Nat /\ c \in Seq(Line)
    BY <2>2, PairsFacts DEF Shape
  <2>4. acked <= Pairs(c)
    <3>1. ASSUME NEW h, Shape(h), n >= Size(h), acked <= Pairs(h) PROVE acked <= Pairs(c)
      <4>1. /\ h \in Seq(Line) /\ Len(h) \in Nat /\ Lines(h) \in Nat /\ Pairs(h) \in Nat
            /\ Size(h) \in Nat
        BY <3>1, PairsFacts DEF Shape
      <4>2. Size(h) >= 2 * Lines(h) /\ Lines(h) >= 2 * Pairs(h)
        BY <4>1, PairsFacts
      <4>3. n >= 4 * Pairs(h)
        BY <2>1, <3>1, <4>1, <4>2
      <4>4. n \div 2 >= 2 * Pairs(h)
        BY <2>1, <4>1, <4>3
      <4> QED
        BY <2>2, <2>3, <3>1, <4>1, <4>4
    <3>2. acked <= Pairs(file)
      BY <1>1, <1>2, <1>3
    <3> QED
      BY <1>1, <1>2, <1>3, <2>1, <3>1, <3>2
  <2>5. CASE g = c
    BY <1>1, <2>2, <2>3, <2>4, <2>5
  <2>6. ASSUME NEW j \in DOMAIN c, j > Len(durable), c[j].kind = "payload",
               g = [c EXCEPT ![j].good = FALSE]
        PROVE  /\ Shape(g) /\ Pairs(g) \in acked .. Pairs(file)
               /\ \A i \in 1 .. 2 * Pairs(g) : g[i] = file[i]
    <3>1. j \in 1 .. Len(c) /\ j \in Nat
      BY <2>3, <2>6
    <3>2. j % 2 = 1
      BY <2>2, <2>6, <3>1 DEF Shape
    <3>3. j > 2 * Pairs(c)
      <4>1. j >= 2 * Pairs(file)
        BY <1>1, <1>2, <2>6, <3>1 DEF JournalInv
      <4>2. j # 2 * Pairs(file)
        BY <1>1, <3>1, <3>2
      <4> QED
        BY <1>1, <2>2, <2>3, <3>1, <4>1, <4>2
    <3>4. /\ Shape(g) /\ Pairs(g) = Pairs(c)
          /\ \A i \in 1 .. 2 * Pairs(c) : g[i] = c[i]
      BY <2>2, <2>6, <3>1, <3>3, DamageShape
    <3> QED
      BY <1>1, <2>2, <2>3, <2>4, <3>4
  <2>7. g = c \/ \E j \in DOMAIN c : /\ j > Len(durable) /\ c[j].kind = "payload"
                                     /\ g = [c EXCEPT ![j].good = FALSE]
    BY <1>5 DEF Damaged, c
  <2> QED
    BY <2>5, <2>6, <2>7
<1>6. g = durable \/ \E n \in Least(Size(durable), Size(file)) .. Size(file) :
                         g \in Damaged(Cut(file, n))
  BY DEF Surviving
<1> QED
  BY <1>4, <1>5, <1>6

LEMMA OutageStep ==
    ASSUME IInv, Outage
    PROVE  /\ IInv' /\ Pairs(file') \in acked .. Pairs(file)
           /\ \A i \in 1 .. 2 * Pairs(file') : file'[i] = file[i]
<1>1. TypeOK /\ JournalInv /\ acked \in Nat
  BY DEF IInv, TypeOK
<1>2. UNCHANGED <<lock, known, plan, size, writes, acked>> /\ durable' = file'
  BY DEF Outage
<1>3. /\ Shape(file') /\ Pairs(file') \in acked .. Pairs(file)
      /\ \A i \in 1 .. 2 * Pairs(file') : file'[i] = file[i]
  BY <1>1, SurvivingFacts DEF Outage
<1>4. \A w \in Writers : pc'[w] \in {"idle", "gone"}
  BY DEF Outage
<1>5. \A w \in Writers : pc'[w] \notin Section
  BY <1>4 DEF Section, Appending
<1>6. HolderInv' /\ \A w \in Writers : Progress(w)'
  BY <1>5, NoAppend DEF HolderInv
<1>7. JournalInv'
  <2>1. file' \in Seq(Line) /\ Len(file') \in Nat /\ Pairs(file') \in Nat
    BY <1>3, PairsFacts DEF Shape
  <2>2. 2 * Pairs(file') <= Len(file') + 1
    BY <2>1, PairsFacts
  <2>3. Shape(file)' /\ Pairs(file)' = Pairs(file')
    BY <1>3 DEF Shape, Pairs, Lines, Torn, PairOK
  <2>4. Shape(durable)' /\ Pairs(durable)' = Pairs(file')
    BY <1>2, <1>3 DEF Shape, Pairs, Lines, Torn, PairOK
  <2> QED
    BY <1>1, <1>2, <1>3, <2>1, <2>2, <2>3, <2>4 DEF JournalInv
<1>8. TypeOK'
  <2>1. faults' \in [Faults -> Nat]
    BY <1>1, SpendFacts DEF Outage, Faults
  <2>2. alive' \subseteq Writers
    BY <1>1 DEF Outage, TypeOK
  <2>3. pc' \in [Writers -> Stages]
    BY DEF Outage, Stages
  <2> QED
    BY <1>1, <1>2, <1>3, <2>1, <2>2, <2>3 DEF TypeOK, Shape
<1> QED
  BY <1>3, <1>6, <1>7, <1>8 DEF IInv

LEMMA WriteLineStep ==
    ASSUME IInv, NEW w \in Writers, WriteLine(w)
    PROVE  IInv'
<1>1. pc[w] \in {"trimming", "writing", "committing"}
  BY DEF WriteLine
<1> QED
  BY <1>1, TrimStep, PayloadStep, CommitStep

LEMMA NextIInv == IInv /\ [Next]_vars => IInv'
<1> SUFFICES ASSUME IInv, [Next]_vars PROVE IInv'
  OBVIOUS
<1>1. ASSUME NEW r \in Recoveries, Measure(r) \/ Scan(r) PROVE IInv'
  BY <1>1, MeasureStep, ScanStep
<1>2. ASSUME NEW w \in Writers, Acquire(w) \/ Leave(w) \/ Check(w) \/ OpenJournal(w)
      PROVE IInv'
  BY <1>2, AcquireStep, LeaveStep, CheckStep, OpenJournalStep
<1>3. ASSUME NEW w \in Writers, WriteLine(w) \/ Sync(w) \/ Finish(w)
      PROVE IInv'
  BY <1>3, WriteLineStep, SyncStep, FinishStep
<1>4. ASSUME NEW w \in Writers, Fail(w) \/ Kill(w) PROVE IInv'
  BY <1>4, FailStep, KillStep
<1>5. CASE Outage
  BY <1>5, OutageStep
<1>6. CASE UNCHANGED vars
  <2>1. UNCHANGED <<file, durable, lock, alive, pc, known, plan, size, writes, acked, faults>>
    BY <1>6 DEF vars
  <2>2. TypeOK' /\ HolderInv'
    BY <2>1 DEF IInv, TypeOK, HolderInv
  <2>3. JournalInv'
    BY <2>1 DEF IInv, JournalInv, Shape, Pairs, Lines, Torn, PairOK
  <2>4. \A w \in Writers : Progress(w)'
    BY <2>1, SameAppend DEF IInv
  <2> QED
    BY <2>2, <2>3, <2>4 DEF IInv
<1> QED
  BY <1>1, <1>2, <1>3, <1>4, <1>5, <1>6 DEF Next

\* What the theorems follow from holds in every reachable state.
THEOREM Invariant == Spec => []IInv
BY InitIInv, NextIInv, PTL DEF Spec

\* Every variable always holds a value of its kind.
THEOREM TypeInvariant == Spec => []TypeOK
<1>1. IInv => TypeOK
  BY DEF IInv
<1> QED
  BY Invariant, <1>1, PTL

\* Neither a failed call nor a death nor an outage leaves a journal that
\* readLeaseJournal rejects, once a revision was acknowledged.
THEOREM JournalTheorem == Spec => []JournalReadable
<1>1. IInv => JournalReadable
  <2> SUFFICES ASSUME IInv, acked > 0 PROVE Readable(file) /\ Readable(durable)
    BY DEF JournalReadable
  <2>1. Shape(file) /\ Shape(durable) /\ acked \in Nat
    BY DEF IInv, JournalInv, TypeOK
  <2>2. Pairs(file) \in Nat /\ Pairs(durable) \in Nat
    BY <2>1, PairsFacts DEF Shape
  <2>3. Pairs(file) > 0 /\ Pairs(durable) > 0
    BY <2>1, <2>2 DEF IInv, JournalInv
  <2> QED
    BY <2>1, <2>3, ShapeReadable
<1> QED
  BY Invariant, <1>1, PTL

------------------------------------------------------------------------------
(* The journal implements DurableLog *)

\* What readers of a file of the required shape see.
LEMMA CommittedFacts ==
    ASSUME NEW f, Shape(f)
    PROVE  /\ Committed(f) \in Seq(Record) /\ Len(Committed(f)) = Pairs(f)
           /\ Pairs(f) \in Nat
           /\ \A k \in 1 .. Pairs(f) : Committed(f)[k] = f[2 * k].record
<1>1. Pairs(f) \in Nat
  BY PairsFacts DEF Shape
<1>2. \A k \in 1 .. Pairs(f) : f[2 * k].record \in Record
  BY RecordOfPair
<1>3. CASE Pairs(f) > 0
  <2>1. Committed(f) = [k \in 1 .. Pairs(f) |-> f[2 * k].record]
    BY <1>3, ShapeReadable DEF Committed
  <2> QED
    BY <1>1, <1>2, <2>1
<1>4. CASE Pairs(f) = 0
  <2>1. Committed(f) = <<>>
    BY <1>4 DEF Committed, Readable
  <2> QED
    BY <1>4, <2>1
<1>5. Pairs(f) > 0 \/ Pairs(f) = 0
  BY <1>1
<1> QED
  BY <1>1, <1>3, <1>4, <1>5, Zenon

LEMMA SameCommitted ==
    ASSUME NEW f, NEW g, Shape(f), Shape(g), SamePairs(f, g)
    PROVE  Committed(g) = Committed(f)
<1>1. /\ Committed(f) \in Seq(Record) /\ Committed(g) \in Seq(Record)
      /\ Len(Committed(f)) = Pairs(f) /\ Len(Committed(g)) = Pairs(f) /\ Pairs(f) \in Nat
  BY CommittedFacts DEF SamePairs
<1>2. ASSUME NEW k \in 1 .. Pairs(f) PROVE Committed(g)[k] = Committed(f)[k]
  <2>1. 2 * k \in 1 .. 2 * Pairs(f) /\ Pairs(g) = Pairs(f)
    BY <1>1 DEF SamePairs
  <2>2. Committed(f)[k] = f[2 * k].record /\ Committed(g)[k] = g[2 * k].record
    BY <2>1, CommittedFacts
  <2> QED
    BY <2>1, <2>2 DEF SamePairs
<1> QED
  BY <1>1, <1>2

\* How a step that may fail changes the log: not at all, by the record that was
\* planned, or by what an outage costs.
LogUnchanged ==
    UNCHANGED <<Committed(file), acked, FaultBudget["outage"] - faults["outage"]>>

LEMMA LogKept ==
    ASSUME Shape(file), Shape(file'), SamePairs(file, file'), acked' = acked,
           faults'["outage"] = faults["outage"]
    PROVE  LogUnchanged
<1>1. Committed(file)' = Committed(file')
  BY DEF Committed, Readable, Pairs, Lines, Torn, PairOK
<1> QED
  BY <1>1, SameCommitted DEF LogUnchanged

LEMMA CommitStepLog ==
    ASSUME IInv, NEW w \in Writers, WriteLine(w), pc[w] = "committing"
    PROVE  Log!Commit
<1> DEFINE r == plan[w].record
           old == Committed(file)
           new == Committed(file')
<1>1. /\ IInv' /\ Fits(w) /\ Grown(file, file', r)
      /\ Shape(file) /\ Shape(file')
  <2>1. IInv' /\ Fits(w) /\ Grown(file, file', r)
    BY CommitStep
  <2>2. Shape(file) /\ Shape(file)'
    BY <2>1 DEF IInv, JournalInv
  <2> QED
    BY <2>1, <2>2 DEF Shape, Pairs, Lines, Torn, PairOK
<1>2. r \in Record
  BY PlanFacts DEF IInv
<1>3. /\ Pairs(file) \in Nat /\ Pairs(file') = Pairs(file) + 1
      /\ old \in Seq(Record) /\ Len(old) = Pairs(file)
      /\ new \in Seq(Record) /\ Len(new) = Pairs(file) + 1
  BY <1>1, CommittedFacts DEF Grown
<1>4. ASSUME NEW k \in 1 .. Pairs(file) PROVE new[k] = old[k]
  <2>1. k \in 1 .. Pairs(file') /\ 2 * k \in 1 .. 2 * Pairs(file)
    BY <1>3
  <2>2. old[k] = file[2 * k].record /\ new[k] = file'[2 * k].record
    BY <1>1, <2>1, CommittedFacts
  <2> QED
    BY <1>1, <2>1, <2>2 DEF Grown
<1>5. new[Pairs(file) + 1] = r
  <2>1. Pairs(file) + 1 \in 1 .. Pairs(file')
    BY <1>3
  <2>2. new[Pairs(file) + 1] = file'[2 * (Pairs(file) + 1)].record
    BY <1>1, <2>1, CommittedFacts
  <2> QED
    BY <1>1, <1>3, <2>2 DEF Grown, LastRecord
<1>6. r.revision = Pairs(file) /\ r.base = IF Pairs(file) = 0 THEN 0 ELSE LastRecord(file).content
  BY <1>1 DEF Fits
<1>7. Pairs(file) # 0 => old[Pairs(file)] = LastRecord(file)
  <2>1. Pairs(file) # 0 => Pairs(file) \in 1 .. Pairs(file)
    BY <1>3
  <2> QED
    BY <1>1, <2>1, CommittedFacts DEF LastRecord
<1>8. Committed(file)' = new
  BY DEF Committed, Readable, Pairs, Lines, Torn, PairOK
<1>9. UNCHANGED <<acked, faults>>
  BY DEF WriteLine
<1> HIDE DEF r, old, new
<1>10. SubSeq(new, 1, Pairs(file)) = old
  BY <1>3, <1>4
<1>11. r.revision = Len(old) /\ (old # <<>> => r.base = old[Len(old)].content)
       /\ (old = <<>> => r.revision = 0 /\ r.base = 0)
  BY <1>3, <1>6, <1>7
<1> QED
  BY <1>2, <1>3, <1>5, <1>8, <1>9, <1>10, <1>11 DEF Log!Commit, Log!Follows, Log!Record, Record, old, new

LEMMA OutageStepLog ==
    ASSUME IInv, Outage
    PROVE  Log!Outage
<1> DEFINE old == Committed(file)
           new == Committed(file')
           n == Pairs(file')
<1>1. /\ n \in acked .. Pairs(file) /\ IInv'
      /\ \A i \in 1 .. 2 * n : file'[i] = file[i]
  BY OutageStep
<1>2. Shape(file) /\ Shape(file')
  <2>1. Shape(file) /\ Shape(file)'
    BY <1>1 DEF IInv, JournalInv
  <2> QED
    BY <2>1 DEF Shape, Pairs, Lines, Torn, PairOK
<1>3. /\ old \in Seq(Record) /\ Len(old) = Pairs(file) /\ Pairs(file) \in Nat
      /\ new \in Seq(Record) /\ Len(new) = n /\ n \in Nat
  BY <1>2, CommittedFacts
<1>4. ASSUME NEW k \in 1 .. n PROVE new[k] = old[k]
  <2>1. k \in 1 .. Pairs(file) /\ 2 * k \in 1 .. 2 * n
    BY <1>1, <1>3
  <2>2. old[k] = file[2 * k].record /\ new[k] = file'[2 * k].record
    BY <1>2, <2>1, CommittedFacts
  <2> QED
    BY <1>1, <2>1, <2>2
<1>5. Committed(file)' = new
  BY DEF Committed, Readable, Pairs, Lines, Torn, PairOK
<1>6. acked' = acked
  BY DEF Outage
<1>7. FaultBudget["outage"] - faults'["outage"] = FaultBudget["outage"] - faults["outage"] + 1
  <2>1. "outage" \in Faults /\ TypeOK
    BY DEF Faults, IInv
  <2>2. faults["outage"] \in Nat /\ FaultBudget["outage"] \in Nat
    BY <2>1, BoundAssumption DEF TypeOK
  <2>3. faults'["outage"] = faults["outage"] - 1
    BY <2>1, SpendFacts DEF Outage
  <2> QED
    BY <2>2, <2>3
<1> HIDE DEF old, new, n
<1>8. new = SubSeq(old, 1, n) /\ n \in acked .. Len(old)
  BY <1>1, <1>3, <1>4
<1> QED
  BY <1>5, <1>6, <1>7, <1>8 DEF Log!Outage, old, new

LEMMA FinishStepLog ==
    ASSUME IInv, NEW w \in Writers, Finish(w)
    PROVE  Log!Acknowledge
<1>1. acked' \in acked .. Pairs(file)
  BY FinishStep
<1>2. Len(Committed(file)) = Pairs(file)
  BY CommittedFacts DEF IInv, JournalInv
<1>3. UNCHANGED <<file, faults>>
  BY DEF Finish
<1>4. Committed(file)' = Committed(file)
  BY <1>3 DEF Committed, Readable, Pairs, Lines, Torn, PairOK
<1> QED
  BY <1>1, <1>2, <1>3, <1>4 DEF Log!Acknowledge

\* Every other step leaves the log as it is.
LEMMA OtherStepLog ==
    ASSUME IInv, IInv', [Next]_vars, ~Outage,
           \A w \in Writers : ~Finish(w) /\ ~(WriteLine(w) /\ pc[w] = "committing")
    PROVE  LogUnchanged
<1>1. Shape(file) /\ Shape(file') /\ TypeOK
  <2>1. Shape(file) /\ Shape(file)' /\ TypeOK
    BY DEF IInv, JournalInv
  <2> QED
    BY <2>1 DEF Shape, Pairs, Lines, Torn, PairOK
<1>2. SamePairs(file, file)
  BY DEF SamePairs
<1>3. ASSUME UNCHANGED <<file, acked, faults>> PROVE LogUnchanged
  BY <1>1, <1>2, <1>3, LogKept
<1>4. ASSUME NEW r \in Recoveries, Measure(r) \/ Scan(r) PROVE LogUnchanged
  BY <1>3, <1>4 DEF Measure, Scan
<1>5. ASSUME NEW w \in Writers,
             Acquire(w) \/ Leave(w) \/ Check(w) \/ OpenJournal(w) \/ Sync(w)
      PROVE  LogUnchanged
  BY <1>3, <1>5 DEF Acquire, Leave, Check, OpenJournal, Sync
<1>6. ASSUME NEW w \in Writers, WriteLine(w) PROVE LogUnchanged
  <2>1. pc[w] \in {"trimming", "writing"}
    BY <1>6 DEF WriteLine
  <2>2. SamePairs(file, file')
    BY <1>6, <2>1, TrimStep, PayloadStep
  <2>3. UNCHANGED <<acked, faults>>
    BY <1>6 DEF WriteLine
  <2> QED
    BY <1>1, <2>2, <2>3, LogKept
<1>7. ASSUME NEW w \in Writers, Fail(w) \/ Kill(w) PROVE LogUnchanged
  <2>1. SamePairs(file, file')
    BY <1>7, FailStep, KillStep
  <2>2. acked' = acked
    BY <1>7 DEF Fail, Kill
  <2>3. faults'["outage"] = faults["outage"]
    BY <1>1, <1>7, SpendFacts DEF Fail, Kill, Faults
  <2> QED
    BY <1>1, <2>1, <2>2, <2>3, LogKept
<1>8. CASE UNCHANGED vars
  BY <1>3, <1>8 DEF vars
<1> QED
  BY <1>4, <1>5, <1>6, <1>7, <1>8 DEF Next

\* The journal implements the log: readers only ever see records added one by
\* one, each made from the one before it, and no outage takes one away that a
\* writer was told is written.
THEOREM Refinement == Spec => ImplementsLog
<1>1. Init => Log!Init
  <2> SUFFICES ASSUME Init PROVE Log!Init
    OBVIOUS
  <2>1. file = <<>> /\ ~Torn(file) /\ acked = 0 /\ faults = FaultBudget
    BY DEF Init, Torn
  <2>2. Pairs(file) = 0
    BY <2>1 DEF Lines, Pairs
  <2>3. Committed(file) = <<>>
    BY <2>2 DEF Committed, Readable
  <2>4. FaultBudget["outage"] - faults["outage"] = 0
    BY <2>1, BoundAssumption DEF Faults
  <2> QED
    BY <2>1, <2>3, <2>4 DEF Log!Init
<1>2. IInv /\ IInv' /\ [Next]_vars =>
        [Log!Next]_<<Committed(file), acked, FaultBudget["outage"] - faults["outage"]>>
  <2> SUFFICES ASSUME IInv, IInv', [Next]_vars
               PROVE  Log!Next \/ LogUnchanged
    BY DEF LogUnchanged
  <2>1. CASE Outage
    BY <2>1, OutageStepLog DEF Log!Next
  <2>2. CASE \E w \in Writers : Finish(w) \/ (WriteLine(w) /\ pc[w] = "committing")
    BY <2>2, FinishStepLog, CommitStepLog DEF Log!Next
  <2> QED
    BY <2>1, <2>2, OtherStepLog
<1> QED
  BY Invariant, <1>1, <1>2, PTL DEF Spec, ImplementsLog, Log!Spec
=============================================================================
