------------------------ MODULE DiagnosticBufferProofs ------------------------
(***************************************************************************)
(* The buffer is exact for every set of markers that fit the overlap,      *)
(* every bound of the tail and every cut of the output into pieces.  The   *)
(* argument is one about windows: the old output, the new piece and the    *)
(* text at the seam are windows of the output so far, and a marker in the  *)
(* latter lies in one of the three.                                        *)
(***************************************************************************)
EXTENDS DiagnosticBuffer, SequenceTheorems, TLAPS

Text    == Seq(Symbols)
Markers == FailureMarkers \cup {ReadyMarker}

\* marker is printed in s from position i on.
At(s, marker, i) == \A k \in 1..Len(marker) : s[i + k - 1] = marker[k]

\* w is what s has behind its first d symbols, as far as w goes.
Window(w, s, d) ==
  /\ d \in Nat /\ d + Len(w) <= Len(s)
  /\ \A j \in 1..Len(w) : w[j] = s[d + j]

-----------------------------------------------------------------------------
LEMMA ContainsAt ==
  ASSUME NEW s \in Text, NEW m \in Text, Len(m) >= 1
  PROVE  contains(s, m) <=> \E i \in 1..(Len(s) - Len(m) + 1) : At(s, m, i)
<1>1. Len(s) \in Nat /\ Len(m) \in Nat
  BY LenProperties DEF Text
<1>2. ASSUME NEW i \in 1..Len(s)
      PROVE  IsPrefix(m, SubSeq(s, i, Len(s))) <=> i <= Len(s) - Len(m) + 1 /\ At(s, m, i)
  <2> DEFINE t == SubSeq(s, i, Len(s))
  <2>1. t \in Text /\ Len(t) = Len(s) - i + 1 /\ \A j \in 1..(Len(s) - i + 1) : t[j] = s[i + j - 1]
    BY <1>1, <1>2 DEF Text
  <2> HIDE DEF t
  <2>2. SubSeq(m, 1, Len(m)) = m
    BY <1>1 DEF Text
  <2>3. ASSUME Len(m) <= Len(t)
        PROVE  m = SubSeq(t, 1, Len(m)) <=> At(s, m, i)
    <3> DEFINE u == SubSeq(t, 1, Len(m))
    <3>1. u \in Text /\ Len(u) = Len(m) /\ \A j \in 1..Len(m) : u[j] = t[j]
      BY <1>1, <2>1, <2>3 DEF Text
    <3> HIDE DEF u
    <3>2. \A j \in 1..Len(m) : u[j] = s[i + j - 1]
      BY <1>1, <2>1, <2>3, <3>1
    <3>3. At(s, m, i) => m = u
      BY <1>1, <3>1, <3>2, SeqEqual DEF At, Text
    <3>4. m = u => At(s, m, i)
      BY <3>2 DEF At
    <3> QED BY <3>3, <3>4 DEF u
  <2> QED BY <1>1, <2>1, <2>2, <2>3 DEF IsPrefix, t
<1> QED BY <1>1, <1>2 DEF contains

LEMMA ContainsInWindow ==
  ASSUME NEW s \in Text, NEW w \in Text, NEW m \in Text, Len(m) >= 1,
         NEW d, Window(w, s, d)
  PROVE  contains(w, m) <=> \E i \in (d + 1)..(d + Len(w) - Len(m) + 1) : At(s, m, i)
<1>1. Len(s) \in Nat /\ Len(w) \in Nat /\ Len(m) \in Nat /\ d \in Nat
  BY LenProperties DEF Text, Window
<1>2. ASSUME NEW i \in 1..(Len(w) - Len(m) + 1) PROVE At(w, m, i) <=> At(s, m, d + i)
  <2>1. \A k \in 1..Len(m) : w[i + k - 1] = s[d + (i + k - 1)] /\ d + (i + k - 1) = (d + i) + k - 1
    BY <1>1 DEF Window
  <2> QED BY <2>1 DEF At
<1>3. ASSUME NEW i \in 1..(Len(w) - Len(m) + 1), At(w, m, i)
      PROVE  \E j \in (d + 1)..(d + Len(w) - Len(m) + 1) : At(s, m, j)
  <2>1. d + i \in (d + 1)..(d + Len(w) - Len(m) + 1)
    BY <1>1
  <2> QED BY <1>2, <1>3, <2>1
<1>4. ASSUME NEW j \in (d + 1)..(d + Len(w) - Len(m) + 1), At(s, m, j)
      PROVE  \E i \in 1..(Len(w) - Len(m) + 1) : At(w, m, i)
  <2> DEFINE i == j - d
  <2>1. i \in 1..(Len(w) - Len(m) + 1) /\ d + i = j
    BY <1>1
  <2> HIDE DEF i
  <2> QED BY <1>2, <1>4, <2>1
<1> QED BY <1>3, <1>4, ContainsAt

\* The ends of a text.
LEMMA LastWindow ==
  ASSUME NEW s \in Text, NEW n \in Nat
  PROVE  /\ last(s, n) \in Text
         /\ Len(last(s, n)) = IF Len(s) <= n THEN Len(s) ELSE n
         /\ Window(last(s, n), s, Len(s) - Len(last(s, n)))
<1>1. Len(s) \in Nat
  BY LenProperties DEF Text
<1>2. CASE Len(s) <= n
  BY <1>1, <1>2 DEF last, Window
<1>3. CASE Len(s) > n
  <2> DEFINE t == SubSeq(s, Len(s) - n + 1, Len(s))
  <2>1. t \in Text /\ Len(t) = n /\ \A j \in 1..n : t[j] = s[(Len(s) - n + 1) + j - 1]
    BY <1>1, <1>3 DEF Text
  <2>2. last(s, n) = t
    BY <1>1, <1>3 DEF last
  <2> HIDE DEF t
  <2>3. \A j \in 1..n : (Len(s) - n + 1) + j - 1 = (Len(s) - n) + j
    BY <1>1
  <2> QED BY <1>1, <1>3, <2>1, <2>2, <2>3 DEF Window
<1> QED BY <1>1, <1>2, <1>3

LEMMA FirstWindow ==
  ASSUME NEW s \in Text, NEW n \in Nat
  PROVE  /\ first(s, n) \in Text
         /\ Len(first(s, n)) = IF Len(s) <= n THEN Len(s) ELSE n
         /\ Window(first(s, n), s, 0)
<1>1. Len(s) \in Nat
  BY LenProperties DEF Text
<1>2. CASE Len(s) <= n
  BY <1>1, <1>2 DEF first, Window
<1>3. CASE Len(s) > n
  BY <1>1, <1>3 DEF first, Window, Text
<1> QED BY <1>1, <1>2, <1>3

LEMMA WindowOfWindow ==
  ASSUME NEW s \in Text, NEW t \in Text, NEW v \in Text,
         Len(v) <= Len(t), Len(t) <= Len(s),
         Window(t, s, Len(s) - Len(t)), Window(v, t, Len(t) - Len(v))
  PROVE  Window(v, s, Len(s) - Len(v))
<1>1. Len(s) \in Nat /\ Len(t) \in Nat /\ Len(v) \in Nat
  BY LenProperties DEF Text
<1>2. ASSUME NEW j \in 1..Len(v) PROVE v[j] = s[(Len(s) - Len(v)) + j]
  <2>1. v[j] = t[(Len(t) - Len(v)) + j] /\ (Len(t) - Len(v)) + j \in 1..Len(t)
    BY <1>1 DEF Window
  <2>2. t[(Len(t) - Len(v)) + j] = s[(Len(s) - Len(t)) + ((Len(t) - Len(v)) + j)]
    BY <2>1 DEF Window
  <2>3. (Len(s) - Len(t)) + ((Len(t) - Len(v)) + j) = (Len(s) - Len(v)) + j
    BY <1>1
  <2> QED BY <2>1, <2>2, <2>3
<1> QED BY <1>1, <1>2 DEF Window

LEMMA WindowIsUnique ==
  ASSUME NEW s, NEW v \in Text, NEW w \in Text, NEW d, Window(v, s, d), Window(w, s, d), Len(v) = Len(w)
  PROVE  v = w
BY SeqEqual DEF Window, Text

-----------------------------------------------------------------------------
(* One Write                                                               *)

Inv ==
  /\ output \in Text /\ ready \in BOOLEAN /\ exportFailure \in BOOLEAN
  /\ MarkersExact /\ TailExact

LEMMA Piece == \A p \in BoundedSeq(Symbols, MaxPiece) : p \in Text
BY SeqDef DEF BoundedSeq, SeqOf, Text

\* Old text and piece are the windows the new text is made of.
LEMMA NewOutput ==
  ASSUME NEW s \in Text, NEW p \in Text
  PROVE  /\ s \o p \in Text /\ Len(s \o p) = Len(s) + Len(p)
         /\ Len(s) \in Nat /\ Len(p) \in Nat
         /\ Window(s, s \o p, 0) /\ Window(p, s \o p, Len(s))
<1>1. Len(s) \in Nat /\ Len(p) \in Nat
  BY LenProperties DEF Text
<1>2. s \o p \in Text /\ Len(s \o p) = Len(s) + Len(p)
  BY ConcatProperties DEF Text
<1>3. \A j \in 1..Len(s) : (s \o p)[j] = s[j]
  BY <1>1 DEF Text
<1>4. \A j \in 1..Len(p) : (s \o p)[Len(s) + j] = p[j]
  BY <1>1 DEF Text
<1> QED BY <1>1, <1>2, <1>3, <1>4 DEF Window

\* A window of the old text that reaches its end, and one of the piece that
\* starts at its beginning, are one window together.
LEMMA Seam ==
  ASSUME NEW s \in Text, NEW p \in Text, NEW v \in Text, NEW w \in Text,
         Window(v, s, Len(s) - Len(v)), Window(w, p, 0)
  PROVE  /\ v \o w \in Text /\ Len(v \o w) = Len(v) + Len(w)
         /\ Window(v \o w, s \o p, Len(s) - Len(v))
<1> DEFINE x == v \o w
           y == s \o p
<1>1. Len(s) \in Nat /\ Len(p) \in Nat /\ Len(v) \in Nat /\ Len(w) \in Nat
  BY LenProperties DEF Text
<1>2. /\ Len(v) <= Len(s) /\ \A j \in 1..Len(v) : v[j] = s[(Len(s) - Len(v)) + j]
      /\ Len(w) <= Len(p) /\ \A j \in 1..Len(w) : w[j] = p[j]
  BY <1>1 DEF Window
<1>3. /\ x \in Text /\ Len(x) = Len(v) + Len(w)
      /\ \A i \in 1..(Len(v) + Len(w)) : x[i] = IF i <= Len(v) THEN v[i] ELSE w[i - Len(v)]
  BY ConcatProperties DEF Text
<1>4. /\ Len(y) = Len(s) + Len(p)
      /\ \A i \in 1..(Len(s) + Len(p)) : y[i] = IF i <= Len(s) THEN s[i] ELSE p[i - Len(s)]
  BY ConcatProperties DEF Text
<1> HIDE DEF x, y
<1>5. ASSUME NEW j \in 1..(Len(v) + Len(w))
      PROVE  x[j] = y[(Len(s) - Len(v)) + j]
  <2> DEFINE i == (Len(s) - Len(v)) + j
  <2>1. i \in 1..(Len(s) + Len(p)) /\ (i <= Len(s) <=> j <= Len(v)) /\ i - Len(s) = j - Len(v)
    BY <1>1, <1>2
  <2>2. j <= Len(v) => v[j] = s[i]
    BY <1>1, <1>2
  <2>3. ~(j <= Len(v)) => w[j - Len(v)] = p[j - Len(v)]
    BY <1>1, <1>2
  <2> HIDE DEF i
  <2>4. x[j] = y[i]
    BY <1>3, <1>4, <2>1, <2>2, <2>3
  <2> QED BY <2>4 DEF i
<1>6. Len(s) - Len(v) \in Nat /\ (Len(s) - Len(v)) + Len(x) <= Len(y)
  BY <1>1, <1>2, <1>3, <1>4
<1>7. Window(x, y, Len(s) - Len(v))
  BY <1>3, <1>5, <1>6 DEF Window
<1> QED BY <1>3, <1>7 DEF x, y

\* The tail, cut before the piece is appended, is the end of the new text.
LEMMA TailStep ==
  ASSUME NEW s \in Text, NEW p \in Text, maxDiagnosticBytes \in Nat
  PROVE  last(s \o p, maxDiagnosticBytes) =
           IF Len(p) >= maxDiagnosticBytes
             THEN last(p, maxDiagnosticBytes)
             ELSE last(last(s, maxDiagnosticBytes), maxDiagnosticBytes - Len(p)) \o p
<1> DEFINE D == maxDiagnosticBytes
           t == last(s \o p, D)
           c == last(s, D)
<1>1. Len(s) \in Nat /\ Len(p) \in Nat /\ s \o p \in Text /\ Len(s \o p) = Len(s) + Len(p)
  BY NewOutput
<1>2. /\ t \in Text /\ Len(t) = IF Len(s) + Len(p) <= D THEN Len(s) + Len(p) ELSE D
      /\ Window(t, s \o p, (Len(s) + Len(p)) - Len(t))
  BY <1>1, LastWindow
<1>3. CASE Len(p) >= D
  <2> DEFINE u == last(p, D)
  <2>1. u \in Text /\ Len(u) = D /\ Window(u, p, Len(p) - Len(u))
    BY <1>1, <1>3, LastWindow
  <2>2. Len(t) = D
    BY <1>1, <1>2, <1>3
  <2>3. Window(u, s \o p, (Len(s) + Len(p)) - D)
    <3>1. Window(p, s \o p, Len(s))
      BY NewOutput
    <3> HIDE DEF u
    <3>2. ASSUME NEW j \in 1..D PROVE u[j] = (s \o p)[((Len(s) + Len(p)) - D) + j]
      <4>1. u[j] = p[(Len(p) - D) + j] /\ (Len(p) - D) + j \in 1..Len(p)
        BY <1>1, <1>3, <2>1 DEF Window
      <4>2. p[(Len(p) - D) + j] = (s \o p)[Len(s) + ((Len(p) - D) + j)]
        BY <3>1, <4>1 DEF Window
      <4>3. Len(s) + ((Len(p) - D) + j) = ((Len(s) + Len(p)) - D) + j
        BY <1>1
      <4> QED BY <4>1, <4>2, <4>3
    <3> QED BY <1>1, <1>3, <2>1, <3>2 DEF Window
  <2>4. t = u
    <3> HIDE DEF t, u
    <3> QED BY <1>2, <2>1, <2>2, <2>3, WindowIsUnique
  <2> QED BY <1>3, <2>4
<1>4. CASE Len(p) < D
  <2> DEFINE n == D - Len(p)
             v == last(c, n)
  <2>1. n \in Nat /\ n <= D
    BY <1>1, <1>4
  <2>2. /\ c \in Text /\ Len(c) = IF Len(s) <= D THEN Len(s) ELSE D
        /\ Window(c, s, Len(s) - Len(c))
    BY LastWindow
  <2>3. v \in Text /\ Len(v) = (IF Len(c) <= n THEN Len(c) ELSE n) /\ Window(v, c, Len(c) - Len(v))
    <3> HIDE DEF c, n
    <3> QED BY <2>1, <2>2, LastWindow
  <2>4. Len(v) = IF Len(s) <= n THEN Len(s) ELSE n
    <3> HIDE DEF v, c
    <3> QED BY <1>1, <1>4, <2>2, <2>3
  <2>5. Window(v, s, Len(s) - Len(v))
    <3> HIDE DEF v, c, n
    <3>1. Len(v) <= Len(c) /\ Len(c) <= Len(s)
      BY <1>1, <2>1, <2>2, <2>3
    <3> QED BY <2>2, <2>3, <3>1, WindowOfWindow
  <2>6. Window(p, p, 0)
    BY <1>1 DEF Window
  <2>7. v \o p \in Text /\ Len(v \o p) = Len(v) + Len(p) /\ Window(v \o p, s \o p, Len(s) - Len(v))
    <3> HIDE DEF v
    <3> QED BY <2>3, <2>5, <2>6, Seam
  <2>8. Len(t) = Len(v) + Len(p) /\ (Len(s) + Len(p)) - Len(t) = Len(s) - Len(v)
    <3>1. Len(t) = IF Len(s) + Len(p) <= D THEN Len(s) + Len(p) ELSE D
      BY <1>2
    <3>2. Len(v) = IF Len(s) <= D - Len(p) THEN Len(s) ELSE D - Len(p)
      BY <2>4
    <3>3. D \in Nat
      OBVIOUS
    <3> HIDE DEF t, v, D
    <3>4. CASE Len(s) + Len(p) <= D
      BY <1>1, <3>1, <3>2, <3>3, <3>4
    <3>5. CASE ~(Len(s) + Len(p) <= D)
      BY <1>1, <3>1, <3>2, <3>3, <3>5
    <3> QED BY <3>4, <3>5
  <2>9. t = v \o p
    <3> HIDE DEF t, v
    <3> QED BY <1>2, <2>7, <2>8, WindowIsUnique
  <2> QED BY <1>1, <1>4, <2>9
<1> QED BY <1>1, <1>3, <1>4

\* The positions at which a marker of lm symbols can be.
LEMMA Cover ==
  ASSUME NEW ls \in Nat, NEW lp \in Nat, NEW lv \in Nat, NEW lx \in Nat, NEW lm \in Nat,
         NEW o \in Nat, NEW d \in Nat,
         lm >= 1, lm <= o + 1, d = ls - lv,
         lv = IF ls <= o THEN ls ELSE o,
         lx = IF lp <= o THEN lv + lp ELSE lv + o
  PROVE  \A i \in Int : i \in 1..((ls + lp) - lm + 1) <=>
           \/ i \in (0 + 1)..(0 + ls - lm + 1)
           \/ i \in (ls + 1)..(ls + lp - lm + 1)
           \/ i \in (d + 1)..(d + lx - lm + 1)
<1>1. CASE ls <= o
  <2>1. lv = ls /\ d = 0
    BY <1>1
  <2>2. CASE lp <= o
    BY <1>1, <2>1, <2>2
  <2>3. CASE ~(lp <= o)
    BY <1>1, <2>1, <2>3
  <2> QED BY <2>2, <2>3
<1>2. CASE ~(ls <= o)
  <2>1. lv = o /\ d = ls - o
    BY <1>2
  <2>2. CASE lp <= o
    BY <1>2, <2>1, <2>2
  <2>3. CASE ~(lp <= o)
    BY <1>2, <2>1, <2>3
  <2> QED BY <2>2, <2>3
<1> QED BY <1>1, <1>2

\* A marker in the new text is in the old one, in the piece or at the seam.
LEMMA MarkerStep ==
  ASSUME NEW s \in Text, NEW p \in Text, NEW m \in Markers,
         NEW b \in Text, b = last(s, maxDiagnosticBytes)
  PROVE  contains(s \o p, m) <=>
           \/ contains(s, m)
           \/ contains(p, m)
           \/ contains(last(b, Overlap) \o first(p, Overlap), m)
<1> DEFINE v == last(b, Overlap)
           w == first(p, Overlap)
           x == v \o w
           y == s \o p
           d == Len(s) - Len(v)
           Here(i) == At(y, m, i)
<1>1. /\ Overlap \in Nat /\ maxDiagnosticBytes \in Nat /\ Overlap <= maxDiagnosticBytes
      /\ m \in Text /\ Len(m) \in 1..(Overlap + 1)
  BY BufferAssumption DEF Markers, Text
<1>2. /\ Len(s) \in Nat /\ Len(p) \in Nat
      /\ y \in Text /\ Len(y) = Len(s) + Len(p)
      /\ Window(s, y, 0) /\ Window(p, y, Len(s))
  BY NewOutput
<1>3. /\ Len(b) = IF Len(s) <= maxDiagnosticBytes THEN Len(s) ELSE maxDiagnosticBytes
      /\ Window(b, s, Len(s) - Len(b))
  BY <1>1, LastWindow
<1>4. /\ v \in Text /\ Len(v) = (IF Len(b) <= Overlap THEN Len(b) ELSE Overlap)
      /\ Window(v, b, Len(b) - Len(v))
  BY <1>1, LastWindow
<1>5. /\ w \in Text /\ Len(w) = (IF Len(p) <= Overlap THEN Len(p) ELSE Overlap)
      /\ Window(w, p, 0)
  BY <1>1, FirstWindow
<1> HIDE DEF v, w
<1>6. Len(v) = IF Len(s) <= Overlap THEN Len(s) ELSE Overlap
  BY <1>1, <1>2, <1>3, <1>4
<1>7. Window(v, s, d)
  <2>1. Len(v) <= Len(b) /\ Len(b) <= Len(s)
    BY <1>1, <1>2, <1>3, <1>4
  <2> QED BY <1>3, <1>4, <2>1, WindowOfWindow
<1>8. x \in Text /\ Len(x) = Len(v) + Len(w) /\ Window(x, y, d)
  BY <1>4, <1>5, <1>7, Seam
<1>9. d \in Nat /\ d = IF Len(s) <= Overlap THEN 0 ELSE Len(s) - Overlap
  BY <1>1, <1>2, <1>6
<1> HIDE DEF x, y, d
<1>10. Len(m) >= 1 /\ Len(m) \in Nat /\ Len(x) \in Nat
  BY <1>1, <1>8, LenProperties DEF Text
<1>11. contains(y, m) <=> \E i \in 1..(Len(y) - Len(m) + 1) : Here(i)
  BY <1>1, <1>2, <1>10, ContainsAt
<1>12. contains(s, m) <=> \E i \in (0 + 1)..(0 + Len(s) - Len(m) + 1) : Here(i)
  BY <1>1, <1>2, <1>10, ContainsInWindow
<1>13. contains(p, m) <=> \E i \in (Len(s) + 1)..(Len(s) + Len(p) - Len(m) + 1) : Here(i)
  BY <1>1, <1>2, <1>10, ContainsInWindow
<1>14. contains(x, m) <=> \E i \in (d + 1)..(d + Len(x) - Len(m) + 1) : Here(i)
  BY <1>1, <1>2, <1>8, <1>10, ContainsInWindow
<1> HIDE DEF Here
<1> DEFINE whole == 1..(Len(y) - Len(m) + 1)
           old   == (0 + 1)..(0 + Len(s) - Len(m) + 1)
           new   == (Len(s) + 1)..(Len(s) + Len(p) - Len(m) + 1)
           seam  == (d + 1)..(d + Len(x) - Len(m) + 1)
<1>15. Len(x) = IF Len(p) <= Overlap THEN Len(v) + Len(p) ELSE Len(v) + Overlap
  BY <1>5, <1>8
<1>16. Len(v) \in Nat /\ d = Len(s) - Len(v)
  BY <1>4, LenProperties DEF Text, d
<1>17. \A i \in Int : i \in whole <=> i \in old \/ i \in new \/ i \in seam
  <2>1. Len(m) >= 1 /\ Len(m) <= Overlap + 1
    BY <1>1, <1>10
  <2>2. \A i \in Int : i \in 1..((Len(s) + Len(p)) - Len(m) + 1) <=>
           \/ i \in (0 + 1)..(0 + Len(s) - Len(m) + 1)
           \/ i \in (Len(s) + 1)..(Len(s) + Len(p) - Len(m) + 1)
           \/ i \in (d + 1)..(d + Len(x) - Len(m) + 1)
    <3> HIDE DEF whole, old, new, seam
    <3>1. Len(s) \in Nat /\ Len(p) \in Nat /\ Overlap \in Nat
      BY <1>1, <1>2
    <3> QED BY <2>1, <3>1, <1>6, <1>9, <1>10, <1>15, <1>16, Cover, ZenonT(40)
  <2>3. Len(y) = Len(s) + Len(p)
    BY <1>2
  <2> QED BY <2>2, <2>3
<1> HIDE DEF whole, old, new, seam
<1>18. contains(y, m) <=> contains(s, m) \/ contains(p, m) \/ contains(x, m)
  <2>1. whole \subseteq Int /\ old \subseteq Int /\ new \subseteq Int /\ seam \subseteq Int
    BY <1>2, <1>9, <1>10 DEF whole, old, new, seam
  <2>2. /\ contains(y, m) <=> \E i \in whole : Here(i)
        /\ contains(s, m) <=> \E i \in old : Here(i)
        /\ contains(p, m) <=> \E i \in new : Here(i)
        /\ contains(x, m) <=> \E i \in seam : Here(i)
    BY <1>11, <1>12, <1>13, <1>14 DEF whole, old, new, seam
  <2> QED BY <1>17, <2>1, <2>2
<1> QED BY <1>18 DEF x, y, v, w

-----------------------------------------------------------------------------
LEMMA BufferInvariant == Spec => []Inv
<1>1. Init => Inv
  <2> SUFFICES ASSUME Init PROVE Inv
    OBVIOUS
  <2>1. output = <<>> /\ output \in Text /\ Len(output) = 0
    BY DEF Init, Text
  <2>2. ASSUME NEW m \in Markers PROVE ~contains(output, m)
    BY <2>1 DEF contains
  <2>3. TailExact
    BY <2>1, BufferAssumption DEF Init, TailExact, last
  <2> QED BY <2>1, <2>2, <2>3 DEF Init, Inv, MarkersExact, Markers
<1>2. Inv /\ [Next]_vars => Inv'
  <2> SUFFICES ASSUME Inv, Next PROVE Inv'
    BY DEF Inv, MarkersExact, TailExact, vars
  <2>1. PICK p \in Text : Write(p)
    BY Piece DEF Next
  <2>2. maxDiagnosticBytes \in Nat
    BY BufferAssumption
  <2>3. output \in Text /\ output' = output \o p /\ output' \in Text /\ data = last(output, maxDiagnosticBytes)
    BY <2>1, NewOutput DEF Inv, Write, TailExact
  <2>4. data \in Text
    BY <2>2, <2>3, LastWindow
  <2>5. TailExact'
    BY <2>1, <2>2, <2>3, TailStep DEF Write, TailExact
  <2>6. \A m \in Markers : contains(output', m) <=> contains(output, m) \/ found(p, m)
    BY <2>3, <2>4, MarkerStep DEF found
  <2>7. MarkersExact'
    BY <2>1, <2>6 DEF Inv, Write, MarkersExact, Markers
  <2>8. ready' \in BOOLEAN /\ exportFailure' \in BOOLEAN
    BY <2>1 DEF Write
  <2> QED BY <2>3, <2>5, <2>7, <2>8 DEF Inv
<1> QED BY <1>1, <1>2, PTL DEF Spec

\* For every set of markers up to one symbol longer than the overlap, and for
\* every cut of the output, a marker is noticed exactly if it was printed.
THEOREM MarkersAreFound == Spec => []MarkersExact
BY BufferInvariant, PTL DEF Inv

\* For every bound, the tail is the end of the output.
THEOREM TailIsKept == Spec => []TailExact
BY BufferInvariant, PTL DEF Inv
=============================================================================
