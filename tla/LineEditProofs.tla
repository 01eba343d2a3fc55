--------------------------- MODULE LineEditProofs ---------------------------
(***************************************************************************)
(* For every length of the buffer, character set, history and completion:  *)
(* the editor keeps its counts within the buffer, hands over the line as a *)
(* string, and does to the text what the key promises.                     *)
(***************************************************************************)
EXTENDS LineEdit, SequenceTheorems, TLAPS

(* Texts that are put together from pieces.                                *)

\* A part of a sequence.
LEMMA Part ==
  ASSUME NEW S, NEW t \in Seq(S), NEW m \in Nat, m >= 1, NEW n \in Nat, n <= Len(t)
  PROVE  /\ SubSeq(t, m, n) \in Seq(S)
         /\ Len(SubSeq(t, m, n)) = IF m <= n THEN n + 1 - m ELSE 0
         /\ \A i \in 1 .. Len(SubSeq(t, m, n)) : SubSeq(t, m, n)[i] = t[m - 1 + i]
<1> DEFINE u == SubSeq(t, m, n)
<1>1. Len(t) \in Nat /\ \A i \in 1 .. Len(t) : t[i] \in S
  BY LenProperties, ElementOfSeq
<1>2. \A i \in m .. n : t[i] \in S
  BY <1>1
<1>3. /\ u \in Seq(S) /\ Len(u) = IF m <= n THEN n - m + 1 ELSE 0
      /\ \A i \in 1 .. n - m + 1 : u[i] = t[m + i - 1]
  BY <1>2, SubSeqProperties
<1> HIDE DEF u
<1>4. Len(u) = IF m <= n THEN n + 1 - m ELSE 0
  BY <1>3
<1>5. ASSUME NEW i \in 1 .. Len(u)
      PROVE  u[i] = t[m - 1 + i]
  <2>1. i \in 1 .. n - m + 1 /\ m + i - 1 = m - 1 + i
    BY <1>4
  <2> QED
    BY <1>3, <2>1
<1> QED
  BY <1>3, <1>4, <1>5 DEF u

\* What begins with u and goes on with v is u \o v.
LEMMA Glued ==
  ASSUME NEW S, NEW u \in Seq(S), NEW v \in Seq(S), NEW w \in Seq(S),
         Len(w) = Len(u) + Len(v),
         \A i \in 1 .. Len(u) : w[i] = u[i],
         \A i \in 1 .. Len(v) : w[Len(u) + i] = v[i]
  PROVE  w = u \o v
<1>1. Len(u) \in Nat /\ Len(v) \in Nat
  BY LenProperties
<1>2. /\ u \o v \in Seq(S) /\ Len(u \o v) = Len(u) + Len(v)
      /\ \A i \in 1 .. Len(u) + Len(v) : (u \o v)[i] = IF i <= Len(u) THEN u[i] ELSE v[i - Len(u)]
  BY ConcatProperties
<1>3. ASSUME NEW i \in 1 .. Len(w)
      PROVE  w[i] = (u \o v)[i]
  <2>1. i \in Int /\ i \in 1 .. Len(u) + Len(v)
    BY <1>1
  <2>2. CASE i <= Len(u)
    BY <1>1, <1>2, <2>1, <2>2
  <2>3. CASE ~(i <= Len(u))
    <3>1. i - Len(u) \in 1 .. Len(v) /\ Len(u) + (i - Len(u)) = i
      BY <1>1, <2>1, <2>3
    <3>2. w[i] = v[i - Len(u)]
      BY <3>1
    <3> QED
      BY <1>2, <2>1, <2>3, <3>2
  <2> QED
    BY <2>2, <2>3
<1> QED
  BY <1>2, <1>3, SeqEqual

\* w has the first a of t and those from b on.
Cutting(t, w, a, b) ==
  /\ a <= Len(t) /\ b > a /\ b <= Len(t) + 1
  /\ Len(w) = a + (Len(t) + 1 - b)
  /\ \A i \in 1 .. a : w[i] = t[i]
  /\ \A i \in 1 .. Len(t) + 1 - b : w[a + i] = t[b - 1 + i]

\* All of t but what is from place a + 1 to place b - 1.
LEMMA Cut ==
  ASSUME NEW S, NEW t \in Seq(S), NEW w \in Seq(S), NEW a \in Nat, NEW b \in Nat,
         Cutting(t, w, a, b)
  PROVE  w = SubSeq(t, 1, a) \o SubSeq(t, b, Len(t))
<1> DEFINE u == SubSeq(t, 1, a)
           v == SubSeq(t, b, Len(t))
<1>0. /\ a <= Len(t) /\ b > a /\ b <= Len(t) + 1
      /\ Len(w) = a + (Len(t) + 1 - b)
      /\ \A i \in 1 .. a : w[i] = t[i]
      /\ \A i \in 1 .. Len(t) + 1 - b : w[a + i] = t[b - 1 + i]
  BY DEF Cutting
<1>1. Len(t) \in Nat
  BY LenProperties
<1>2. u \in Seq(S) /\ Len(u) = a /\ \A i \in 1 .. Len(u) : w[i] = u[i]
  <2>1. /\ u \in Seq(S) /\ Len(u) = IF 1 <= a THEN a + 1 - 1 ELSE 0
        /\ \A i \in 1 .. Len(u) : u[i] = t[1 - 1 + i]
    BY <1>0, Part
  <2> HIDE DEF u
  <2>2. Len(u) = a
    BY <2>1
  <2>3. ASSUME NEW i \in 1 .. Len(u)
        PROVE  w[i] = u[i]
    <3>1. 1 - 1 + i = i /\ i \in 1 .. a
      BY <2>2
    <3> QED
      BY <1>0, <2>1, <3>1
  <2> QED
    BY <2>1, <2>2, <2>3
<1>3. /\ v \in Seq(S) /\ Len(v) = Len(t) + 1 - b
      /\ \A i \in 1 .. Len(v) : w[a + i] = v[i]
  <2>1. /\ v \in Seq(S) /\ Len(v) = IF b <= Len(t) THEN Len(t) + 1 - b ELSE 0
        /\ \A i \in 1 .. Len(v) : v[i] = t[b - 1 + i]
    <3>1. b >= 1 /\ Len(t) <= Len(t)
      BY <1>0, <1>1
    <3> QED
      BY <1>1, <3>1, Part
  <2> HIDE DEF v
  <2>2. Len(v) = Len(t) + 1 - b
    BY <1>0, <1>1, <2>1
  <2> QED
    BY <1>0, <2>1, <2>2
<1> HIDE DEF u, v
<1>4. w = u \o v
  <2>1. u \in Seq(S) /\ v \in Seq(S)
    BY <1>2, <1>3
  <2>2. /\ Len(w) = Len(u) + Len(v)
        /\ \A i \in 1 .. Len(u) : w[i] = u[i]
        /\ \A i \in 1 .. Len(v) : w[Len(u) + i] = v[i]
    BY <1>0, <1>2, <1>3
  <2> QED
    BY <2>1, <2>2, Glued
<1> QED
  BY <1>4 DEF u, v

\* w has n characters between the first a of t and its last r, o of t are left out.
Spliced(t, w, a, n, o, r, m) ==
  /\ Len(t) = m /\ a <= m /\ Len(w) = a + n + r
  /\ (r = 0 /\ a + o >= m) \/ a + o + r = m
  /\ \A i \in 1 .. a : w[i] = t[i]
  /\ \A i \in 1 .. r : w[a + n + i] = t[a + o + i]

\* A text that agrees with t before the caret and behind what was put over, in three pieces.
LEMMA Pieces ==
  ASSUME NEW S, NEW t \in Seq(S), NEW w \in Seq(S), NEW a \in Nat, NEW n \in Nat, NEW o \in Nat,
         NEW r \in Nat, NEW m \in Nat, Spliced(t, w, a, n, o, r, m)
  PROVE  w = (SubSeq(t, 1, a) \o SubSeq(w, a + 1, a + n)) \o SubSeq(t, a + 1 + o, Len(t))
<1>0. /\ Len(t) = m /\ a <= m /\ Len(w) = a + n + r
      /\ (r = 0 /\ a + o >= m) \/ a + o + r = m
      /\ \A i \in 1 .. a : w[i] = t[i]
      /\ \A i \in 1 .. r : w[a + n + i] = t[a + o + i]
  BY DEF Spliced
<1>1. Len(t) \in Nat
  BY LenProperties
<1>2. PICK c \in Nat : c = a + n
  OBVIOUS
<1>3. PICK d \in Nat : d = a + 1
  OBVIOUS
<1>4. PICK e \in Nat : e = a + 1 + o
  OBVIOUS
<1>5. Len(w) = c + r /\ c <= Len(w) /\ 1 \in Nat /\ 1 >= 1 /\ d >= 1 /\ e >= 1
  BY <1>0, <1>2, <1>3, <1>4
<1> DEFINE u == SubSeq(t, 1, a)
           x == SubSeq(w, d, c)
           y == SubSeq(w, 1, c)
           v == SubSeq(t, e, Len(t))
<1>6. u \in Seq(S) /\ Len(u) = a /\ \A i \in 1 .. Len(u) : u[i] = w[i]
  <2>1. /\ u \in Seq(S) /\ Len(u) = IF 1 <= a THEN a + 1 - 1 ELSE 0
        /\ \A i \in 1 .. Len(u) : u[i] = t[1 - 1 + i]
    BY <1>0, Part
  <2> HIDE DEF u
  <2>2. Len(u) = a
    BY <2>1
  <2>3. ASSUME NEW i \in 1 .. Len(u)
        PROVE  u[i] = w[i]
    <3>1. 1 - 1 + i = i /\ i \in 1 .. a
      BY <2>2
    <3> QED
      BY <1>0, <2>1, <3>1
  <2> QED
    BY <2>1, <2>2, <2>3
<1>7. x \in Seq(S) /\ Len(x) = n /\ \A i \in 1 .. Len(x) : x[i] = w[a + i]
  <2>1. /\ x \in Seq(S) /\ Len(x) = IF d <= c THEN c + 1 - d ELSE 0
        /\ \A i \in 1 .. Len(x) : x[i] = w[d - 1 + i]
    BY <1>5, Part
  <2> HIDE DEF x
  <2>2. Len(x) = n /\ d - 1 = a
    BY <1>2, <1>3, <2>1
  <2> QED
    BY <2>1, <2>2
<1>8. y \in Seq(S) /\ Len(y) = c /\ \A i \in 1 .. Len(y) : y[i] = w[i]
  <2>1. /\ y \in Seq(S) /\ Len(y) = IF 1 <= c THEN c + 1 - 1 ELSE 0
        /\ \A i \in 1 .. Len(y) : y[i] = w[1 - 1 + i]
    BY <1>5, Part
  <2> HIDE DEF y
  <2>2. Len(y) = c
    BY <2>1
  <2>3. ASSUME NEW i \in 1 .. Len(y)
        PROVE  1 - 1 + i = i
    BY <2>2
  <2> QED
    BY <2>1, <2>2, <2>3
<1>9. /\ v \in Seq(S) /\ Len(v) = r
      /\ \A i \in 1 .. Len(v) : w[c + i] = v[i]
  <2>1. /\ v \in Seq(S) /\ Len(v) = IF e <= Len(t) THEN Len(t) + 1 - e ELSE 0
        /\ \A i \in 1 .. Len(v) : v[i] = t[e - 1 + i]
    <3>1. e >= 1 /\ Len(t) <= Len(t)
      BY <1>1, <1>5
    <3> QED
      BY <1>1, <3>1, Part
  <2> HIDE DEF v
  <2>2. Len(v) = r /\ e - 1 = a + o
    BY <1>0, <1>4, <2>1
  <2>3. \A i \in 1 .. Len(v) : w[a + n + i] = t[a + o + i]
    BY <1>0, <2>2
  <2> QED
    BY <1>2, <2>1, <2>2, <2>3
<1> HIDE DEF u, x, y, v
<1>10. y = u \o x
  <2>1. u \in Seq(S) /\ x \in Seq(S) /\ y \in Seq(S)
    BY <1>6, <1>7, <1>8
  <2>2. Len(y) = Len(u) + Len(x)
    BY <1>2, <1>6, <1>7, <1>8
  <2>3. ASSUME NEW i \in 1 .. Len(u)
        PROVE  y[i] = u[i]
    <3>1. i \in 1 .. Len(y)
      BY <1>2, <1>6, <1>8
    <3> QED
      BY <1>6, <1>8, <3>1
  <2>4. ASSUME NEW i \in 1 .. Len(x)
        PROVE  y[Len(u) + i] = x[i]
    <3>1. a + i \in 1 .. Len(y)
      <4>1. i \in 1 .. n /\ Len(y) = a + n
        BY <1>2, <1>7, <1>8
      <4>2. a + i \in 1 .. a + n
        BY <4>1
      <4> QED
        BY <4>1, <4>2
    <3> QED
      BY <1>6, <1>7, <1>8, <3>1
  <2> QED
    BY <2>1, <2>2, <2>3, <2>4, Glued
<1>11. w = y \o v
  <2>1. y \in Seq(S) /\ v \in Seq(S)
    BY <1>8, <1>9
  <2>2. /\ Len(w) = Len(y) + Len(v)
        /\ \A i \in 1 .. Len(y) : w[i] = y[i]
        /\ \A i \in 1 .. Len(v) : w[Len(y) + i] = v[i]
    BY <1>5, <1>8, <1>9
  <2> QED
    BY <2>1, <2>2, Glued
<1> QED
  BY <1>2, <1>3, <1>4, <1>10, <1>11 DEF u, x, v
-----------------------------------------------------------------------------
(* Characters are added to a line.                                         *)

Buffer == [Pos -> Text \cup {Nul}]

\* Place p is within the line that ends before place e of buffer b.
Lined(b, p, e) ==
  /\ b \in Buffer /\ p \in Nat /\ e \in Nat
  /\ p <= e /\ e <= Size
  /\ \A i \in 0 .. e - 1 : b[i] \in Text

\* The line of b1 is that of b with n characters more at the cursor, or with n
\* characters overwritten.
Puts(b, p, e, b1, p1, e1, n) ==
  /\ p1 = p + n
  /\ \A i \in 0 .. p - 1 : b1[i] = b[i]
  /\ insert => e1 = e + n /\ \A i \in 0 .. e - p - 1 : b1[p1 + i] = b[p + i]
  /\ ~insert => /\ (e1 = e /\ p1 <= e) \/ (e1 = p1 /\ p1 >= e)
                /\ \A i \in p1 .. e - 1 : b1[i] = b[i]

\* cread_add_char does nothing, for lack of room, or puts one character at the cursor.
LEMMA OneChar ==
  ASSUME NEW b, NEW p \in Nat, NEW e \in Nat, Lined(b, p, e), NEW c \in Text, insert \in BOOLEAN,
         NEW l, l = [buf |-> b, num |-> p, eol |-> e]
  PROVE  \/ AddChar(l, c) = l
         \/ \E b1 \in Buffer, p1 \in Nat, e1 \in Nat :
              /\ AddChar(l, c) = [buf |-> b1, num |-> p1, eol |-> e1]
              /\ Lined(b1, p1, e1) /\ Puts(b, p, e, b1, p1, e1, 1)
<1>1. Size \in Nat /\ b \in Buffer /\ p <= e /\ e <= Size /\ \A i \in 0 .. e - 1 : b[i] \in Text
  BY SizeAssumption DEF Lined
<1>2. CASE insert /\ ~Full(e)
  <2> DEFINE moved == Move(b, p + 1, p, e - p)
             b1 == [moved EXCEPT ![p] = c]
  <2>1. e + 1 <= Size
    BY <1>1, <1>2 DEF Full
  <2>2. moved = [i \in Pos |-> IF i \in p + 1 .. e THEN b[i - 1] ELSE b[i]]
    <3>1. p + 1 + (e - p) - 1 = e
      OBVIOUS
    <3>2. \A i \in Pos : p + i - (p + 1) = i - 1
      BY DEF Pos
    <3> QED
      BY <3>1, <3>2 DEF Move
  <2> HIDE DEF moved
  <2>3. p \in Pos
    BY <1>1 DEF Pos
  <2>4. \A i \in Pos : b1[i] = IF i = p THEN c ELSE IF i \in p + 1 .. e THEN b[i - 1] ELSE b[i]
    BY <2>2, <2>3
  <2>5. b1 \in Buffer
    <3>1. \A i \in p + 1 .. e : b[i - 1] \in Text
      BY <1>1
    <3>2. \A i \in Pos : (IF i \in p + 1 .. e THEN b[i - 1] ELSE b[i]) \in Text \cup {Nul}
      BY <1>1, <3>1 DEF Buffer
    <3>3. moved \in Buffer
      BY <2>2, <3>2 DEF Buffer
    <3> QED
      BY <3>3 DEF Buffer
  <2> HIDE DEF b1
  <2>6. \A i \in 0 .. (e + 1) - 1 : b1[i] \in Text
    <3> SUFFICES ASSUME NEW i \in 0 .. e
                 PROVE  b1[i] \in Text
      OBVIOUS
    <3>1. i \in Pos
      BY <1>1, <2>1 DEF Pos
    <3>2. CASE i = p
      BY <2>4, <3>1, <3>2
    <3>3. CASE i < p
      BY <1>1, <2>4, <3>1, <3>3
    <3>4. CASE i > p
      <4>1. i \in p + 1 .. e /\ i - 1 \in 0 .. e - 1
        BY <3>4
      <4> QED
        BY <1>1, <2>4, <3>1, <3>4, <4>1
    <3> QED
      BY <3>2, <3>3, <3>4
  <2>7. Lined(b1, p + 1, e + 1)
    BY <1>1, <2>1, <2>5, <2>6 DEF Lined
  <2>8. Puts(b, p, e, b1, p + 1, e + 1, 1)
    <3>1. \A i \in 0 .. p - 1 : b1[i] = b[i]
      BY <1>1, <2>4 DEF Pos
    <3>2. ASSUME NEW i \in 0 .. e - p - 1
          PROVE  b1[(p + 1) + i] = b[p + i]
      <4>1. (p + 1) + i \in Pos /\ (p + 1) + i \in p + 1 .. e /\ (p + 1) + i # p /\ (p + 1) + i - 1 = p + i
        BY <1>1 DEF Pos
      <4> QED
        BY <2>4, <4>1
    <3> QED
      BY <1>2, <3>1, <3>2 DEF Puts
  <2>9. AddChar(l, c) = [buf |-> b1, num |-> p + 1, eol |-> e + 1]
    BY <1>2 DEF AddChar, b1, moved
  <2> DEFINE p1 == p + 1
             e1 == e + 1
  <2>10. p1 \in Nat /\ e1 \in Nat
    OBVIOUS
  <2>11. /\ AddChar(l, c) = [buf |-> b1, num |-> p1, eol |-> e1]
         /\ Lined(b1, p1, e1) /\ Puts(b, p, e, b1, p1, e1, 1)
    BY <2>7, <2>8, <2>9
  <2> HIDE DEF p1, e1
  <2> QED
    BY <2>5, <2>10, <2>11
<1>3. CASE ~insert /\ ~(p = e /\ Full(e))
  <2> DEFINE b1 == [b EXCEPT ![p] = c]
             e1 == IF p = e THEN e + 1 ELSE e
  <2>1. p \in Pos /\ e1 \in Nat /\ e1 <= Size /\ p + 1 <= e1
        /\ ((p = e /\ e1 = e + 1) \/ (p < e /\ e1 = e))
    BY <1>1, <1>3 DEF Full, Pos
  <2>2. b1 \in Buffer /\ \A i \in Pos : b1[i] = IF i = p THEN c ELSE b[i]
    BY <1>1 DEF Buffer
  <2>3. AddChar(l, c) = [buf |-> b1, num |-> p + 1, eol |-> e1]
    BY <1>3 DEF AddChar
  <2> HIDE DEF b1, e1
  <2>4. \A i \in 0 .. e1 - 1 : b1[i] \in Text
    <3> SUFFICES ASSUME NEW i \in 0 .. e1 - 1
                 PROVE  b1[i] \in Text
      OBVIOUS
    <3>1. i \in Pos /\ (i = p \/ i \in 0 .. e - 1)
      BY <1>1, <2>1 DEF Pos
    <3> QED
      BY <1>1, <2>2, <3>1
  <2>5. Lined(b1, p + 1, e1)
    BY <1>1, <2>1, <2>2, <2>4 DEF Lined
  <2>6. Puts(b, p, e, b1, p + 1, e1, 1)
    <3>1. \A i \in 0 .. p - 1 : b1[i] = b[i]
      BY <1>1, <2>2 DEF Pos
    <3>2. \A i \in p + 1 .. e - 1 : b1[i] = b[i]
      BY <1>1, <2>2 DEF Pos
    <3>3. (e1 = e /\ p + 1 <= e) \/ (e1 = p + 1 /\ p + 1 >= e)
      BY <2>1
    <3> QED
      BY <1>3, <3>1, <3>2, <3>3 DEF Puts
  <2> DEFINE p1 == p + 1
  <2>7. p1 \in Nat /\ e1 \in Nat
    BY <2>1
  <2>8. /\ AddChar(l, c) = [buf |-> b1, num |-> p1, eol |-> e1]
        /\ Lined(b1, p1, e1) /\ Puts(b, p, e, b1, p1, e1, 1)
    BY <2>3, <2>5, <2>6
  <2> HIDE DEF p1
  <2> QED
    BY <2>2, <2>7, <2>8
<1>4. CASE (insert \/ p = e) /\ Full(e)
  BY <1>4 DEF AddChar
<1> QED
  BY <1>2, <1>3, <1>4

\* One character after n is n + 1 characters at the place of the first.
LEMMA PutsMore ==
  ASSUME NEW b, NEW p \in Nat, NEW e \in Nat, p <= e,
         NEW b1, NEW p1 \in Nat, NEW e1 \in Nat, p1 <= e1,
         NEW b2, NEW p2 \in Nat, NEW e2 \in Nat, NEW n \in Nat, insert \in BOOLEAN,
         Puts(b, p, e, b1, p1, e1, n), Puts(b1, p1, e1, b2, p2, e2, 1)
  PROVE  Puts(b, p, e, b2, p2, e2, n + 1)
<1>1. p1 = p + n /\ p2 = p1 + 1 /\ p2 = p + (n + 1)
  BY DEF Puts
<1>2. \A i \in 0 .. p - 1 : b2[i] = b[i]
  <2> SUFFICES ASSUME NEW i \in 0 .. p - 1
               PROVE  b2[i] = b[i]
    OBVIOUS
  <2>1. i \in 0 .. p1 - 1
    BY <1>1
  <2> QED
    BY <2>1 DEF Puts
<1>3. CASE insert
  <2>1. e1 = e + n /\ e2 = e1 + 1
    BY <1>3 DEF Puts
  <2>2. ASSUME NEW i \in 0 .. e - p - 1
        PROVE  b2[p2 + i] = b[p + i]
    <3>1. i \in 0 .. e1 - p1 - 1
      BY <1>1, <2>1
    <3> QED
      BY <1>3, <3>1 DEF Puts
  <2> QED
    BY <1>1, <1>2, <1>3, <2>1, <2>2 DEF Puts
<1>4. CASE ~insert
  <2>1. /\ (e1 = e /\ p1 <= e) \/ (e1 = p1 /\ p1 >= e)
        /\ (e2 = e1 /\ p2 <= e1) \/ (e2 = p2 /\ p2 >= e1)
    BY <1>4 DEF Puts
  <2>2. ASSUME NEW i \in p2 .. e - 1
        PROVE  b2[i] = b[i]
    <3>1. i \in p2 .. e1 - 1 /\ i \in p1 .. e - 1
      BY <1>1, <2>1
    <3> QED
      BY <1>4, <3>1 DEF Puts
  <2>3. (e2 = e /\ p2 <= e) \/ (e2 = p2 /\ p2 >= e)
    BY <1>1, <2>1
  <2> QED
    BY <1>1, <1>2, <1>4, <2>2, <2>3 DEF Puts
<1> QED
  BY <1>3, <1>4

\* l is the line after at most j characters have been added to it.
Reached(l, j) ==
  \E b1 \in Buffer, p1 \in Nat, e1 \in Nat, n \in 0 .. j :
    /\ l = [buf |-> b1, num |-> p1, eol |-> e1]
    /\ Lined(b1, p1, e1) /\ Puts(buf, num, eol, b1, p1, e1, n)

\* Added up over the characters of a string, as cread_add_str does.
LEMMA OneMore ==
  ASSUME Lined(buf, num, eol), insert \in BOOLEAN, NEW j \in Nat, NEW l, Reached(l, j), NEW c \in Text
  PROVE  Reached(AddChar(l, c), j + 1)
<1>1. PICK b1 \in Buffer, p1 \in Nat, e1 \in Nat, n \in 0 .. j :
        /\ l = [buf |-> b1, num |-> p1, eol |-> e1]
        /\ Lined(b1, p1, e1) /\ Puts(buf, num, eol, b1, p1, e1, n)
  BY DEF Reached
<1>2. CASE AddChar(l, c) = l
  <2>1. n \in 0 .. j + 1
    OBVIOUS
  <2> QED
    BY <1>1, <1>2, <2>1 DEF Reached
<1>3. CASE AddChar(l, c) # l
  <2>1. PICK b2 \in Buffer, p2 \in Nat, e2 \in Nat :
          /\ AddChar(l, c) = [buf |-> b2, num |-> p2, eol |-> e2]
          /\ Lined(b2, p2, e2) /\ Puts(b1, p1, e1, b2, p2, e2, 1)
    BY <1>1, <1>3, OneChar
  <2>2. num \in Nat /\ eol \in Nat /\ num <= eol /\ p1 <= e1 /\ n \in Nat
    BY <1>1 DEF Lined
  <2>3. Puts(buf, num, eol, b2, p2, e2, n + 1)
    BY <1>1, <2>1, <2>2, PutsMore
  <2>4. n + 1 \in 0 .. j + 1
    OBVIOUS
  <2> QED
    BY <2>1, <2>3, <2>4 DEF Reached
<1> QED
  BY <1>2, <1>3

LEMMA NoneYet ==
  ASSUME Lined(buf, num, eol)
  PROVE  Reached([buf |-> buf, num |-> num, eol |-> eol], 0)
<1>1. num \in Nat /\ eol \in Nat /\ num <= eol /\ 0 \in 0 .. 0
  BY DEF Lined
<1>2. num = num + 0 /\ eol = eol + 0
  BY <1>1
<1>3. Puts(buf, num, eol, buf, num, eol, 0)
  BY <1>1, <1>2, Zenon DEF Puts
<1> QED
  BY <1>1, <1>3 DEF Reached, Lined

\* A string of up to four characters, the longest that a broken escape sequence leaves.
LEMMA Adding ==
  ASSUME Lined(buf, num, eol), insert \in BOOLEAN,
         NEW s, Len(s) \in 1 .. 4, \A i \in 1 .. Len(s) : s[i] \in Text
  PROVE  Reached(Added(s)[Len(s)], Len(s))
<1> DEFINE base == [buf |-> buf, num |-> num, eol |-> eol]
           P(f) == f = [n \in 0 .. Len(s) |-> IF n = 0 THEN base ELSE AddChar(f[n - 1], s[n])]
           one == AddChar(base, s[1])
           two == AddChar(one, s[2])
           three == AddChar(two, s[3])
           g == [n \in 0 .. Len(s) |->
                  IF n = 0 THEN base ELSE IF n = 1 THEN one ELSE IF n = 2 THEN two
                  ELSE IF n = 3 THEN three ELSE AddChar(three, s[4])]
<1>1. Added(s) = CHOOSE f : P(f)
  BY Zenon DEF Added
<1>2. P(g)
  OBVIOUS
<1>3. P(Added(s))
  BY <1>1, <1>2
<1> DEFINE f == Added(s)
<1> HIDE DEF f, base
<1>4. /\ f[0] = base
      /\ \A n \in 1 .. Len(s) : f[n] = AddChar(f[n - 1], s[n])
  BY <1>3 DEF f
<1>5. Reached(f[0], 0)
  BY <1>4, NoneYet DEF base
<1>6. Reached(f[1], 1)
  <2>1. f[1] = AddChar(f[0], s[1]) /\ s[1] \in Text
    BY <1>4
  <2> QED
    BY <1>5, <2>1, OneMore
<1>7. Len(s) >= 2 => Reached(f[2], 2)
  <2>1. Len(s) >= 2 => f[2] = AddChar(f[1], s[2]) /\ s[2] \in Text
    BY <1>4
  <2> QED
    BY <1>6, <2>1, OneMore
<1>8. Len(s) >= 3 => Reached(f[3], 3)
  <2>1. Len(s) >= 3 => f[3] = AddChar(f[2], s[3]) /\ s[3] \in Text
    BY <1>4
  <2> QED
    BY <1>7, <2>1, OneMore
<1>9. Len(s) >= 4 => Reached(f[4], 4)
  <2>1. Len(s) >= 4 => f[4] = AddChar(f[3], s[4]) /\ s[4] \in Text
    BY <1>4
  <2> QED
    BY <1>8, <2>1, OneMore
<1>10. Len(s) \in {1, 2, 3, 4}
  OBVIOUS
<1>11. Reached(f[Len(s)], Len(s))
  <2>1. CASE Len(s) = 1
    BY <1>6, <2>1
  <2>2. CASE Len(s) = 2
    BY <1>7, <2>2
  <2>3. CASE Len(s) = 3
    BY <1>8, <2>3
  <2>4. CASE Len(s) = 4
    BY <1>9, <2>4
  <2> QED
    BY <1>10, <2>1, <2>2, <2>3, <2>4
<1> QED
  BY <1>11 DEF f
-----------------------------------------------------------------------------
(* The text that a line shows.                                             *)

Show(b, e) == [i \in 1 .. e |-> b[i - 1]]

\* The buffer as a text.
LEMMA Showing ==
  ASSUME NEW b, NEW e \in Nat, \A i \in 0 .. e - 1 : b[i] \in Text
  PROVE  /\ Show(b, e) \in Seq(Text) /\ Len(Show(b, e)) = e
         /\ \A i \in 1 .. e : Show(b, e)[i] = b[i - 1]
<1>1. \A i \in 1 .. e : b[i - 1] \in Text
  OBVIOUS
<1>2. Show(b, e) \in [1 .. e -> Text] /\ \A i \in 1 .. e : Show(b, e)[i] = b[i - 1]
  BY <1>1 DEF Show
<1>3. Show(b, e) \in Seq(Text)
  BY <1>2, SeqDef
<1> QED
  BY <1>2, <1>3, LenProperties

\* The texts t and w before and after n characters have been put into the line, over o.
Shows(b, p, e, b1, p1, e1, n, o, t, w) ==
  /\ Lined(b, p, e) /\ Lined(b1, p1, e1) /\ Puts(b, p, e, b1, p1, e1, n)
  /\ t = Show(b, e) /\ w = Show(b1, e1) /\ o = IF insert THEN 0 ELSE n

\* What has become of the text.
Grown(p, p1, n, o, t, w) ==
  /\ p1 = p + n /\ Len(w) >= p1 /\ Len(w) <= Size
  /\ w = (SubSeq(t, 1, p) \o SubSeq(w, p + 1, p + n)) \o SubSeq(t, p + 1 + o, Len(t))
  /\ n = 0 => w = t

\* Putting characters into the buffer puts them into the text.
LEMMA PutsText ==
  ASSUME NEW b, NEW p \in Nat, NEW e \in Nat, NEW b1, NEW p1 \in Nat, NEW e1 \in Nat,
         NEW n \in Nat, NEW o \in Nat, NEW t, NEW w,
         insert \in BOOLEAN, Shows(b, p, e, b1, p1, e1, n, o, t, w)
  PROVE  Grown(p, p1, n, o, t, w)
<1>0. /\ Lined(b, p, e) /\ Lined(b1, p1, e1) /\ Puts(b, p, e, b1, p1, e1, n)
      /\ t = Show(b, e) /\ w = Show(b1, e1) /\ o = IF insert THEN 0 ELSE n
  BY DEF Shows
<1>1. t \in Seq(Text) /\ Len(t) = e /\ \A i \in 1 .. e : t[i] = b[i - 1]
  BY <1>0, Showing DEF Lined
<1>2. w \in Seq(Text) /\ Len(w) = e1 /\ \A i \in 1 .. e1 : w[i] = b1[i - 1]
  BY <1>0, Showing DEF Lined
<1>3. p <= e /\ p1 <= e1 /\ e1 <= Size /\ p1 = p + n /\ \A i \in 0 .. p - 1 : b1[i] = b[i]
  BY <1>0 DEF Lined, Puts
<1>4. ASSUME NEW i \in 1 .. p
      PROVE  w[i] = t[i]
  <2>1. i - 1 \in 0 .. p - 1 /\ i \in 1 .. e /\ i \in 1 .. e1
    BY <1>3
  <2> QED
    BY <1>1, <1>2, <1>3, <2>1
<1>5. PICK r \in Nat :
        /\ Len(w) = p + n + r
        /\ (r = 0 /\ p + o >= e) \/ p + o + r = e
        /\ \A i \in 1 .. r : w[p + n + i] = t[p + o + i]
  <2>1. CASE insert
    <3>1. e1 = e + n /\ o = 0 /\ \A i \in 0 .. e - p - 1 : b1[p1 + i] = b[p + i]
      BY <1>0, <2>1 DEF Puts
    <3>2. PICK r \in Nat : r = e - p
      BY <1>3
    <3>3. Len(w) = p + n + r /\ p + o + r = e
      BY <1>2, <3>1, <3>2
    <3>4. ASSUME NEW i \in 1 .. r
          PROVE  w[p + n + i] = t[p + o + i]
      <4>1. /\ i - 1 \in 0 .. e - p - 1
            /\ p + n + i \in 1 .. e1 /\ p + n + i - 1 = p1 + (i - 1)
            /\ p + o + i \in 1 .. e /\ p + o + i - 1 = p + (i - 1)
        BY <1>3, <3>1, <3>2
      <4>2. PICK x \in Nat, y \in Nat : x = p + n + i /\ y = p + o + i
        OBVIOUS
      <4>3. x \in 1 .. e1 /\ y \in 1 .. e /\ x - 1 = p1 + (i - 1) /\ y - 1 = p + (i - 1)
        BY <4>1, <4>2
      <4>4. w[x] = b1[x - 1] /\ t[y] = b[y - 1]
        BY <1>1, <1>2, <4>3
      <4>5. b1[x - 1] = b[y - 1]
        BY <3>1, <4>1, <4>3
      <4> QED
        BY <4>2, <4>4, <4>5
    <3> QED
      BY <3>3, <3>4
  <2>2. CASE ~insert
    <3>1. /\ (e1 = e /\ p1 <= e) \/ (e1 = p1 /\ p1 >= e)
          /\ o = n /\ \A i \in p1 .. e - 1 : b1[i] = b[i]
      BY <1>0, <2>2 DEF Puts
    <3>2. PICK r \in Nat : (p1 <= e /\ r = e - p1) \/ (p1 >= e /\ r = 0)
      <4>1. CASE p1 <= e
        <5>1. e - p1 \in Nat
          BY <4>1
        <5> QED
          BY <4>1, <5>1
      <4>2. CASE p1 > e
        BY <4>2
      <4> QED
        BY <4>1, <4>2
    <3>3. Len(w) = p + n + r /\ ((r = 0 /\ p + o >= e) \/ p + o + r = e)
      <4>1. PICK z \in Nat : z = p + n
        OBVIOUS
      <4>2. p1 = z /\ p + o = z /\ Len(w) = e1
        BY <1>2, <1>3, <3>1, <4>1
      <4>3. e1 = z + r /\ ((r = 0 /\ z >= e) \/ z + r = e)
        BY <3>1, <3>2, <4>2
      <4> QED
        BY <4>1, <4>2, <4>3
    <3>4. ASSUME NEW i \in 1 .. r
          PROVE  w[p + n + i] = t[p + o + i]
      <4>1. /\ p1 + i - 1 \in p1 .. e - 1 /\ p1 + i \in 1 .. e1 /\ p1 + i \in 1 .. e
            /\ p + n + i = p1 + i /\ p + o + i = p1 + i
        BY <1>3, <3>1, <3>2
      <4>2. PICK x \in Nat : x = p1 + i
        OBVIOUS
      <4>3. /\ x - 1 \in p1 .. e - 1 /\ x \in 1 .. e1 /\ x \in 1 .. e
            /\ p + n + i = x /\ p + o + i = x
        BY <4>1, <4>2
      <4>4. w[x] = b1[x - 1] /\ t[x] = b[x - 1] /\ b1[x - 1] = b[x - 1]
        BY <1>1, <1>2, <3>1, <4>3
      <4> QED
        BY <4>3, <4>4
    <3> QED
      BY <3>3, <3>4
  <2> QED
    BY <2>1, <2>2
<1>6. w = (SubSeq(t, 1, p) \o SubSeq(w, p + 1, p + n)) \o SubSeq(t, p + 1 + o, Len(t))
  <2>1. Spliced(t, w, p, n, o, r, e)
    BY <1>1, <1>3, <1>4, <1>5 DEF Spliced
  <2>2. t \in Seq(Text) /\ w \in Seq(Text)
    BY <1>1, <1>2
  <2> QED
    BY <2>1, <2>2, Pieces
<1>7. n = 0 => w = t
  <2> SUFFICES ASSUME n = 0
               PROVE  w = t
    OBVIOUS
  <2>1. o = 0 /\ Len(w) = Len(t)
    <3>1. o = 0
      BY <1>0
    <3> QED
      BY <1>1, <1>3, <1>5, <3>1
  <2>2. ASSUME NEW i \in 1 .. Len(w)
        PROVE  w[i] = t[i]
    <3>1. CASE i <= p
      BY <1>2, <1>4, <3>1
    <3>2. CASE i > p
      <4>1. i - p \in 1 .. r /\ p + n + (i - p) = i /\ p + o + (i - p) = i
        BY <1>2, <1>5, <2>1, <3>2
      <4> QED
        BY <1>5, <4>1
    <3> QED
      BY <1>2, <3>1, <3>2
  <2> QED
    BY <1>1, <1>2, <2>1, <2>2, SeqEqual
<1> QED
  BY <1>2, <1>3, <1>6, <1>7 DEF Grown

\* One character is taken out of the line, that at place a.
Without(b, b1, e, a) ==
  /\ a < e /\ \A i \in 0 .. e - 1 : b[i] \in Text
  /\ \A i \in 0 .. a - 1 : b1[i] = b[i]
  /\ \A i \in a .. e - 2 : b1[i] = b[i + 1]

\* A character moved out of the buffer is cut out of the text.
LEMMA Removed ==
  ASSUME NEW b, NEW b1, NEW e \in Nat, NEW a \in Nat, Without(b, b1, e, a)
  PROVE  /\ \A i \in 0 .. e - 2 : b1[i] \in Text
         /\ LET t == Show(b, e)
            IN Show(b1, e - 1) = SubSeq(t, 1, a) \o SubSeq(t, a + 2, Len(t))
<1>0. /\ a < e /\ \A i \in 0 .. e - 1 : b[i] \in Text
      /\ \A i \in 0 .. a - 1 : b1[i] = b[i]
      /\ \A i \in a .. e - 2 : b1[i] = b[i + 1]
  BY DEF Without
<1>1. \A i \in 0 .. e - 2 : b1[i] \in Text
  <2> SUFFICES ASSUME NEW i \in 0 .. e - 2
               PROVE  b1[i] \in Text
    OBVIOUS
  <2>1. CASE i < a
    BY <1>0, <2>1
  <2>2. CASE i >= a
    <3>1. i \in a .. e - 2 /\ i + 1 \in 0 .. e - 1
      BY <2>2
    <3> QED
      BY <1>0, <3>1
  <2> QED
    BY <2>1, <2>2
<1> DEFINE t == Show(b, e)
<1>2. PICK d \in Nat : d = e - 1
  BY <1>0
<1> DEFINE w == Show(b1, d)
<1>3. t \in Seq(Text) /\ Len(t) = e /\ \A i \in 1 .. e : t[i] = b[i - 1]
  BY <1>0, Showing
<1>4. w \in Seq(Text) /\ Len(w) = d /\ \A i \in 1 .. d : w[i] = b1[i - 1]
  BY <1>1, <1>2, Showing
<1> HIDE DEF t, w
<1>5. ASSUME NEW i \in 1 .. a
      PROVE  w[i] = t[i]
  <2>1. i \in 1 .. d /\ i \in 1 .. e /\ i - 1 \in 0 .. a - 1
    BY <1>0, <1>2
  <2> QED
    BY <1>0, <1>3, <1>4, <2>1
<1>6. PICK c \in Nat : c = a + 2
  OBVIOUS
<1>7. ASSUME NEW i \in 1 .. e + 1 - c
      PROVE  w[a + i] = t[c - 1 + i]
  <2>1. /\ a + i \in 1 .. d /\ a + i - 1 \in a .. e - 2
        /\ c - 1 + i \in 1 .. e /\ c - 1 + i - 1 = a + i - 1 + 1
    BY <1>2, <1>6
  <2>2. PICK x \in Nat, y \in Nat : x = a + i /\ y = c - 1 + i
    BY <1>6
  <2>3. x \in 1 .. d /\ y \in 1 .. e /\ x - 1 \in a .. e - 2 /\ y - 1 = (x - 1) + 1
    BY <2>1, <2>2
  <2>4. w[x] = b1[x - 1] /\ t[y] = b[y - 1]
    BY <1>3, <1>4, <2>3
  <2>5. b1[x - 1] = b[(x - 1) + 1]
    BY <1>0, <2>3
  <2> QED
    BY <2>2, <2>3, <2>4, <2>5
<1>8. w = SubSeq(t, 1, a) \o SubSeq(t, c, Len(t))
  <2>1. a <= Len(t) /\ c > a /\ c <= Len(t) + 1 /\ Len(w) = a + (Len(t) + 1 - c)
    BY <1>0, <1>2, <1>3, <1>4, <1>6
  <2>2. \A i \in 1 .. Len(t) + 1 - c : w[a + i] = t[c - 1 + i]
    BY <1>3, <1>7
  <2>3. t \in Seq(Text) /\ w \in Seq(Text)
    BY <1>3, <1>4
  <2>4. Cutting(t, w, a, c)
    BY <1>5, <2>1, <2>2 DEF Cutting
  <2> QED
    BY <2>3, <2>4, Cut
<1> QED
  BY <1>1, <1>2, <1>6, <1>8 DEF t, w
-----------------------------------------------------------------------------
(* What the keys do.                                                       *)

LineOK == Lined(buf, num, eol)

\* What is known of the line between two keys.
LEMMA ShownText ==
  ASSUME LineOK
  PROVE  /\ Shown = Show(buf, eol) /\ Shown \in Seq(Text) /\ Len(Shown) = eol
         /\ num \in Nat /\ eol \in Nat /\ num <= eol /\ eol <= Size /\ buf \in Buffer
         /\ \A i \in 0 .. eol - 1 : buf[i] \in Text
         /\ \A i \in 1 .. eol : Shown[i] = buf[i - 1]
<1>1. /\ num \in Nat /\ eol \in Nat /\ num <= eol /\ eol <= Size /\ buf \in Buffer
      /\ \A i \in 0 .. eol - 1 : buf[i] \in Text
  BY DEF LineOK, Lined
<1>2. Shown = Show(buf, eol)
  BY DEF Shown, Show
<1> QED
  BY <1>1, <1>2, Showing

\* The operations of the editor, each a step of the promise or no change of the text.
LEMMA Adds ==
  ASSUME LineOK, insert \in BOOLEAN, NEW s, Len(s) \in 1 .. 4,
         \A i \in 1 .. Len(s) : s[i] \in Text, AddStr(s)
  PROVE  LineOK' /\ (Promise!Insert \/ Promise!Overwrite \/ UNCHANGED <<Shown, num>>)
<1>1. Reached(Added(s)[Len(s)], Len(s))
  BY Adding DEF LineOK
<1>2. PICK b1 \in Buffer, p1 \in Nat, e1 \in Nat, n \in 0 .. Len(s) :
        /\ Added(s)[Len(s)] = [buf |-> b1, num |-> p1, eol |-> e1]
        /\ Lined(b1, p1, e1) /\ Puts(buf, num, eol, b1, p1, e1, n)
  BY <1>1 DEF Reached
<1>3. buf' = b1 /\ num' = p1 /\ eol' = e1
  BY <1>2 DEF AddStr
<1>4. LineOK'
  BY <1>2, <1>3 DEF LineOK
<1>5. PICK o \in Nat : o = IF insert THEN 0 ELSE n
  BY <1>2
<1> DEFINE t == Shown
           w == Shown'
<1>6. t = Show(buf, eol) /\ w = Show(b1, e1)
  BY <1>3 DEF Shown, Show
<1>7. num \in Nat /\ eol \in Nat /\ Lined(buf, num, eol) /\ n \in Nat
  BY ShownText DEF LineOK
<1> HIDE DEF t, w
<1>8. /\ p1 = num + n /\ Len(w) >= p1 /\ Len(w) <= Size
      /\ w = (SubSeq(t, 1, num) \o SubSeq(w, num + 1, num + n)) \o SubSeq(t, num + 1 + o, Len(t))
      /\ n = 0 => w = t
  <2>1. Shows(buf, num, eol, b1, p1, e1, n, o, t, w)
    BY <1>2, <1>5, <1>6, <1>7 DEF Shows
  <2>2. PICK p \in Nat, e \in Nat : p = num /\ e = eol
    BY <1>7
  <2>3. Shows(buf, p, e, b1, p1, e1, n, o, t, w)
    BY <2>1, <2>2
  <2>4. n \in Nat /\ o \in Nat
    BY <1>7
  <2>5. Grown(p, p1, n, o, t, w)
    BY <2>3, <2>4, PutsText
  <2> QED
    BY <2>2, <2>5, Zenon DEF Grown
<1>9. CASE n = 0
  <2>1. p1 = num
    BY <1>7, <1>8, <1>9
  <2> QED
    BY <1>3, <1>4, <1>8, <1>9, <2>1 DEF t, w
<1>10. CASE n # 0
  <2>1. n \in 1 .. 4
    BY <1>10
  <2>2. Promise!Put(n, o)
    BY <1>3, <1>8, Zenon DEF Promise!Put, Promise!Before, Promise!From, t, w
  <2>3. CASE insert
    <3>1. o = 0
      BY <1>5, <2>3
    <3> QED
      BY <1>4, <2>1, <2>2, <3>1 DEF Promise!Insert
  <2>4. CASE ~insert
    <3>1. o = n
      BY <1>5, <2>4
    <3> QED
      BY <1>4, <2>1, <2>2, <3>1 DEF Promise!Overwrite
  <2> QED
    BY <2>3, <2>4
<1> QED
  BY <1>9, <1>10

LEMMA Moves ==
  ASSUME LineOK, Home \/ End \/ (num > 0 /\ Left) \/ (num < eol /\ Right)
  PROVE  LineOK' /\ Promise!MoveCaret
<1>1. num \in Nat /\ eol \in Nat /\ num <= eol /\ Len(Shown) = eol
  BY ShownText
<1>2. UNCHANGED <<buf, eol>> /\ num' \in {num - 1, num + 1, 0, eol} /\ num' \in 0 .. eol
  BY <1>1 DEF Home, End, Left, Right
<1>3. UNCHANGED Shown
  BY <1>2 DEF Shown
<1>4. LineOK'
  BY <1>1, <1>2 DEF LineOK, Lined
<1> QED
  BY <1>1, <1>2, <1>3, <1>4 DEF Promise!MoveCaret

LEMMA Deletes ==
  ASSUME LineOK, num < eol, Delete
  PROVE  LineOK' /\ Promise!DeleteRight
<1>1. /\ num \in Nat /\ eol \in Nat /\ num <= eol /\ eol <= Size /\ buf \in Buffer /\ Size \in Nat
      /\ \A i \in 0 .. eol - 1 : buf[i] \in Text
      /\ Shown = Show(buf, eol)
  BY ShownText, SizeAssumption
<1>2. PICK d \in Nat : d = eol - 1 /\ num <= d
  BY <1>1
<1> DEFINE b1 == Move(buf, num, num + 1, eol - num - 1)
<1>3. buf' = b1 /\ eol' = d /\ num' = num
  BY <1>2 DEF Delete
<1>4. b1 = [i \in Pos |-> IF i \in num .. eol - 2 THEN buf[i + 1] ELSE buf[i]]
  <2>1. num + (eol - num - 1) - 1 = eol - 2
    BY <1>1
  <2>2. \A i \in Pos : num + 1 + i - num = i + 1
    BY <1>1 DEF Pos
  <2> QED
    BY <2>1, <2>2 DEF Move
<1> HIDE DEF b1
<1>5. \A i \in 0 .. num - 1 : b1[i] = buf[i]
  BY <1>1, <1>4 DEF Pos
<1>6. \A i \in num .. eol - 2 : b1[i] = buf[i + 1]
  BY <1>1, <1>4 DEF Pos
<1>7. /\ \A i \in 0 .. eol - 2 : b1[i] \in Text
      /\ LET t == Show(buf, eol)
         IN Show(b1, eol - 1) = SubSeq(t, 1, num) \o SubSeq(t, num + 2, Len(t))
  <2>1. Without(buf, b1, eol, num)
    BY <1>1, <1>5, <1>6 DEF Without
  <2> QED
    BY <1>1, <2>1, Removed
<1>8. b1 \in Buffer
  <2>1. \A i \in num .. eol - 2 : buf[i + 1] \in Text
    BY <1>1
  <2> QED
    BY <1>1, <1>4, <2>1 DEF Buffer
<1>9. LineOK'
  <2>1. Lined(b1, num, d)
    BY <1>1, <1>2, <1>7, <1>8 DEF Lined
  <2> QED
    BY <1>3, <2>1 DEF LineOK
<1>10. Shown' = SubSeq(Shown, 1, num) \o SubSeq(Shown, num + 2, Len(Shown))
  <2>1. Shown' = Show(b1, d)
    BY <1>3 DEF Shown, Show
  <2> QED
    BY <1>1, <1>2, <1>7, <2>1
<1> QED
  BY <1>3, <1>9, <1>10 DEF Promise!DeleteRight, Promise!Before, Promise!From

LEMMA RubsOut ==
  ASSUME LineOK, num > 0, Rubout
  PROVE  LineOK' /\ Promise!DeleteLeft
<1>1. /\ num \in Nat /\ eol \in Nat /\ num <= eol /\ eol <= Size /\ buf \in Buffer /\ Size \in Nat
      /\ \A i \in 0 .. eol - 1 : buf[i] \in Text
      /\ Shown = Show(buf, eol)
  BY ShownText, SizeAssumption
<1>2. PICK d \in Nat : d = eol - 1
  BY <1>1
<1>3. PICK a \in Nat : a = num - 1 /\ a <= d /\ a < eol
  BY <1>1, <1>2
<1> DEFINE b1 == Move(buf, num - 1, num, Following)
<1>4. buf' = b1 /\ eol' = d /\ num' = a
  BY <1>2, <1>3 DEF Rubout
<1>5. b1 = [i \in Pos |-> IF i \in a .. eol - 2 THEN buf[i + 1] ELSE buf[i]]
  <2>1. (num - 1) + (eol - num) - 1 = eol - 2 /\ num - 1 = a
    BY <1>1, <1>3
  <2>2. \A i \in Pos : num + i - (num - 1) = i + 1
    BY <1>1 DEF Pos
  <2> QED
    BY <2>1, <2>2 DEF Move, Following
<1> HIDE DEF b1
<1>6. \A i \in 0 .. a - 1 : b1[i] = buf[i]
  BY <1>1, <1>3, <1>5 DEF Pos
<1>7. \A i \in a .. eol - 2 : b1[i] = buf[i + 1]
  BY <1>1, <1>3, <1>5 DEF Pos
<1>8. /\ \A i \in 0 .. eol - 2 : b1[i] \in Text
      /\ LET t == Show(buf, eol)
         IN Show(b1, eol - 1) = SubSeq(t, 1, a) \o SubSeq(t, a + 2, Len(t))
  <2>1. Without(buf, b1, eol, a)
    BY <1>1, <1>3, <1>6, <1>7 DEF Without
  <2>2. eol \in Nat /\ a \in Nat
    BY <1>1, <1>3
  <2> QED
    BY <2>1, <2>2, Removed
<1>9. b1 \in Buffer
  <2>1. \A i \in a .. eol - 2 : buf[i + 1] \in Text
    BY <1>1
  <2> QED
    BY <1>1, <1>5, <2>1 DEF Buffer
<1>10. LineOK'
  <2>1. Lined(b1, a, d)
    BY <1>1, <1>2, <1>3, <1>8, <1>9 DEF Lined
  <2> QED
    BY <1>4, <2>1 DEF LineOK
<1>11. Shown' = SubSeq(Shown, 1, num - 1) \o SubSeq(Shown, num + 1, Len(Shown))
  <2>1. Shown' = Show(b1, d)
    BY <1>4 DEF Shown, Show
  <2>2. a = num - 1 /\ a + 2 = num + 1
    BY <1>1, <1>3
  <2> QED
    BY <1>1, <1>2, <1>8, <2>1, <2>2
<1>12. num' = num - 1
  BY <1>3, <1>4
<1> QED
  BY <1>10, <1>11, <1>12 DEF Promise!DeleteLeft, Promise!From

\* A buffer that begins with t shows t.
LEMMA ShowsAs ==
  ASSUME NEW b, NEW t \in Seq(Text), NEW m \in Nat, Len(t) = m,
         \A i \in 1 .. m : b[i - 1] = t[i]
  PROVE  Show(b, m) = t /\ \A i \in 0 .. m - 1 : b[i] \in Text
<1>1. \A i \in 1 .. m : t[i] \in Text
  BY ElementOfSeq
<1>2. ASSUME NEW i \in 0 .. m - 1
      PROVE  b[i] \in Text
  <2>1. i + 1 \in 1 .. m /\ (i + 1) - 1 = i
    OBVIOUS
  <2>2. b[(i + 1) - 1] = t[i + 1]
    BY <2>1
  <2> QED
    BY <1>1, <2>1, <2>2
<1>3. /\ Show(b, m) \in Seq(Text) /\ Len(Show(b, m)) = m
      /\ \A i \in 1 .. m : Show(b, m)[i] = b[i - 1]
  BY <1>2, Showing
<1>4. Show(b, m) = t
  BY <1>3, SeqEqual
<1> QED
  BY <1>2, <1>4

LEMMA Kills ==
  ASSUME LineOK, num < eol, Kill
  PROVE  LineOK' /\ Promise!Kill
<1>1. /\ num \in Nat /\ eol \in Nat /\ eol <= Size /\ buf \in Buffer
      /\ \A i \in 0 .. eol - 1 : buf[i] \in Text
      /\ Shown \in Seq(Text) /\ Len(Shown) = eol /\ \A i \in 1 .. eol : Shown[i] = buf[i - 1]
  BY ShownText
<1>2. PICK p \in Nat, e \in Nat : p = num /\ e = eol /\ p < e
  BY <1>1
<1> DEFINE t == Shown
           u == SubSeq(t, 1, p)
<1>3. t \in Seq(Text) /\ Len(t) = e /\ \A i \in 1 .. e : t[i] = buf[i - 1]
  BY <1>1, <1>2
<1> HIDE DEF t
<1>4. /\ u \in Seq(Text) /\ Len(u) = IF 1 <= p THEN p + 1 - 1 ELSE 0
      /\ \A i \in 1 .. Len(u) : u[i] = t[1 - 1 + i]
  BY <1>2, <1>3, Part
<1> HIDE DEF u
<1>5. Len(u) = p
  BY <1>4
<1>6. ASSUME NEW i \in 1 .. p
      PROVE  buf[i - 1] = u[i]
  <2>1. i \in 1 .. e /\ 1 - 1 + i = i
    BY <1>2
  <2> QED
    BY <1>3, <1>4, <1>5, <2>1
<1>7. Show(buf, p) = u
  BY <1>4, <1>5, <1>6, ShowsAs
<1>8. Shown' = Show(buf, p) /\ num' = num /\ eol' = p /\ buf' = buf
  BY <1>2 DEF Kill, Shown, Show
<1>9. Lined(buf, p, p)
  <2>1. e <= Size /\ buf \in Buffer /\ \A i \in 0 .. e - 1 : buf[i] \in Text
    BY <1>1, <1>2
  <2>2. p <= Size /\ \A i \in 0 .. p - 1 : buf[i] \in Text
    BY <1>2, <2>1, SizeAssumption
  <2> QED
    BY <2>1, <2>2 DEF Lined
<1>10. LineOK'
  BY <1>2, <1>8, <1>9 DEF LineOK
<1>11. Shown' = SubSeq(Shown, 1, num)
  BY <1>2, <1>7, <1>8 DEF u, t
<1> QED
  BY <1>8, <1>10, <1>11 DEF Promise!Kill, Promise!Before

LEMMA ShowsNothing ==
  ASSUME NEW b
  PROVE  Show(b, 0) = <<>>
<1>1. <<>> \in Seq(Text) /\ Len(<<>>) = 0 /\ \A i \in 1 .. 0 : b[i - 1] = <<>>[i]
  OBVIOUS
<1> DEFINE t == <<>>
<1>2. t \in Seq(Text) /\ 0 \in Nat /\ Len(t) = 0 /\ \A i \in 1 .. 0 : b[i - 1] = t[i]
  BY <1>1
<1> HIDE DEF t
<1>3. Show(b, 0) = t
  BY <1>2, ShowsAs
<1> QED
  BY <1>3 DEF t

LEMMA Erases ==
  ASSUME LineOK, Erase
  PROVE  LineOK' /\ Promise!Replace
<1>1. num' = 0 /\ eol' = 0 /\ buf' = buf /\ buf \in Buffer /\ 0 <= Size
  BY SizeAssumption DEF Erase, LineOK, Lined
<1>2. Lined(buf, 0, 0)
  BY <1>1 DEF Lined
<1>3. LineOK'
  BY <1>1, <1>2 DEF LineOK
<1>4. Shown' = <<>>
  <2>1. Shown' = Show(buf, 0)
    BY <1>1 DEF Shown, Show
  <2> QED
    BY <2>1, ShowsNothing
<1>5. num' = Len(Shown')
  BY <1>1, <1>4
<1> QED
  BY <1>3, <1>4, <1>5 DEF Promise!Replace

LEMMA Recalls ==
  ASSUME LineOK, Recall
  PROVE  LineOK' /\ Promise!Replace
<1>1. PICK s \in Recalled \cup {<<>>} :
        /\ buf' = [i \in Pos |-> IF i < Len(s) THEN s[i + 1] ELSE IF i = Len(s) THEN Nul ELSE buf[i]]
        /\ num' = Len(s) /\ eol' = Len(s)
  BY DEF Recall
<1>2. s \in Seq(Text) /\ Len(s) <= Size
  <2>1. s \in Recalled \/ s = <<>>
    BY <1>1, Zenon
  <2>2. <<>> \in Seq(Text) /\ Len(<<>>) = 0 /\ Size \in Nat
    BY SizeAssumption
  <2>3. CASE s \in Recalled
    BY <2>3, LinesAssumption
  <2>4. CASE s = <<>>
    BY <2>2, <2>4
  <2> QED
    BY <2>1, <2>3, <2>4
<1>3. PICK m \in Nat : m = Len(s)
  BY <1>2, LenProperties
<1> DEFINE b1 == [i \in Pos |-> IF i < m THEN s[i + 1] ELSE IF i = m THEN Nul ELSE buf[i]]
<1>4. buf' = b1 /\ num' = m /\ eol' = m
  BY <1>1, <1>3
<1>5. Size \in Nat /\ m <= Size /\ buf \in Buffer
  BY <1>2, <1>3, SizeAssumption DEF LineOK, Lined
<1>6. \A i \in 1 .. m : b1[i - 1] = s[i]
  <2> SUFFICES ASSUME NEW i \in 1 .. m
               PROVE  b1[i - 1] = s[i]
    OBVIOUS
  <2>1. i - 1 \in Pos /\ i - 1 < m /\ (i - 1) + 1 = i
    BY <1>5 DEF Pos
  <2> QED
    BY <2>1
<1>7. b1 \in Buffer
  <2>1. \A i \in 1 .. m : s[i] \in Text
    BY <1>2, <1>3, ElementOfSeq
  <2>2. \A i \in Pos : i < m => s[i + 1] \in Text
    BY <2>1 DEF Pos
  <2>3. \A i \in Pos : buf[i] \in Text \cup {Nul}
    BY <1>5 DEF Buffer
  <2>4. \A i \in Pos :
          (IF i < m THEN s[i + 1] ELSE IF i = m THEN Nul ELSE buf[i]) \in Text \cup {Nul}
    BY <2>2, <2>3
  <2> QED
    BY <2>4 DEF Buffer
<1> HIDE DEF b1
<1>8. Show(b1, m) = s /\ \A i \in 0 .. m - 1 : b1[i] \in Text
  BY <1>2, <1>3, <1>6, ShowsAs
<1>9. Lined(b1, m, m)
  BY <1>5, <1>7, <1>8 DEF Lined
<1>10. LineOK'
  BY <1>4, <1>9 DEF LineOK
<1>11. Shown' = s
  <2>1. Shown' = Show(b1, m)
    BY <1>4 DEF Shown, Show
  <2> QED
    BY <1>8, <2>1
<1>12. num' = Len(Shown')
  BY <1>1, <1>11
<1> QED
  BY <1>10, <1>11, <1>12 DEF Promise!Replace

LEMMA Tabs ==
  ASSUME LineOK, num = eol, Tab
  PROVE  LineOK' /\ (Promise!Complete \/ UNCHANGED <<Shown, num>>)
<1>1. PICK s \in {x \in Completed : Fits(x)} \cup {<<>>} :
        /\ buf' = [i \in Pos |-> IF i \in num .. (num + Len(s)) - 1 THEN s[i - num + 1]
                                 ELSE IF i \in {num, num + Len(s)} THEN Nul ELSE buf[i]]
        /\ num' = num + Len(s) /\ eol' = num + Len(s)
  BY DEF Tab
<1>2. s \in Seq(Text)
  <2>1. ASSUME s \in Completed
        PROVE  s \in Seq(Text)
    <3>1. s \in Seq(Chars)
      BY <2>1, LinesAssumption
    <3>2. Len(s) \in Nat /\ s \in [1 .. Len(s) -> Chars]
      BY <3>1, LenProperties
    <3>3. s \in [1 .. Len(s) -> Text]
      BY <3>2 DEF Text
    <3> QED
      BY <3>2, <3>3, SeqDef
  <2>2. s \in Completed \/ s = <<>>
    BY <1>1, Zenon
  <2>3. <<>> \in Seq(Text)
    OBVIOUS
  <2> QED
    BY <2>1, <2>2, <2>3
<1>3. PICK k \in Nat : k = Len(s)
  BY <1>2, LenProperties
<1>4. /\ num \in Nat /\ eol \in Nat /\ eol <= Size /\ buf \in Buffer
      /\ \A i \in 0 .. eol - 1 : buf[i] \in Text
      /\ Shown \in Seq(Text) /\ Len(Shown) = eol /\ \A i \in 1 .. eol : Shown[i] = buf[i - 1]
  BY ShownText
<1>5. PICK p \in Nat : p = num /\ p = eol
  BY <1>4
<1>6. PICK m \in Nat : m = p + k
  OBVIOUS
<1>7. m <= Size /\ p <= m
  <2>1. CASE s = <<>>
    BY <1>3, <1>4, <1>5, <1>6, <2>1
  <2>2. CASE Fits(s)
    BY <1>3, <1>5, <1>6, <2>2, SizeAssumption DEF Fits
  <2> QED
    BY <2>1, <2>2
<1> DEFINE b1 == [i \in Pos |-> IF i \in p .. m - 1 THEN s[i - p + 1]
                                ELSE IF i \in {p, m} THEN Nul ELSE buf[i]]
           t == Shown
           w == t \o s
<1>8. buf' = b1 /\ num' = m /\ eol' = m
  BY <1>1, <1>3, <1>5, <1>6
<1>9. t \in Seq(Text) /\ Len(t) = p /\ \A i \in 1 .. p : t[i] = buf[i - 1]
  BY <1>4, <1>5
<1> HIDE DEF t
<1>10. /\ w \in Seq(Text) /\ Len(w) = m
       /\ \A i \in 1 .. m : w[i] = IF i <= p THEN t[i] ELSE s[i - p]
  BY <1>2, <1>3, <1>6, <1>9, ConcatProperties
<1> HIDE DEF w
<1>11. \A i \in 1 .. m : b1[i - 1] = w[i]
  <2> SUFFICES ASSUME NEW i \in 1 .. m
               PROVE  b1[i - 1] = w[i]
    OBVIOUS
  <2>1. i - 1 \in Pos
    BY <1>7, SizeAssumption DEF Pos
  <2>2. CASE i <= p
    <3>1. i - 1 \notin p .. m - 1 /\ i - 1 \notin {p, m} /\ i \in 1 .. p
      BY <1>7, <2>2
    <3> QED
      BY <1>9, <1>10, <2>1, <2>2, <3>1
  <2>3. CASE i > p
    <3>1. i - 1 \in p .. m - 1 /\ (i - 1) - p + 1 = i - p
      BY <2>3
    <3> QED
      BY <1>10, <2>1, <2>3, <3>1
  <2> QED
    BY <2>2, <2>3
<1>12. b1 \in Buffer
  <2>1. \A i \in 1 .. k : s[i] \in Text
    BY <1>2, <1>3, ElementOfSeq
  <2>2. \A i \in p .. m - 1 : s[i - p + 1] \in Text
    BY <1>6, <2>1
  <2>3. \A i \in Pos : buf[i] \in Text \cup {Nul}
    BY <1>4 DEF Buffer
  <2>4. \A i \in Pos : (IF i \in p .. m - 1 THEN s[i - p + 1]
                        ELSE IF i \in {p, m} THEN Nul ELSE buf[i]) \in Text \cup {Nul}
    BY <2>2, <2>3
  <2> QED
    BY <2>4 DEF Buffer
<1> HIDE DEF b1
<1>13. Show(b1, m) = w /\ \A i \in 0 .. m - 1 : b1[i] \in Text
  BY <1>10, <1>11, ShowsAs
<1>14. Lined(b1, m, m)
  BY <1>7, <1>12, <1>13 DEF Lined
<1>15. LineOK'
  BY <1>8, <1>14 DEF LineOK
<1>16. Shown' = t \o s
  <2>1. Shown' = Show(b1, m)
    BY <1>8 DEF Shown, Show
  <2> QED
    BY <1>13, <2>1 DEF w
<1>17. Len(Shown') = m /\ Len(Shown') <= Size
  BY <1>7, <1>10, <1>16 DEF w
<1>18. CASE s \in Completed
  BY <1>5, <1>8, <1>9, <1>15, <1>16, <1>17, <1>18 DEF Promise!Complete, t
<1>19. CASE s = <<>>
  <2>1. k = 0
    BY <1>3, <1>19
  <2>2. num' = num
    BY <1>5, <1>6, <1>8, <2>1
  <2>3. t \o s = t
    BY <1>9, <1>19
  <2>4. Shown' = Shown
    BY <1>16, <2>3 DEF t
  <2> QED
    BY <1>15, <2>2, <2>4
<1> QED
  BY <1>1, <1>18, <1>19

\* What a key may do to the text.
Edits ==
  \/ Promise!Insert \/ Promise!Overwrite \/ Promise!MoveCaret \/ Promise!DeleteRight
  \/ Promise!DeleteLeft \/ Promise!Kill \/ Promise!Replace \/ Promise!Complete
  \/ UNCHANGED <<Shown, num>>

LEMMA LineStays ==
  ASSUME LineOK, UNCHANGED line
  PROVE  LineOK' /\ UNCHANGED <<Shown, num>>
BY DEF line, LineOK, Lined, Shown

\* Whatever the meaning of a key is.
LEMMA Does ==
  ASSUME LineOK, insert \in BOOLEAN, NEW f, Do(f)
  PROVE  LineOK' /\ insert' \in BOOLEAN /\ Edits
<1>1. insert' \in BOOLEAN
  BY Zenon DEF Do
<1>2. LineOK' /\ Edits
  <2>1. CASE UNCHANGED line
    BY <2>1, LineStays DEF Edits
  <2>2. CASE Applies(f) /\ Effect(f)
    <3>1. CASE f = "home" /\ Home
      BY <3>1, Moves DEF Edits
    <3>2. CASE f = "end" /\ End
      BY <3>2, Moves DEF Edits
    <3>3. CASE f = "left" /\ Left
      BY <2>2, <3>3, Moves DEF Edits, Applies
    <3>4. CASE f = "right" /\ Right
      BY <2>2, <3>4, Moves DEF Edits, Applies
    <3>5. CASE f = "delete" /\ Delete
      BY <2>2, <3>5, Deletes DEF Edits, Applies
    <3>6. CASE f = "rubout" /\ Rubout
      BY <2>2, <3>6, RubsOut DEF Edits, Applies
    <3>7. CASE f = "kill" /\ Kill
      BY <2>2, <3>7, Kills DEF Edits, Applies
    <3>8. CASE f = "erase" /\ Erase
      BY <3>8, Erases DEF Edits
    <3>9. CASE Recall
      BY <3>9, Recalls DEF Edits
    <3>10. CASE f = "tab" /\ Tab
      BY <2>2, <3>10, Tabs DEF Edits, Applies
    <3> QED
      BY <2>1, <2>2, <3>1, <3>2, <3>3, <3>4, <3>5, <3>6, <3>7, <3>8, <3>9, <3>10 DEF Effect
  <2> QED
    BY <2>1, <2>2 DEF Do
<1> QED
  BY <1>1, <1>2
-----------------------------------------------------------------------------
(* The invariant, and the steps.                                           *)

Held == esc \in Seq(Text) /\ Len(esc) <= 3

Inv ==
  /\ LineOK
  /\ insert \in BOOLEAN /\ open \in BOOLEAN
  /\ Held
  /\ ~open => buf[eol] = Nul

LEMMA NulIsNoText == Nul \notin Text
BY CharsAssumption DEF Text, Nul, Ctrl

\* The ways a character is taken inside an escape sequence,
LEMMA SavesEscape ==
  ASSUME Inv, NEW c \in Chars \cup Functions, EscSave(c)
  PROVE  LineOK' /\ insert' \in BOOLEAN /\ Held' /\ Edits
<1>1. UNCHANGED line /\ insert' = insert /\ esc' = Append(esc, c) /\ Saved(c)
  BY DEF EscSave
<1>2. c \in Text /\ Len(esc) \in {1, 2}
  BY <1>1 DEF Saved, Functions, Digit, Text
<1>3. esc \in Seq(Text)
  BY DEF Inv, Held
<1>4. Append(esc, c) \in Seq(Text) /\ Len(Append(esc, c)) = Len(esc) + 1
  BY <1>2, <1>3, AppendProperties
<1>5. Held'
  BY <1>1, <1>2, <1>4 DEF Held
<1> QED
  BY <1>1, <1>5, LineStays DEF Inv, Edits

\* and at its end: only then does the text change.
LEMMA EndsEscape ==
  ASSUME Inv, NEW c \in Chars \cup Functions, EscDone(c) \/ EscReject(c)
  PROVE  LineOK' /\ insert' \in BOOLEAN /\ Held' /\ Edits
<1>1. Held'
  <2>1. esc' = <<>>
    BY DEF EscDone, EscReject
  <2>2. <<>> \in Seq(Text) /\ Len(<<>>) = 0
    OBVIOUS
  <2> QED
    BY <2>1, <2>2 DEF Held
<1>2. CASE EscDone(c)
  <2>1. Do(Meaning(c))
    BY <1>2 DEF EscDone
  <2> QED
    BY <1>1, <2>1, Does DEF Inv
<1>3. CASE EscReject(c)
  <2> DEFINE s == Append(esc, AsText(c))
  <2>1. AsText(c) \in Text
    BY DEF AsText, Text
  <2>2. esc \in Seq(Text) /\ Len(esc) <= 3 /\ esc # <<>>
    BY <1>3 DEF Inv, Held, EscReject
  <2>3. PICK k \in 1 .. 3 : k = Len(esc)
    <3>1. Len(esc) \in Nat /\ Len(esc) # 0
      BY <2>2, EmptySeq, LenProperties
    <3>2. PICK k \in Nat : k = Len(esc)
      BY <3>1
    <3>3. k \in 1 .. 3
      BY <2>2, <3>1, <3>2
    <3> QED
      BY <3>2, <3>3
  <2>4. s \in Seq(Text) /\ Len(s) = Len(esc) + 1
    BY <2>1, <2>2, AppendProperties
  <2>5. AddStr(s) /\ insert' = insert
    BY <1>3 DEF EscReject
  <2> HIDE DEF s
  <2>6. Len(s) \in 1 .. 4 /\ \A i \in 1 .. Len(s) : s[i] \in Text
    <3>1. Len(s) = k + 1
      BY <2>3, <2>4
    <3>2. \A i \in 1 .. Len(s) : s[i] \in Text
      BY <2>4, ElementOfSeq
    <3> QED
      BY <3>1, <3>2
  <2>7. LineOK' /\ Edits
    BY <2>5, <2>6, Adds DEF Inv, Edits
  <2> QED
    BY <1>1, <2>5, <2>7 DEF Inv
<1> QED
  BY <1>2, <1>3

\* Any character.
LEMMA KeyStep ==
  ASSUME Inv, Key
  PROVE  LineOK' /\ insert' \in BOOLEAN /\ Held' /\ Edits
<1>1. CASE EscBegin
  <2>1. <<"ESC">> \in Seq(Text) /\ Len(<<"ESC">>) = 1
    BY CharsAssumption DEF Text
  <2>2. Held'
    BY <1>1, <2>1 DEF EscBegin, Held
  <2>3. UNCHANGED line /\ insert' = insert
    BY <1>1 DEF EscBegin
  <2> QED
    BY <2>2, <2>3, LineStays DEF Inv, Edits
<1>2. ASSUME NEW c \in Chars \ {"ESC"}, Type(c)
      PROVE  LineOK' /\ insert' \in BOOLEAN /\ Held' /\ Edits
  <2> DEFINE s == <<c>>
  <2>1. Len(s) \in 1 .. 4 /\ \A i \in 1 .. Len(s) : s[i] \in Text
    BY DEF Text
  <2>2. AddStr(s) /\ insert' = insert /\ esc' = esc
    BY <1>2 DEF Type
  <2> HIDE DEF s
  <2>3. LineOK' /\ Edits
    BY <2>1, <2>2, Adds DEF Inv, Edits
  <2> QED
    BY <2>2, <2>3 DEF Inv, Held
<1>3. ASSUME NEW f \in Functions, Function(f)
      PROVE  LineOK' /\ insert' \in BOOLEAN /\ Held' /\ Edits
  <2>1. Do(f) /\ esc' = esc
    BY <1>3 DEF Function
  <2> QED
    BY <2>1, Does DEF Inv, Held
<1> QED
  BY <1>1, <1>2, <1>3, SavesEscape, EndsEscape DEF Key, Escape

LEMMA ReturnStep ==
  ASSUME Inv, Return
  PROVE  Inv' /\ Promise!Enter
<1>1. /\ open /\ open' = FALSE /\ buf' = [buf EXCEPT ![eol] = Nul]
      /\ num' = num /\ eol' = eol /\ insert' = insert /\ esc' = esc
  BY DEF Return, TermEol
<1>2. /\ num \in Nat /\ eol \in Nat /\ num <= eol /\ eol <= Size /\ buf \in Buffer
      /\ \A i \in 0 .. eol - 1 : buf[i] \in Text
      /\ eol \in Pos
  BY SizeAssumption DEF Inv, LineOK, Lined, Pos
<1>3. buf' \in Buffer /\ buf'[eol] = Nul
  BY <1>1, <1>2 DEF Buffer
<1>4. \A i \in 0 .. eol - 1 : buf'[i] = buf[i]
  <2>1. PICK e \in Nat : e = eol
    BY <1>2
  <2>2. e <= Size /\ \A i \in 0 .. e - 1 : i \in Pos /\ i # e
    BY <1>2, <2>1, SizeAssumption DEF Pos
  <2> QED
    BY <1>1, <1>2, <2>1, <2>2 DEF Buffer
<1>5. LineOK'
  BY <1>1, <1>2, <1>3, <1>4 DEF LineOK, Lined
<1>6. Shown' = Shown
  <2>1. \A i \in 1 .. eol : buf'[i - 1] = buf[i - 1]
    BY <1>2, <1>4
  <2> QED
    BY <1>1, <2>1 DEF Shown
<1>7. Inv'
  BY <1>1, <1>3, <1>5 DEF Inv, Held
<1> QED
  BY <1>1, <1>6, <1>7 DEF Promise!Enter

LEMMA BeginStep ==
  ASSUME Inv, Begin
  PROVE  Inv' /\ Promise!Begin
<1>1. /\ buf' = [buf EXCEPT ![0] = Nul] /\ num' = 0 /\ eol' = 0
      /\ insert' = TRUE /\ esc' = <<>> /\ open' = TRUE
  BY DEF Begin
<1>2. buf \in Buffer /\ Size \in Nat
  BY SizeAssumption DEF Inv, LineOK, Lined
<1>3. buf' \in Buffer
  BY <1>1, <1>2 DEF Buffer
<1>4. LineOK'
  BY <1>1, <1>2, <1>3 DEF LineOK, Lined
<1>5. Shown' = <<>>
  <2>1. Shown' = Show(buf', 0)
    BY <1>1 DEF Shown, Show
  <2> QED
    BY <2>1, ShowsNothing
<1>6. Inv'
  BY <1>1, <1>4 DEF Inv, Held
<1> QED
  BY <1>1, <1>5, <1>6 DEF Promise!Begin

LEMMA Initially ==
  ASSUME Init
  PROVE  Inv /\ Promise!Init
<1>1. buf \in Buffer /\ num = 0 /\ eol = 0 /\ Size \in Nat
  BY SizeAssumption DEF Init, Buffer
<1>2. LineOK
  BY <1>1 DEF LineOK, Lined
<1>3. Shown = <<>>
  <2>1. Shown = Show(buf, 0)
    BY <1>1 DEF Shown, Show
  <2> QED
    BY <2>1, ShowsNothing
<1> QED
  BY <1>1, <1>2, <1>3 DEF Init, Inv, Held, Promise!Init

\* The invariant is kept by every step.
LEMMA Inductive ==
  ASSUME Inv, [Next]_vars
  PROVE  Inv'
<1>1. CASE Key
  <2>1. open /\ open' = open
    BY <1>1 DEF Key
  <2> QED
    BY <1>1, <2>1, KeyStep DEF Inv
<1>2. CASE Return
  BY <1>2, ReturnStep
<1>3. CASE Begin
  BY <1>3, BeginStep
<1>4. CASE UNCHANGED vars
  BY <1>4 DEF vars, line, Inv, Held, LineOK, Lined
<1> QED
  BY <1>1, <1>2, <1>3, <1>4 DEF Next
-----------------------------------------------------------------------------
(* The theorems.                                                           *)

\* The characters before the counted end of the line are text, the escape sequence
\* held back is short enough for esc_save, and a line handed over is terminated.
THEOREM Invariance == Spec => []Inv
<1>1. Init => Inv
  BY Initially
<1>2. Inv /\ [Next]_vars => Inv'
  BY Inductive
<1> QED
  BY <1>1, <1>2, PTL DEF Spec

\* cread_line never moves its counts out of order or beyond the buffer: there is
\* always room for the terminator, whatever the keys and the history.
THEOREM CountsStay == Spec => []TypeOK
<1>1. Inv => TypeOK
  <2> SUFFICES ASSUME Inv
               PROVE  TypeOK
    OBVIOUS
  <2>1. /\ num \in Nat /\ eol \in Nat /\ num <= eol /\ eol <= Size
        /\ buf \in [Pos -> Text \cup {Nul}] /\ Size \in Nat
    BY SizeAssumption DEF Inv, LineOK, Lined, Buffer
  <2>2. eol \in 0 .. Size /\ num \in 0 .. eol
    BY <2>1
  <2> QED
    BY <2>1, <2>2 DEF Inv, Held, TypeOK
<1> QED
  BY <1>1, Invariance, PTL

\* What the parser of the command gets as a string is the line, no less and nothing
\* that earlier lines left in the buffer.
THEOREM WholeString == Spec => []StringIsLine
<1>1. Inv => StringIsLine
  <2> SUFFICES ASSUME Inv, ~open
               PROVE  buf[eol] = Nul /\ \A i \in 0 .. eol - 1 : buf[i] # Nul
    BY DEF StringIsLine
  <2>1. \A i \in 0 .. eol - 1 : buf[i] \in Text
    BY DEF Inv, LineOK, Lined
  <2> QED
    BY <2>1, NulIsNoText DEF Inv
<1> QED
  BY <1>1, Invariance, PTL

\* Every key, plain or as an escape sequence, changes the text the way LineText says.
THEOREM Implements == Spec => Refines
<1>1. Init => Promise!Init
  BY Initially
<1>2. Inv /\ [Next]_vars => [Promise!Next]_(Promise!vars)
  <2> SUFFICES ASSUME Inv, [Next]_vars
               PROVE  Promise!Next \/ UNCHANGED Promise!vars
    OBVIOUS
  <2>1. CASE Key
    <3>1. open /\ open' = open
      BY <2>1 DEF Key
    <3>2. Edits
      BY <2>1, KeyStep
    <3> QED
      BY <3>1, <3>2 DEF Edits, Promise!Next, Promise!Edit, Promise!vars
  <2>2. CASE Return
    BY <2>2, ReturnStep DEF Promise!Next
  <2>3. CASE Begin
    BY <2>3, BeginStep DEF Promise!Next
  <2>4. CASE UNCHANGED vars
    <3>1. Shown' = Shown
      BY <2>4 DEF vars, line, Shown
    <3> QED
      BY <2>4, <3>1 DEF vars, line, Promise!vars
  <2> QED
    BY <2>1, <2>2, <2>3, <2>4 DEF Next
<1> QED
  BY <1>1, <1>2, Invariance, PTL DEF Spec, Refines, Promise!Spec
=============================================================================
