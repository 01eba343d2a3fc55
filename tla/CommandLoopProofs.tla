-------------------------- MODULE CommandLoopProofs -------------------------
(***************************************************************************)
(* For every size of the ring and of the buffer, every command table and   *)
(* every set of lines: what is written down with its special characters    *)
(* escaped is executed as it was meant; the history's indices stay in      *)
(* range and it is the history RecentLines promises; the command loop over *)
(* it stays within its buffers and repeats only what may be repeated.      *)
(***************************************************************************)
EXTENDS CommandLoop, FiniteSetTheorems, SequenceTheorems, WellFoundedInduction, TLAPS
-----------------------------------------------------------------------------
(* Induction, for functions of the first n characters of a line.           *)

\* A set of naturals that is not empty has a least element.
LEMMA Least ==
  ASSUME NEW S \in SUBSET Nat, S # {}
  PROVE  \E x \in S : \A y \in S : x <= y
<1> DEFINE R == OpToRel(<, Nat)
<1>1. IsWellFoundedOn(R, Nat)
  BY NatLessThanWellFounded
<1>2. \A x, y \in Nat : y < x => <<y, x>> \in R
  BY DEF OpToRel
<1> HIDE DEF R
<1>3. PICK x \in S : \A y \in S : ~(<<y, x>> \in R)
  BY <1>1, WFMin
<1>4. ASSUME NEW y \in S
      PROVE  x <= y
  <2>1. y < x => <<y, x>> \in R
    BY <1>2
  <2> QED
    BY <1>3, <2>1
<1> QED
  BY <1>3, <1>4

\* A set that holds zero, and with each number the next, holds all.
LEMMA Induction ==
  ASSUME NEW T \in SUBSET Nat, 0 \in T, \A n \in T : n + 1 \in T
  PROVE  T = Nat
<1> SUFFICES ASSUME T # Nat
             PROVE  FALSE
  OBVIOUS
<1>1. PICK x \in Nat \ T : \A y \in Nat \ T : x <= y
  BY Least
<1>2. x # 0 /\ x - 1 \in Nat
  BY <1>1
<1>3. x - 1 \in T
  BY <1>1, <1>2
<1>4. (x - 1) + 1 \in T
  BY <1>3
<1> QED
  BY <1>1, <1>4

\* The places a recursive function of n characters is defined at.
Expansion(f, s, n) ==
  f = [i \in 0 .. n |-> IF i = 0 THEN Start ELSE Expand(f[i - 1], s[i])]

\* The expansion is a function of every line.
LEMMA Expands ==
  ASSUME NEW s, NEW n \in Nat
  PROVE  \E f : Expansion(f, s, n)
<1> DEFINE T == {k \in Nat : \E f : Expansion(f, s, k)}
<1>1. 0 \in T
  <2> DEFINE f == [i \in 0 .. 0 |-> Start]
  <2>1. f = [i \in 0 .. 0 |-> IF i = 0 THEN Start ELSE Expand(f[i - 1], s[i])]
    OBVIOUS
  <2>2. Expansion(f, s, 0)
    BY <2>1 DEF Expansion
  <2> QED
    BY <2>2
<1>2. ASSUME NEW k \in T
      PROVE  k + 1 \in T
  <2>1. PICK f : Expansion(f, s, k)
    OBVIOUS
  <2>2. /\ f = [i \in 0 .. k |-> IF i = 0 THEN Start ELSE Expand(f[i - 1], s[i])]
        /\ \A i \in 0 .. k : f[i] = IF i = 0 THEN Start ELSE Expand(f[i - 1], s[i])
    <3>1. f = [i \in 0 .. k |-> IF i = 0 THEN Start ELSE Expand(f[i - 1], s[i])]
      BY <2>1 DEF Expansion
    <3> DEFINE e(i) == IF i = 0 THEN Start ELSE Expand(f[i - 1], s[i])
    <3>2. f = [i \in 0 .. k |-> e(i)]
      BY <3>1
    <3> HIDE DEF e
    <3>3. \A i \in 0 .. k : f[i] = e(i)
      BY <3>2
    <3> QED
      BY <3>1, <3>3 DEF e
  <2> DEFINE x == Expand(f[k], s[k + 1])
             g == [i \in 0 .. k + 1 |-> IF i = k + 1 THEN x ELSE f[i]]
             h(i) == IF i = 0 THEN Start ELSE Expand(g[i - 1], s[i])
  <2>3. \A i \in 0 .. k : g[i] = f[i]
    OBVIOUS
  <2>4. g[k + 1] = x
    OBVIOUS
  <2> HIDE DEF g
  <2>5. \A i \in 0 .. k + 1 : g[i] = h(i)
    <3> SUFFICES ASSUME NEW i \in 0 .. k + 1
                 PROVE  g[i] = h(i)
      OBVIOUS
    <3>1. CASE i = 0
      <4>1. f[0] = Start
        BY <2>2
      <4> QED
        BY <2>3, <3>1, <4>1
    <3>2. CASE i \in 1 .. k
      <4>1. f[i] = Expand(f[i - 1], s[i]) /\ i - 1 \in 0 .. k /\ i # 0
        BY <2>2, <3>2
      <4> QED
        BY <2>3, <3>2, <4>1
    <3>3. CASE i = k + 1
      <4>1. i - 1 = k /\ i # 0 /\ g[k] = f[k]
        BY <2>3, <3>3
      <4> QED
        BY <2>4, <3>3, <4>1
    <3> QED
      BY <3>1, <3>2, <3>3
  <2>6. g = [i \in 0 .. k + 1 |-> h(i)]
    <3>1. g = [i \in 0 .. k + 1 |-> g[i]]
      BY DEF g
    <3> HIDE DEF h
    <3> QED
      BY <2>5, <3>1
  <2>7. Expansion(g, s, k + 1)
    BY <2>6 DEF Expansion
  <2> QED
    BY <2>7
<1>3. T = Nat
  <2>1. T \in SUBSET Nat
    OBVIOUS
  <2> HIDE DEF T
  <2> QED
    BY <1>1, <1>2, <2>1, Induction
<1> QED
  BY <1>3

\* What i characters of a command have become.  A dollar sign or a backslash whose
\* meaning is not known yet is still owed.
State   == {"text", "dollar", "name", "quoted"}
Machine == [state : State, prev : Chars \cup {"NUL"}, escape : BOOLEAN, out : Seq(Chars)]
Dollar(st) == IF st = "dollar" THEN 1 ELSE 0
Owed(m)    == Dollar(m.state) + (IF m.escape THEN 1 ELSE 0)
Emitted(m, i) == m \in Machine /\ Len(m.out) + Owed(m) <= i

\* One character more pays for k characters written in state st.
Pays(m, st, k) == k + Dollar(st) <= 1 + Dollar(m.state)

\* A character that writes no more than it and what was owed pay for.
LEMMA Appended ==
  ASSUME NEW m, NEW i \in Nat, Emitted(m, i), NEW x \in Seq(Chars), NEW k \in Nat, Len(x) = k,
         NEW c \in Chars, NEW st \in State, Pays(m, st, k)
  PROVE  Emitted([state |-> st, prev |-> c, escape |-> FALSE, out |-> m.out \o x], i + 1)
<1> DEFINE n == [state |-> st, prev |-> c, escape |-> FALSE, out |-> m.out \o x]
<1>1. m.out \in Seq(Chars) /\ m.out \o x \in Seq(Chars) /\ Len(m.out \o x) = Len(m.out) + Len(x)
  <2>1. m.out \in Seq(Chars)
    BY DEF Emitted, Machine
  <2> QED
    BY <2>1, ConcatProperties
<1>2. n \in Machine
  BY <1>1 DEF Machine
<1>3. n.state = st /\ n.escape = FALSE /\ n.out = m.out \o x
  OBVIOUS
<1> HIDE DEF n
<1>4. PICK l \in Nat : l = Len(m.out)
  BY <1>1, LenProperties
<1>5. l + Owed(m) <= i
  BY <1>4 DEF Emitted
<1>6. l + Dollar(m.state) <= i
  BY <1>5 DEF Owed, Dollar, Emitted, Machine
<1>7. Len(n.out) = l + k
  BY <1>1, <1>3, <1>4
<1>8. Len(n.out) + Owed(n) <= i + 1
  BY <1>3, <1>6, <1>7 DEF Owed, Dollar, Pays
<1>9. Emitted(n, i + 1)
  BY <1>2, <1>8 DEF Emitted
<1> QED
  BY <1>9 DEF n

\* With each character read at most that many more have been written, those counted
\* that a dollar or an escape still owes.
LEMMA ExpandStep ==
  ASSUME NEW m, NEW i \in Nat, Emitted(m, i), NEW c \in Chars
  PROVE  Emitted(Expand(m, c), i + 1)
<1> DEFINE plain == m.escape \/ m.prev = "\\"
           quote == c = "'" /\ ~plain
           skips == c = "\\" /\ ~plain /\ m.state # "quoted"
           to(st, out) == [state |-> st, prev |-> c, escape |-> FALSE, out |-> m.out \o out]
<1>1. m \in Machine /\ m.state \in State /\ Len(m.out) + Owed(m) <= i
  BY DEF Emitted, Machine
<1>2. /\ <<>> \in Seq(Chars) /\ Len(<<>>) = 0
      /\ <<c>> \in Seq(Chars) /\ Len(<<c>>) = 1
  OBVIOUS
<1>3. <<"$", c>> \in Seq(Chars) /\ Len(<<"$", c>>) = 2
  <2>1. "$" \in Chars
    BY TextAssumption
  <2> QED
    BY <2>1
<1>4. CASE skips
  <2> DEFINE n == [m EXCEPT !.escape = TRUE]
  <2>1. Expand(m, c) = n
    BY <1>4 DEF Expand
  <2>2. n \in Machine /\ n.state = m.state /\ n.escape = TRUE /\ n.out = m.out
    BY <1>1 DEF Machine
  <2> HIDE DEF n
  <2>3. m.escape = FALSE
    BY <1>1, <1>4 DEF Machine
  <2>4. PICK l \in Nat : l = Len(m.out)
    BY <1>1, LenProperties DEF Machine
  <2>5. Len(n.out) + Owed(n) <= i + 1
    <3>1. l + Dollar(m.state) <= i /\ Dollar(m.state) \in Nat
      <4>1. Dollar(m.state) \in Nat
        BY DEF Dollar
      <4>2. Owed(m) = Dollar(m.state) + 0
        BY <2>3 DEF Owed
      <4> QED
        BY <1>1, <2>4, <4>1, <4>2
    <3>2. Owed(n) = Dollar(m.state) + 1 /\ Len(n.out) = l
      BY <2>2, <2>4 DEF Owed
    <3> QED
      BY <3>1, <3>2
  <2> QED
    BY <2>1, <2>2, <2>5 DEF Emitted
<1>5. CASE ~skips
  <2>1. ASSUME NEW st \in State
        PROVE  Emitted(to(st, <<>>), i + 1)
    <3>1. Pays(m, st, 0)
      BY DEF Pays, Dollar
    <3> QED
      BY <1>2, <3>1, Appended
  <2>2. ASSUME NEW st \in {"text", "quoted"}
        PROVE  Emitted(to(st, <<c>>), i + 1)
    <3>1. Pays(m, st, 1) /\ st \in State
      BY DEF Pays, Dollar, State
    <3> QED
      BY <1>2, <3>1, Appended
  <2>3. ASSUME m.state = "dollar"
        PROVE  Emitted(to("text", <<"$", c>>), i + 1)
    <3>1. Pays(m, "text", 2) /\ "text" \in State
      BY <2>3 DEF Pays, Dollar, State
    <3> QED
      BY <1>3, <3>1, Appended
  <2>4. CASE m.state = "text"
    <3>1. Expand(m, c) \in {to("quoted", <<>>), to("dollar", <<>>), to("text", <<c>>)}
      BY <1>5, <2>4 DEF Expand
    <3> HIDE DEF to
    <3> QED
      BY <2>1, <2>2, <3>1 DEF State
  <2>5. CASE m.state = "dollar"
    <3>1. Expand(m, c) \in {to("name", <<>>), to("text", <<"$", c>>)}
      BY <1>5, <2>5 DEF Expand
    <3> HIDE DEF to
    <3> QED
      BY <2>1, <2>3, <2>5, <3>1 DEF State
  <2>6. CASE m.state = "name"
    <3>1. Expand(m, c) \in {to("name", <<>>), to("text", <<>>)}
      BY <1>5, <2>6 DEF Expand
    <3> HIDE DEF to
    <3> QED
      BY <2>1, <3>1 DEF State
  <2>7. CASE m.state = "quoted"
    <3>1. Expand(m, c) \in {to("text", <<>>), to("quoted", <<c>>)}
      BY <1>5, <2>7 DEF Expand
    <3> HIDE DEF to
    <3> QED
      BY <2>1, <2>2, <3>1 DEF State
  <2> QED
    BY <1>1, <2>4, <2>5, <2>6, <2>7 DEF State
<1> QED
  BY <1>4, <1>5

\* The expansion of a command is never longer than the command, so that it fits
\* finaltoken, which cli_simple_process_macros need not cut short.
LEMMA Expanded ==
  ASSUME NEW s \in Seq(Chars)
  PROVE  Macros(s) \in Seq(Chars) /\ Len(Macros(s)) <= Len(s)
<1>1. PICK n \in Nat : n = Len(s)
  BY LenProperties
<1>2. \A i \in 1 .. n : s[i] \in Chars
  BY <1>1, ElementOfSeq
<1> DEFINE g == CHOOSE f : f = [i \in 0 .. Len(s) |-> IF i = 0 THEN Start ELSE Expand(f[i - 1], s[i])]
<1>3. Macros(s) = g[n].out
  BY <1>1 DEF Macros
<1>4. Expansion(g, s, n)
  <2>1. \E f : f = [i \in 0 .. Len(s) |-> IF i = 0 THEN Start ELSE Expand(f[i - 1], s[i])]
    BY <1>1, Expands DEF Expansion
  <2>2. g = [i \in 0 .. Len(s) |-> IF i = 0 THEN Start ELSE Expand(g[i - 1], s[i])]
    BY <2>1, Zenon
  <2> HIDE DEF g
  <2> QED
    BY <1>1, <2>2 DEF Expansion
<1> HIDE DEF g
<1>5. \A i \in 0 .. n : g[i] = IF i = 0 THEN Start ELSE Expand(g[i - 1], s[i])
  <2> DEFINE e(i) == IF i = 0 THEN Start ELSE Expand(g[i - 1], s[i])
  <2>1. g = [i \in 0 .. n |-> e(i)]
    BY <1>4 DEF Expansion
  <2> HIDE DEF e
  <2>2. \A i \in 0 .. n : g[i] = e(i)
    BY <2>1
  <2> QED
    BY <2>2 DEF e
<1> DEFINE T == {k \in Nat : k <= n => Emitted(g[k], k)}
<1>6. T = Nat
  <2>1. 0 \in T
    <3>1. g[0] = Start
      BY <1>5
    <3>2. Start \in Machine /\ Owed(Start) = 0 /\ Len(Start.out) = 0
      BY DEF Start, Machine, State, Owed, Dollar
    <3>3. Emitted(g[0], 0)
      BY <3>1, <3>2 DEF Emitted
    <3> QED
      BY <3>3
  <2>2. ASSUME NEW k \in T
        PROVE  k + 1 \in T
    <3> SUFFICES ASSUME k + 1 <= n
                 PROVE  Emitted(g[k + 1], k + 1)
      OBVIOUS
    <3>1. k \in Nat /\ Emitted(g[k], k) /\ s[k + 1] \in Chars
      BY <1>2
    <3>2. g[k + 1] = Expand(g[k], s[k + 1])
      <4>1. k + 1 \in 0 .. n /\ k + 1 # 0 /\ (k + 1) - 1 = k
        BY <3>1
      <4> QED
        BY <1>5, <4>1
    <3> QED
      BY <3>1, <3>2, ExpandStep
  <2>3. T \in SUBSET Nat
    OBVIOUS
  <2> HIDE DEF T
  <2> QED
    BY <2>1, <2>2, <2>3, Induction
<1>7. Emitted(g[n], n)
  BY <1>6
<1>8. g[n].out \in Seq(Chars) /\ Owed(g[n]) \in Nat
  BY <1>7 DEF Emitted, Machine, Owed, Dollar
<1>9. Len(g[n].out) <= n
  <2>1. Len(g[n].out) \in Nat
    BY <1>8, LenProperties
  <2> QED
    BY <1>7, <1>8, <2>1 DEF Emitted
<1> QED
  BY <1>1, <1>3, <1>8, <1>9
-----------------------------------------------------------------------------
(* A line is cut up.                                                       *)

\* A part of a line is no longer than the line.
LEMMA Slice ==
  ASSUME NEW s \in Seq(Chars), NEW m \in Nat, m >= 1, NEW n \in Nat, n <= Len(s)
  PROVE  SubSeq(s, m, n) \in Seq(Chars) /\ Len(SubSeq(s, m, n)) <= Len(s)
<1>1. Len(s) \in Nat /\ \A i \in 1 .. Len(s) : s[i] \in Chars
  BY LenProperties, ElementOfSeq
<1>2. \A i \in m .. n : s[i] \in Chars
  BY <1>1
<1>3. /\ SubSeq(s, m, n) \in Seq(Chars)
      /\ Len(SubSeq(s, m, n)) = IF m <= n THEN n - m + 1 ELSE 0
  BY <1>2, SubSeqProperties
<1> QED
  BY <1>1, <1>3

\* A command and what follows it are no longer than the line.
LEMMA CutUp ==
  ASSUME NEW s \in Seq(Chars), NEW b
  PROVE  /\ Token(s, b) \in Seq(Chars) /\ Len(Token(s, b)) <= Len(s)
         /\ Rest(s, b) \in Seq(Chars) /\ Len(Rest(s, b)) <= Len(s)
<1>1. Len(s) \in Nat
  BY LenProperties
<1>2. <<>> \in Seq(Chars) /\ Len(<<>>) = 0
  OBVIOUS
<1>3. CASE Cut(s, b) = {}
  BY <1>1, <1>2, <1>3 DEF Token, Rest
<1>4. CASE Cut(s, b) # {}
  <2>1. Cut(s, b) \in SUBSET Nat /\ \A c \in Cut(s, b) : c \in 2 .. Len(s)
    <3>1. \A c \in Cut(s, b) : c \in 2 .. Len(s)
      BY Zenon DEF Cut
    <3> QED
      BY <1>1, <3>1
  <2>2. \E x \in Cut(s, b) : \A y \in Cut(s, b) : x <= y
    BY <1>4, <2>1, Least
  <2>3. PICK c \in Cut(s, b) : c = Min(Cut(s, b))
    BY <2>2, Zenon DEF Min
  <2>4. c \in Nat /\ c + 1 \in Nat /\ c + 1 >= 1 /\ c - 1 \in Nat /\ c - 1 <= Len(s)
    BY <1>1, <2>1
  <2>5. SubSeq(s, 1, c - 1) \in Seq(Chars) /\ Len(SubSeq(s, 1, c - 1)) <= Len(s)
    <3>1. PICK d \in Nat : d = c - 1
      BY <2>4
    <3>2. SubSeq(s, 1, d) \in Seq(Chars) /\ Len(SubSeq(s, 1, d)) <= Len(s)
      BY <2>4, <3>1, Slice
    <3> QED
      BY <3>1, <3>2
  <2>6. SubSeq(s, c + 1, Len(s)) \in Seq(Chars) /\ Len(SubSeq(s, c + 1, Len(s))) <= Len(s)
    <3>1. PICK d \in Nat : d = c + 1 /\ d >= 1
      BY <2>4
    <3>2. SubSeq(s, d, Len(s)) \in Seq(Chars) /\ Len(SubSeq(s, d, Len(s))) <= Len(s)
      BY <1>1, <3>1, Slice
    <3> QED
      BY <3>1, <3>2
  <2>7. Token(s, b) = SubSeq(s, 1, c - 1) /\ Rest(s, b) = SubSeq(s, c + 1, Len(s))
    BY <1>4, <2>3 DEF Token, Rest
  <2> QED
    BY <2>5, <2>6, <2>7
<1> QED
  BY <1>3, <1>4

\* cli_simple_parse_line never finds more words than argv has room for.
LEMMA FewWords ==
  ASSUME NEW s \in Seq(Chars), NEW n \in Nat
  PROVE  Len(Words(s, n)) <= n
<1>1. Cardinality(Begins(s)) \in Nat
  <2>1. IsFiniteSet(1 .. Len(s))
    BY LenProperties, FS_Interval
  <2>2. Begins(s) \in SUBSET (1 .. Len(s))
    BY DEF Begins
  <2> QED
    BY <2>1, <2>2, FS_Subset, FS_CardinalityType
<1>2. PICK m \in Nat : m = (IF Cardinality(Begins(s)) < n THEN Cardinality(Begins(s)) ELSE n) /\ m <= n
  BY <1>1
<1> DEFINE nth(k) == CHOOSE i \in Begins(s) : Cardinality({j \in Begins(s) : j < i}) = k - 1
           word(k) == WordAt(s, nth(k))
           R == {word(k) : k \in 1 .. m}
           w == [k \in 1 .. m |-> word(k)]
<1>3. Words(s, n) = w
  BY <1>2 DEF Words
<1> HIDE DEF word
<1>4. w \in [1 .. m -> R]
  OBVIOUS
<1> HIDE DEF R, w
<1>5. w \in Seq(R)
  BY <1>4, SeqDef
<1>6. Len(w) = m
  BY <1>4, <1>5, LenProperties
<1> QED
  BY <1>2, <1>3, <1>6
-----------------------------------------------------------------------------
(* How a list of commands is written: pieces put together.                 *)

\* The places a sequence of pieces is put together at.
Flattened(h, s, n) == h = [i \in 1 .. n |-> IF i = 1 THEN s[i] ELSE h[i - 1] \o s[i]]

\* Any number of pieces can be put together.
LEMMA Flattens ==
  ASSUME NEW s, NEW n \in Nat
  PROVE  \E h : Flattened(h, s, n)
<1> DEFINE T == {k \in Nat : \E h : Flattened(h, s, k)}
<1>1. 0 \in T
  <2> DEFINE h == [i \in 1 .. 0 |-> <<>>]
  <2>1. h = [i \in 1 .. 0 |-> IF i = 1 THEN s[i] ELSE h[i - 1] \o s[i]]
    OBVIOUS
  <2>2. Flattened(h, s, 0)
    BY <2>1 DEF Flattened
  <2> QED
    BY <2>2
<1>2. ASSUME NEW k \in T
      PROVE  k + 1 \in T
  <2>1. PICK h : Flattened(h, s, k)
    OBVIOUS
  <2> DEFINE e(i) == IF i = 1 THEN s[i] ELSE h[i - 1] \o s[i]
  <2>2. \A i \in 1 .. k : h[i] = e(i)
    <3>1. h = [i \in 1 .. k |-> e(i)]
      BY <2>1 DEF Flattened
    <3> HIDE DEF e
    <3> QED
      BY <3>1
  <2> DEFINE x == e(k + 1)
             g == [i \in 1 .. k + 1 |-> IF i = k + 1 THEN x ELSE h[i]]
             d(i) == IF i = 1 THEN s[i] ELSE g[i - 1] \o s[i]
  <2>3. g = [i \in 1 .. k + 1 |-> g[i]] /\ (\A i \in 1 .. k : g[i] = h[i]) /\ g[k + 1] = x
    <3> HIDE DEF x
    <3> QED
      OBVIOUS
  <2> HIDE DEF g
  <2>4. \A i \in 1 .. k + 1 : g[i] = d(i)
    <3> SUFFICES ASSUME NEW i \in 1 .. k + 1
                 PROVE  g[i] = d(i)
      OBVIOUS
    <3>1. g[i] = e(i)
      <4>1. CASE i = k + 1
        BY <2>3, <4>1
      <4>2. CASE i # k + 1
        <5>1. i \in 1 .. k
          BY <4>2
        <5> HIDE DEF e
        <5> QED
          BY <2>2, <2>3, <5>1
      <4> QED
        BY <4>1, <4>2
    <3>2. i = 1 \/ i - 1 \in 1 .. k
      OBVIOUS
    <3> QED
      BY <2>3, <3>1, <3>2
  <2>5. g = [i \in 1 .. k + 1 |-> d(i)]
    <3> HIDE DEF d
    <3> QED
      BY <2>3, <2>4
  <2>6. Flattened(g, s, k + 1)
    BY <2>5 DEF Flattened
  <2> QED
    BY <2>6
<1>3. T = Nat
  <2>1. T \in SUBSET Nat
    OBVIOUS
  <2> HIDE DEF T
  <2> QED
    BY <1>1, <1>2, <2>1, Induction
<1> QED
  BY <1>3

\* Where each piece of a text ends, and the pieces at their places.
Edges(w, s) ==
  /\ w \in [0 .. Len(s) -> Nat] /\ w[0] = 0
  /\ \A i \in 1 .. Len(s) : w[i] = w[i - 1] + Len(s[i])
Pieces(w, s, t, n) == \A i \in 1 .. n : \A y \in 1 .. Len(s[i]) : t[w[i - 1] + y] = s[i][y]
Rises(w, n)  == \A i \in 0 .. n : w[i] <= w[n]
Layout(w, s, t) ==
  /\ Edges(w, s) /\ Pieces(w, s, t, Len(s))
  /\ Len(t) = w[Len(s)]
  /\ \A n \in 0 .. Len(s) : Rises(w, n)

\* One piece more.
LEMMA PieceMore ==
  ASSUME NEW D, NEW s \in Seq(Seq(D)), NEW w, Edges(w, s), NEW n \in 1 .. Len(s),
         NEW t \in Seq(D), Len(t) = w[n - 1], Pieces(w, s, t, n - 1), Rises(w, n - 1)
  PROVE  /\ t \o s[n] \in Seq(D) /\ Len(t \o s[n]) = w[n]
         /\ Pieces(w, s, t \o s[n], n) /\ Rises(w, n)
<1>1. s[n] \in Seq(D) /\ Len(s) \in Nat /\ \A i \in 1 .. Len(s) : s[i] \in Seq(D)
  BY ElementOfSeq, LenProperties
<1>2. \A i \in 0 .. Len(s) : w[i] \in Nat
  BY DEF Edges
<1>3. PICK k \in Nat : k = Len(s[n])
  BY <1>1, LenProperties
<1>4. PICK v \in Nat : v = w[n - 1]
  BY <1>2, <1>1
<1>5. w[n] = v + k
  BY <1>3, <1>4 DEF Edges
<1>6. /\ t \o s[n] \in Seq(D) /\ Len(t \o s[n]) = v + k
      /\ \A i \in 1 .. v + k : (t \o s[n])[i] = IF i <= v THEN t[i] ELSE s[n][i - v]
  <2>1. Len(t) = v /\ Len(s[n]) = k
    BY <1>3, <1>4
  <2> QED
    BY <1>1, <2>1, ConcatProperties
<1> DEFINE u == t \o s[n]
<1> HIDE DEF u
<1>7. Pieces(w, s, u, n)
  <2> SUFFICES ASSUME NEW i \in 1 .. n, NEW y \in 1 .. Len(s[i])
               PROVE  u[w[i - 1] + y] = s[i][y]
    BY DEF Pieces
  <2>1. CASE i = n
    <3>1. v + y \in 1 .. v + k /\ ~(v + y <= v) /\ (v + y) - v = y
      BY <1>3, <2>1
    <3> QED
      BY <1>4, <1>6, <2>1, <3>1 DEF u
  <2>2. CASE i # n
    <3>1. i \in 1 .. n - 1 /\ i \in 1 .. Len(s)
      BY <1>1, <2>2
    <3>2. t[w[i - 1] + y] = s[i][y]
      BY <3>1 DEF Pieces
    <3>3. w[i] <= v /\ w[i] = w[i - 1] + Len(s[i])
      BY <1>4, <3>1 DEF Rises, Edges
    <3>4. w[i - 1] \in Nat /\ s[i] \in Seq(D)
      <4>1. i - 1 \in 0 .. Len(s)
        BY <1>1, <3>1
      <4> QED
        BY <1>2, <1>1, <3>1, <4>1
    <3>5. PICK l \in Nat : l = Len(s[i])
      BY <3>4, LenProperties
    <3>6. w[i - 1] + y \in 1 .. v + k /\ w[i - 1] + y <= v
      <4>1. PICK a \in Nat : a = w[i - 1]
        BY <3>4
      <4>2. a + l <= v /\ y \in 1 .. l
        BY <3>3, <3>5, <4>1
      <4>3. a + y \in 1 .. v + k /\ a + y <= v
        BY <4>2
      <4> QED
        BY <4>1, <4>3
    <3> QED
      BY <1>6, <3>2, <3>6 DEF u
  <2> QED
    BY <2>1, <2>2
<1>8. Rises(w, n)
  <2> SUFFICES ASSUME NEW i \in 0 .. n
               PROVE  w[i] <= w[n]
    BY DEF Rises
  <2>1. CASE i = n
    BY <1>5, <2>1
  <2>2. CASE i # n
    <3>1. i \in 0 .. n - 1 /\ w[i] \in Nat
      <4>1. i \in 0 .. Len(s)
        BY <1>1
      <4> QED
        BY <1>2, <2>2, <4>1
    <3>2. w[i] <= v
      BY <1>4, <3>1 DEF Rises
    <3> QED
      BY <1>5, <3>1, <3>2
  <2> QED
    BY <2>1, <2>2
<1> QED
  BY <1>5, <1>6, <1>7, <1>8 DEF u

\* A sequence of pieces put together is a text in which each has its place.
LEMMA Flat ==
  ASSUME NEW D, NEW s \in Seq(Seq(D))
  PROVE  FlattenSeq(s) \in Seq(D) /\ \E w : Layout(w, s, FlattenSeq(s))
<1>1. PICK m \in Nat : m = Len(s)
  BY LenProperties
<1>2. \A i \in 1 .. m : s[i] \in Seq(D)
  BY <1>1, ElementOfSeq
<1> DEFINE g == CHOOSE h : h = [i \in 1 .. Len(s) |-> IF i = 1 THEN s[i] ELSE h[i - 1] \o s[i]]
           G(i) == IF i = 0 THEN <<>> ELSE g[i]
<1>3. Flattened(g, s, m)
  <2>1. \E h : h = [i \in 1 .. Len(s) |-> IF i = 1 THEN s[i] ELSE h[i - 1] \o s[i]]
    BY <1>1, Flattens DEF Flattened
  <2>2. g = [i \in 1 .. Len(s) |-> IF i = 1 THEN s[i] ELSE g[i - 1] \o s[i]]
    BY <2>1, Zenon
  <2> HIDE DEF g
  <2> QED
    BY <1>1, <2>2 DEF Flattened
<1>4. FlattenSeq(s) = G(m)
  <2>1. FlattenSeq(s) = IF Len(s) = 0 THEN s ELSE g[Len(s)]
    BY DEF FlattenSeq
  <2>2. m = 0 => s = <<>>
    BY <1>1, EmptySeq
  <2> HIDE DEF g
  <2> QED
    BY <1>1, <2>1, <2>2
<1> HIDE DEF g
<1>5. \A i \in 1 .. m : g[i] = IF i = 1 THEN s[i] ELSE g[i - 1] \o s[i]
  <2> DEFINE e(i) == IF i = 1 THEN s[i] ELSE g[i - 1] \o s[i]
  <2>1. g = [i \in 1 .. m |-> e(i)]
    BY <1>3 DEF Flattened
  <2> HIDE DEF e
  <2>2. \A i \in 1 .. m : g[i] = e(i)
    BY <2>1
  <2> QED
    BY <2>2 DEF e
<1>6. G(0) = <<>> /\ <<>> \in Seq(D) /\ Len(<<>>) = 0
  OBVIOUS
<1>7. ASSUME NEW k \in Nat, k + 1 <= m, G(k) \in Seq(D)
      PROVE  G(k + 1) = G(k) \o s[k + 1]
  <2>1. s[k + 1] \in Seq(D) /\ k + 1 \in 1 .. m /\ G(k + 1) = g[k + 1]
    BY <1>2, <1>7
  <2>2. CASE k = 0
    <3>1. g[k + 1] = s[k + 1]
      BY <1>5, <2>1, <2>2
    <3>2. <<>> \o s[k + 1] = s[k + 1]
      BY <2>1, ConcatEmptySeq
    <3> QED
      BY <2>1, <2>2, <3>1, <3>2
  <2>3. CASE k # 0
    <3>1. (k + 1) - 1 = k /\ k + 1 # 1 /\ G(k) = g[k]
      BY <2>3
    <3> QED
      BY <1>5, <2>1, <3>1
  <2> QED
    BY <2>2, <2>3
<1> HIDE DEF G
<1>8. \A k \in 0 .. m : G(k) \in Seq(D)
  <2> DEFINE T == {k \in Nat : k <= m => G(k) \in Seq(D)}
  <2>1. 0 \in T
    BY <1>6
  <2>2. ASSUME NEW k \in T
        PROVE  k + 1 \in T
    <3> SUFFICES ASSUME k + 1 <= m
                 PROVE  G(k + 1) \in Seq(D)
      OBVIOUS
    <3>1. k \in Nat /\ G(k) \in Seq(D) /\ s[k + 1] \in Seq(D)
      BY <1>2
    <3> QED
      BY <1>7, <3>1, ConcatProperties
  <2>3. T \in SUBSET Nat
    OBVIOUS
  <2> HIDE DEF T
  <2>4. T = Nat
    BY <2>1, <2>2, <2>3, Induction
  <2> QED
    BY <2>4 DEF T
<1> DEFINE w == [i \in 0 .. Len(s) |-> Len(G(i))]
<1>9. \A k \in 0 .. m : w[k] = Len(G(k)) /\ w[k] \in Nat
  BY <1>1, <1>8, LenProperties
<1>10. Edges(w, s)
  <2>1. w \in [0 .. Len(s) -> Nat]
    BY <1>1, <1>8, LenProperties
  <2>2. w[0] = 0
    BY <1>1, <1>6
  <2> HIDE DEF w
  <2>3. ASSUME NEW i \in 1 .. Len(s)
        PROVE  w[i] = w[i - 1] + Len(s[i])
    <3>1. PICK k \in Nat : k = i - 1
      BY <1>1
    <3>2. k \in 0 .. m /\ k + 1 <= m /\ i = k + 1 /\ i \in 0 .. m
      BY <1>1, <3>1
    <3>3. G(k) \in Seq(D) /\ s[k + 1] \in Seq(D)
      BY <1>1, <1>2, <1>8, <3>2
    <3>4. G(k + 1) = G(k) \o s[k + 1]
      BY <1>7, <3>2, <3>3
    <3>5. Len(G(k + 1)) = Len(G(k)) + Len(s[k + 1])
      BY <3>3, <3>4, ConcatProperties
    <3> QED
      BY <1>9, <3>1, <3>2, <3>5
  <2> QED
    BY <2>1, <2>2, <2>3 DEF Edges
<1> HIDE DEF w
<1> DEFINE Good(k) == Len(G(k)) = w[k] /\ Pieces(w, s, G(k), k) /\ Rises(w, k)
<1>11. \A k \in 0 .. m : Good(k)
  <2> DEFINE T == {k \in Nat : k <= m => Good(k)}
  <2>1. 0 \in T
    <3>1. Pieces(w, s, G(0), 0)
      BY DEF Pieces
    <3>2. Rises(w, 0)
      BY <1>9 DEF Rises
    <3> QED
      BY <1>9, <3>1, <3>2
  <2>2. ASSUME NEW k \in T
        PROVE  k + 1 \in T
    <3> SUFFICES ASSUME k + 1 <= m
                 PROVE  Good(k + 1)
      OBVIOUS
    <3>1. PICK n \in 1 .. Len(s) : n = k + 1
      BY <1>1
    <3>2. k = n - 1 /\ k \in 0 .. m
      BY <3>1
    <3>3. G(k) \in Seq(D) /\ G(n) = G(k) \o s[n]
      BY <1>7, <1>8, <3>1, <3>2
    <3>4. Len(G(k)) = w[n - 1] /\ Pieces(w, s, G(k), n - 1) /\ Rises(w, n - 1)
      BY <3>2
    <3>5. /\ Len(G(k) \o s[n]) = w[n] /\ Pieces(w, s, G(k) \o s[n], n) /\ Rises(w, n)
      BY <1>10, <3>3, <3>4, PieceMore
    <3> QED
      BY <3>1, <3>3, <3>5
  <2>3. T \in SUBSET Nat
    OBVIOUS
  <2> HIDE DEF T
  <2>4. T = Nat
    BY <2>1, <2>2, <2>3, Induction
  <2> QED
    BY <2>4 DEF T
<1>12. Layout(w, s, FlattenSeq(s))
  BY <1>1, <1>4, <1>10, <1>11 DEF Layout
<1> QED
  BY <1>1, <1>4, <1>8, <1>12

\* A place lies in the i-th piece.
Within(p, w, s, t, i) == \E y \in 1 .. Len(s[i]) : p = w[i - 1] + y /\ t[p] = s[i][y]

\* Every place of the text lies in one of the pieces.
LEMMA Located ==
  ASSUME NEW D, NEW s \in Seq(Seq(D)), NEW t, NEW w, Layout(w, s, t), NEW p \in 1 .. Len(t)
  PROVE  \E i \in 1 .. Len(s) : Within(p, w, s, t, i)
<1>1. PICK m \in Nat : m = Len(s)
  BY LenProperties
<1>2. w[0] = 0 /\ (\A i \in 0 .. m : w[i] \in Nat) /\ Len(t) = w[m]
  BY <1>1 DEF Layout, Edges
<1> DEFINE S == {i \in 0 .. m : p <= w[i]}
<1>3. S # {} /\ S \in SUBSET Nat
  <2>1. m \in S
    BY <1>2
  <2> QED
    BY <2>1
<1>4. PICK i \in S : \A j \in S : i <= j
  <2> HIDE DEF S
  <2> QED
    BY <1>3, Least
<1>5. i \in 1 .. m /\ i - 1 \in 0 .. m
  BY <1>2
<1>6. ~(p <= w[i - 1])
  BY <1>4, <1>5
<1>7. s[i] \in Seq(D) /\ w[i] = w[i - 1] + Len(s[i])
  BY <1>1, <1>5, ElementOfSeq DEF Layout, Edges
<1>8. PICK a \in Nat : a = w[i - 1]
  BY <1>2, <1>5
<1>9. PICK l \in Nat : l = Len(s[i])
  BY <1>7, LenProperties
<1>10. PICK y \in 1 .. l : p = a + y
  <2>1. p <= a + l /\ ~(p <= a) /\ p \in Int
    BY <1>2, <1>6, <1>7, <1>8, <1>9
  <2>2. p - a \in 1 .. l /\ p = a + (p - a)
    BY <2>1
  <2> QED
    BY <2>2
<1>11. t[p] = s[i][y]
  BY <1>1, <1>5, <1>8, <1>9, <1>10 DEF Layout, Pieces
<1>12. Within(p, w, s, t, i)
  BY <1>8, <1>9, <1>10, <1>11 DEF Within
<1> QED
  BY <1>1, <1>5, <1>12

\* Parts of a text, each with the place it begins at, and the same character between
\* one and the next.
Spread(b, parts, c, t) ==
  /\ b \in [1 .. Len(parts) -> Nat \ {0}]
  /\ Len(parts) # 0 => b[1] = 1
  /\ \A k \in 1 .. Len(parts) : \A y \in 1 .. Len(parts[k]) : t[b[k] - 1 + y] = parts[k][y]
  /\ \A k \in 2 .. Len(parts) : b[k] = b[k - 1] + Len(parts[k - 1]) + 1 /\ t[b[k] - 1] = c
  /\ \A k, l \in 1 .. Len(parts) : k < l => b[k] + Len(parts[k]) < b[l]
  /\ Len(t) = IF Len(parts) = 0 THEN 0 ELSE b[Len(parts)] + Len(parts[Len(parts)]) - 1
  /\ \A p \in 1 .. Len(t) :
       \E k \in 1 .. Len(parts) : p \in b[k] - 1 .. b[k] + Len(parts[k]) - 1

\* Joined lays its parts out like that.
LEMMA Spreads ==
  ASSUME NEW D, NEW c \in D, NEW parts \in Seq(Seq(D))
  PROVE  Joined(parts, c) \in Seq(D) /\ \E b : Spread(b, parts, c, Joined(parts, c))
<1>1. PICK m \in Nat : m = Len(parts)
  BY LenProperties
<1>2. \A k \in 1 .. m : parts[k] \in Seq(D) /\ Len(parts[k]) \in Nat
  BY <1>1, ElementOfSeq, LenProperties
<1> DEFINE piece(i) == IF i = 1 THEN parts[i] ELSE <<c>> \o parts[i]
           s == [i \in 1 .. m |-> piece(i)]
           t == FlattenSeq(s)
<1>3. Joined(parts, c) = t
  <2>1. DOMAIN parts = 1 .. m
    BY <1>1, LenProperties
  <2> QED
    BY <2>1 DEF Joined
<1>4. /\ <<c>> \in Seq(D) /\ Len(<<c>>) = 1 /\ <<c>>[1] = c
  OBVIOUS
<1>5. ASSUME NEW k \in 2 .. m
      PROVE  /\ <<c>> \o parts[k] \in Seq(D) /\ Len(<<c>> \o parts[k]) = 1 + Len(parts[k])
             /\ (<<c>> \o parts[k])[1] = c
             /\ \A y \in 1 .. Len(parts[k]) : (<<c>> \o parts[k])[1 + y] = parts[k][y]
  <2>1. parts[k] \in Seq(D) /\ Len(parts[k]) \in Nat
    BY <1>2
  <2>2. PICK l \in Nat : l = Len(parts[k])
    BY <2>1
  <2>3. /\ <<c>> \o parts[k] \in Seq(D) /\ Len(<<c>> \o parts[k]) = 1 + l
        /\ \A i \in 1 .. 1 + l :
             (<<c>> \o parts[k])[i] = IF i <= 1 THEN <<c>>[i] ELSE parts[k][i - 1]
    BY <1>4, <2>1, <2>2, ConcatProperties
  <2>4. 1 \in 1 .. 1 + l /\ \A y \in 1 .. l : 1 + y \in 1 .. 1 + l /\ ~(1 + y <= 1) /\ (1 + y) - 1 = y
    OBVIOUS
  <2> QED
    BY <1>4, <2>2, <2>3, <2>4
<1>6. \A i \in 1 .. m : piece(i) \in Seq(D)
  BY <1>2, <1>5
<1>7. s \in Seq(Seq(D)) /\ Len(s) = m
  <2> HIDE DEF piece
  <2>1. s \in [1 .. m -> Seq(D)]
    BY <1>6
  <2>2. s \in Seq(Seq(D))
    BY <2>1, SeqDef
  <2> QED
    BY <2>1, <2>2, LenProperties
<1>8. /\ \A i \in 1 .. m : i = 1 => s[i] = parts[i]
      /\ \A i \in 1 .. m : i # 1 => s[i] = <<c>> \o parts[i]
  OBVIOUS
<1> HIDE DEF s, piece
<1>9. t \in Seq(D)
  BY <1>7, Flat
<1>10. PICK w : Layout(w, s, t)
  BY <1>7, Flat
<1> HIDE DEF t
<1>11. /\ w[0] = 0 /\ (\A i \in 0 .. m : w[i] \in Nat) /\ Len(t) = w[m]
       /\ \A i \in 1 .. m : w[i] = w[i - 1] + Len(s[i])
       /\ \A n \in 0 .. m : \A i \in 0 .. n : w[i] <= w[n]
       /\ \A i \in 1 .. m : \A y \in 1 .. Len(s[i]) : t[w[i - 1] + y] = s[i][y]
  BY <1>7, <1>10 DEF Layout, Edges, Rises, Pieces
<1> DEFINE gap(k) == IF k = 1 THEN 0 ELSE 1
           b == [k \in 1 .. m |-> w[k - 1] + gap(k) + 1]
<1>12. ASSUME NEW k \in 1 .. m
       PROVE  /\ b[k] = w[k - 1] + gap(k) + 1 /\ b[k] \in Nat \ {0} /\ w[k - 1] \in Nat
              /\ w[k] = b[k] + Len(parts[k]) - 1
              /\ \A y \in 1 .. Len(parts[k]) : t[b[k] - 1 + y] = parts[k][y]
              /\ k # 1 => t[b[k] - 1] = c
  <2>1. w[k - 1] \in Nat /\ w[k] = w[k - 1] + Len(s[k])
    BY <1>11
  <2>2. PICK a \in Nat : a = w[k - 1]
    BY <2>1
  <2>3. PICK l \in Nat : l = Len(parts[k])
    BY <1>2
  <2>4. PICK d \in Nat : d = b[k] /\ d = a + gap(k) + 1
    BY <2>2
  <2> HIDE DEF b
  <2>5. \A y \in 1 .. Len(s[k]) : t[a + y] = s[k][y]
    BY <1>11, <2>2
  <2>6. PICK z \in Nat : z = Len(s[k])
    <3>1. s[k] \in Seq(D)
      BY <1>7, ElementOfSeq
    <3> QED
      BY <3>1, LenProperties
  <2>7. w[k] = a + z
    BY <2>1, <2>2, <2>6
  <2>8. CASE k = 1
    <3>1. d = a + 1 /\ s[k] = parts[k]
      BY <1>8, <2>4, <2>8
    <3>2. w[k] = d + l - 1
      <4>1. z = l
        BY <2>3, <2>6, <3>1
      <4> QED
        BY <2>7, <3>1, <4>1
    <3>3. \A y \in 1 .. l : t[d - 1 + y] = parts[k][y]
      <4>1. d - 1 = a
        BY <3>1
      <4> QED
        BY <2>3, <2>5, <3>1, <4>1
    <3>4. d >= 1
      BY <3>1
    <3> QED
      BY <2>2, <2>3, <2>4, <2>8, <3>2, <3>3, <3>4
  <2>9. CASE k # 1
    <3>1. d = a + 2 /\ s[k] = <<c>> \o parts[k] /\ k \in 2 .. m
      BY <1>8, <2>4, <2>9
    <3>2. Len(s[k]) = 1 + l /\ s[k][1] = c /\ \A y \in 1 .. l : s[k][1 + y] = parts[k][y]
      BY <1>5, <2>3, <3>1
    <3>3. w[k] = d + l - 1
      <4>1. z = 1 + l
        BY <2>6, <3>2
      <4> QED
        BY <2>7, <3>1, <4>1
    <3>4. \A y \in 1 .. l : t[d - 1 + y] = parts[k][y]
      <4> SUFFICES ASSUME NEW y \in 1 .. l
                   PROVE  t[d - 1 + y] = parts[k][y]
        OBVIOUS
      <4>1. t[a + (1 + y)] = s[k][1 + y]
        <5>1. 1 + y \in 1 .. Len(s[k])
          <6>1. 1 + y \in 1 .. 1 + l
            BY <2>3
          <6> QED
            BY <3>2, <6>1
        <5> QED
          BY <2>5, <5>1
      <4>2. d - 1 + y = a + (1 + y)
        BY <3>1
      <4> QED
        BY <3>2, <4>1, <4>2
    <3>5. t[b[k] - 1] = c
      <4>1. 1 \in 1 .. Len(s[k]) /\ d - 1 = a + 1
        BY <3>1, <3>2
      <4>2. t[a + 1] = s[k][1]
        BY <2>5, <4>1
      <4> QED
        BY <2>4, <3>2, <4>1, <4>2
    <3>6. d >= 1
      BY <3>1
    <3>7. k # 1 => t[b[k] - 1] = c
      BY <3>5
    <3>8. b[k] = w[k - 1] + gap(k) + 1 /\ b[k] \in Nat \ {0} /\ w[k - 1] \in Nat
      BY <2>2, <2>4, <3>6
    <3>9. /\ w[k] = b[k] + Len(parts[k]) - 1
          /\ \A y \in 1 .. Len(parts[k]) : t[b[k] - 1 + y] = parts[k][y]
      BY <2>3, <2>4, <3>3, <3>4
    <3> QED
      BY <3>7, <3>8, <3>9
  <2> QED
    BY <2>8, <2>9
<1>13. b \in [1 .. m -> Nat \ {0}]
  <2> DEFINE x(k) == w[k - 1] + gap(k) + 1
  <2>1. \A k \in 1 .. m : x(k) \in Nat \ {0}
    BY <1>12
  <2> HIDE DEF x
  <2>2. [k \in 1 .. m |-> x(k)] \in [1 .. m -> Nat \ {0}]
    BY <2>1
  <2> QED
    BY <2>2 DEF x
<1> HIDE DEF b
<1>14. m # 0 => b[1] = 1
  <2> SUFFICES ASSUME m # 0
               PROVE  b[1] = 1
    OBVIOUS
  <2>1. PICK k \in 1 .. m : k = 1
    OBVIOUS
  <2>2. gap(k) = 0 /\ k - 1 = 0
    BY <2>1
  <2> HIDE DEF gap
  <2>3. b[k] = w[k - 1] + gap(k) + 1
    BY <1>12
  <2>4. b[k] = 0 + 0 + 1
    BY <1>11, <2>2, <2>3
  <2> QED
    BY <2>1, <2>4
<1>15. \A k \in 2 .. m : b[k] = b[k - 1] + Len(parts[k - 1]) + 1 /\ t[b[k] - 1] = c
  <2> SUFFICES ASSUME NEW k \in 2 .. m
               PROVE  b[k] = b[k - 1] + Len(parts[k - 1]) + 1 /\ t[b[k] - 1] = c
    OBVIOUS
  <2>1. PICK j \in 1 .. m : j = k - 1
    OBVIOUS
  <2>2. PICK v \in Nat : v = w[j]
    BY <1>11
  <2>3. b[k] = v + 2 /\ t[b[k] - 1] = c
    <3>1. k # 1 /\ k \in 1 .. m /\ gap(k) = 1
      OBVIOUS
    <3> HIDE DEF gap
    <3>2. b[k] = v + 1 + 1 /\ t[b[k] - 1] = c
      BY <1>12, <2>1, <2>2, <3>1
    <3> QED
      BY <3>2
  <2>4. w[j] = b[j] + Len(parts[j]) - 1 /\ b[j] \in Nat /\ Len(parts[j]) \in Nat
    BY <1>2, <1>12
  <2>5. PICK x \in Nat : x = b[j]
    BY <2>4
  <2>6. PICK l \in Nat : l = Len(parts[j])
    BY <2>4
  <2>7. v = x + l - 1
    BY <2>4, <2>5, <2>6, <2>2
  <2>8. b[k] = x + l + 1
    <3>1. v + 2 = x + l + 1
      BY <2>7
    <3> QED
      BY <2>3, <3>1
  <2> QED
    BY <2>1, <2>3, <2>5, <2>6, <2>8
<1>16. \A k, l \in 1 .. m : k < l => b[k] + Len(parts[k]) < b[l]
  <2> SUFFICES ASSUME NEW k \in 1 .. m, NEW l \in 1 .. m, k < l
               PROVE  b[k] + Len(parts[k]) < b[l]
    OBVIOUS
  <2>1. w[k] = b[k] + Len(parts[k]) - 1 /\ b[k] \in Nat /\ Len(parts[k]) \in Nat
    BY <1>2, <1>12
  <2>2. l # 1 /\ l - 1 \in 0 .. m /\ k \in 0 .. l - 1 /\ gap(l) = 1
    OBVIOUS
  <2> HIDE DEF gap
  <2>3. w[k] <= w[l - 1]
    BY <1>11, <2>2
  <2>4. b[l] = w[l - 1] + 1 + 1 /\ w[l - 1] \in Nat
    BY <1>12, <2>2
  <2>5. PICK x \in Nat : x = b[k]
    BY <2>1
  <2>6. PICK z \in Nat : z = Len(parts[k])
    BY <2>1
  <2>7. PICK v \in Nat : v = w[l - 1]
    BY <2>4
  <2>8. x + z - 1 <= v
    BY <2>1, <2>3, <2>5, <2>6, <2>7
  <2>9. x + z < v + 1 + 1
    BY <2>8
  <2> QED
    BY <2>4, <2>5, <2>6, <2>7, <2>9
<1>17. Len(t) = IF m = 0 THEN 0 ELSE b[m] + Len(parts[m]) - 1
  BY <1>11, <1>12
<1>18. \A p \in 1 .. Len(t) : \E k \in 1 .. m : p \in b[k] - 1 .. b[k] + Len(parts[k]) - 1
  <2> SUFFICES ASSUME NEW p \in 1 .. Len(t)
               PROVE  \E k \in 1 .. m : p \in b[k] - 1 .. b[k] + Len(parts[k]) - 1
    OBVIOUS
  <2>1. p \in 1 .. Len(t)
    OBVIOUS
  <2>2. \E k \in 1 .. Len(s) : Within(p, w, s, t, k)
    BY <1>7, <1>10, <2>1, Located
  <2>3. PICK k \in 1 .. m : Within(p, w, s, t, k)
    BY <1>7, <2>2
  <2>4. PICK y \in 1 .. Len(s[k]) : p = w[k - 1] + y
    BY <2>3 DEF Within
  <2>5. w[k - 1] \in Nat /\ w[k] = w[k - 1] + Len(s[k]) /\ w[k] \in Nat
    BY <1>11
  <2>6. PICK x \in Nat : x = b[k]
    BY <1>12
  <2>7. PICK l \in Nat : l = Len(parts[k])
    BY <1>2
  <2>8. PICK a \in Nat : a = w[k - 1]
    BY <2>5
  <2>9. x <= a + 2
    <3>1. gap(k) \in 0 .. 1
      OBVIOUS
    <3> HIDE DEF gap
    <3>2. x = a + gap(k) + 1
      BY <1>12, <2>6, <2>8
    <3> QED
      BY <3>1, <3>2
  <2>10. PICK z \in Nat : z = Len(s[k])
    <3>1. s[k] \in Seq(D)
      BY <1>7, ElementOfSeq
    <3> QED
      BY <3>1, LenProperties
  <2>11. a + z = x + l - 1
    <3>1. w[k] = b[k] + Len(parts[k]) - 1
      BY <1>12
    <3> QED
      BY <2>5, <2>6, <2>7, <2>10, <2>8, <3>1
  <2>12. p = a + y /\ y \in 1 .. z
    BY <2>4, <2>10, <2>8
  <2>13. p \in x - 1 .. x + l - 1
    BY <2>11, <2>9, <2>12
  <2> QED
    BY <2>6, <2>7, <2>13
<1>19. Spread(b, parts, c, t)
  BY <1>1, <1>12, <1>13, <1>14, <1>15, <1>16, <1>17, <1>18 DEF Spread
<1> QED
  BY <1>3, <1>9, <1>19
-----------------------------------------------------------------------------
(* What is escaped is read without its backslashes.                        *)

\* A character as Escaped writes it, and a text: where the writing of each of its
\* characters ends.
Shielded(x) == IF x \in Special THEN <<"\\", x>> ELSE <<x>>
Veiled(w, v, e) ==
  /\ w[0] = 0 /\ \A i \in 0 .. Len(v) : w[i] \in Nat /\ w[i] <= w[Len(v)]
  /\ \A i \in 1 .. Len(v) :
       /\ v[i] \in Special => w[i] = w[i - 1] + 2 /\ e[w[i - 1] + 1] = "\\"
       /\ v[i] \notin Special => w[i] = w[i - 1] + 1
       /\ e[w[i]] = v[i]
  /\ Len(e) = w[Len(v)]
  /\ \A p \in 1 .. Len(e) :
       \E i \in 1 .. Len(v) : p = w[i] \/ (v[i] \in Special /\ p = w[i - 1] + 1)

\* Escaped writes a text like that.
LEMMA Veils ==
  ASSUME NEW C, NEW v \in Seq(C)
  PROVE  Escaped(v) \in Seq(C \cup {"\\"}) /\ \E w : Veiled(w, v, Escaped(v))
<1>1. PICK n \in Nat : n = Len(v)
  BY LenProperties
<1>2. \A i \in 1 .. n : v[i] \in C
  BY <1>1, ElementOfSeq
<1> DEFINE D == C \cup {"\\"}
           s == [i \in 1 .. n |-> Shielded(v[i])]
           e == FlattenSeq(s)
<1>3. Escaped(v) = e
  <2>1. DOMAIN v = 1 .. n
    BY <1>1, LenProperties
  <2> QED
    BY <2>1 DEF Escaped, Shielded
<1>4. ASSUME NEW x \in C
      PROVE  /\ Shielded(x) \in Seq(D)
             /\ x \in Special => Len(Shielded(x)) = 2 /\ Shielded(x)[1] = "\\" /\ Shielded(x)[2] = x
             /\ x \notin Special => Len(Shielded(x)) = 1 /\ Shielded(x)[1] = x
  <2>1. CASE x \in Special
    <3>1. Shielded(x) = <<"\\", x>> /\ x \in D /\ "\\" \in D
      BY <2>1 DEF Shielded
    <3> HIDE DEF D
    <3>2. <<"\\", x>> \in Seq(D) /\ Len(<<"\\", x>>) = 2
      BY <3>1
    <3>3. <<"\\", x>>[1] = "\\" /\ <<"\\", x>>[2] = x
      OBVIOUS
    <3> QED
      BY <2>1, <3>1, <3>2, <3>3
  <2>2. CASE x \notin Special
    <3>1. Shielded(x) = <<x>> /\ x \in D
      BY <2>2 DEF Shielded
    <3> HIDE DEF D
    <3>2. <<x>> \in Seq(D) /\ Len(<<x>>) = 1 /\ <<x>>[1] = x
      BY <3>1
    <3> QED
      BY <2>2, <3>1, <3>2
  <2> QED
    BY <2>1, <2>2
<1>5. \A i \in 1 .. n : s[i] = Shielded(v[i])
  OBVIOUS
<1>6. s \in Seq(Seq(D)) /\ Len(s) = n
  <2> DEFINE x(i) == Shielded(v[i])
  <2>1. \A i \in 1 .. n : x(i) \in Seq(D)
    BY <1>2, <1>4
  <2> HIDE DEF x, D
  <2>2. [i \in 1 .. n |-> x(i)] \in [1 .. n -> Seq(D)]
    BY <2>1
  <2>3. s \in [1 .. n -> Seq(D)]
    BY <2>2 DEF x
  <2> HIDE DEF s
  <2>4. s \in Seq(Seq(D))
    BY <2>3, SeqDef
  <2> QED
    BY <2>3, <2>4, LenProperties
<1> HIDE DEF s, D
<1>7. e \in Seq(D)
  BY <1>6, Flat
<1>8. PICK w : Layout(w, s, e)
  BY <1>6, Flat
<1> HIDE DEF e
<1>9. /\ w[0] = 0 /\ (\A i \in 0 .. n : w[i] \in Nat /\ w[i] <= w[n]) /\ Len(e) = w[n]
      /\ \A i \in 1 .. n : w[i] = w[i - 1] + Len(s[i])
      /\ \A i \in 1 .. n : \A y \in 1 .. Len(s[i]) : e[w[i - 1] + y] = s[i][y]
  BY <1>6, <1>8 DEF Layout, Edges, Pieces, Rises
<1>10. ASSUME NEW i \in 1 .. n
       PROVE  /\ v[i] \in Special => w[i] = w[i - 1] + 2 /\ e[w[i - 1] + 1] = "\\"
              /\ v[i] \notin Special => w[i] = w[i - 1] + 1
              /\ e[w[i]] = v[i]
  <2>1. w[i] = w[i - 1] + Len(s[i]) /\ s[i] = Shielded(v[i]) /\ v[i] \in C
    BY <1>2, <1>5, <1>9
  <2>2. \A y \in 1 .. Len(s[i]) : e[w[i - 1] + y] = s[i][y]
    BY <1>9
  <2>3. CASE v[i] \in Special
    <3>1. Len(s[i]) = 2 /\ s[i][1] = "\\" /\ s[i][2] = v[i]
      BY <1>4, <2>1, <2>3
    <3>2. w[i] = w[i - 1] + 2 /\ 1 \in 1 .. Len(s[i]) /\ 2 \in 1 .. Len(s[i])
      BY <2>1, <3>1
    <3>3. e[w[i - 1] + 1] = "\\" /\ e[w[i - 1] + 2] = v[i]
      BY <2>2, <3>1, <3>2
    <3> QED
      BY <2>3, <3>2, <3>3
  <2>4. CASE v[i] \notin Special
    <3>1. Len(s[i]) = 1 /\ s[i][1] = v[i]
      BY <1>4, <2>1, <2>4
    <3>2. w[i] = w[i - 1] + 1 /\ 1 \in 1 .. Len(s[i])
      BY <2>1, <3>1
    <3>3. e[w[i - 1] + 1] = v[i]
      BY <2>2, <3>1, <3>2
    <3> QED
      BY <2>4, <3>2, <3>3
  <2> QED
    BY <2>3, <2>4
<1>11. ASSUME NEW p \in 1 .. Len(e)
       PROVE  \E i \in 1 .. n : p = w[i] \/ (v[i] \in Special /\ p = w[i - 1] + 1)
  <2>1. \E i \in 1 .. Len(s) : Within(p, w, s, e, i)
    BY <1>6, <1>8, Located
  <2>2. PICK i \in 1 .. n : Within(p, w, s, e, i)
    BY <1>6, <2>1
  <2>3. PICK y \in 1 .. Len(s[i]) : p = w[i - 1] + y
    BY <2>2 DEF Within
  <2>4. s[i] = Shielded(v[i]) /\ v[i] \in C
    BY <1>2, <1>5
  <2>5. CASE v[i] \in Special
    <3>1. Len(s[i]) = 2
      BY <1>4, <2>4, <2>5
    <3>2. y = 1 \/ y = 2
      BY <3>1
    <3> QED
      BY <1>10, <2>3, <2>5, <3>2
  <2>6. CASE v[i] \notin Special
    <3>1. Len(s[i]) = 1
      BY <1>4, <2>4, <2>6
    <3>2. y = 1
      BY <3>1
    <3> QED
      BY <1>10, <2>3, <2>6, <3>2
  <2> QED
    BY <2>5, <2>6
<1>12. Veiled(w, v, e)
  BY <1>1, <1>9, <1>10, <1>11 DEF Veiled
<1> QED
  BY <1>3, <1>7, <1>12 DEF D

\* In what Escaped writes a backslash stands before every special character, and
\* none at the end.
Guarded(e) ==
  /\ \A p \in 1 .. Len(e) : e[p] \in Special => p # 1 /\ e[p - 1] = "\\"
  /\ Len(e) # 0 => e[Len(e)] # "\\"

\* Escaped guards a text in which no backslash stands.
LEMMA Guards ==
  ASSUME NEW C, "\\" \notin C, NEW v \in Seq(C)
  PROVE  Guarded(Escaped(v)) /\ (Len(v) # 0 => Len(Escaped(v)) # 0)
<1>1. PICK n \in Nat : n = Len(v)
  BY LenProperties
<1>2. \A i \in 1 .. n : v[i] \in C /\ v[i] # "\\"
  BY <1>1, ElementOfSeq
<1> DEFINE e == Escaped(v)
<1>3. PICK w : Veiled(w, v, e)
  BY Veils
<1> HIDE DEF e
<1>4. /\ w[0] = 0 /\ (\A i \in 0 .. n : w[i] \in Nat) /\ Len(e) = w[n]
      /\ \A i \in 1 .. n :
           /\ v[i] \in Special => w[i] = w[i - 1] + 2 /\ e[w[i - 1] + 1] = "\\"
           /\ v[i] \notin Special => w[i] = w[i - 1] + 1
           /\ e[w[i]] = v[i]
      /\ \A p \in 1 .. Len(e) :
           \E i \in 1 .. n : p = w[i] \/ (v[i] \in Special /\ p = w[i - 1] + 1)
  BY <1>1, <1>3 DEF Veiled
<1>5. ASSUME NEW p \in 1 .. Len(e), e[p] \in Special
      PROVE  p # 1 /\ e[p - 1] = "\\"
  <2>1. PICK i \in 1 .. n : p = w[i] \/ (v[i] \in Special /\ p = w[i - 1] + 1)
    BY <1>4
  <2>2. e[p] # "\\"
    BY <1>5 DEF Special
  <2>3. PICK a \in Nat : a = w[i - 1]
    BY <1>4
  <2>4. p = w[i]
    BY <1>4, <2>1, <2>2
  <2>5. v[i] \in Special
    BY <1>4, <1>5, <2>4
  <2>6. p = a + 2 /\ e[a + 1] = "\\"
    BY <1>4, <2>3, <2>4, <2>5
  <2>7. p # 1 /\ p - 1 = a + 1
    BY <2>6
  <2> QED
    BY <2>6, <2>7
<1>6. n # 0 => w[n] # 0 /\ e[w[n]] # "\\"
  <2> SUFFICES ASSUME n # 0
               PROVE  w[n] # 0 /\ e[w[n]] # "\\"
    OBVIOUS
  <2>1. n \in 1 .. n /\ n - 1 \in 0 .. n
    OBVIOUS
  <2>2. PICK a \in Nat : a = w[n - 1]
    BY <1>4, <2>1
  <2>3. w[n] = a + 1 \/ w[n] = a + 2
    BY <1>4, <2>1, <2>2
  <2>4. e[w[n]] = v[n]
    BY <1>4, <2>1
  <2> QED
    BY <1>2, <2>1, <2>3, <2>4
<1>7. Len(e) # 0 => e[Len(e)] # "\\"
  BY <1>4, <1>6
<1>8. Guarded(e)
  BY <1>5, <1>7 DEF Guarded
<1> QED
  BY <1>1, <1>4, <1>6, <1>8 DEF e

\* The machine between two characters of the text that is meant.
Ready(m, u) == \E q : q # "\\" /\ m = [state |-> "text", prev |-> q, escape |-> FALSE, out |-> u]

\* A character that cli_simple_process_macros gives no meaning is copied.
LEMMA TakesPlain ==
  ASSUME NEW m, NEW u, Ready(m, u), NEW x, x \notin Special, x # "\\"
  PROVE  Ready(Expand(m, x), u \o <<x>>)
<1>1. PICK q : q # "\\" /\ m = [state |-> "text", prev |-> q, escape |-> FALSE, out |-> u]
  BY DEF Ready
<1>2. m.state = "text" /\ m.prev = q /\ m.escape = FALSE /\ m.out = u
  BY <1>1
<1>3. x # "\\" /\ x # "$" /\ x # "'"
  BY DEF Special
<1>4. Expand(m, x) = [state |-> "text", prev |-> x, escape |-> FALSE, out |-> u \o <<x>>]
  BY <1>1, <1>2, <1>3 DEF Expand
<1> QED
  BY <1>3, <1>4 DEF Ready

\* A special character after a backslash is copied and the backslash is taken away.
LEMMA TakesShielded ==
  ASSUME NEW m, NEW u, Ready(m, u), NEW x, x \in Special
  PROVE  Ready(Expand(Expand(m, "\\"), x), u \o <<x>>)
<1>1. PICK q : q # "\\" /\ m = [state |-> "text", prev |-> q, escape |-> FALSE, out |-> u]
  BY DEF Ready
<1>2. m.state = "text" /\ m.prev = q /\ m.escape = FALSE /\ m.out = u
  BY <1>1
<1> DEFINE k == [m EXCEPT !.escape = TRUE]
<1>3. Expand(m, "\\") = k
  BY <1>1, <1>2 DEF Expand
<1>4. k.state = "text" /\ k.prev = q /\ k.escape = TRUE /\ k.out = u
  BY <1>1
<1> HIDE DEF k
<1>5. x # "\\"
  BY DEF Special
<1>6. Expand(k, x) = [state |-> "text", prev |-> x, escape |-> FALSE, out |-> u \o <<x>>]
  BY <1>4, <1>5 DEF Expand
<1> QED
  BY <1>3, <1>5, <1>6 DEF Ready

\* The expansion takes every backslash of Escaped away again and changes nothing else.
LEMMA Unescapes ==
  ASSUME NEW C, "\\" \notin C, NEW v \in Seq(C)
  PROVE  Macros(Escaped(v)) = v
<1>1. PICK n \in Nat : n = Len(v)
  BY LenProperties
<1>2. \A i \in 1 .. n : v[i] \in C /\ v[i] # "\\"
  BY <1>1, ElementOfSeq
<1> DEFINE e == Escaped(v)
<1>3. PICK w : Veiled(w, v, e)
  BY Veils
<1>4. e \in Seq(C \cup {"\\"})
  BY Veils
<1> HIDE DEF e
<1>5. PICK l \in Nat : l = Len(e)
  BY <1>4, LenProperties
<1>6. /\ w[0] = 0 /\ (\A i \in 0 .. n : w[i] \in Nat /\ w[i] <= w[n]) /\ l = w[n]
      /\ \A i \in 1 .. n :
           /\ v[i] \in Special => w[i] = w[i - 1] + 2 /\ e[w[i - 1] + 1] = "\\"
           /\ v[i] \notin Special => w[i] = w[i - 1] + 1
           /\ e[w[i]] = v[i]
  BY <1>1, <1>3, <1>5 DEF Veiled
<1> DEFINE g == CHOOSE f : f = [i \in 0 .. Len(e) |-> IF i = 0 THEN Start ELSE Expand(f[i - 1], e[i])]
<1>7. Macros(e) = g[l].out
  BY <1>5 DEF Macros
<1>8. Expansion(g, e, l)
  <2>1. \E f : f = [i \in 0 .. Len(e) |-> IF i = 0 THEN Start ELSE Expand(f[i - 1], e[i])]
    BY <1>5, Expands DEF Expansion
  <2>2. g = [i \in 0 .. Len(e) |-> IF i = 0 THEN Start ELSE Expand(g[i - 1], e[i])]
    BY <2>1, Zenon
  <2> HIDE DEF g
  <2> QED
    BY <1>5, <2>2 DEF Expansion
<1> HIDE DEF g
<1>9. \A i \in 0 .. l : g[i] = IF i = 0 THEN Start ELSE Expand(g[i - 1], e[i])
  <2> DEFINE x(i) == IF i = 0 THEN Start ELSE Expand(g[i - 1], e[i])
  <2>1. g = [i \in 0 .. l |-> x(i)]
    BY <1>8 DEF Expansion
  <2> HIDE DEF x
  <2>2. \A i \in 0 .. l : g[i] = x(i)
    BY <2>1
  <2> QED
    BY <2>2 DEF x
<1>10. g[0] = Start
  BY <1>9
<1>11. \A i \in 0 .. l : i + 1 <= l => g[i + 1] = Expand(g[i], e[i + 1])
  <2> SUFFICES ASSUME NEW i \in 0 .. l, i + 1 <= l
               PROVE  g[i + 1] = Expand(g[i], e[i + 1])
    OBVIOUS
  <2>1. i + 1 \in 0 .. l /\ i + 1 # 0 /\ (i + 1) - 1 = i
    OBVIOUS
  <2> QED
    BY <1>9, <2>1

<1>12. \A k \in 0 .. n : w[k] <= l
  BY <1>6
<1>13. \A k \in 0 .. n : Ready(g[w[k]], SubSeq(v, 1, k))
  <2> DEFINE T == {k \in Nat : k <= n => Ready(g[w[k]], SubSeq(v, 1, k))}
  <2>1. 0 \in T
    <3>1. SubSeq(v, 1, 0) = <<>>
      BY SubSeqEmpty
    <3>2. Start = [state |-> "text", prev |-> "NUL", escape |-> FALSE, out |-> <<>>]
      BY DEF Start
    <3>3. Ready(Start, <<>>)
      BY <3>2 DEF Ready
    <3> QED
      BY <1>6, <1>10, <3>1, <3>3
  <2>2. ASSUME NEW k \in T
        PROVE  k + 1 \in T
    <3> SUFFICES ASSUME k + 1 <= n
                 PROVE  Ready(g[w[k + 1]], SubSeq(v, 1, k + 1))
      OBVIOUS
    <3>1. PICK i \in 1 .. n : i = k + 1
      OBVIOUS
    <3>2. k \in 0 .. n /\ k = i - 1
      BY <3>1
    <3>3. PICK a \in Nat : a = w[k]
      BY <1>6, <3>2
    <3>4. Ready(g[a], SubSeq(v, 1, k))
      BY <3>1, <3>3
    <3>5. SubSeq(v, 1, i) = SubSeq(v, 1, k) \o <<v[i]>>
      <4>1. 1 \in 1 .. Len(v) /\ i \in 1 .. Len(v)
        BY <1>1
      <4>2. SubSeq(v, 1, i) = SubSeq(v, 1, i - 1) \o <<v[i]>>
        BY <4>1, SubSeqRecursiveSecond
      <4> QED
        BY <3>2, <4>2
    <3>6. w[i] <= l /\ e[w[i]] = v[i] /\ v[i] # "\\"
      BY <1>2, <1>6, <1>12
    <3>7. CASE v[i] \in Special
      <4>1. w[i] = a + 2 /\ e[a + 1] = "\\"
        BY <1>6, <3>2, <3>3, <3>7
      <4>2. a + 1 <= l /\ a \in 0 .. l /\ a + 1 \in 0 .. l /\ (a + 1) + 1 <= l /\ (a + 1) + 1 = a + 2
        BY <3>6, <4>1
      <4>3. g[a + 1] = Expand(g[a], "\\")
        BY <1>11, <4>1, <4>2
      <4>4. g[a + 2] = Expand(g[a + 1], v[i])
        BY <1>11, <3>6, <4>1, <4>2
      <4>5. Ready(g[a + 2], SubSeq(v, 1, k) \o <<v[i]>>)
        BY <3>4, <3>7, <4>3, <4>4, TakesShielded
      <4> QED
        BY <3>1, <3>5, <4>1, <4>5
    <3>8. CASE v[i] \notin Special
      <4>1. w[i] = a + 1
        BY <1>6, <3>2, <3>3, <3>8
      <4>2. a + 1 <= l /\ a \in 0 .. l
        BY <3>6, <4>1
      <4>3. g[a + 1] = Expand(g[a], v[i])
        BY <1>11, <3>6, <4>1, <4>2
      <4>4. Ready(g[a + 1], SubSeq(v, 1, k) \o <<v[i]>>)
        BY <3>4, <3>6, <3>8, <4>3, TakesPlain
      <4> QED
        BY <3>1, <3>5, <4>1, <4>4
    <3> QED
      BY <3>7, <3>8
  <2>3. T \in SUBSET Nat
    OBVIOUS
  <2> HIDE DEF T
  <2>4. T = Nat
    BY <2>1, <2>2, <2>3, Induction
  <2> QED
    BY <2>4 DEF T
<1>14. Ready(g[l], v)
  <2>1. SubSeq(v, 1, n) = v
    BY <1>1, SubSeqFull
  <2>2. Ready(g[w[n]], SubSeq(v, 1, n))
    BY <1>13
  <2> QED
    BY <1>6, <2>1, <2>2
<1>15. g[l].out = v
  BY <1>14 DEF Ready
<1> QED
  BY <1>7, <1>15 DEF e
-----------------------------------------------------------------------------
(* Words and commands are found again.                                     *)

\* An enumeration without repetition has as many elements as places.
LEMMA Enumerated ==
  ASSUME NEW m \in Nat, NEW b, \A k, l \in 1 .. m : k < l => b[k] # b[l], NEW n \in 0 .. m
  PROVE  Cardinality({b[i] : i \in 1 .. n}) = n
<1> DEFINE S(k) == {b[i] : i \in 1 .. k}
           T == {k \in Nat : k <= m => IsFiniteSet(S(k)) /\ Cardinality(S(k)) = k}
<1>1. 0 \in T
  <2>1. S(0) = {}
    OBVIOUS
  <2> HIDE DEF S
  <2> QED
    BY <2>1, FS_EmptySet
<1>2. ASSUME NEW k \in T
      PROVE  k + 1 \in T
  <2> SUFFICES ASSUME k + 1 <= m
               PROVE  IsFiniteSet(S(k + 1)) /\ Cardinality(S(k + 1)) = k + 1
    OBVIOUS
  <2>1. k \in Nat /\ IsFiniteSet(S(k)) /\ Cardinality(S(k)) = k
    OBVIOUS
  <2>2. S(k + 1) = S(k) \cup {b[k + 1]}
    <3>1. 1 .. k + 1 = (1 .. k) \cup {k + 1}
      BY <2>1
    <3> QED
      BY <3>1
  <2>3. b[k + 1] \notin S(k)
    <3> SUFFICES ASSUME NEW i \in 1 .. k, b[k + 1] = b[i]
                 PROVE  FALSE
      OBVIOUS
    <3>1. i \in 1 .. m /\ k + 1 \in 1 .. m /\ i < k + 1
      BY <2>1
    <3> QED
      BY <3>1
  <2> HIDE DEF S
  <2>4. IsFiniteSet(S(k) \cup {b[k + 1]}) /\ Cardinality(S(k) \cup {b[k + 1]}) = k + 1
    <3>1. PICK X : X = S(k)
      OBVIOUS
    <3>2. IsFiniteSet(X) /\ Cardinality(X) = k /\ b[k + 1] \notin X
      BY <2>1, <2>3, <3>1
    <3>3. /\ IsFiniteSet(X \cup {b[k + 1]})
          /\ Cardinality(X \cup {b[k + 1]}) = Cardinality(X) + 1
      BY <3>2, FS_AddElement
    <3> QED
      BY <3>1, <3>2, <3>3
  <2> QED
    BY <2>2, <2>4
<1>3. T = Nat
  <2>1. T \in SUBSET Nat
    OBVIOUS
  <2> HIDE DEF T
  <2> QED
    BY <1>1, <1>2, <2>1, Induction
<1>4. n \in T /\ n <= m
  <2> HIDE DEF T
  <2>1. n \in Nat /\ n <= m
    OBVIOUS
  <2> QED
    BY <1>3, <2>1
<1> QED
  BY <1>4

\* Words with a blank between one and the next are found again, if there is room for
\* them all.
LEMMA Separates ==
  ASSUME NEW C, NEW c, Blanks = {c}, c \notin C, NEW cmd \in Seq(Seq(C)), NEW room \in Nat, Len(cmd) <= room,
         \A k \in 1 .. Len(cmd) : cmd[k] # <<>>
  PROVE  Words(Joined(cmd, c), room) = cmd
<1>1. PICK m \in Nat : m = Len(cmd)
  BY LenProperties
<1> DEFINE D == C \cup {c}
           j == Joined(cmd, c)
           L(k) == Len(cmd[k])
<1>2. \A k \in 1 .. m : /\ cmd[k] \in Seq(C) /\ L(k) \in Nat \ {0}
                        /\ \A y \in 1 .. L(k) : cmd[k][y] \notin Blanks
  <2> SUFFICES ASSUME NEW k \in 1 .. m
               PROVE  /\ cmd[k] \in Seq(C) /\ L(k) \in Nat \ {0}
                      /\ \A y \in 1 .. L(k) : cmd[k][y] \notin Blanks
    OBVIOUS
  <2>1. cmd[k] \in Seq(C) /\ cmd[k] # <<>>
    BY <1>1, ElementOfSeq
  <2>2. L(k) \in Nat \ {0}
    BY <2>1, EmptySeq
  <2>3. \A y \in 1 .. L(k) : cmd[k][y] \in C
    BY <2>1, ElementOfSeq
  <2> QED
    BY <2>1, <2>2, <2>3
<1>3. cmd \in Seq(Seq(D)) /\ c \in D
  <2>1. \A k \in 1 .. m : cmd[k] \in Seq(D)
    <3>1. C \subseteq D
      OBVIOUS
    <3> HIDE DEF D
    <3> QED
      BY <1>2, <3>1, SeqMonotonic
  <2>2. cmd \in [1 .. m -> Seq(D)]
    <3>1. cmd \in [1 .. m -> Seq(C)]
      BY <1>1, LenProperties
    <3> HIDE DEF D
    <3> QED
      BY <2>1, <3>1
  <2>3. cmd \in Seq(Seq(D))
    <3> HIDE DEF D
    <3> QED
      BY <2>2, SeqDef
  <2> QED
    BY <2>3
<1> HIDE DEF D
<1>4. j \in Seq(D) /\ \E b : Spread(b, cmd, c, j)
  BY <1>3, Spreads
<1>5. PICK b : Spread(b, cmd, c, j)
  BY <1>4
<1> HIDE DEF j
<1>6. PICK l \in Nat : l = Len(j)
  BY <1>4, LenProperties
<1>7. /\ m # 0 => b[1] = 1
      /\ l = IF m = 0 THEN 0 ELSE b[m] + L(m) - 1
      /\ \A p \in 1 .. l : \E k \in 1 .. m : p \in b[k] - 1 .. b[k] + L(k) - 1
  BY <1>1, <1>5, <1>6 DEF Spread
<1>8. \A k \in 1 .. m : /\ b[k] \in Nat \ {0}
                        /\ \A y \in 1 .. L(k) : j[b[k] - 1 + y] = cmd[k][y]
                        /\ k # 1 => j[b[k] - 1] = c
  <2>1. b \in [1 .. m -> Nat \ {0}] /\ \A k \in 2 .. m : j[b[k] - 1] = c
    BY <1>1, <1>5 DEF Spread
  <2>2. \A k \in 1 .. m : \A y \in 1 .. L(k) : j[b[k] - 1 + y] = cmd[k][y]
    BY <1>1, <1>5 DEF Spread
  <2>3. \A k \in 1 .. m : k # 1 => k \in 2 .. m
    OBVIOUS
  <2> QED
    BY <2>1, <2>2, <2>3
<1>9. \A k, i \in 1 .. m : k < i => b[k] + L(k) < b[i]
  BY <1>1, <1>5 DEF Spread
<1>10. ASSUME NEW k \in 1 .. m
       PROVE  b[k] + L(k) - 1 <= l /\ (k # m => b[k] + L(k) <= l /\ j[b[k] + L(k)] = c)
  <2>1. PICK x \in Nat \ {0} : x = b[k]
    BY <1>8
  <2>2. PICK z \in Nat \ {0} : z = L(k)
    BY <1>2
  <2>3. CASE k = m
    BY <1>7, <2>1, <2>2, <2>3
  <2>4. CASE k # m
    <3>1. PICK i \in 2 .. m : i = k + 1
      BY <2>4
    <3>2. b[i] = b[k] + L(k) + 1
      BY <1>1, <1>5, <3>1 DEF Spread
    <3>3. b[i] - 1 = x + z
      BY <2>1, <2>2, <3>2
    <3>4. j[x + z] = c
      BY <1>8, <3>1, <3>3
    <3>5. x + z <= l
      <4>1. PICK y \in Nat \ {0} : y = b[m]
        BY <1>8, <3>1
      <4>2. PICK v \in Nat \ {0} : v = L(m)
        BY <1>2, <3>1
      <4>3. k < m /\ k \in 1 .. m /\ m \in 1 .. m
        BY <2>4
      <4>4. b[k] + L(k) < b[m]
        BY <1>9, <4>3
      <4>5. x + z < y
        BY <2>1, <2>2, <4>1, <4>4
      <4>6. l = y + v - 1
        BY <1>7, <3>1, <4>1, <4>2
      <4> QED
        BY <4>5, <4>6
    <3>6. b[k] + L(k) = x + z
      BY <2>1, <2>2
    <3> HIDE DEF L
    <3>7. x + z - 1 <= l
      BY <3>5
    <3>8. b[k] + L(k) - 1 <= l
      BY <2>1, <2>2, <3>7
    <3>9. b[k] + L(k) <= l /\ j[b[k] + L(k)] = c
      BY <3>4, <3>5, <3>6
    <3> QED
      BY <3>8, <3>9
  <2> QED
    BY <2>3, <2>4
<1>11. Begins(j) = {b[k] : k \in 1 .. m}
  <2>1. ASSUME NEW k \in 1 .. m
        PROVE  b[k] \in Begins(j)
    <3>1. PICK x \in Nat \ {0} : x = b[k]
      BY <1>8
    <3>2. PICK z \in Nat \ {0} : z = L(k)
      BY <1>2
    <3>3. x \in 1 .. l
      <4>1. x + z - 1 <= l
        BY <1>10, <3>1, <3>2
      <4> QED
        BY <4>1
    <3>4. j[x] \notin Blanks
      <4>1. 1 \in 1 .. z
        OBVIOUS
      <4>2. j[x - 1 + 1] = cmd[k][1] /\ cmd[k][1] \notin Blanks
        BY <1>2, <1>8, <3>1, <3>2, <4>1
      <4>3. x - 1 + 1 = x
        OBVIOUS
      <4> QED
        BY <4>2, <4>3
    <3>5. x = 1 \/ j[x - 1] \in Blanks
      BY <1>7, <1>8, <3>1
    <3> QED
      BY <1>6, <3>1, <3>3, <3>4, <3>5 DEF Begins
  <2>2. ASSUME NEW p \in Begins(j)
        PROVE  p \in {b[k] : k \in 1 .. m}
    <3>1. p \in 1 .. l /\ j[p] \notin Blanks /\ (p = 1 \/ j[p - 1] \in Blanks)
      BY <1>6 DEF Begins
    <3>2. PICK k \in 1 .. m : p \in b[k] - 1 .. b[k] + L(k) - 1
      BY <1>7, <3>1
    <3>3. PICK x \in Nat \ {0} : x = b[k]
      BY <1>8
    <3>4. PICK z \in Nat \ {0} : z = L(k)
      BY <1>2
    <3>5. p \in x - 1 .. x + z - 1
      BY <3>2, <3>3, <3>4
    <3>6. p # x - 1
      <4> SUFFICES ASSUME p = x - 1
                   PROVE  FALSE
        OBVIOUS
      <4>1. k # 1
        BY <1>7, <3>1, <3>3
      <4>2. j[x - 1] = c
        BY <1>8, <3>3, <4>1
      <4> QED
        BY <3>1, <4>2
    <3>7. ~(p > x)
      <4> SUFFICES ASSUME p > x
                   PROVE  FALSE
        OBVIOUS
      <4>1. PICK y \in 1 .. z : x - 1 + y = p - 1
        <5>1. p - x \in 1 .. z /\ x - 1 + (p - x) = p - 1
          BY <3>5
        <5> QED
          BY <5>1
      <4>2. j[x - 1 + y] = cmd[k][y] /\ cmd[k][y] \notin Blanks
        BY <1>2, <1>8, <3>3, <3>4
      <4>3. p # 1
        BY <3>3
      <4> QED
        BY <3>1, <4>1, <4>2, <4>3
    <3>8. p = x
      BY <3>5, <3>6, <3>7
    <3> QED
      BY <3>3, <3>8
  <2> QED
    BY <2>1, <2>2
<1>12. \A k, i \in 1 .. m : k < i => b[k] < b[i] /\ b[k] # b[i]
  <2> SUFFICES ASSUME NEW k \in 1 .. m, NEW i \in 1 .. m, k < i
               PROVE  b[k] < b[i] /\ b[k] # b[i]
    OBVIOUS
  <2>1. b[k] + L(k) < b[i] /\ b[k] \in Nat /\ b[i] \in Nat /\ L(k) \in Nat
    BY <1>2, <1>8, <1>9
  <2> HIDE DEF L
  <2> QED
    BY <2>1
<1>13. \A n \in 0 .. m : Cardinality({b[i] : i \in 1 .. n}) = n
  <2>1. \A k, i \in 1 .. m : k < i => b[k] # b[i]
    BY <1>12
  <2>2. ASSUME NEW n \in 0 .. m
        PROVE  Cardinality({b[i] : i \in 1 .. n}) = n
    <3> HIDE DEF L
    <3> QED
      BY <2>1, Enumerated
  <2> QED
    BY <2>2
<1>14. Cardinality(Begins(j)) = m
  <2>1. m \in 0 .. m
    OBVIOUS
  <2> QED
    BY <1>11, <1>13, <2>1
<1>15. ASSUME NEW k \in 1 .. m
       PROVE  Cardinality({x \in Begins(j) : x < b[k]}) = k - 1
  <2>1. {x \in Begins(j) : x < b[k]} = {b[i] : i \in 1 .. k - 1}
    <3>1. ASSUME NEW i \in 1 .. m
          PROVE  b[i] < b[k] <=> i \in 1 .. k - 1
      <4>1. b[i] \in Nat /\ b[k] \in Nat
        BY <1>8
      <4>2. i < k => b[i] < b[k]
        BY <1>12
      <4>3. k < i => b[k] < b[i]
        BY <1>12
      <4>4. i = k \/ i < k \/ k < i
        OBVIOUS
      <4>5. i < k <=> i \in 1 .. k - 1
        OBVIOUS
      <4>6. i = k => ~(b[i] < b[k])
        BY <4>1
      <4> QED
        BY <4>1, <4>2, <4>3, <4>4, <4>5, <4>6
    <3>2. 1 .. k - 1 \subseteq 1 .. m
      OBVIOUS
    <3> QED
      BY <1>11, <3>1, <3>2
  <2>2. k - 1 \in 0 .. m
    OBVIOUS
  <2> QED
    BY <1>13, <2>1, <2>2
<1> DEFINE nth(k) == CHOOSE i \in Begins(j) : Cardinality({x \in Begins(j) : x < i}) = k - 1
<1>16. ASSUME NEW k \in 1 .. m
       PROVE  nth(k) = b[k]
  <2>1. b[k] \in Begins(j) /\ Cardinality({x \in Begins(j) : x < b[k]}) = k - 1
    BY <1>11, <1>15
  <2>2. nth(k) \in Begins(j) /\ Cardinality({x \in Begins(j) : x < nth(k)}) = k - 1
    BY <2>1, Zenon
  <2> HIDE DEF nth
  <2>3. PICK i \in 1 .. m : nth(k) = b[i]
    BY <1>11, <2>2
  <2>4. Cardinality({x \in Begins(j) : x < nth(k)}) = i - 1
    BY <1>15, <2>3
  <2>5. i - 1 = k - 1
    BY <2>2, <2>4
  <2>6. i = k
    BY <2>5
  <2> QED
    BY <2>3, <2>6
<1> HIDE DEF nth
<1>17. ASSUME NEW k \in 1 .. m
       PROVE  WordAt(j, b[k]) = cmd[k]
  <2>1. PICK x \in Nat \ {0} : x = b[k]
    BY <1>8
  <2>2. PICK z \in Nat \ {0} : z = L(k)
    BY <1>2
  <2> DEFINE E == {q \in x .. l : \A r \in x .. q : j[r] \notin Blanks}
  <2>3. \A y \in 1 .. z : j[x - 1 + y] = cmd[k][y]
    BY <1>8, <2>1, <2>2
  <2>4. x + z - 1 \in E
    <3>1. x + z - 1 \in x .. l
      <4>1. x + z - 1 <= l
        BY <1>10, <2>1, <2>2
      <4> QED
        BY <4>1
    <3>2. ASSUME NEW r \in x .. x + z - 1
          PROVE  j[r] \notin Blanks
      <4>1. PICK y \in 1 .. z : x - 1 + y = r
        <5>1. r - x + 1 \in 1 .. z /\ x - 1 + (r - x + 1) = r
          OBVIOUS
        <5> QED
          BY <5>1
      <4> QED
        BY <1>2, <2>2, <2>3, <4>1
    <3> QED
      BY <3>1, <3>2
  <2>5. \A q \in E : x + z - 1 >= q
    <3> SUFFICES ASSUME NEW q \in E
                 PROVE  x + z - 1 >= q
      OBVIOUS
    <3> SUFFICES ASSUME ~(x + z - 1 >= q)
                 PROVE  FALSE
      OBVIOUS
    <3>1. q \in x .. l /\ q >= x + z /\ x + z \in x .. q /\ j[x + z] \notin Blanks
      <4>1. q \in x .. l /\ \A r \in x .. q : j[r] \notin Blanks
        OBVIOUS
      <4>2. q >= x + z /\ x + z \in x .. q
        BY <4>1
      <4> QED
        BY <4>1, <4>2
    <3>2. k # m
      <4> SUFFICES ASSUME k = m
                   PROVE  FALSE
        OBVIOUS
      <4>1. l = x + z - 1
        BY <1>7, <2>1, <2>2
      <4> QED
        BY <3>1, <4>1
    <3>3. j[x + z] = c
      BY <1>10, <2>1, <2>2, <3>2
    <3> QED
      BY <3>1, <3>3
  <2>6. Max(E) = x + z - 1
    <3>1. \E q \in E : \A r \in E : q >= r
      BY <2>4, <2>5
    <3>2. Max(E) \in E /\ \A r \in E : Max(E) >= r
      BY <3>1, Zenon DEF Max
    <3>3. Max(E) \in Nat
      BY <3>2
    <3>4. Max(E) >= x + z - 1 /\ x + z - 1 >= Max(E)
      BY <2>4, <2>5, <3>2
    <3> HIDE DEF E
    <3> QED
      BY <3>3, <3>4
  <2>7. WordAt(j, x) = SubSeq(j, x, x + z - 1)
    BY <1>6, <2>6 DEF WordAt
  <2> HIDE DEF E
  <2>8. SubSeq(j, x, x + z - 1) = cmd[k]
    <3> DEFINE f == SubSeq(j, x, x + z - 1)
               hi == x + z - 1
    <3>1. \A i \in x .. hi : j[i] \in D
      <4>1. hi <= l
        BY <1>10, <2>1, <2>2
      <4>2. \A i \in 1 .. l : j[i] \in D
        BY <1>4, <1>6, ElementOfSeq
      <4> QED
        BY <4>1, <4>2
    <3>2. x \in Int /\ hi \in Int /\ x <= hi /\ hi - x + 1 = z
      OBVIOUS
    <3> HIDE DEF hi
    <3>3. /\ SubSeq(j, x, hi) \in Seq(D) /\ Len(SubSeq(j, x, hi)) = z
          /\ \A i \in 1 .. z : SubSeq(j, x, hi)[i] = j[x + i - 1]
      BY <3>1, <3>2, SubSeqProperties
    <3>4. cmd[k] \in Seq(D) /\ Len(cmd[k]) = z
      <4>1. cmd[k] \in Seq(D)
        BY <1>1, <1>3, ElementOfSeq
      <4> QED
        BY <2>2, <4>1
    <3>5. \A i \in 1 .. z : SubSeq(j, x, hi)[i] = cmd[k][i]
      <4> SUFFICES ASSUME NEW i \in 1 .. z
                   PROVE  SubSeq(j, x, hi)[i] = cmd[k][i]
        OBVIOUS
      <4>1. x + i - 1 = x - 1 + i
        OBVIOUS
      <4>2. j[x - 1 + i] = cmd[k][i]
        BY <2>3
      <4> QED
        BY <3>3, <4>1, <4>2
    <3>6. SubSeq(j, x, hi) = cmd[k]
      BY <3>3, <3>4, <3>5, SeqEqual
    <3> QED
      BY <3>6 DEF hi
  <2> QED
    BY <2>1, <2>7, <2>8
<1>18. Words(j, room) = [k \in 1 .. m |-> WordAt(j, nth(k))]
  <2>1. (IF m < room THEN m ELSE room) = m
    BY <1>1
  <2> QED
    BY <1>14, <2>1 DEF Words, nth
<1>19. \A k \in 1 .. m : WordAt(j, nth(k)) = cmd[k]
  BY <1>16, <1>17
<1>20. cmd = [k \in 1 .. m |-> cmd[k]]
  BY <1>1, LenProperties
<1> QED
  BY <1>18, <1>19, <1>20 DEF j

\* A text leads a line: it is all of it, or a separator follows.
Leads(u, t) ==
  /\ Len(u) <= Len(t) /\ \A p \in 1 .. Len(u) : t[p] = u[p]
  /\ Len(t) # Len(u) => t[Len(u) + 1] = ";"

\* A command that is written with its special characters escaped, at the beginning of
\* what is still to be done, is the one taken, and no more than it.
LEMMA TakesCommand ==
  ASSUME NEW D, NEW t \in Seq(D), NEW u \in Seq(D), Guarded(u), Len(u) # 0, Leads(u, t), NEW b
  PROVE  /\ Token(t, b) = u
         /\ Len(Rest(t, b)) = IF Len(t) = Len(u) THEN 0 ELSE Len(t) - Len(u) - 1
<1>1. PICK k \in Nat : k = Len(u)
  BY LenProperties
<1>2. PICK n \in Nat : n = Len(t)
  BY LenProperties
<1>3. k # 0 /\ k <= n /\ \A p \in 1 .. k : t[p] = u[p]
  BY <1>1, <1>2 DEF Leads
<1>4. ASSUME NEW p \in 1 .. k, t[p] \in Special
      PROVE  p # 1 /\ t[p - 1] = "\\"
  <2>1. p # 1 /\ u[p - 1] = "\\"
    BY <1>1, <1>3, <1>4 DEF Guarded
  <2>2. p - 1 \in 1 .. k
    BY <2>1
  <2> QED
    BY <1>3, <2>1, <2>2
<1>5. t[k] # "\\"
  <2>1. u[k] # "\\" /\ k \in 1 .. k
    BY <1>1, <1>3 DEF Guarded
  <2> QED
    BY <1>3, <2>1
<1>6. ASSUME NEW i \in 2 .. k
      PROVE  i \notin Cut(t, b)
  <2> SUFFICES ASSUME i \in Cut(t, b)
               PROVE  FALSE
    OBVIOUS
  <2>1. t[i - 1] # "\\"
    BY DEF Cut
  <2>2. t[i] \in Special
    BY Zenon DEF Cut, Special
  <2> QED
    BY <1>4, <2>1, <2>2
<1>7. CASE n = k
  <2>1. Cut(t, b) = {}
    <3>1. Cut(t, b) \subseteq 2 .. k
      BY <1>2, <1>7 DEF Cut
    <3> QED
      BY <1>6, <3>1
  <2>2. t = u
    BY <1>1, <1>2, <1>3, <1>7, SeqEqual
  <2>3. Token(t, b) = t /\ Rest(t, b) = <<>>
    BY <2>1 DEF Token, Rest
  <2>4. Len(<<>>) = 0
    OBVIOUS
  <2> QED
    BY <1>1, <1>2, <1>7, <2>2, <2>3, <2>4
<1>8. CASE n # k
  <2>1. k + 1 \in 2 .. n
    BY <1>3, <1>8
  <2>2. t[k + 1] = ";"
    BY <1>1, <1>2, <1>8, Zenon DEF Leads
  <2>3. {j \in 1 .. k + 1 : t[j] = "'" /\ Preceding(t, j, b) # "\\"} = {}
    <3> SUFFICES ASSUME NEW j \in 1 .. k + 1, t[j] = "'"
                 PROVE  Preceding(t, j, b) = "\\"
      OBVIOUS
    <3>1. j # k + 1
      BY <2>2, Zenon
    <3>2. j \in 1 .. k
      BY <3>1
    <3>3. t[j] \in Special
      BY DEF Special
    <3>4. j # 1 /\ t[j - 1] = "\\"
      BY <1>4, <3>2, <3>3
    <3> QED
      BY <3>4 DEF Preceding
  <2>4. ~InQuotes(t, k + 1, b)
    <3>1. InQuotes(t, k + 1, b) => Cardinality({}) % 2 = 1
      BY <2>3, Zenon DEF InQuotes
    <3>2. Cardinality({}) = 0
      BY FS_EmptySet
    <3> QED
      BY <3>1, <3>2
  <2>5. k + 1 \in Cut(t, b)
    <3>1. t[(k + 1) - 1] # "\\" /\ k + 1 \in 2 .. Len(t)
      <4>1. (k + 1) - 1 = k
        OBVIOUS
      <4> QED
        BY <1>2, <1>5, <2>1, <4>1
    <3> QED
      BY <2>4, <2>2, <3>1, Zenon DEF Cut
  <2>6. Cut(t, b) \subseteq 2 .. n
    BY <1>2 DEF Cut
  <2>7. \A c \in Cut(t, b) : k + 1 <= c
    <3> SUFFICES ASSUME NEW c \in Cut(t, b)
                 PROVE  k + 1 <= c
      OBVIOUS
    <3>1. c \in 2 .. n /\ c \notin 2 .. k
      BY <1>6, <2>6
    <3> QED
      BY <3>1
  <2>8. Min(Cut(t, b)) = k + 1
    <3>1. \E x \in Cut(t, b) : \A y \in Cut(t, b) : x <= y
      BY <2>5, <2>7
    <3>2. PICK x \in Cut(t, b) : x = Min(Cut(t, b)) /\ \A y \in Cut(t, b) : x <= y
      BY <3>1, Zenon DEF Min
    <3>3. x \in 2 .. n /\ x <= k + 1 /\ k + 1 <= x
      BY <2>5, <2>6, <2>7, <3>2
    <3>4. x = k + 1
      BY <3>3
    <3> QED
      BY <3>2, <3>4
  <2>9. Token(t, b) = SubSeq(t, 1, k)
    <3>1. Token(t, b) = SubSeq(t, 1, Min(Cut(t, b)) - 1)
      BY <2>5 DEF Token
    <3>2. (k + 1) - 1 = k
      OBVIOUS
    <3> QED
      BY <2>8, <3>1, <3>2
  <2>10. Rest(t, b) = SubSeq(t, k + 2, n)
    <3>1. Rest(t, b) = SubSeq(t, Min(Cut(t, b)) + 1, n)
      BY <1>2, <2>5 DEF Rest
    <3>2. (k + 1) + 1 = k + 2
      OBVIOUS
    <3> QED
      BY <2>8, <3>1, <3>2
  <2>11. \A i \in 1 .. n : t[i] \in D
    BY <1>2, ElementOfSeq
  <2>12. SubSeq(t, 1, k) = u
    <3>1. \A i \in 1 .. k : t[i] \in D
      BY <1>3, <2>11
    <3>2. 1 <= k /\ k - 1 + 1 = k
      BY <1>3
    <3>3. /\ SubSeq(t, 1, k) \in Seq(D) /\ Len(SubSeq(t, 1, k)) = k
          /\ \A i \in 1 .. k : SubSeq(t, 1, k)[i] = t[1 + i - 1]
      BY <3>1, <3>2, SubSeqProperties
    <3>4. \A i \in 1 .. k : SubSeq(t, 1, k)[i] = u[i]
      <4>1. \A i \in 1 .. k : 1 + i - 1 = i
        OBVIOUS
      <4> QED
        BY <1>3, <3>3, <4>1
    <3> QED
      BY <1>1, <3>3, <3>4, SeqEqual
  <2>13. Len(SubSeq(t, k + 2, n)) = n - k - 1
    <3>1. PICK a \in Nat : a = k + 2
      OBVIOUS
    <3>2. \A i \in a .. n : t[i] \in D
      BY <2>11, <3>1
    <3>3. Len(SubSeq(t, a, n)) = IF a <= n THEN n - a + 1 ELSE 0
      BY <3>2, SubSeqProperties
    <3>4. (IF a <= n THEN n - a + 1 ELSE 0) = n - k - 1
      BY <1>3, <1>8, <3>1
    <3> QED
      BY <3>1, <3>3, <3>4
  <2> QED
    BY <1>1, <1>2, <1>8, <2>9, <2>10, <2>12, <2>13
<1> QED
  BY <1>7, <1>8

\* What is left of a line is always shorter than the line.
LEMMA Shortens ==
  ASSUME NEW D, NEW t \in Seq(D), NEW b, Len(t) # 0
  PROVE  Len(Rest(t, b)) \in 0 .. Len(t) - 1
<1>1. PICK n \in Nat : n = Len(t)
  BY LenProperties
<1>2. CASE Cut(t, b) = {}
  <2>1. Rest(t, b) = <<>> /\ Len(<<>>) = 0
    BY <1>2 DEF Rest
  <2> QED
    BY <1>1, <2>1
<1>3. CASE Cut(t, b) # {}
  <2>1. Cut(t, b) \subseteq 2 .. n
    BY <1>1 DEF Cut
  <2>2. \E x \in Cut(t, b) : \A y \in Cut(t, b) : x <= y
    <3>1. Cut(t, b) \in SUBSET Nat
      BY <2>1
    <3> QED
      BY <1>3, <3>1, Least
  <2>3. PICK x \in Cut(t, b) : x = Min(Cut(t, b))
    BY <2>2, Zenon DEF Min
  <2>4. PICK a \in Nat : a = x + 1 /\ a >= 3
    BY <2>1
  <2>5. Rest(t, b) = SubSeq(t, a, n)
    BY <1>1, <1>3, <2>3, <2>4 DEF Rest
  <2>6. \A i \in a .. n : t[i] \in D
    <3>1. \A i \in 1 .. n : t[i] \in D
      BY <1>1, ElementOfSeq
    <3> QED
      BY <2>4, <3>1
  <2>7. Len(SubSeq(t, a, n)) = IF a <= n THEN n - a + 1 ELSE 0
    BY <2>6, SubSeqProperties
  <2>8. (IF a <= n THEN n - a + 1 ELSE 0) \in 0 .. n - 1
    BY <1>1, <2>4
  <2> QED
    BY <1>1, <2>5, <2>7, <2>8
<1> QED
  BY <1>2, <1>3
-----------------------------------------------------------------------------
(* What is written is what is executed.                                    *)

\* A line is executed from its end backwards: what is made of the last k characters
\* depends on that of fewer.
Execution(p, a, r, n) == p = [k \in 0 .. n |-> IF k = 0 THEN <<>> ELSE <<a[k]>> \o p[r[k]]]

LEMMA Executes ==
  ASSUME NEW a, NEW r, NEW n \in Nat, \A k \in 1 .. n : r[k] \in 0 .. k - 1
  PROVE  \E p : Execution(p, a, r, n)
<1> DEFINE T == {l \in Nat : l <= n => \E p : Execution(p, a, r, l)}
<1>1. 0 \in T
  <2> DEFINE p == [k \in 0 .. 0 |-> <<>>]
  <2>1. p = [k \in 0 .. 0 |-> IF k = 0 THEN <<>> ELSE <<a[k]>> \o p[r[k]]]
    OBVIOUS
  <2>2. Execution(p, a, r, 0)
    BY <2>1 DEF Execution
  <2> QED
    BY <2>2
<1>2. ASSUME NEW l \in T
      PROVE  l + 1 \in T
  <2> SUFFICES ASSUME l + 1 <= n
               PROVE  \E p : Execution(p, a, r, l + 1)
    OBVIOUS
  <2>1. PICK p : Execution(p, a, r, l)
    OBVIOUS
  <2> DEFINE e(k) == IF k = 0 THEN <<>> ELSE <<a[k]>> \o p[r[k]]
  <2>2. \A k \in 0 .. l : p[k] = e(k)
    <3>1. p = [k \in 0 .. l |-> e(k)]
      BY <2>1 DEF Execution
    <3> HIDE DEF e
    <3> QED
      BY <3>1
  <2> DEFINE x == e(l + 1)
             g == [k \in 0 .. l + 1 |-> IF k = l + 1 THEN x ELSE p[k]]
             d(k) == IF k = 0 THEN <<>> ELSE <<a[k]>> \o g[r[k]]
  <2>3. g = [k \in 0 .. l + 1 |-> g[k]] /\ (\A k \in 0 .. l : g[k] = p[k]) /\ g[l + 1] = x
    <3> HIDE DEF x
    <3> QED
      OBVIOUS
  <2> HIDE DEF g
  <2>4. \A k \in 0 .. l + 1 : g[k] = d(k)
    <3> SUFFICES ASSUME NEW k \in 0 .. l + 1
                 PROVE  g[k] = d(k)
      OBVIOUS
    <3>1. g[k] = e(k)
      <4>1. CASE k = l + 1
        BY <2>3, <4>1
      <4>2. CASE k # l + 1
        <5>1. k \in 0 .. l
          BY <4>2
        <5> HIDE DEF e
        <5> QED
          BY <2>2, <2>3, <5>1
      <4> QED
        BY <4>1, <4>2
    <3>2. CASE k = 0
      BY <3>1, <3>2
    <3>3. CASE k # 0
      <4>1. r[k] \in 0 .. l
        <5>1. k \in 1 .. n
          BY <3>3
        <5>2. r[k] \in 0 .. k - 1
          BY <5>1
        <5> QED
          BY <5>2
      <4>2. g[r[k]] = p[r[k]]
        BY <2>3, <4>1
      <4> QED
        BY <3>1, <3>3, <4>2
    <3> QED
      BY <3>2, <3>3
  <2>5. g = [k \in 0 .. l + 1 |-> d(k)]
    <3> HIDE DEF d
    <3> QED
      BY <2>3, <2>4
  <2>6. Execution(g, a, r, l + 1)
    BY <2>5 DEF Execution
  <2> QED
    BY <2>6
<1>3. T = Nat
  <2>1. T \in SUBSET Nat
    OBVIOUS
  <2> HIDE DEF T
  <2> QED
    BY <1>1, <1>2, <2>1, Induction
<1>4. n \in T
  <2> HIDE DEF T
  <2> QED
    BY <1>3
<1> QED
  BY <1>4

\* The last k characters of a line, and the character before them.
Remains(s, k)     == SubSeq(s, Len(s) + 1 - k, Len(s))
Prior(s, k, b) == IF k = Len(s) THEN b ELSE "NUL"

\* What is executed of the last k characters of a line: the first command of them and
\* then what is left.
Backwards(p, s, b) ==
  /\ Parsed(s, b) = p[Len(s)] /\ p[0] = <<>>
  /\ \A k \in 1 .. Len(s) :
       p[k] = <<Argv(Token(Remains(s, k), Prior(s, k, b)))>>
                \o p[Len(Rest(Remains(s, k), Prior(s, k, b)))]

\* It can always be executed like that.
LEMMA ParsedBack ==
  ASSUME NEW D, NEW s \in Seq(D), NEW b
  PROVE  \E p : Backwards(p, s, b)
<1>1. PICK n \in Nat : n = Len(s)
  BY LenProperties
<1> DEFINE t(k) == Remains(s, k)
           c(k) == Prior(s, k, b)
           a == [k \in 0 .. n |-> Argv(Token(t(k), c(k)))]
           r == [k \in 0 .. n |-> Len(Rest(t(k), c(k)))]
           p == CHOOSE f : f = [k \in 0 .. Len(s) |->
                  IF k = 0 THEN <<>> ELSE <<Argv(Token(t(k), c(k)))>> \o f[Len(Rest(t(k), c(k)))]]
<1>2. Parsed(s, b) = p[n]
  BY <1>1 DEF Parsed, Remains, Prior
<1>3. \A k \in 1 .. n : t(k) \in Seq(D) /\ Len(t(k)) = k
  <2> SUFFICES ASSUME NEW k \in 1 .. n
               PROVE  t(k) \in Seq(D) /\ Len(t(k)) = k
    OBVIOUS
  <2>1. PICK x \in Nat : x = n + 1 - k /\ x >= 1 /\ x <= n
    OBVIOUS
  <2>2. \A i \in x .. n : s[i] \in D
    <3>1. \A i \in 1 .. n : s[i] \in D
      BY <1>1, ElementOfSeq
    <3> QED
      BY <2>1, <3>1
  <2>3. SubSeq(s, x, n) \in Seq(D) /\ Len(SubSeq(s, x, n)) = n - x + 1
    BY <2>1, <2>2, SubSeqProperties
  <2>4. t(k) = SubSeq(s, x, n)
    BY <1>1, <2>1 DEF Remains
  <2>5. n - x + 1 = k
    BY <2>1
  <2> QED
    BY <2>3, <2>4, <2>5
<1>4. \A k \in 1 .. n : Len(Rest(t(k), c(k))) \in 0 .. k - 1
  <2> SUFFICES ASSUME NEW k \in 1 .. n
               PROVE  Len(Rest(t(k), c(k))) \in 0 .. k - 1
    OBVIOUS
  <2>1. t(k) \in Seq(D) /\ Len(t(k)) = k /\ k # 0
    BY <1>3
  <2> HIDE DEF t, c
  <2> QED
    BY <2>1, Shortens
<1> HIDE DEF t, c
<1>5. \A k \in 1 .. n : r[k] \in 0 .. k - 1
  BY <1>4
<1>6. \A k \in 0 .. n : a[k] = Argv(Token(t(k), c(k))) /\ r[k] = Len(Rest(t(k), c(k)))
  OBVIOUS
<1> HIDE DEF a, r
<1>7. p = [k \in 0 .. Len(s) |->
            IF k = 0 THEN <<>> ELSE <<Argv(Token(t(k), c(k)))>> \o p[Len(Rest(t(k), c(k)))]]
  <2>1. PICK f : Execution(f, a, r, n)
    BY <1>5, Executes
  <2> DEFINE x(k) == IF k = 0 THEN <<>> ELSE <<a[k]>> \o f[r[k]]
             y(k) == IF k = 0 THEN <<>> ELSE <<Argv(Token(t(k), c(k)))>> \o f[Len(Rest(t(k), c(k)))]
  <2>2. f = [k \in 0 .. n |-> x(k)]
    BY <2>1 DEF Execution
  <2>3. \A k \in 0 .. n : x(k) = y(k)
    BY <1>6
  <2>4. f = [k \in 0 .. Len(s) |-> y(k)]
    <3> HIDE DEF x, y
    <3> QED
      BY <1>1, <2>2, <2>3
  <2>5. f = [k \in 0 .. Len(s) |->
              IF k = 0 THEN <<>> ELSE <<Argv(Token(t(k), c(k)))>> \o f[Len(Rest(t(k), c(k)))]]
    BY <2>4
  <2> QED
    BY <2>5, Zenon
<1> HIDE DEF p
<1>8. \A k \in 0 .. n : p[k] =
        IF k = 0 THEN <<>> ELSE <<Argv(Token(t(k), c(k)))>> \o p[Len(Rest(t(k), c(k)))]
  <2> DEFINE y(k) == IF k = 0 THEN <<>> ELSE <<Argv(Token(t(k), c(k)))>> \o p[Len(Rest(t(k), c(k)))]
  <2>1. p = [k \in 0 .. n |-> y(k)]
    BY <1>1, <1>7
  <2> HIDE DEF y
  <2>2. \A k \in 0 .. n : p[k] = y(k)
    BY <2>1
  <2> QED
    BY <2>2 DEF y
<1>9. p[0] = <<>>
  <2>1. 0 \in 0 .. n
    OBVIOUS
  <2> QED
    BY <1>8, <2>1
<1>10. ASSUME NEW k \in 1 .. n
       PROVE  p[k] = <<Argv(Token(t(k), c(k)))>> \o p[Len(Rest(t(k), c(k)))]
  <2>1. k \in 0 .. n /\ k # 0
    OBVIOUS
  <2> QED
    BY <1>8, <2>1
<1>11. Backwards(p, s, b)
  BY <1>1, <1>2, <1>9, <1>10 DEF Backwards, t, c
<1> QED
  BY <1>11

\* What may occur in a line that is written for a list of commands.
Letters == Chars \ (Blanks \cup {"\\"})
Glyphs  == ((Letters \cup Blanks) \cup {"\\"}) \cup {";"}

\* A command that is written down is read as it was meant.
LEMMA OneCommand ==
  ASSUME NEW c, Blanks = {c}, c # "\\", NEW cmd \in Command, NEW e, e = Escaped(Joined(cmd, c))
  PROVE  e \in Seq(Glyphs) /\ Guarded(e) /\ Len(e) # 0 /\ Argv(e) = cmd
<1> DEFINE G == Letters \cup {c}
           j == Joined(cmd, c)
<1>1. cmd \in Seq(Word) /\ Len(cmd) \in 1 .. MaxArgs
  BY DEF Command
<1>2. PICK m \in Nat : m = Len(cmd) /\ m # 0
  BY <1>1
<1>3. \A k \in 1 .. m : cmd[k] \in Seq(Letters) /\ cmd[k] # <<>>
  <2>1. \A k \in 1 .. m : cmd[k] \in Word
    BY <1>1, <1>2, ElementOfSeq
  <2> QED
    BY <2>1 DEF Word, Letters
<1>4. c \notin Letters /\ "\\" \notin Letters
  BY DEF Letters
<1>5. "\\" \notin G /\ c \in G
  BY <1>4
<1>6. cmd \in Seq(Seq(Letters))
  <2>1. Word \subseteq Seq(Letters)
    BY DEF Word, Letters
  <2> QED
    BY <1>1, <2>1, SeqMonotonic
<1>7. cmd \in Seq(Seq(G))
  <2>1. \A k \in 1 .. m : cmd[k] \in Seq(G)
    <3>1. Letters \subseteq G
      OBVIOUS
    <3> HIDE DEF G
    <3> QED
      BY <1>3, <3>1, SeqMonotonic
  <2> HIDE DEF G
  <2>2. cmd \in [1 .. m -> Seq(Letters)]
    BY <1>2, <1>6, LenProperties
  <2>3. cmd \in [1 .. m -> Seq(G)]
    BY <2>1, <2>2
  <2> QED
    BY <2>3, SeqDef
<1> HIDE DEF G
<1>8. j \in Seq(G) /\ \E b : Spread(b, cmd, c, j)
  BY <1>5, <1>7, Spreads
<1> HIDE DEF j
<1>9. Len(j) # 0
  <2>1. PICK b : Spread(b, cmd, c, j)
    BY <1>8
  <2>2. m \in 1 .. m
    BY <1>2
  <2>3. b[m] \in Nat \ {0} /\ Len(j) = b[m] + Len(cmd[m]) - 1
    BY <1>2, <2>1, <2>2 DEF Spread
  <2>4. Len(cmd[m]) \in Nat \ {0}
    BY <1>3, <2>2, EmptySeq
  <2>5. PICK x \in Nat \ {0} : x = b[m]
    BY <2>3
  <2>6. PICK y \in Nat \ {0} : y = Len(cmd[m])
    BY <2>4
  <2>7. Len(j) = x + y - 1 /\ x + y - 1 # 0
    BY <2>3, <2>5, <2>6
  <2> QED
    BY <2>7
<1>10. Guarded(e) /\ Len(e) # 0
  BY <1>5, <1>8, <1>9, Guards DEF j
<1>11. e \in Seq(Glyphs)
  <2>1. e \in Seq(G \cup {"\\"})
    BY <1>8, Veils DEF j
  <2>2. G \cup {"\\"} \subseteq Glyphs
    BY DEF G, Glyphs
  <2> QED
    BY <2>1, <2>2, SeqMonotonic
<1>12. Macros(e) = j
  BY <1>5, <1>8, Unescapes DEF j
<1>13. Words(j, MaxArgs) = cmd
  <2>1. MaxArgs \in Nat /\ Len(cmd) <= MaxArgs
    BY <1>1, SizesAssumption
  <2>2. \A k \in 1 .. Len(cmd) : cmd[k] # <<>>
    BY <1>2, <1>3
  <2> QED
    BY <1>4, <1>6, <2>1, <2>2, Separates DEF j
<1> QED
  BY <1>10, <1>11, <1>12, <1>13 DEF Argv

\* A list of commands that is written down is executed as it was meant, however long
\* it is and whatever stands before it.
LEMMA Executed ==
  ASSUME NEW c, Blanks = {c}, c # "\\", NEW cmds \in Seq(Command), NEW b
  PROVE  Parsed(Joined([i \in DOMAIN cmds |-> Escaped(Joined(cmds[i], c))], ";"), b) = cmds
<1>1. PICK m \in Nat : m = Len(cmds)
  BY LenProperties
<1> DEFINE E == [i \in 1 .. m |-> Escaped(Joined(cmds[i], c))]
           s == Joined(E, ";")
<1>2. Joined([i \in DOMAIN cmds |-> Escaped(Joined(cmds[i], c))], ";") = s
  <2>1. DOMAIN cmds = 1 .. m
    BY <1>1, LenProperties
  <2> QED
    BY <2>1
<1>3. ASSUME NEW i \in 1 .. m
      PROVE  E[i] \in Seq(Glyphs) /\ Guarded(E[i]) /\ Len(E[i]) # 0 /\ Argv(E[i]) = cmds[i]
  <2>1. cmds[i] \in Command
    BY <1>1, ElementOfSeq
  <2>2. E[i] = Escaped(Joined(cmds[i], c))
    OBVIOUS
  <2> HIDE DEF E
  <2> QED
    BY <2>1, <2>2, OneCommand
<1>4. E \in Seq(Seq(Glyphs)) /\ Len(E) = m
  <2>1. E = [i \in 1 .. m |-> E[i]]
    OBVIOUS
  <2> HIDE DEF E
  <2>2. E \in [1 .. m -> Seq(Glyphs)]
    BY <1>3, <2>1
  <2>3. E \in Seq(Seq(Glyphs))
    BY <2>2, SeqDef
  <2> QED
    BY <2>2, <2>3, LenProperties
<1> HIDE DEF E
<1>5. PICK d : d = ";"
  OBVIOUS
<1>6. d \in Glyphs
  BY <1>5 DEF Glyphs
<1>7. s \in Seq(Glyphs) /\ \E p : Spread(p, E, d, s)
  BY <1>4, <1>6, <1>5, Spreads
<1> HIDE DEF s
<1>8. PICK l \in Nat : l = Len(s)
  BY <1>7, LenProperties
<1>9. PICK at : Spread(at, E, d, s)
  BY <1>7
<1> DEFINE L(i) == Len(E[i])
<1>10. \A i \in 1 .. m : at[i] \in Nat \ {0} /\ L(i) \in Nat \ {0}
  <2>1. \A i \in 1 .. m : L(i) \in Nat \ {0}
    BY <1>3, LenProperties
  <2>2. at \in [1 .. m -> Nat \ {0}]
    BY <1>4, <1>9 DEF Spread
  <2> QED
    BY <2>1, <2>2
<1>11. PICK p : Backwards(p, s, b)
  BY <1>7, ParsedBack
<1>12. /\ Parsed(s, b) = p[l] /\ p[0] = <<>>
       /\ \A k \in 1 .. l :
            p[k] = <<Argv(Token(Remains(s, k), Prior(s, k, b)))>>
                     \o p[Len(Rest(Remains(s, k), Prior(s, k, b)))]
  BY <1>8, <1>11 DEF Backwards
\* How many characters are left when the first i commands have been taken.
<1> DEFINE left(i) == IF i = m THEN 0 ELSE l + 1 - at[i + 1]
<1>13. ASSUME NEW i \in 1 .. m
       PROVE  p[left(i - 1)] = <<cmds[i]>> \o p[left(i)]
  <2>1. PICK x \in Nat \ {0} : x = at[i]
    BY <1>10
  <2>2. PICK z \in Nat \ {0} : z = L(i)
    BY <1>10
  <2>3. /\ x + z - 1 <= l
        /\ i = m => l = x + z - 1
        /\ i # m => at[i + 1] = x + z + 1 /\ x + z + 1 <= l
    <3>1. CASE i = m
      <4>1. Len(s) = at[m] + Len(E[m]) - 1
        BY <1>4, <1>9, <3>1 DEF Spread
      <4>2. l = x + z - 1
        BY <1>8, <2>1, <2>2, <3>1, <4>1
      <4> QED
        BY <3>1, <4>2
    <3>2. CASE i # m
      <4>1. PICK n \in 2 .. m : n = i + 1 /\ n - 1 = i
        BY <3>2
      <4>2. at[n] = at[i] + L(i) + 1
        BY <1>4, <1>9, <4>1 DEF Spread
      <4>3. at[n] = x + z + 1
        BY <2>1, <2>2, <4>2
      <4>4. PICK y \in Nat \ {0} : y = at[m]
        BY <1>10, <4>1
      <4>5. PICK v \in Nat \ {0} : v = L(m)
        BY <1>10, <4>1
      <4>6. l = y + v - 1
        <5>1. Len(s) = at[m] + L(m) - 1
          BY <1>4, <1>9, <4>1 DEF Spread
        <5> QED
          BY <1>8, <4>4, <4>5, <5>1
      <4>7. x + z + 1 <= y
        <5>1. CASE n = m
          BY <4>3, <4>4, <5>1
        <5>2. CASE n # m
          <6>1. n \in 1 .. m /\ m \in 1 .. m /\ n < m
            BY <5>2
          <6>2. at[n] + L(n) < at[m]
            BY <1>4, <1>9, <6>1 DEF Spread
          <6>3. PICK w \in Nat : w = L(n)
            BY <1>10, <6>1
          <6>4. x + z + 1 + w < y
            BY <4>3, <4>4, <6>2, <6>3
          <6> QED
            BY <6>4
        <5> QED
          BY <5>1, <5>2
      <4>8. x + z + 1 <= l
        BY <4>6, <4>7
      <4> QED
        BY <3>2, <4>1, <4>3, <4>8
    <3> QED
      BY <3>1, <3>2
  <2>4. PICK k \in 1 .. l : k = left(i - 1) /\ k = l + 1 - x
    <3>1. left(i - 1) = l + 1 - x
      <4>1. i - 1 # m /\ (i - 1) + 1 = i
        OBVIOUS
      <4> QED
        BY <2>1, <4>1
    <3>2. l + 1 - x \in 1 .. l
      BY <2>3
    <3> HIDE DEF left
    <3> QED
      BY <3>1, <3>2
  <2> DEFINE t == Remains(s, k)
             o == Prior(s, k, b)
  <2>5. /\ t \in Seq(Glyphs) /\ Len(t) = k
        /\ \A y \in 1 .. k : t[y] = s[x - 1 + y]
    <3>1. t = SubSeq(s, x, l)
      <4>1. l + 1 - k = x
        BY <2>4
      <4> QED
        BY <1>8, <4>1 DEF Remains
    <3>2. \A y \in x .. l : s[y] \in Glyphs
      <4>1. \A y \in 1 .. l : s[y] \in Glyphs
        BY <1>7, <1>8, ElementOfSeq
      <4> QED
        BY <4>1
    <3>3. x <= l /\ l - x + 1 = k
      BY <2>4
    <3>4. /\ SubSeq(s, x, l) \in Seq(Glyphs) /\ Len(SubSeq(s, x, l)) = k
          /\ \A y \in 1 .. k : SubSeq(s, x, l)[y] = s[x + y - 1]
      BY <3>2, <3>3, SubSeqProperties
    <3>5. \A y \in 1 .. k : x + y - 1 = x - 1 + y
      OBVIOUS
    <3> HIDE DEF t
    <3> QED
      BY <3>1, <3>4, <3>5
  <2> HIDE DEF t, o
  <2>6. Leads(E[i], t)
    <3>1. z <= k
      BY <2>3, <2>4
    <3>2. \A y \in 1 .. z : t[y] = E[i][y]
      <4>1. \A y \in 1 .. z : s[x - 1 + y] = E[i][y]
        BY <1>4, <1>9, <2>1, <2>2 DEF Spread
      <4> QED
        BY <2>5, <3>1, <4>1
    <3>3. k # z => t[z + 1] = ";"
      <4> SUFFICES ASSUME k # z
                   PROVE  t[z + 1] = ";"
        OBVIOUS
      <4>1. i # m
        BY <2>3, <2>4
      <4>2. PICK n \in 2 .. m : n = i + 1
        BY <4>1
      <4>3. at[n] = x + z + 1
        BY <2>3, <4>1, <4>2
      <4>4. at[n] - 1 = x - 1 + (z + 1) /\ z + 1 \in 1 .. k
        BY <2>4, <3>1, <4>3
      <4>5. s[at[n] - 1] = d
        BY <1>4, <1>9, <4>2 DEF Spread
      <4>6. t[z + 1] = s[x - 1 + (z + 1)]
        BY <2>5, <4>4
      <4>7. t[z + 1] = d
        BY <4>4, <4>5, <4>6
      <4> QED
        BY <1>5, <4>7
    <3> QED
      BY <2>2, <2>5, <3>1, <3>2, <3>3 DEF Leads
  <2>7. /\ Token(t, o) = E[i]
        /\ Len(Rest(t, o)) = IF k = z THEN 0 ELSE k - z - 1
    <3>1. E[i] \in Seq(Glyphs) /\ Guarded(E[i]) /\ Len(E[i]) # 0
      BY <1>3
    <3>2. /\ Token(t, o) = E[i]
          /\ Len(Rest(t, o)) = IF Len(t) = Len(E[i]) THEN 0 ELSE Len(t) - Len(E[i]) - 1
      <4>1. PICK u : u = E[i]
        OBVIOUS
      <4>2. t \in Seq(Glyphs) /\ u \in Seq(Glyphs) /\ Guarded(u) /\ Len(u) # 0 /\ Leads(u, t)
        BY <2>5, <2>6, <3>1, <4>1
      <4>3. /\ Token(t, o) = u
            /\ Len(Rest(t, o)) = IF Len(t) = Len(u) THEN 0 ELSE Len(t) - Len(u) - 1
        BY <4>2, TakesCommand
      <4> QED
        BY <4>1, <4>3
    <3> QED
      BY <2>2, <2>5, <3>2
  <2>8. (IF k = z THEN 0 ELSE k - z - 1) = left(i)
    <3>1. CASE i = m
      <4>1. k = z
        BY <2>3, <2>4, <3>1
      <4> QED
        BY <3>1, <4>1
    <3>2. CASE i # m
      <4>1. left(i) = l + 1 - (x + z + 1)
        BY <2>3, <3>2
      <4> HIDE DEF left
      <4>2. k # z /\ k - z - 1 = l + 1 - (x + z + 1)
        BY <2>3, <2>4, <3>2
      <4> QED
        BY <4>1, <4>2
    <3> QED
      BY <3>1, <3>2
  <2>9. p[k] = <<Argv(Token(t, o))>> \o p[Len(Rest(t, o))]
    BY <1>12, <2>4 DEF t, o
  <2>10. Argv(E[i]) = cmds[i]
    BY <1>3
  <2> HIDE DEF left
  <2> QED
    BY <2>4, <2>7, <2>8, <2>9, <2>10
<1>14. left(m) = 0 /\ left(0) = l
  <2>1. CASE m = 0
    <3>1. Len(s) = 0
      BY <1>4, <1>9, <2>1 DEF Spread
    <3> QED
      BY <1>8, <2>1, <3>1
  <2>2. CASE m # 0
    <3>1. at[1] = 1
      BY <1>4, <1>9, <2>2 DEF Spread
    <3>2. left(0) = l + 1 - at[1]
      BY <2>2
    <3>3. left(m) = 0
      OBVIOUS
    <3> HIDE DEF left
    <3>4. left(0) = l + 1 - 1
      BY <3>1, <3>2
    <3> QED
      BY <3>3, <3>4
  <2> QED
    BY <2>1, <2>2
<1> HIDE DEF left
<1> DEFINE T == {k \in Nat : k <= m => p[left(m - k)] = SubSeq(cmds, m - k + 1, m)}
<1>15. 0 \in T
  <2>1. SubSeq(cmds, m + 1, m) = <<>>
    BY SubSeqEmpty
  <2>2. m - 0 = m /\ m - 0 + 1 = m + 1
    OBVIOUS
  <2> QED
    BY <1>12, <1>14, <2>1, <2>2
<1>16. ASSUME NEW k \in T
       PROVE  k + 1 \in T
  <2> SUFFICES ASSUME k + 1 <= m
               PROVE  p[left(m - (k + 1))] = SubSeq(cmds, m - (k + 1) + 1, m)
    OBVIOUS
  <2>1. PICK i \in 1 .. m : i = m - k
    OBVIOUS
  <2>2. p[left(i)] = SubSeq(cmds, i + 1, m)
    BY <2>1
  <2>3. p[left(i - 1)] = <<cmds[i]>> \o p[left(i)]
    BY <1>13
  <2>4. SubSeq(cmds, i, m) = <<cmds[i]>> \o SubSeq(cmds, i + 1, m)
    <3>1. i \in 1 .. Len(cmds) /\ m \in i .. Len(cmds)
      BY <1>1
    <3> QED
      BY <3>1, SubSeqRecursiveFirst
  <2>5. m - (k + 1) = i - 1 /\ m - (k + 1) + 1 = i
    BY <2>1
  <2> QED
    BY <2>2, <2>3, <2>4, <2>5
<1>17. T = Nat
  <2>1. T \in SUBSET Nat
    OBVIOUS
  <2> HIDE DEF T
  <2> QED
    BY <1>15, <1>16, <2>1, Induction
<1>18. p[left(m - m)] = SubSeq(cmds, m - m + 1, m)
  <2>1. m \in T
    <3> HIDE DEF T
    <3> QED
      BY <1>17
  <2> QED
    BY <2>1
<1>19. m - m = 0 /\ m - m + 1 = 1
  OBVIOUS
<1>20. SubSeq(cmds, 1, m) = cmds
  BY <1>1, SubSeqFull
<1> QED
  BY <1>2, <1>12, <1>14, <1>18, <1>19, <1>20

\* Any list of commands, written with its special characters escaped, is executed as it
\* was meant by cli_simple_parse_line: the search for the separator in
\* cli_simple_run_command and the expansion in cli_simple_process_macros, which each look
\* at the character before, agree on what is escaped.  b is that which stands before the
\* line in memory, which the search looks at too.
THEOREM WrittenIsRead ==
  \A cmds \in Seq(Command) : \A b : Parsed(Written(cmds), b) = cmds
<1>1. Blanks = {" "} /\ " " # "\\"
  BY Zenon DEF Blanks
<1> SUFFICES ASSUME NEW cmds \in Seq(Command), NEW b
             PROVE  Parsed(Written(cmds), b) = cmds
  OBVIOUS
<1> QED
  BY <1>1, Executed, Zenon DEF Written

\* The command loop executes an escaped line as it was meant, whatever has been entered
\* before and whatever stands before the buffer.
THEOREM AlwaysUnderstood == LoopSpec => []Understood
<1>1. Understood
  BY WrittenIsRead, MeaningsAssumption, Zenon DEF Understood
<1> QED
  BY <1>1, PTL
-----------------------------------------------------------------------------
(* The ring of the history.                                               *)

USE HistMaxAssumption, NoLineAssumption

\* Every step keeps the indices within the ring.
LEMMA StepType ==
  ASSUME TypeOK, [Next]_vars
  PROVE  TypeOK'
<1> USE DEF TypeOK, Slot
<1>1. ASSUME NEW l \in Lines, Enter(l) PROVE TypeOK'
  BY <1>1 DEF Enter, After
<1>2. CASE EnterOther
  BY <1>2 DEF EnterOther
<1>3. CASE Break
  BY <1>3 DEF Break
<1>4. CASE Up
  <2>1. Before(cur) \in 0 .. max
    BY <1>4 DEF Up, Before
  <2>2. QED
    BY <1>4, <2>1 DEF Up
<1>5. CASE Down
  BY <1>5 DEF Down
<1>6. CASE UNCHANGED vars
  BY <1>6 DEF vars
<1>7. QED
  BY <1>1, <1>2, <1>3, <1>4, <1>5, <1>6 DEF Next

\* The indices of the ring stay within the part in use, whatever is entered and
\* however the user walks.
THEOREM TypeCorrect == Spec => []TypeOK
<1>1. Init => TypeOK
  BY DEF Init, TypeOK, Slot
<1>2. TypeOK /\ [Next]_vars => TypeOK'
  BY StepType
<1>3. QED
  BY <1>1, <1>2, PTL DEF Spec
-----------------------------------------------------------------------------
(* The refinement.                                                         *)

\* The place one further back: the step hist_prev makes.
LEMMA OneBack ==
  ASSUME TypeOK, cur >= 0
  PROVE  /\ Behind(add, cur) \in 0 .. max
         /\ Behind(add, Behind(add, cur)) = cur
         /\ Before(cur) = add <=> Behind(add, cur) = max
         /\ Before(cur) # add => Behind(add, Before(cur)) = Behind(add, cur) + 1
  BY DEF TypeOK, Slot, Behind, Before

\* A line that is entered becomes the newest and moves every other one back.
LEMMA EnterMoves ==
  ASSUME TypeOK, NEW l \in Lines, Enter(l),
         NEW k \in 1 .. max'
  PROVE  list'[Behind(add, k)'] = IF k = 1 THEN l ELSE list[Behind(add, k - 1)]
<1> USE DEF TypeOK, Slot, Enter, After, Behind
<1>1. CASE add + 1 < HistMax
  BY <1>1
<1>2. CASE add + 1 >= HistMax
  BY <1>2
<1>3. QED
  BY <1>1, <1>2

Recent == [k \in 1 .. max |-> list[Behind(add, k)]]
Back   == IF cur < 0 THEN 0 ELSE Behind(add, cur)

\* The three actions of the history under the mapping.
LEMMA EnterMaps ==
  ASSUME TypeOK, NEW l \in Lines, Enter(l)
  PROVE  Promise!Enter(l)
<1>1. max' = IF max < HistMax - 1 THEN max + 1 ELSE max
  BY DEF TypeOK, Slot, Enter, After
<1>2. Recent' = [k \in 1 .. max' |-> IF k = 1 THEN l ELSE Recent[k - 1]]
  <2>1. ASSUME NEW k \in 1 .. max'
        PROVE  list'[Behind(add, k)'] = IF k = 1 THEN l ELSE Recent[k - 1]
    <3>1. k # 1 => k - 1 \in 1 .. max
      BY <1>1 DEF TypeOK, Slot
    <3>2. QED
      BY <3>1, EnterMoves DEF Recent
  <2>2. QED
    BY <2>1 DEF Recent
<1>3. Back' = 0 /\ line' = NoLine
  BY DEF Enter, TypeOK, Slot, After, Back, Behind
<1>4. QED
  BY <1>1, <1>2, <1>3 DEF Promise!Enter, Recent, Back

\* The key for the line before, under the mapping.
LEMMA UpMaps ==
  ASSUME TypeOK, Up
  PROVE  Promise!Up
<1>1. Back < max /\ Back' = Back + 1
  BY OneBack DEF Up, TypeOK, Slot, Back, Behind, Before
<1>2. line' = Recent[Back + 1]
  <2>1. Before(cur) \in 0 .. max /\ Back + 1 \in 1 .. max
    BY OneBack, <1>1 DEF Up, TypeOK, Slot, Back, Before
  <2>2. Behind(add, Back + 1) = Before(cur)
    BY OneBack, <2>1 DEF Up, TypeOK, Slot, Back, Before, Behind
  <2>3. QED
    BY <2>1, <2>2 DEF Up, Recent
<1>3. Recent' = Recent
  BY DEF Up, Recent, Behind
<1>4. QED
  BY <1>1, <1>2, <1>3 DEF Promise!Up, Recent, Back, Up

\* The key for the line after, under the mapping.
LEMMA DownMaps ==
  ASSUME TypeOK, Down
  PROVE  Promise!Down
<1>1. Back \in 1 .. max /\ Back' = Back - 1
  BY DEF Down, TypeOK, Slot, Back, Behind
<1>2. line' = IF Back' = 0 THEN NoLine ELSE Recent[Back']
  <2>1. Back' = 0 <=> cur' = add
    BY DEF Down, TypeOK, Slot, Back, Behind
  <2>2. Behind(add, Back - 1) = cur'
    BY DEF Down, TypeOK, Slot, Back, Behind
  <2>3. QED
    BY <1>1, <2>1, <2>2 DEF Down, Recent, TypeOK, Slot
<1>3. Recent' = Recent
  BY DEF Down, Recent, Behind
<1>4. QED
  BY <1>1, <1>2, <1>3 DEF Promise!Down, Recent, Back, Down

\* The ring of the command line's history keeps the promise of RecentLines.
THEOREM Implements == Spec => Refines
<1>1. Init => Promise!Init
  <2> SUFFICES ASSUME Init PROVE Promise!Init
    OBVIOUS
  <2>1. max = 0 /\ cur < 0 /\ line = NoLine
    BY DEF Init
  <2>2. [k \in 1 .. max |-> list[Behind(add, k)]] = [k \in 1 .. 0 |-> NoLine]
    BY <2>1
  <2>3. QED
    BY <2>1, <2>2 DEF Promise!Init
<1>2. TypeOK /\ [Next]_vars => [Promise!Next]_Promise!vars
  <2> SUFFICES ASSUME TypeOK, [Next]_vars PROVE [Promise!Next]_Promise!vars
    OBVIOUS
  <2>1. ASSUME NEW l \in Lines, Enter(l) PROVE Promise!Next
    BY <2>1, EnterMaps DEF Promise!Next
  <2>2. CASE EnterOther
    <3>1. Back' = 0
      BY <2>2 DEF EnterOther, TypeOK, Slot, Back, Behind
    <3>2. Recent' = Recent
      BY <2>2 DEF EnterOther, Recent, Behind
    <3>3. Promise!EnterOther
      BY <2>2, <3>1, <3>2 DEF EnterOther, Promise!EnterOther, Back, Recent
    <3>4. QED
      BY <3>3 DEF Promise!Next
  <2>3. CASE Break
    <3>1. Promise!Abandon
      BY <2>3 DEF Break, Promise!Abandon, Behind
    <3>2. QED
      BY <3>1 DEF Promise!Next
  <2>4. CASE Up
    BY <2>4, UpMaps DEF Promise!Next
  <2>5. CASE Down
    BY <2>5, DownMaps DEF Promise!Next
  <2>6. CASE UNCHANGED vars
    BY <2>6 DEF vars, Promise!vars, Behind
  <2>7. QED
    BY <2>1, <2>2, <2>3, <2>4, <2>5, <2>6 DEF Next
<1>3. QED
  BY <1>1, <1>2, TypeCorrect, PTL DEF Spec, Refines, Promise!Spec
-----------------------------------------------------------------------------
(* The loop.                                                               *)

\* Every step of the loop is one of the history, or leaves it alone.
LEMMA StepMaps ==
  ASSUME [LoopNext]_allVars
  PROVE  [Next]_vars
<1>1. CASE \E l \in Lines \cup Others : Typed(l)
  BY <1>1 DEF Typed, Next
<1>2. CASE Again
  BY <1>2 DEF Again, Next
<1>3. CASE Interrupted
  BY <1>3 DEF Interrupted, Next
<1>4. CASE Walk
  BY <1>4 DEF Walk, Next
<1>5. CASE Scan
  BY <1>5 DEF Scan
<1>6. CASE Process
  BY <1>6 DEF Process
<1>7. CASE Done
  BY <1>7 DEF Done
<1>8. CASE UNCHANGED allVars
  BY <1>8 DEF allVars
<1> QED
  BY <1>1, <1>2, <1>3, <1>4, <1>5, <1>6, <1>7, <1>8 DEF LoopNext

\* The loop uses the history as LineHistory says it is used.
THEOREM LoopIsHistory == LoopSpec => Spec
<1>1. LoopInit => Init
  BY DEF LoopInit
<1>2. [LoopNext]_allVars => [Next]_vars
  BY StepMaps
<1> QED
  BY <1>1, <1>2, PTL DEF LoopSpec, Spec

\* Under the loop too the history is the one that RecentLines promises.
THEOREM LoopImplements == LoopSpec => Refines
BY LoopIsHistory, Implements, PTL

\* What the buffers hold, as far as the loop goes.
Text == str \in Seq(Chars) /\ Len(str) < CbSize
Flags ==
  /\ pc \in {"prompt", "scan", "process"}
  /\ lastcommand \in Lines \cup Others \cup {NoLine}
  /\ repeat \in BOOLEAN /\ spoilt \in BOOLEAN
  /\ rc \in -1 .. 1 /\ result \in -1 .. 0 /\ repeatable \in 0 .. 1
Called == Len(argv) <= MaxArgs /\ (pc = "process" => argv # <<>>)

\* What lastcommand stands for: the newest line of the history, unless that has been
\* forgotten; and while it runs, what will make the loop forget it.
Newest   == lastcommand \in Lines => list[Before(add)] = lastcommand
Harmless == pc = "prompt" /\ lastcommand # NoLine => ~spoilt
Noted    == pc # "prompt" /\ spoilt => result = -1 \/ repeatable = 0

LoopInv == TypeOK /\ Text /\ Flags /\ Called /\ Newest /\ Harmless /\ Noted

\* A line that is entered is then the newest one.
LEMMA Remembered ==
  ASSUME TypeOK, NEW l \in Lines, Enter(l)
  PROVE  (list[Before(add)])' = l
<1>1. add \in Slot /\ list \in [Slot -> Lines \cup {NoLine}] /\ add' = After(add)
      /\ list' = [list EXCEPT ![add] = l] /\ max' = (IF add' > max THEN add' ELSE max)
      /\ max \in Slot /\ (add = max \/ max = HistMax - 1) /\ add <= max
  BY DEF TypeOK, Enter, Slot
<1>2. (IF add' - 1 < 0 THEN max' ELSE add' - 1) = add
  BY <1>1 DEF After, Slot
<1>3. list'[add] = l
  BY <1>1
<1> QED
  BY <1>2, <1>3 DEF Before

\* A command line begins to run, or is refused.
LEMMA Runs ==
  ASSUME LoopInv, pc = "prompt", NEW l \in Lines \cup Others \cup {NoLine}, Run(l)
  PROVE  /\ Text' /\ Called'
         /\ pc' \in {"prompt", "scan"} /\ rc' \in -1 .. 1
         /\ result' \in -1 .. 0 /\ repeatable' \in 0 .. 1
         /\ lastcommand' \in {l, NoLine}
         /\ pc' = "prompt" => lastcommand' = NoLine
         /\ pc' = "scan" => l # NoLine /\ str' = l /\ lastcommand' = l
<1>1. CASE l = NoLine \/ TooLong(l)
  <2>1. /\ rc' = -1 /\ lastcommand' = Kept(-1, l)
        /\ UNCHANGED <<pc, str, before, argv, result, repeatable>>
    BY <1>1 DEF Run
  <2>2. lastcommand' = NoLine
    BY <2>1 DEF Kept, Forget
  <2> QED
    BY <2>1, <2>2 DEF LoopInv, Text, Flags, Called
<1>2. CASE ~(l = NoLine \/ TooLong(l))
  <2>1. /\ pc' = "scan" /\ str' = l /\ result' = 0 /\ repeatable' = 1
        /\ lastcommand' = l /\ UNCHANGED <<rc, argv>>
    BY <1>2 DEF Run
  <2>2. l \in Seq(Chars)
    BY <1>2, TextAssumption
  <2>3. Len(l) < CbSize
    <3>1. Len(l) \in Nat
      BY <2>2, LenProperties
    <3> QED
      BY <1>2, <3>1, SizesAssumption DEF TooLong
  <2> QED
    BY <1>2, <2>1, <2>2, <2>3 DEF LoopInv, Text, Flags, Called
<1> QED
  BY <1>1, <1>2

\* The invariant, one action of the loop at a time.
LEMMA TypedStep ==
  ASSUME LoopInv, NEW l \in Lines \cup Others, Typed(l)
  PROVE  LoopInv'
<1>1. /\ pc = "prompt" /\ repeat' = FALSE /\ spoilt' = FALSE /\ Run(l)
      /\ IF l \in Lines THEN Enter(l) ELSE EnterOther
  BY DEF Typed
<1>2. TypeOK'
  <2>1. [Next]_vars
    BY <1>1 DEF Next
  <2> QED
    BY <2>1, StepType DEF LoopInv
<1>3. /\ Text' /\ Called' /\ pc' \in {"prompt", "scan"} /\ rc' \in -1 .. 1
      /\ result' \in -1 .. 0 /\ repeatable' \in 0 .. 1 /\ lastcommand' \in {l, NoLine}
  BY <1>1, Runs
<1>4. Flags'
  BY <1>1, <1>3 DEF Flags
<1>5. Newest'
  <2>1. CASE l \in Lines
    <3>1. (list[Before(add)])' = l
      BY <1>1, <2>1, Remembered DEF LoopInv
    <3> QED
      BY <1>3, <3>1, NoLineAssumption DEF Newest
  <2>2. CASE l \notin Lines
    BY <1>3, <2>2, NoLineAssumption DEF Newest
  <2> QED
    BY <2>1, <2>2
<1> QED
  BY <1>1, <1>2, <1>3, <1>4, <1>5 DEF LoopInv, Harmless, Noted

\* Where the history does not move.
LEMMA StaysNewest ==
  ASSUME Newest, UNCHANGED <<max, add, list>>, lastcommand' \in {lastcommand, NoLine}
  PROVE  Newest'
<1>1. (list[Before(add)])' = list[Before(add)]
  BY DEF Before
<1> QED
  BY <1>1, NoLineAssumption DEF Newest

\* An empty line, or a broken one, at the prompt.
LEMMA AgainStep ==
  ASSUME LoopInv, Again
  PROVE  LoopInv'
<1>1. pc = "prompt" /\ EnterOther /\ repeat' = TRUE /\ spoilt' = spoilt /\ Run(lastcommand)
  BY DEF Again
<1>2. TypeOK'
  <2>1. [Next]_vars
    BY <1>1 DEF Next
  <2> QED
    BY <2>1, StepType DEF LoopInv
<1>3. lastcommand \in Lines \cup Others \cup {NoLine}
  BY DEF LoopInv, Flags
<1>4. /\ Text' /\ Called' /\ pc' \in {"prompt", "scan"} /\ rc' \in -1 .. 1
      /\ result' \in -1 .. 0 /\ repeatable' \in 0 .. 1 /\ lastcommand' \in {lastcommand, NoLine}
      /\ pc' = "prompt" => lastcommand' = NoLine
      /\ pc' = "scan" => lastcommand # NoLine
  BY <1>1, <1>3, Runs
<1>5. Flags'
  BY <1>1, <1>3, <1>4 DEF LoopInv, Flags
<1>6. Newest'
  BY <1>1, <1>4, StaysNewest DEF LoopInv, EnterOther
<1>7. Harmless' /\ Noted'
  BY <1>1, <1>4 DEF LoopInv, Harmless, Noted
<1> QED
  BY <1>2, <1>4, <1>5, <1>6, <1>7 DEF LoopInv

\* A break, or a walk through the history, at the prompt.
LEMMA PromptStep ==
  ASSUME LoopInv, Interrupted \/ Walk
  PROVE  LoopInv'
<1>1. TypeOK'
  <2>1. [Next]_vars
    BY DEF Interrupted, Walk, Next
  <2> QED
    BY <2>1, StepType DEF LoopInv
<1>2. /\ UNCHANGED <<pc, rc, str, before, argv, result, repeatable, spoilt, max, add, list>>
      /\ repeat' \in {repeat, FALSE}
      /\ lastcommand' \in {lastcommand, NoLine}
  BY DEF Interrupted, Walk, loop, Kept, Break, Up, Down
<1>3. Text' /\ Called'
  BY <1>2 DEF LoopInv, Text, Called
<1>4. Flags'
  BY <1>2 DEF LoopInv, Flags
<1>5. Newest'
  BY <1>2, StaysNewest DEF LoopInv
<1>6. Harmless' /\ Noted'
  BY <1>2 DEF LoopInv, Harmless, Noted
<1> QED
  BY <1>1, <1>3, <1>4, <1>5, <1>6 DEF LoopInv

\* The search for the end of a command.
LEMMA ScanStep ==
  ASSUME LoopInv, Scan
  PROVE  LoopInv'
<1>1. /\ pc = "scan" /\ argv' = Argv(Token(str, before)) /\ str' = Rest(str, before)
      /\ UNCHANGED <<vars, lastcommand, repeat, rc, repeatable>>
      /\ \/ argv' = <<>> /\ result' = -1 /\ spoilt' = TRUE /\ pc' = pc
         \/ argv' # <<>> /\ pc' = "process" /\ result' = result /\ spoilt' = spoilt
  BY DEF Scan
<1>2. TypeOK'
  BY <1>1, StepType DEF LoopInv
<1>3. str \in Seq(Chars) /\ Len(str) < CbSize
  BY DEF LoopInv, Text
<1>4. /\ Token(str, before) \in Seq(Chars)
      /\ Rest(str, before) \in Seq(Chars) /\ Len(Rest(str, before)) <= Len(str)
  BY <1>3, CutUp
<1>5. Text'
  <2>1. Len(str) \in Nat /\ Len(Rest(str, before)) \in Nat /\ CbSize \in Nat
    BY <1>3, <1>4, LenProperties, SizesAssumption
  <2> QED
    BY <1>1, <1>3, <1>4, <2>1 DEF Text
<1>6. Called'
  <2>1. Macros(Token(str, before)) \in Seq(Chars) /\ MaxArgs \in Nat
    BY <1>4, Expanded, SizesAssumption
  <2>2. Len(Argv(Token(str, before))) <= MaxArgs
    BY <2>1, FewWords DEF Argv
  <2> QED
    BY <1>1, <2>2 DEF Called
<1>7. Flags'
  <2>1. Flags
    BY DEF LoopInv
  <2>2. result' \in -1 .. 0 /\ spoilt' \in BOOLEAN /\ pc' \in {"scan", "process"}
    <3>1. CASE argv' = <<>> /\ result' = -1 /\ spoilt' = TRUE /\ pc' = pc
      BY <1>1, <3>1
    <3>2. CASE argv' # <<>> /\ pc' = "process" /\ result' = result /\ spoilt' = spoilt
      BY <2>1, <3>2 DEF Flags
    <3> QED
      BY <1>1, <3>1, <3>2
  <2>3. UNCHANGED <<lastcommand, repeat, rc, repeatable>>
    BY <1>1
  <2> QED
    BY <2>1, <2>2, <2>3 DEF Flags
<1>8. Newest'
  BY <1>1, StaysNewest DEF LoopInv, vars
<1>9. Harmless' /\ Noted'
  BY <1>1 DEF LoopInv, Harmless, Noted
<1> QED
  BY <1>2, <1>5, <1>6, <1>7, <1>8, <1>9 DEF LoopInv

\* A command is looked up and called.
LEMMA ProcessStep ==
  ASSUME LoopInv, Process
  PROVE  LoopInv'
<1>1. /\ pc = "process" /\ pc' = "scan"
      /\ UNCHANGED <<vars, lastcommand, repeat, rc, str, before, argv>>
  BY DEF Process
<1>2. \/ result' = -1 /\ spoilt' = TRUE /\ repeatable' = repeatable
      \/ \E n \in Find(argv[1]), failed \in BOOLEAN :
           /\ repeatable' = IF Table[n].rep THEN repeatable ELSE 0
           /\ result' = IF failed THEN -1 ELSE result
           /\ spoilt' = (spoilt \/ failed \/ ~Table[n].rep)
  BY DEF Process
<1>3. result \in -1 .. 0 /\ repeatable \in 0 .. 1 /\ spoilt \in BOOLEAN
      /\ (spoilt => result = -1 \/ repeatable = 0)
  BY <1>1 DEF LoopInv, Flags, Noted
<1>4. /\ result' \in -1 .. 0 /\ repeatable' \in 0 .. 1 /\ spoilt' \in BOOLEAN
      /\ (spoilt' => result' = -1 \/ repeatable' = 0)
  <2>1. CASE result' = -1 /\ spoilt' = TRUE /\ repeatable' = repeatable
    BY <1>3, <2>1
  <2>2. ASSUME NEW n, NEW failed \in BOOLEAN,
               repeatable' = IF Table[n].rep THEN repeatable ELSE 0,
               result' = IF failed THEN -1 ELSE result,
               spoilt' = (spoilt \/ failed \/ ~Table[n].rep)
        PROVE  /\ result' \in -1 .. 0 /\ repeatable' \in 0 .. 1 /\ spoilt' \in BOOLEAN
               /\ (spoilt' => result' = -1 \/ repeatable' = 0)
    <3>1. CASE failed
      BY <1>3, <2>2, <3>1
    <3>2. CASE ~failed /\ Table[n].rep
      BY <1>3, <2>2, <3>2
    <3>3. CASE ~failed /\ ~Table[n].rep
      BY <1>3, <2>2, <3>3
    <3> QED
      BY <3>1, <3>2, <3>3
  <2> QED
    BY <1>2, <2>1, <2>2
<1>5. TypeOK'
  BY <1>1, StepType DEF LoopInv
<1>6. Text' /\ Called'
  BY <1>1 DEF LoopInv, Text, Called
<1>7. Flags'
  BY <1>1, <1>4 DEF LoopInv, Flags
<1>8. Newest'
  BY <1>1, StaysNewest DEF LoopInv, vars
<1>9. Harmless' /\ Noted'
  BY <1>1, <1>4 DEF Harmless, Noted
<1> QED
  BY <1>5, <1>6, <1>7, <1>8, <1>9 DEF LoopInv

\* The end of a line in cli_simple_loop.
LEMMA DoneStep ==
  ASSUME LoopInv, Done
  PROVE  LoopInv'
<1>1. /\ pc = "scan" /\ pc' = "prompt"
      /\ rc' = IF result # 0 THEN result ELSE repeatable
      /\ lastcommand' = Kept(rc', lastcommand)
      /\ UNCHANGED <<vars, repeat, str, before, argv, result, repeatable, spoilt>>
  BY DEF Done
<1>2. TypeOK'
  BY <1>1, StepType DEF LoopInv
<1>3. Text' /\ Called'
  BY <1>1 DEF LoopInv, Text, Called
<1>4. lastcommand' \in {lastcommand, NoLine}
  BY <1>1 DEF Kept
<1>5. result \in -1 .. 0 /\ repeatable \in 0 .. 1
  BY DEF LoopInv, Flags
<1>6. Flags'
  <2>1. rc' \in -1 .. 1
    BY <1>1, <1>5
  <2> QED
    BY <1>1, <1>4, <2>1 DEF LoopInv, Flags
<1>7. Newest'
  BY <1>1, <1>4, StaysNewest DEF LoopInv, vars
<1>8. Harmless'
  <2> SUFFICES ASSUME lastcommand' # NoLine
               PROVE  ~spoilt'
    BY DEF Harmless
  <2>1. ~(rc' <= 0)
    BY <1>1 DEF Kept, Forget
  <2>2. result = 0 /\ repeatable = 1
    BY <1>1, <1>5, <2>1
  <2> QED
    BY <1>1, <2>2 DEF LoopInv, Noted
<1>9. Noted'
  BY <1>1 DEF Noted
<1> QED
  BY <1>2, <1>3, <1>6, <1>7, <1>8, <1>9 DEF LoopInv

\* Every step of the loop keeps the invariant.
LEMMA LoopStep ==
  ASSUME LoopInv, [LoopNext]_allVars
  PROVE  LoopInv'
<1>1. CASE UNCHANGED allVars
  BY <1>1 DEF allVars, vars, loop, LoopInv, TypeOK, Text, Flags, Called, Newest, Harmless, Noted,
              Before
<1> QED
  BY <1>1, TypedStep, AgainStep, PromptStep, ScanStep, ProcessStep, DoneStep DEF LoopNext

\* The invariant holds at the beginning.
LEMMA LoopInitially ==
  ASSUME LoopInit
  PROVE  LoopInv
<1>1. Init
  BY DEF LoopInit
<1>2. TypeOK
  BY <1>1 DEF Init, TypeOK, Slot
<1>3. /\ pc = "prompt" /\ lastcommand = NoLine /\ repeat = FALSE /\ rc = 1
      /\ str = <<>> /\ argv = <<>> /\ result = 0 /\ repeatable = 1 /\ spoilt = FALSE
  BY DEF LoopInit
<1>4. Text /\ Called
  <2>1. <<>> \in Seq(Chars) /\ Len(<<>>) = 0
    OBVIOUS
  <2> QED
    BY <1>3, <2>1, SizesAssumption DEF Text, Called
<1>5. Flags
  <2>1. rc \in -1 .. 1 /\ result \in -1 .. 0 /\ repeatable \in 0 .. 1
    BY <1>3
  <2>2. pc \in {"prompt", "scan", "process"} /\ repeat \in BOOLEAN /\ spoilt \in BOOLEAN
    BY <1>3
  <2>3. lastcommand \in Lines \cup Others \cup {NoLine}
    BY <1>3
  <2> QED
    BY <2>1, <2>2, <2>3 DEF Flags
<1>6. Newest
  BY <1>3, NoLineAssumption DEF Newest
<1>7. Harmless /\ Noted
  BY <1>3 DEF Harmless, Noted
<1> QED
  BY <1>2, <1>4, <1>5, <1>6, <1>7 DEF LoopInv

\* lastcommand is the newest line of the history or nothing, and is forgotten with a
\* command that failed or may not be repeated.
THEOREM LoopInvariance == LoopSpec => []LoopInv
<1>1. LoopInit => LoopInv
  BY LoopInitially
<1>2. LoopInv /\ [LoopNext]_allVars => LoopInv'
  BY LoopStep
<1> QED
  BY <1>1, <1>2, PTL DEF LoopSpec

\* For any buffer size, number of arguments and command table: what is cut up fits
\* the buffers, argv has room for the words found, and a command gets at least one.
THEOREM WithinBuffers == LoopSpec => []LoopTypeOK
<1>1. LoopInv => LoopTypeOK
  BY DEF LoopInv, LoopTypeOK, Text, Flags, Called
<1> QED
  BY <1>1, LoopInvariance, PTL

\* An empty line repeats the newest line of the history, and none that failed or may
\* not be repeated.
THEOREM Repeats == LoopSpec => RepeatsNewest
<1>1. LoopInv /\ [LoopNext]_allVars =>
        [pc = "prompt" /\ repeat' /\ pc' = "scan" =>
           ~spoilt /\ (str' \in Lines => list[Before(add)] = str')]_allVars
  <2> SUFFICES ASSUME LoopInv, LoopNext, pc = "prompt", repeat', pc' = "scan"
               PROVE  ~spoilt /\ (str' \in Lines => list[Before(add)] = str')
    OBVIOUS
  <2>1. Again
    BY DEF LoopNext, Typed, Interrupted, Walk, loop, Scan, Process, Done
  <2>2. lastcommand \in Lines \cup Others \cup {NoLine} /\ Run(lastcommand)
    BY <2>1 DEF LoopInv, Flags, Again
  <2>3. lastcommand # NoLine /\ str' = lastcommand
    BY <2>2, Runs
  <2> QED
    BY <2>3 DEF LoopInv, Harmless, Newest
<1> QED
  BY <1>1, LoopInvariance, PTL DEF LoopSpec, RepeatsNewest
=============================================================================
