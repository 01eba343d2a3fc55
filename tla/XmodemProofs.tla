---------------------------- MODULE XmodemProofs ----------------------------
(***************************************************************************)
(* For every file, buffer and window: whatever the line does, the buffer   *)
(* is a growing beginning of the file, as long as no damage gets past the  *)
(* sum.                                                                    *)
(***************************************************************************)
EXTENDS XmodemReceive, SequenceTheorems, TLAPS

(* Packet numbers: what the receiver compares are remainders.              *)

\* Multiples of N are N apart.
LEMMA Bigger ==
  ASSUME NEW N \in Nat, N > 2, NEW a \in Nat, NEW b \in Nat, a > b
  PROVE  N * a >= N * b + N
<1>1. N * (a - b - 1) >= 0
  OBVIOUS
<1> QED
  BY <1>1

\* Quotient and remainder exist,
LEMMA Divided ==
  ASSUME NEW N \in Nat, N > 2, NEW x \in Nat
  PROVE  \E q \in Nat, r \in 0 .. N - 1 : x = N * q + r /\ x % N = r
OBVIOUS

\* and are the only ones.
LEMMA Remainder ==
  ASSUME NEW N \in Nat, N > 2, NEW x \in Nat, NEW q \in Nat, NEW r \in 0 .. N - 1,
         x = N * q + r
  PROVE  x % N = r
<1>1. PICK a \in Nat, c \in 0 .. N - 1 : x = N * a + c /\ x % N = c
  BY Divided
<1>2. ~(a > q)
  BY <1>1, Bigger
<1>3. ~(q > a)
  BY <1>1, Bigger
<1> QED
  BY <1>1, <1>2, <1>3

\* Two packets of one number that are less than N apart are one packet.
LEMMA SameNumber ==
  ASSUME NEW N \in Nat, N > 2, NEW p \in Nat, NEW n \in Nat,
         p % N = n % N, n - N < p, p < n + N
  PROVE  p = n
<1>1. PICK a \in Nat, c \in 0 .. N - 1 : p = N * a + c /\ p % N = c
  BY Divided
<1>2. PICK b \in Nat, d \in 0 .. N - 1 : n = N * b + d /\ n % N = d
  BY Divided
<1>3. ~(a > b)
  BY <1>1, <1>2, Bigger
<1>4. ~(b > a)
  BY <1>1, <1>2, Bigger
<1> QED
  BY <1>1, <1>2, <1>3, <1>4

\* The number of the next packet, as the unsigned char counts.
LEMMA NextNumber ==
  ASSUME NEW N \in Nat, N > 2, NEW n \in Nat
  PROVE  ((n % N) + 1) % N = (n + 1) % N
<1>1. PICK q \in Nat, r \in 0 .. N - 1 : n = N * q + r /\ n % N = r
  BY Divided
<1>2. CASE r + 1 < N
  <2>1. n + 1 = N * q + (r + 1) /\ r + 1 = N * 0 + (r + 1) /\ r + 1 \in 0 .. N - 1 /\ n + 1 \in Nat
    BY <1>1, <1>2
  <2>2. (n + 1) % N = r + 1
    BY <2>1, Remainder
  <2>3. (r + 1) % N = r + 1
    BY <2>1, Remainder
  <2> QED
    BY <1>1, <2>2, <2>3
<1>3. CASE r + 1 = N
  <2>1. n + 1 = N * (q + 1) + 0 /\ r + 1 = N * 1 + 0 /\ 0 \in 0 .. N - 1 /\ q + 1 \in Nat /\ 1 \in Nat /\ n + 1 \in Nat
    BY <1>1, <1>3
  <2>2. (n + 1) % N = 0
    BY ONLY <2>1, Remainder, N \in Nat, N > 2
  <2>3. (r + 1) % N = 0
    BY <2>1, Remainder
  <2> QED
    BY <1>1, <2>2, <2>3
<1> QED
  BY <1>1, <1>2, <1>3

\* The number of the packet before, which the code compares only where it is not negative.
LEMMA PrevNumber ==
  ASSUME NEW N \in Nat, N > 2, NEW n \in Nat, n % N > 0
  PROVE  (n - 1) % N = (n % N) - 1
<1>1. PICK q \in Nat, r \in 0 .. N - 1 : n = N * q + r /\ n % N = r
  BY Divided
<1>2. n - 1 = N * q + (r - 1) /\ r - 1 \in 0 .. N - 1 /\ n - 1 \in Nat
  BY <1>1
<1>3. (n - 1) % N = r - 1
  BY <1>2, Remainder
<1> QED
  BY <1>1, <1>3
-----------------------------------------------------------------------------
(* The inductive invariant.                                                *)

Sent   == [kind : Byte \cup {"packet"}, k : 0 .. Packets, data : Data, last : BOOLEAN]
Answers == [kind : Answer, last : BOOLEAN]

TypeOK ==
  /\ packetno \in 0 .. Numbers - 1
  /\ retry \in 0 .. Retries /\ retrans \in 0 .. MaxRetrans
  /\ trychar \in BOOLEAN
  /\ count \in 0 .. Capacity
  /\ dest \in [1 .. count -> Nat]
  /\ ret \in {"none", "len", "cancelled", "silence", "duplicates"}
  /\ k \in 1 .. Packets + 1
  /\ sender \in {"start", "wait", "done", "quit"}
  /\ toRecv \in Seq(Sent)
  /\ toSend \in Seq(Answers)
  /\ crossed \in BOOLEAN /\ broken \in 0 .. Unseen /\ passed \in 0 .. Passes
  /\ ret = "none" => retry < Retries /\ retrans > 0

\* The receiver expects packet n, and has stored what there was room for of those
\* before it.
Expects(n) ==
  /\ n \in Nat \ {0}
  /\ packetno = n % Numbers
  /\ n <= k + 1 /\ n <= Packets + 1
  /\ count <= Upto[n - 1] /\ (count < Capacity => count = Upto[n - 1])

\* Damage has got past the sum.
Disguised(item) == item.data = "same sum"

\* Behind a packet on the line come all that were sent after it, and its data are
\* the file's before damage has got past the sum.
LineInv ==
  \A i \in 1 .. Len(toRecv) :
    /\ toRecv[i].kind = "packet" =>
         /\ toRecv[i].k \in 1 .. k
         /\ k <= toRecv[i].k + (Len(toRecv) - i)
         /\ Len(toRecv) - i < LineMax
         /\ toRecv[i].last => toRecv[i].k = k
         /\ Disguised(toRecv[i]) => passed > 0
    /\ toRecv[i].kind = "EOT" /\ broken = 0 => k = Packets + 1

\* The answers under way take the sender less than two lines past the receiver, and
\* one to its last transmission says that the packet has been accepted.
AnswerInv(n) ==
  ret = "none" =>
    /\ k <= n + 2 * LineMax - 2
    /\ ~crossed => k <= n
    /\ \A i \in 1 .. Len(toSend) : toSend[i].kind = "ACK" =>
         /\ k + i <= n + 2 * LineMax - 2
         /\ toSend[i].last => k < n

IInv(n) == Expects(n) /\ LineInv /\ AnswerInv(n) /\ Len(toSend) <= LineMax /\ Whole
-----------------------------------------------------------------------------
(* The line.                                                               *)

\* The item the receiver reads next.
LEMMA First ==
  ASSUME TypeOK, toRecv # <<>>
  PROVE  /\ Len(toRecv) \in Nat \ {0}
         /\ Head(toRecv) = toRecv[1] /\ toRecv[1] \in Sent
         /\ Tail(toRecv) = SubSeq(toRecv, 2, Len(toRecv))
  BY TailIsSubSeq, EmptySeq, LenProperties DEF TypeOK

\* What is left of the line from place m on.
LEMMA Remains ==
  ASSUME TypeOK, NEW m \in 1 .. Len(toRecv) + 1
  PROVE  LET s == SubSeq(toRecv, m, Len(toRecv))
         IN /\ s \in Seq(Sent) /\ Len(s) = Len(toRecv) - (m - 1)
            /\ \A i \in 1 .. Len(s) : i + (m - 1) \in 1 .. Len(toRecv) /\ s[i] = toRecv[i + (m - 1)]
<1>1. Len(toRecv) \in Nat /\ \A i \in 1 .. Len(toRecv) : toRecv[i] \in Sent
  BY LenProperties, ElementOfSeq DEF TypeOK
<1>2. \A i \in m .. Len(toRecv) : toRecv[i] \in Sent
  BY <1>1
<1>3. /\ SubSeq(toRecv, m, Len(toRecv)) \in Seq(Sent)
      /\ Len(SubSeq(toRecv, m, Len(toRecv))) = IF m <= Len(toRecv) THEN Len(toRecv) - m + 1 ELSE 0
      /\ \A i \in 1 .. Len(toRecv) - m + 1 : SubSeq(toRecv, m, Len(toRecv))[i] = toRecv[m + i - 1]
  BY <1>1, <1>2, SubSeqProperties
<1>4. Len(SubSeq(toRecv, m, Len(toRecv))) = Len(toRecv) - (m - 1)
  BY <1>1, <1>3
<1>5. ASSUME NEW i \in 1 .. Len(SubSeq(toRecv, m, Len(toRecv)))
      PROVE  i + (m - 1) \in 1 .. Len(toRecv) /\ SubSeq(toRecv, m, Len(toRecv))[i] = toRecv[i + (m - 1)]
  <2>1. i \in 1 .. Len(toRecv) - m + 1 /\ m + i - 1 = i + (m - 1)
    BY <1>1, <1>4
  <2> QED
    BY <1>1, <1>3, <2>1
<1> QED
  BY <1>3, <1>4, <1>5

LEMMA FiniteFunction ==
  ASSUME NEW S, NEW n \in Nat, NEW f \in [1 .. n -> S]
  PROVE  f \in Seq(S) /\ Len(f) = n
<1>1. f \in Seq(S)
  BY SeqDef
<1> QED
  BY <1>1, LenProperties

\* Each item of a line in two parts is in one of them.
LEMMA Joined ==
  ASSUME NEW S, NEW u \in Seq(S), NEW t \in Seq(S)
  PROVE  /\ (u \o t) \in Seq(S) /\ Len(u \o t) = Len(u) + Len(t)
         /\ \A i \in 1 .. Len(u \o t) :
              \/ i \in 1 .. Len(u) /\ (u \o t)[i] = u[i]
              \/ i - Len(u) \in 1 .. Len(t) /\ (u \o t)[i] = t[i - Len(u)]
<1>1. Len(u) \in Nat /\ Len(t) \in Nat
  BY LenProperties
<1>2. /\ u \o t \in Seq(S) /\ Len(u \o t) = Len(u) + Len(t)
      /\ \A i \in 1 .. Len(u) + Len(t) : (u \o t)[i] = IF i <= Len(u) THEN u[i] ELSE t[i - Len(u)]
  BY ConcatProperties
<1> QED
  BY <1>1, <1>2

\* What is behind the first byte of a broken packet.
LEMMA Broken ==
  ASSUME TypeOK, NEW b \in 1 .. Len(toRecv), Break(b)
  PROVE  /\ toRecv' \in Seq(Sent) /\ broken' \in 1 .. Unseen
         /\ \E d \in Int :
              /\ Len(toRecv') = Len(toRecv) - d
              /\ \A i \in 1 .. Len(toRecv') :
                   toRecv'[i].kind = "packet" => i + d \in 1 .. Len(toRecv) /\ toRecv'[i] = toRecv[i + d]
<1>1. PICK body \in Bodies :
        toRecv' = [j \in DOMAIN body |-> Item(body[j], 0)] \o SubSeq(toRecv, b + 1, Len(toRecv))
  BY DEF Break
<1> DEFINE t == SubSeq(toRecv, b + 1, Len(toRecv))
           u == [j \in DOMAIN body |-> Item(body[j], 0)]
<1>2. body \in Seq(Byte)
  BY BodiesAssumption
<1>3. Len(body) \in Nat /\ DOMAIN body = 1 .. Len(body) /\ \A j \in 1 .. Len(body) : body[j] \in Byte
  BY <1>2, LenProperties, ElementOfSeq
<1>4. \A j \in 1 .. Len(body) : Item(body[j], 0) \in Sent /\ Item(body[j], 0).kind # "packet"
  BY <1>3, SizeAssumption DEF Item, Sent, Byte, Data
<1>5. u \in Seq(Sent) /\ Len(u) = Len(body) /\ \A j \in 1 .. Len(u) : u[j].kind # "packet"
  <2>1. u \in [1 .. Len(body) -> Sent] /\ \A j \in 1 .. Len(body) : u[j].kind # "packet"
    BY <1>3, <1>4
  <2> HIDE DEF u
  <2> QED
    BY <1>3, <2>1, FiniteFunction
<1>6. Len(toRecv) \in Nat
  BY LenProperties DEF TypeOK
<1>7. b + 1 \in 1 .. Len(toRecv) + 1 /\ (b + 1) - 1 = b
  BY <1>6
<1>8. /\ t \in Seq(Sent) /\ Len(t) = Len(toRecv) - b
      /\ \A i \in 1 .. Len(t) : i + b \in 1 .. Len(toRecv) /\ t[i] = toRecv[i + b]
  BY <1>7, Remains
<1> HIDE DEF t, u
<1>9. toRecv' = u \o t
  BY <1>1 DEF t, u
<1>10. /\ toRecv' \in Seq(Sent) /\ Len(toRecv') = Len(u) + Len(t)
       /\ \A i \in 1 .. Len(toRecv') :
            \/ i \in 1 .. Len(u) /\ toRecv'[i] = u[i]
            \/ i - Len(u) \in 1 .. Len(t) /\ toRecv'[i] = t[i - Len(u)]
  <2>1. u \in Seq(Sent) /\ t \in Seq(Sent)
    BY <1>5, <1>8
  <2> QED
    BY <2>1, <1>9, Joined
<1> DEFINE d == b - Len(u)
<1>11. d \in Int /\ Len(toRecv') = Len(toRecv) - d
  BY <1>3, <1>5, <1>6, <1>8, <1>10
<1>12. ASSUME NEW i \in 1 .. Len(toRecv'), toRecv'[i].kind = "packet"
       PROVE  i + d \in 1 .. Len(toRecv) /\ toRecv'[i] = toRecv[i + d]
  <2>1. i - Len(u) \in 1 .. Len(t) /\ toRecv'[i] = t[i - Len(u)]
    BY <1>5, <1>10, <1>12
  <2>2. toRecv'[i] = toRecv[(i - Len(u)) + b] /\ (i - Len(u)) + b \in 1 .. Len(toRecv)
    BY <1>8, <2>1
  <2>3. (i - Len(u)) + b = i + d
    BY <1>3, <1>5
  <2> QED
    BY <2>2, <2>3
<1>13. broken' \in 1 .. Unseen
  BY LineAssumption DEF TypeOK, Break
<1> QED
  BY <1>10, <1>11, <1>12, <1>13

\* The line keeps its order when items are taken from it, or bytes put in front.
LEMMA Shifted ==
  ASSUME TypeOK, LineInv, UNCHANGED <<k, passed>>, NEW d \in Int, toRecv' \in Seq(Sent),
         Len(toRecv') = Len(toRecv) - d, broken' = broken \/ broken' # 0,
         \A i \in 1 .. Len(toRecv') :
           toRecv'[i].kind = "packet" \/ broken' = broken =>
             i + d \in 1 .. Len(toRecv) /\ toRecv'[i] = toRecv[i + d]
  PROVE  LineInv'
<1> SUFFICES ASSUME NEW i \in 1 .. Len(toRecv')
             PROVE  /\ toRecv'[i].kind = "packet" =>
                         /\ toRecv'[i].k \in 1 .. k
                         /\ k <= toRecv'[i].k + (Len(toRecv') - i)
                         /\ Len(toRecv') - i < LineMax
                         /\ toRecv'[i].last => toRecv'[i].k = k
                         /\ Disguised(toRecv'[i]) => passed > 0
                    /\ toRecv'[i].kind = "EOT" /\ broken' = 0 => k = Packets + 1
  BY DEF LineInv
<1>1. Len(toRecv) \in Nat /\ Len(toRecv') \in Nat
  BY LenProperties DEF TypeOK
<1>2. Len(toRecv) - (i + d) = Len(toRecv') - i
  BY <1>1
<1>3. CASE toRecv'[i].kind = "packet" \/ broken' = broken
  <2>1. i + d \in 1 .. Len(toRecv) /\ toRecv'[i] = toRecv[i + d]
    BY <1>3
  <2>2. /\ toRecv[i + d].kind = "packet" =>
             /\ toRecv[i + d].k \in 1 .. k
             /\ k <= toRecv[i + d].k + (Len(toRecv) - (i + d))
             /\ Len(toRecv) - (i + d) < LineMax
             /\ toRecv[i + d].last => toRecv[i + d].k = k
             /\ Disguised(toRecv[i + d]) => passed > 0
        /\ toRecv[i + d].kind = "EOT" /\ broken = 0 => k = Packets + 1
    BY <2>1 DEF LineInv
  <2>3. toRecv'[i].kind = "EOT" /\ broken' = 0 => broken = 0
    OBVIOUS
  <2> QED
    BY <1>2, <2>1, <2>2, <2>3
<1>4. CASE toRecv'[i].kind # "packet" /\ broken' # broken
  BY <1>4
<1> QED
  BY <1>3, <1>4

\* The line invariant is about what is behind a packet, so losing the front keeps it,
LEMMA FromPlace ==
  ASSUME TypeOK, LineInv, UNCHANGED <<k, broken, passed>>,
         NEW m \in 1 .. Len(toRecv) + 1, toRecv' = SubSeq(toRecv, m, Len(toRecv))
  PROVE  LineInv' /\ toRecv' \in Seq(Sent)
<1>1. m - 1 \in Int
  BY LenProperties DEF TypeOK
<1> QED
  BY <1>1, Remains, Shifted

\* and so does turning the front into single bytes.
LEMMA AfterBreak ==
  ASSUME TypeOK, LineInv, UNCHANGED <<k, passed>>, NEW b \in 1 .. Len(toRecv), Break(b)
  PROVE  LineInv' /\ toRecv' \in Seq(Sent) /\ broken' \in 1 .. Unseen
<1>1. PICK d \in Int :
        /\ Len(toRecv') = Len(toRecv) - d
        /\ \A i \in 1 .. Len(toRecv') :
             toRecv'[i].kind = "packet" => i + d \in 1 .. Len(toRecv) /\ toRecv'[i] = toRecv[i + d]
  BY Broken
<1>2. toRecv' \in Seq(Sent) /\ broken' \in 1 .. Unseen
  BY Broken
<1>3. broken' # broken /\ broken' # 0
  BY LineAssumption DEF Break, TypeOK
<1>4. LineInv'
  BY <1>1, <1>2, <1>3, Shifted
<1> QED
  BY <1>2, <1>4

\* A transmission that is not the last any more is otherwise the same.
LEMMA OlderItems ==
  ASSUME NEW s \in Seq(Sent)
  PROVE  /\ Older(s) \in Seq(Sent) /\ Len(Older(s)) = Len(s)
         /\ \A i \in 1 .. Len(s) :
              /\ Older(s)[i].kind = s[i].kind /\ Older(s)[i].k = s[i].k
              /\ Disguised(Older(s)[i]) = Disguised(s[i]) /\ Older(s)[i].last = FALSE
<1>1. Len(s) \in Nat /\ DOMAIN s = 1 .. Len(s) /\ \A i \in 1 .. Len(s) : s[i] \in Sent
  BY LenProperties, ElementOfSeq
<1>2. /\ Older(s) \in [1 .. Len(s) -> Sent]
      /\ \A i \in 1 .. Len(s) :
           /\ Older(s)[i].kind = s[i].kind /\ Older(s)[i].k = s[i].k
           /\ Disguised(Older(s)[i]) = Disguised(s[i]) /\ Older(s)[i].last = FALSE
  BY <1>1 DEF Older, Sent, Disguised
<1> QED
  BY <1>1, <1>2, FiniteFunction

LEMMA OlderAnswers ==
  ASSUME NEW s \in Seq(Answers)
  PROVE  /\ Older(s) \in Seq(Answers) /\ Len(Older(s)) = Len(s)
         /\ \A i \in 1 .. Len(s) : Older(s)[i].kind = s[i].kind /\ Older(s)[i].last = FALSE
<1>1. Len(s) \in Nat /\ DOMAIN s = 1 .. Len(s) /\ \A i \in 1 .. Len(s) : s[i] \in Answers
  BY LenProperties, ElementOfSeq
<1>2. /\ Older(s) \in [1 .. Len(s) -> Answers]
      /\ \A i \in 1 .. Len(s) : Older(s)[i].kind = s[i].kind /\ Older(s)[i].last = FALSE
  BY <1>1 DEF Older, Answers
<1> QED
  BY <1>1, <1>2, FiniteFunction

\* What is sent goes behind all that is under way.
LEMMA Sending ==
  ASSUME TypeOK, LineInv, NEW items \in Seq(Sent), Len(items) > 0, Send(items),
         k' \in {k, k + 1}, k' <= Packets + 1, UNCHANGED <<broken, passed>>,
         \A j \in 1 .. Len(items) :
           /\ items[j].kind = "packet" =>
                j = Len(items) /\ items[j].k = k' /\ k' <= Packets /\ ~Disguised(items[j])
           /\ items[j].kind = "EOT" => k' = Packets + 1
  PROVE  LineInv' /\ toRecv' \in Seq(Sent)
<1> DEFINE old == Older(toRecv)
<1>1. /\ old \in Seq(Sent) /\ Len(old) = Len(toRecv)
      /\ \A i \in 1 .. Len(toRecv) :
           /\ old[i].kind = toRecv[i].kind /\ old[i].k = toRecv[i].k
           /\ Disguised(old[i]) = Disguised(toRecv[i]) /\ old[i].last = FALSE
  BY OlderItems DEF TypeOK
<1>2. toRecv' = old \o items /\ Len(toRecv) + Len(items) <= LineMax
  BY DEF Send
<1> HIDE DEF old
<1>3. /\ toRecv' \in Seq(Sent) /\ Len(toRecv') = Len(old) + Len(items)
      /\ \A i \in 1 .. Len(toRecv') :
           \/ i \in 1 .. Len(old) /\ toRecv'[i] = old[i]
           \/ i - Len(old) \in 1 .. Len(items) /\ toRecv'[i] = items[i - Len(old)]
  <2>1. old \in Seq(Sent) /\ items \in Seq(Sent)
    BY <1>1
  <2> QED
    BY <1>2, <2>1, Joined
<1>4. Len(toRecv) \in Nat /\ Len(items) \in Nat /\ k \in Nat \ {0} /\ LineMax \in Nat /\ Packets \in Nat
  BY LenProperties, LineAssumption, SizeAssumption DEF TypeOK
<1>5. ASSUME NEW i \in 1 .. Len(toRecv')
      PROVE  /\ toRecv'[i].kind = "packet" =>
                  /\ toRecv'[i].k \in 1 .. k'
                  /\ k' <= toRecv'[i].k + (Len(toRecv') - i)
                  /\ Len(toRecv') - i < LineMax
                  /\ toRecv'[i].last => toRecv'[i].k = k'
                  /\ Disguised(toRecv'[i]) => passed > 0
             /\ toRecv'[i].kind = "EOT" /\ broken' = 0 => k' = Packets + 1
  <2>1. CASE i \in 1 .. Len(old) /\ toRecv'[i] = old[i]
    <3>1. /\ toRecv[i].kind = "packet" =>
               /\ toRecv[i].k \in 1 .. k
               /\ k <= toRecv[i].k + (Len(toRecv) - i)
               /\ Disguised(toRecv[i]) => passed > 0
          /\ toRecv[i].kind = "EOT" /\ broken = 0 => k = Packets + 1
      BY <1>1, <2>1 DEF LineInv
    <3>2. /\ toRecv'[i].kind = toRecv[i].kind /\ toRecv'[i].k = toRecv[i].k
          /\ Disguised(toRecv'[i]) = Disguised(toRecv[i]) /\ toRecv'[i].last = FALSE
      BY <1>1, <2>1
    <3>3. Len(toRecv') - i < LineMax /\ Len(toRecv) - i + 1 <= Len(toRecv') - i
      BY <1>1, <1>2, <1>3, <1>4
    <3>4. toRecv'[i].kind = "packet" => k' <= toRecv'[i].k + (Len(toRecv') - i)
      <4> SUFFICES ASSUME toRecv'[i].kind = "packet"
                   PROVE  k' <= toRecv'[i].k + (Len(toRecv') - i)
        OBVIOUS
      <4>1. PICK p \in Nat : p = toRecv[i].k
        BY <1>4, <3>1, <3>2
      <4> DEFINE x == Len(toRecv) - i
                 y == Len(toRecv') - i
      <4>2. x \in Int /\ y \in Int
        BY <1>1, <1>3, <1>4
      <4>3. k <= p + x /\ x + 1 <= y
        BY <3>1, <3>2, <3>3, <4>1
      <4> HIDE DEF x, y
      <4>4. k + 1 <= p + y
        BY <1>4, <4>2, <4>3
      <4>5. p + y \in Int
        BY <4>2
      <4>6. k <= p + y
        BY <1>4, <4>4, <4>5
      <4>7. k' <= p + y
        BY <4>4, <4>6
      <4> QED
        BY <3>2, <4>1, <4>7 DEF y
    <3>5. toRecv'[i].kind = "packet" => toRecv'[i].k \in 1 .. k'
      BY <1>4, <3>1, <3>2
    <3>6. toRecv'[i].kind = "EOT" /\ broken' = 0 => k' = Packets + 1
      BY <1>4, <3>1, <3>2
    <3> QED
      BY <3>1, <3>2, <3>3, <3>4, <3>5, <3>6
  <2>2. CASE i - Len(old) \in 1 .. Len(items) /\ toRecv'[i] = items[i - Len(old)]
    <3>1. i - Len(old) = Len(items) => Len(toRecv') - i = 0
      BY <1>1, <1>3, <1>4
    <3>2. PICK j \in 1 .. Len(items) : j = i - Len(old) /\ toRecv'[i] = items[j]
      BY <2>2
    <3>3. /\ items[j].kind = "packet" =>
               j = Len(items) /\ items[j].k = k' /\ k' <= Packets /\ ~Disguised(items[j])
          /\ items[j].kind = "EOT" => k' = Packets + 1
      BY <3>2
    <3>4. items[j].kind = "packet" => Len(toRecv') - i = 0
      BY <3>1, <3>2, <3>3
    <3>5. k' \in 1 .. k' /\ k' <= k' + 0 /\ 0 < LineMax
      <4>1. PICK z \in Nat \ {0} : z = k'
        BY <1>4
      <4>2. z \in 1 .. z /\ z <= z + 0 /\ 0 < LineMax
        BY LineAssumption
      <4> QED
        BY <4>1, <4>2
    <3> QED
      BY <3>2, <3>3, <3>4, <3>5
  <2> QED
    BY <1>3, <2>1, <2>2
<1> QED
  BY <1>3, <1>5 DEF LineInv

\* The sender puts the packet it is on behind all others.
LEMMA Transmitting ==
  ASSUME TypeOK, LineInv, k' \in {k, k + 1}, k' <= Packets + 1, UNCHANGED <<broken, passed>>,
         Send(Transmission(k'))
  PROVE  LineInv' /\ toRecv' \in Seq(Sent)
<1> DEFINE it == IF k' > Packets THEN Item("EOT", 0) ELSE Item("packet", k')
<1>1. k' \in 1 .. Packets + 1 /\ Packets \in Nat
  BY SizeAssumption DEF TypeOK
<1>2. /\ it \in Sent
      /\ it.kind = "packet" => it.k = k' /\ k' <= Packets /\ ~Disguised(it)
      /\ it.kind = "EOT" => k' = Packets + 1
  BY <1>1 DEF Item, Sent, Byte, Data, Disguised
<1>3. Transmission(k') = <<it>>
  BY DEF Transmission
<1> HIDE DEF it
<1> DEFINE items == <<it>>
<1>4. items \in Seq(Sent) /\ Len(items) = 1 /\ items[1] = it
  BY <1>2
<1>5. Send(items)
  BY <1>3
<1> HIDE DEF items
<1>6. /\ Len(items) > 0
      /\ \A j \in 1 .. Len(items) :
           /\ items[j].kind = "packet" =>
                j = Len(items) /\ items[j].k = k' /\ k' <= Packets /\ ~Disguised(items[j])
           /\ items[j].kind = "EOT" => k' = Packets + 1
  BY <1>2, <1>4
<1> QED
  BY <1>4, <1>5, <1>6, Sending
-----------------------------------------------------------------------------
(* The answers.                                                            *)

\* The receiver answers.
LEMMA Replied ==
  ASSUME TypeOK, NEW a \in Answer, NEW last \in BOOLEAN, Reply(a, last)
  PROVE  /\ toSend' \in Seq(Answers) /\ Len(toSend') = Len(toSend) + 1
         /\ \A i \in 1 .. Len(toSend') :
              \/ i \in 1 .. Len(toSend) /\ toSend'[i] = toSend[i]
              \/ i = Len(toSend) + 1 /\ toSend'[i] = [kind |-> a, last |-> last]
<1> DEFINE e == [kind |-> a, last |-> last]
<1>1. e \in Answers /\ toSend \in Seq(Answers) /\ toSend' = Append(toSend, e) /\ Len(toSend) \in Nat
  BY LenProperties DEF Answers, Reply, TypeOK
<1> HIDE DEF e
<1>2. /\ toSend' \in Seq(Answers) /\ Len(toSend') = Len(toSend) + 1
      /\ \A i \in 1 .. Len(toSend) : toSend'[i] = toSend[i]
      /\ toSend'[Len(toSend) + 1] = e
  BY <1>1, AppendProperties
<1> QED
  BY <1>1, <1>2 DEF e

\* An answer that is not an ACK, or an ACK that is no further ahead than the others.
LEMMA Answering ==
  ASSUME TypeOK, NEW n \in Nat, AnswerInv(n), ret = "none", RoomToReply,
         NEW a \in Answer, NEW last \in BOOLEAN, Reply(a, last),
         UNCHANGED <<k, crossed>>, NEW m \in {n, n + 1},
         ret' = "none" /\ a = "ACK" =>
           k + (Len(toSend) + 1) <= m + 2 * LineMax - 2 /\ (last => k < m)
  PROVE  AnswerInv(m)' /\ toSend' \in Seq(Answers) /\ Len(toSend') <= LineMax
<1>1. /\ toSend' \in Seq(Answers) /\ Len(toSend') = Len(toSend) + 1
      /\ \A i \in 1 .. Len(toSend') :
           \/ i \in 1 .. Len(toSend) /\ toSend'[i] = toSend[i]
           \/ i = Len(toSend) + 1 /\ toSend'[i] = [kind |-> a, last |-> last]
  BY Replied
<1>2. Len(toSend) \in Nat /\ k \in Nat /\ LineMax \in Nat
  BY LenProperties, LineAssumption, SizeAssumption DEF TypeOK
<1>3. Len(toSend') <= LineMax
  BY <1>1, <1>2 DEF RoomToReply
<1>4. k <= m + 2 * LineMax - 2 /\ (~crossed => k <= m)
  BY <1>2 DEF AnswerInv
<1>5. ASSUME NEW i \in 1 .. Len(toSend'), toSend'[i].kind = "ACK", ret' = "none"
      PROVE  k + i <= m + 2 * LineMax - 2 /\ (toSend'[i].last => k < m)
  <2>1. CASE i \in 1 .. Len(toSend) /\ toSend'[i] = toSend[i]
    <3>1. k + i <= n + 2 * LineMax - 2 /\ (toSend[i].last => k < n)
      BY <1>5, <2>1 DEF AnswerInv
    <3>2. k + i \in Int /\ 2 * LineMax \in Int
      BY <1>2
    <3>3. k + i <= m + 2 * LineMax - 2
      BY <3>1, <3>2
    <3>4. k < n => k < m
      BY <1>2
    <3> QED
      BY <2>1, <3>1, <3>3, <3>4
  <2>2. CASE i = Len(toSend) + 1 /\ toSend'[i] = [kind |-> a, last |-> last]
    BY <1>5, <2>2
  <2> QED
    BY <1>1, <2>1, <2>2
<1>6. AnswerInv(m)'
  BY <1>4, <1>5 DEF AnswerInv
<1> QED
  BY <1>1, <1>3, <1>6

\* The first answer is taken.
LEMMA Taken ==
  ASSUME TypeOK, toSend # <<>>, toSend' \in {Tail(toSend), Older(Tail(toSend))}
  PROVE  /\ toSend' \in Seq(Answers) /\ Len(toSend') = Len(toSend) - 1 /\ Len(toSend) \in Nat \ {0}
         /\ Head(toSend) = toSend[1] /\ toSend[1] \in Answers
         /\ \A i \in 1 .. Len(toSend') :
              /\ i + 1 \in 1 .. Len(toSend)
              /\ toSend'[i].kind = toSend[i + 1].kind
              /\ toSend'[i].last => toSend[i + 1].last /\ toSend' = Tail(toSend)
<1> DEFINE t == Tail(toSend)
<1>1. toSend \in Seq(Answers) /\ Len(toSend) \in Nat \ {0}
  BY EmptySeq DEF TypeOK
<1>2. /\ t \in Seq(Answers) /\ Len(t) = Len(toSend) - 1
      /\ \A i \in 1 .. Len(t) : t[i] = toSend[i + 1]
  BY <1>1, HeadTailProperties
<1>3. Head(toSend) = toSend[1] /\ toSend[1] \in Answers
  BY <1>1, ElementOfSeq
<1> HIDE DEF t
<1>4. /\ Older(t) \in Seq(Answers) /\ Len(Older(t)) = Len(t)
      /\ \A i \in 1 .. Len(t) : Older(t)[i].kind = t[i].kind /\ Older(t)[i].last = FALSE
  BY <1>2, OlderAnswers
<1>5. toSend' = t \/ toSend' = Older(t)
  BY DEF t
<1>6. toSend' \in Seq(Answers) /\ Len(toSend') = Len(toSend) - 1
  BY <1>2, <1>4, <1>5
<1>7. ASSUME NEW i \in 1 .. Len(toSend')
      PROVE  /\ i + 1 \in 1 .. Len(toSend)
             /\ toSend'[i].kind = toSend[i + 1].kind
             /\ toSend'[i].last => toSend[i + 1].last /\ toSend' = t
  <2>1. i + 1 \in 1 .. Len(toSend) /\ i \in 1 .. Len(t)
    BY <1>1, <1>2, <1>6
  <2> QED
    BY <1>2, <1>4, <1>5, <2>1
<1> QED
  BY <1>1, <1>3, <1>6, <1>7 DEF t
-----------------------------------------------------------------------------
(* The receiver's steps.                                                   *)

LEMMA HeadTaken ==
  ASSUME TypeOK, LineInv, toRecv # <<>>, toRecv' = Tail(toRecv), UNCHANGED <<k, broken, passed>>
  PROVE  LineInv' /\ toRecv' \in Seq(Sent)
<1>1. 2 \in 1 .. Len(toRecv) + 1 /\ toRecv' = SubSeq(toRecv, 2, Len(toRecv))
  BY First
<1> QED
  BY <1>1, FromPlace

\* The next try of the header loop, with the NAK it may send.
LEMMA Trying ==
  ASSUME TypeOK, NEW n \in Nat, AnswerInv(n), Running, NEW last \in BOOLEAN, NextTry(last),
         UNCHANGED <<k, crossed>>
  PROVE  /\ AnswerInv(n)' /\ toSend' \in Seq(Answers)
         /\ Len(toSend) <= LineMax => Len(toSend') <= LineMax
         /\ retry' \in 0 .. Retries /\ ret' \in {"none", "silence"}
         /\ ret' = "none" => retry' < Retries
<1>1. /\ retry' \in 0 .. Retries /\ ret' \in {"none", "silence"}
      /\ ret' = "none" => retry' < Retries
  BY CountAssumption DEF TypeOK, Running, NextTry, Spent
<1>2. ret = "none" /\ RoomToReply
  BY DEF Running
<1>3. CASE \E a \in {"CAN", "NAK"} : Reply(a, last)
  <2>1. PICK a \in {"CAN", "NAK"} : Reply(a, last)
    BY <1>3
  <2>2. a \in Answer /\ a # "ACK" /\ n \in {n, n + 1}
    BY DEF Answer
  <2>3. AnswerInv(n)' /\ toSend' \in Seq(Answers) /\ Len(toSend') <= LineMax
    BY <1>2, <2>1, <2>2, Answering
  <2> QED
    BY <1>1, <2>3
<1>4. CASE UNCHANGED toSend
  <2>1. AnswerInv(n)'
    BY <1>2, <1>4 DEF AnswerInv
  <2> QED
    BY <1>1, <1>4, <2>1 DEF TypeOK
<1> QED
  BY <1>3, <1>4 DEF NextTry

\* The number of the first packet on the line is that of no other packet.
LEMMA HeadNumber ==
  ASSUME TypeOK, NEW n, IInv(n), ret = "none", Heard("packet")
  PROVE  LET p == Head(toRecv).k
         IN /\ p \in 1 .. Packets /\ p <= k
            /\ k <= p + LineMax - 1
            /\ Head(toRecv).last => p = k
            /\ Number = packetno => p = n
            /\ Repeated(Number) => p = n - 1
<1> DEFINE p == Head(toRecv).k
<1>1. toRecv # <<>> /\ toRecv[1].kind = "packet" /\ p = toRecv[1].k /\ Len(toRecv) \in Nat \ {0}
  BY First DEF Heard
<1>2. toRecv[1] \in Sent
  BY <1>1, First
<1>3. /\ p \in 1 .. k /\ k <= p + (Len(toRecv) - 1) /\ Len(toRecv) - 1 < LineMax
      /\ toRecv[1].last => p = k
  BY <1>1 DEF IInv, LineInv
<1>4. /\ k \in Nat /\ LineMax \in Nat \ {0} /\ Packets \in Nat /\ Numbers \in Nat /\ Numbers > 2
      /\ p \in 0 .. Packets /\ 2 * LineMax <= Numbers
  BY <1>1, <1>2, LineAssumption, SizeAssumption, NumberAssumption, WindowAssumption DEF TypeOK, Sent
<1>5. n \in Nat \ {0} /\ packetno = n % Numbers /\ n <= k + 1 /\ k <= n + 2 * LineMax - 2
  BY DEF IInv, Expects, AnswerInv
<1>6. Head(toRecv).last => p = k
  BY <1>3, <1>1, First
<1> HIDE DEF p
<1>7. k <= p + LineMax - 1
  BY <1>1, <1>3, <1>4
<1>8. n - Numbers < p /\ p < n + Numbers
  BY <1>3, <1>4, <1>5, <1>7
<1>9. p % Numbers = packetno => p = n
  <2>1. p \in Nat /\ n \in Nat
    BY <1>4, <1>5
  <2> QED
    BY <1>4, <1>5, <1>8, <2>1, SameNumber
<1>10. ASSUME p % Numbers = packetno - 1
       PROVE  p = n - 1
  <2>1. n % Numbers > 0
    BY <1>4, <1>5, <1>10
  <2>2. (n - 1) % Numbers = p % Numbers
    BY <1>4, <1>5, <1>10, <2>1, PrevNumber
  <2>3. (n - 1) - Numbers < p /\ p < (n - 1) + Numbers /\ n - 1 \in Nat /\ p \in Nat
    BY <1>3, <1>4, <1>5, <1>7
  <2> QED
    BY <1>4, <2>2, <2>3, SameNumber
<1> QED
  BY <1>3, <1>4, <1>6, <1>7, <1>9, <1>10 DEF p, Number, Repeated

\* Nothing comes, or nothing that begins a packet.
LEMMA TryStep ==
  ASSUME TypeOK, NEW n, IInv(n), HeaderTimeout \/ Junk \/ CancelAlone
  PROVE  TypeOK' /\ IInv(n)'
<1>1. /\ Running /\ UNCHANGED <<packetno, retrans, trychar, count, dest, peer, crossed, passed>>
      /\ \E last \in BOOLEAN : NextTry(last)
  BY DEF HeaderTimeout, Junk, CancelAlone, history
<1>2. UNCHANGED <<k, sender, passed>> /\ n \in Nat /\ AnswerInv(n) /\ LineInv /\ ret = "none"
  BY <1>1 DEF peer, IInv, Expects, Running
<1>3. /\ AnswerInv(n)' /\ toSend' \in Seq(Answers) /\ Len(toSend') <= LineMax
      /\ retry' \in 0 .. Retries /\ ret' \in {"none", "silence"}
      /\ ret' = "none" => retry' < Retries
  BY <1>1, <1>2, Trying DEF IInv
<1>4. LineInv' /\ toRecv' \in Seq(Sent) /\ broken' \in 0 .. Unseen
  <2>1. CASE UNCHANGED <<toRecv, broken>>
    <3>1. LineInv'
      BY <1>2, <2>1 DEF LineInv
    <3> QED
      BY <2>1, <3>1 DEF TypeOK
  <2>2. CASE toRecv # <<>> /\ toRecv' = Tail(toRecv) /\ UNCHANGED broken
    BY <1>2, <2>2, HeadTaken DEF TypeOK
  <2>3. CASE Len(toRecv) > 1 /\ toRecv' = SubSeq(toRecv, 3, Len(toRecv)) /\ UNCHANGED broken
    <3>1. 3 \in 1 .. Len(toRecv) + 1
      BY <2>3, LenProperties DEF TypeOK
    <3> QED
      BY <1>2, <2>3, <3>1, FromPlace DEF TypeOK
  <2>4. CASE Len(toRecv) > 1 /\ Break(2)
    <3>1. 2 \in 1 .. Len(toRecv)
      BY <2>4, LenProperties DEF TypeOK
    <3> QED
      BY <1>2, <2>4, <3>1, AfterBreak, LineAssumption
  <2> QED
    BY <2>1, <2>2, <2>3, <2>4 DEF HeaderTimeout, Junk, CancelAlone, Heard, history
<1>5. TypeOK'
  BY <1>1, <1>2, <1>3, <1>4 DEF TypeOK
<1>6. Expects(n)' /\ Whole'
  BY <1>1, <1>2, <1>3 DEF IInv, Expects, Whole
<1> QED
  BY <1>3, <1>4, <1>5, <1>6 DEF IInv

\* The transfer ends: with the whole file, if the EOT is the sender's and all
\* answers were taken for what they were.
LEMMA EndStep ==
  ASSUME TypeOK, NEW n, IInv(n), EndOfFile \/ Cancelled
  PROVE  TypeOK' /\ IInv(n)'
<1>1. /\ Running /\ toRecv # <<>> /\ ret' \in {"len", "cancelled"}
      /\ UNCHANGED <<packetno, retry, retrans, trychar, count, dest, peer, history>>
      /\ \E last \in BOOLEAN : Reply("ACK", last)
  <2>1. CASE EndOfFile
    <3>1. toRecv # <<>> /\ Head(toRecv).last \in BOOLEAN
      BY <2>1, First DEF EndOfFile, Heard, Sent
    <3> QED
      BY <2>1, <3>1 DEF EndOfFile
  <2>2. CASE Cancelled
    BY <2>2 DEF Cancelled, Heard
  <2> QED
    BY <2>1, <2>2
<1>2. /\ UNCHANGED <<k, sender, crossed, broken, passed>> /\ n \in Nat /\ AnswerInv(n) /\ LineInv
      /\ ret = "none" /\ RoomToReply
  BY <1>1 DEF peer, history, IInv, Expects, Running
<1>3. AnswerInv(n)' /\ toSend' \in Seq(Answers) /\ Len(toSend') <= LineMax
  <2>1. PICK last \in BOOLEAN : Reply("ACK", last)
    BY <1>1
  <2>2. "ACK" \in Answer /\ n \in {n, n + 1} /\ ret' # "none"
    BY <1>1 DEF Answer
  <2> QED
    BY <1>2, <2>1, <2>2, Answering
<1>4. LineInv' /\ toRecv' \in Seq(Sent)
  <2>1. CASE toRecv' = Tail(toRecv)
    BY <1>1, <1>2, <2>1, HeadTaken
  <2>2. CASE Len(toRecv) > 1 /\ toRecv' = SubSeq(toRecv, 3, Len(toRecv))
    <3>1. 3 \in 1 .. Len(toRecv) + 1
      BY <2>2, LenProperties DEF TypeOK
    <3> QED
      BY <1>2, <2>2, <3>1, FromPlace
  <2> QED
    BY <2>1, <2>2 DEF EndOfFile, Cancelled
<1>5. TypeOK'
  BY <1>1, <1>2, <1>3, <1>4 DEF TypeOK
<1>6. Expects(n)'
  BY <1>1, <1>2 DEF IInv, Expects
<1>7. Whole'
  <2> SUFFICES ASSUME ret' = "len", ~crossed, broken = 0
               PROVE  count = IF Upto[Packets] < Capacity THEN Upto[Packets] ELSE Capacity
    BY <1>1, <1>2 DEF Whole
  <2>1. EndOfFile
    BY DEF EndOfFile, Cancelled
  <2>2. toRecv[1].kind = "EOT" /\ Len(toRecv) \in Nat \ {0}
    BY <2>1, First DEF EndOfFile, Heard
  <2>3. k = Packets + 1
    BY <1>2, <2>2 DEF LineInv
  <2>4. k <= n
    BY <1>2 DEF AnswerInv
  <2>5. n - 1 = Packets
    BY <2>3, <2>4, SizeAssumption DEF IInv, Expects
  <2>6. Upto[Packets] \in Nat
    BY SizeAssumption, UptoAssumption
  <2> QED
    BY <2>5, <2>6, SizeAssumption DEF IInv, Expects, TypeOK
<1> QED
  BY <1>3, <1>4, <1>5, <1>6, <1>7 DEF IInv

\* Where a packet of the file begins and ends in it.
LEMMA InFile ==
  ASSUME NEW n \in 1 .. Packets
  PROVE  /\ Upto[n - 1] \in Nat /\ Upto[n] \in Nat /\ Upto[n - 1] < Upto[n]
         /\ Upto[Packets] \in Nat /\ Upto[n] <= Upto[Packets]
<1>1. n - 1 \in 0 .. Packets /\ n \in 0 .. Packets /\ n - 1 < n /\ Packets \in 0 .. Packets
  BY SizeAssumption
<1>2. Upto[n - 1] \in Nat /\ Upto[n] \in Nat /\ Upto[Packets] \in Nat
  BY <1>1, UptoAssumption
<1>3. Upto[n - 1] < Upto[n]
  BY <1>1, UptoAssumption
<1>4. n = Packets \/ Upto[n] < Upto[Packets]
  BY <1>1, UptoAssumption
<1> QED
  BY <1>2, <1>3, <1>4

\* What is stored of the packet expected: as much as there is room for, each byte
\* at its place, unless damage has got past the sum.
LEMMA Stored ==
  ASSUME TypeOK, NEW n \in 1 .. Packets, Head(toRecv).k = n, Store(n),
         count <= Upto[n - 1], count < Capacity => count = Upto[n - 1]
  PROVE  /\ count' \in 0 .. Capacity /\ dest' \in [1 .. count' -> Nat]
         /\ count' <= Upto[n] /\ (count' < Capacity => count' = Upto[n])
         /\ \/ UNCHANGED <<count, dest>>
            \/ /\ count' > count
               /\ dest' = [i \in 1 .. count' |->
                             IF i <= count THEN dest[i] ELSE IF Head(toRecv).data = "file" THEN i ELSE 0]
<1>1. PICK u \in Nat, v \in Nat : u = Upto[n - 1] /\ v = Upto[n] /\ u < v
  BY InFile
<1>2. count \in Nat /\ Capacity \in Nat /\ count <= Capacity /\ dest \in [1 .. count -> Nat]
  BY SizeAssumption DEF TypeOK
<1>3. CASE count < Capacity
  <2> DEFINE own == Head(toRecv).data = "file"
             m == IF Bytes(n) < Capacity - count THEN Bytes(n) ELSE Capacity - count
  <2>1. /\ count' = count + m
        /\ dest' = [i \in 1 .. count' |->
                      IF i <= count THEN dest[i] ELSE IF own THEN u + (i - count) ELSE 0]
    BY <1>1, <1>3 DEF Store, Put
  <2>2. count = u /\ Bytes(n) = v - u
    BY <1>1, <1>3 DEF Bytes
  <2>3. /\ count' \in 0 .. Capacity /\ count' > count /\ count' <= v
        /\ count' < Capacity => count' = v
    <3>1. count' = count + (IF v - u < Capacity - count THEN v - u ELSE Capacity - count)
      BY <2>1, <2>2
    <3>2. count' = IF v < Capacity THEN v ELSE Capacity
      BY <1>2, <2>2, <3>1
    <3> QED
      BY <1>1, <1>2, <1>3, <2>2, <3>2
  <2> HIDE DEF own, m
  <2>4. \A i \in 1 .. count' : u + (i - count) = i
    BY <1>2, <2>2, <2>3
  <2>5. dest' = [i \in 1 .. count' |-> IF i <= count THEN dest[i] ELSE IF own THEN i ELSE 0]
    BY <2>1, <2>4
  <2>6. ASSUME NEW i \in 1 .. count'
        PROVE  (IF i <= count THEN dest[i] ELSE IF own THEN i ELSE 0) \in Nat
    <3>1. i \in Nat /\ (i <= count => i \in 1 .. count)
      BY <1>2, <2>3
    <3> QED
      BY <1>2, <3>1
  <2>7. dest' \in [1 .. count' -> Nat]
    BY <2>5, <2>6
  <2> QED
    BY <1>1, <2>3, <2>5, <2>7 DEF own
<1>4. CASE ~(count < Capacity)
  BY <1>1, <1>2, <1>4 DEF Store
<1> QED
  BY <1>3, <1>4

\* The packet expected is stored behind those before it.
LEMMA AcceptStep ==
  ASSUME TypeOK, NEW n, IInv(n), Accept
  PROVE  /\ TypeOK' /\ IInv(n + 1)'
         /\ Head(toRecv).k = n /\ n \in 1 .. Packets
<1> DEFINE p == Head(toRecv).k
<1>1. /\ Running /\ Heard("packet") /\ Number = packetno /\ Store(p)
      /\ packetno' = (packetno + 1) % Numbers /\ retrans' = MaxRetrans
      /\ Reply("ACK", Head(toRecv).last) /\ trychar' = FALSE /\ retry' = 0
      /\ toRecv' = Tail(toRecv) /\ UNCHANGED <<ret, k, sender, crossed, broken, passed>>
  BY DEF Accept, Good, Begun, peer, history
<1>2. /\ n \in Nat \ {0} /\ AnswerInv(n) /\ LineInv /\ ret = "none" /\ RoomToReply
      /\ Expects(n)
  BY <1>1 DEF IInv, Expects, Running
<1>3. /\ p = n /\ p \in 1 .. Packets /\ p <= k /\ k <= p + LineMax - 1
      /\ Head(toRecv).last => p = k
  BY <1>1, <1>2, HeadNumber
<1>4. toRecv # <<>> /\ Head(toRecv).last \in BOOLEAN
  BY <1>1, First DEF Heard, Sent
<1> HIDE DEF p
<1>5. LineInv' /\ toRecv' \in Seq(Sent)
  BY <1>1, <1>2, <1>4, HeadTaken
<1>6. AnswerInv(n + 1)' /\ toSend' \in Seq(Answers) /\ Len(toSend') <= LineMax
  <2>1. Len(toSend) \in Nat /\ Len(toSend) + 1 <= LineMax /\ LineMax \in Nat /\ k \in Nat
    BY <1>2, LenProperties, LineAssumption, SizeAssumption DEF TypeOK, RoomToReply
  <2>2. k + (Len(toSend) + 1) <= (n + 1) + 2 * LineMax - 2 /\ (Head(toRecv).last => k < n + 1)
    BY <1>2, <1>3, <2>1
  <2>3. "ACK" \in Answer /\ n + 1 \in {n, n + 1} /\ n \in Nat /\ UNCHANGED <<k, crossed>>
    BY <1>1, <1>2 DEF Answer
  <2> QED
    BY <1>1, <1>2, <1>4, <2>2, <2>3, Answering
<1>7. packetno' = (n + 1) % Numbers /\ packetno' \in 0 .. Numbers - 1
  <2>1. packetno' = (n + 1) % Numbers
    BY <1>1, <1>2, NextNumber, NumberAssumption DEF Expects
  <2>2. n + 1 \in Nat
    BY <1>2
  <2>3. (n + 1) % Numbers \in 0 .. Numbers - 1
    BY <2>2, Divided, NumberAssumption
  <2> QED
    BY <2>1, <2>3
<1>8. /\ count' \in 0 .. Capacity /\ dest' \in [1 .. count' -> Nat]
      /\ count' <= Upto[n] /\ (count' < Capacity => count' = Upto[n])
  <2>1. Head(toRecv).k = n /\ Store(n) /\ n \in 1 .. Packets
    BY <1>1, <1>3 DEF p
  <2>2. count <= Upto[n - 1] /\ (count < Capacity => count = Upto[n - 1])
    BY <1>2 DEF Expects
  <2> QED
    BY <2>1, <2>2, Stored
<1>9. TypeOK'
  <2>1. retry' \in 0 .. Retries /\ retry' < Retries /\ retrans' \in 0 .. MaxRetrans /\ retrans' > 0
    BY <1>1, CountAssumption
  <2> QED
    BY <1>1, <1>2, <1>5, <1>6, <1>7, <1>8, <2>1 DEF TypeOK
<1>10. Expects(n + 1)'
  <2>1. (n + 1) - 1 = n /\ n + 1 \in Nat \ {0} /\ n + 1 <= k + 1 /\ n + 1 <= Packets + 1
    BY <1>2, <1>3, SizeAssumption DEF TypeOK
  <2> QED
    BY <1>1, <1>7, <1>8, <2>1 DEF Expects
<1>11. Whole'
  BY <1>1, <1>2 DEF Whole
<1> QED
  BY <1>3, <1>5, <1>6, <1>9, <1>10, <1>11 DEF IInv, p

\* The one before is acknowledged once more, or one time too many.
LEMMA DuplicateStep ==
  ASSUME TypeOK, NEW n, IInv(n), Duplicate
  PROVE  TypeOK' /\ IInv(n)'
<1> DEFINE p == Head(toRecv).k
<1>1. /\ Running /\ Heard("packet") /\ Repeated(Number)
      /\ retrans' = retrans - 1
      /\ \/ retrans' <= 0 /\ ret' = "duplicates" /\ Reply("CAN", Head(toRecv).last)
         \/ ~(retrans' <= 0) /\ ret' = ret /\ Reply("ACK", Head(toRecv).last)
      /\ trychar' = FALSE /\ retry' = 0 /\ toRecv' = Tail(toRecv)
      /\ UNCHANGED <<packetno, count, dest, k, sender, crossed, broken, passed>>
  BY DEF Duplicate, Good, Begun, peer, history
<1>2. /\ n \in Nat \ {0} /\ AnswerInv(n) /\ LineInv /\ ret = "none" /\ RoomToReply
      /\ Expects(n)
  BY <1>1 DEF IInv, Expects, Running
<1>3. p = n - 1 /\ k <= p + LineMax - 1 /\ (Head(toRecv).last => p = k)
  BY <1>1, <1>2, HeadNumber
<1>4. toRecv # <<>> /\ Head(toRecv).last \in BOOLEAN
  BY <1>1, First DEF Heard, Sent
<1> HIDE DEF p
<1>5. LineInv' /\ toRecv' \in Seq(Sent)
  BY <1>1, <1>2, <1>4, HeadTaken
<1>6. AnswerInv(n)' /\ toSend' \in Seq(Answers) /\ Len(toSend') <= LineMax
  <2>1. Len(toSend) \in Nat /\ Len(toSend) + 1 <= LineMax /\ LineMax \in Nat /\ k \in Nat
    BY <1>2, LenProperties, LineAssumption, SizeAssumption DEF TypeOK, RoomToReply
  <2>2. k + (Len(toSend) + 1) <= n + 2 * LineMax - 2 /\ (Head(toRecv).last => k < n)
    BY <1>2, <1>3, <2>1
  <2>3. {"ACK", "CAN"} \subseteq Answer /\ n \in {n, n + 1} /\ n \in Nat /\ UNCHANGED <<k, crossed>>
    BY <1>1, <1>2 DEF Answer
  <2>4. \E a \in {"ACK", "CAN"} : Reply(a, Head(toRecv).last)
    BY <1>1
  <2> QED
    BY <1>2, <1>4, <2>2, <2>3, <2>4, Answering
<1>7. retrans' \in 0 .. MaxRetrans /\ (ret' = "none" => retrans' > 0) /\ ret' \in {"none", "duplicates"}
  BY <1>1, <1>2, CountAssumption DEF TypeOK
<1>8. TypeOK'
  <2>1. retry' \in 0 .. Retries /\ retry' < Retries
    BY <1>1, CountAssumption
  <2> QED
    BY <1>1, <1>2, <1>5, <1>6, <1>7, <2>1 DEF TypeOK
<1>9. Expects(n)' /\ Whole'
  BY <1>1, <1>2, <1>7 DEF Expects, Whole
<1> QED
  BY <1>5, <1>6, <1>8, <1>9 DEF IInv

\* A packet that is refused, or was none.
LEMMA RejectStep ==
  ASSUME TypeOK, NEW n, IInv(n), Reject \/ FalseStart
  PROVE  TypeOK' /\ IInv(n)'
<1>1. /\ Running /\ toRecv # <<>> /\ trychar' = FALSE /\ retry' = 0
      /\ UNCHANGED <<packetno, retrans, count, dest, ret, k, sender, crossed, passed>>
  BY DEF Reject, FalseStart, Heard, Begun, peer, history
<1>2. /\ n \in Nat \ {0} /\ AnswerInv(n) /\ LineInv /\ ret = "none" /\ RoomToReply
      /\ Expects(n) /\ Whole
  BY <1>1 DEF IInv, Expects, Running
<1>3. AnswerInv(n)' /\ toSend' \in Seq(Answers) /\ Len(toSend') <= LineMax
  <2>1. \E last \in BOOLEAN : Reply("NAK", last)
    BY <1>1, First DEF Reject, FalseStart, AnswerNo, Sent
  <2>2. "NAK" \in Answer /\ n \in {n, n + 1} /\ n \in Nat /\ UNCHANGED <<k, crossed>>
    BY <1>1, <1>2 DEF Answer
  <2> QED
    BY <1>2, <2>1, <2>2, Answering
<1>4. LineInv' /\ toRecv' \in Seq(Sent) /\ broken' \in 0 .. Unseen
  <2>1. CASE toRecv' = Tail(toRecv) /\ UNCHANGED broken
    BY <1>1, <1>2, <2>1, HeadTaken DEF TypeOK
  <2>2. ASSUME NEW i \in DOMAIN toRecv, toRecv' = SubSeq(toRecv, i + 1, Len(toRecv)), UNCHANGED broken
        PROVE  LineInv' /\ toRecv' \in Seq(Sent) /\ broken' \in 0 .. Unseen
    <3>1. i + 1 \in 1 .. Len(toRecv) + 1
      BY LenProperties DEF TypeOK
    <3> QED
      BY <1>1, <1>2, <2>2, <3>1, FromPlace DEF TypeOK
  <2>3. ASSUME NEW i \in DOMAIN toRecv, Break(i)
        PROVE  LineInv' /\ toRecv' \in Seq(Sent) /\ broken' \in 0 .. Unseen
    <3>1. i \in 1 .. Len(toRecv)
      BY LenProperties DEF TypeOK
    <3> QED
      BY <1>1, <1>2, <2>3, <3>1, AfterBreak, LineAssumption
  <2> QED
    BY <2>1, <2>2, <2>3 DEF Reject, FalseStart, history
<1>5. TypeOK'
  <2>1. retry' \in 0 .. Retries /\ retry' < Retries
    BY <1>1, CountAssumption
  <2> QED
    BY <1>1, <1>2, <1>3, <1>4, <2>1 DEF TypeOK
<1>6. Expects(n)' /\ Whole'
  BY <1>1, <1>2 DEF Expects, Whole
<1> QED
  BY <1>3, <1>4, <1>5, <1>6 DEF IInv
-----------------------------------------------------------------------------
(* The sender's steps and the line's.                                      *)

\* An answer that is read moves the others one place forward.
LEMMA AnswerTaken ==
  ASSUME TypeOK, NEW n \in Nat, AnswerInv(n), toSend # <<>>,
         toSend' \in {Tail(toSend), Older(Tail(toSend))}, UNCHANGED <<ret, k, crossed>>
  PROVE  AnswerInv(n)' /\ toSend' \in Seq(Answers) /\ Len(toSend') <= Len(toSend)
<1>1. /\ toSend' \in Seq(Answers) /\ Len(toSend') = Len(toSend) - 1 /\ Len(toSend) \in Nat \ {0}
      /\ \A i \in 1 .. Len(toSend') :
           /\ i + 1 \in 1 .. Len(toSend)
           /\ toSend'[i].kind = toSend[i + 1].kind
           /\ toSend'[i].last => toSend[i + 1].last
  BY Taken
<1>2. k \in Nat /\ LineMax \in Nat
  BY SizeAssumption, LineAssumption DEF TypeOK
<1>3. ASSUME ret = "none", NEW i \in 1 .. Len(toSend'), toSend'[i].kind = "ACK"
      PROVE  k + i <= n + 2 * LineMax - 2 /\ (toSend'[i].last => k < n)
  <2>1. i + 1 \in 1 .. Len(toSend) /\ toSend[i + 1].kind = "ACK" /\ (toSend'[i].last => toSend[i + 1].last)
    BY <1>1, <1>3
  <2>2. k + (i + 1) <= n + 2 * LineMax - 2 /\ (toSend[i + 1].last => k < n)
    BY <1>3, <2>1 DEF AnswerInv
  <2> QED
    BY <1>2, <2>1, <2>2
<1>4. AnswerInv(n)'
  BY <1>3 DEF AnswerInv
<1> QED
  BY <1>1, <1>4

\* Nothing of the receiver's changes, and the sender stays on its packet.
LEMMA OutsideStep ==
  ASSUME TypeOK, NEW n, IInv(n), UNCHANGED <<receiver, k, crossed>>,
         sender' \in {"start", "wait", "done", "quit"}, broken' \in broken .. Unseen,
         passed' \in passed .. Passes,
         LineInv', toRecv' \in Seq(Sent),
         \/ UNCHANGED toSend
         \/ toSend # <<>> /\ toSend' \in {Tail(toSend), Older(Tail(toSend))}
  PROVE  TypeOK' /\ IInv(n)'
<1>1. /\ UNCHANGED <<packetno, retry, retrans, trychar, count, dest, ret>>
      /\ n \in Nat /\ Expects(n) /\ AnswerInv(n) /\ Whole /\ Len(toSend) <= LineMax
  BY DEF receiver, IInv, Expects
<1>2. AnswerInv(n)' /\ toSend' \in Seq(Answers) /\ Len(toSend') <= LineMax
  <2>1. CASE UNCHANGED toSend
    BY <1>1, <2>1 DEF AnswerInv, TypeOK
  <2>2. CASE toSend # <<>> /\ toSend' \in {Tail(toSend), Older(Tail(toSend))}
    <3>1. AnswerInv(n)' /\ toSend' \in Seq(Answers) /\ Len(toSend') <= Len(toSend)
      BY <1>1, <2>2, AnswerTaken
    <3>2. Len(toSend') \in Nat /\ Len(toSend) \in Nat /\ LineMax \in Nat
      BY <3>1, LenProperties, LineAssumption DEF TypeOK
    <3> QED
      BY <1>1, <3>1, <3>2
  <2> QED
    BY <2>1, <2>2
<1>3. broken' \in 0 .. Unseen /\ (broken' = 0 => broken = 0) /\ passed' \in 0 .. Passes
  BY LineAssumption DEF TypeOK
<1>4. TypeOK'
  BY <1>1, <1>2, <1>3 DEF TypeOK
<1>5. Expects(n)' /\ Whole'
  BY <1>1, <1>3 DEF Expects, Whole
<1> QED
  BY <1>2, <1>4, <1>5 DEF IInv

\* ACK: the sender is taken for one packet further.
LEMMA ProceedStep ==
  ASSUME TypeOK, NEW n, IInv(n), Proceed
  PROVE  TypeOK' /\ IInv(n)'
<1>1. /\ toSend # <<>> /\ Head(toSend).kind = "ACK" /\ toSend' = Older(Tail(toSend))
      /\ crossed' = (crossed \/ ~Head(toSend).last)
      /\ UNCHANGED <<packetno, retry, retrans, trychar, count, dest, ret, broken, passed>>
      /\ sender' \in {"wait", "done"} /\ n \in Nat
  BY DEF Proceed, receiver, IInv, Expects
<1>2. /\ toSend' \in Seq(Answers) /\ Len(toSend') = Len(toSend) - 1 /\ Len(toSend) \in Nat \ {0}
      /\ toSend[1].kind = "ACK" /\ toSend[1] \in Answers
      /\ crossed' = (crossed \/ ~toSend[1].last)
      /\ \A i \in 1 .. Len(toSend') :
           /\ i + 1 \in 1 .. Len(toSend)
           /\ toSend'[i].kind = toSend[i + 1].kind
  BY <1>1, Taken
<1>3. \A i \in 1 .. Len(toSend') : toSend'[i].last = FALSE
  <2> DEFINE t == Tail(toSend)
  <2>1. t \in Seq(Answers)
    BY <1>1, HeadTailProperties DEF TypeOK
  <2>2. toSend' = Older(t)
    BY <1>1
  <2> HIDE DEF t
  <2> QED
    BY <2>1, <2>2, OlderAnswers
<1>4. k \in 1 .. Packets + 1 /\ LineMax \in Nat /\ Packets \in Nat /\ Len(toSend) <= LineMax
  BY SizeAssumption, LineAssumption DEF TypeOK, IInv
<1>5. crossed \in BOOLEAN /\ toSend[1].last \in BOOLEAN /\ crossed' \in BOOLEAN
  BY <1>2 DEF TypeOK, Answers
<1>6. \/ k > Packets /\ UNCHANGED <<k, toRecv>>
      \/ k <= Packets /\ k' = k + 1 /\ Send(Transmission(k'))
  BY <1>4 DEF Proceed
<1>7. LineInv' /\ toRecv' \in Seq(Sent)
  <2>1. CASE k > Packets /\ UNCHANGED <<k, toRecv>>
    BY <1>1, <2>1 DEF LineInv, IInv, TypeOK
  <2>2. CASE k <= Packets /\ k' = k + 1 /\ Send(Transmission(k'))
    <3>1. k' \in {k, k + 1} /\ k' <= Packets + 1 /\ LineInv
      BY <1>4, <2>2 DEF IInv
    <3> QED
      BY <1>1, <2>2, <3>1, Transmitting
  <2> QED
    BY <1>6, <2>1, <2>2
<1>8. PICK b \in 1 .. Packets + 1 : b = k' /\ k <= b /\ b <= k + 1
  BY <1>4, <1>6
<1>9. k \in Nat /\ b \in Nat /\ k <= b /\ b <= k + 1
  BY <1>4, <1>8
<1>10. AnswerInv(n)'
  <2> SUFFICES ASSUME ret = "none"
               PROVE  /\ b <= n + 2 * LineMax - 2
                      /\ ~crossed' => b <= n
                      /\ \A i \in 1 .. Len(toSend') : toSend'[i].kind = "ACK" =>
                           b + i <= n + 2 * LineMax - 2 /\ (toSend'[i].last => b < n)
    BY <1>1, <1>8, Zenon DEF AnswerInv
  <2>1. /\ k + 1 <= n + 2 * LineMax - 2
        /\ toSend[1].last => k < n
    BY <1>2 DEF IInv, AnswerInv
  <2>2. b <= n + 2 * LineMax - 2
    BY <1>1, <1>4, <1>9, <2>1
  <2>3. ~crossed' => b <= n
    <3>1. ~crossed' => toSend[1].last
      BY <1>2, <1>5
    <3> QED
      BY <1>1, <1>4, <1>9, <2>1, <3>1
  <2>4. ASSUME NEW i \in 1 .. Len(toSend'), toSend'[i].kind = "ACK"
        PROVE  b + i <= n + 2 * LineMax - 2 /\ (toSend'[i].last => b < n)
    <3>1. i + 1 \in 1 .. Len(toSend) /\ toSend[i + 1].kind = "ACK"
      BY <1>2, <2>4
    <3>2. k + (i + 1) <= n + 2 * LineMax - 2
      BY <3>1 DEF IInv, AnswerInv
    <3>3. b + i <= n + 2 * LineMax - 2
      BY <1>1, <1>4, <1>9, <3>2
    <3> QED
      BY <1>3, <3>3
  <2> QED
    BY <2>2, <2>3, <2>4
<1>11. Len(toSend') <= LineMax
  BY <1>2, <1>4
<1>12. TypeOK'
  BY <1>1, <1>2, <1>5, <1>7, <1>8 DEF TypeOK
<1>13. Expects(n)'
  <2>1. n <= k + 1 /\ n \in Nat
    BY DEF IInv, Expects
  <2>2. n <= b + 1
    BY <1>9, <2>1
  <2>3. n <= k' + 1
    BY <1>8, <2>2, Zenon
  <2> QED
    BY <1>1, <2>3 DEF IInv, Expects
<1>14. Whole'
  BY <1>1, <1>2, <1>5 DEF IInv, Whole
<1> QED
  BY <1>7, <1>10, <1>11, <1>12, <1>13, <1>14 DEF IInv

\* A packet is sent again, the transfer is given up, or an answer is not needed.
LEMMA SenderStep ==
  ASSUME TypeOK, NEW n, IInv(n), Transmit \/ Stopped \/ Ignore \/ Quit
  PROVE  TypeOK' /\ IInv(n)'
<1>1. /\ UNCHANGED <<receiver, k, crossed, broken, passed>>
      /\ sender' \in {"start", "wait", "done", "quit"}
      /\ \/ UNCHANGED toSend
         \/ toSend # <<>> /\ toSend' \in {Tail(toSend), Older(Tail(toSend))}
  BY DEF Transmit, Stopped, Ignore, Quit, peer, history, TypeOK
<1>2. broken' \in broken .. Unseen /\ passed' \in passed .. Passes /\ k \in 1 .. Packets + 1 /\ Packets \in Nat /\ LineInv
  BY <1>1, LineAssumption, SizeAssumption DEF TypeOK, IInv
<1>3. LineInv' /\ toRecv' \in Seq(Sent)
  <2>1. CASE Transmit
    <3>1. Send(Transmission(k'))
      BY <1>1, <2>1 DEF Transmit
    <3>2. k' \in {k, k + 1} /\ k' <= Packets + 1 /\ UNCHANGED <<broken, passed>>
      BY <1>1, <1>2
    <3> QED
      BY <1>2, <3>1, <3>2, Transmitting
  <2>2. CASE Stopped \/ Ignore
    BY <1>1, <1>2, <2>2 DEF Stopped, Ignore, LineInv, TypeOK
  <2>3. CASE Quit
    <3> DEFINE it == Item("CAN", 0)
    <3>1. it \in Sent /\ it.kind = "CAN"
      BY <1>2 DEF Item, Sent, Byte, Data
    <3> HIDE DEF it
    <3> DEFINE items == <<it, it>>
    <3>2. items \in Seq(Sent) /\ Len(items) = 2 /\ \A j \in 1 .. Len(items) : items[j].kind = "CAN"
      BY <3>1
    <3>3. Send(items)
      BY <2>3 DEF Quit, it
    <3> HIDE DEF items
    <3>4. /\ Len(items) > 0 /\ k' \in {k, k + 1} /\ k' <= Packets + 1 /\ UNCHANGED <<broken, passed>>
          /\ \A j \in 1 .. Len(items) :
               /\ items[j].kind = "packet" =>
                    j = Len(items) /\ items[j].k = k' /\ k' <= Packets /\ ~Disguised(items[j])
               /\ items[j].kind = "EOT" => k' = Packets + 1
      BY <1>1, <1>2, <3>2
    <3> QED
      BY <1>2, <3>2, <3>3, <3>4, Sending
  <2> QED
    BY <2>1, <2>2, <2>3
<1> QED
  BY <1>1, <1>2, <1>3, OutsideStep

\* The line loses an item or an answer, or damages what is first on it.
LEMMA NoiseStep ==
  ASSUME TypeOK, NEW n, IInv(n), Noise
  PROVE  TypeOK' /\ IInv(n)'
<1>1. /\ UNCHANGED <<receiver, k, sender, crossed>>
      /\ \/ UNCHANGED toSend
         \/ toSend # <<>> /\ toSend' \in {Tail(toSend), Older(Tail(toSend))}
  BY DEF Noise, LoseItem, LoseAnswer, Damage, Disguise, Unframe, peer, history
<1>2. /\ sender' \in {"start", "wait", "done", "quit"} /\ broken \in 0 .. Unseen /\ Unseen \in Nat
      /\ passed \in 0 .. Passes /\ Passes \in Nat /\ k' = k /\ LineInv
  BY <1>1, LineAssumption DEF TypeOK, IInv
<1>3. /\ LineInv' /\ toRecv' \in Seq(Sent)
      /\ broken' \in broken .. Unseen /\ passed' \in passed .. Passes
  <2>1. CASE LoseItem
    BY <1>2, <2>1, HeadTaken DEF LoseItem, history
  <2>2. CASE LoseAnswer
    <3>1. UNCHANGED <<toRecv, broken, passed>>
      BY <2>2 DEF LoseAnswer, history
    <3>2. LineInv'
      BY <1>2, <3>1 DEF LineInv
    <3>3. toRecv' \in Seq(Sent)
      BY <3>1 DEF TypeOK
    <3> QED
      BY <1>2, <3>1, <3>2, <3>3
  <2>3. CASE Damage \/ Disguise
    <3>1. PICK d \in Data :
            /\ toRecv # <<>> /\ toRecv' = [toRecv EXCEPT ![1].data = d]
            /\ UNCHANGED broken
            /\ \/ UNCHANGED passed /\ d = "other sum"
               \/ passed < Passes /\ passed' = passed + 1
      <4>1. CASE Damage
        <5>1. /\ toRecv # <<>> /\ toRecv' = [toRecv EXCEPT ![1].data = "other sum"]
              /\ UNCHANGED <<broken, passed>>
          BY <4>1 DEF Damage, Good, Heard, history
        <5>2. "other sum" \in Data
          BY DEF Data
        <5> QED
          BY <5>1, <5>2, Zenon
      <4>2. CASE Disguise
        <5>1. /\ toRecv # <<>> /\ toRecv' = [toRecv EXCEPT ![1].data = "same sum"]
              /\ UNCHANGED broken /\ passed < Passes /\ passed' = passed + 1
          BY <4>2 DEF Disguise, Heard
        <5>2. "same sum" \in Data
          BY DEF Data
        <5> QED
          BY <5>1, <5>2, Zenon
      <4> QED
        BY <2>3, <4>1, <4>2
    <3>2. Len(toRecv) \in Nat \ {0} /\ toRecv \in [1 .. Len(toRecv) -> Sent]
      BY <3>1, First, LenProperties DEF TypeOK
    <3>3. /\ toRecv' \in [1 .. Len(toRecv) -> Sent]
          /\ \A i \in 1 .. Len(toRecv) :
               /\ toRecv'[i].kind = toRecv[i].kind
               /\ toRecv'[i].k = toRecv[i].k
               /\ toRecv'[i].last = toRecv[i].last
               /\ Disguised(toRecv'[i]) => Disguised(toRecv[i]) \/ d # "other sum"
      <4>1. PICK r \in Sent : r = toRecv[1]
        BY <3>2
      <4> DEFINE q == [r EXCEPT !.data = d]
      <4>2. q \in Sent /\ q.kind = r.kind /\ q.k = r.k /\ q.last = r.last
        BY DEF Sent
      <4>4. Disguised(q) => d # "other sum"
        BY DEF Disguised, Sent
      <4>3. toRecv' = [toRecv EXCEPT ![1] = q]
        BY <3>1, <4>1
      <4> HIDE DEF q
      <4> QED
        <5>1. \A i \in 1 .. Len(toRecv) : toRecv'[i] = IF i = 1 THEN q ELSE toRecv[i]
          BY <3>2, <4>3
        <5> QED
          BY <3>2, <4>1, <4>2, <4>3, <4>4, <5>1
    <3>4. toRecv' \in Seq(Sent) /\ Len(toRecv') = Len(toRecv)
      BY <3>2, <3>3, FiniteFunction
    <3>5. \/ UNCHANGED passed /\ d = "other sum"
          \/ passed < Passes /\ passed' = passed + 1
      BY <3>1
    <3>6. passed' \in passed .. Passes /\ (passed > 0 \/ d # "other sum" => passed' > 0)
      <4>1. passed \in Nat /\ Passes \in Nat /\ passed <= Passes
        BY <1>2
      <4>2. passed' = passed \/ (passed < Passes /\ passed' = passed + 1)
        BY <3>5
      <4>3. passed' \in passed .. Passes /\ (passed > 0 => passed' > 0)
        BY <4>1, <4>2
      <4>4. passed' = passed + 1 => passed' > 0
        BY <4>1
      <4> QED
        BY <3>5, <4>3, <4>4
    <3>7. \A i \in 1 .. Len(toRecv) :
            Disguised(toRecv'[i]) => Disguised(toRecv[i]) \/ passed' > 0
      BY <3>3, <3>6
    <3>8. LineInv'
      <4>1. Len(toRecv') = Len(toRecv) /\ k' = k /\ broken' = broken
        BY <1>2, <3>1, <3>4
      <4>2. passed > 0 => passed' > 0
        BY <3>6
      <4>3. \A i \in 1 .. Len(toRecv) :
              Disguised(toRecv'[i]) => Disguised(toRecv[i]) \/ passed' > 0
        BY <3>7
      <4> QED
        BY <1>2, <3>3, <4>1, <4>2, <4>3 DEF LineInv
    <3>9. broken' \in broken .. Unseen
      <4>1. broken' = broken
        BY <3>1
      <4> QED
        BY <1>2, <4>1
    <3> QED
      BY <3>4, <3>6, <3>8, <3>9
  <2>4. CASE Unframe
    <3>1. 1 \in 1 .. Len(toRecv) /\ Break(1) /\ UNCHANGED passed
      BY <2>4, First DEF Unframe
    <3>2. LineInv' /\ toRecv' \in Seq(Sent) /\ broken' \in 1 .. Unseen
      BY <1>2, <3>1, AfterBreak
    <3> QED
      BY <1>2, <3>1, <3>2 DEF Break
  <2> QED
    BY <2>1, <2>2, <2>3, <2>4 DEF Noise
<1> QED
  BY <1>1, <1>2, <1>3, OutsideStep
-----------------------------------------------------------------------------
(* The theorems.                                                           *)

Inv == TypeOK /\ \E n \in Nat : IInv(n)

\* Packet 1 is expected at the beginning.
LEMMA Initially ==
  ASSUME Init
  PROVE  Inv
<1>1. TypeOK
  <2>1. /\ 1 \in 0 .. Numbers - 1 /\ 0 \in 0 .. Retries /\ 0 < Retries
        /\ MaxRetrans \in 0 .. MaxRetrans /\ MaxRetrans > 0
        /\ 0 \in 0 .. Capacity /\ 1 \in 1 .. Packets + 1 /\ 0 \in 0 .. Unseen /\ 0 \in 0 .. Passes
    BY SizeAssumption, NumberAssumption, CountAssumption, LineAssumption
  <2>2. [i \in 1 .. 0 |-> 0] \in [1 .. 0 -> Nat]
    OBVIOUS
  <2>3. <<>> \in Seq(Sent) /\ <<[kind |-> "NAK", last |-> TRUE]>> \in Seq(Answers)
    BY EmptySeq DEF Answers, Answer
  <2> QED
    BY <2>1, <2>2, <2>3 DEF Init, TypeOK
<1>2. 1 % Numbers = 1
  <2>1. 1 = Numbers * 0 + 1 /\ 1 \in 0 .. Numbers - 1 /\ 0 \in Nat /\ 1 \in Nat
    BY NumberAssumption
  <2> QED
    BY <2>1, NumberAssumption, Remainder
<1>3. IInv(1)
  <2>1. /\ Len(toSend) = 1 /\ toSend[1].kind = "NAK" /\ Len(toRecv) = 0
    BY DEF Init
  <2>2. Expects(1) /\ LineInv /\ Whole
    BY <1>2, <2>1, SizeAssumption, UptoAssumption DEF Init, Expects, LineInv, Whole
  <2>3. AnswerInv(1)
    BY <2>1, LineAssumption DEF Init, AnswerInv
  <2> QED
    BY <2>1, <2>2, <2>3, LineAssumption DEF IInv
<1> QED
  BY <1>1, <1>3 DEF Inv

\* Every step leaves the packet expected as it was, except that which accepts it.
LEMMA Step ==
  ASSUME TypeOK, NEW n, IInv(n), [Next]_vars
  PROVE  TypeOK' /\ (IInv(n)' \/ (Accept /\ IInv(n + 1)'))
<1>1. CASE Accept
  BY <1>1, AcceptStep
<1>2. CASE HeaderTimeout \/ Junk \/ CancelAlone
  BY <1>2, TryStep
<1>3. CASE EndOfFile \/ Cancelled
  BY <1>3, EndStep
<1>4. CASE Duplicate
  BY <1>4, DuplicateStep
<1>5. CASE Reject \/ FalseStart
  BY <1>5, RejectStep
<1>6. CASE Proceed
  BY <1>6, ProceedStep
<1>7. CASE Transmit \/ Stopped \/ Ignore \/ Quit
  BY <1>7, SenderStep
<1>8. CASE Noise
  BY <1>8, NoiseStep
<1>9. CASE UNCHANGED vars
  <2>1. /\ UNCHANGED <<packetno, retry, retrans, trychar, count, dest, ret, k, sender>>
        /\ UNCHANGED <<toRecv, toSend, crossed, broken, passed>>
    BY <1>9 DEF vars, receiver, peer, line, history
  <2>2. TypeOK'
    BY <2>1 DEF TypeOK
  <2>3. Expects(n)' /\ Whole'
    BY <2>1 DEF IInv, Expects, Whole
  <2>4. LineInv'
    BY <2>1 DEF IInv, LineInv
  <2>5. AnswerInv(n)' /\ (Len(toSend) <= LineMax)'
    BY <2>1 DEF IInv, AnswerInv
  <2> QED
    BY <2>2, <2>3, <2>4, <2>5 DEF IInv
<1> QED
  BY <1>1, <1>2, <1>3, <1>4, <1>5, <1>6, <1>7, <1>8, <1>9 DEF Next, Receiver, Sender

\* The receiver expects one packet, all before it are in the buffer, and what is
\* under way in both directions is near enough for its number to tell which it is.
THEOREM Invariance == Spec => []Inv
<1>1. Init => Inv
  BY Initially
<1>2. Inv /\ [Next]_vars => Inv'
  <2> SUFFICES ASSUME TypeOK, NEW n \in Nat, IInv(n), [Next]_vars
               PROVE  Inv'
    BY DEF Inv
  <2> QED
    BY Step DEF Inv
<1> QED
  BY <1>1, <1>2, PTL DEF Spec

\* The variables of both ends and of the line keep to their types: the tries and
\* the duplicates stay within their bounds while xmodemReceive runs.
THEOREM TypeCorrect == Spec => []TypeOK
<1>1. Inv => TypeOK
  BY DEF Inv
<1> QED
  BY <1>1, Invariance, PTL

\* xmodemReceive returns a length only for the whole file, as far as there is room,
\* unless an answer was taken for one to a later packet or a packet was broken.
THEOREM WholeFile == Spec => []Whole
<1>1. Inv => Whole
  BY DEF Inv, IInv
<1> QED
  BY <1>1, Invariance, PTL

\* The receiver, whatever the line does to it, does what its caller is promised: a
\* packet accepted is the next of the file, and nothing else touches the buffer.
THEOREM Implements == Spec => Refines
<1>1. Init => Copy!Init
  BY DEF Init, Copy!Init
<1>2. Inv /\ [Next]_vars => [Copy!Next]_Copy!vars
  <2> SUFFICES ASSUME TypeOK, NEW n \in Nat, IInv(n), Next
               PROVE  [Copy!Next]_Copy!vars
    BY DEF Inv, vars, receiver, history, Copy!vars
  <2>1. CASE Accept
    <3>1. /\ Head(toRecv).k = n /\ n \in 1 .. Packets /\ ret = "none" /\ UNCHANGED <<ret, passed>>
          /\ Store(n) /\ Good
      BY <2>1, AcceptStep DEF Accept, Running, history
    <3>2. /\ count' <= Upto[n] /\ count' <= Capacity /\ count' \in Nat
          /\ \/ UNCHANGED <<count, dest>>
             \/ /\ count' > count
                /\ dest' = [i \in 1 .. count' |->
                              IF i <= count THEN dest[i]
                              ELSE IF Head(toRecv).data = "file" THEN i ELSE 0]
      <4>1. count <= Upto[n - 1] /\ (count < Capacity => count = Upto[n - 1])
        BY DEF IInv, Expects
      <4> QED
        BY <3>1, <4>1, Stored, SizeAssumption
    <3>3. count' <= Upto[Packets]
      BY <3>1, <3>2, InFile
    <3>4. Head(toRecv).data = "file" \/ passed > 0
      <4>1. toRecv # <<>> /\ Head(toRecv) = toRecv[1] /\ Head(toRecv).kind = "packet"
            /\ Head(toRecv).data \in {"file", "same sum"}
        BY <3>1, First DEF Good, Heard, Sent, Data
      <4>2. Len(toRecv) \in Nat \ {0}
        BY <4>1, First
      <4>3. Disguised(toRecv[1]) => passed > 0
        <5>1. 1 \in 1 .. Len(toRecv)
          BY <4>2
        <5>2. LineInv /\ toRecv[1].kind = "packet"
          BY <4>1 DEF IInv
        <5> QED
          BY <5>1, <5>2 DEF LineInv
      <4> QED
        BY <4>1, <4>3 DEF Disguised
    <3>5. CASE UNCHANGED <<count, dest>>
      BY <3>1, <3>5 DEF Copy!vars
    <3>6. CASE ~UNCHANGED <<count, dest>>
      BY <3>1, <3>2, <3>3, <3>4, <3>6 DEF Copy!Next, Copy!Extend
    <3> QED
      BY <3>5, <3>6
  <2>2. CASE Receiver /\ ~Accept
    <3>1. /\ ret = "none" /\ UNCHANGED <<count, dest, passed>>
          /\ ret' \in {"none", "len", "cancelled", "silence", "duplicates"}
      BY <2>2 DEF Receiver, HeaderTimeout, Junk, EndOfFile, Cancelled, CancelAlone, Duplicate,
                  Reject, FalseStart, Running, NextTry, history
    <3> QED
      BY <3>1 DEF Copy!Next, Copy!Finish, Copy!vars
  <2>3. CASE Disguise
    BY <2>3 DEF Disguise, receiver, Copy!Next, Copy!Pass
  <2>4. CASE Sender \/ Quit \/ (Noise /\ ~Disguise)
    BY <2>4 DEF Sender, Transmit, Proceed, Stopped, Ignore, Quit, Noise, LoseItem, LoseAnswer,
                Damage, Unframe, receiver, history, Copy!vars
  <2> QED
    BY <2>1, <2>2, <2>3, <2>4 DEF Next
<1> QED
  BY <1>1, <1>2, Invariance, PTL DEF Spec, Refines, Copy!Spec
=============================================================================
