------------------------------ MODULE FramingProofs ------------------------------
(***************************************************************************)
(* The two ends of a link cut the byte stream back into the messages that  *)
(* were sent, for messages of any length and any number, any sizes of the  *)
(* header and the buffer and any boundaries of the reads.                  *)
(***************************************************************************)
EXTENDS Framing, SequenceTheorems, WellFoundedInduction, TLAPS

LEMMA LessWellFounded == IsWellFoundedOn({ss \in Nat \X Nat : ss[1] < ss[2]}, Nat)
  BY NatLessThanWellFounded, Zenon DEF OpToRel

(* Induction over the natural numbers. *)
LEMMA SetInduction ==
    ASSUME NEW S, 0 \in S, \A n \in Nat : n \in S => n + 1 \in S
    PROVE  \A n \in Nat : n \in S
<1> SUFFICES ASSUME Nat \ S # {} PROVE FALSE
  OBVIOUS
<1> DEFINE R == {ss \in Nat \X Nat : ss[1] < ss[2]}
<1>1. PICK x \in Nat \ S : \A y \in Nat \ S : ~(<<y, x>> \in R)
  <2>1. IsWellFoundedOn(R, Nat)
    BY LessWellFounded
  <2>2. Nat \ S \subseteq Nat
    OBVIOUS
  <2> HIDE DEF R
  <2> QED
    BY <2>1, <2>2, WFMin
<1>2. x # 0 /\ x - 1 \in Nat /\ (x - 1) + 1 = x
  OBVIOUS
<1>3. <<x - 1, x>> \in R
  BY <1>2
<1> QED
  BY <1>1, <1>2, <1>3

(* f is the values of a loop of n turns, the i-th of which applies g[i]; the *)
(* recursive functions of Framing are loops.                                 *)
IsLoop(f, n, S, base, g) ==
    f \in [0 .. n -> S] /\ f[0] = base /\ \A i \in 1 .. n : f[i] = g[i][f[i - 1]]

LEMMA LoopExists ==
    ASSUME NEW S, NEW base \in S, NEW n \in Nat, NEW g \in [1 .. n -> [S -> S]]
    PROVE  \E f : IsLoop(f, n, S, base, g)
<1> DEFINE Upto(m) == \E f \in [0 .. m -> S] : f[0] = base /\ \A i \in 1 .. m : f[i] = g[i][f[i - 1]]
           T == {m \in Nat : m <= n => Upto(m)}
<1>1. 0 \in T
  <2>1. [i \in 0 .. 0 |-> base] \in [0 .. 0 -> S]
    OBVIOUS
  <2>2. Upto(0)
    <3> DEFINE f0 == [i \in 0 .. 0 |-> base]
    <3>1. f0[0] = base /\ \A i \in 1 .. 0 : f0[i] = g[i][f0[i - 1]]
      OBVIOUS
    <3> QED
      BY <2>1, <3>1
  <2> QED
    BY <2>2
<1>2. ASSUME NEW m \in Nat, m \in T PROVE m + 1 \in T
  <2> SUFFICES ASSUME m + 1 <= n PROVE Upto(m + 1)
    OBVIOUS
  <2>1. PICK f \in [0 .. m -> S] : f[0] = base /\ \A i \in 1 .. m : f[i] = g[i][f[i - 1]]
    BY <1>2
  <2> DEFINE h == [i \in 0 .. m + 1 |-> IF i = m + 1 THEN g[m + 1][f[m]] ELSE f[i]]
  <2>2. g[m + 1][f[m]] \in S
    OBVIOUS
  <2>3. h \in [0 .. m + 1 -> S]
    BY <2>2
  <2>4. h[0] = base
    BY <2>1
  <2>5. \A i \in 1 .. m + 1 : h[i] = g[i][h[i - 1]]
    BY <2>1
  <2> QED
    BY <2>3, <2>4, <2>5
<1> HIDE DEF T
<1>3. n \in T
  BY <1>1, <1>2, SetInduction
<1> QED
  BY <1>3 DEF T, IsLoop

-----------------------------------------------------------------------------
(* The bytes of one message. *)
Size(m) == Hdr + m.body + 1
ByteAt(i, m, k) ==
    [m |-> i, k |-> k, len |-> m.body,
     c |-> IF k > Hdr + m.body THEN "end" ELSE IF k \in m.blanks THEN "blank" ELSE "text"]

IsMsg(q, i, m) ==
    /\ q \in Seq(Byte) /\ Len(q) = Size(m) + m.pad
    /\ \A k \in 1 .. Size(m) : q[k] = ByteAt(i, m, k)
    /\ \A k \in Size(m) + 1 .. Size(m) + m.pad : q[k] = NUL

LEMMA MsgBytes ==
    ASSUME NEW i \in Nat, NEW m \in Messages
    PROVE  /\ IsMsg(Msg(i, m), i, m)
           /\ Size(m) \in Nat /\ Size(m) >= 1 /\ m.pad \in Nat
<1>1. m.body \in Nat /\ m.pad \in Nat /\ Hdr \in Nat
  BY FramingAssumption DEF Messages
<1>2. Size(m) \in Nat /\ Size(m) = Hdr + m.body + 1
  BY <1>1 DEF Size
<1> DEFINE A == [k \in 1 .. Size(m) |-> ByteAt(i, m, k)]
           B == [k \in 1 .. m.pad |-> NUL]
<1>3. Msg(i, m) = A \o B
  BY <1>2 DEF Msg, ByteAt
<1>4. ASSUME NEW k \in 1 .. Size(m) PROVE ByteAt(i, m, k) \in Byte
  BY <1>1, <1>2 DEF ByteAt, Byte
<1>5. NUL \in Byte
  BY DEF NUL, Byte
<1>6. A \in Seq(Byte) /\ Len(A) = Size(m)
  BY <1>2, <1>4
<1>7. B \in Seq(Byte) /\ Len(B) = m.pad
  BY <1>1, <1>5
<1>8. /\ A \o B \in Seq(Byte) /\ Len(A \o B) = Size(m) + m.pad
      /\ \A k \in 1 .. Size(m) + m.pad :
            (A \o B)[k] = IF k <= Size(m) THEN A[k] ELSE B[k - Size(m)]
  <2> HIDE DEF A, B
  <2>1. /\ A \o B \in Seq(Byte) /\ Len(A \o B) = Len(A) + Len(B)
        /\ \A k \in 1 .. Len(A) + Len(B) : (A \o B)[k] = IF k <= Len(A) THEN A[k] ELSE B[k - Len(A)]
    BY <1>6, <1>7, ConcatProperties
  <2> QED
    BY <1>6, <1>7, <2>1
<1>9. ASSUME NEW k \in 1 .. Size(m) PROVE (A \o B)[k] = ByteAt(i, m, k)
  <2>1. k \in 1 .. Size(m) + m.pad /\ k <= Size(m)
    BY <1>1, <1>2
  <2>2. A[k] = ByteAt(i, m, k)
    OBVIOUS
  <2> HIDE DEF A, B
  <2> QED
    BY <1>8, <2>1, <2>2
<1>10. ASSUME NEW k \in Size(m) + 1 .. Size(m) + m.pad PROVE (A \o B)[k] = NUL
  <2>1. k \in 1 .. Size(m) + m.pad /\ ~(k <= Size(m)) /\ k - Size(m) \in 1 .. m.pad
    BY <1>1, <1>2
  <2>2. B[k - Size(m)] = NUL
    BY <2>1
  <2> HIDE DEF A, B
  <2> QED
    BY <1>8, <2>1, <2>2
<1> HIDE DEF A, B
<1>11. IsMsg(A \o B, i, m)
  BY <1>8, <1>9, <1>10 DEF IsMsg
<1>12. Size(m) >= 1
  BY <1>1, <1>2
<1> QED
  BY <1>1, <1>2, <1>3, <1>11, <1>12

-----------------------------------------------------------------------------
(* What every suffix s of the stream of the messages d looks like. *)
ByteOf(b, d) ==
    /\ b \in Byte
    /\ \/ b = NUL /\ \E i \in 1 .. Len(d) : d[i].pad # 0
       \/ /\ b.m \in 1 .. Len(d) /\ b.len = d[b.m].body /\ b.k \in 1 .. Hdr + b.len + 1
          /\ b.c = "end" <=> b.k = Hdr + b.len + 1
          /\ b.c # "nul" /\ (d[b.m].blanks = {} => b.c # "blank")
InOrder(a, b) == a.m > 0 /\ b.m > 0 => a.m <= b.m /\ (a.c = "end" => a.m < b.m)
Adjacent(a, b, d) ==
    /\ b.k > 1 => a.m = b.m /\ a.k = b.k - 1
    /\ b.k = 1 => b.m > 1 /\ (d[b.m - 1].pad = 0 => a.c = "end" /\ a.m = b.m - 1)
Suffix(s, d) ==
    /\ s \in Seq(Byte)
    /\ \A i \in 1 .. Len(s) : ByteOf(s[i], d)
    /\ \A i, j \in 1 .. Len(s) : i < j => InOrder(s[i], s[j])
    /\ \A i \in 1 .. Len(s) - 1 : Adjacent(s[i], s[i + 1], d)

(* The stream of the first n messages. *)
Whole(s, d, n) ==
    /\ Suffix(s, d)
    /\ \A i \in 1 .. Len(s) : s[i].m <= n
    /\ Len(s) > 0 => s[1].m = 1 /\ s[1].k = 1
    /\ \A m \in 1 .. n : \E i \in 1 .. Len(s) : s[i].c = "end" /\ s[i].m = m
    /\ n = 0 => s = <<>>
    /\ n > 0 => Len(s) > 0 /\ (d[n].pad = 0 => s[Len(s)].c = "end" /\ s[Len(s)].m = n)

LEMMA NulByte == NUL \in Byte /\ NUL.m = 0 /\ NUL.k = 0 /\ NUL.c = "nul"
  BY DEF NUL, Byte

LEMMA ByteAtType ==
    ASSUME NEW d \in Seq(Messages), NEW i \in 1 .. Len(d), NEW k \in 1 .. Size(d[i])
    PROVE  /\ ByteOf(ByteAt(i, d[i], k), d) /\ ByteAt(i, d[i], k).m = i /\ ByteAt(i, d[i], k).k = k
           /\ ByteAt(i, d[i], k).c = "end" <=> k = Size(d[i])
<1>1. d[i] \in Messages /\ i \in Nat
  OBVIOUS
<1>2. d[i].body \in Nat /\ Hdr \in Nat /\ Size(d[i]) = Hdr + d[i].body + 1
  BY <1>1, FramingAssumption DEF Messages, Size
<1>3. PICK b : b = ByteAt(i, d[i], k)
  OBVIOUS
<1>4. /\ b.m = i /\ b.k = k /\ b.len = d[i].body
      /\ b.c = IF k > Hdr + d[i].body THEN "end" ELSE IF k \in d[i].blanks THEN "blank" ELSE "text"
  BY <1>3 DEF ByteAt
<1>5. b \in Byte
  BY <1>1, <1>2, <1>3 DEF ByteAt, Byte
<1>6. k > Hdr + d[i].body <=> k = Size(d[i])
  BY <1>2
<1>7. b.c = "end" <=> k = Size(d[i])
  BY <1>4, <1>6
<1>8. b.c # "nul" /\ (d[i].blanks = {} => b.c # "blank")
  BY <1>4
<1>9. ByteOf(b, d)
  BY <1>2, <1>4, <1>5, <1>7, <1>8 DEF ByteOf
<1> QED
  BY <1>3, <1>4, <1>7, <1>9

LEMMA WholeStep ==
    ASSUME NEW d \in Seq(Messages), NEW n \in Nat, n + 1 <= Len(d), NEW s, Whole(s, d, n),
           NEW r, r = s \o Msg(n + 1, d[n + 1])
    PROVE  Whole(r, d, n + 1)
<1>1. n + 1 \in 1 .. Len(d) /\ d[n + 1] \in Messages /\ s \in Seq(Byte)
  BY DEF Whole, Suffix
<1>2. PICK q : q = Msg(n + 1, d[n + 1]) /\ IsMsg(q, n + 1, d[n + 1])
  BY <1>1, MsgBytes
<1>3. PICK z \in Nat : z = Size(d[n + 1]) /\ z >= 1
  BY <1>1, MsgBytes
<1>4. PICK p \in Nat : p = d[n + 1].pad
  BY <1>1, MsgBytes
<1>5. /\ q \in Seq(Byte) /\ Len(q) = z + p
      /\ \A k \in 1 .. z : q[k] = ByteAt(n + 1, d[n + 1], k)
      /\ \A k \in z + 1 .. z + p : q[k] = NUL
  BY <1>2, <1>3, <1>4 DEF IsMsg
<1>6. \A k \in 1 .. z : /\ ByteOf(q[k], d) /\ q[k].m = n + 1 /\ q[k].k = k
                        /\ q[k].c = "end" <=> k = z
  BY <1>1, <1>3, <1>5, ByteAtType
<1>7. ASSUME NEW k \in z + 1 .. z + p
      PROVE  ByteOf(q[k], d) /\ q[k].m = 0 /\ q[k].k = 0 /\ q[k].c # "end"
  <2>1. d[n + 1].pad # 0
    BY <1>4
  <2>2. q[k] = NUL
    BY <1>5
  <2> QED
    BY <1>1, <2>1, <2>2, NulByte DEF ByteOf
<1>8. PICK l \in Nat : l = Len(s)
  BY <1>1
<1>9. /\ r \in Seq(Byte) /\ Len(r) = l + (z + p)
      /\ \A i \in 1 .. l : r[i] = s[i]
      /\ \A k \in 1 .. z + p : r[l + k] = q[k]
  <2>1. r = s \o q
    BY <1>2
  <2>2. /\ s \o q \in Seq(Byte) /\ Len(s \o q) = Len(s) + Len(q)
        /\ \A i \in 1 .. Len(s) + Len(q) : (s \o q)[i] = IF i <= Len(s) THEN s[i] ELSE q[i - Len(s)]
    <3>1. s \in Seq(Byte) /\ q \in Seq(Byte)
      BY <1>1, <1>5
    <3> QED
      BY <3>1, ConcatProperties
  <2>3. \A i \in 1 .. l + (z + p) : r[i] = IF i <= l THEN s[i] ELSE q[i - l]
    BY <1>5, <1>8, <2>1, <2>2
  <2>4. ASSUME NEW i \in 1 .. l PROVE r[i] = s[i]
    <3>1. i \in 1 .. l + (z + p) /\ i <= l
      OBVIOUS
    <3> QED
      BY <2>3, <3>1
  <2>5. ASSUME NEW k \in 1 .. z + p PROVE r[l + k] = q[k]
    <3>1. l + k \in 1 .. l + (z + p) /\ ~(l + k <= l) /\ (l + k) - l = k
      OBVIOUS
    <3> QED
      BY <2>3, <3>1
  <2> QED
    BY <1>5, <1>8, <2>1, <2>2, <2>4, <2>5
<1>10. ASSUME NEW i \in 1 .. Len(r)
       PROVE  \/ i \in 1 .. l
              \/ i - l \in 1 .. z /\ i = l + (i - l)
              \/ i - l \in z + 1 .. z + p /\ i = l + (i - l)
  BY <1>9
<1> DEFINE First(i) == i \in 1 .. l /\ r[i] = s[i] /\ ByteOf(s[i], d) /\ s[i].m <= n
           New(i) == /\ i - l \in 1 .. z /\ ByteOf(r[i], d) /\ r[i].m = n + 1 /\ r[i].k = i - l
                     /\ r[i].c = "end" <=> i = l + z
           Pad(i) == /\ i - l \in z + 1 .. z + p /\ ByteOf(r[i], d) /\ r[i].m = 0 /\ r[i].k = 0
                     /\ r[i].c # "end"
<1>11. ASSUME NEW i \in 1 .. Len(r) PROVE First(i) \/ New(i) \/ Pad(i)
  <2>1. CASE i \in 1 .. l
    BY <1>8, <1>9, <2>1 DEF Whole, Suffix
  <2>2. CASE i - l \in 1 .. z /\ i = l + (i - l)
    <3>1. PICK k \in 1 .. z : k = i - l /\ i = l + k
      BY <2>2
    <3>0. k \in 1 .. z + p
      OBVIOUS
    <3>2. r[i] = q[k]
      BY <1>9, <3>0, <3>1
    <3>3. (k = z) <=> (i = l + z)
      BY <3>1
    <3> QED
      BY <1>6, <3>1, <3>2, <3>3
  <2>3. CASE i - l \in z + 1 .. z + p /\ i = l + (i - l)
    <3>1. PICK k \in z + 1 .. z + p : k = i - l /\ i = l + k
      BY <2>3
    <3>0. k \in 1 .. z + p
      OBVIOUS
    <3>2. r[i] = q[k]
      BY <1>9, <3>0, <3>1
    <3> QED
      BY <1>7, <3>1, <3>2
  <2> QED
    BY <1>10, <2>1, <2>2, <2>3
<1>12. \A i \in 1 .. Len(r) : ByteOf(r[i], d)
  BY <1>11
<1>13. ASSUME NEW i \in 1 .. Len(r), NEW j \in 1 .. Len(r), i < j PROVE InOrder(r[i], r[j])
  <2>1. CASE First(j)
    <3>1. j \in 1 .. l /\ r[j] = s[j]
      BY <2>1
    <3>2. i \in 1 .. l
      BY <1>9, <1>13, <3>1
    <3>3. r[i] = s[i]
      BY <1>9, <3>2
    <3> QED
      BY <1>8, <1>13, <3>1, <3>2, <3>3 DEF Whole, Suffix
  <2>2. CASE New(j)
    <3>1. CASE First(i)
      <4>1. r[i].m \in Nat /\ r[i].m <= n /\ r[j].m = n + 1
        BY <2>2, <3>1 DEF ByteOf, Byte
      <4>0. \A x \in Nat : x <= n => x < n + 1 /\ x <= n + 1
        OBVIOUS
      <4>2. r[i].m < r[j].m /\ r[i].m <= r[j].m
        <5> HIDE DEF First, New, Pad
        <5> QED
          BY <4>0, <4>1
      <4> QED
        BY <4>2 DEF InOrder
    <3>2. CASE New(i)
      <4>1. r[i].m = n + 1 /\ r[j].m = n + 1
        BY <2>2, <3>2
      <4>2. r[i].c # "end"
        <5>1. i # l + z
          BY <1>13, <2>2
        <5> QED
          BY <3>2, <5>1
      <4>3. n + 1 <= n + 1
        OBVIOUS
      <4> HIDE DEF First, New, Pad
      <4> QED
        BY <4>1, <4>2, <4>3 DEF InOrder
    <3>3. CASE Pad(i)
      <4>1. r[i].m = 0 /\ ~ (0 > 0)
        BY <3>3
      <4> HIDE DEF First, New, Pad
      <4> QED
        BY <4>1 DEF InOrder
    <3> QED
      BY <1>11, <3>1, <3>2, <3>3
  <2>3. CASE Pad(j)
    <3>1. r[j].m = 0 /\ ~ (0 > 0)
      BY <2>3
    <3> HIDE DEF First, New, Pad
    <3> QED
      BY <3>1 DEF InOrder
  <2> QED
    BY <1>11, <2>1, <2>2, <2>3
<1>14. ASSUME NEW i \in 1 .. Len(r) - 1 PROVE Adjacent(r[i], r[i + 1], d)
  <2>0. i \in 1 .. Len(r) /\ i + 1 \in 1 .. Len(r)
    BY <1>9
  <2>1. CASE First(i + 1)
    <3>1. i \in 1 .. l - 1 /\ r[i] = s[i] /\ r[i + 1] = s[i + 1]
      <4>1. i + 1 \in 1 .. l
        BY <2>1
      <4>2. i \in 1 .. l - 1 /\ i \in 1 .. l
        BY <4>1
      <4> QED
        BY <1>9, <4>1, <4>2
    <3> QED
      BY <1>8, <3>1 DEF Whole, Suffix
  <2>2. CASE New(i + 1) /\ i + 1 = l + 1
    <3>1. i = l /\ l > 0 /\ r[i] = s[Len(s)] /\ r[i + 1].k = 1 /\ r[i + 1].m = n + 1
      <4>1. i = l /\ l > 0 /\ l \in 1 .. l
        BY <2>2
      <4>2. r[i] = s[Len(s)]
        BY <1>8, <1>9, <4>1
      <4>3. r[i + 1].k = (i + 1) - l /\ r[i + 1].m = n + 1
        BY <2>2
      <4> QED
        BY <4>1, <4>2, <4>3
    <3>2. n > 0
      BY <1>8, <3>1 DEF Whole
    <3>3. (n + 1) - 1 = n
      OBVIOUS
    <3>4. n + 1 > 1 /\ (d[n].pad = 0 => r[i].c = "end" /\ r[i].m = n)
      BY <3>1, <3>2 DEF Whole
    <3>5. ~(r[i + 1].k > 1)
      BY <3>1
    <3> QED
      BY <3>1, <3>3, <3>4, <3>5 DEF Adjacent
  <2>3. CASE New(i + 1) /\ i + 1 # l + 1
    <3>1. i - l \in 1 .. z
      <4>1. (i + 1) - l \in 1 .. z /\ i + 1 # l + 1 /\ i \in Nat
        BY <1>9, <2>3
      <4> HIDE DEF First, New, Pad
      <4> QED
        BY <4>1
    <3>2. New(i)
      BY <1>11, <2>0, <3>1
    <3>3. r[i + 1].k = (i + 1) - l /\ r[i].k = i - l /\ r[i].m = r[i + 1].m
      BY <2>3, <3>2
    <3>4. r[i].k = r[i + 1].k - 1 /\ r[i + 1].k # 1
      BY <3>1, <3>3
    <3> QED
      BY <3>3, <3>4 DEF Adjacent
  <2>4. CASE Pad(i + 1)
    <3>1. ~(r[i + 1].k > 1) /\ r[i + 1].k # 1
      BY <2>4
    <3> QED
      BY <3>1 DEF Adjacent
  <2> QED
    BY <1>11, <2>0, <2>1, <2>2, <2>3, <2>4
<1>15. ASSUME NEW i \in 1 .. Len(r) PROVE r[i].m <= n + 1
  <2>1. r[i].m \in Nat
    BY <1>12 DEF ByteOf, Byte
  <2>2. r[i].m <= n \/ r[i].m = n + 1 \/ r[i].m = 0
    BY <1>11
  <2> QED
    BY <2>1, <2>2
<1>16. r[1].m = 1 /\ r[1].k = 1 /\ Len(r) > 0
  <2>0. Len(r) > 0 /\ 1 \in 1 .. Len(r)
    BY <1>9, <1>3
  <2>1. CASE l > 0
    BY <1>8, <1>9, <2>0, <2>1 DEF Whole
  <2>2. CASE l = 0
    <3>1. n = 0
      BY <1>8, <2>2 DEF Whole
    <3>2. New(1)
      <4>1. 1 - l \in 1 .. z
        BY <1>3, <2>2
      <4> QED
        BY <1>11, <2>0, <4>1
    <3> QED
      BY <2>0, <2>2, <3>1, <3>2
  <2> QED
    BY <2>1, <2>2
<1>17. ASSUME NEW m \in 1 .. n + 1 PROVE \E i \in 1 .. Len(r) : r[i].c = "end" /\ r[i].m = m
  <2>1. CASE m \in 1 .. n
    <3>1. PICK i \in 1 .. Len(s) : s[i].c = "end" /\ s[i].m = m
      BY <2>1 DEF Whole
    <3> QED
      BY <1>8, <1>9, <3>1
  <2>2. CASE m = n + 1
    <3>1. l + z \in 1 .. Len(r) /\ (l + z) - l \in 1 .. z
      BY <1>3, <1>9
    <3>2. New(l + z)
      BY <1>11, <3>1
    <3> QED
      BY <2>2, <3>1, <3>2
  <2> QED
    BY <2>1, <2>2
<1>18. ASSUME d[n + 1].pad = 0 PROVE r[Len(r)].c = "end" /\ r[Len(r)].m = n + 1
  <2>1. Len(r) = l + z /\ l + z \in 1 .. Len(r) /\ (l + z) - l \in 1 .. z
    BY <1>3, <1>4, <1>9, <1>18
  <2>2. New(l + z)
    BY <1>11, <2>1
  <2> QED
    BY <2>1, <2>2
<1>19. Suffix(r, d)
  BY <1>9, <1>12, <1>13, <1>14 DEF Suffix
<1>20. n + 1 # 0
  OBVIOUS
<1> HIDE DEF First, New, Pad
<1> QED
  BY <1>15, <1>16, <1>17, <1>18, <1>19, <1>20 DEF Whole

(* The bytes of a whole stream. *)
LEMMA StreamValues ==
    ASSUME NEW d \in Seq(Messages)
    PROVE  /\ Stream(d)[0] = <<>>
           /\ \A i \in 1 .. Len(d) : Stream(d)[i] = Stream(d)[i - 1] \o Msg(i, d[i])
<1> DEFINE S == Seq(Byte)
           g == [i \in 1 .. Len(d) |-> [s \in S |-> s \o Msg(i, d[i])]]
<1>1. ASSUME NEW s \in S, NEW i \in 1 .. Len(d) PROVE s \o Msg(i, d[i]) \in S
  <2>1. i \in Nat /\ d[i] \in Messages
    OBVIOUS
  <2>2. Msg(i, d[i]) \in Seq(Byte)
    BY <2>1, MsgBytes DEF IsMsg
  <2> QED
    BY <2>2, ConcatProperties
<1>2. <<>> \in S /\ Len(d) \in Nat
  OBVIOUS
<1> HIDE DEF S
<1>3. g \in [1 .. Len(d) -> [S -> S]]
  BY <1>1
<1>4. PICK f : IsLoop(f, Len(d), S, <<>>, g)
  <2> HIDE DEF g
  <2> QED
    BY <1>2, <1>3, LoopExists
<1>5. f \in [0 .. Len(d) -> S] /\ f[0] = <<>> /\ \A i \in 1 .. Len(d) : f[i] = g[i][f[i - 1]]
  BY <1>4 DEF IsLoop
<1>6. \A i \in 0 .. Len(d) : i # 0 => i \in 1 .. Len(d) /\ i - 1 \in 0 .. Len(d)
  OBVIOUS
<1>7. \A i \in 1 .. Len(d) : f[i] = f[i - 1] \o Msg(i, d[i])
  <2> TAKE i \in 1 .. Len(d)
  <2>1. f[i - 1] \in S
    BY <1>5, <1>6
  <2>2. g[i][f[i - 1]] = f[i - 1] \o Msg(i, d[i])
    BY <2>1
  <2> QED
    BY <1>5, <2>2
<1> HIDE DEF g
<1>8. f = [i \in 0 .. Len(d) |-> IF i = 0 THEN <<>> ELSE f[i - 1] \o Msg(i, d[i])]
  BY <1>5, <1>6, <1>7
<1> DEFINE F == Stream(d)
<1>9. F = [i \in 0 .. Len(d) |-> IF i = 0 THEN <<>> ELSE F[i - 1] \o Msg(i, d[i])]
  BY <1>8 DEF Stream
<1> HIDE DEF F
<1>10. \A i \in 0 .. Len(d) : F[i] = IF i = 0 THEN <<>> ELSE F[i - 1] \o Msg(i, d[i])
  BY <1>9
<1>11. F[0] = <<>> /\ \A i \in 1 .. Len(d) : F[i] = F[i - 1] \o Msg(i, d[i])
  <2>1. F[0] = <<>>
    BY <1>2, <1>10
  <2>2. ASSUME NEW i \in 1 .. Len(d) PROVE F[i] = F[i - 1] \o Msg(i, d[i])
    <3>1. i \in 0 .. Len(d) /\ i # 0
      OBVIOUS
    <3> QED
      BY <1>10, <3>1
  <2> QED
    BY <2>1, <2>2
<1> QED
  BY <1>11 DEF F

LEMMA BytesWhole ==
    ASSUME NEW d \in Seq(Messages)
    PROVE  Whole(Bytes(d), d, Len(d))
<1> DEFINE F == Stream(d)
           T == {i \in Nat : i <= Len(d) => Whole(F[i], d, i)}
<1>1. F[0] = <<>> /\ \A i \in 1 .. Len(d) : F[i] = F[i - 1] \o Msg(i, d[i])
  BY StreamValues
<1> HIDE DEF F
<1>2. 0 \in T
  <2>1. Whole(<<>>, d, 0)
    BY DEF Whole, Suffix
  <2> QED
    BY <1>1, <2>1
<1>3. ASSUME NEW i \in Nat, i \in T PROVE i + 1 \in T
  <2> SUFFICES ASSUME i + 1 <= Len(d) PROVE Whole(F[i + 1], d, i + 1)
    OBVIOUS
  <2>1. Whole(F[i], d, i) /\ i + 1 \in 1 .. Len(d) /\ (i + 1) - 1 = i
    BY <1>3
  <2>2. F[i + 1] = F[i] \o Msg(i + 1, d[i + 1])
    BY <1>1, <2>1
  <2>3. PICK s, r : s = F[i] /\ r = F[i + 1]
    OBVIOUS
  <2>4. Whole(r, d, i + 1)
    BY <2>1, <2>2, <2>3, WholeStep
  <2> QED
    BY <2>3, <2>4
<1>4. \A i \in Nat : i \in T
  <2> HIDE DEF T
  <2> QED
    BY <1>2, <1>3, SetInduction
<1>5. Len(d) \in Nat
  OBVIOUS
<1>6. Whole(F[Len(d)], d, Len(d))
  BY <1>4, <1>5
<1> QED
  BY <1>6 DEF F, Bytes

(* What is left of a stream when its first n bytes are read. *)
LEMMA Rest ==
    ASSUME NEW s \in Seq(Byte), NEW n \in 0 .. Len(s)
    PROVE  /\ SubSeq(s, n + 1, Len(s)) \in Seq(Byte) /\ Len(SubSeq(s, n + 1, Len(s))) = Len(s) - n
           /\ \A i \in 1 .. Len(s) - n : SubSeq(s, n + 1, Len(s))[i] = s[n + i] /\ n + i \in 1 .. Len(s)
  OBVIOUS

LEMMA SuffixRest ==
    ASSUME NEW d, NEW s, Suffix(s, d), NEW n \in 0 .. Len(s), NEW r, r = SubSeq(s, n + 1, Len(s))
    PROVE  Suffix(r, d)
<1>1. s \in Seq(Byte) /\ Len(s) \in Nat
  BY DEF Suffix
<1>2. /\ r \in Seq(Byte) /\ Len(r) = Len(s) - n
      /\ \A i \in 1 .. Len(r) : r[i] = s[n + i] /\ n + i \in 1 .. Len(s)
  BY <1>1, Rest
<1>3. \A i \in 1 .. Len(r) : ByteOf(r[i], d)
  BY <1>2 DEF Suffix
<1>4. ASSUME NEW i \in 1 .. Len(r), NEW j \in 1 .. Len(r), i < j PROVE InOrder(r[i], r[j])
  <2>1. n + i < n + j
    BY <1>1, <1>2, <1>4
  <2> QED
    BY <1>2, <2>1 DEF Suffix
<1>5. ASSUME NEW i \in 1 .. Len(r) - 1 PROVE Adjacent(r[i], r[i + 1], d)
  <2>1. /\ i \in 1 .. Len(r) /\ i + 1 \in 1 .. Len(r) /\ n + i \in 1 .. Len(s) - 1
        /\ n + (i + 1) = (n + i) + 1
    BY <1>1, <1>2
  <2>2. Adjacent(s[n + i], s[(n + i) + 1], d)
    BY <2>1 DEF Suffix
  <2> QED
    BY <1>2, <2>1, <2>2
<1> QED
  BY <1>2, <1>3, <1>4, <1>5 DEF Suffix

-----------------------------------------------------------------------------
(* A stream of commands: no padding. *)
CmdByte(b) ==
    /\ b \in Byte /\ b.m > 0 /\ b.k \in 1 .. Hdr + b.len + 1
    /\ b.c = "end" <=> b.k = Hdr + b.len + 1
CmdNext(a, b) ==
    IF b.k > 1 THEN a.m = b.m /\ a.len = b.len /\ a.k = b.k - 1
    ELSE a.c = "end" /\ a.m = b.m - 1
Cmds(s) ==
    /\ s \in Seq(Byte)
    /\ \A i \in 1 .. Len(s) : CmdByte(s[i])
    /\ \A i \in 1 .. Len(s) - 1 : CmdNext(s[i], s[i + 1])

LEMMA ByteFields ==
    ASSUME NEW b \in Byte
    PROVE  b.m \in Nat /\ b.k \in Nat /\ b.len \in Nat /\ b.c \in {"text", "blank", "end", "nul"}
  BY DEF Byte

LEMMA DownIsCmds ==
    ASSUME NEW t \in Traffic, NEW s, s = Bytes(t.down)
    PROVE  Cmds(s) /\ (Len(s) > 0 => s[1].m = 1 /\ s[1].k = 1)
<1>1. PICK d \in Seq(Messages) : d = t.down
  BY FramingAssumption
<1>2. \A i \in 1 .. Len(d) : d[i].pad = 0
  BY <1>1, FramingAssumption
<1>3. Whole(s, d, Len(d))
  BY <1>1, BytesWhole
<1>4. Suffix(s, d) /\ s \in Seq(Byte) /\ Len(s) \in Nat
  BY <1>3 DEF Whole, Suffix
<1>5. ASSUME NEW i \in 1 .. Len(s) PROVE CmdByte(s[i]) /\ s[i].m \in 1 .. Len(d) /\ s[i].len = d[s[i].m].body
  <2>1. PICK b \in Byte : b = s[i] /\ ByteOf(b, d)
    BY <1>4 DEF Suffix
  <2>2. /\ b.m \in 1 .. Len(d) /\ b.len = d[b.m].body /\ b.k \in 1 .. Hdr + b.len + 1
        /\ b.c = "end" <=> b.k = Hdr + b.len + 1
    BY <1>2, <2>1 DEF ByteOf
  <2>3. b.m > 0
    BY <2>2
  <2> QED
    BY <2>1, <2>2, <2>3 DEF CmdByte
<1>6. ASSUME NEW i \in 1 .. Len(s) - 1 PROVE CmdNext(s[i], s[i + 1])
  <2>1. i \in 1 .. Len(s) /\ i + 1 \in 1 .. Len(s)
    BY <1>4
  <2>2. PICK a, b : a = s[i] /\ b = s[i + 1] /\ Adjacent(a, b, d)
    BY <1>4 DEF Suffix
  <2>3. /\ b.k \in Nat /\ b.k >= 1 /\ b.m \in 1 .. Len(d) /\ b.len = d[b.m].body
        /\ a.m \in 1 .. Len(d) /\ a.len = d[a.m].body
    <3>1. CmdByte(b) /\ b.m \in 1 .. Len(d) /\ b.len = d[b.m].body
      BY <1>5, <2>1, <2>2
    <3>2. b.k \in Nat /\ b.k >= 1
      BY <3>1, ByteFields, FramingAssumption DEF CmdByte
    <3> QED
      BY <1>5, <2>1, <2>2, <3>1, <3>2
  <2>4. CASE b.k > 1
    BY <2>2, <2>3, <2>4 DEF Adjacent, CmdNext
  <2>5. CASE b.k = 1
    <3>1. b.m > 1
      BY <2>2, <2>5 DEF Adjacent
    <3>2. b.m - 1 \in 1 .. Len(d)
      BY <2>3, <3>1
    <3>3. a.c = "end" /\ a.m = b.m - 1
      BY <1>2, <2>2, <2>5, <3>2 DEF Adjacent
    <3> QED
      BY <2>2, <2>5, <3>3 DEF CmdNext
  <2> QED
    BY <2>3, <2>4, <2>5
<1> QED
  BY <1>3, <1>4, <1>5, <1>6 DEF Cmds, Whole

(* The bytes of the command that a stream begins with. *)
LEMMA FirstCommand ==
    ASSUME NEW s, Cmds(s), Len(s) > 0, s[1].k = 1, NEW i \in 1 .. Len(s), i <= Hdr + s[1].len + 1
    PROVE  s[i].k = i /\ s[i].m = s[1].m /\ s[i].len = s[1].len
<1> DEFINE Good(j) == s[j].k = j /\ s[j].m = s[1].m /\ s[j].len = s[1].len
           T == {j \in Nat : j + 1 <= Len(s) /\ j + 1 <= Hdr + s[1].len + 1 => Good(j + 1)}
<1>1. s \in Seq(Byte) /\ Len(s) \in Nat /\ Hdr \in Nat
  BY FramingAssumption DEF Cmds
<1>2. s[1] \in Byte /\ s[1].len \in Nat
  <2>1. 1 \in 1 .. Len(s)
    BY <1>1
  <2> QED
    BY <1>1, <2>1, ByteFields
<1>3. 0 \in T
  <2>1. Good(1) /\ 0 + 1 = 1
    OBVIOUS
  <2> QED
    BY <2>1
<1>4. ASSUME NEW j \in Nat, j \in T PROVE j + 1 \in T
  <2> SUFFICES ASSUME (j + 1) + 1 <= Len(s), (j + 1) + 1 <= Hdr + s[1].len + 1
               PROVE  Good((j + 1) + 1)
    <3> HIDE DEF Good
    <3> QED
      OBVIOUS
  <2>1. Good(j + 1)
    <3>1. j + 1 <= Len(s) /\ j + 1 <= Hdr + s[1].len + 1
      BY <1>1, <1>2
    <3> QED
      BY <1>4, <3>1
  <2>2. j + 1 \in 1 .. Len(s) - 1 /\ j + 1 \in 1 .. Len(s) /\ (j + 1) + 1 \in 1 .. Len(s)
    BY <1>1
  <2>3. PICK a, b : /\ a = s[j + 1] /\ b = s[(j + 1) + 1] /\ CmdNext(a, b)
                    /\ CmdByte(a) /\ CmdByte(b)
    BY <2>2 DEF Cmds
  <2>4. a.k = j + 1 /\ a.len = s[1].len /\ a.m = s[1].m
    BY <2>1, <2>3
  <2>5. a.c # "end"
    BY <1>1, <1>2, <2>3, <2>4 DEF CmdByte
  <2>6. b.k > 1 /\ a.m = b.m /\ a.len = b.len /\ a.k = b.k - 1
    BY <2>3, <2>5 DEF CmdNext
  <2>7. b.k \in Nat
    BY <2>3, ByteFields DEF CmdByte
  <2>8. b.k = (j + 1) + 1
    BY <2>4, <2>6, <2>7
  <2> QED
    BY <2>3, <2>4, <2>6, <2>8
<1>5. i - 1 \in Nat /\ (i - 1) + 1 = i
  BY <1>1
<1>6. i - 1 \in T
  <2> HIDE DEF T
  <2> QED
    BY <1>3, <1>4, <1>5, SetInduction
<1>7. Good((i - 1) + 1)
  <2> HIDE DEF Good
  <2> QED
    BY <1>5, <1>6
<1> QED
  BY <1>5, <1>7

(* The command after a delimiter. *)
LEMMA NextCommand ==
    ASSUME NEW s, Cmds(s), NEW i \in 1 .. Len(s) - 1, s[i].c = "end"
    PROVE  s[i + 1].k = 1 /\ s[i + 1].m = s[i].m + 1
<1>1. i \in 1 .. Len(s) /\ i + 1 \in 1 .. Len(s)
  <2>1. Len(s) \in Nat
    BY DEF Cmds
  <2> QED
    BY <2>1
<1>2. PICK a, b : a = s[i] /\ b = s[i + 1] /\ CmdNext(a, b) /\ CmdByte(a) /\ CmdByte(b)
  BY <1>1 DEF Cmds
<1>3. /\ a.m \in Nat /\ b.m \in Nat /\ a.k \in Nat /\ b.k \in Nat /\ a.len \in Nat /\ b.len \in Nat
      /\ Hdr \in Nat
  BY <1>2, ByteFields, FramingAssumption DEF CmdByte
<1>4. a.k = Hdr + a.len + 1 /\ b.k \in 1 .. Hdr + b.len + 1
  BY <1>2 DEF CmdByte
<1>5. ~(b.k > 1)
  BY <1>2, <1>3, <1>4 DEF CmdNext
<1>6. a.m = b.m - 1
  BY <1>2, <1>5 DEF CmdNext
<1> QED
  BY <1>2, <1>3, <1>4, <1>5, <1>6

-----------------------------------------------------------------------------
(* The AP.  While clean, work and down together are a stream of commands     *)
(* that begins with the next one to carry out; what a read has left off is   *)
(* at the end of rx as well, where Keep takes it from.                       *)
Ahead(w, h) == Cmds(w) /\ (Len(w) > 0 => w[1].k = 1 /\ w[1].m = h + 1)
Begun(w, h) == \A k \in 1 .. Len(w) : w[k].m = h + 1 /\ w[k].k = k
Resumes(w, x) ==
    Len(w) > 0 => \/ w[Len(w)].c = "end"
                  \/ /\ w[Len(w)].k <= MaxLen /\ w[Len(w)].k # Hdr + w[Len(w)].len
                     /\ \A j \in 0 .. MaxLen - 1 : j < Len(w) => x[MaxLen - j] = w[Len(w) - j]
Counted(h) == \A i \in 1 .. Len(h) : h[i] = i

ApTypes ==
    /\ down \in Seq(Byte) /\ work \in Seq(Byte) /\ rx \in Seq(Byte) /\ Len(rx) = MaxLen
    /\ handled \in Seq(Nat)
    /\ pc \in {"recv", "parse", "crashed"} /\ clean \in BOOLEAN
    /\ pc = "recv" => Len(work) <= MaxLen
ApClean ==
    clean => /\ pc # "crashed" /\ Counted(handled) /\ Ahead(work \o down, Len(handled))
             /\ pc = "recv" => Begun(work, Len(handled))
             /\ pc = "parse" => Resumes(work, rx)

(* Two sequences, one after the other. *)
LEMMA Joined ==
    ASSUME NEW s \in Seq(Byte), NEW r \in Seq(Byte)
    PROVE  /\ s \o r \in Seq(Byte) /\ Len(s \o r) = Len(s) + Len(r)
           /\ Len(s) \in Nat /\ Len(r) \in Nat
           /\ \A i \in 1 .. Len(s) : (s \o r)[i] = s[i]
           /\ \A i \in 1 .. Len(r) : (s \o r)[Len(s) + i] = r[i]
<1>1. Len(s) \in Nat /\ Len(r) \in Nat
  OBVIOUS
<1>2. /\ s \o r \in Seq(Byte) /\ Len(s \o r) = Len(s) + Len(r)
      /\ \A i \in 1 .. Len(s) + Len(r) : (s \o r)[i] = IF i <= Len(s) THEN s[i] ELSE r[i - Len(s)]
  BY ConcatProperties
<1>3. ASSUME NEW i \in 1 .. Len(s) PROVE (s \o r)[i] = s[i]
  <2>1. i \in 1 .. Len(s) + Len(r) /\ i <= Len(s)
    BY <1>1
  <2> QED
    BY <1>2, <2>1
<1>4. ASSUME NEW i \in 1 .. Len(r) PROVE (s \o r)[Len(s) + i] = r[i]
  <2>1. Len(s) + i \in 1 .. Len(s) + Len(r) /\ ~(Len(s) + i <= Len(s)) /\ (Len(s) + i) - Len(s) = i
    BY <1>1
  <2> QED
    BY <1>2, <2>1
<1> QED
  BY <1>1, <1>2, <1>3, <1>4

LEMMA ChunkMoves ==
    ASSUME NEW s \in Seq(Byte), NEW r \in Seq(Byte), NEW n \in 1 .. Len(r)
    PROVE  (s \o SubSeq(r, 1, n)) \o SubSeq(r, n + 1, Len(r)) = s \o r
<1>1. n \in Nat /\ Len(r) \in Nat /\ n <= Len(r)
  OBVIOUS
<1>2. PICK a \in Seq(Byte) : a = SubSeq(r, 1, n)
  <2>1. SubSeq(r, 1, n) \in Seq(Byte)
    OBVIOUS
  <2> QED
    BY <2>1, Zenon
<1>3. PICK b \in Seq(Byte) : b = SubSeq(r, n + 1, Len(r))
  <2>1. SubSeq(r, n + 1, Len(r)) \in Seq(Byte)
    OBVIOUS
  <2> QED
    BY <2>1, Zenon
<1>4. /\ Len(a) = n /\ \A i \in 1 .. n : a[i] = r[i]
      /\ Len(b) = Len(r) - n /\ \A i \in 1 .. Len(r) - n : b[i] = r[n + i]
  BY <1>2, <1>3
<1>5. PICK u \in Seq(Byte) : u = s \o a
  BY Joined
<1>6. /\ Len(u) = Len(s) + n /\ \A i \in 1 .. Len(s) : u[i] = s[i]
      /\ \A i \in 1 .. n : u[Len(s) + i] = r[i]
  <2>1. /\ Len(u) = Len(s) + Len(a) /\ \A i \in 1 .. Len(s) : u[i] = s[i]
        /\ \A i \in 1 .. Len(a) : u[Len(s) + i] = a[i]
    BY <1>5, Joined
  <2> QED
    BY <1>4, <2>1
<1>7. PICK v \in Seq(Byte) : v = u \o b
  BY Joined
<1>8. PICK x \in Seq(Byte) : x = s \o r
  BY Joined
<1>9. /\ Len(x) = Len(s) + Len(r) /\ \A i \in 1 .. Len(s) : x[i] = s[i]
      /\ \A i \in 1 .. Len(r) : x[Len(s) + i] = r[i]
  BY <1>8, Joined
<1>10. /\ Len(v) = Len(s) + Len(r) /\ \A i \in 1 .. Len(u) : v[i] = u[i]
       /\ \A i \in 1 .. Len(r) - n : v[Len(u) + i] = r[n + i]
  <2>1. /\ Len(v) = Len(u) + Len(b) /\ \A i \in 1 .. Len(u) : v[i] = u[i]
        /\ \A i \in 1 .. Len(b) : v[Len(u) + i] = b[i]
    BY <1>7, Joined
  <2> QED
    BY <1>1, <1>4, <1>6, <2>1
<1>11. ASSUME NEW i \in 1 .. Len(v) PROVE v[i] = x[i]
  <2>0. Len(s) \in Nat
    OBVIOUS
  <2>1. CASE i <= Len(s)
    BY <1>1, <1>6, <1>9, <1>10, <2>0, <2>1
  <2>2. CASE i > Len(s) /\ i <= Len(s) + n
    <3>1. i - Len(s) \in 1 .. n /\ i = Len(s) + (i - Len(s)) /\ i - Len(s) \in 1 .. Len(r)
      BY <1>1, <2>0, <2>2
    <3>2. i \in 1 .. Len(u)
      BY <1>1, <1>6, <2>0, <2>2
    <3>3. PICK j \in 1 .. n : i = Len(s) + j /\ j \in 1 .. Len(r)
      BY <3>1
    <3>4. v[i] = u[i] /\ u[i] = r[j]
      BY <1>6, <1>10, <3>2, <3>3
    <3>5. x[i] = r[j]
      BY <1>9, <3>3
    <3> QED
      BY <3>4, <3>5
  <2>3. CASE i > Len(s) + n
    <3>1. PICK j \in 1 .. Len(r) - n : i = (Len(s) + n) + j
      <4>1. i - (Len(s) + n) \in 1 .. Len(r) - n /\ i = (Len(s) + n) + (i - (Len(s) + n))
        BY <1>1, <1>10, <2>0, <2>3
      <4> QED
        BY <4>1
    <3>2. v[i] = r[n + j]
      BY <1>6, <1>10, <3>1
    <3>3. n + j \in 1 .. Len(r) /\ i = Len(s) + (n + j)
      BY <1>1, <2>0, <3>1
    <3> QED
      BY <1>9, <3>2, <3>3
  <2> QED
    BY <2>0, <2>1, <2>2, <2>3, <1>1
<1>12. v = x
  BY <1>9, <1>10, <1>11, SeqEqual
<1> QED
  BY <1>2, <1>3, <1>5, <1>7, <1>8, <1>12

LEMMA RecvOK ==
    ASSUME ApTypes, ApClean, NEW n \in 1 .. MaxLen, n <= Len(down), Recv(n)
    PROVE  ApTypes' /\ ApClean'
<1>1. /\ down \in Seq(Byte) /\ work \in Seq(Byte) /\ handled \in Seq(Nat) /\ clean \in BOOLEAN
      /\ MaxLen \in Nat
  BY FramingAssumption DEF ApTypes
<1>2. n \in 1 .. Len(down) /\ n \in Nat
  BY <1>1
<1>3. PICK chunk \in Seq(Byte) : chunk = SubSeq(down, 1, n) /\ Len(chunk) = n
                                 /\ \A i \in 1 .. n : chunk[i] = down[i]
  <2>1. /\ SubSeq(down, 1, n) \in Seq(Byte) /\ Len(SubSeq(down, 1, n)) = n
        /\ \A i \in 1 .. n : SubSeq(down, 1, n)[i] = down[i]
    BY <1>1, <1>2
  <2> QED
    BY <2>1, Zenon
<1>4. /\ rx' = [k \in 1 .. MaxLen |-> IF k <= n THEN down[k] ELSE NUL]
      /\ work' = work \o chunk /\ down' = SubSeq(down, n + 1, Len(down))
      /\ clean' = (clean /\ Resumable(n)) /\ pc' = "parse" /\ handled' = handled
  BY <1>3 DEF Recv
<1>5. rx' \in Seq(Byte) /\ Len(rx') = MaxLen /\ \A k \in 1 .. n : rx'[k] = down[k]
  <2>1. \A k \in 1 .. MaxLen : (IF k <= n THEN down[k] ELSE NUL) \in Byte
    BY <1>1, <1>2, NulByte
  <2>2. rx' \in [1 .. MaxLen -> Byte] /\ \A k \in 1 .. n : rx'[k] = down[k]
    BY <1>1, <1>4, <2>1
  <2> QED
    BY <1>1, <2>2
<1>6. /\ work' \in Seq(Byte) /\ Len(work') = Len(work) + n /\ Len(work) \in Nat
      /\ \A i \in 1 .. n : work'[Len(work) + i] = down[i]
  BY <1>1, <1>3, <1>4, Joined
<1>7. down' \in Seq(Byte)
  BY <1>1, <1>2, <1>4
<1>8. work' \o down' = work \o down
  BY <1>1, <1>2, <1>3, <1>4, ChunkMoves
<1>9. ApTypes'
  BY <1>1, <1>4, <1>5, <1>6, <1>7 DEF ApTypes
<1>10. ASSUME clean' PROVE Resumes(work', rx')
  <2>1. Resumable(n)
    BY <1>4, <1>10
  <2>2. n \in 1 .. n /\ work'[Len(work')] = down[n]
    BY <1>2, <1>6
  <2>3. CASE down[n].c = "end"
    BY <2>2, <2>3 DEF Resumes
  <2>4. CASE n = MaxLen /\ down[n].k <= MaxLen /\ down[n].k # Hdr + down[n].len
    <3>1. ASSUME NEW j \in 0 .. MaxLen - 1 PROVE rx'[MaxLen - j] = work'[Len(work') - j]
      <4>1. n - j \in 1 .. n /\ MaxLen - j = n - j /\ Len(work') - j = Len(work) + (n - j)
        BY <1>2, <1>6, <2>4
      <4> QED
        BY <1>5, <1>6, <4>1
    <3> QED
      BY <2>2, <2>4, <3>1 DEF Resumes
  <2> QED
    BY <2>1, <2>3, <2>4 DEF Resumable
<1>11. ApClean'
  BY <1>4, <1>8, <1>10 DEF ApClean
<1> QED
  BY <1>9, <1>11

LEMMA ParseOK ==
    ASSUME ApTypes, ApClean, Parse
    PROVE  ApTypes' /\ ApClean'
<1>1. /\ down \in Seq(Byte) /\ work \in Seq(Byte) /\ rx \in Seq(Byte) /\ Len(rx) = MaxLen
      /\ handled \in Seq(Nat) /\ clean \in BOOLEAN
      /\ Hdr \in Nat /\ Hdr >= 1 /\ MaxLen \in Nat /\ Len(work) \in Nat /\ Len(handled) \in Nat
  BY FramingAssumption DEF ApTypes
<1>2. pc = "parse" /\ Len(work) >= Hdr /\ UNCHANGED <<down, rx, clean>>
  BY DEF Parse
<1>3. PICK L \in Declared(work[Hdr]) :
           /\ L <= Len(work) - Hdr
           /\ handled' = Append(handled, Found(SubSeq(work, 1, Hdr + L)))
           /\ work' = SubSeq(work, Hdr + L + 2, Len(work))
           /\ pc' = IF L = Len(work) - Hdr THEN "crashed" ELSE "parse"
  BY DEF Parse
<1>4. work[Hdr] \in Byte /\ work[Hdr].len \in Nat /\ work[1] \in Byte
  <2>1. Hdr \in 1 .. Len(work) /\ 1 \in 1 .. Len(work)
    BY <1>1, <1>2
  <2> QED
    BY <1>1, <2>1, ByteFields
<1>5. L \in Nat
  BY <1>1, <1>4 DEF Declared
<1>6. PICK found : found = Found(SubSeq(work, 1, Hdr + L))
  OBVIOUS
<1>7. PICK head \in Seq(Byte) : /\ head = SubSeq(work, 1, Hdr + L) /\ Len(head) = Hdr + L
                                /\ \A i \in 1 .. Hdr + L : head[i] = work[i]
  <2>1. Hdr + L \in 1 .. Len(work)
    BY <1>1, <1>3, <1>5
  <2>2. /\ SubSeq(work, 1, Hdr + L) \in Seq(Byte) /\ Len(SubSeq(work, 1, Hdr + L)) = Hdr + L
        /\ \A i \in 1 .. Hdr + L : SubSeq(work, 1, Hdr + L)[i] = work[i]
    BY <1>1, <2>1
  <2> QED
    BY <2>2, Zenon
<1>8. found \in Nat
  <2>1. 1 \in 1 .. Hdr + L /\ head[1].m \in Nat
    BY <1>1, <1>4, <1>5, <1>7, ByteFields
  <2> QED
    BY <1>6, <1>7, <2>1 DEF Found
<1>9. handled' = Append(handled, found) /\ handled' \in Seq(Nat)
  BY <1>1, <1>3, <1>6, <1>8
<1>10. work' \in Seq(Byte) /\ pc' \in {"parse", "crashed"}
  <2>1. \A i \in Hdr + L + 2 .. Len(work) : work[i] \in Byte
    BY <1>1, <1>5
  <2> QED
    BY <1>1, <1>3, <1>5, <2>1
<1>11. ApTypes'
  BY <1>1, <1>2, <1>9, <1>10 DEF ApTypes
<1>12. ASSUME clean' PROVE pc' = "parse" /\ Counted(handled') /\ Ahead(work' \o down', Len(handled'))
                           /\ Resumes(work', rx')
  <2>1. clean /\ Counted(handled) /\ Ahead(work \o down, Len(handled)) /\ Resumes(work, rx)
    BY <1>2, <1>12 DEF ApClean
  <2>2. PICK w : w = work \o down
    OBVIOUS
  <2>3. /\ w \in Seq(Byte) /\ Len(w) = Len(work) + Len(down) /\ Len(down) \in Nat
        /\ \A i \in 1 .. Len(work) : w[i] = work[i]
        /\ \A i \in 1 .. Len(down) : w[Len(work) + i] = down[i]
    BY <1>1, <2>2, Joined
  <2>4. Cmds(w) /\ Len(w) > 0 /\ w[1].k = 1 /\ w[1].m = Len(handled) + 1
    BY <1>1, <1>2, <2>1, <2>2, <2>3 DEF Ahead
  <2>5. PICK len \in Nat : len = w[1].len
    BY <1>1, <1>2, <1>4, <2>3, ByteFields
  <2>6. ASSUME NEW i \in 1 .. Len(work), i <= Hdr + len + 1
        PROVE  work[i].k = i /\ work[i].m = Len(handled) + 1 /\ work[i].len = len
    <3>1. i \in 1 .. Len(w)
      BY <1>1, <2>3
    <3>2. w[i].k = i /\ w[i].m = w[1].m /\ w[i].len = w[1].len
      BY <2>4, <2>5, <2>6, <3>1, FirstCommand
    <3> QED
      BY <2>3, <2>4, <2>5, <3>2
  <2>7. L = len
    <3>1. Hdr \in 1 .. Len(work) /\ Hdr <= Hdr + len + 1
      BY <1>1, <1>2, <2>5
    <3>2. work[Hdr].k = Hdr /\ work[Hdr].len = len
      BY <2>6, <3>1
    <3> QED
      BY <1>3, <3>2 DEF Declared
  <2>8. found = Len(handled) + 1
    <3>1. ASSUME NEW i \in 1 .. Hdr + L PROVE head[i].m = Len(handled) + 1 /\ head[i].k = i
      <4>1. i \in 1 .. Len(work) /\ i <= Hdr + len + 1
        BY <1>1, <1>3, <1>5, <2>7
      <4> QED
        BY <1>7, <2>6, <4>1
    <3>2. 1 \in 1 .. Hdr + L
      BY <1>1, <1>5
    <3> QED
      BY <1>6, <1>7, <3>1, <3>2 DEF Found
  <2>9. Counted(handled') /\ Len(handled') = Len(handled) + 1
    <3>1. Len(handled') = Len(handled) + 1
      BY <1>1, <1>8, <1>9
    <3>2. \A i \in 1 .. Len(handled) : handled'[i] = handled[i]
      BY <1>1, <1>8, <1>9
    <3>3. handled'[Len(handled) + 1] = found
      BY <1>1, <1>8, <1>9
    <3>4. \A i \in 1 .. Len(handled) + 1 : i \in 1 .. Len(handled) \/ i = Len(handled) + 1
      BY <1>1
    <3> QED
      BY <2>1, <2>8, <3>1, <3>2, <3>3, <3>4 DEF Counted
  <2>10. Len(work) # Hdr + L
    <3> SUFFICES ASSUME Len(work) = Hdr + L PROVE FALSE
      OBVIOUS
    <3>1. Len(work) \in 1 .. Len(work) /\ Len(work) <= Hdr + len + 1 /\ Len(work) > 0
      BY <1>1, <1>5, <2>7
    <3>2. work[Len(work)].k = Hdr + L /\ work[Len(work)].len = L
      BY <2>6, <2>7, <3>1
    <3>3. work[Len(work)].c = "end"
      BY <2>1, <3>1, <3>2 DEF Resumes
    <3>4. CmdByte(w[Len(work)]) /\ w[Len(work)] = work[Len(work)]
      BY <2>3, <2>4, <3>1 DEF Cmds
    <3> QED
      BY <1>1, <1>5, <3>2, <3>3, <3>4 DEF CmdByte
  <2>11. PICK e \in Nat : e = Hdr + L + 1 /\ e \in 1 .. Len(work) /\ e \in 1 .. Len(w)
    <3>1. Hdr + L + 1 \in 1 .. Len(work) /\ Hdr + L + 1 \in 1 .. Len(w) /\ Hdr + L + 1 \in Nat
      BY <1>1, <1>3, <1>5, <2>3, <2>10
    <3> QED
      BY <3>1
  <2>12. w[e].c = "end" /\ w[e].m = Len(handled) + 1
    <3>1. w[e] = work[e] /\ work[e].k = e /\ work[e].m = Len(handled) + 1 /\ work[e].len = len
      BY <2>3, <2>6, <2>7, <2>11
    <3>2. CmdByte(w[e])
      BY <2>4, <2>11 DEF Cmds
    <3> QED
      BY <2>7, <2>11, <3>1, <3>2 DEF CmdByte
  <2>13. /\ work' \in Seq(Byte) /\ Len(work') = Len(work) - e
         /\ \A i \in 1 .. Len(work) - e : work'[i] = work[e + i] /\ e + i \in 1 .. Len(work)
    <3>1. work' = SubSeq(work, e + 1, Len(work)) /\ e \in 0 .. Len(work)
      BY <1>1, <1>3, <1>5, <2>11
    <3> QED
      BY <1>1, <3>1, Rest
  <2>16. Len(work') \in Nat
    <3>1. PICK x \in Seq(Byte) : x = work'
      BY <2>13
    <3>2. Len(x) \in Nat
      OBVIOUS
    <3> QED
      BY <3>1, <3>2
  <2>14. Resumes(work', rx')
    <3> SUFFICES ASSUME Len(work') > 0 PROVE Resumes(work', rx)
      BY <1>2 DEF Resumes
    <3>1. Len(work') \in 1 .. Len(work) - e /\ e + Len(work') = Len(work) /\ Len(work) > 0
      BY <1>1, <2>11, <2>13
    <3>2. work'[Len(work')] = work[Len(work)]
      BY <2>13, <3>1
    <3>3. CASE work[Len(work)].c = "end"
      BY <3>2, <3>3 DEF Resumes
    <3>4. CASE /\ work[Len(work)].k <= MaxLen /\ work[Len(work)].k # Hdr + work[Len(work)].len
               /\ \A j \in 0 .. MaxLen - 1 : j < Len(work) => rx[MaxLen - j] = work[Len(work) - j]
      <4>1. ASSUME NEW j \in 0 .. MaxLen - 1, j < Len(work')
            PROVE  rx[MaxLen - j] = work'[Len(work') - j]
        <5>1. /\ Len(work') - j \in 1 .. Len(work) - e /\ e + (Len(work') - j) = Len(work) - j
              /\ j < Len(work)
          <6>1. PICK l \in Nat : l = Len(work')
            BY <2>16
          <6>2. PICK o \in Nat : o = Len(work)
            BY <1>1
          <6>3. j \in Nat /\ j < l /\ l = o - e /\ e >= 1
            BY <1>1, <2>11, <2>13, <4>1, <6>1, <6>2
          <6>4. l - j \in 1 .. o - e /\ e + (l - j) = o - j /\ j < o
            BY <6>3
          <6> QED
            BY <6>1, <6>2, <6>4
        <5>2. work'[Len(work') - j] = work[Len(work) - j]
          BY <2>13, <5>1
        <5> QED
          BY <3>4, <5>1, <5>2
      <4> QED
        BY <3>2, <3>4, <4>1 DEF Resumes
    <3> QED
      BY <2>1, <3>1, <3>3, <3>4 DEF Resumes
  <2>15. Ahead(work' \o down', Len(handled'))
    <3>1. PICK v : v = work' \o down
      OBVIOUS
    <3>2. /\ v \in Seq(Byte) /\ Len(v) = Len(work') + Len(down)
          /\ \A i \in 1 .. Len(work') : v[i] = work'[i]
          /\ \A i \in 1 .. Len(down) : v[Len(work') + i] = down[i]
      <4>1. PICK x \in Seq(Byte) : x = work'
        BY <2>13
      <4>2. /\ x \o down \in Seq(Byte) /\ Len(x \o down) = Len(x) + Len(down)
            /\ \A i \in 1 .. Len(x) : (x \o down)[i] = x[i]
            /\ \A i \in 1 .. Len(down) : (x \o down)[Len(x) + i] = down[i]
        BY <1>1, Joined
      <4> QED
        BY <3>1, <4>1, <4>2
    <3>3. Len(v) = Len(w) - e /\ Len(w) \in Nat /\ Len(v) \in Nat
      BY <1>1, <2>3, <2>11, <2>13, <3>2
    <3>4. ASSUME NEW i \in 1 .. Len(v) PROVE v[i] = w[e + i] /\ e + i \in 1 .. Len(w)
      <4>1. CASE i <= Len(work')
        <5>1. i \in 1 .. Len(work') /\ i \in 1 .. Len(work) - e /\ e + i \in 1 .. Len(work)
          BY <1>1, <2>11, <2>13, <4>1
        <5> QED
          BY <2>3, <2>13, <3>2, <3>3, <5>1
      <4>2. CASE i > Len(work')
        <5>1. PICK j \in 1 .. Len(down) : i = Len(work') + j
          <6>1. PICK l \in Nat : l = Len(work')
            BY <2>16
          <6>2. i \in 1 .. l + Len(down) /\ i > l
            BY <3>2, <4>2, <6>1
          <6>3. i - l \in 1 .. Len(down) /\ i = l + (i - l)
            BY <2>3, <6>2
          <6> QED
            BY <6>1, <6>3
        <5>2. e + i = Len(work) + j
          <6>1. PICK l, o \in Nat : l = Len(work') /\ o = Len(work)
            BY <1>1, <2>16
          <6>2. l = o - e /\ i = l + j
            BY <2>13, <5>1, <6>1
          <6>3. e + (l + j) = o + j
            BY <6>2
          <6> QED
            BY <6>1, <6>2, <6>3
        <5>3. v[i] = down[j] /\ w[e + i] = down[j]
          BY <2>3, <3>2, <5>1, <5>2
        <5>4. e + i \in 1 .. Len(w)
          BY <2>11, <3>3
        <5> QED
          BY <5>3, <5>4
      <4> QED
        BY <1>1, <2>11, <2>13, <4>1, <4>2
    <3>5. \A i \in 1 .. Len(v) : CmdByte(v[i])
      BY <2>4, <3>4 DEF Cmds
    <3>6. ASSUME NEW i \in 1 .. Len(v) - 1 PROVE CmdNext(v[i], v[i + 1])
      <4>1. /\ i \in 1 .. Len(v) /\ i + 1 \in 1 .. Len(v) /\ e + i \in 1 .. Len(w) - 1
            /\ e + (i + 1) = (e + i) + 1
        BY <2>11, <3>3
      <4>2. CmdNext(w[e + i], w[(e + i) + 1])
        BY <2>4, <4>1 DEF Cmds
      <4>3. v[i] = w[e + i] /\ v[i + 1] = w[e + (i + 1)]
        BY <3>4, <4>1
      <4> QED
        BY <4>1, <4>2, <4>3
    <3>7. Cmds(v)
      BY <3>2, <3>5, <3>6 DEF Cmds
    <3>8. ASSUME Len(v) > 0 PROVE v[1].k = 1 /\ v[1].m = Len(handled') + 1
      <4>1. 1 \in 1 .. Len(v) /\ e \in 1 .. Len(w) - 1
        BY <2>11, <3>3, <3>8
      <4>2. w[e + 1].k = 1 /\ w[e + 1].m = w[e].m + 1
        BY <2>4, <2>12, <4>1, NextCommand
      <4> QED
        BY <2>9, <2>12, <3>4, <4>1, <4>2
    <3> QED
      BY <1>2, <3>1, <3>7, <3>8 DEF Ahead
  <2> QED
    BY <1>3, <1>1, <1>5, <2>9, <2>10, <2>14, <2>15
<1>13. ApClean'
  BY <1>12 DEF ApClean
<1> QED
  BY <1>11, <1>13

LEMMA KeepOK ==
    ASSUME ApTypes, ApClean, Keep
    PROVE  ApTypes' /\ ApClean'
<1>1. /\ down \in Seq(Byte) /\ work \in Seq(Byte) /\ rx \in Seq(Byte) /\ Len(rx) = MaxLen
      /\ handled \in Seq(Nat) /\ clean \in BOOLEAN
      /\ Hdr \in Nat /\ Hdr >= 1 /\ MaxLen \in Nat /\ Len(handled) \in Nat
  BY FramingAssumption DEF ApTypes
<1>2. PICK left \in Nat : left = Len(work)
  BY <1>1
<1>3. /\ pc = "parse" /\ UNCHANGED <<down, rx, handled, clean>>
      /\ left >= Hdr => \E L \in Declared(work[Hdr]) : L > left - Hdr
      /\ left > MaxLen => pc' = "crashed" /\ work' = work
      /\ left <= MaxLen => pc' = "recv" /\ work' = SubSeq(rx, MaxLen - left + 1, MaxLen)
  <2>1. left > MaxLen <=> ~(left <= MaxLen)
    BY <1>1
  <2> QED
    BY <1>2, <2>1 DEF Keep
<1>4. ASSUME left <= MaxLen
      PROVE  /\ work' \in Seq(Byte) /\ Len(work') = left
             /\ \A i \in 1 .. left : work'[i] = rx[(MaxLen - left) + i]
  <2>1. PICK n \in Nat : n = MaxLen - left /\ n \in 0 .. Len(rx) /\ Len(rx) - n = left
    <3>1. MaxLen - left \in Nat /\ MaxLen - left \in 0 .. MaxLen /\ MaxLen - (MaxLen - left) = left
      BY <1>1, <1>4
    <3> QED
      BY <1>1, <3>1
  <2>2. work' = SubSeq(rx, n + 1, Len(rx))
    BY <1>1, <1>3, <1>4, <2>1
  <2> QED
    BY <1>1, <2>1, <2>2, Rest
<1>5. ApTypes'
  <2>1. CASE left <= MaxLen
    BY <1>1, <1>3, <1>4, <2>1 DEF ApTypes
  <2>2. CASE left > MaxLen
    BY <1>1, <1>3, <2>2 DEF ApTypes
  <2> QED
    BY <1>1, <2>1, <2>2
<1>6. ASSUME clean
      PROVE  /\ left <= MaxLen /\ Begun(work, Len(handled)) /\ Ahead(work \o down, Len(handled))
             /\ \A j \in 0 .. MaxLen - 1 : j < left => rx[MaxLen - j] = work[left - j]
  <2>1. Ahead(work \o down, Len(handled)) /\ Resumes(work, rx)
    BY <1>3, <1>6 DEF ApClean
  <2>2. CASE left = 0
    BY <1>1, <1>2, <2>1, <2>2 DEF Begun
  <2>3. CASE left > 0
    <3>1. PICK w : w = work \o down
      OBVIOUS
    <3>2. /\ w \in Seq(Byte) /\ Len(w) = left + Len(down) /\ Len(down) \in Nat
          /\ \A i \in 1 .. left : w[i] = work[i]
      BY <1>1, <1>2, <3>1, Joined
    <3>3. Cmds(w) /\ Len(w) > 0 /\ w[1].k = 1 /\ w[1].m = Len(handled) + 1
      BY <2>1, <2>3, <3>1, <3>2 DEF Ahead
    <3>4. \A i \in 1 .. left : i \in 1 .. Len(w) /\ CmdByte(w[i])
      BY <3>2, <3>3 DEF Cmds
    <3>5. PICK len \in Nat : len = w[1].len
      <4>1. 1 \in 1 .. left
        BY <2>3
      <4> QED
        BY <3>4, <4>1, ByteFields DEF CmdByte
    <3>6. ASSUME NEW i \in 1 .. left, i <= Hdr + len + 1
          PROVE  work[i].k = i /\ work[i].m = Len(handled) + 1 /\ work[i].len = len
      <4>1. w[i].k = i /\ w[i].m = w[1].m /\ w[i].len = w[1].len
        BY <3>3, <3>4, <3>5, <3>6, FirstCommand
      <4> QED
        BY <3>2, <3>3, <3>5, <4>1
    <3>7. left < Hdr + len + 1
      <4>1. CASE left < Hdr
        BY <1>1, <4>1
      <4>2. CASE left >= Hdr
        <5>1. Hdr \in 1 .. left /\ Hdr <= Hdr + len + 1
          BY <1>1, <4>2
        <5>2. work[Hdr].k = Hdr /\ work[Hdr].len = len
          BY <3>6, <5>1
        <5>3. len > left - Hdr
          BY <1>3, <4>2, <5>2 DEF Declared
        <5> QED
          BY <1>1, <5>3
      <4> QED
        BY <1>1, <4>1, <4>2
    <3>8. Begun(work, Len(handled))
      <4>1. \A i \in 1 .. left : i <= Hdr + len + 1
        BY <1>1, <3>7
      <4> QED
        BY <1>2, <3>6, <4>1 DEF Begun
    <3>9. work[left].c # "end" /\ work[left].k = left
      <4>1. left \in 1 .. left /\ left <= Hdr + len + 1
        BY <1>1, <2>3, <3>7
      <4>2. work[left].k = left /\ work[left].len = len /\ CmdByte(work[left])
        BY <3>2, <3>4, <3>6, <4>1
      <4> QED
        BY <3>7, <4>2, <1>1 DEF CmdByte
    <3> QED
      BY <1>2, <2>1, <2>3, <3>8, <3>9 DEF Resumes
  <2> QED
    BY <2>2, <2>3
<1>7. ASSUME clean PROVE work' = work
  <2>1. ASSUME NEW i \in 1 .. left PROVE work'[i] = work[i]
    <3>1. PICK j \in Nat : j = left - i /\ j \in 0 .. MaxLen - 1 /\ j < left
      <4>1. left - i \in Nat /\ left - i \in 0 .. MaxLen - 1 /\ left - i < left
        BY <1>1, <1>6, <1>7
      <4> QED
        BY <4>1
    <3>2. MaxLen - j = (MaxLen - left) + i /\ left - j = i
      BY <1>1, <3>1
    <3>3. rx[MaxLen - j] = work[left - j]
      BY <1>6, <1>7, <3>1
    <3> QED
      BY <1>4, <1>6, <1>7, <3>2, <3>3
  <2>2. PICK x \in Seq(Byte) : x = work' /\ Len(x) = left
    BY <1>4, <1>6, <1>7
  <2>3. x = work
    BY <1>1, <1>2, <2>1, <2>2, SeqEqual
  <2> QED
    BY <2>2, <2>3
<1>8. ApClean'
  <2> SUFFICES ASSUME clean
               PROVE  /\ pc' = "recv" /\ Counted(handled') /\ Ahead(work' \o down', Len(handled'))
                      /\ Begun(work', Len(handled'))
    BY <1>3 DEF ApClean
  <2>1. Counted(handled)
    BY <1>3 DEF ApClean
  <2> QED
    BY <1>3, <1>6, <1>7, <2>1
<1> QED
  BY <1>5, <1>8

-----------------------------------------------------------------------------
(* Order without clean.  Whatever is junk, the first bytes of commands in    *)
(* work and down come in order and after what has been carried out, because  *)
(* Keep takes no byte of rx that has been parsed.                            *)
IsFirst(b) == b.m > 0 /\ b.k = 1
Firsts(s) == \A i, j \in 1 .. Len(s) : i < j /\ IsFirst(s[i]) /\ IsFirst(s[j]) => s[i].m < s[j].m
Beyond(h, s) == \A i \in 1 .. Len(h), j \in 1 .. Len(s) : IsFirst(s[j]) => h[i] < s[j].m
Upward(h) == \A i, j \in 1 .. Len(h) : i < j /\ h[i] # 0 /\ h[j] # 0 => h[i] < h[j]
Mirrors(w, x) ==
    \E n \in 1 .. MaxLen :
        /\ \A p \in 1 .. MaxLen : p > n => x[p] = NUL
        /\ \A p \in 1 .. n : Len(w) - n + p >= 1 => w[Len(w) - n + p] = x[p]

ApOrder ==
    /\ Upward(handled) /\ Firsts(work \o down) /\ Beyond(handled, work \o down)
    /\ pc = "parse" => Mirrors(work, rx)

(* The first bytes of r are first bytes of s, in the same order. *)
LEMMA FirstsThin ==
    ASSUME NEW h \in Seq(Nat), NEW s \in Seq(Byte), NEW r \in Seq(Byte),
           NEW q \in [1 .. Len(r) -> Int],
           \A i \in 1 .. Len(r) : IsFirst(r[i]) => q[i] \in 1 .. Len(s) /\ r[i] = s[q[i]],
           \A i, j \in 1 .. Len(r) : i < j /\ IsFirst(r[i]) => q[i] < q[j],
           Firsts(s), Beyond(h, s)
    PROVE  Firsts(r) /\ Beyond(h, r)
<1>1. ASSUME NEW i \in 1 .. Len(r), NEW j \in 1 .. Len(r), i < j, IsFirst(r[i]), IsFirst(r[j])
      PROVE  r[i].m < r[j].m
  <2>1. q[i] < q[j] /\ q[i] \in 1 .. Len(s) /\ q[j] \in 1 .. Len(s) /\ r[i] = s[q[i]] /\ r[j] = s[q[j]]
    BY <1>1
  <2> QED
    BY <1>1, <2>1 DEF Firsts
<1>2. ASSUME NEW i \in 1 .. Len(h), NEW j \in 1 .. Len(r), IsFirst(r[j]) PROVE h[i] < r[j].m
  <2>1. q[j] \in 1 .. Len(s) /\ r[j] = s[q[j]]
    BY <1>2
  <2> QED
    BY <1>2, <2>1 DEF Beyond
<1> QED
  BY <1>1, <1>2 DEF Firsts, Beyond

LEMMA DownFirsts ==
    ASSUME NEW t \in Traffic, NEW s, s = Bytes(t.down)
    PROVE  Firsts(s)
<1>1. PICK d \in Seq(Messages) : d = t.down
  BY FramingAssumption
<1>2. s \in Seq(Byte) /\ \A i, j \in 1 .. Len(s) : i < j => InOrder(s[i], s[j])
  <2>1. Whole(s, d, Len(d))
    BY <1>1, BytesWhole
  <2> QED
    BY <2>1 DEF Whole, Suffix
<1>3. Cmds(s) /\ Len(s) \in Nat
  BY <1>2, DownIsCmds
<1> SUFFICES ASSUME NEW i \in 1 .. Len(s), NEW j \in 1 .. Len(s), i < j, IsFirst(s[i]), IsFirst(s[j])
             PROVE  s[i].m < s[j].m
  BY DEF Firsts
<1>4. PICK p \in 1 .. Len(s) : p = j - 1 /\ p \in 1 .. Len(s) - 1 /\ p + 1 = j /\ i <= p
  <2>1. j - 1 \in 1 .. Len(s) /\ j - 1 \in 1 .. Len(s) - 1 /\ (j - 1) + 1 = j /\ i <= j - 1
    BY <1>3
  <2> QED
    BY <2>1
<1>5. PICK a \in Byte, b \in Byte : a = s[p] /\ b = s[j] /\ CmdNext(a, b) /\ CmdByte(a)
  <2>1. CmdNext(s[p], s[p + 1]) /\ CmdByte(s[p]) /\ s[p] \in Byte /\ s[j] \in Byte
    BY <1>2, <1>3, <1>4 DEF Cmds
  <2> QED
    BY <1>4, <2>1
<1>6. a.m \in Nat /\ b.m \in Nat /\ b.k = 1 /\ a.m = b.m - 1
  BY <1>5, ByteFields DEF CmdNext, IsFirst
<1>7. PICK c \in Byte : c = s[i] /\ c.m \in Nat
  BY <1>2, ByteFields
<1>8. c.m <= a.m
  <2>1. CASE i = p
    BY <1>5, <1>6, <1>7, <2>1
  <2>2. CASE i < p
    BY <1>2, <1>5, <1>7, <2>2 DEF InOrder, IsFirst, CmdByte
  <2> QED
    BY <1>4, <2>1, <2>2
<1> QED
  BY <1>5, <1>6, <1>7, <1>8

LEMMA RecvOrder ==
    ASSUME ApTypes, ApOrder, NEW n \in 1 .. MaxLen, n <= Len(down), Recv(n)
    PROVE  ApOrder'
<1>1. down \in Seq(Byte) /\ work \in Seq(Byte) /\ MaxLen \in Nat
  BY FramingAssumption DEF ApTypes
<1>2. n \in 1 .. Len(down) /\ n \in Nat
  BY <1>1
<1>3. PICK chunk \in Seq(Byte) : chunk = SubSeq(down, 1, n) /\ Len(chunk) = n
                                 /\ \A i \in 1 .. n : chunk[i] = down[i]
  <2>1. /\ SubSeq(down, 1, n) \in Seq(Byte) /\ Len(SubSeq(down, 1, n)) = n
        /\ \A i \in 1 .. n : SubSeq(down, 1, n)[i] = down[i]
    BY <1>1, <1>2
  <2> QED
    BY <2>1, Zenon
<1>4. /\ rx' = [k \in 1 .. MaxLen |-> IF k <= n THEN down[k] ELSE NUL]
      /\ work' = work \o chunk /\ down' = SubSeq(down, n + 1, Len(down)) /\ handled' = handled
  BY <1>3 DEF Recv
<1>5. work' \o down' = work \o down
  BY <1>1, <1>2, <1>3, <1>4, ChunkMoves
<1>6. /\ Len(work') = Len(work) + n /\ Len(work) \in Nat
      /\ \A i \in 1 .. n : work'[Len(work) + i] = down[i]
  BY <1>1, <1>3, <1>4, Joined
<1>7. Mirrors(work', rx')
  <2>1. \A p \in 1 .. MaxLen : p > n => rx'[p] = NUL
    BY <1>1, <1>2, <1>4
  <2>2. ASSUME NEW p \in 1 .. n PROVE work'[Len(work') - n + p] = rx'[p]
    <3>1. Len(work') - n + p = Len(work) + p /\ p \in 1 .. MaxLen /\ p <= n
      BY <1>1, <1>2, <1>6
    <3> QED
      BY <1>4, <1>6, <3>1
  <2> QED
    BY <2>1, <2>2 DEF Mirrors
<1> QED
  BY <1>4, <1>5, <1>7 DEF ApOrder

LEMMA ParseOrder ==
    ASSUME ApTypes, ApOrder, Parse
    PROVE  ApOrder'
<1>1. /\ down \in Seq(Byte) /\ work \in Seq(Byte) /\ handled \in Seq(Nat)
      /\ Hdr \in Nat /\ Hdr >= 1 /\ MaxLen \in Nat /\ Len(work) \in Nat /\ Len(down) \in Nat
      /\ Len(handled) \in Nat
  BY FramingAssumption DEF ApTypes
<1>2. pc = "parse" /\ Len(work) >= Hdr /\ UNCHANGED <<down, rx>> /\ Mirrors(work, rx)
  BY DEF Parse, ApOrder
<1>3. PICK L \in Declared(work[Hdr]) :
           /\ L <= Len(work) - Hdr
           /\ handled' = Append(handled, Found(SubSeq(work, 1, Hdr + L)))
           /\ work' = SubSeq(work, Hdr + L + 2, Len(work))
  BY DEF Parse
<1>4. L \in Nat /\ work[1] \in Byte
  <2>1. work[Hdr] \in Byte /\ work[1] \in Byte
    BY <1>1, <1>2
  <2> QED
    BY <1>1, <2>1, ByteFields DEF Declared
<1>5. PICK d \in 1 .. Len(work) : /\ work' \in Seq(Byte) /\ Len(work') = Len(work) - d
                                  /\ \A i \in 1 .. Len(work) - d : work'[i] = work[d + i]
  <2>1. CASE L = Len(work) - Hdr
    <3>1. work' = <<>>
      <4>1. Hdr + L + 2 > Len(work)
        BY <1>1, <1>4, <2>1
      <4> QED
        BY <1>1, <1>3, <1>4, <4>1
    <3>2. /\ Len(work) \in 1 .. Len(work) /\ <<>> \in Seq(Byte) /\ Len(<<>>) = Len(work) - Len(work)
          /\ \A i \in 1 .. Len(work) - Len(work) : FALSE
      BY <1>1, <1>2
    <3> QED
      BY <3>1, <3>2
  <2>2. CASE L # Len(work) - Hdr
    <3>1. PICK n \in Nat : n = Hdr + L + 1 /\ n \in 0 .. Len(work) /\ n \in 1 .. Len(work)
      <4>1. Hdr + L + 1 \in Nat /\ Hdr + L + 1 \in 0 .. Len(work) /\ Hdr + L + 1 \in 1 .. Len(work)
        BY <1>1, <1>3, <1>4, <2>2
      <4> QED
        BY <4>1
    <3>2. work' = SubSeq(work, n + 1, Len(work))
      BY <1>1, <1>3, <1>4, <3>1
    <3> QED
      BY <1>1, <3>1, <3>2, Rest
  <2> QED
    BY <2>1, <2>2
<1>6. PICK found \in Nat : /\ handled' = Append(handled, found)
                           /\ found # 0 => IsFirst(work[1]) /\ found = work[1].m
  <2>1. PICK head \in Seq(Byte) : /\ head = SubSeq(work, 1, Hdr + L) /\ Len(head) = Hdr + L
                                  /\ \A i \in 1 .. Hdr + L : head[i] = work[i]
    <3>1. Hdr + L \in 1 .. Len(work)
      BY <1>1, <1>3, <1>4
    <3>2. /\ SubSeq(work, 1, Hdr + L) \in Seq(Byte) /\ Len(SubSeq(work, 1, Hdr + L)) = Hdr + L
          /\ \A i \in 1 .. Hdr + L : SubSeq(work, 1, Hdr + L)[i] = work[i]
      BY <1>1, <3>1
    <3> QED
      BY <3>2, Zenon
  <2>2. 1 \in 1 .. Len(head) /\ head[1] = work[1] /\ head[1].m \in Nat
    BY <1>1, <1>4, <2>1, ByteFields
  <2>3. Found(head) \in Nat /\ (Found(head) # 0 => head[1].k = 1 /\ Found(head) = head[1].m)
    BY <2>2 DEF Found
  <2>4. handled' = Append(handled, Found(head))
    BY <1>3, <2>1, Zenon
  <2>5. Found(head) # 0 => IsFirst(work[1]) /\ Found(head) = work[1].m
    BY <2>2, <2>3 DEF IsFirst
  <2> QED
    BY <2>3, <2>4, <2>5, Zenon
<1>7. PICK s \in Seq(Byte) : s = work \o down
  BY <1>1, Joined
<1>8. PICK r \in Seq(Byte) : r = work' \o down'
  BY <1>1, <1>2, <1>5, Joined
<1>9. /\ Len(s) = Len(work) + Len(down) /\ \A i \in 1 .. Len(work) : s[i] = work[i]
      /\ \A i \in 1 .. Len(down) : s[Len(work) + i] = down[i]
  BY <1>1, <1>7, Joined
<1>10. /\ Len(r) = Len(s) - d /\ \A i \in 1 .. Len(work) - d : r[i] = work'[i]
       /\ \A i \in 1 .. Len(down) : r[(Len(work) - d) + i] = down[i]
  <2>1. PICK w \in Seq(Byte) : w = work' /\ Len(w) = Len(work) - d
    BY <1>5
  <2>2. r = w \o down
    BY <1>2, <1>8, <2>1
  <2>3. /\ Len(r) = Len(w) + Len(down) /\ \A i \in 1 .. Len(w) : r[i] = w[i]
        /\ \A i \in 1 .. Len(down) : r[Len(w) + i] = down[i]
    BY <1>1, <2>2, Joined
  <2>4. Len(r) = Len(s) - d
    BY <1>1, <1>9, <2>1, <2>3
  <2>5. \A i \in 1 .. Len(work) - d : r[i] = work'[i]
    BY <2>1, <2>3, Zenon
  <2>6. \A i \in 1 .. Len(down) : r[(Len(work) - d) + i] = down[i]
    BY <2>1, <2>3, Zenon
  <2> QED
    BY <2>4, <2>5, <2>6
<1>11. ASSUME NEW i \in 1 .. Len(r) PROVE d + i \in 1 .. Len(s) /\ r[i] = s[d + i]
  <2>1. d + i \in 1 .. Len(s)
    BY <1>1, <1>9, <1>10
  <2>2. CASE i <= Len(work) - d
    <3>1. i \in 1 .. Len(work) - d /\ d + i \in 1 .. Len(work)
      BY <1>1, <2>2
    <3> QED
      BY <1>5, <1>9, <1>10, <2>1, <3>1
  <2>3. CASE i > Len(work) - d
    <3>1. PICK j \in 1 .. Len(down) : i = (Len(work) - d) + j
      <4>1. i - (Len(work) - d) \in 1 .. Len(down) /\ i = (Len(work) - d) + (i - (Len(work) - d))
        BY <1>1, <1>9, <1>10, <2>3
      <4> QED
        BY <4>1
    <3>2. d + i = Len(work) + j
      BY <1>1, <3>1
    <3> QED
      BY <1>9, <1>10, <2>1, <3>1, <3>2
  <2> QED
    BY <1>1, <1>10, <2>2, <2>3
<1>12. Firsts(s) /\ Beyond(handled, s) /\ Upward(handled)
  BY <1>7 DEF ApOrder
<1>13. Firsts(r) /\ Beyond(handled, r)
  <2>1. PICK q \in [1 .. Len(r) -> Int] : \A i \in 1 .. Len(r) : q[i] = d + i
    <3>1. [i \in 1 .. Len(r) |-> d + i] \in [1 .. Len(r) -> Int]
      OBVIOUS
    <3> QED
      BY <3>1
  <2>2. \A i, j \in 1 .. Len(r) : i < j /\ IsFirst(r[i]) => q[i] < q[j]
    BY <2>1
  <2>3. \A i \in 1 .. Len(r) : IsFirst(r[i]) => q[i] \in 1 .. Len(s) /\ r[i] = s[q[i]]
    BY <1>11, <2>1
  <2> QED
    BY <1>1, <1>12, <2>2, <2>3, FirstsThin
<1>14. 1 \in 1 .. Len(s) /\ s[1] = work[1]
  <2>1. 1 \in 1 .. Len(work) /\ 1 \in 1 .. Len(s)
    BY <1>1, <1>2, <1>9
  <2> QED
    BY <1>9, <2>1
<1>15. ASSUME found # 0, NEW j \in 1 .. Len(r), IsFirst(r[j]) PROVE found < r[j].m
  <2>1. 1 < d + j
    BY <1>10
  <2> QED
    BY <1>6, <1>11, <1>12, <1>15, <1>14, <2>1 DEF Firsts
<1>16. ASSUME found # 0, NEW i \in 1 .. Len(handled) PROVE handled[i] < found
  BY <1>6, <1>12, <1>16, <1>14 DEF Beyond
<1>17. /\ handled' \in Seq(Nat) /\ Len(handled') = Len(handled) + 1
       /\ handled'[Len(handled) + 1] = found
       /\ \A i \in 1 .. Len(handled) : handled'[i] = handled[i]
  BY <1>1, <1>6
<1>18. Upward(handled')
  <2> SUFFICES ASSUME NEW i \in 1 .. Len(handled'), NEW j \in 1 .. Len(handled'), i < j,
                      handled'[i] # 0, handled'[j] # 0
               PROVE  handled'[i] < handled'[j]
    BY DEF Upward
  <2>1. i \in 1 .. Len(handled) /\ (j = Len(handled) + 1 \/ j \in 1 .. Len(handled))
    <3>1. PICK o \in Nat : o = Len(handled) /\ Len(handled') = o + 1
      BY <1>1, <1>17
    <3>2. i \in 1 .. o + 1 /\ j \in 1 .. o + 1
      BY <3>1
    <3>3. i \in 1 .. o /\ (j = o + 1 \/ j \in 1 .. o)
      BY <3>2
    <3> QED
      BY <3>1, <3>3
  <2>2. CASE j = Len(handled) + 1
    BY <1>16, <1>17, <2>1, <2>2
  <2>3. CASE j \in 1 .. Len(handled)
    BY <1>12, <1>17, <2>1, <2>3 DEF Upward
  <2> QED
    BY <2>1, <2>2, <2>3
<1>19. Beyond(handled', r)
  <2> SUFFICES ASSUME NEW i \in 1 .. Len(handled'), NEW j \in 1 .. Len(r), IsFirst(r[j])
               PROVE  handled'[i] < r[j].m
    BY DEF Beyond
  <2>1. CASE i = Len(handled) + 1
    <3>1. CASE found = 0
      BY <1>17, <2>1, <3>1 DEF IsFirst
    <3>2. CASE found # 0
      BY <1>15, <1>17, <2>1, <3>2
    <3> QED
      BY <3>1, <3>2
  <2>2. CASE i \in 1 .. Len(handled)
    BY <1>13, <1>17, <2>2 DEF Beyond
  <2> QED
    BY <1>1, <1>17, <2>1, <2>2
<1>20. Mirrors(work', rx)
  <2>1. PICK n \in 1 .. MaxLen :
            /\ \A p \in 1 .. MaxLen : p > n => rx[p] = NUL
            /\ \A p \in 1 .. n : Len(work) - n + p >= 1 => work[Len(work) - n + p] = rx[p]
    BY <1>2 DEF Mirrors
  <2>2. ASSUME NEW p \in 1 .. n, Len(work') - n + p >= 1 PROVE work'[Len(work') - n + p] = rx[p]
    <3>1. PICK i \in 1 .. Len(work) - d : i = Len(work') - n + p /\ d + i = Len(work) - n + p
      <4>1. /\ Len(work') - n + p \in 1 .. Len(work) - d
            /\ d + (Len(work') - n + p) = Len(work) - n + p
        BY <1>1, <1>5, <2>2
      <4> QED
        BY <4>1
    <3>2. Len(work) - n + p >= 1
      BY <1>1, <3>1
    <3> QED
      BY <1>5, <2>1, <3>1, <3>2
  <2> QED
    BY <2>1, <2>2 DEF Mirrors
<1> QED
  BY <1>2, <1>8, <1>13, <1>18, <1>19, <1>20 DEF ApOrder

LEMMA KeepOrder ==
    ASSUME ApTypes, ApOrder, Keep
    PROVE  ApOrder'
<1>1. /\ down \in Seq(Byte) /\ work \in Seq(Byte) /\ rx \in Seq(Byte) /\ Len(rx) = MaxLen
      /\ handled \in Seq(Nat) /\ MaxLen \in Nat /\ Len(down) \in Nat
  BY FramingAssumption DEF ApTypes
<1>2. PICK left \in Nat : left = Len(work)
  BY <1>1
<1>3. /\ pc = "parse" /\ UNCHANGED <<down, handled>> /\ pc' \in {"recv", "crashed"}
      /\ left > MaxLen => work' = work
      /\ left <= MaxLen => work' = SubSeq(rx, MaxLen - left + 1, MaxLen)
  <2>1. left > MaxLen <=> ~(left <= MaxLen)
    BY <1>1
  <2> QED
    BY <1>2, <2>1 DEF Keep
<1>4. CASE left > MaxLen
  BY <1>3, <1>4 DEF ApOrder
<1>5. CASE left <= MaxLen
  <2>1. PICK w \in Seq(Byte) : /\ w = work' /\ Len(w) = left
                               /\ \A i \in 1 .. left : w[i] = rx[(MaxLen - left) + i]
    <3>1. PICK n \in Nat : n = MaxLen - left /\ n \in 0 .. Len(rx) /\ Len(rx) - n = left
      <4>1. MaxLen - left \in Nat /\ MaxLen - left \in 0 .. MaxLen /\ MaxLen - (MaxLen - left) = left
        BY <1>1, <1>5
      <4> QED
        BY <1>1, <4>1
    <3>2. work' = SubSeq(rx, n + 1, Len(rx))
      BY <1>1, <1>3, <1>5, <3>1
    <3>3. /\ work' \in Seq(Byte) /\ Len(work') = left
          /\ \A i \in 1 .. left : work'[i] = rx[n + i]
      BY <1>1, <3>1, <3>2, Rest
    <3> QED
      BY <3>1, <3>3
  <2>2. PICK n \in 1 .. MaxLen :
            /\ \A p \in 1 .. MaxLen : p > n => rx[p] = NUL
            /\ \A p \in 1 .. n : left - n + p >= 1 => work[left - n + p] = rx[p]
    BY <1>2, <1>3 DEF ApOrder, Mirrors
  <2>3. PICK s \in Seq(Byte) : s = work \o down
    BY <1>1, Joined
  <2>4. PICK r \in Seq(Byte) : r = w \o down
    BY <1>1, Joined
  <2>5. /\ Len(s) = left + Len(down) /\ \A i \in 1 .. left : s[i] = work[i]
        /\ \A i \in 1 .. Len(down) : s[left + i] = down[i]
    BY <1>1, <1>2, <2>3, Joined
  <2>6. /\ Len(r) = left + Len(down) /\ \A i \in 1 .. left : r[i] = w[i]
        /\ \A i \in 1 .. Len(down) : r[left + i] = down[i]
    <3>1. /\ Len(r) = Len(w) + Len(down) /\ \A i \in 1 .. Len(w) : r[i] = w[i]
          /\ \A i \in 1 .. Len(down) : r[Len(w) + i] = down[i]
      BY <1>1, <2>4, Joined
    <3> QED
      BY <2>1, <3>1
  <2>7. PICK q \in [1 .. Len(r) -> Int] :
            \A i \in 1 .. Len(r) : q[i] = IF i <= left THEN (MaxLen - n) + i ELSE i
    <3>1. [i \in 1 .. Len(r) |-> IF i <= left THEN (MaxLen - n) + i ELSE i] \in [1 .. Len(r) -> Int]
      BY <1>1
    <3> QED
      BY <3>1
  <2>8. ASSUME NEW i \in 1 .. left, IsFirst(r[i])
        PROVE  (MaxLen - n) + i \in 1 .. left /\ r[i] = s[(MaxLen - n) + i]
    <3>1. PICK p \in 1 .. MaxLen : p = (MaxLen - left) + i /\ r[i] = rx[p]
      <4>1. (MaxLen - left) + i \in 1 .. MaxLen
        BY <1>1, <1>5
      <4> QED
        BY <2>1, <2>6, <4>1
    <3>2. p <= n
      BY <1>1, <2>2, <2>8, <3>1, NulByte DEF IsFirst
    <3>3. /\ p \in 1 .. n /\ left - n + p = (MaxLen - n) + i /\ left - n + p >= 1
          /\ (MaxLen - n) + i \in 1 .. left
      BY <1>1, <1>5, <3>1, <3>2
    <3>4. work[left - n + p] = rx[p]
      BY <2>2, <3>3
    <3>5. s[(MaxLen - n) + i] = work[(MaxLen - n) + i]
      BY <2>5, <3>3
    <3> QED
      BY <3>1, <3>3, <3>4, <3>5
  <2>9. ASSUME NEW i \in 1 .. Len(r), IsFirst(r[i])
        PROVE  q[i] \in 1 .. Len(s) /\ r[i] = s[q[i]] /\ (i <= left => q[i] <= left)
    <3>1. CASE i <= left
      <4>1. q[i] = (MaxLen - n) + i /\ i \in 1 .. left
        BY <2>7, <3>1
      <4>2. q[i] \in 1 .. left /\ r[i] = s[q[i]]
        BY <2>8, <2>9, <4>1
      <4> QED
        BY <1>1, <2>5, <4>2
    <3>2. CASE i > left
      <4>1. PICK j \in 1 .. Len(down) : i = left + j
        <5>1. i - left \in 1 .. Len(down) /\ i = left + (i - left)
          BY <1>1, <2>6, <3>2
        <5> QED
          BY <5>1
      <4>2. q[i] = i
        BY <2>7, <3>2
      <4> QED
        BY <1>1, <2>5, <2>6, <3>2, <4>1, <4>2
    <3> QED
      BY <3>1, <3>2
  <2>10. ASSUME NEW i \in 1 .. Len(r), NEW j \in 1 .. Len(r), i < j, IsFirst(r[i]) PROVE q[i] < q[j]
    <3>1. CASE i <= left /\ j <= left
      BY <1>1, <2>7, <2>10, <3>1
    <3>2. CASE j > left
      BY <2>7, <2>9, <2>10, <3>2
    <3> QED
      BY <2>10, <3>1, <3>2
  <2>11. Firsts(s) /\ Beyond(handled, s)
    BY <2>3 DEF ApOrder
  <2>12. Firsts(r) /\ Beyond(handled, r)
    BY <1>1, <2>9, <2>10, <2>11, FirstsThin
  <2> QED
    BY <1>3, <2>1, <2>4, <2>12 DEF ApOrder
<1> QED
  BY <1>1, <1>4, <1>5

(* A new link: R has met DISABLE. *)
LEMMA LinkedOK ==
    ASSUME NEW t \in Traffic, down' = Bytes(t.down), work' = <<>>, handled' = <<>>,
           rx' \in Seq(Byte), Len(rx') = MaxLen, clean' = TRUE, pc' = "recv"
    PROVE  ApTypes' /\ ApClean' /\ ApOrder'
<1>1. PICK s : s = Bytes(t.down) /\ Cmds(s) /\ (Len(s) > 0 => s[1].m = 1 /\ s[1].k = 1)
  BY DownIsCmds
<1>2. s \in Seq(Byte) /\ down' = s /\ MaxLen \in Nat
  BY <1>1, FramingAssumption DEF Cmds
<1>3. <<>> \o s = s
  BY <1>2
<1>4. Ahead(work' \o down', Len(handled'))
  <2>1. Ahead(s, 0)
    BY <1>1 DEF Ahead
  <2> QED
    BY <1>2, <1>3, <2>1
<1>5. Counted(handled') /\ Begun(work', Len(handled'))
  BY DEF Counted, Begun
<1>6. ApTypes'
  BY <1>2 DEF ApTypes
<1>7. ApOrder'
  <2>1. Firsts(s)
    BY <1>1, DownFirsts
  <2> QED
    BY <1>2, <1>3, <2>1 DEF ApOrder, Upward, Beyond
<1> QED
  BY <1>4, <1>5, <1>6, <1>7 DEF ApClean

(* A new link: R has missed DISABLE and keeps a rest. *)
LEMMA MissedOK ==
    ASSUME ApTypes, NEW t \in Traffic, down' = Bytes(t.down), handled' = <<>>,
           work' = [k \in 1 .. Len(work) |-> [work[k] EXCEPT !.m = 0]],
           UNCHANGED <<rx, pc>>, clean' = FALSE, pc = "recv"
    PROVE  ApTypes' /\ ApClean' /\ ApOrder'
<1>1. PICK s : s = Bytes(t.down) /\ Cmds(s)
  BY DownIsCmds
<1>2. /\ s \in Seq(Byte) /\ down' = s /\ MaxLen \in Nat /\ work \in Seq(Byte) /\ Len(s) \in Nat
      /\ Firsts(s)
  BY <1>1, FramingAssumption, DownFirsts DEF Cmds, ApTypes
<1>3. PICK w \in Seq(Byte) : w = work' /\ Len(w) = Len(work) /\ \A i \in 1 .. Len(w) : w[i].m = 0
  <2>1. ASSUME NEW k \in 1 .. Len(work)
        PROVE  [work[k] EXCEPT !.m = 0] \in Byte /\ [work[k] EXCEPT !.m = 0].m = 0
    <3>1. PICK b \in Byte : b = work[k]
      BY <1>2
    <3>2. [b EXCEPT !.m = 0] \in Byte /\ [b EXCEPT !.m = 0].m = 0
      BY DEF Byte
    <3> QED
      BY <3>1, <3>2
  <2>2. /\ work' \in [1 .. Len(work) -> Byte] /\ \A i \in 1 .. Len(work) : work'[i].m = 0
    BY <2>1
  <2>3. work' \in Seq(Byte) /\ Len(work') = Len(work)
    BY <1>2, <2>2
  <2> QED
    BY <2>2, <2>3
<1>4. PICK r \in Seq(Byte) : r = w \o s
  BY <1>2, Joined
<1>5. /\ Len(r) = Len(w) + Len(s) /\ Len(w) \in Nat /\ \A i \in 1 .. Len(w) : r[i] = w[i]
      /\ \A i \in 1 .. Len(s) : r[Len(w) + i] = s[i]
  BY <1>2, <1>4, Joined
<1>6. Firsts(r)
  <2>1. ASSUME NEW i \in 1 .. Len(r), IsFirst(r[i])
        PROVE  i - Len(w) \in 1 .. Len(s) /\ r[i] = s[i - Len(w)]
    <3>1. i > Len(w)
      <4>1. SUFFICES ASSUME i \in 1 .. Len(w) PROVE FALSE
        BY <1>5
      <4>2. r[i].m = 0
        BY <1>3, <1>5, <4>1
      <4> QED
        BY <2>1, <4>2 DEF IsFirst
    <3>2. PICK j \in 1 .. Len(s) : j = i - Len(w) /\ i = Len(w) + j
      <4>1. i - Len(w) \in 1 .. Len(s) /\ i = Len(w) + (i - Len(w))
        BY <1>2, <1>5, <3>1
      <4> QED
        BY <4>1
    <3> QED
      BY <1>5, <3>2
  <2>2. ASSUME NEW i \in 1 .. Len(r), NEW j \in 1 .. Len(r), i < j, IsFirst(r[i]), IsFirst(r[j])
        PROVE  r[i].m < r[j].m
    <3>1. i - Len(w) < j - Len(w)
      BY <1>5, <2>2
    <3> QED
      BY <1>2, <2>1, <2>2, <3>1 DEF Firsts
  <2> QED
    BY <2>2 DEF Firsts
<1>7. ApOrder'
  BY <1>2, <1>3, <1>4, <1>6 DEF ApOrder, Upward, Beyond
<1>8. ApTypes'
  <2>1. Len(work') <= MaxLen /\ work' \in Seq(Byte)
    BY <1>3 DEF ApTypes
  <2>2. rx' = rx /\ pc' = pc
    OBVIOUS
  <2>3. /\ rx \in Seq(Byte) /\ Len(rx) = MaxLen
        /\ handled' \in Seq(Nat) /\ down' \in Seq(Byte)
    BY <1>2 DEF ApTypes
  <2>4. pc' \in {"recv", "parse", "crashed"} /\ clean' \in BOOLEAN
    BY <2>2
  <2> QED
    BY <2>1, <2>2, <2>3, <2>4 DEF ApTypes
<1> QED
  BY <1>7, <1>8 DEF ApClean

-----------------------------------------------------------------------------
(* The controller.  After j bytes of s, Left is what is still to be read.    *)
Left(s, j) == {s[i] : i \in j + 1 .. Len(s)}

(* A message that the controller cannot lose. *)
Clear(m, d) == m \in 1 .. Len(d) /\ d[m].blanks = {} /\ (m > 1 => d[m - 1].pad = 0)

Parts(kept) ==
    /\ kept \in Seq(Byte)
    /\ \A k \in 1 .. Len(kept) : kept[k].c # "end" /\ (kept[k].k > 0 => kept[k].m > 0)
Rising(out) == out \in Seq(Nat) /\ \A i, j \in 1 .. Len(out) : i < j => out[i] < out[j]
Above(out, n) == \A i \in 1 .. Len(out) : out[i] < n
Fresh(kept, out, A) ==
    \A k \in 1 .. Len(kept) :
        kept[k].m > 0 => /\ Above(out, kept[k].m)
                         /\ \A c \in A : c.c = "end" => kept[k].m <= c.m
Taken(out, A, d) ==
    \A m \in 1 .. Len(d) :
        Clear(m, d) /\ (\A c \in A : c.c = "end" => c.m # m) => \E i \in 1 .. Len(out) : out[i] = m

(* What is kept and what was taken out, when the bytes A are left. *)
Cuts(kept, out, A, d) ==
    /\ Parts(kept) /\ Rising(out)
    /\ \A c \in A : c.m > 0 => Above(out, c.m)
    /\ Fresh(kept, out, A)
    /\ Taken(out, A, d)

(* If the next byte is of a message that cannot be lost, the bytes of the    *)
(* message before it, and only they, are kept.                               *)
Holds(kept, b, d) ==
    Clear(b.m, d) =>
        /\ Len(kept) = b.k - 1
        /\ \A i \in 1 .. Len(kept) : kept[i].k = i /\ kept[i].m = b.m /\ kept[i].len = d[b.m].body

At(kept, out, s, j, d) ==
    Cuts(kept, out, Left(s, j), d) /\ (j < Len(s) => Holds(kept, s[j + 1], d))

(* One byte less is left. *)
LEMMA LeftStep ==
    ASSUME NEW s \in Seq(Byte), NEW j \in Nat, j < Len(s)
    PROVE  /\ Left(s, j) = Left(s, j + 1) \cup {s[j + 1]}
           /\ \A c \in Left(s, j + 1) : \E i \in 1 .. Len(s) : j + 1 < i /\ c = s[i]
<1>1. Len(s) \in Nat
  OBVIOUS
<1>2. \A i : i \in j + 1 .. Len(s) <=> (i = j + 1 \/ i \in (j + 1) + 1 .. Len(s))
  BY <1>1
<1>3. \A i \in (j + 1) + 1 .. Len(s) : j + 1 < i /\ i \in 1 .. Len(s)
  BY <1>1
<1> QED
  BY <1>2, <1>3 DEF Left

(* The bytes b and c are neighbours, or c is further on. *)
LEMMA Neighbours ==
    ASSUME NEW d, NEW s, Suffix(s, d), NEW j \in Nat, j < Len(s)
    PROVE  /\ ByteOf(s[j + 1], d) /\ s[j + 1] \in Byte
           /\ \A c \in Left(s, j + 1) : InOrder(s[j + 1], c) /\ ByteOf(c, d) /\ c \in Byte
           /\ j + 1 < Len(s) => /\ Adjacent(s[j + 1], s[(j + 1) + 1], d)
                                /\ s[(j + 1) + 1] \in Left(s, j + 1)
<1>1. s \in Seq(Byte) /\ Len(s) \in Nat
  BY DEF Suffix
<1>2. j + 1 \in 1 .. Len(s)
  BY <1>1
<1>3. ByteOf(s[j + 1], d) /\ s[j + 1] \in Byte
  BY <1>2 DEF Suffix, ByteOf
<1>4. ASSUME NEW c \in Left(s, j + 1) PROVE InOrder(s[j + 1], c) /\ ByteOf(c, d) /\ c \in Byte
  <2>1. PICK i \in 1 .. Len(s) : j + 1 < i /\ c = s[i]
    BY <1>1, LeftStep
  <2> QED
    BY <1>2, <2>1 DEF Suffix, ByteOf
<1>5. ASSUME j + 1 < Len(s) PROVE Adjacent(s[j + 1], s[(j + 1) + 1], d) /\ s[(j + 1) + 1] \in Left(s, j + 1)
  <2>1. j + 1 \in 1 .. Len(s) - 1 /\ (j + 1) + 1 \in (j + 1) + 1 .. Len(s)
    BY <1>1, <1>5
  <2> QED
    BY <2>1 DEF Suffix, Left
<1> QED
  BY <1>3, <1>4, <1>5

(* The byte b is read, and B is left of A. *)
Takes(A, b, B, d) ==
    /\ A = B \cup {b} /\ ByteOf(b, d) /\ b \in Byte
    /\ \A c \in B : InOrder(b, c) /\ ByteOf(c, d) /\ c \in Byte

LEMMA StepTakes ==
    ASSUME NEW d, NEW s, Suffix(s, d), NEW j \in Nat, j < Len(s)
    PROVE  Takes(Left(s, j), s[j + 1], Left(s, j + 1), d)
<1>1. s \in Seq(Byte)
  BY DEF Suffix
<1> QED
  BY <1>1, LeftStep, Neighbours DEF Takes

LEMMA EndByte ==
    ASSUME NEW d, NEW b, ByteOf(b, d), b.c = "end"
    PROVE  b.m \in 1 .. Len(d) /\ b.len = d[b.m].body /\ b.k = Hdr + b.len + 1
  BY NulByte DEF ByteOf

(* A byte that Trim drops. *)
LEMMA SkipCuts ==
    ASSUME NEW d \in Seq(Messages), NEW A, NEW B, NEW b, Takes(A, b, B, d), b.c \in {"nul", "blank"},
           NEW kept, NEW out, Cuts(kept, out, A, d)
    PROVE  Cuts(kept, out, B, d)
<1>1. B \subseteq A /\ b.c # "end" /\ A = B \cup {b}
  BY DEF Takes
<1>2. Fresh(kept, out, B)
  BY <1>1 DEF Cuts, Fresh
<1>3. Taken(out, B, d)
  <2>1. \A m : (\A c \in B : c.c = "end" => c.m # m) => (\A c \in A : c.c = "end" => c.m # m)
    BY <1>1
  <2> QED
    BY <2>1 DEF Cuts, Taken
<1> QED
  BY <1>1, <1>2, <1>3 DEF Cuts

(* A byte that is put to the piece. *)
LEMMA TextCuts ==
    ASSUME NEW d \in Seq(Messages), NEW A, NEW B, NEW b, Takes(A, b, B, d), b.c # "end",
           NEW kept, NEW out, Cuts(kept, out, A, d),
           NEW more, more = Append(kept, b)
    PROVE  Cuts(more, out, B, d)
<1>1. B \subseteq A /\ A = B \cup {b} /\ b \in Byte /\ b \in A
  BY DEF Takes
<1>2. kept \in Seq(Byte) /\ Len(kept) \in Nat
  BY DEF Cuts, Parts
<1>3. /\ more \in Seq(Byte) /\ Len(more) = Len(kept) + 1
      /\ \A i \in 1 .. Len(kept) : more[i] = kept[i]
      /\ more[Len(kept) + 1] = b
  BY <1>1, <1>2, AppendProperties
<1>4. \A i \in 1 .. Len(more) : i \in 1 .. Len(kept) \/ i = Len(kept) + 1
  BY <1>2, <1>3
<1>5. b.k > 0 => b.m > 0
  <2>1. b = NUL \/ b.m \in 1 .. Len(d)
    BY DEF Takes, ByteOf
  <2> QED
    BY <2>1, NulByte
<1>6. Parts(more)
  BY <1>3, <1>4, <1>5 DEF Cuts, Parts
<1>7. Fresh(more, out, B)
  <2>1. ASSUME b.m > 0, NEW c \in B, c.c = "end" PROVE b.m <= c.m
    <3>1. InOrder(b, c) /\ ByteOf(c, d)
      BY DEF Takes
    <3>2. c.m > 0
      BY <2>1, <3>1, EndByte
    <3> QED
      BY <2>1, <3>1, <3>2 DEF InOrder
  <2>2. b.m > 0 => Above(out, b.m)
    BY <1>1 DEF Cuts
  <2>3. ASSUME NEW i \in 1 .. Len(more), more[i].m > 0
        PROVE  Above(out, more[i].m) /\ \A c \in B : c.c = "end" => more[i].m <= c.m
    <3>1. CASE i \in 1 .. Len(kept)
      BY <1>1, <1>3, <2>3, <3>1 DEF Cuts, Fresh
    <3>2. CASE i = Len(kept) + 1
      BY <1>3, <2>1, <2>2, <2>3, <3>2
    <3> QED
      BY <1>4, <3>1, <3>2
  <2> QED
    BY <2>3 DEF Fresh
<1>8. Taken(out, B, d)
  <2>1. \A m : (\A c \in B : c.c = "end" => c.m # m) => (\A c \in A : c.c = "end" => c.m # m)
    BY <1>1
  <2> QED
    BY <2>1 DEF Cuts, Taken
<1> QED
  BY <1>1, <1>6, <1>7, <1>8 DEF Cuts

(* The delimiter: what is before it is a message, if its length is right. *)
LEMMA EndCuts ==
    ASSUME NEW d \in Seq(Messages), NEW A, NEW B, NEW b, Takes(A, b, B, d), b.c = "end",
           NEW kept, NEW out, Cuts(kept, out, A, d), Holds(kept, b, d),
           NEW more, more = IF CheckLength(kept) THEN Append(out, kept[Hdr].m) ELSE out
    PROVE  Cuts(<<>>, more, B, d)
<1>1. B \subseteq A /\ A = B \cup {b} /\ b \in Byte /\ b \in A
  BY DEF Takes
<1>2. kept \in Seq(Byte) /\ out \in Seq(Nat) /\ Len(out) \in Nat /\ Hdr \in Nat /\ Hdr >= 1
  BY FramingAssumption DEF Cuts, Parts, Rising
<1>3. /\ b.m \in 1 .. Len(d) /\ b.len = d[b.m].body /\ b.k = Hdr + b.len + 1
      /\ b.len \in Nat /\ b.m \in Nat
  BY <1>1, EndByte, ByteFields DEF Takes
<1>4. \A c \in B : c.m \in Nat /\ (c.m > 0 => b.m < c.m)
  <2>1. \A c \in B : InOrder(b, c) /\ c \in Byte
    BY DEF Takes
  <2> QED
    BY <1>3, <2>1, ByteFields DEF InOrder
<1>5. Parts(<<>>) /\ Fresh(<<>>, more, B)
  BY DEF Parts, Fresh
<1>6. CASE ~CheckLength(kept)
  <2>1. more = out
    BY <1>6
  <2>2. Taken(out, B, d)
    <3>1. ~Clear(b.m, d)
      <4> SUFFICES ASSUME Clear(b.m, d) PROVE CheckLength(kept)
        BY <1>6
      <4>1. /\ Len(kept) = Hdr + b.len
            /\ \A i \in 1 .. Len(kept) : kept[i].k = i /\ kept[i].len = b.len
        BY <1>2, <1>3 DEF Holds
      <4>2. Hdr \in 1 .. Len(kept) /\ Len(kept) >= Hdr /\ Len(kept) - Hdr = b.len
        <5>1. PICK l \in Nat : l = b.len
          BY <1>3
        <5>2. Hdr \in 1 .. Hdr + l /\ Hdr + l >= Hdr /\ (Hdr + l) - Hdr = l
          BY <1>2
        <5> QED
          BY <4>1, <5>1, <5>2
      <4> QED
        BY <4>1, <4>2 DEF CheckLength
    <3>2. \A m : m # b.m /\ (\A c \in B : c.c = "end" => c.m # m) => (\A c \in A : c.c = "end" => c.m # m)
      BY <1>1
    <3> QED
      BY <3>1, <3>2 DEF Cuts, Taken
  <2> QED
    BY <1>1, <1>5, <2>1, <2>2 DEF Cuts
<1>7. CASE CheckLength(kept)
  <2>1. Hdr \in 1 .. Len(kept) /\ kept[Hdr].k = Hdr /\ kept[Hdr].len = Len(kept) - Hdr
    BY <1>2, <1>7 DEF CheckLength
  <2>2. PICK x \in Nat : x = kept[Hdr].m
    BY <1>2, <2>1, ByteFields
  <2>3. x > 0 /\ Above(out, x) /\ x <= b.m
    <3>1. x > 0
      BY <1>2, <2>1, <2>2 DEF Cuts, Parts
    <3> QED
      BY <1>1, <2>1, <2>2, <3>1 DEF Cuts, Fresh
  <2>4. /\ more \in Seq(Nat) /\ Len(more) = Len(out) + 1
        /\ \A i \in 1 .. Len(out) : more[i] = out[i]
        /\ more[Len(out) + 1] = x
    <3>1. more = Append(out, x)
      BY <1>7, <2>2
    <3> QED
      BY <1>2, <3>1, AppendProperties
  <2>5. \A i \in 1 .. Len(more) : i \in 1 .. Len(out) \/ i = Len(out) + 1
    BY <1>2, <2>4
  <2>6. Rising(more)
    <3>1. ASSUME NEW i \in 1 .. Len(more), NEW j \in 1 .. Len(more), i < j PROVE more[i] < more[j]
      <4>1. i \in 1 .. Len(out)
        BY <1>2, <2>4, <3>1
      <4>2. CASE j \in 1 .. Len(out)
        BY <2>4, <3>1, <4>1, <4>2 DEF Cuts, Rising
      <4>3. CASE j = Len(out) + 1
        BY <2>3, <2>4, <4>1, <4>3 DEF Above
      <4> QED
        BY <2>5, <4>2, <4>3
    <3> QED
      BY <2>4, <3>1 DEF Rising
  <2>7. ASSUME NEW c \in B, c.m > 0 PROVE Above(more, c.m)
    <3>1. Above(out, c.m)
      BY <1>1, <2>7 DEF Cuts
    <3>2. x < c.m
      BY <1>3, <1>4, <2>3, <2>7
    <3> QED
      BY <2>4, <2>5, <3>1, <3>2 DEF Above
  <2>8. Taken(more, B, d)
    <3>1. ASSUME NEW m \in 1 .. Len(d), Clear(m, d), \A c \in B : c.c = "end" => c.m # m
          PROVE  \E i \in 1 .. Len(more) : more[i] = m
      <4>1. CASE m = b.m
        <5>1. \A i \in 1 .. Len(kept) : kept[i].m = b.m
          BY <3>1, <4>1 DEF Holds
        <5>2. x = m /\ Len(out) + 1 \in 1 .. Len(more)
          BY <1>2, <2>1, <2>2, <2>4, <4>1, <5>1
        <5> QED
          BY <2>4, <5>2
      <4>2. CASE m # b.m
        <5>1. \A c \in A : c.c = "end" => c.m # m
          BY <1>1, <3>1, <4>2
        <5>2. PICK i \in 1 .. Len(out) : out[i] = m
          BY <3>1, <5>1 DEF Cuts, Taken
        <5>3. i \in 1 .. Len(more)
          BY <1>2, <2>4
        <5> QED
          BY <2>4, <5>2, <5>3
      <4> QED
        BY <4>1, <4>2
    <3> QED
      BY <3>1 DEF Taken
  <2> QED
    BY <1>5, <2>6, <2>7, <2>8 DEF Cuts
<1> QED
  BY <1>6, <1>7

-----------------------------------------------------------------------------
(* What is kept when one byte more is read. *)
LEMMA SkipAt ==
    ASSUME NEW d \in Seq(Messages), NEW s, Suffix(s, d), NEW j \in Nat, j < Len(s),
           s[j + 1].c \in {"nul", "blank"}, NEW kept, NEW out, At(kept, out, s, j, d)
    PROVE  At(kept, out, s, j + 1, d)
<1>1. PICK b : b = s[j + 1] /\ Takes(Left(s, j), b, Left(s, j + 1), d)
  BY StepTakes
<1>2. Cuts(kept, out, Left(s, j + 1), d)
  BY <1>1, SkipCuts DEF At
<1>3. ASSUME j + 1 < Len(s) PROVE Holds(kept, s[(j + 1) + 1], d)
  <2>1. PICK c : c = s[(j + 1) + 1] /\ Adjacent(b, c, d) /\ ByteOf(c, d)
    BY <1>1, <1>3, Neighbours
  <2>2. SUFFICES ASSUME Clear(c.m, d) PROVE FALSE
    BY <2>1 DEF Holds
  <2>3. c.m \in 1 .. Len(d) /\ c.k \in Nat /\ c.k >= 1
    <3>1. c.m \in 1 .. Len(d)
      BY <2>2 DEF Clear
    <3>2. c # NUL
      BY <3>1, NulByte
    <3>3. c \in Byte /\ c.k \in 1 .. Hdr + c.len + 1
      BY <2>1, <3>2 DEF ByteOf
    <3> QED
      BY <3>1, <3>3, ByteFields, FramingAssumption
  <2>4. ByteOf(b, d)
    BY <1>1 DEF Takes
  <2>5. CASE c.k > 1
    <3>1. b.m = c.m
      BY <2>1, <2>5 DEF Adjacent
    <3>2. b # NUL
      BY <2>3, <3>1, NulByte
    <3> QED
      BY <1>1, <2>2, <2>4, <3>1, <3>2 DEF ByteOf, Clear
  <2>6. CASE c.k = 1
    BY <1>1, <2>1, <2>2, <2>6 DEF Adjacent, Clear
  <2> QED
    BY <2>3, <2>5, <2>6
<1> QED
  BY <1>2, <1>3 DEF At

LEMMA TextAt ==
    ASSUME NEW d \in Seq(Messages), NEW s, Suffix(s, d), NEW j \in Nat, j < Len(s),
           s[j + 1].c # "end", NEW kept, NEW out, At(kept, out, s, j, d),
           NEW more, more = Append(kept, s[j + 1])
    PROVE  At(more, out, s, j + 1, d)
<1>1. PICK b : b = s[j + 1] /\ Takes(Left(s, j), b, Left(s, j + 1), d)
  BY StepTakes
<1>2. Cuts(more, out, Left(s, j + 1), d)
  <2>1. PICK A, B : A = Left(s, j) /\ B = Left(s, j + 1)
    OBVIOUS
  <2>2. Takes(A, b, B, d) /\ Cuts(kept, out, A, d) /\ b.c # "end" /\ more = Append(kept, b)
    BY <1>1, <2>1 DEF At
  <2>3. Cuts(more, out, B, d)
    BY <2>2, TextCuts
  <2> QED
    BY <2>1, <2>3
<1>3. ASSUME j + 1 < Len(s) PROVE Holds(more, s[(j + 1) + 1], d)
  <2>1. PICK c : c = s[(j + 1) + 1] /\ Adjacent(b, c, d) /\ ByteOf(c, d)
    BY <1>1, <1>3, Neighbours
  <2>2. SUFFICES ASSUME Clear(c.m, d)
                 PROVE  /\ Len(more) = c.k - 1
                        /\ \A i \in 1 .. Len(more) : more[i].k = i /\ more[i].m = c.m
                                                     /\ more[i].len = d[c.m].body
    BY <2>1 DEF Holds
  <2>3. c.m \in 1 .. Len(d) /\ c.k \in Nat /\ c.k >= 1
    <3>1. c.m \in 1 .. Len(d)
      BY <2>2 DEF Clear
    <3>2. c # NUL
      BY <3>1, NulByte
    <3>3. c \in Byte /\ c.k \in 1 .. Hdr + c.len + 1
      BY <2>1, <3>2 DEF ByteOf
    <3> QED
      BY <3>1, <3>3, ByteFields, FramingAssumption
  <2>4. c.k > 1
    BY <1>1, <2>1, <2>2, <2>3 DEF Adjacent, Clear
  <2>5. b.m = c.m /\ b.k = c.k - 1 /\ b \in Byte /\ ByteOf(b, d)
    BY <1>1, <2>1, <2>4 DEF Adjacent, Takes
  <2>6. b.len = d[c.m].body
    <3>1. b # NUL
      BY <2>3, <2>5, NulByte
    <3> QED
      BY <2>5, <3>1 DEF ByteOf
  <2>7. /\ Len(kept) = b.k - 1
        /\ \A i \in 1 .. Len(kept) : kept[i].k = i /\ kept[i].m = c.m /\ kept[i].len = d[c.m].body
    BY <1>1, <2>2, <2>5 DEF At, Holds
  <2>8. kept \in Seq(Byte) /\ Len(kept) \in Nat
    BY DEF At, Cuts, Parts
  <2>9. /\ Len(more) = Len(kept) + 1
        /\ \A i \in 1 .. Len(kept) : more[i] = kept[i]
        /\ more[Len(kept) + 1] = b
    BY <1>1, <2>5, <2>8, AppendProperties
  <2>10. b.k = Len(kept) + 1 /\ c.k - 1 = Len(kept) + 1
    BY <2>3, <2>4, <2>5, <2>7
  <2>11. \A i \in 1 .. Len(more) : i \in 1 .. Len(kept) \/ i = Len(kept) + 1
    BY <2>8, <2>9
  <2> QED
    BY <2>5, <2>6, <2>7, <2>9, <2>10, <2>11
<1> QED
  BY <1>2, <1>3 DEF At

LEMMA EndAt ==
    ASSUME NEW d \in Seq(Messages), NEW s, Suffix(s, d), NEW j \in Nat, j < Len(s),
           s[j + 1].c = "end", NEW kept, NEW out, At(kept, out, s, j, d),
           NEW more, more = IF CheckLength(kept) THEN Append(out, kept[Hdr].m) ELSE out
    PROVE  At(<<>>, more, s, j + 1, d)
<1>1. PICK b : b = s[j + 1] /\ Takes(Left(s, j), b, Left(s, j + 1), d)
  BY StepTakes
<1>2. Cuts(<<>>, more, Left(s, j + 1), d)
  <2>1. PICK A, B : A = Left(s, j) /\ B = Left(s, j + 1)
    OBVIOUS
  <2>2. Takes(A, b, B, d) /\ Cuts(kept, out, A, d) /\ b.c = "end" /\ Holds(kept, b, d)
    BY <1>1, <2>1 DEF At
  <2>3. Cuts(<<>>, more, B, d)
    BY <2>2, EndCuts
  <2> QED
    BY <2>1, <2>3
<1>3. ASSUME j + 1 < Len(s) PROVE Holds(<<>>, s[(j + 1) + 1], d)
  <2>1. PICK c : /\ c = s[(j + 1) + 1] /\ Adjacent(b, c, d) /\ ByteOf(c, d)
                 /\ c \in Left(s, j + 1)
    BY <1>1, <1>3, Neighbours
  <2>2. SUFFICES ASSUME Clear(c.m, d) PROVE c.k = 1
    BY <2>1 DEF Holds
  <2>3. c.m \in 1 .. Len(d) /\ c.k \in Nat /\ c.k >= 1
    <3>1. c.m \in 1 .. Len(d)
      BY <2>2 DEF Clear
    <3>2. c # NUL
      BY <3>1, NulByte
    <3>3. c \in Byte /\ c.k \in 1 .. Hdr + c.len + 1
      BY <2>1, <3>2 DEF ByteOf
    <3> QED
      BY <3>1, <3>3, ByteFields, FramingAssumption
  <2>4. InOrder(b, c) /\ ByteOf(b, d)
    BY <1>1, <2>1 DEF Takes
  <2>5. b.m > 0 /\ b.m \in Nat
    BY <1>1, <2>4, EndByte
  <2>6. b.m < c.m
    BY <1>1, <2>3, <2>4, <2>5 DEF InOrder
  <2>7. ~(c.k > 1)
    BY <2>1, <2>3, <2>5, <2>6 DEF Adjacent
  <2> QED
    BY <2>3, <2>7
<1> QED
  BY <1>2, <1>3 DEF At

-----------------------------------------------------------------------------
(* String.split goes byte by byte. *)
Pieces == [kept : Seq(Byte), valid : Seq(Nat)]
Piece(p, b) ==
    IF b.c # "end" THEN [p EXCEPT !.kept = Append(@, b)]
    ELSE [kept |-> <<>>,
          valid |-> IF CheckLength(p.kept) THEN Append(p.valid, p.kept[Hdr].m) ELSE p.valid]

LEMMA PieceType ==
    ASSUME NEW p \in Pieces, NEW b \in Byte
    PROVE  Piece(p, b) \in Pieces
<1>1. p.kept \in Seq(Byte) /\ p.valid \in Seq(Nat) /\ Hdr \in Nat /\ Hdr >= 1
  BY FramingAssumption DEF Pieces
<1>2. CASE b.c # "end"
  <2>1. Append(p.kept, b) \in Seq(Byte)
    BY <1>1, AppendProperties
  <2> QED
    BY <1>2, <2>1 DEF Piece, Pieces
<1>3. CASE b.c = "end"
  <2>1. ASSUME CheckLength(p.kept) PROVE Append(p.valid, p.kept[Hdr].m) \in Seq(Nat)
    <3>1. Hdr \in 1 .. Len(p.kept)
      BY <1>1, <2>1 DEF CheckLength
    <3>2. p.kept[Hdr].m \in Nat
      BY <1>1, <3>1, ByteFields
    <3> QED
      BY <1>1, <3>2, AppendProperties
  <2>2. <<>> \in Seq(Byte)
    OBVIOUS
  <2> QED
    BY <1>1, <1>3, <2>1, <2>2 DEF Piece, Pieces
<1> QED
  BY <1>2, <1>3

SplitIs(f, piece, s) ==
    /\ f[0] = [kept |-> piece, valid |-> <<>>]
    /\ \A i \in 0 .. Len(s) : f[i] \in Pieces
    /\ \A i \in 1 .. Len(s) : f[i] = Piece(f[i - 1], s[i])

LEMMA SplitValues ==
    ASSUME NEW s \in Seq(Byte), NEW piece \in Seq(Byte)
    PROVE  SplitIs(Split(piece, s), piece, s)
<1> DEFINE S == Pieces
           base == [kept |-> piece, valid |-> <<>>]
           g == [i \in 1 .. Len(s) |-> [p \in S |-> Piece(p, s[i])]]
<1>1. base \in S /\ Len(s) \in Nat
  BY DEF Pieces
<1>2. \A p \in S, i \in 1 .. Len(s) : Piece(p, s[i]) \in S
  BY PieceType
<1> HIDE DEF S, base
<1>3. g \in [1 .. Len(s) -> [S -> S]]
  BY <1>2
<1>4. PICK f : IsLoop(f, Len(s), S, base, g)
  <2> HIDE DEF g
  <2> QED
    BY <1>1, <1>3, LoopExists
<1>5. f \in [0 .. Len(s) -> S] /\ f[0] = base /\ \A i \in 1 .. Len(s) : f[i] = g[i][f[i - 1]]
  BY <1>4 DEF IsLoop
<1>6. \A i \in 0 .. Len(s) : i # 0 => i \in 1 .. Len(s) /\ i - 1 \in 0 .. Len(s)
  BY <1>1
<1>7. \A i \in 1 .. Len(s) : f[i] = Piece(f[i - 1], s[i])
  <2> TAKE i \in 1 .. Len(s)
  <2>1. f[i - 1] \in S
    BY <1>5, <1>6
  <2>2. g[i][f[i - 1]] = Piece(f[i - 1], s[i])
    BY <2>1
  <2> QED
    BY <1>5, <2>2
<1> HIDE DEF g
<1>8. f = [i \in 0 .. Len(s) |-> IF i = 0 THEN base ELSE Piece(f[i - 1], s[i])]
  BY <1>5, <1>6, <1>7
<1> DEFINE F == Split(piece, s)
<1>9. F = [i \in 0 .. Len(s) |-> IF i = 0 THEN base ELSE Piece(F[i - 1], s[i])]
  BY <1>8 DEF Split, Piece, base
<1> HIDE DEF F
<1>10. \A i \in 0 .. Len(s) : F[i] = IF i = 0 THEN base ELSE Piece(F[i - 1], s[i])
  BY <1>9
<1>11. F[0] = base
  BY <1>1, <1>10
<1>12. \A i \in 1 .. Len(s) : F[i] = Piece(F[i - 1], s[i])
  <2> TAKE i \in 1 .. Len(s)
  <2>1. i \in 0 .. Len(s) /\ i # 0
    OBVIOUS
  <2> QED
    BY <1>10, <2>1
<1>13. \A i \in 0 .. Len(s) : F[i] \in S
  <2> DEFINE T == {i \in Nat : i <= Len(s) => F[i] \in S}
  <2>1. 0 \in T
    BY <1>1, <1>11
  <2>2. ASSUME NEW i \in Nat, i \in T PROVE i + 1 \in T
    <3> SUFFICES ASSUME i + 1 <= Len(s) PROVE F[i + 1] \in S
      OBVIOUS
    <3>1. F[i] \in S /\ i + 1 \in 1 .. Len(s) /\ (i + 1) - 1 = i
      BY <1>1, <2>2
    <3> QED
      BY <1>2, <1>12, <3>1
  <2>3. \A i \in Nat : i \in T
    <3> HIDE DEF T
    <3> QED
      BY <2>1, <2>2, SetInduction
  <2> QED
    BY <1>1, <2>3
<1>14. SplitIs(F, piece, s)
  BY <1>11, <1>12, <1>13 DEF SplitIs, S, base
<1> QED
  BY <1>14 DEF F

(* String.trim drops bytes at both ends only. *)
TrimIs(t, s, p) ==
    /\ p \in Nat /\ t \in Seq(Byte) /\ p + Len(t) <= Len(s)
    /\ \A i \in 1 .. Len(t) : t[i] = s[p + i]
    /\ \A i \in 1 .. Len(s) : i <= p \/ i > p + Len(t) => s[i].c \in {"nul", "blank"}

LEMMA HasMin ==
    ASSUME NEW S, S \subseteq Nat, S # {}
    PROVE  Min(S) \in S /\ \A y \in S : Min(S) <= y
<1> DEFINE R == {ss \in Nat \X Nat : ss[1] < ss[2]}
<1>1. PICK x \in S : \A y \in S : ~(<<y, x>> \in R)
  <2>1. IsWellFoundedOn(R, Nat)
    BY LessWellFounded
  <2> HIDE DEF R
  <2> QED
    BY <2>1, WFMin
<1>2. \A y \in S : x <= y
  <2> TAKE y \in S
  <2>1. x \in Nat /\ y \in Nat /\ ~(<<y, x>> \in R)
    BY <1>1
  <2>2. ~(y < x)
    BY <2>1
  <2> QED
    BY <2>1, <2>2
<1> QED
  BY <1>2 DEF Min

LEMMA HasMax ==
    ASSUME NEW n \in Nat, NEW S, S \subseteq 1 .. n, S # {}
    PROVE  Max(S) \in S /\ \A y \in S : Max(S) >= y
<1> DEFINE D == {m \in Nat : \A y \in S : y <= m}
<1>1. n \in D
  OBVIOUS
<1>2. PICK m \in D : \A y \in D : m <= y
  <2>1. D \subseteq Nat /\ D # {}
    BY <1>1
  <2> HIDE DEF D
  <2> QED
    BY <2>1, HasMin
<1>3. m \in S
  <2> SUFFICES ASSUME m \notin S PROVE FALSE
    OBVIOUS
  <2>1. m >= 1
    <3>1. PICK y \in S : y \in 1 .. n
      OBVIOUS
    <3>2. m \in Nat /\ y <= m
      OBVIOUS
    <3> QED
      BY <3>1, <3>2
  <2>2. m - 1 \in D
    BY <2>1
  <2> QED
    BY <1>2, <2>2
<1>4. \A y \in S : m >= y
  OBVIOUS
<1> QED
  BY <1>3, <1>4 DEF Max

LEMMA TrimShape ==
    ASSUME NEW s \in Seq(Byte)
    PROVE  \E p : TrimIs(Trim(s), s, p)
<1> DEFINE I == {i \in 1 .. Len(s) : s[i].c \notin {"nul", "blank"}}
<1>0. Len(s) \in Nat
  OBVIOUS
<1>1. CASE I = {}
  <2>1. Trim(s) = <<>>
    BY <1>1 DEF Trim
  <2>2. \A i \in 1 .. Len(s) : s[i].c \in {"nul", "blank"}
    BY <1>1
  <2>3. TrimIs(<<>>, s, 0)
    BY <1>0, <2>2 DEF TrimIs
  <2> QED
    BY <2>1, <2>3
<1>2. CASE I # {}
  <2>1. I \subseteq Nat /\ I \subseteq 1 .. Len(s)
    OBVIOUS
  <2>2. Trim(s) = SubSeq(s, Min(I), Max(I))
    BY <1>2 DEF Trim
  <2>3. PICK a, z : a = Min(I) /\ z = Max(I)
    OBVIOUS
  <2>4. a \in I /\ z \in I /\ \A y \in I : a <= y /\ y <= z
    <3> HIDE DEF I
    <3>1. a \in I /\ \A y \in I : a <= y
      BY <1>2, <2>1, <2>3, HasMin
    <3>2. z \in I /\ \A y \in I : z >= y
      BY <1>0, <1>2, <2>1, <2>3, HasMax
    <3>3. \A y \in I : y \in Nat
      BY <2>1
    <3> QED
      BY <3>1, <3>2, <3>3
  <2>5. a \in 1 .. Len(s) /\ z \in 1 .. Len(s) /\ a <= z
    BY <2>4
  <2>6. \A i \in 1 .. Len(s) : i < a \/ i > z => s[i].c \in {"nul", "blank"}
    BY <2>4, <2>5
  <2> HIDE DEF I
  <2>7. PICK t : t = SubSeq(s, a, z)
    OBVIOUS
  <2>8. t \in Seq(Byte) /\ Len(t) = (z - a) + 1 /\ \A i \in 1 .. (z - a) + 1 : t[i] = s[(a - 1) + i]
    BY <2>5, <2>7
  <2>9. PICK p \in Nat : p = a - 1
    BY <2>5
  <2>10. p + Len(t) = z
    BY <2>5, <2>8, <2>9
  <2>11. \A i \in 1 .. Len(s) : i <= p => i < a
    BY <2>5, <2>9
  <2>12. TrimIs(t, s, p)
    <3>1. p + Len(t) <= Len(s)
      BY <2>5, <2>10
    <3>2. \A i \in 1 .. Len(t) : t[i] = s[p + i]
      BY <2>8, <2>9
    <3>3. \A i \in 1 .. Len(s) : i <= p \/ i > p + Len(t) => s[i].c \in {"nul", "blank"}
      BY <2>6, <2>10, <2>11
    <3> QED
      BY <2>8, <2>9, <3>1, <3>2, <3>3 DEF TrimIs
  <2> QED
    BY <2>2, <2>3, <2>7, <2>12
<1> QED
  BY <1>1, <1>2

-----------------------------------------------------------------------------
LEMMA AppendMoves ==
    ASSUME NEW s \in Seq(Nat), NEW v \in Seq(Nat), NEW x \in Nat
    PROVE  s \o Append(v, x) = Append(s \o v, x)
<1>1. PICK w \in Seq(Nat) : /\ w = Append(v, x) /\ Len(w) = Len(v) + 1
                            /\ \A i \in 1 .. Len(v) : w[i] = v[i]
                            /\ w[Len(v) + 1] = x
  BY AppendProperties
<1>2. PICK a \in Seq(Nat) : /\ a = s \o v /\ Len(a) = Len(s) + Len(v)
                            /\ \A i \in 1 .. Len(s) + Len(v) :
                                   a[i] = IF i <= Len(s) THEN s[i] ELSE v[i - Len(s)]
  <2>1. /\ s \o v \in Seq(Nat) /\ Len(s \o v) = Len(s) + Len(v)
        /\ \A i \in 1 .. Len(s) + Len(v) : (s \o v)[i] = IF i <= Len(s) THEN s[i] ELSE v[i - Len(s)]
    BY ConcatProperties
  <2> QED
    BY <2>1, Zenon
<1>3. PICK b \in Seq(Nat) : /\ b = s \o w /\ Len(b) = Len(s) + Len(w)
                            /\ \A i \in 1 .. Len(s) + Len(w) :
                                   b[i] = IF i <= Len(s) THEN s[i] ELSE w[i - Len(s)]
  <2>1. /\ s \o w \in Seq(Nat) /\ Len(s \o w) = Len(s) + Len(w)
        /\ \A i \in 1 .. Len(s) + Len(w) : (s \o w)[i] = IF i <= Len(s) THEN s[i] ELSE w[i - Len(s)]
    BY ConcatProperties
  <2> QED
    BY <2>1, Zenon
<1>4. PICK c \in Seq(Nat) : /\ c = Append(a, x) /\ Len(c) = Len(a) + 1
                            /\ \A i \in 1 .. Len(a) : c[i] = a[i]
                            /\ c[Len(a) + 1] = x
  BY AppendProperties
<1>5. PICK l, k \in Nat : l = Len(s) /\ k = Len(v)
  OBVIOUS
<1>6. Len(b) = (l + k) + 1 /\ Len(c) = (l + k) + 1 /\ Len(a) = l + k /\ Len(w) = k + 1
  BY <1>1, <1>2, <1>3, <1>4, <1>5
<1>7. ASSUME NEW i \in 1 .. Len(b) PROVE b[i] = c[i]
  <2>1. i \in 1 .. Len(s) + Len(w)
    BY <1>3
  <2>2. CASE i <= l
    <3>1. i \in 1 .. l + k /\ i <= Len(s)
      BY <1>5, <2>2
    <3> QED
      BY <1>2, <1>3, <1>4, <1>5, <1>6, <2>1, <3>1
  <2>3. CASE i > l /\ i <= l + k
    <3>1. i \in 1 .. l + k /\ ~(i <= l) /\ i - l \in 1 .. k
      BY <2>3
    <3> QED
      BY <1>1, <1>2, <1>3, <1>4, <1>5, <1>6, <2>1, <3>1
  <2>4. CASE i = (l + k) + 1
    <3>1. ~(i <= l) /\ i - l = k + 1
      BY <2>4
    <3> QED
      BY <1>1, <1>3, <1>4, <1>5, <1>6, <2>1, <2>4, <3>1
  <2>5. i \in 1 .. (l + k) + 1
    BY <1>6
  <2> QED
    BY <2>2, <2>3, <2>4, <2>5
<1>8. b = c
  BY <1>6, <1>7, SeqEqual
<1> QED
  BY <1>1, <1>2, <1>3, <1>4, <1>8

(* Trim drops n bytes. *)
LEMMA SkipRun ==
    ASSUME NEW d \in Seq(Messages), NEW s, Suffix(s, d), NEW j \in Nat, NEW n \in Nat,
           j + n <= Len(s), \A i \in 1 .. n : s[j + i].c \in {"nul", "blank"},
           NEW kept, NEW out, At(kept, out, s, j, d)
    PROVE  At(kept, out, s, j + n, d)
<1> DEFINE T == {i \in Nat : i <= n => At(kept, out, s, j + i, d)}
<1>0. Len(s) \in Nat
  BY DEF Suffix
<1>1. 0 \in T
  <2>1. j + 0 = j
    OBVIOUS
  <2> QED
    BY <2>1
<1>2. ASSUME NEW i \in Nat, i \in T PROVE i + 1 \in T
  <2> SUFFICES ASSUME i + 1 <= n PROVE At(kept, out, s, j + (i + 1), d)
    OBVIOUS
  <2>1. i <= n /\ i + 1 \in 1 .. n /\ j + (i + 1) = (j + i) + 1 /\ j + i < Len(s) /\ j + i \in Nat
    BY <1>0
  <2>2. At(kept, out, s, j + i, d) /\ s[(j + i) + 1].c \in {"nul", "blank"}
    BY <1>2, <2>1
  <2>3. PICK h \in Nat : h = j + i
    BY <2>1
  <2>4. At(kept, out, s, h + 1, d)
    BY <2>1, <2>2, <2>3, SkipAt
  <2> QED
    BY <2>1, <2>3, <2>4
<1>3. n \in T
  <2> HIDE DEF T
  <2> QED
    BY <1>1, <1>2, SetInduction
<1> QED
  BY <1>3

(* The bytes t that Trim leaves go through split. *)
LEMMA FeedRun ==
    ASSUME NEW d \in Seq(Messages), NEW s, Suffix(s, d), NEW j \in Nat, NEW t \in Seq(Byte),
           j + Len(t) <= Len(s), \A i \in 1 .. Len(t) : t[i] = s[j + i],
           NEW kept, NEW out \in Seq(Nat), At(kept, out, s, j, d),
           NEW f, SplitIs(f, kept, t)
    PROVE  At(f[Len(t)].kept, out \o f[Len(t)].valid, s, j + Len(t), d)
<1> DEFINE T == {i \in Nat : i <= Len(t) => At(f[i].kept, out \o f[i].valid, s, j + i, d)}
<1>0. Len(s) \in Nat /\ Len(t) \in Nat
  BY DEF Suffix
<1>1. 0 \in T
  <2>1. j + 0 = j /\ f[0].kept = kept /\ f[0].valid = <<>> /\ out \o <<>> = out
    BY DEF SplitIs
  <2> QED
    BY <2>1
<1>2. ASSUME NEW i \in Nat, i \in T PROVE i + 1 \in T
  <2> SUFFICES ASSUME i + 1 <= Len(t)
               PROVE  At(f[i + 1].kept, out \o f[i + 1].valid, s, j + (i + 1), d)
    OBVIOUS
  <2>1. /\ i <= Len(t) /\ i + 1 \in 1 .. Len(t) /\ j + (i + 1) = (j + i) + 1 /\ j + i < Len(s)
        /\ j + i \in Nat /\ (i + 1) - 1 = i /\ i \in 0 .. Len(t)
    BY <1>0
  <2>2. PICK h \in Nat : h = j + i
    BY <2>1
  <2>3. PICK b : b = s[h + 1] /\ b = t[i + 1] /\ b \in Byte
    BY <2>1, <2>2
  <2>4. PICK p \in Pieces : p = f[i] /\ f[i + 1] = Piece(p, b)
    BY <2>1, <2>3 DEF SplitIs
  <2>5. p.kept \in Seq(Byte) /\ p.valid \in Seq(Nat) /\ Hdr \in Nat /\ Hdr >= 1
    BY FramingAssumption DEF Pieces
  <2>6. PICK done \in Seq(Nat) : done = out \o p.valid
    BY <2>5, ConcatProperties
  <2>7. At(p.kept, done, s, h, d) /\ h < Len(s)
    BY <1>2, <2>1, <2>2, <2>4, <2>6
  <2>8. At(f[i + 1].kept, out \o f[i + 1].valid, s, h + 1, d)
    <3>1. CASE b.c # "end"
      <4>1. f[i + 1].kept = Append(p.kept, b) /\ f[i + 1].valid = p.valid
        BY <2>4, <3>1 DEF Piece, Pieces
      <4>2. At(Append(p.kept, b), done, s, h + 1, d)
        BY <2>3, <2>7, <3>1, TextAt
      <4> QED
        BY <2>6, <4>1, <4>2
    <3>2. CASE b.c = "end" /\ CheckLength(p.kept)
      <4>1. f[i + 1].kept = <<>> /\ f[i + 1].valid = Append(p.valid, p.kept[Hdr].m)
        BY <2>4, <3>2 DEF Piece
      <4>2. At(<<>>, Append(done, p.kept[Hdr].m), s, h + 1, d)
        <5>1. PICK k, more : k = p.kept /\ more = Append(done, p.kept[Hdr].m)
          OBVIOUS
        <5>2. /\ At(k, done, s, h, d) /\ s[h + 1].c = "end"
              /\ more = IF CheckLength(k) THEN Append(done, k[Hdr].m) ELSE done
          BY <2>3, <2>7, <3>2, <5>1
        <5>3. At(<<>>, more, s, h + 1, d)
          BY <2>7, <5>2, EndAt
        <5> QED
          BY <5>1, <5>3
      <4>3. p.kept[Hdr].m \in Nat
        <5>1. Hdr \in 1 .. Len(p.kept)
          BY <2>5, <3>2 DEF CheckLength
        <5> QED
          BY <2>5, <5>1, ByteFields
      <4>4. out \o Append(p.valid, p.kept[Hdr].m) = Append(done, p.kept[Hdr].m)
        BY <2>5, <2>6, <4>3, AppendMoves
      <4> QED
        BY <4>1, <4>2, <4>4
    <3>3. CASE b.c = "end" /\ ~CheckLength(p.kept)
      <4>1. f[i + 1].kept = <<>> /\ f[i + 1].valid = p.valid
        BY <2>4, <3>3 DEF Piece
      <4>2. At(<<>>, done, s, h + 1, d)
        <5>1. PICK k : k = p.kept
          OBVIOUS
        <5>2. /\ At(k, done, s, h, d) /\ s[h + 1].c = "end"
              /\ done = IF CheckLength(k) THEN Append(done, k[Hdr].m) ELSE done
          BY <2>3, <2>7, <3>3, <5>1
        <5> QED
          BY <2>7, <5>2, EndAt
      <4> QED
        BY <2>6, <4>1, <4>2
    <3> QED
      BY <3>1, <3>2, <3>3
  <2> QED
    BY <2>1, <2>2, <2>8
<1>3. Len(t) \in T
  <2>1. \A i \in Nat : i \in T
    <3> HIDE DEF T
    <3> QED
      BY <1>1, <1>2, SetInduction
  <2> QED
    BY <1>0, <2>1
<1> QED
  BY <1>0, <1>3

(* The bytes read are gone. *)
LEMMA AtRest ==
    ASSUME NEW d, NEW s, Suffix(s, d), NEW n \in 0 .. Len(s), NEW kept, NEW out,
           At(kept, out, s, n, d), NEW r, r = SubSeq(s, n + 1, Len(s))
    PROVE  At(kept, out, r, 0, d)
<1>1. s \in Seq(Byte) /\ Len(s) \in Nat /\ n \in Nat
  BY DEF Suffix
<1>2. /\ r \in Seq(Byte) /\ Len(r) = Len(s) - n
      /\ \A i \in 1 .. Len(s) - n : r[i] = s[n + i] /\ n + i \in 1 .. Len(s)
  BY <1>1, Rest
<1>3. Left(r, 0) = Left(s, n)
  <2>1. ASSUME NEW i \in 0 + 1 .. Len(r) PROVE r[i] = s[n + i] /\ n + i \in n + 1 .. Len(s)
    BY <1>1, <1>2
  <2>2. ASSUME NEW i \in n + 1 .. Len(s) PROVE s[i] = r[i - n] /\ i - n \in 0 + 1 .. Len(r)
    <3>1. i - n \in 1 .. Len(s) - n /\ n + (i - n) = i /\ i - n \in 0 + 1 .. Len(s) - n
      BY <1>1
    <3> QED
      BY <1>2, <3>1
  <2>3. Left(r, 0) \subseteq Left(s, n)
    BY <2>1 DEF Left
  <2>4. Left(s, n) \subseteq Left(r, 0)
    BY <2>2 DEF Left
  <2> QED
    BY <2>3, <2>4
<1>4. ASSUME 0 < Len(r) PROVE n < Len(s) /\ r[0 + 1] = s[n + 1]
  <2>1. 1 \in 1 .. Len(s) - n /\ n < Len(s) /\ 0 + 1 = 1
    BY <1>1, <1>2, <1>4
  <2> QED
    BY <1>2, <2>1
<1> QED
  BY <1>3, <1>4 DEF At

(* Before the first byte is read. *)
LEMMA AtStart ==
    ASSUME NEW d \in Seq(Messages), NEW s, s = Bytes(d)
    PROVE  Suffix(s, d) /\ At(<<>>, <<>>, s, 0, d)
<1>1. Whole(s, d, Len(d))
  BY BytesWhole
<1>2. Suffix(s, d) /\ s \in Seq(Byte) /\ Len(s) \in Nat
  <2>1. Suffix(s, d)
    BY <1>1 DEF Whole
  <2>2. s \in Seq(Byte)
    BY <2>1 DEF Suffix
  <2> QED
    BY <2>1, <2>2
<1>3. Parts(<<>>) /\ Rising(<<>>) /\ \A n : Above(<<>>, n)
  BY DEF Parts, Rising, Above
<1>4. \A A : Fresh(<<>>, <<>>, A)
  BY DEF Fresh
<1>5. Taken(<<>>, Left(s, 0), d)
  <2>1. ASSUME NEW m \in 1 .. Len(d) PROVE \E c \in Left(s, 0) : c.c = "end" /\ c.m = m
    <3>1. PICK i \in 1 .. Len(s) : s[i].c = "end" /\ s[i].m = m
      BY <1>1 DEF Whole
    <3>2. i \in 0 + 1 .. Len(s)
      OBVIOUS
    <3> QED
      BY <3>1, <3>2 DEF Left
  <2> QED
    BY <2>1 DEF Taken
<1>6. ASSUME 0 < Len(s) PROVE Holds(<<>>, s[0 + 1], d)
  <2>1. 0 + 1 = 1 /\ s[1].k = 1
    BY <1>1, <1>6 DEF Whole
  <2> QED
    BY <2>1 DEF Holds
<1> QED
  BY <1>2, <1>3, <1>4, <1>5, <1>6 DEF At, Cuts

Controller ==
    /\ sent \in Seq(Messages) /\ Suffix(up, sent)
    /\ At(legacy, processed, up, 0, sent)

LEMMA ReadOK ==
    ASSUME Controller, NEW n \in 1 .. Len(up), Read(n)
    PROVE  Controller'
<1>1. sent \in Seq(Messages) /\ Suffix(up, sent) /\ At(legacy, processed, up, 0, sent)
  BY DEF Controller
<1>2. /\ up \in Seq(Byte) /\ Len(up) \in Nat /\ n \in Nat
      /\ legacy \in Seq(Byte) /\ processed \in Seq(Nat)
  BY <1>1 DEF Suffix, At, Cuts, Parts, Rising
<1>3. PICK chunk \in Seq(Byte) : /\ chunk = SubSeq(up, 1, n) /\ Len(chunk) = n
                                 /\ \A i \in 1 .. n : chunk[i] = up[i]
  <2>1. /\ SubSeq(up, 1, n) \in Seq(Byte) /\ Len(SubSeq(up, 1, n)) = n
        /\ \A i \in 1 .. n : SubSeq(up, 1, n)[i] = up[i]
    BY <1>2
  <2> QED
    BY <2>1, Zenon
<1>4. PICK t : t = Trim(chunk)
  OBVIOUS
<1>5. PICK p : TrimIs(t, chunk, p)
  BY <1>4, TrimShape
<1>6. p \in Nat /\ t \in Seq(Byte) /\ Len(t) \in Nat /\ p + Len(t) <= n
  BY <1>3, <1>5 DEF TrimIs
<1>7. \A i \in 1 .. Len(t) : t[i] = up[p + i]
  <2> TAKE i \in 1 .. Len(t)
  <2>1. p + i \in 1 .. n
    BY <1>2, <1>6
  <2>2. t[i] = chunk[p + i]
    BY <1>5 DEF TrimIs
  <2> QED
    BY <1>3, <2>1, <2>2
<1>8. \A i \in 1 .. n : i <= p \/ i > p + Len(t) => up[i].c \in {"nul", "blank"}
  BY <1>3, <1>5 DEF TrimIs
<1>9. At(legacy, processed, up, p, sent)
  <2>1. 0 + p = p /\ 0 + p <= Len(up)
    BY <1>2, <1>6
  <2>2. \A i \in 1 .. p : up[0 + i].c \in {"nul", "blank"}
    <3> TAKE i \in 1 .. p
    <3>1. i \in 1 .. n /\ i <= p /\ 0 + i = i
      BY <1>2, <1>6
    <3> QED
      BY <1>8, <3>1
  <2>3. At(legacy, processed, up, 0 + p, sent)
    BY <1>1, <1>6, <2>1, <2>2, SkipRun
  <2> QED
    BY <2>1, <2>3
<1>10. PICK f : f = Split(legacy, t) /\ SplitIs(f, legacy, t)
  BY <1>2, <1>6, SplitValues
<1>11. PICK kept, out : kept = f[Len(t)].kept /\ out = processed \o f[Len(t)].valid
  OBVIOUS
<1>12. At(kept, out, up, p + Len(t), sent)
  <2>1. p + Len(t) <= Len(up)
    BY <1>2, <1>6
  <2> QED
    BY <1>1, <1>2, <1>6, <1>7, <1>9, <1>10, <1>11, <2>1, FeedRun
<1>13. At(kept, out, up, n, sent)
  <2>1. PICK j \in Nat, k \in Nat : j = p + Len(t) /\ k = n - j /\ j + k = n /\ j + k <= Len(up)
    <3>1. p + Len(t) \in Nat /\ n - (p + Len(t)) \in Nat /\ (p + Len(t)) + (n - (p + Len(t))) = n
      BY <1>2, <1>6
    <3> QED
      BY <1>2, <3>1
  <2>2. \A i \in 1 .. k : up[j + i].c \in {"nul", "blank"}
    <3> TAKE i \in 1 .. k
    <3>1. j + i \in 1 .. n /\ j + i > j
      <4>1. \A x \in 1 .. k : j + x \in 1 .. j + k /\ j + x > j
        OBVIOUS
      <4> QED
        BY <2>1, <4>1
    <3> QED
      BY <1>8, <2>1, <3>1
  <2>3. At(kept, out, up, j + k, sent)
    BY <1>1, <1>12, <2>1, <2>2, SkipRun
  <2> QED
    BY <2>1, <2>3
<1>14. /\ up' = SubSeq(up, n + 1, Len(up)) /\ legacy' = kept /\ processed' = out
       /\ sent' = sent
  BY <1>3, <1>4, <1>10, <1>11 DEF Read
<1>15. n \in 0 .. Len(up)
  OBVIOUS
<1>16. PICK r : r = SubSeq(up, n + 1, Len(up))
  OBVIOUS
<1>17. Suffix(r, sent) /\ At(kept, out, r, 0, sent)
  BY <1>1, <1>13, <1>15, <1>16, SuffixRest, AtRest
<1> QED
  BY <1>1, <1>14, <1>16, <1>17 DEF Controller

-----------------------------------------------------------------------------
(* The inductive invariant. *)
IInv == ApTypes /\ ApClean /\ ApOrder /\ Controller /\ links \in 1 .. MaxLinks

LEMMA InitOK == Init => IInv
<1> SUFFICES ASSUME Init PROVE IInv
  OBVIOUS
<1>1. PICK t \in Traffic : down = Bytes(t.down) /\ up = Bytes(t.up) /\ sent = t.up
  BY DEF Init
<1>2. /\ work = <<>> /\ handled = <<>> /\ clean = TRUE /\ legacy = <<>> /\ processed = <<>>
      /\ rx = [k \in 1 .. MaxLen |-> NUL] /\ pc = "recv" /\ links = 1
  BY DEF Init
<1>3. MaxLen \in Nat /\ MaxLinks \in Nat /\ MaxLinks # 0 /\ t.up \in Seq(Messages)
  BY FramingAssumption
<1>4. Cmds(down) /\ (Len(down) > 0 => down[1].m = 1 /\ down[1].k = 1)
  BY <1>1, DownIsCmds
<1>5. down \in Seq(Byte) /\ <<>> \o down = down
  BY <1>4 DEF Cmds
<1>6. rx \in Seq(Byte) /\ Len(rx) = MaxLen
  BY <1>2, <1>3, NulByte
<1>7. ApTypes
  BY <1>2, <1>3, <1>5, <1>6 DEF ApTypes
<1>8. ApClean
  <2>1. Ahead(work \o down, Len(handled))
    <3>1. Ahead(down, 0)
      BY <1>4 DEF Ahead
    <3> QED
      BY <1>2, <1>5, <3>1
  <2>2. Counted(handled) /\ Begun(work, Len(handled))
    BY <1>2 DEF Counted, Begun
  <2> QED
    BY <1>2, <2>1, <2>2 DEF ApClean
<1>9. Controller /\ ApOrder
  <2>1. Controller
    BY <1>1, <1>2, <1>3, AtStart DEF Controller
  <2>2. ApOrder
    BY <1>1, <1>2, <1>5, DownFirsts DEF ApOrder, Upward, Beyond
  <2> QED
    BY <2>1, <2>2
<1>10. links \in 1 .. MaxLinks
  BY <1>2, <1>3
<1> QED
  BY <1>7, <1>8, <1>9, <1>10 DEF IInv

LEMMA StepOK == IInv /\ [Next]_vars => IInv'
<1> SUFFICES ASSUME IInv, [Next]_vars PROVE IInv'
  OBVIOUS
<1>0. /\ ApTypes /\ ApClean /\ ApOrder /\ Controller /\ links \in 1 .. MaxLinks
  BY DEF IInv
<1>1. ASSUME NEW n \in 1 .. MaxLen, n <= Len(down), Recv(n) PROVE IInv'
  <2>1. UNCHANGED <<sent, up, legacy, processed, links>>
    BY <1>1 DEF Recv
  <2>2. Controller'
    BY <1>0, <2>1 DEF Controller
  <2> QED
    BY <1>0, <1>1, <2>1, <2>2, RecvOK, RecvOrder DEF IInv
<1>2. CASE Parse
  <2>1. UNCHANGED <<sent, up, legacy, processed, links>>
    BY <1>2 DEF Parse
  <2>2. Controller'
    BY <1>0, <2>1 DEF Controller
  <2> QED
    BY <1>0, <1>2, <2>1, <2>2, ParseOK, ParseOrder DEF IInv
<1>3. CASE Keep
  <2>1. UNCHANGED <<sent, up, legacy, processed, links>>
    BY <1>3 DEF Keep
  <2>2. Controller'
    BY <1>0, <2>1 DEF Controller
  <2> QED
    BY <1>0, <1>3, <2>1, <2>2, KeepOK, KeepOrder DEF IInv
<1>4. ASSUME NEW n \in 1 .. Len(up), Read(n) PROVE IInv'
  <2>1. UNCHANGED <<down, rx, work, pc, handled, clean, links>>
    BY <1>4 DEF Read
  <2>2. ApTypes'
    BY <1>0, <2>1 DEF ApTypes
  <2>3. ApClean' /\ ApOrder'
    BY <1>0, <2>1 DEF ApClean, ApOrder
  <2>4. Controller'
    BY <1>0, <1>4, ReadOK
  <2> QED
    BY <1>0, <2>1, <2>2, <2>3, <2>4 DEF IInv
<1>5. ASSUME NewLink, Relink \/ RelinkMissed PROVE IInv'
  <2>1. PICK t \in Traffic : down' = Bytes(t.down) /\ up' = Bytes(t.up) /\ sent' = t.up
    BY <1>5 DEF NewLink
  <2>2. /\ handled' = <<>> /\ legacy' = <<>> /\ processed' = <<>>
        /\ links < MaxLinks /\ links' = links + 1 /\ rx' = rx /\ pc = "recv" /\ pc' = pc
    BY <1>5 DEF NewLink
  <2>3. MaxLinks \in Nat /\ t.up \in Seq(Messages)
    BY FramingAssumption
  <2>4. rx' \in Seq(Byte) /\ Len(rx') = MaxLen
    BY <1>0, <2>2 DEF ApTypes
  <2>5. ApTypes' /\ ApClean' /\ ApOrder'
    <3>1. CASE work' = <<>> /\ clean' = TRUE
      BY <2>1, <2>2, <2>4, <3>1, LinkedOK
    <3>2. CASE /\ work' = [k \in 1 .. Len(work) |-> [work[k] EXCEPT !.m = 0]]
               /\ clean' = FALSE
      BY <1>0, <2>1, <2>2, <3>2, MissedOK
    <3>3. work = <<>> => [k \in 1 .. Len(work) |-> [work[k] EXCEPT !.m = 0]] = <<>>
      OBVIOUS
    <3>4. CASE Relink
      BY <3>1, <3>4 DEF Relink
    <3>5. CASE RelinkMissed /\ work = <<>>
      BY <3>1, <3>3, <3>5 DEF RelinkMissed
    <3>6. CASE RelinkMissed /\ work # <<>>
      BY <3>2, <3>6 DEF RelinkMissed
    <3> QED
      BY <1>5, <3>4, <3>5, <3>6
  <2>6. PICK s : s = Bytes(t.up)
    OBVIOUS
  <2>7. Suffix(s, t.up) /\ At(<<>>, <<>>, s, 0, t.up)
    BY <2>3, <2>6, AtStart
  <2>8. Controller'
    BY <2>1, <2>2, <2>3, <2>6, <2>7 DEF Controller
  <2>9. links' \in 1 .. MaxLinks
    BY <1>0, <2>2, <2>3
  <2> QED
    BY <2>5, <2>8, <2>9 DEF IInv
<1>6. CASE UNCHANGED vars
  <2>1. UNCHANGED <<down, rx, work, pc, handled, clean, up, sent, legacy, processed, links>>
    BY <1>6 DEF vars
  <2>2. ApTypes'
    BY <1>0, <2>1 DEF ApTypes
  <2>3. ApClean' /\ ApOrder'
    BY <1>0, <2>1 DEF ApClean, ApOrder
  <2>4. Controller'
    BY <1>0, <2>1 DEF Controller
  <2> QED
    BY <1>0, <2>1, <2>2, <2>3, <2>4 DEF IInv
<1> QED
  BY <1>1, <1>2, <1>3, <1>4, <1>5, <1>6 DEF Next, Relink, RelinkMissed

LEMMA FramingInductive == Spec => []IInv
  BY InitOK, StepOK, PTL DEF Spec

(* What the AP keeps fits in the lower half of its buffer, and the          *)
(* controller keeps no delimiter, whatever is sent and however it is read.  *)
THEOREM FramingTypeOK == Spec => []TypeOK
<1>1. IInv => TypeOK
  <2> SUFFICES ASSUME IInv PROVE TypeOK
    OBVIOUS
  <2>1. /\ down \in Seq(Byte) /\ up \in Seq(Byte) /\ rx \in Seq(Byte) /\ work \in Seq(Byte)
        /\ Parts(legacy)
    BY DEF IInv, ApTypes, Controller, Suffix, At, Cuts
  <2>2. legacy \in Seq(Byte) /\ \A i \in 1 .. Len(legacy) : legacy[i].c # "end"
    BY <2>1 DEF Parts
  <2>3. \A s \in {down, up, rx, work, legacy} : \A i \in 1 .. Len(s) : s[i] \in Byte
    <3>1. \A s \in Seq(Byte) : \A i \in 1 .. Len(s) : s[i] \in Byte
      OBVIOUS
    <3> QED
      BY <2>1, <2>2, <3>1
  <2> QED
    BY <2>2, <2>3 DEF TypeOK, IInv, ApTypes
<1> QED
  BY <1>1, FramingInductive, PTL

(* fnii_receive_msg_thread carries out the commands of a link in order and  *)
(* none twice, for commands of any length, wherever the reads are cut and   *)
(* whatever is kept from another link; and it loses none as long as nothing *)
(* was kept and each read ends where it can resume.                         *)
THEOREM FramingCommandsInOrder == Spec => []CommandsInOrder
<1>1. IInv => CommandsInOrder
  BY DEF IInv, ApClean, ApOrder, Upward, Counted, Begun, CommandsInOrder
<1> QED
  BY <1>1, FramingInductive, PTL

(* ListenServer and Worker process reports in order and none twice, and lose *)
(* only those with a blank to trim and those after padding, however the      *)
(* reads fall.                                                               *)
THEOREM FramingReportsInOrder == Spec => []ReportsInOrder
<1>1. IInv => ReportsInOrder
  <2> SUFFICES ASSUME IInv PROVE ReportsInOrder
    OBVIOUS
  <2>1. /\ sent \in Seq(Messages) /\ Rising(processed) /\ Taken(processed, Left(up, 0), sent)
        /\ up \in Seq(Byte)
    BY DEF IInv, Controller, At, Cuts, Suffix
  <2>2. ASSUME NEW i \in Complete, sent[i].blanks = {}, ~(i > 1 /\ sent[i - 1].pad > 0)
        PROVE  \E j \in 1 .. Len(processed) : processed[j] = i
    <3>1. i \in 1 .. Len(sent) /\ \A k \in 1 .. Len(up) : up[k].c = "end" => up[k].m # i
      BY DEF Complete
    <3>2. i > 1 => sent[i - 1].pad = 0
      <4> SUFFICES ASSUME i > 1 PROVE sent[i - 1].pad = 0
        OBVIOUS
      <4>1. i - 1 \in 1 .. Len(sent)
        BY <2>1, <3>1
      <4>2. PICK m \in Messages : m = sent[i - 1]
        BY <2>1, <4>1
      <4>3. m.pad \in Nat
        BY DEF Messages
      <4> QED
        BY <2>2, <4>2, <4>3
    <3>3. Clear(i, sent)
      BY <2>2, <3>1, <3>2 DEF Clear
    <3>4. \A c \in Left(up, 0) : c.c = "end" => c.m # i
      <4>1. 0 + 1 .. Len(up) = 1 .. Len(up)
        OBVIOUS
      <4> QED
        BY <3>1, <4>1 DEF Left
    <3> QED
      BY <2>1, <3>1, <3>3, <3>4 DEF Taken
  <2> QED
    BY <2>1, <2>2 DEF ReportsInOrder, Rising
<1> QED
  BY <1>1, FramingInductive, PTL
==================================================================================
