-------------------------- MODULE CollectClientProofs --------------------------
(***************************************************************************)
(* The hash table of the collector client stays sound and finds what was   *)
(* stored recently, for any keys, hash values, sizes and times, and the    *)
(* hand-over of records between the threads is exclusive.                  *)
(*                                                                         *)
(* The walk of ht_insert_he and the loops of ht_resize are recursive       *)
(* functions.  What they compute is proved by induction, in the form of    *)
(* SetInduction, which speaks of a set and not of a formula.               *)
(***************************************************************************)
EXTENDS CollectClient, FiniteSetTheorems, WellFoundedInduction, TLAPS

LEMMA LessWellFounded == IsWellFoundedOn({ss \in Nat \X Nat : ss[1] < ss[2]}, Nat)
  BY NatLessThanWellFounded, Zenon DEF OpToRel

(* Induction over the natural numbers. *)
LEMMA SetInduction ==
    ASSUME NEW S, 0 \in S, \A n \in Nat : n \in S => n + 1 \in S
    PROVE  \A n \in Nat : n \in S
<1> SUFFICES ASSUME Nat \ S # {} PROVE FALSE
  OBVIOUS
<1> DEFINE R == {ss \in Nat \X Nat : ss[1] < ss[2]}
<1>1. PICK x \in Nat \ S : \A y \in Nat \ S : ~(<<y, x>> \in R)
  <2>1. IsWellFoundedOn(R, Nat)
    BY LessWellFounded
  <2>2. Nat \ S \subseteq Nat
    OBVIOUS
  <2> HIDE DEF R
  <2> QED
    BY <2>1, <2>2, WFMin
<1>2. x # 0 /\ x - 1 \in Nat /\ (x - 1) + 1 = x
  OBVIOUS
<1>3. <<x - 1, x>> \in R
  BY <1>2
<1> QED
  BY <1>1, <1>2, <1>3

(* f is the values of a loop of n turns, the i-th of which applies g[i]; the *)
(* recursive functions of HashTable are loops.                               *)
IsLoop(f, n, S, base, g) ==
    f \in [0 .. n -> S] /\ f[0] = base /\ \A i \in 1 .. n : f[i] = g[i][f[i - 1]]

LEMMA LoopExists ==
    ASSUME NEW S, NEW base \in S, NEW n \in Nat, NEW g \in [1 .. n -> [S -> S]]
    PROVE  \E f : IsLoop(f, n, S, base, g)
<1> DEFINE Upto(m) == \E f \in [0 .. m -> S] : f[0] = base /\ \A i \in 1 .. m : f[i] = g[i][f[i - 1]]
           T == {m \in Nat : m <= n => Upto(m)}
<1>1. 0 \in T
  <2>1. [i \in 0 .. 0 |-> base] \in [0 .. 0 -> S]
    OBVIOUS
  <2>2. Upto(0)
    <3> DEFINE f0 == [i \in 0 .. 0 |-> base]
    <3>1. f0[0] = base /\ \A i \in 1 .. 0 : f0[i] = g[i][f0[i - 1]]
      OBVIOUS
    <3> QED
      BY <2>1, <3>1
  <2> QED
    BY <2>2
<1>2. ASSUME NEW m \in Nat, m \in T PROVE m + 1 \in T
  <2> SUFFICES ASSUME m + 1 <= n PROVE Upto(m + 1)
    OBVIOUS
  <2>1. PICK f \in [0 .. m -> S] : f[0] = base /\ \A i \in 1 .. m : f[i] = g[i][f[i - 1]]
    BY <1>2
  <2> DEFINE h == [i \in 0 .. m + 1 |-> IF i = m + 1 THEN g[m + 1][f[m]] ELSE f[i]]
  <2>2. g[m + 1][f[m]] \in S
    OBVIOUS
  <2>3. h \in [0 .. m + 1 -> S]
    BY <2>2
  <2>4. h[0] = base
    BY <2>1
  <2>5. \A i \in 1 .. m + 1 : h[i] = g[i][h[i - 1]]
    BY <2>1
  <2> QED
    BY <2>3, <2>4, <2>5
<1> HIDE DEF T
<1>3. n \in T
  BY <1>1, <1>2, SetInduction
<1> QED
  BY <1>3 DEF T, IsLoop

-----------------------------------------------------------------------------
(* Types. *)
Entries == [key : Keys, time : Nat]
Tables(n) ==
    [size : {n}, chain : [0 .. n - 1 -> Seq(Entries)], count : Int, collisions : Int,
     broken : BOOLEAN]

Sizes == Nat \ {0}

(* The walk of a chain: what is left of it after each entry. *)
LEMMA KeptValues ==
    ASSUME NEW c \in Seq(Entries), NEW w
    PROVE  /\ Kept(c, w) \in [0 .. Len(c) -> Seq(Entries)]
           /\ Kept(c, w)[0] = <<>>
           /\ \A i \in 1 .. Len(c) :
                 Kept(c, w)[i] = IF Expired(c[i], w) THEN Kept(c, w)[i - 1]
                                 ELSE Append(Kept(c, w)[i - 1], c[i])
<1> DEFINE g == [i \in 1 .. Len(c) |->
                   [s \in Seq(Entries) |-> IF Expired(c[i], w) THEN s ELSE Append(s, c[i])]]
<1>1. g \in [1 .. Len(c) -> [Seq(Entries) -> Seq(Entries)]]
  OBVIOUS
<1>2. Len(c) \in Nat /\ <<>> \in Seq(Entries)
  OBVIOUS
<1>3. PICK f \in [0 .. Len(c) -> Seq(Entries)] :
         f[0] = <<>> /\ \A i \in 1 .. Len(c) : f[i] = g[i][f[i - 1]]
  <2>1. \E f : IsLoop(f, Len(c), Seq(Entries), <<>>, g)
    <3> HIDE DEF g
    <3> QED
      BY <1>1, <1>2, LoopExists
  <2> QED
    BY <2>1 DEF IsLoop
<1>4. \A i \in 0 .. Len(c) : i # 0 => i \in 1 .. Len(c) /\ i - 1 \in 0 .. Len(c)
  OBVIOUS
<1>5. \A i \in 1 .. Len(c) :
         f[i] = IF Expired(c[i], w) THEN f[i - 1] ELSE Append(f[i - 1], c[i])
  <2> TAKE i \in 1 .. Len(c)
  <2>1. f[i - 1] \in Seq(Entries)
    BY <1>4
  <2>2. g[i][f[i - 1]] = IF Expired(c[i], w) THEN f[i - 1] ELSE Append(f[i - 1], c[i])
    BY <2>1
  <2> QED
    BY <1>3, <2>2
<1>6. f = [i \in 0 .. Len(c) |-> IF i = 0 THEN <<>> ELSE IF Expired(c[i], w) THEN f[i - 1]
                                                        ELSE Append(f[i - 1], c[i])]
  BY <1>3, <1>4, <1>5
<1> DEFINE F == Kept(c, w)
<1>7. F = [i \in 0 .. Len(c) |-> IF i = 0 THEN <<>> ELSE IF Expired(c[i], w) THEN F[i - 1]
                                                        ELSE Append(F[i - 1], c[i])]
  BY <1>6 DEF Kept
<1> HIDE DEF F
<1>8. \A i \in 0 .. Len(c) : F[i] = IF i = 0 THEN <<>> ELSE IF Expired(c[i], w) THEN F[i - 1]
                                                        ELSE Append(F[i - 1], c[i])
  BY <1>7
<1>9. F[0] = <<>> /\ \A i \in 1 .. Len(c) : F[i] = IF Expired(c[i], w) THEN F[i - 1]
                                                        ELSE Append(F[i - 1], c[i])
  BY <1>8
<1> DEFINE T == {i \in Nat : i <= Len(c) => F[i] \in Seq(Entries)}
<1>10. 0 \in T
  <2>1. F[0] \in Seq(Entries)
    BY <1>9, <1>2
  <2> QED
    BY <2>1
<1>11. ASSUME NEW i \in Nat, i \in T PROVE i + 1 \in T
  <2> SUFFICES ASSUME i + 1 <= Len(c) PROVE F[i + 1] \in Seq(Entries)
    OBVIOUS
  <2>1. F[i] \in Seq(Entries) /\ i + 1 \in 1 .. Len(c) /\ (i + 1) - 1 = i
    BY <1>11
  <2>2. c[i + 1] \in Entries
    BY <2>1
  <2>3. F[i + 1] = IF Expired(c[i + 1], w) THEN F[i] ELSE Append(F[i], c[i + 1])
    BY <1>9, <2>1
  <2> QED
    BY <2>1, <2>2, <2>3
<1>12. \A i \in Nat : i \in T
  <2> HIDE DEF T
  <2> QED
    BY <1>10, <1>11, SetInduction
<1>13. \A i \in 0 .. Len(c) : F[i] \in Seq(Entries)
  BY <1>12
<1>14. F \in [0 .. Len(c) -> Seq(Entries)]
  BY <1>7, <1>13
<1> QED
  BY <1>9, <1>14 DEF F

(* What the walk keeps is the entries that are not expired, all of them,     *)
(* and no two of them have one key if no two of the chain have.              *)
Distinct(c) == \A i, j \in 1 .. Len(c) : c[i].key = c[j].key => i = j
ComeFrom(s, c, i, w) ==
    \A j \in 1 .. Len(s) : \E h \in 1 .. i : s[j] = c[h] /\ ~Expired(c[h], w)
HasAll(s, c, i, w) ==
    \A h \in 1 .. i : ~Expired(c[h], w) => \E j \in 1 .. Len(s) : s[j] = c[h]

LEMMA KeptStep ==
    ASSUME NEW c \in Seq(Entries), NEW w, NEW s \in Seq(Entries), NEW i \in Nat,
           i + 1 <= Len(c), ComeFrom(s, c, i, w), HasAll(s, c, i, w),
           Distinct(c) => Distinct(s),
           NEW r, Expired(c[i + 1], w) => r = s, ~Expired(c[i + 1], w) => r = Append(s, c[i + 1])
    PROVE  /\ ComeFrom(r, c, i + 1, w)
           /\ HasAll(r, c, i + 1, w)
           /\ (Distinct(c) => Distinct(r))
<1> DEFINE x == c[i + 1]
<1>1. i + 1 \in 1 .. Len(c) /\ x \in Entries
  OBVIOUS
<1>2. CASE Expired(x, w)
  <2>1. r = s
    BY <1>2
  <2>2. ComeFrom(s, c, i + 1, w)
    BY DEF ComeFrom
  <2>3. HasAll(s, c, i + 1, w)
    BY <1>2 DEF HasAll
  <2> QED
    BY <2>1, <2>2, <2>3
<1>3. CASE ~Expired(x, w)
  <2>1. /\ r = Append(s, x) /\ r \in Seq(Entries) /\ Len(r) = Len(s) + 1
        /\ r[Len(s) + 1] = x /\ \A j \in 1 .. Len(s) : r[j] = s[j]
    <3>1. r = Append(s, x)
      BY <1>3
    <3> HIDE DEF x
    <3> QED
      BY <1>1, <3>1
  <2>2. ComeFrom(r, c, i + 1, w)
    <3> SUFFICES ASSUME NEW j \in 1 .. Len(r)
                 PROVE  \E h \in 1 .. i + 1 : r[j] = c[h] /\ ~Expired(c[h], w)
      BY DEF ComeFrom
    <3>1. CASE j \in 1 .. Len(s)
      BY <2>1, <3>1 DEF ComeFrom
    <3>2. CASE j = Len(s) + 1
      BY <1>3, <2>1, <3>2
    <3> QED
      BY <2>1, <3>1, <3>2
  <2>3. HasAll(r, c, i + 1, w)
    <3> SUFFICES ASSUME NEW h \in 1 .. i + 1, ~Expired(c[h], w)
                 PROVE  \E j \in 1 .. Len(r) : r[j] = c[h]
      BY DEF HasAll
    <3>1. CASE h = i + 1
      BY <2>1, <3>1
    <3>2. CASE h \in 1 .. i
      <4>1. PICK j \in 1 .. Len(s) : s[j] = c[h]
        BY <3>2 DEF HasAll
      <4> QED
        BY <2>1, <4>1
    <3> QED
      BY <3>1, <3>2
  <2>4. ASSUME Distinct(c) PROVE Distinct(r)
    <3> SUFFICES ASSUME NEW j1 \in 1 .. Len(r), NEW j2 \in 1 .. Len(r), r[j1].key = r[j2].key
                 PROVE  j1 = j2
      BY DEF Distinct
    <3>1. ASSUME NEW j \in 1 .. Len(s) PROVE s[j].key # x.key
      <4>1. PICK h \in 1 .. i : s[j] = c[h]
        BY DEF ComeFrom
      <4> QED
        BY <1>1, <2>4, <4>1 DEF Distinct
    <3>2. j1 \in 1 .. Len(s) \/ j1 = Len(s) + 1
      BY <2>1
    <3>3. j2 \in 1 .. Len(s) \/ j2 = Len(s) + 1
      BY <2>1
    <3> QED
      BY <2>1, <2>4, <3>1, <3>2, <3>3 DEF Distinct
  <2> QED
    BY <2>2, <2>3, <2>4
<1> QED
  BY <1>2, <1>3

LEMMA LiveOfChain ==
    ASSUME NEW c \in Seq(Entries), NEW w
    PROVE  /\ Live(c, w) \in Seq(Entries)
           /\ ComeFrom(Live(c, w), c, Len(c), w)
           /\ HasAll(Live(c, w), c, Len(c), w)
           /\ Distinct(c) => Distinct(Live(c, w))
<1> DEFINE F == Kept(c, w)
           Good(i) == /\ ComeFrom(F[i], c, i, w) /\ HasAll(F[i], c, i, w)
                      /\ Distinct(c) => Distinct(F[i])
           T == {i \in Nat : i <= Len(c) => Good(i)}
<1>1. /\ F \in [0 .. Len(c) -> Seq(Entries)] /\ F[0] = <<>>
      /\ \A i \in 1 .. Len(c) :
            F[i] = IF Expired(c[i], w) THEN F[i - 1] ELSE Append(F[i - 1], c[i])
  BY KeptValues
<1> HIDE DEF F
<1>2. 0 \in T
  <2>1. Good(0)
    BY <1>1 DEF ComeFrom, HasAll, Distinct
  <2> QED
    BY <2>1
<1>3. ASSUME NEW i \in Nat, i \in T PROVE i + 1 \in T
  <2> SUFFICES ASSUME i + 1 <= Len(c) PROVE Good(i + 1)
    OBVIOUS
  <2>1. Good(i) /\ i \in 0 .. Len(c) /\ i + 1 \in 1 .. Len(c) /\ (i + 1) - 1 = i
    BY <1>3
  <2>2. F[i] \in Seq(Entries)
    BY <1>1, <2>1
  <2>3. F[i + 1] = IF Expired(c[i + 1], w) THEN F[i] ELSE Append(F[i], c[i + 1])
    BY <1>1, <2>1
  <2>4. PICK s \in Seq(Entries) : s = F[i]
    BY <2>2
  <2>5. PICK r : r = F[i + 1]
    OBVIOUS
  <2>6. /\ ComeFrom(s, c, i, w) /\ HasAll(s, c, i, w) /\ (Distinct(c) => Distinct(s))
        /\ Expired(c[i + 1], w) => r = s
        /\ ~Expired(c[i + 1], w) => r = Append(s, c[i + 1])
    BY <2>1, <2>3, <2>4, <2>5
  <2>7. ComeFrom(r, c, i + 1, w) /\ HasAll(r, c, i + 1, w) /\ (Distinct(c) => Distinct(r))
    BY <2>6, KeptStep
  <2> QED
    BY <2>5, <2>7
<1>4. \A i \in Nat : i \in T
  <2> HIDE DEF T
  <2> QED
    BY <1>2, <1>3, SetInduction
<1>5. Len(c) \in Nat /\ Len(c) \in 0 .. Len(c)
  OBVIOUS
<1>6. Good(Len(c)) /\ F[Len(c)] \in Seq(Entries)
  BY <1>1, <1>4, <1>5
<1> QED
  BY <1>6 DEF F, Live

Dead(c, i, w) == {h \in 1 .. i : Expired(c[h], w)}

(* The walk destroys as many entries as the chain loses, so that collisions  *)
(* goes down by no more than that.                                           *)
LEMMA BehindIsFew ==
    ASSUME NEW c \in Seq(Entries), NEW w
    PROVE  /\ Len(Live(c, w)) \in 0 .. Len(c)
           /\ Cardinality(Behind(c, w)) \in 0 .. Len(c) - Len(Live(c, w))
           /\ Live(c, w) = <<>> => Cardinality(Behind(c, w)) = 0
<1> DEFINE F == Kept(c, w)
           Good(i) == IsFiniteSet(Dead(c, i, w)) /\ Cardinality(Dead(c, i, w)) = i - Len(F[i])
           T == {i \in Nat : i <= Len(c) => Good(i)}
<1>1. /\ F \in [0 .. Len(c) -> Seq(Entries)] /\ F[0] = <<>>
      /\ \A i \in 1 .. Len(c) :
            F[i] = IF Expired(c[i], w) THEN F[i - 1] ELSE Append(F[i - 1], c[i])
  BY KeptValues
<1> HIDE DEF F
<1>2. 0 \in T
  <2>1. Dead(c, 0, w) = {} /\ Len(F[0]) = 0
    BY <1>1 DEF Dead
  <2>2. Good(0)
    BY <2>1, FS_EmptySet
  <2> QED
    BY <2>2
<1>3. ASSUME NEW i \in Nat, i \in T PROVE i + 1 \in T
  <2> SUFFICES ASSUME i + 1 <= Len(c) PROVE Good(i + 1)
    <3> HIDE DEF Good
    <3> QED
      OBVIOUS
  <2>0. /\ IsFiniteSet(Dead(c, i, w)) /\ Cardinality(Dead(c, i, w)) = i - Len(F[i])
        /\ Cardinality(Dead(c, i, w)) \in Nat
    BY <1>3, FS_CardinalityType
  <2>1. Good(i) /\ i \in 0 .. Len(c) /\ i + 1 \in 1 .. Len(c) /\ (i + 1) - 1 = i
    BY <1>3
  <2>2. F[i] \in Seq(Entries) /\ Len(F[i]) \in Nat /\ c[i + 1] \in Entries
    <3>1. PICK x \in Seq(Entries) : x = F[i]
      BY <1>1, <2>1
    <3>2. Len(x) \in Nat
      OBVIOUS
    <3>3. c[i + 1] \in Entries
      BY <2>1
    <3> QED
      BY <3>1, <3>2, <3>3
  <2>3. F[i + 1] = IF Expired(c[i + 1], w) THEN F[i] ELSE Append(F[i], c[i + 1])
    BY <1>1, <2>1
  <2>4. CASE Expired(c[i + 1], w)
    <3>1. Dead(c, i + 1, w) = Dead(c, i, w) \cup {i + 1} /\ i + 1 \notin Dead(c, i, w) /\ F[i + 1] = F[i]
      BY <2>3, <2>4 DEF Dead
    <3>2. IsFiniteSet(Dead(c, i + 1, w)) /\ Cardinality(Dead(c, i + 1, w)) = Cardinality(Dead(c, i, w)) + 1
      <4>1. PICK D, x : D = Dead(c, i, w) /\ x = i + 1
        OBVIOUS
      <4>2. IsFiniteSet(D \cup {x}) /\ Cardinality(D \cup {x}) = Cardinality(D) + 1
        BY <2>0, <3>1, <4>1, FS_AddElement
      <4> QED
        BY <3>1, <4>1, <4>2
    <3>3. Len(F[i + 1]) = Len(F[i])
      BY <3>1
    <3>4. Cardinality(Dead(c, i + 1, w)) = (i + 1) - Len(F[i + 1])
      <4>1. \A d, l \in Nat : d = i - l => d + 1 = (i + 1) - l
        OBVIOUS
      <4> QED
        BY <2>0, <2>2, <3>2, <3>3, <4>1
    <3> QED
      BY <3>2, <3>4
  <2>5. CASE ~Expired(c[i + 1], w)
    <3>1. Dead(c, i + 1, w) = Dead(c, i, w)
      BY <2>5 DEF Dead
    <3>2. Len(F[i + 1]) = Len(F[i]) + 1
      BY <2>2, <2>3, <2>5
    <3>4. Cardinality(Dead(c, i + 1, w)) = (i + 1) - Len(F[i + 1])
      <4>1. \A d, l \in Nat : d = i - l => d = (i + 1) - (l + 1)
        OBVIOUS
      <4> QED
        BY <2>0, <2>2, <3>1, <3>2, <4>1
    <3> QED
      BY <2>0, <3>1, <3>4
  <2> QED
    BY <2>4, <2>5
<1>4. \A i \in Nat : i \in T
  <2> HIDE DEF T
  <2> QED
    BY <1>2, <1>3, SetInduction
<1>5. Len(c) \in Nat /\ Len(c) \in 0 .. Len(c) /\ DOMAIN c = 1 .. Len(c)
  OBVIOUS
<1>6. /\ Live(c, w) = F[Len(c)] /\ Live(c, w) \in Seq(Entries) /\ Len(Live(c, w)) \in Nat
  BY <1>1, <1>5 DEF F, Live
<1>7. IsFiniteSet(Dead(c, Len(c), w)) /\ Cardinality(Dead(c, Len(c), w)) = Len(c) - Len(Live(c, w))
  BY <1>4, <1>5, <1>6
<1>8. Behind(c, w) \in SUBSET Dead(c, Len(c), w)
  BY <1>5 DEF Behind, Dead
<1>9. /\ Cardinality(Behind(c, w)) \in Nat
      /\ Cardinality(Behind(c, w)) <= Cardinality(Dead(c, Len(c), w))
      /\ Cardinality(Dead(c, Len(c), w)) \in Nat
  BY <1>7, <1>8, FS_Subset, FS_CardinalityType
<1>10. ASSUME Live(c, w) = <<>> PROVE Cardinality(Behind(c, w)) = 0
  <2>1. HasAll(<<>>, c, Len(c), w)
    BY <1>10, LiveOfChain
  <2>2. ASSUME NEW j \in 1 .. Len(c) PROVE Expired(c[j], w)
    BY <2>1 DEF HasAll
  <2>3. Behind(c, w) = {}
    BY <1>5, <2>2 DEF Behind
  <2> QED
    BY <2>3, FS_EmptySet
<1> QED
  BY <1>5, <1>6, <1>7, <1>9, <1>10

(* Where a key is in a chain. *)
LEMMA PlaceOf ==
    ASSUME NEW c \in Seq(Entries), Distinct(c), NEW k
    PROVE  \/ /\ Place(c, k) = 0
              /\ \A i \in 1 .. Len(c) : c[i].key # k
           \/ /\ Place(c, k) \in 1 .. Len(c)
              /\ c[Place(c, k)].key = k
<1>1. CASE \A i \in 1 .. Len(c) : c[i].key # k
  BY <1>1 DEF Place
<1>2. ASSUME NEW i \in 1 .. Len(c), c[i].key = k
      PROVE  Place(c, k) \in 1 .. Len(c) /\ c[Place(c, k)].key = k
  <2>1. \A j \in 1 .. i - 1 : c[j].key # k
    BY <1>2 DEF Distinct
  <2>2. Place(c, k) = CHOOSE h \in 1 .. Len(c) : c[h].key = k /\ \A j \in 1 .. h - 1 : c[j].key # k
    BY <1>2 DEF Place
  <2> QED
    BY <1>2, <2>1, <2>2
<1> QED
  BY <1>1, <1>2

LEMMA FoundTime ==
    ASSUME NEW c \in Seq(Entries), Distinct(c), NEW i \in 1 .. Len(c)
    PROVE  Place(c, c[i].key) = i
<1>1. Place(c, c[i].key) \in 1 .. Len(c) /\ c[Place(c, c[i].key)].key = c[i].key
  BY PlaceOf
<1> QED
  BY <1>1 DEF Distinct

(* r is the chain s after the entry e has been stored in it. *)
IsStored(r, s, e) ==
    /\ r \in Seq(Entries) /\ Distinct(r)
    /\ Len(r) = Len(s) + (IF Place(s, e.key) = 0 THEN 1 ELSE 0) /\ Len(r) >= 1
    /\ \A j \in 1 .. Len(r) : r[j] = e \/ \E i \in 1 .. Len(s) : r[j] = s[i]
    /\ \E j \in 1 .. Len(r) : r[j] = e
    /\ \A i \in 1 .. Len(s) : s[i].key # e.key => \E j \in 1 .. Len(r) : r[j] = s[i]

LEMMA StoredChain ==
    ASSUME NEW s \in Seq(Entries), Distinct(s), NEW e \in Entries
    PROVE  IsStored(Stored(s, e), s, e)
<1> DEFINE p == Place(s, e.key)
<1>1. CASE p = 0
  <2>1. \A i \in 1 .. Len(s) : s[i].key # e.key
    BY <1>1, PlaceOf
  <2>2. Stored(s, e) = Append(s, e)
    BY <1>1 DEF Stored
  <2>3. PICK r \in Seq(Entries) : r = Append(s, e)
    <3>1. Append(s, e) \in Seq(Entries)
      OBVIOUS
    <3> QED
      BY <3>1, Zenon
  <2>4. Len(r) = Len(s) + 1 /\ r[Len(s) + 1] = e /\ \A j \in 1 .. Len(s) : r[j] = s[j]
    BY <2>3
  <2>5. \A j \in 1 .. Len(r) : j \in 1 .. Len(s) \/ j = Len(s) + 1
    BY <2>4
  <2>6. Distinct(r)
    BY <2>1, <2>4, <2>5 DEF Distinct
  <2> QED
    BY <1>1, <2>2, <2>3, <2>4, <2>5, <2>6 DEF IsStored
<1>2. CASE p # 0
  <2>1. p \in 1 .. Len(s) /\ s[p].key = e.key
    BY <1>2, PlaceOf
  <2>2. Stored(s, e) = [s EXCEPT ![p] = e]
    BY <1>2 DEF Stored
  <2> HIDE DEF p
  <2>3. PICK r \in Seq(Entries) : r = [s EXCEPT ![p] = e]
    <3>1. [s EXCEPT ![p] = e] \in Seq(Entries)
      BY <2>1
    <3> QED
      BY <3>1, Zenon
  <2>4. Len(r) = Len(s) /\ r[p] = e /\ \A j \in 1 .. Len(s) : j # p => r[j] = s[j]
    BY <2>1, <2>3
  <2>5. Distinct(r)
    BY <2>1, <2>4 DEF Distinct
  <2>6. \A i \in 1 .. Len(s) : s[i].key # e.key => i # p
    BY <2>1
  <2> QED
    BY <1>2, <2>1, <2>2, <2>3, <2>4, <2>5, <2>6 DEF p, IsStored
<1> QED
  BY <1>1, <1>2

-----------------------------------------------------------------------------
(* The number of entries of a table, in the bucket b and elsewhere. *)
Here(t, b) == {b} \X (1 .. Len(t.chain[b]))
RearHere(t, b) == {b} \X (2 .. Len(t.chain[b]))
Rest(t, b) == {p \in Places(t) : p[1] # b}
RearRest(t, b) == {p \in Rear(t) : p[1] # b}
RearOf(m) == IF m = 0 THEN 0 ELSE m - 1

LEMMA InPlaces ==
    ASSUME NEW n \in Sizes, NEW t \in Tables(n)
    PROVE  /\ \A p \in Places(t) : /\ p = <<p[1], p[2]>> /\ p[1] \in 0 .. n - 1
                                   /\ p[2] \in 1 .. Len(t.chain[p[1]]) /\ p[2] \in Nat
           /\ \A b \in 0 .. n - 1 : \A i \in 1 .. Len(t.chain[b]) : <<b, i>> \in Places(t)
           /\ \A b \in 0 .. n - 1 : t.chain[b] \in Seq(Entries) /\ Len(t.chain[b]) \in Nat
<1>1. t.size = n /\ t.chain \in [0 .. n - 1 -> Seq(Entries)]
  BY DEF Tables
<1>2. \A b \in 0 .. n - 1 : t.chain[b] \in Seq(Entries) /\ Len(t.chain[b]) \in Nat
  <2> TAKE b \in 0 .. n - 1
  <2>1. t.chain[b] \in Seq(Entries)
    BY <1>1
  <2>2. \A c \in Seq(Entries) : Len(c) \in Nat
    OBVIOUS
  <2> QED
    BY <2>1, <2>2
<1>3. \A p : p \in Places(t) <=> \E b \in 0 .. n - 1 : p \in Here(t, b)
  BY <1>1 DEF Places, Here
<1>4. \A p : p \in Places(t) <=> \E b \in 0 .. n - 1 : \E i \in 1 .. Len(t.chain[b]) : p = <<b, i>>
  BY <1>3 DEF Here
<1>5. ASSUME NEW p \in Places(t)
      PROVE  /\ p = <<p[1], p[2]>> /\ p[1] \in 0 .. n - 1
             /\ p[2] \in 1 .. Len(t.chain[p[1]]) /\ p[2] \in Nat
  <2>1. PICK b \in 0 .. n - 1 : \E i \in 1 .. Len(t.chain[b]) : p = <<b, i>>
    BY <1>4
  <2>2. PICK i \in 1 .. Len(t.chain[b]) : p = <<b, i>>
    BY <2>1
  <2> QED
    BY <1>2, <2>2
<1> QED
  BY <1>2, <1>4, <1>5

LEMMA PlacesSplit ==
    ASSUME NEW n \in Sizes, NEW t \in Tables(n), NEW b \in 0 .. n - 1
    PROVE  /\ Places(t) = Rest(t, b) \cup Here(t, b) /\ Rest(t, b) \cap Here(t, b) = {}
           /\ Rear(t) = RearRest(t, b) \cup RearHere(t, b) /\ RearRest(t, b) \cap RearHere(t, b) = {}
<1>1. Places(t) = Rest(t, b) \cup Here(t, b)
  <2>1. ASSUME NEW p \in Places(t), p \notin Rest(t, b) PROVE p \in Here(t, b)
    BY <2>1, InPlaces DEF Rest, Here
  <2>2. ASSUME NEW p \in Here(t, b) PROVE p \in Places(t)
    BY InPlaces DEF Here
  <2>3. Rest(t, b) \subseteq Places(t)
    BY DEF Rest
  <2> QED
    BY <2>1, <2>2, <2>3
<1>2. Rear(t) = RearRest(t, b) \cup RearHere(t, b)
  <2>1. ASSUME NEW p \in Rear(t), p \notin RearRest(t, b) PROVE p \in RearHere(t, b)
    <3>1. p \in Places(t) /\ p[2] > 1 /\ p[1] = b
      BY <2>1 DEF Rear, RearRest
    <3>2. p = <<b, p[2]>> /\ p[2] \in 1 .. Len(t.chain[b]) /\ Len(t.chain[b]) \in Nat
      BY <3>1, InPlaces
    <3>3. p[2] \in 2 .. Len(t.chain[b])
      BY <3>1, <3>2
    <3> QED
      BY <3>2, <3>3 DEF RearHere
  <2>2. ASSUME NEW p \in RearHere(t, b) PROVE p \in Rear(t)
    <3>1. PICK i \in 2 .. Len(t.chain[b]) : p = <<b, i>>
      BY DEF RearHere
    <3>2. i \in 1 .. Len(t.chain[b]) /\ p[2] > 1
      BY <3>1
    <3>3. p \in Places(t)
      BY <3>1, <3>2, InPlaces
    <3> QED
      BY <3>2, <3>3 DEF Rear
  <2>3. RearRest(t, b) \subseteq Rear(t)
    BY DEF RearRest
  <2> QED
    BY <2>1, <2>2, <2>3
<1>3. Rest(t, b) \cap Here(t, b) = {}
  BY DEF Rest, Here
<1>4. RearRest(t, b) \cap RearHere(t, b) = {}
  BY DEF RearRest, RearHere
<1> QED
  BY <1>1, <1>2, <1>3, <1>4

LEMMA HereCount ==
    ASSUME NEW n \in Sizes, NEW t \in Tables(n), NEW b \in 0 .. n - 1
    PROVE  /\ IsFiniteSet(Here(t, b)) /\ Cardinality(Here(t, b)) = Len(t.chain[b])
           /\ IsFiniteSet(RearHere(t, b)) /\ Cardinality(RearHere(t, b)) = RearOf(Len(t.chain[b]))
<1>1. PICK m \in Nat : m = Len(t.chain[b])
  BY InPlaces
<1>2. IsFiniteSet({b}) /\ Cardinality({b}) = 1
  BY FS_Singleton
<1>3. /\ IsFiniteSet(1 .. m) /\ Cardinality(1 .. m) = m
      /\ IsFiniteSet(2 .. m) /\ Cardinality(2 .. m) = RearOf(m)
  <2>1. Cardinality(1 .. m) = (IF 1 > m THEN 0 ELSE m - 1 + 1) /\ IsFiniteSet(1 .. m)
    BY FS_Interval
  <2>2. Cardinality(2 .. m) = (IF 2 > m THEN 0 ELSE m - 2 + 1) /\ IsFiniteSet(2 .. m)
    BY FS_Interval
  <2> QED
    BY <2>1, <2>2 DEF RearOf
<1>4. RearOf(m) \in Nat
  BY DEF RearOf
<1>5. IsFiniteSet({b} \X (1 .. m)) /\ Cardinality({b} \X (1 .. m)) = m
  <2>1. Cardinality({b} \X (1 .. m)) = 1 * m /\ IsFiniteSet({b} \X (1 .. m))
    <3>1. PICK B, I : B = {b} /\ I = 1 .. m
      OBVIOUS
    <3>2. /\ IsFiniteSet(B) /\ Cardinality(B) = 1
          /\ IsFiniteSet(I) /\ Cardinality(I) = m
      BY <1>2, <1>3, <3>1
    <3>3. IsFiniteSet(B \X I) /\ Cardinality(B \X I) = Cardinality(B) * Cardinality(I)
      BY <3>2, FS_Product
    <3> QED
      BY <3>1, <3>2, <3>3
  <2> QED
    BY <2>1
<1>6. IsFiniteSet({b} \X (2 .. m)) /\ Cardinality({b} \X (2 .. m)) = RearOf(m)
  <2>1. Cardinality({b} \X (2 .. m)) = 1 * RearOf(m) /\ IsFiniteSet({b} \X (2 .. m))
    <3>1. PICK B, I : B = {b} /\ I = 2 .. m
      OBVIOUS
    <3>2. /\ IsFiniteSet(B) /\ Cardinality(B) = 1
          /\ IsFiniteSet(I) /\ Cardinality(I) = RearOf(m)
      BY <1>2, <1>3, <3>1
    <3>3. IsFiniteSet(B \X I) /\ Cardinality(B \X I) = Cardinality(B) * Cardinality(I)
      BY <3>2, FS_Product
    <3> QED
      BY <3>1, <3>2, <3>3
  <2> QED
    BY <1>4, <2>1
<1> QED
  BY <1>1, <1>5, <1>6 DEF Here, RearHere

LEMMA DisjointCount ==
    ASSUME NEW A, NEW B, IsFiniteSet(A), IsFiniteSet(B), A \cap B = {}
    PROVE  /\ IsFiniteSet(A \cup B) /\ Cardinality(A) \in Nat
           /\ Cardinality(A \cup B) = Cardinality(A) + Cardinality(B)
<1>1. Cardinality(A \cap B) = 0
  BY FS_EmptySet
<1>2. Cardinality(A) \in Nat /\ Cardinality(B) \in Nat
  BY FS_CardinalityType
<1>3. IsFiniteSet(A \cup B) /\ Cardinality(A \cup B) = Cardinality(A) + Cardinality(B) - Cardinality(A \cap B)
  BY FS_Union
<1> QED
  BY <1>1, <1>2, <1>3

(* When one chain of a table changes, the entries elsewhere count as before. *)
LEMMA CountOne ==
    ASSUME NEW n \in Sizes, NEW t \in Tables(n), NEW b \in 0 .. n - 1, NEW u \in Tables(n),
           \A a \in 0 .. n - 1 : a # b => u.chain[a] = t.chain[a], IsFiniteSet(Places(t))
    PROVE  /\ IsFiniteSet(Places(u)) /\ Cardinality(Places(t)) \in Nat /\ Cardinality(Rear(t)) \in Nat
           /\ Cardinality(Places(u)) = Cardinality(Places(t)) - Len(t.chain[b]) + Len(u.chain[b])
           /\ Cardinality(Rear(u)) =
                 Cardinality(Rear(t)) - RearOf(Len(t.chain[b])) + RearOf(Len(u.chain[b]))
<1>1. Rest(u, b) = Rest(t, b)
  <2>1. ASSUME NEW p \in Rest(u, b) PROVE p \in Rest(t, b)
    BY InPlaces DEF Rest
  <2>2. ASSUME NEW p \in Rest(t, b) PROVE p \in Rest(u, b)
    BY InPlaces DEF Rest
  <2> QED
    BY <2>1, <2>2
<1>2. RearRest(u, b) = RearRest(t, b)
  <2>1. RearRest(u, b) = {p \in Rest(u, b) : p[2] > 1}
    BY DEF Rear, RearRest, Rest
  <2>2. RearRest(t, b) = {p \in Rest(t, b) : p[2] > 1}
    BY DEF Rear, RearRest, Rest
  <2> QED
    BY <1>1, <2>1, <2>2
<1>3. /\ IsFiniteSet(Rest(t, b)) /\ IsFiniteSet(RearRest(t, b)) /\ IsFiniteSet(Rear(t))
  <2>1. Rest(t, b) \in SUBSET Places(t) /\ RearRest(t, b) \in SUBSET Places(t) /\ Rear(t) \in SUBSET Places(t)
    BY DEF Rest, RearRest, Rear
  <2> QED
    BY <2>1, FS_Subset
<1>4. /\ Cardinality(Places(t)) = Cardinality(Rest(t, b)) + Len(t.chain[b])
      /\ Cardinality(Rear(t)) = Cardinality(RearRest(t, b)) + RearOf(Len(t.chain[b]))
  BY <1>3, PlacesSplit, HereCount, DisjointCount
<1>5. /\ IsFiniteSet(Places(u))
      /\ Cardinality(Places(u)) = Cardinality(Rest(t, b)) + Len(u.chain[b])
      /\ Cardinality(Rear(u)) = Cardinality(RearRest(t, b)) + RearOf(Len(u.chain[b]))
  <2>1. /\ Places(u) = Rest(t, b) \cup Here(u, b) /\ Rest(t, b) \cap Here(u, b) = {}
        /\ Rear(u) = RearRest(t, b) \cup RearHere(u, b) /\ RearRest(t, b) \cap RearHere(u, b) = {}
    BY <1>1, <1>2, PlacesSplit
  <2>2. /\ IsFiniteSet(Here(u, b)) /\ Cardinality(Here(u, b)) = Len(u.chain[b])
        /\ IsFiniteSet(RearHere(u, b)) /\ Cardinality(RearHere(u, b)) = RearOf(Len(u.chain[b]))
    BY HereCount
  <2>3. /\ IsFiniteSet(Places(u))
        /\ Cardinality(Places(u)) = Cardinality(Rest(t, b)) + Cardinality(Here(u, b))
    <3>1. PICK A, B : A = Rest(t, b) /\ B = Here(u, b)
      OBVIOUS
    <3>2. IsFiniteSet(A) /\ IsFiniteSet(B) /\ A \cap B = {} /\ Places(u) = A \cup B
      BY <1>3, <2>1, <2>2, <3>1
    <3>3. IsFiniteSet(A \cup B) /\ Cardinality(A \cup B) = Cardinality(A) + Cardinality(B)
      BY <3>2, DisjointCount
    <3> QED
      BY <3>1, <3>2, <3>3
  <2>4. Cardinality(Rear(u)) = Cardinality(RearRest(t, b)) + Cardinality(RearHere(u, b))
    BY <1>3, <2>1, <2>2, DisjointCount
  <2> QED
    BY <2>2, <2>3, <2>4
<1>6. /\ Cardinality(Rest(t, b)) \in Nat /\ Cardinality(RearRest(t, b)) \in Nat
      /\ Cardinality(Places(t)) \in Nat /\ Cardinality(Rear(t)) \in Nat
      /\ Len(t.chain[b]) \in Nat /\ Len(u.chain[b]) \in Nat
      /\ RearOf(Len(t.chain[b])) \in Nat /\ RearOf(Len(u.chain[b])) \in Nat
  <2>1. Len(t.chain[b]) \in Nat /\ Len(u.chain[b]) \in Nat
    BY InPlaces
  <2>2. \A m \in Nat : RearOf(m) \in Nat
    BY DEF RearOf
  <2>3. RearOf(Len(t.chain[b])) \in Nat /\ RearOf(Len(u.chain[b])) \in Nat
    BY <2>1, <2>2
  <2> QED
    BY <1>3, <2>1, <2>3, FS_CardinalityType
<1>7. \A x, y, z \in Nat : x + z = (x + y) - y + z
  OBVIOUS
<1>8. Cardinality(Places(u)) = Cardinality(Places(t)) - Len(t.chain[b]) + Len(u.chain[b])
  BY <1>4, <1>5, <1>6, <1>7
<1>9. Cardinality(Rear(u)) =
         Cardinality(Rear(t)) - RearOf(Len(t.chain[b])) + RearOf(Len(u.chain[b]))
  BY <1>4, <1>5, <1>6, <1>7
<1> QED
  BY <1>5, <1>6, <1>8, <1>9

-----------------------------------------------------------------------------
(* A sound table, and what it has. *)
InBucket(c, n, b) == \A i \in 1 .. Len(c) : Hash[c[i].key] % n = b
Sound(t, n) ==
    /\ t \in Tables(n)
    /\ IsFiniteSet(Places(t))
    /\ \A b \in 0 .. n - 1 : Distinct(t.chain[b]) /\ InBucket(t.chain[b], n, b)
    /\ t.count = Cardinality(Places(t))
    /\ t.collisions >= Cardinality(Rear(t))

Occurs(x, c) == \E i \in 1 .. Len(c) : c[i] = x
Has(t, x) == Occurs(x, t.chain[ht_index(t, x.key)])

LEMMA IndexType ==
    ASSUME NEW n \in Sizes, NEW t \in Tables(n), NEW k \in Keys
    PROVE  ht_index(t, k) \in 0 .. n - 1 /\ ht_index(t, k) = Hash[k] % n
<1>1. Hash[k] \in Nat /\ n \in Nat /\ n > 0
  BY HashAssumption DEF Sizes
<1>2. t.size = n
  BY DEF Tables
<1>3. Hash[k] % n \in 0 .. n - 1
  BY <1>1
<1> QED
  BY <1>2, <1>3 DEF ht_index

LEMMA TableFields ==
    ASSUME NEW n \in Sizes, NEW t \in Tables(n)
    PROVE  /\ t.size = n /\ t.count \in Int /\ t.collisions \in Int /\ t.broken \in BOOLEAN
           /\ t.chain \in [0 .. n - 1 -> Seq(Entries)]
  BY DEF Tables

(* A step that changes one chain of a sound table leaves it sound. *)
LEMMA OneChain ==
    ASSUME NEW n \in Sizes, NEW t, Sound(t, n), NEW b \in 0 .. n - 1, NEW u \in Tables(n),
           \A a \in 0 .. n - 1 : a # b => u.chain[a] = t.chain[a],
           Distinct(u.chain[b]), InBucket(u.chain[b], n, b),
           u.count = t.count - Len(t.chain[b]) + Len(u.chain[b]),
           u.collisions >= t.collisions - RearOf(Len(t.chain[b])) + RearOf(Len(u.chain[b]))
    PROVE  Sound(u, n)
<1>1. t \in Tables(n) /\ IsFiniteSet(Places(t))
  BY DEF Sound
<1>2. /\ IsFiniteSet(Places(u)) /\ Cardinality(Places(t)) \in Nat /\ Cardinality(Rear(t)) \in Nat
      /\ Cardinality(Places(u)) = Cardinality(Places(t)) - Len(t.chain[b]) + Len(u.chain[b])
      /\ Cardinality(Rear(u)) =
            Cardinality(Rear(t)) - RearOf(Len(t.chain[b])) + RearOf(Len(u.chain[b]))
  BY <1>1, CountOne
<1>3. \A a \in 0 .. n - 1 : Distinct(u.chain[a]) /\ InBucket(u.chain[a], n, a)
  BY DEF Sound
<1>4. u.count = Cardinality(Places(u))
  BY <1>2 DEF Sound
<1>5. u.collisions >= Cardinality(Rear(u))
  <2>1. /\ t.collisions \in Int /\ u.collisions \in Int
        /\ Len(t.chain[b]) \in Nat /\ Len(u.chain[b]) \in Nat
    BY <1>1, TableFields, InPlaces
  <2>2. \A m \in Nat : RearOf(m) \in Nat
    BY DEF RearOf
  <2>3. RearOf(Len(t.chain[b])) \in Nat /\ RearOf(Len(u.chain[b])) \in Nat
    BY <2>1, <2>2
  <2>4. t.collisions >= Cardinality(Rear(t))
    BY DEF Sound
  <2>5. \A x, y, r \in Int : \A p, q \in Nat : x >= r /\ y >= x - p + q => y >= r - p + q
    OBVIOUS
  <2> QED
    BY <1>2, <2>1, <2>3, <2>4, <2>5
<1> QED
  BY <1>2, <1>3, <1>4, <1>5 DEF Sound

(* ht_insert_he, without the resize. *)
LEMMA LinkChain ==
    ASSUME NEW n \in Sizes, NEW t, Sound(t, n), NEW e \in Entries, NEW w,
           NEW b, b = ht_index(t, e.key)
    PROVE  /\ Link(t, e, w) \in Tables(n) /\ b \in 0 .. n - 1
           /\ \A a \in 0 .. n - 1 : a # b => Link(t, e, w).chain[a] = t.chain[a]
           /\ Link(t, e, w).chain[b] = Stored(Live(t.chain[b], w), e)
           /\ Link(t, e, w).count = t.count - Len(t.chain[b]) + Len(Link(t, e, w).chain[b])
           /\ Link(t, e, w).collisions >=
                 t.collisions - RearOf(Len(t.chain[b])) + RearOf(Len(Link(t, e, w).chain[b]))
<1>1. t \in Tables(n) /\ Distinct(t.chain[b]) /\ b \in 0 .. n - 1 /\ e.key \in Keys
  <2>1. t \in Tables(n) /\ e.key \in Keys
    BY DEF Sound, Entries
  <2>2. b \in 0 .. n - 1
    BY <2>1, IndexType
  <2> QED
    BY <2>1, <2>2 DEF Sound
<1>2. /\ t.size = n /\ t.count \in Int /\ t.collisions \in Int /\ t.broken \in BOOLEAN
      /\ t.chain \in [0 .. n - 1 -> Seq(Entries)]
  BY <1>1, TableFields
<1>3. PICK c \in Seq(Entries) : c = t.chain[b]
  BY <1>1, <1>2
<1>4. PICK live : live = Live(c, w)
  OBVIOUS
<1>5. live \in Seq(Entries) /\ Distinct(live)
  BY <1>1, <1>3, <1>4, LiveOfChain
<1>6. PICK s : s = Stored(live, e)
  OBVIOUS
<1>7. s \in Seq(Entries) /\ Len(s) \in Nat /\ Len(s) >= 1 /\ (Len(s) = Len(live) \/ Len(s) = Len(live) + 1)
  <2>1. s \in Seq(Entries) /\ Len(s) >= 1 /\ Len(s) = Len(live) + (IF Place(live, e.key) = 0 THEN 1 ELSE 0)
    BY <1>5, <1>6, StoredChain DEF IsStored
  <2>2. Len(live) \in Nat /\ Len(s) \in Nat
    BY <1>5, <2>1
  <2> QED
    BY <2>1, <2>2
<1>8. PICK k : k = Cardinality(Behind(c, w))
  OBVIOUS
<1>9. /\ Len(c) \in Nat /\ Len(live) \in 0 .. Len(c) /\ k \in 0 .. Len(c) - Len(live)
      /\ live = <<>> => k = 0
  <2>1. Len(c) \in Nat
    OBVIOUS
  <2>2. /\ Len(live) \in 0 .. Len(c) /\ k \in 0 .. Len(c) - Len(live)
        /\ live = <<>> => k = 0
    BY <1>4, <1>8, BehindIsFew
  <2> QED
    BY <2>1, <2>2
<1> DEFINE u == [t EXCEPT !.chain[b] = s,
                          !.count = @ - Len(c) + Len(s),
                          !.collisions = @ - k + (IF live # <<>> THEN Len(s) - Len(live) ELSE 0),
                          !.broken = @ \/ Corrupts(c, e.key, w)]
<1>10. Link(t, e, w) = u
  BY <1>3, <1>4, <1>6, <1>8 DEF Link
<1>11. /\ u.chain = [t.chain EXCEPT ![b] = s]
       /\ u.count = t.count - Len(c) + Len(s)
       /\ u.collisions = t.collisions - k + (IF live # <<>> THEN Len(s) - Len(live) ELSE 0)
  BY <1>1, <1>2 DEF Tables
<1>12. /\ [t.chain EXCEPT ![b] = s] \in [0 .. n - 1 -> Seq(Entries)]
       /\ [t.chain EXCEPT ![b] = s][b] = s
       /\ \A a \in 0 .. n - 1 : a # b => [t.chain EXCEPT ![b] = s][a] = t.chain[a]
  BY <1>1, <1>2, <1>7
<1>13. /\ t.count - Len(c) + Len(s) \in Int
       /\ t.collisions - k + (IF live # <<>> THEN Len(s) - Len(live) ELSE 0) \in Int
       /\ (t.broken \/ Corrupts(c, e.key, w)) \in BOOLEAN
  BY <1>2, <1>7, <1>9
<1>14. u \in Tables(n)
  BY <1>1, <1>12, <1>13 DEF Tables
<1> HIDE DEF u
<1>15. u.collisions >= t.collisions - RearOf(Len(c)) + RearOf(Len(s))
  <2>1. CASE live = <<>>
    <3>1. Len(live) = 0 /\ k = 0
      BY <1>9, <2>1
    <3>2. Len(s) = 1 /\ RearOf(Len(s)) = 0 /\ u.collisions = t.collisions
      BY <1>2, <1>7, <1>11, <2>1, <3>1 DEF RearOf
    <3>3. RearOf(Len(c)) \in Nat
      BY <1>9 DEF RearOf
    <3> QED
      BY <1>2, <3>2, <3>3
  <2>2. CASE live # <<>>
    <3>1. Len(live) # 0
      BY <1>5, <2>2
    <3>2. RearOf(Len(c)) = Len(c) - 1 /\ RearOf(Len(s)) = Len(s) - 1
      BY <1>7, <1>9, <3>1 DEF RearOf
    <3>3. u.collisions = t.collisions - k + (Len(s) - Len(live))
      BY <1>11, <2>2
    <3> QED
      BY <1>2, <1>7, <1>9, <3>2, <3>3
  <2> QED
    BY <2>1, <2>2
<1> QED
  BY <1>1, <1>3, <1>4, <1>6, <1>10, <1>11, <1>12, <1>14, <1>15

LEMMA LinkSound ==
    ASSUME NEW n \in Sizes, NEW t, Sound(t, n), NEW e \in Entries, NEW w
    PROVE  Sound(Link(t, e, w), n)
<1> DEFINE b == ht_index(t, e.key)
           c == t.chain[b]
           u == Link(t, e, w)
<1>1. /\ u \in Tables(n) /\ b \in 0 .. n - 1
      /\ \A a \in 0 .. n - 1 : a # b => u.chain[a] = t.chain[a]
      /\ u.chain[b] = Stored(Live(c, w), e)
      /\ u.count = t.count - Len(c) + Len(u.chain[b])
      /\ u.collisions >= t.collisions - RearOf(Len(c)) + RearOf(Len(u.chain[b]))
  BY LinkChain
<1>2. c \in Seq(Entries) /\ Distinct(c) /\ InBucket(c, n, b) /\ Hash[e.key] % n = b
  <2>1. t \in Tables(n) /\ e.key \in Keys
    BY DEF Sound, Entries
  <2>2. c \in Seq(Entries)
    <3> HIDE DEF b
    <3> QED
      BY <1>1, <2>1, InPlaces
  <2>3. Hash[e.key] % n = b
    BY <2>1, IndexType
  <2>4. Distinct(c) /\ InBucket(c, n, b)
    BY <1>1 DEF Sound
  <2> QED
    BY <2>2, <2>3, <2>4
<1> HIDE DEF b, c, u
<1>3. PICK live \in Seq(Entries) : /\ live = Live(c, w) /\ Distinct(live)
                                   /\ ComeFrom(live, c, Len(c), w)
  BY <1>2, LiveOfChain
<1>4. /\ Distinct(u.chain[b])
      /\ \A j \in 1 .. Len(u.chain[b]) :
            u.chain[b][j] = e \/ \E i \in 1 .. Len(live) : u.chain[b][j] = live[i]
  <2>1. PICK s : s = Stored(live, e) /\ IsStored(s, live, e)
    BY <1>3, StoredChain
  <2>2. /\ Distinct(s)
        /\ \A j \in 1 .. Len(s) : s[j] = e \/ \E i \in 1 .. Len(live) : s[j] = live[i]
    BY <2>1 DEF IsStored
  <2> QED
    BY <1>1, <1>3, <2>1, <2>2
<1>5. \A i \in 1 .. Len(live) : \E h \in 1 .. Len(c) : live[i] = c[h]
  BY <1>3 DEF ComeFrom
<1>6. InBucket(u.chain[b], n, b)
  <2> SUFFICES ASSUME NEW j \in 1 .. Len(u.chain[b]) PROVE Hash[u.chain[b][j].key] % n = b
    BY DEF InBucket
  <2>1. u.chain[b][j] = e \/ \E h \in 1 .. Len(c) : u.chain[b][j] = c[h]
    BY <1>4, <1>5
  <2> QED
    BY <1>2, <2>1 DEF InBucket
<1> QED
  BY <1>1, <1>4, <1>6, OneChain DEF c, u

(* The entry stored is in the table, and so is every other that was there    *)
(* and is not expired.                                                       *)
LEMMA LinkHas ==
    ASSUME NEW n \in Sizes, NEW t, Sound(t, n), NEW e \in Entries, NEW w
    PROVE  /\ Has(Link(t, e, w), e)
           /\ \A x \in Entries : Has(t, x) /\ ~Expired(x, w) /\ x.key # e.key => Has(Link(t, e, w), x)
<1> DEFINE b == ht_index(t, e.key)
           c == t.chain[b]
           u == Link(t, e, w)
<1>1. /\ u \in Tables(n) /\ b \in 0 .. n - 1
      /\ \A a \in 0 .. n - 1 : a # b => u.chain[a] = t.chain[a]
      /\ u.chain[b] = Stored(Live(c, w), e)
  BY LinkChain
<1>2. t \in Tables(n) /\ c \in Seq(Entries) /\ Distinct(c)
  <2>1. t \in Tables(n) /\ Distinct(c)
    BY <1>1 DEF Sound
  <2>2. c \in Seq(Entries)
    <3> HIDE DEF b
    <3> QED
      BY <1>1, <2>1, InPlaces
  <2> QED
    BY <2>1, <2>2
<1>3. \A x \in Entries : ht_index(u, x.key) = ht_index(t, x.key) /\ ht_index(t, x.key) \in 0 .. n - 1
  BY <1>1, <1>2, IndexType DEF Entries
<1> HIDE DEF u
<1>4. PICK live \in Seq(Entries) : /\ live = Live(c, w) /\ Distinct(live)
                                   /\ HasAll(live, c, Len(c), w)
  BY <1>2, LiveOfChain
<1>5. /\ Occurs(e, u.chain[b])
      /\ \A i \in 1 .. Len(live) : live[i].key # e.key => Occurs(live[i], u.chain[b])
  <2>1. PICK s : s = Stored(live, e) /\ IsStored(s, live, e)
    BY <1>4, StoredChain
  <2>2. /\ Occurs(e, s)
        /\ \A i \in 1 .. Len(live) : live[i].key # e.key => Occurs(live[i], s)
    BY <2>1 DEF IsStored, Occurs
  <2> QED
    BY <1>1, <1>4, <2>1, <2>2
<1>6. Has(u, e)
  BY <1>3, <1>5 DEF Has
<1>7. ASSUME NEW x \in Entries, Has(t, x), ~Expired(x, w), x.key # e.key PROVE Has(u, x)
  <2>1. CASE ht_index(t, x.key) = b
    <3>1. PICK h \in 1 .. Len(c) : c[h] = x
      BY <1>7, <2>1 DEF Has, Occurs
    <3>2. PICK i \in 1 .. Len(live) : live[i] = x
      BY <1>4, <1>7, <3>1 DEF HasAll
    <3> QED
      BY <1>3, <1>5, <1>7, <2>1, <3>2 DEF Has
  <2>2. CASE ht_index(t, x.key) # b
    BY <1>1, <1>3, <1>7, <2>2 DEF Has
  <2> QED
    BY <2>1, <2>2
<1> QED
  BY <1>6, <1>7 DEF u

SoundTables(n) == {t \in Tables(n) : Sound(t, n)}

(* The inner loop of ht_resize. *)
LEMMA AgainValues ==
    ASSUME NEW n \in Sizes, NEW u, Sound(u, n), NEW c \in Seq(Entries), NEW w
    PROVE  /\ LinkedAgain(u, c, w)[0] = u
           /\ \A i \in 1 .. Len(c) :
                 LinkedAgain(u, c, w)[i] = Link(LinkedAgain(u, c, w)[i - 1], c[i], w)
<1> DEFINE S == SoundTables(n)
           g == [i \in 1 .. Len(c) |-> [t \in S |-> Link(t, c[i], w)]]
<1>1. ASSUME NEW t \in S, NEW e \in Entries PROVE Link(t, e, w) \in S
  <2>1. Sound(Link(t, e, w), n)
    BY LinkSound DEF SoundTables
  <2> QED
    BY <2>1 DEF SoundTables, Sound
<1>2. \A i \in 1 .. Len(c) : c[i] \in Entries
  OBVIOUS
<1>3. u \in S /\ Len(c) \in Nat
  BY DEF SoundTables, Sound
<1> HIDE DEF S
<1>4. g \in [1 .. Len(c) -> [S -> S]]
  BY <1>1, <1>2
<1>5. PICK f : IsLoop(f, Len(c), S, u, g)
  <2> HIDE DEF g
  <2> QED
    BY <1>3, <1>4, LoopExists
<1>6. f \in [0 .. Len(c) -> S] /\ f[0] = u /\ \A i \in 1 .. Len(c) : f[i] = g[i][f[i - 1]]
  BY <1>5 DEF IsLoop
<1>7. \A i \in 0 .. Len(c) : i # 0 => i \in 1 .. Len(c) /\ i - 1 \in 0 .. Len(c)
  OBVIOUS
<1>8. \A i \in 1 .. Len(c) : f[i] = Link(f[i - 1], c[i], w)
  <2> TAKE i \in 1 .. Len(c)
  <2>1. f[i - 1] \in S
    BY <1>6, <1>7
  <2>2. g[i][f[i - 1]] = Link(f[i - 1], c[i], w)
    BY <2>1
  <2> QED
    BY <1>6, <2>2
<1> HIDE DEF g
<1>9. f = [i \in 0 .. Len(c) |-> IF i = 0 THEN u ELSE Link(f[i - 1], c[i], w)]
  BY <1>6, <1>7, <1>8
<1> DEFINE F == LinkedAgain(u, c, w)
<1>10. F = [i \in 0 .. Len(c) |-> IF i = 0 THEN u ELSE Link(F[i - 1], c[i], w)]
  BY <1>9 DEF LinkedAgain
<1> HIDE DEF F
<1>11. \A i \in 0 .. Len(c) : F[i] = IF i = 0 THEN u ELSE Link(F[i - 1], c[i], w)
  BY <1>10
<1>12. F[0] = u /\ \A i \in 1 .. Len(c) : F[i] = Link(F[i - 1], c[i], w)
  BY <1>11
<1> QED
  BY <1>12 DEF F

(* The entries to be found in u once the first i of the chain c are linked. *)
Reached(x, u, c, i) ==
    \/ \E h \in 1 .. i : x = c[h]
    \/ Has(u, x) /\ \A h \in 1 .. i : x.key # c[h].key
HasReached(v, u, c, i, w) ==
    \A x \in Entries : ~Expired(x, w) /\ Reached(x, u, c, i) => Has(v, x)

LEMMA AgainStep ==
    ASSUME NEW n \in Sizes, NEW u, NEW c \in Seq(Entries), Distinct(c), NEW w, NEW v, NEW i \in Nat,
           i + 1 <= Len(c), Sound(v, n), HasReached(v, u, c, i, w)
    PROVE  Sound(Link(v, c[i + 1], w), n) /\ HasReached(Link(v, c[i + 1], w), u, c, i + 1, w)
<1>1. i + 1 \in 1 .. Len(c) /\ c[i + 1] \in Entries
  OBVIOUS
<1>2. PICK e \in Entries : e = c[i + 1]
  BY <1>1
<1>3. PICK r : r = Link(v, e, w)
  OBVIOUS
<1>4. Sound(r, n)
  BY <1>3, LinkSound
<1>5. Has(r, e) /\ \A x \in Entries : Has(v, x) /\ ~Expired(x, w) /\ x.key # e.key => Has(r, x)
  BY <1>3, LinkHas
<1>6. ASSUME NEW x \in Entries, ~Expired(x, w), Reached(x, u, c, i + 1) PROVE Has(r, x)
  <2>1. CASE x = e
    BY <1>5, <2>1
  <2>2. CASE x # e
    <3>1. Reached(x, u, c, i) /\ x.key # e.key
      <4>1. ASSUME NEW h \in 1 .. i + 1, x = c[h] PROVE h \in 1 .. i /\ x.key # e.key
        <5>1. h \in 1 .. i
          BY <1>2, <2>2, <4>1
        <5> QED
          BY <1>1, <1>2, <4>1, <5>1 DEF Distinct
      <4>2. ASSUME Has(u, x), \A h \in 1 .. i + 1 : x.key # c[h].key
            PROVE  Reached(x, u, c, i) /\ x.key # e.key
        BY <1>2, <4>2 DEF Reached
      <4> QED
        BY <1>6, <4>1, <4>2 DEF Reached
    <3> QED
      BY <1>5, <1>6, <3>1 DEF HasReached
  <2> QED
    BY <2>1, <2>2
<1> QED
  BY <1>2, <1>3, <1>4, <1>6 DEF HasReached

LEMMA AgainHas ==
    ASSUME NEW n \in Sizes, NEW u, Sound(u, n), NEW c \in Seq(Entries), Distinct(c), NEW w
    PROVE  /\ Sound(LinkedAgain(u, c, w)[Len(c)], n)
           /\ HasReached(LinkedAgain(u, c, w)[Len(c)], u, c, Len(c), w)
<1> DEFINE F == LinkedAgain(u, c, w)
           Good(i) == Sound(F[i], n) /\ HasReached(F[i], u, c, i, w)
           T == {i \in Nat : i <= Len(c) => Good(i)}
<1>1. F[0] = u /\ \A i \in 1 .. Len(c) : F[i] = Link(F[i - 1], c[i], w)
  BY AgainValues
<1> HIDE DEF F
<1>2. 0 \in T
  <2>1. HasReached(u, u, c, 0, w)
    BY DEF HasReached, Reached
  <2>2. Good(0)
    BY <1>1, <2>1
  <2> QED
    BY <2>2
<1>3. ASSUME NEW i \in Nat, i \in T PROVE i + 1 \in T
  <2> SUFFICES ASSUME i + 1 <= Len(c) PROVE Good(i + 1)
    OBVIOUS
  <2>1. Good(i) /\ i + 1 \in 1 .. Len(c) /\ (i + 1) - 1 = i
    BY <1>3
  <2>2. F[i + 1] = Link(F[i], c[i + 1], w)
    BY <1>1, <2>1
  <2>3. PICK v : v = F[i]
    OBVIOUS
  <2>4. Sound(Link(v, c[i + 1], w), n) /\ HasReached(Link(v, c[i + 1], w), u, c, i + 1, w)
    BY <2>1, <2>3, AgainStep
  <2> QED
    BY <2>2, <2>3, <2>4
<1>4. \A i \in Nat : i \in T
  <2> HIDE DEF T
  <2> QED
    BY <1>2, <1>3, SetInduction
<1>5. Len(c) \in Nat
  OBVIOUS
<1>6. Good(Len(c))
  BY <1>4, <1>5
<1> QED
  BY <1>6 DEF F

LEMMA InitSound ==
    ASSUME NEW n \in Sizes
    PROVE  Sound(ht_init(n), n)
<1> DEFINE t == ht_init(n)
<1>1. n \in Nat
  BY DEF Sizes
<1>2. <<>> \in Seq(Entries) /\ Len(<<>>) = 0
  OBVIOUS
<1>3. /\ t.size = n /\ t.chain = [i \in 0 .. n - 1 |-> <<>>] /\ t.count = 0 /\ t.collisions = 0
  BY DEF ht_init
<1>4. t.chain \in [0 .. n - 1 -> Seq(Entries)] /\ \A b \in 0 .. n - 1 : t.chain[b] = <<>>
  BY <1>2, <1>3
<1>5. t \in Tables(n)
  BY <1>3, <1>4 DEF ht_init, Tables
<1> HIDE DEF t
<1>6. Places(t) = {}
  BY <1>4, <1>5, InPlaces
<1>7. Rear(t) = {}
  BY <1>6 DEF Rear
<1>8. IsFiniteSet(Places(t)) /\ t.count = Cardinality(Places(t)) /\ t.collisions >= Cardinality(Rear(t))
  BY <1>3, <1>6, <1>7, FS_EmptySet
<1>9. \A b \in 0 .. n - 1 : Distinct(t.chain[b]) /\ InBucket(t.chain[b], n, b)
  BY <1>4 DEF Distinct, InBucket
<1> QED
  BY <1>5, <1>8, <1>9 DEF Sound, t

(* The outer loop of ht_resize. *)
LEMMA RefilledValues ==
    ASSUME NEW n \in Sizes, NEW t, Sound(t, n), NEW m \in Sizes, NEW w
    PROVE  /\ Refilled(t, m, w)[0] = ht_init(m)
           /\ \A b \in 1 .. n :
                 Refilled(t, m, w)[b] =
                    LinkedAgain(Refilled(t, m, w)[b - 1], t.chain[b - 1], w)[Len(t.chain[b - 1])]
<1> DEFINE S == SoundTables(m)
           Turn(v, b) == LinkedAgain(v, t.chain[b - 1], w)[Len(t.chain[b - 1])]
           g == [b \in 1 .. n |-> [v \in S |-> Turn(v, b)]]
<1>1. n \in Nat /\ t.size = n /\ t \in Tables(n)
  BY TableFields DEF Sizes, Sound
<1>2. ASSUME NEW v \in S, NEW b \in 1 .. n PROVE Turn(v, b) \in S
  <2>1. b - 1 \in 0 .. n - 1
    BY <1>1
  <2>2. t.chain[b - 1] \in Seq(Entries) /\ Distinct(t.chain[b - 1])
    BY <1>1, <2>1, InPlaces DEF Sound
  <2>3. Sound(v, m)
    BY DEF SoundTables
  <2>4. Sound(Turn(v, b), m)
    BY <2>2, <2>3, AgainHas
  <2> QED
    BY <2>4 DEF SoundTables, Sound
<1>3. ht_init(m) \in S
  BY InitSound DEF SoundTables, Sound
<1> HIDE DEF S, Turn
<1>4. g \in [1 .. n -> [S -> S]]
  BY <1>2
<1>5. PICK f : IsLoop(f, n, S, ht_init(m), g)
  <2> HIDE DEF g
  <2> QED
    BY <1>1, <1>3, <1>4, LoopExists
<1>6. f \in [0 .. n -> S] /\ f[0] = ht_init(m) /\ \A b \in 1 .. n : f[b] = g[b][f[b - 1]]
  BY <1>5 DEF IsLoop
<1>7. \A b \in 0 .. n : b # 0 => b \in 1 .. n /\ b - 1 \in 0 .. n
  BY <1>1
<1>8. \A b \in 1 .. n : f[b] = Turn(f[b - 1], b)
  <2> TAKE b \in 1 .. n
  <2>1. f[b - 1] \in S
    BY <1>1, <1>6, <1>7
  <2>2. g[b][f[b - 1]] = Turn(f[b - 1], b)
    BY <2>1
  <2> QED
    BY <1>6, <2>2
<1> HIDE DEF g
<1>9. f = [b \in 0 .. n |-> IF b = 0 THEN ht_init(m) ELSE Turn(f[b - 1], b)]
  BY <1>6, <1>7, <1>8
<1> DEFINE F == Refilled(t, m, w)
<1>10. F = [b \in 0 .. n |-> IF b = 0 THEN ht_init(m) ELSE Turn(F[b - 1], b)]
  BY <1>1, <1>9 DEF Refilled, Turn
<1> HIDE DEF F
<1>11. \A b \in 0 .. n : F[b] = IF b = 0 THEN ht_init(m) ELSE Turn(F[b - 1], b)
  BY <1>10
<1>12. F[0] = ht_init(m) /\ \A b \in 1 .. n : F[b] = Turn(F[b - 1], b)
  BY <1>1, <1>11
<1> QED
  BY <1>12 DEF F, Turn

(* What a larger table has once the first b chains of t are moved to it. *)
HasMoved(v, t, b, w) ==
    \A x \in Entries :
        ~Expired(x, w) /\ (\E a \in 0 .. b - 1 : Occurs(x, t.chain[a])) => Has(v, x)

LEMMA RefilledStep ==
    ASSUME NEW n \in Sizes, NEW t, Sound(t, n), NEW m \in Sizes, NEW w, NEW v, Sound(v, m),
           NEW b \in 0 .. n - 1, HasMoved(v, t, b, w),
           NEW r, r = LinkedAgain(v, t.chain[b], w)[Len(t.chain[b])]
    PROVE  Sound(r, m) /\ HasMoved(r, t, b + 1, w)
<1>1. n \in Nat /\ t.size = n /\ t \in Tables(n)
  BY TableFields DEF Sizes, Sound
<1>2. PICK c \in Seq(Entries) : c = t.chain[b] /\ Distinct(c) /\ InBucket(c, n, b)
  BY <1>1, InPlaces DEF Sound
<1>3. Sound(r, m) /\ HasReached(r, v, c, Len(c), w)
  BY <1>2, AgainHas
<1>4. ASSUME NEW x \in Entries, ~Expired(x, w), NEW a \in 0 .. b, Occurs(x, t.chain[a])
      PROVE  Has(r, x)
  <2>1. CASE a = b
    <3>1. Reached(x, v, c, Len(c))
      BY <1>2, <1>4, <2>1 DEF Occurs, Reached
    <3> QED
      BY <1>3, <1>4, <3>1 DEF HasReached
  <2>2. CASE a # b
    <3>1. a \in 0 .. b - 1 /\ a \in 0 .. n - 1
      BY <1>1, <2>2
    <3>2. Has(v, x)
      BY <1>4, <3>1 DEF HasMoved
    <3>3. Hash[x.key] % n = a
      <4>1. InBucket(t.chain[a], n, a)
        BY <3>1 DEF Sound
      <4> QED
        BY <1>4, <4>1 DEF Occurs, InBucket
    <3>4. \A h \in 1 .. Len(c) : x.key # c[h].key
      BY <1>2, <2>2, <3>3 DEF InBucket
    <3>5. Reached(x, v, c, Len(c))
      BY <3>2, <3>4 DEF Reached
    <3> QED
      BY <1>3, <1>4, <3>5 DEF HasReached
  <2> QED
    BY <2>1, <2>2
<1>5. \A a \in 0 .. (b + 1) - 1 : a \in 0 .. b
  OBVIOUS
<1> QED
  BY <1>3, <1>4, <1>5 DEF HasMoved

(* ht_resize makes a sound table that has all that is not expired. *)
LEMMA ResizeHas ==
    ASSUME NEW n \in Sizes, NEW t, Sound(t, n), NEW m \in Sizes, NEW w
    PROVE  /\ Sound(ht_resize(t, m, w), m)
           /\ \A x \in Entries : Has(t, x) /\ ~Expired(x, w) => Has(ht_resize(t, m, w), x)
<1> DEFINE F == Refilled(t, m, w)
           Good(b) == Sound(F[b], m) /\ HasMoved(F[b], t, b, w)
           T == {b \in Nat : b <= n => Good(b)}
<1>1. n \in Nat /\ t.size = n /\ t \in Tables(n)
  BY TableFields DEF Sizes, Sound
<1>2. /\ F[0] = ht_init(m)
      /\ \A b \in 1 .. n : F[b] = LinkedAgain(F[b - 1], t.chain[b - 1], w)[Len(t.chain[b - 1])]
  BY RefilledValues
<1>3. ht_resize(t, m, w) = F[n]
  BY <1>1 DEF ht_resize
<1> HIDE DEF F
<1>4. 0 \in T
  <2>1. Sound(F[0], m)
    BY <1>2, InitSound
  <2>2. HasMoved(F[0], t, 0, w)
    BY DEF HasMoved
  <2> QED
    BY <2>1, <2>2
<1>5. ASSUME NEW b \in Nat, b \in T PROVE b + 1 \in T
  <2> SUFFICES ASSUME b + 1 <= n PROVE Good(b + 1)
    OBVIOUS
  <2>1. Good(b) /\ b \in 0 .. n - 1 /\ b + 1 \in 1 .. n /\ (b + 1) - 1 = b
    BY <1>1, <1>5
  <2>2. F[b + 1] = LinkedAgain(F[b], t.chain[b], w)[Len(t.chain[b])]
    BY <1>2, <2>1
  <2>3. PICK v, r : v = F[b] /\ r = F[b + 1]
    OBVIOUS
  <2>4. Sound(r, m) /\ HasMoved(r, t, b + 1, w)
    BY <2>1, <2>2, <2>3, RefilledStep
  <2> QED
    BY <2>3, <2>4
<1>6. \A b \in Nat : b \in T
  <2> HIDE DEF T
  <2> QED
    BY <1>4, <1>5, SetInduction
<1>7. Good(n)
  BY <1>1, <1>6
<1>8. ASSUME NEW x \in Entries, Has(t, x), ~Expired(x, w) PROVE Has(F[n], x)
  <2>1. ht_index(t, x.key) \in 0 .. n - 1
    BY <1>1, IndexType DEF Entries
  <2>2. Occurs(x, t.chain[ht_index(t, x.key)])
    BY <1>8 DEF Has
  <2> QED
    BY <1>7, <1>8, <2>1, <2>2 DEF HasMoved
<1> QED
  BY <1>3, <1>7, <1>8

-----------------------------------------------------------------------------
(* ht_insert: the table may have become larger. *)
Inserted(r, t, n, e, w) ==
    \E m \in Sizes :
        /\ m >= n /\ Sound(r, m) /\ Has(r, e)
        /\ \A x \in Entries : Has(t, x) /\ ~Expired(x, w) /\ x.key # e.key => Has(r, x)

LEMMA InsertHas ==
    ASSUME NEW n \in Sizes, NEW t, Sound(t, n), NEW k \in Keys, NEW time \in Nat, NEW w,
           ~Expired(Entry(k, time), w)
    PROVE  Inserted(ht_insert(t, k, time, w), t, n, Entry(k, time), w)
<1>1. PICK e \in Entries : e = Entry(k, time)
  BY DEF Entries, Entry
<1>2. PICK u : u = Link(t, e, w)
  OBVIOUS
<1>3. /\ Sound(u, n) /\ Has(u, e)
      /\ \A x \in Entries : Has(t, x) /\ ~Expired(x, w) /\ x.key # e.key => Has(u, x)
  BY <1>2, LinkSound, LinkHas
<1>4. u.size = n /\ n \in Nat /\ 2 * n \in Sizes /\ 2 * n >= n
  BY <1>3, TableFields DEF Sound, Sizes
<1>5. ht_insert(t, k, time, w) = u \/ ht_insert(t, k, time, w) = ht_resize(u, 2 * u.size, w)
  BY <1>1, <1>2 DEF ht_insert
<1>6. Inserted(u, t, n, e, w)
  BY <1>3, <1>4 DEF Inserted
<1>7. Inserted(ht_resize(u, 2 * u.size, w), t, n, e, w)
  <2>1. PICK m \in Sizes : m = 2 * u.size /\ m >= n
    BY <1>4
  <2>2. PICK r : r = ht_resize(u, m, w)
    OBVIOUS
  <2>3. Sound(r, m) /\ \A x \in Entries : Has(u, x) /\ ~Expired(x, w) => Has(r, x)
    BY <1>3, <2>2, ResizeHas
  <2>4. Inserted(r, t, n, e, w)
    BY <1>1, <1>3, <2>1, <2>3 DEF Inserted
  <2> QED
    BY <2>1, <2>2, <2>4
<1> QED
  BY <1>1, <1>5, <1>6, <1>7

(* ht_remove: d is the chain c without its entry i. *)
IsUnlinked(d, c, i) ==
    /\ d \in Seq(Entries) /\ Len(d) = Len(c) - 1 /\ Distinct(d)
    /\ \A j \in 1 .. Len(d) : \E h \in 1 .. Len(c) : d[j] = c[h]
    /\ \A h \in 1 .. Len(c) : h # i => Occurs(c[h], d)

LEMMA UnlinkChain ==
    ASSUME NEW c \in Seq(Entries), Distinct(c), NEW i \in 1 .. Len(c), NEW d, d = Unlink(c, i)
    PROVE  IsUnlinked(d, c, i)
<1>1. Len(c) \in Nat /\ Len(c) - 1 \in Nat
  OBVIOUS
<1>2. \A j \in 1 .. Len(c) - 1 : j \in 1 .. Len(c) /\ j + 1 \in 1 .. Len(c)
  BY <1>1
<1>3. d = [j \in 1 .. Len(c) - 1 |-> IF j < i THEN c[j] ELSE c[j + 1]]
  BY DEF Unlink
<1>4. d \in [1 .. Len(c) - 1 -> Entries]
  BY <1>2, <1>3
<1>5. d \in Seq(Entries) /\ Len(d) = Len(c) - 1
  BY <1>1, <1>4
<1>6. \A j \in 1 .. Len(d) : d[j] = IF j < i THEN c[j] ELSE c[j + 1]
  BY <1>3, <1>5
<1>7. Distinct(d)
  <2> SUFFICES ASSUME NEW j1 \in 1 .. Len(d), NEW j2 \in 1 .. Len(d), d[j1].key = d[j2].key
               PROVE  j1 = j2
    BY DEF Distinct
  <2>1. PICK h1 \in 1 .. Len(c) : d[j1] = c[h1] /\ h1 = IF j1 < i THEN j1 ELSE j1 + 1
    BY <1>2, <1>5, <1>6
  <2>2. PICK h2 \in 1 .. Len(c) : d[j2] = c[h2] /\ h2 = IF j2 < i THEN j2 ELSE j2 + 1
    BY <1>2, <1>5, <1>6
  <2>3. h1 = h2
    BY <2>1, <2>2 DEF Distinct
  <2> QED
    BY <1>1, <1>5, <2>1, <2>2, <2>3
<1>8. \A j \in 1 .. Len(d) : \E h \in 1 .. Len(c) : d[j] = c[h]
  BY <1>2, <1>5, <1>6
<1>9. ASSUME NEW h \in 1 .. Len(c), h # i PROVE Occurs(c[h], d)
  <2>1. CASE h < i
    <3>1. h \in 1 .. Len(d)
      BY <1>1, <1>5, <2>1
    <3> QED
      BY <1>6, <2>1, <3>1 DEF Occurs
  <2>2. CASE h > i
    <3>1. h - 1 \in 1 .. Len(d) /\ ~(h - 1 < i) /\ (h - 1) + 1 = h
      BY <1>1, <1>5, <2>2
    <3>2. d[h - 1] = c[h]
      BY <1>6, <3>1
    <3> QED
      BY <3>1, <3>2 DEF Occurs
  <2> QED
    BY <1>1, <1>9, <2>1, <2>2
<1> QED
  BY <1>5, <1>7, <1>8, <1>9 DEF IsUnlinked

LEMMA RemoveHas ==
    ASSUME NEW n \in Sizes, NEW t, Sound(t, n), NEW k \in Keys
    PROVE  /\ Sound(ht_remove(t, k), n)
           /\ \A x \in Entries : Has(t, x) /\ x.key # k => Has(ht_remove(t, k), x)
<1>1. PICK b : b = ht_index(t, k)
  OBVIOUS
<1>2. t \in Tables(n) /\ b \in 0 .. n - 1
  BY <1>1, IndexType DEF Sound
<1>3. /\ t.size = n /\ t.count \in Int /\ t.collisions \in Int
      /\ t.chain \in [0 .. n - 1 -> Seq(Entries)]
  BY <1>2, TableFields
<1>4. PICK c \in Seq(Entries) : c = t.chain[b] /\ Distinct(c) /\ InBucket(c, n, b)
  BY <1>2, InPlaces DEF Sound
<1>5. PICK i : i = Place(c, k)
  OBVIOUS
<1>6. CASE i = 0
  BY <1>1, <1>4, <1>5, <1>6 DEF ht_remove
<1>7. CASE i # 0
  <2>1. i \in 1 .. Len(c) /\ c[i].key = k
    BY <1>4, <1>5, <1>7, PlaceOf
  <2>2. PICK d : d = Unlink(c, i)
    OBVIOUS
  <2>3. /\ d \in Seq(Entries) /\ Len(d) = Len(c) - 1 /\ Distinct(d)
        /\ \A j \in 1 .. Len(d) : \E h \in 1 .. Len(c) : d[j] = c[h]
        /\ \A h \in 1 .. Len(c) : h # i => Occurs(c[h], d)
    <3>1. IsUnlinked(d, c, i)
      BY <1>4, <2>1, <2>2, UnlinkChain
    <3> QED
      BY <3>1 DEF IsUnlinked
  <2> DEFINE u == [t EXCEPT !.chain[b] = d, !.count = @ - 1,
                            !.collisions = IF i > 1 THEN @ - 1 ELSE @]
  <2>4. ht_remove(t, k) = u
    BY <1>1, <1>4, <1>5, <1>7, <2>2 DEF ht_remove
  <2>5. /\ u.chain = [t.chain EXCEPT ![b] = d] /\ u.count = t.count - 1
        /\ u.collisions = IF i > 1 THEN t.collisions - 1 ELSE t.collisions
    BY <1>2, <1>3 DEF Tables
  <2>6. /\ [t.chain EXCEPT ![b] = d] \in [0 .. n - 1 -> Seq(Entries)]
        /\ [t.chain EXCEPT ![b] = d][b] = d
        /\ \A a \in 0 .. n - 1 : a # b => [t.chain EXCEPT ![b] = d][a] = t.chain[a]
    BY <1>2, <1>3, <2>3
  <2>7. t.count - 1 \in Int /\ (IF i > 1 THEN t.collisions - 1 ELSE t.collisions) \in Int
    BY <1>3
  <2>8. u \in Tables(n)
    BY <1>2, <2>6, <2>7 DEF Tables
  <2> HIDE DEF u
  <2>9. u.chain[b] = d /\ \A a \in 0 .. n - 1 : a # b => u.chain[a] = t.chain[a]
    BY <2>5, <2>6
  <2>10. InBucket(d, n, b)
    BY <1>4, <2>3 DEF InBucket
  <2>11. Len(c) \in Nat /\ Len(d) \in Nat /\ Len(c) >= 1
    BY <2>1, <2>3
  <2>12. u.count = t.count - Len(c) + Len(d)
    BY <1>3, <2>3, <2>5, <2>11
  <2>13. u.collisions >= t.collisions - RearOf(Len(c)) + RearOf(Len(d))
    <3>1. CASE i > 1
      <4>1. RearOf(Len(c)) = Len(c) - 1 /\ RearOf(Len(d)) = Len(c) - 2
        BY <2>1, <2>3, <2>11, <3>1 DEF RearOf
      <4> QED
        BY <1>3, <2>5, <2>11, <3>1, <4>1
    <3>2. CASE i = 1
      <4>1. RearOf(Len(d)) <= RearOf(Len(c)) /\ RearOf(Len(d)) \in Nat /\ RearOf(Len(c)) \in Nat
        BY <2>3, <2>11 DEF RearOf
      <4> QED
        BY <1>3, <2>5, <3>2, <4>1
    <3> QED
      BY <2>1, <3>1, <3>2
  <2>14. Sound(u, n)
    BY <1>2, <1>4, <2>3, <2>8, <2>9, <2>10, <2>12, <2>13, OneChain
  <2>15. ASSUME NEW x \in Entries, Has(t, x), x.key # k PROVE Has(u, x)
    <3>1. ht_index(u, x.key) = ht_index(t, x.key) /\ ht_index(t, x.key) \in 0 .. n - 1
      BY <1>2, <2>8, IndexType DEF Entries
    <3>2. CASE ht_index(t, x.key) = b
      <4>1. PICK h \in 1 .. Len(c) : c[h] = x
        BY <1>4, <2>15, <3>2 DEF Has, Occurs
      <4>2. h # i
        BY <2>1, <2>15, <4>1
      <4>3. Occurs(x, d)
        BY <2>3, <4>1, <4>2
      <4> QED
        BY <2>9, <3>1, <3>2, <4>3 DEF Has
    <3>3. CASE ht_index(t, x.key) # b
      BY <2>9, <2>15, <3>1, <3>3 DEF Has
    <3> QED
      BY <3>2, <3>3
  <2> QED
    BY <2>4, <2>14, <2>15
<1> QED
  BY <1>6, <1>7

(* ht_get finds what the table has. *)
LEMMA GetFinds ==
    ASSUME NEW n \in Sizes, NEW t, Sound(t, n), NEW x \in Entries, Has(t, x)
    PROVE  ht_get(t, x.key) = x.time
<1>1. t \in Tables(n) /\ ht_index(t, x.key) \in 0 .. n - 1
  BY IndexType DEF Sound, Entries
<1>2. PICK c \in Seq(Entries) : c = t.chain[ht_index(t, x.key)] /\ Distinct(c)
  BY <1>1, InPlaces DEF Sound
<1>3. PICK i \in 1 .. Len(c) : c[i] = x
  BY <1>2 DEF Has, Occurs
<1>4. Place(c, x.key) = i
  BY <1>2, <1>3, FoundTime
<1> QED
  BY <1>2, <1>3, <1>4 DEF ht_get

-----------------------------------------------------------------------------
(* The inductive invariant.  The table is sound whether or not the walk has  *)
(* corrupted it, in the model a chain is a sequence either way; and it has   *)
(* every session opened within AGE_TIMEOUT.                                  *)
Recent ==
    \A k \in Keys : opened[k] # None /\ now - opened[k] <= Age
                    => Has(sessionTable, Entry(k, opened[k]))
Types ==
    /\ now \in 0 .. MaxNow
    /\ opened \in [Keys -> Nat \union {None}]
    /\ cur_task \in Keys \union {None}
    /\ getter \in {"lock", "wait", "info", "put"}
    /\ queued \in 0 .. QueueCap
    /\ sender \in {"get", "write", "killed"}
    /\ Locked => cur_task # None
TableOK ==
    /\ sessionTable.size \in InitSize .. MaxSize
    /\ Sound(sessionTable, sessionTable.size)
IInv == Types /\ TableOK /\ Recent

LEMMA SizesOK == \A n \in InitSize .. MaxSize : n \in Sizes
  BY HashAssumption, ClientAssumption DEF Sizes

LEMMA SoundSize ==
    ASSUME NEW n \in Sizes, NEW t, Sound(t, n)
    PROVE  t.size = n
  BY TableFields DEF Sound

LEMMA EntryType ==
    ASSUME NEW k \in Keys, NEW time
    PROVE  /\ Entry(k, time).key = k /\ Entry(k, time).time = time
           /\ time \in Nat => Entry(k, time) \in Entries
  BY DEF Entry, Entries

LEMMA InitIInv == Init => IInv
<1> SUFFICES ASSUME Init PROVE IInv
  OBVIOUS
<1>1. InitSize \in InitSize .. MaxSize /\ InitSize \in Sizes
  BY HashAssumption, ClientAssumption DEF Sizes
<1>2. Sound(sessionTable, InitSize)
  BY <1>1, InitSound DEF Init
<1>3. sessionTable.size = InitSize
  BY <1>1, <1>2, SoundSize
<1>4. Types
  BY ClientAssumption DEF Init, Types, Locked
<1>5. Recent
  BY DEF Init, Recent
<1> QED
  BY <1>1, <1>2, <1>3, <1>4, <1>5 DEF IInv, TableOK

LEMMA SynAckIInv ==
    ASSUME IInv, NEW k \in Keys, SynAck(k)
    PROVE  IInv'
<1>1. /\ now \in Nat /\ Types /\ TableOK /\ Recent
      /\ opened \in [Keys -> Nat \union {None}] /\ opened' = [opened EXCEPT ![k] = now]
      /\ UNCHANGED <<now, cur_task, getter, queued, sender>>
      /\ sessionTable' = ht_insert(sessionTable, k, now, now) /\ sessionTable'.size <= MaxSize
  BY ClientAssumption DEF IInv, Types, SynAck
<1>2. PICK n \in Sizes : n = sessionTable.size /\ Sound(sessionTable, n)
  BY <1>1, SizesOK DEF TableOK
<1>3. ~Expired(Entry(k, now), now)
  BY <1>1, HashAssumption, EntryType DEF Expired
<1>4. Inserted(sessionTable', sessionTable, n, Entry(k, now), now)
  BY <1>1, <1>2, <1>3, InsertHas
<1>5. PICK m \in Sizes :
        /\ m >= n /\ Sound(sessionTable', m) /\ Has(sessionTable', Entry(k, now))
        /\ \A x \in Entries : Has(sessionTable, x) /\ ~Expired(x, now) /\ x.key # Entry(k, now).key
                              => Has(sessionTable', x)
  BY <1>4 DEF Inserted
<1>6. sessionTable'.size = m
  BY <1>5, SoundSize
<1>7. m \in InitSize .. MaxSize
  <2>1. n \in InitSize .. MaxSize /\ m <= MaxSize /\ m \in Nat
    BY <1>1, <1>2, <1>6 DEF TableOK, Sizes
  <2> QED
    BY <1>5, <2>1, HashAssumption, ClientAssumption
<1>8. TableOK'
  BY <1>5, <1>6, <1>7 DEF TableOK
<1>9. Types'
  <2>1. opened' \in [Keys -> Nat \union {None}]
    BY <1>1
  <2> QED
    BY <1>1, <2>1 DEF Types, Locked
<1>10. Recent'
  <2> SUFFICES ASSUME NEW j \in Keys, opened'[j] # None, now' - opened'[j] <= Age
               PROVE  Has(sessionTable', Entry(j, opened'[j]))
    BY DEF Recent
  <2>1. CASE j = k
    BY <1>1, <1>5, <2>1
  <2>2. CASE j # k
    <3>1. opened'[j] = opened[j] /\ opened[j] \in Nat /\ now' = now
      BY <1>1, <2>2
    <3>2. Has(sessionTable, Entry(j, opened[j]))
      BY <1>1, <3>1 DEF Recent
    <3>3. /\ Entry(j, opened[j]) \in Entries /\ Entry(j, opened[j]).key # Entry(k, now).key
          /\ Entry(j, opened[j]).time = opened[j]
      BY <2>2, <3>1, EntryType
    <3>4. ~Expired(Entry(j, opened[j]), now)
      BY <1>1, <3>1, <3>3, HashAssumption DEF Expired
    <3> QED
      BY <1>5, <3>1, <3>2, <3>3, <3>4
  <2> QED
    BY <2>1, <2>2
<1> QED
  BY <1>8, <1>9, <1>10 DEF IInv

LEMMA AckIInv ==
    ASSUME IInv, NEW k \in Keys, Ack(k)
    PROVE  IInv'
<1>1. /\ now \in Nat /\ Types /\ TableOK /\ Recent
      /\ opened \in [Keys -> Nat \union {None}] /\ opened' = [opened EXCEPT ![k] = None]
      /\ UNCHANGED <<now, queued, sender>>
      /\ sessionTable' = ht_remove(sessionTable, k)
  BY ClientAssumption DEF IInv, Types, Ack
<1>2. PICK n \in Sizes : n = sessionTable.size /\ Sound(sessionTable, n)
  BY <1>1, SizesOK DEF TableOK
<1>3. /\ Sound(sessionTable', n)
      /\ \A x \in Entries : Has(sessionTable, x) /\ x.key # k => Has(sessionTable', x)
  BY <1>1, <1>2, RemoveHas
<1>4. sessionTable'.size = n
  BY <1>3, SoundSize
<1>5. TableOK'
  BY <1>1, <1>2, <1>3, <1>4 DEF TableOK
<1>6. Types'
  <2>1. opened' \in [Keys -> Nat \union {None}]
    BY <1>1
  <2>2. CASE Locked
    BY <1>1, <2>1, <2>2 DEF Types, Locked, Ack
  <2>3. CASE ~Locked
    <3>1. cur_task' \in Keys /\ getter' = IF getter = "wait" THEN "lock" ELSE getter
      BY <2>3 DEF Ack
    <3>2. getter' \in {"lock", "wait", "info", "put"} /\ ~Locked'
      BY <1>1, <2>3, <3>1 DEF Types, Locked
    <3> QED
      BY <1>1, <2>1, <3>1, <3>2 DEF Types
  <2> QED
    BY <2>2, <2>3
<1>7. Recent'
  <2> SUFFICES ASSUME NEW j \in Keys, opened'[j] # None, now' - opened'[j] <= Age
               PROVE  Has(sessionTable', Entry(j, opened'[j]))
    BY DEF Recent
  <2>1. j # k /\ opened'[j] = opened[j] /\ opened[j] \in Nat /\ now' = now
    BY <1>1
  <2>2. Has(sessionTable, Entry(j, opened[j]))
    BY <1>1, <2>1 DEF Recent
  <2>3. Entry(j, opened[j]) \in Entries /\ Entry(j, opened[j]).key # k
    BY <2>1, EntryType
  <2> QED
    BY <1>3, <2>1, <2>2, <2>3
<1> QED
  BY <1>5, <1>6, <1>7 DEF IInv

(* The steps of the threads leave the table and the sessions alone. *)
LEMMA ThreadIInv ==
    ASSUME IInv, UNCHANGED <<sessionTable, opened>>, now' \in {now, now + 1}, Types'
    PROVE  IInv'
<1>1. TableOK'
  BY DEF IInv, TableOK
<1>2. Recent'
  <2> SUFFICES ASSUME NEW j \in Keys, opened[j] # None, now' - opened[j] <= Age
               PROVE  Has(sessionTable, Entry(j, opened[j]))
    BY DEF Recent
  <2>1. now \in Nat /\ opened[j] \in Nat
    BY ClientAssumption DEF IInv, Types
  <2>2. now - opened[j] <= Age
    BY <2>1, HashAssumption
  <2> QED
    BY <2>2 DEF IInv, Recent
<1> QED
  BY <1>1, <1>2 DEF IInv

LEMMA NextIInv == IInv /\ [Next]_vars => IInv'
<1> SUFFICES ASSUME IInv, [Next]_vars PROVE IInv'
  OBVIOUS
<1> USE ClientAssumption
<1>1. ASSUME NEW k \in Keys, SynAck(k) PROVE IInv'
  BY <1>1, SynAckIInv
<1>2. ASSUME NEW k \in Keys, Ack(k) PROVE IInv'
  BY <1>2, AckIInv
<1>3. CASE Tick
  BY <1>3, ThreadIInv DEF Tick, IInv, Types, Locked
<1>4. CASE GetLock
  BY <1>4, ThreadIInv DEF GetLock, IInv, Types, Locked
<1>5. ASSUME NEW complete \in BOOLEAN, GetInfo(complete) PROVE IInv'
  BY <1>5, ThreadIInv DEF GetInfo, IInv, Types, Locked
<1>6. CASE GetPut
  BY <1>6, ThreadIInv DEF GetPut, IInv, Types, Locked
<1>7. CASE SendGet
  BY <1>7, ThreadIInv DEF SendGet, IInv, Types, Locked
<1>8. CASE SendWrite
  BY <1>8, ThreadIInv DEF SendWrite, IInv, Types, Locked
<1>9. CASE SendKilled
  BY <1>9, ThreadIInv DEF SendKilled, IInv, Types, Locked
<1>10. CASE UNCHANGED vars
  BY <1>10, ThreadIInv DEF vars, IInv, Types, Locked
<1> QED
  BY <1>1, <1>2, <1>3, <1>4, <1>5, <1>6, <1>7, <1>8, <1>9, <1>10 DEF Next

-----------------------------------------------------------------------------
(* What soundness says of the places of a table. *)
LEMMA SoundPlaces ==
    ASSUME NEW n \in Sizes, NEW t, Sound(t, n)
    PROVE  /\ \A p \in Places(t) : KeyAt(t, p) \in Keys /\ ht_index(t, KeyAt(t, p)) = p[1]
           /\ \A p, q \in Places(t) : KeyAt(t, p) = KeyAt(t, q) => p = q
<1>1. t \in Tables(n)
  BY DEF Sound
<1>2. ASSUME NEW p \in Places(t)
      PROVE  KeyAt(t, p) \in Keys /\ ht_index(t, KeyAt(t, p)) = p[1]
  <2>1. p[1] \in 0 .. n - 1 /\ p[2] \in 1 .. Len(t.chain[p[1]]) /\ t.chain[p[1]] \in Seq(Entries)
    BY <1>1, InPlaces
  <2>2. t.chain[p[1]][p[2]] \in Entries
    BY <2>1
  <2>3. KeyAt(t, p) \in Keys
    BY <2>2 DEF KeyAt, Entries
  <2>4. Hash[KeyAt(t, p)] % n = p[1]
    BY <2>1 DEF Sound, InBucket, KeyAt
  <2> QED
    BY <1>1, <2>3, <2>4, IndexType
<1>3. ASSUME NEW p \in Places(t), NEW q \in Places(t), KeyAt(t, p) = KeyAt(t, q) PROVE p = q
  <2>1. p[1] = q[1]
    BY <1>2, <1>3
  <2>2. /\ p = <<p[1], p[2]>> /\ p[1] \in 0 .. n - 1 /\ p[2] \in 1 .. Len(t.chain[p[1]])
        /\ q = <<q[1], q[2]>> /\ q[2] \in 1 .. Len(t.chain[q[1]])
    BY <1>1, InPlaces
  <2>3. Distinct(t.chain[p[1]])
    BY <2>2 DEF Sound
  <2>4. p[2] = q[2]
    BY <1>3, <2>1, <2>2, <2>3 DEF Distinct, KeyAt
  <2> QED
    BY <2>1, <2>2, <2>4
<1> QED
  BY <1>2, <1>3

(* There are no more entries than keys, and collisions is not negative. *)
LEMMA SoundCount ==
    ASSUME NEW n \in Sizes, NEW t, Sound(t, n)
    PROVE  t.count \in 0 .. Cardinality(Keys) /\ t.collisions \in Nat
<1>1. t \in Tables(n) /\ IsFiniteSet(Places(t)) /\ t.count = Cardinality(Places(t))
  BY DEF Sound
<1> DEFINE f == [p \in Places(t) |-> KeyAt(t, p)]
<1>2. f \in Injection(Places(t), Keys)
  BY SoundPlaces DEF Injection, IsInjective
<1>3. IsFiniteSet(Keys)
  BY ClientAssumption
<1> HIDE DEF f
<1>4. Cardinality(Places(t)) <= Cardinality(Keys)
  BY <1>2, <1>3, FS_Injection
<1>5. Cardinality(Places(t)) \in Nat /\ Cardinality(Keys) \in Nat
  BY <1>1, <1>3, FS_CardinalityType
<1>6. Rear(t) \in SUBSET Places(t)
  BY DEF Rear
<1>7. Cardinality(Rear(t)) \in Nat
  BY <1>1, <1>6, FS_Subset, FS_CardinalityType
<1>8. t.collisions \in Int /\ t.collisions >= Cardinality(Rear(t))
  BY <1>1, TableFields DEF Sound
<1> QED
  BY <1>1, <1>4, <1>5, <1>7, <1>8

LEMMA InvariantHolds == Spec => []IInv
<1>1. Init => IInv
  BY InitIInv
<1>2. IInv /\ [Next]_vars => IInv'
  BY NextIInv
<1> QED
  BY <1>1, <1>2, PTL DEF Spec

(* The types of the variables hold in every state; in particular the send   *)
(* queue is within its capacity, key_count is at most the number of keys    *)
(* and collisions is never negative, so that the unsigned int of            *)
(* hashtable.c does not wrap around.                                        *)
THEOREM ClientTypeOK == Spec => []TypeOK
<1>1. IInv => TypeOK
  <2> SUFFICES ASSUME IInv PROVE TypeOK
    OBVIOUS
  <2>1. sessionTable.count \in 0 .. Cardinality(Keys) /\ sessionTable.collisions \in Nat
    BY SizesOK, SoundCount DEF IInv, TableOK
  <2> QED
    BY <2>1 DEF IInv, TableOK, Types, TypeOK
<1> QED
  BY <1>1, InvariantHolds, PTL

(* Whatever is inserted, aged, removed or moved to a larger table, every    *)
(* entry of sessionTable is in the bucket of its key, no key is there       *)
(* twice, key_count is exact and collisions is at least the number of       *)
(* entries behind a head.                                                   *)
THEOREM ClientTableSound == Spec => []TableSound
<1>1. IInv => TableSound
  <2> SUFFICES ASSUME IInv PROVE TableSound
    OBVIOUS
  <2>1. PICK t : t = sessionTable
    OBVIOUS
  <2>2. PICK n \in Sizes : Sound(t, n)
    BY <2>1, SizesOK DEF IInv, TableOK
  <2>3. /\ \A p \in Places(t) : ht_index(t, KeyAt(t, p)) = p[1]
        /\ \A p, q \in Places(t) : KeyAt(t, p) = KeyAt(t, q) => p = q
    BY <2>2, SoundPlaces
  <2>4. t.count = Cardinality(Places(t)) /\ t.collisions >= Cardinality(Rear(t))
    BY <2>2 DEF Sound
  <2> QED
    BY <2>1, <2>3, <2>4 DEF TableSound
<1> QED
  BY <1>1, InvariantHolds, PTL

(* The ACK of a session opened within AGE_TIMEOUT finds it in sessionTable  *)
(* with the time of its last SYN-ACK, for any hash values and any growth of *)
(* the table.                                                               *)
THEOREM ClientRecentIsFound == Spec => []RecentIsFound
<1>1. IInv => RecentIsFound
  <2> SUFFICES ASSUME IInv, NEW k \in Keys, opened[k] # None, now - opened[k] <= Age
               PROVE  ht_get(sessionTable, k) = opened[k]
    BY DEF RecentIsFound
  <2>1. PICK x : x = Entry(k, opened[k])
    OBVIOUS
  <2>2. opened[k] \in Nat
    BY DEF IInv, Types
  <2>3. x \in Entries /\ x.key = k /\ x.time = opened[k] /\ Has(sessionTable, x)
    BY <2>1, <2>2, EntryType DEF IInv, Recent
  <2>4. PICK n \in Sizes : Sound(sessionTable, n)
    BY SizesOK DEF IInv, TableOK
  <2>5. ht_get(sessionTable, x.key) = x.time
    BY <2>3, <2>4, GetFinds
  <2> QED
    BY <2>3, <2>5
<1> QED
  BY <1>1, InvariantHolds, PTL

(* While getArgs works on a record, captureOne does not change cur_task. *)
THEOREM ClientCollectedIsStable == Spec => CollectedIsStable
<1>1. [Next]_vars => [Locked /\ Locked' => cur_task' = cur_task]_vars
  <2> SUFFICES ASSUME Next, Locked, Locked' PROVE cur_task' = cur_task
    OBVIOUS
  <2>1. ASSUME NEW k \in Keys, SynAck(k) PROVE cur_task' = cur_task
    BY <2>1 DEF SynAck
  <2>2. ASSUME NEW k \in Keys, Ack(k) PROVE cur_task' = cur_task
    BY <2>2 DEF Ack
  <2>3. CASE Tick
    BY <2>3 DEF Tick
  <2>4. CASE GetLock
    BY <2>4 DEF GetLock
  <2>5. ASSUME NEW complete \in BOOLEAN, GetInfo(complete) PROVE cur_task' = cur_task
    BY <2>5 DEF GetInfo, Locked
  <2>6. CASE GetPut
    BY <2>6 DEF GetPut, Locked
  <2>7. CASE SendGet
    BY <2>7 DEF SendGet
  <2>8. CASE SendWrite
    BY <2>8 DEF SendWrite
  <2>9. CASE SendKilled
    BY <2>9 DEF SendKilled
  <2> QED
    BY <2>1, <2>2, <2>3, <2>4, <2>5, <2>6, <2>7, <2>8, <2>9 DEF Next
<1> QED
  BY <1>1, PTL DEF Spec, CollectedIsStable
================================================================================
