------------------------------- MODULE HashTable -------------------------------
(***************************************************************************)
(* The chained hash table of the collector client (hashtable.c), with the  *)
(* ageing that was added to ht_insert_he: an insertion walks the chain of  *)
(* its bucket and destroys the entries that are older than AGE_TIMEOUT.    *)
(*                                                                         *)
(* A table is a record; a chain is the sequence of its entries, a key with *)
(* the time it was stored at.  Memory that the C code corrupts is marked   *)
(* in the field broken: what such a table does next is undefined.          *)
(***************************************************************************)
EXTENDS Integers, Sequences, FiniteSets

CONSTANTS
    Keys,
    Hash,          \* the hash value of each key
    InitSize,      \* HT_INITIAL_SIZE
    PerCollision,  \* 1 / max_load_factor: buckets for each tolerated collision
    Age,           \* AGE_TIMEOUT
    None

(* With 64 buckets and a load factor of 1 in 20, one resize is enough: the  *)
(* table of twice the size that ht_resize fills is never resized itself.    *)
ASSUME HashAssumption ==
    /\ Hash \in [Keys -> Nat]
    /\ Age \in Nat
    /\ PerCollision \in Nat \ {0}
    /\ InitSize \in Nat /\ PerCollision <= InitSize

ht_index(t, k) == Hash[k] % t.size

ht_init(n) ==
    [size |-> n, chain |-> [i \in 0 .. n - 1 |-> <<>>], count |-> 0, collisions |-> 0,
     broken |-> FALSE]

Entry(k, time) == [key |-> k, time |-> time]

(* The place of a key in a chain, 0 if it is not there. *)
Place(c, k) ==
    IF \A i \in 1 .. Len(c) : c[i].key # k THEN 0
    ELSE CHOOSE i \in 1 .. Len(c) : c[i].key = k /\ \A j \in 1 .. i - 1 : c[j].key # k

ht_get(t, k) ==
    LET c == t.chain[ht_index(t, k)]
    IN  IF Place(c, k) = 0 THEN None ELSE c[Place(c, k)].time

(* The chain c without its entry i. *)
Unlink(c, i) == [j \in 1 .. Len(c) - 1 |-> IF j < i THEN c[j] ELSE c[j + 1]]

(* A variant for comparison: collisions goes down for the head as well. *)
ht_removeAlways(t, k) ==
    LET b == ht_index(t, k)
        i == Place(t.chain[b], k)
    IN  IF i = 0 THEN t
        ELSE [t EXCEPT !.chain[b] = Unlink(@, i), !.count = @ - 1, !.collisions = @ - 1]

(* collisions goes down only for an entry that is not the head of a chain. *)
ht_remove(t, k) ==
    LET b == ht_index(t, k)
        i == Place(t.chain[b], k)
    IN  IF i = 0 THEN t
        ELSE [t EXCEPT !.chain[b] = Unlink(@, i),
                       !.count = @ - 1,
                       !.collisions = IF i > 1 THEN @ - 1 ELSE @]

Expired(e, now) == now - e.time > Age

(* What is left of the first i entries of a chain, and of all of them. *)
Kept(c, now) ==
    LET f[i \in 0 .. Len(c)] ==
            IF i = 0 THEN <<>> ELSE IF Expired(c[i], now) THEN f[i - 1] ELSE Append(f[i - 1], c[i])
    IN  f
Live(c, now) == Kept(c, now)[Len(c)]

(* The walk of ht_insert_he.  An expired entry with no live one before it   *)
(* is unlinked with prev = NULL and leaves collisions as it was.            *)
Behind(c, now) ==
    {i \in DOMAIN c : Expired(c[i], now) /\ \E j \in 1 .. i - 1 : ~Expired(c[j], now)}

(* Behind a live entry prev is set to the successor of the entry destroyed, *)
(* not to its predecessor.  A live successor makes up for that.  An expired *)
(* one is destroyed while its true predecessor still points to it; and with *)
(* no successor prev is NULL when the new entry is linked behind it.        *)
Corrupts(c, k, now) ==
    \/ \E i \in Behind(c, now) : i + 1 \in Behind(c, now)
    \/ Len(c) \in Behind(c, now) /\ Place(Live(c, now), k) = 0

(* A key that is there gets the new value (he_set_value). *)
Stored(live, e) ==
    LET i == Place(live, e.key)
    IN  IF i = 0 THEN Append(live, e) ELSE [live EXCEPT ![i] = e]

(* ht_insert_he up to the test of the load factor. *)
Link(t, e, now) ==
    LET b == ht_index(t, e.key)
        c == t.chain[b]
        live == Live(c, now)
        stored == Stored(live, e)
    IN  [t EXCEPT !.chain[b] = stored,
                  !.count = @ - Len(c) + Len(stored),
                  !.collisions = @ - Cardinality(Behind(c, now))
                                 + (IF live # <<>> THEN Len(stored) - Len(live) ELSE 0),
                  !.broken = @ \/ Corrupts(c, e.key, now)]

(* The loops of ht_resize: the entries of a chain, and the chains of t in   *)
(* turn, are inserted again.                                                *)
LinkedAgain(u, c, now) ==
    LET f[i \in 0 .. Len(c)] == IF i = 0 THEN u ELSE Link(f[i - 1], c[i], now)
    IN  f
Refilled(t, n, now) ==
    LET g[b \in 0 .. t.size] ==
            IF b = 0 THEN ht_init(n)
            ELSE LinkedAgain(g[b - 1], t.chain[b - 1], now)[Len(t.chain[b - 1])]
    IN  g

(* A variant for comparison: next is read after ht_insert_he has cleared it. *)
ht_resizeHeads(t, n, now) ==
    LET HeadOf(c) == IF c = <<>> THEN c ELSE <<Head(c)>>
    IN  Refilled([t EXCEPT !.chain = [b \in DOMAIN @ |-> HeadOf(@[b])]], n, now)[t.size]

ht_resize(t, n, now) == Refilled(t, n, now)[t.size]

(* The first entry of a bucket, and a key that is there, return before the  *)
(* load factor is looked at.                                                *)
ht_insert(t, k, time, now) ==
    LET c == t.chain[ht_index(t, k)]
        u == Link(t, Entry(k, time), now)
        appended == c # <<>> /\ Place(Live(c, now), k) = 0
    IN  IF appended /\ ~u.broken /\ u.collisions * PerCollision > u.size
        THEN ht_resize(u, 2 * u.size, now)
        ELSE u

(* Where a table has entries, and where these are not the first of their    *)
(* chain.                                                                   *)
Places(t) == UNION {{b} \X (1 .. Len(t.chain[b])) : b \in 0 .. t.size - 1}
Rear(t) == {p \in Places(t) : p[2] > 1}
KeyAt(t, p) == t.chain[p[1]][p[2]].key
================================================================================
