----------------------------- MODULE DSQueueProofs -----------------------------
(***************************************************************************)
(* For every capacity and every number of threads: the type invariant, the *)
(* safety invariants and the refinement of the bounded FIFO by DSQueue.    *)
(***************************************************************************)
EXTENDS DSQueue, TLAPS

(* One wrap at most: the only remainders the ring ever takes. *)
LEMMA ModWrap ==
    ASSUME NEW C \in Nat \ {0}, NEW a \in Nat, a < 2 * C
    PROVE  /\ a < C => a % C = a
           /\ a >= C => a % C = a - C
           /\ a % C \in 0 .. C - 1
<1>1. a % C \in 0 .. C - 1
  BY SMT
<1>2. a = C * (a \div C) + (a % C)
  BY SMT
<1>3. a \div C \in Int
  BY SMT
<1>4. CASE a < C
  BY <1>1, <1>4, SMT
<1>5. CASE a >= C
  BY <1>1, <1>5, SMT
<1> QED
  BY <1>1, <1>4, <1>5

(* Where the ring wraps, without the remainder. *)
Wrap(a) == IF a < Capacity THEN a ELSE a - Capacity

(* An index less than two turns of the ring is reduced by one subtraction. *)
LEMMA RingIndex ==
    ASSUME NEW a \in 0 .. 2 * Capacity - 1
    PROVE  /\ a % Capacity = Wrap(a)
           /\ Wrap(a) \in Slots
<1>1. a \in Nat /\ a < 2 * Capacity /\ Capacity \in Nat \ {0}
  BY CapacityAssumption
<1>2. /\ a < Capacity => a % Capacity = a
      /\ a >= Capacity => a % Capacity = a - Capacity
  BY <1>1, ModWrap
<1>3. a % Capacity = Wrap(a)
  BY <1>1, <1>2 DEF Wrap
<1> QED
  BY <1>1, <1>3 DEF Wrap, Slots

(* The address that put computes does not overflow a word. *)
LEMMA SlotIndex ==
    ASSUME TypeOK, NEW k \in 0 .. Capacity - 1
    PROVE  Slot(k) = Wrap(pos + k) /\ Slot(k) \in Slots
<1>1. pos + k \in 0 .. 2 * Capacity - 2
  BY CapacityAssumption DEF TypeOK, Slots
<1>2. (pos + k) % Word = pos + k
  <2>1. Word \in Nat \ {0} /\ pos + k < Word /\ pos + k \in Nat /\ pos + k < 2 * Word
    BY <1>1, CapacityAssumption
  <2> QED
    BY <2>1, ModWrap
<1>3. pos + k \in 0 .. 2 * Capacity - 1
  BY <1>1, CapacityAssumption
<1> QED
  BY <1>2, <1>3, RingIndex DEF Slot

(* The ring read without remainders: what the proofs below reason with. *)
Window == \A k \in 0 .. length - 1 : buf[Wrap(pos + k)] \in Items

(* The same for the indices at which the ring is read. *)
LEMMA RingRead ==
    ASSUME NEW q \in Slots, NEW n \in 0 .. Capacity
    PROVE  /\ \A k \in 0 .. n - 1 : (q + k) % Capacity = Wrap(q + k)
           /\ \A k \in 1 .. n : (q + k - 1) % Capacity = Wrap(q + k - 1)
<1>1. ASSUME NEW k \in 0 .. n - 1
      PROVE  (q + k) % Capacity = Wrap(q + k)
  <2>1. q + k \in 0 .. 2 * Capacity - 1
    BY CapacityAssumption DEF Slots
  <2> QED
    BY <2>1, RingIndex
<1>2. ASSUME NEW k \in 1 .. n
      PROVE  (q + k - 1) % Capacity = Wrap(q + k - 1)
  <2>1. q + k - 1 \in 0 .. 2 * Capacity - 1
    BY CapacityAssumption DEF Slots
  <2> QED
    BY <2>1, RingIndex
<1> QED
  BY <1>1, <1>2

--------------------------------------------------------------------------------
(* WindowHoldsItems and NoLostWakeup are inductive together with TypeOK. *)
IInv == TypeOK /\ WindowHoldsItems /\ NoLostWakeup

(* ds_queue_create establishes the invariant. *)
LEMMA InitIInv == Init => IInv
<1> SUFFICES ASSUME Init PROVE IInv
  OBVIOUS
<1>1. TypeOK
  <2>1. 0 \in Slots /\ 0 \in 0 .. Capacity
    BY CapacityAssumption DEF Slots
  <2> QED
    BY <2>1 DEF Init, TypeOK, States
<1>2. WindowHoldsItems
  BY DEF Init, WindowHoldsItems, Threads
<1>3. NoLostWakeup
  BY DEF Init, NoLostWakeup, Threads
<1> QED
  BY <1>1, <1>2, <1>3 DEF IInv

(* A step that moves neither the ring nor an argument keeps the window. *)
LEMMA WindowKept ==
    ASSUME WindowHoldsItems, UNCHANGED <<buf, pos, length, arg>>,
           \A p \in Producers : pc'[p] # "idle" => pc[p] # "idle"
    PROVE  WindowHoldsItems'
BY DEF WindowHoldsItems

(* After a broadcast nobody waits. *)
LEMMA AfterBroadcast ==
    ASSUME NEW f \in [Threads -> States]
    PROVE  /\ Broadcast(f) \in [Threads -> States]
           /\ \A t \in Threads : Broadcast(f)[t] # "waiting"
           /\ \A t \in Threads : Broadcast(f)[t] = "idle" <=> f[t] = "idle"
BY DEF Broadcast, States

(* A put that stores: the new slot is outside the window of unread items. *)
LEMMA PutStoreIInv ==
    ASSUME IInv, NEW p \in Producers, PutStore(p)
    PROVE  IInv'
<1> USE DEF IInv
<1>1. p \in Threads /\ arg[p] \in Items
  BY DEF PutStore, WindowHoldsItems, Threads
<1>2. length \in 0 .. Capacity - 1 /\ length + 1 \in 0 .. Capacity
  BY CapacityAssumption DEF PutStore, TypeOK
<1>3. Slot(length) = Wrap(pos + length) /\ Slot(length) \in Slots
  BY <1>2, SlotIndex
<1>4. [pc EXCEPT ![p] = "idle"] \in [Threads -> States]
  BY <1>1 DEF TypeOK, States
<1>5. /\ pc' \in [Threads -> States]
      /\ \A t \in Threads : pc'[t] # "waiting"
      /\ \A t \in Threads : pc'[t] # "idle" => pc[t] # "idle" /\ t # p
  BY <1>1, <1>4, AfterBroadcast DEF PutStore, TypeOK
<1>6. TypeOK'
  BY <1>1, <1>2, <1>3, <1>5 DEF PutStore, TypeOK
<1>7. Window'
  <2>1. Window
    BY RingRead DEF WindowHoldsItems, Window, TypeOK
  <2> SUFFICES ASSUME NEW k \in 0 .. length
               PROVE  buf'[Wrap(pos + k)] \in Items
    BY <1>2 DEF Window, PutStore, Wrap
  <2>2. Wrap(pos + k) \in Slots
    BY <1>2, CapacityAssumption DEF TypeOK, Slots, Wrap
  <2>3. CASE k = length
    BY <2>3, <1>1, <1>3 DEF PutStore, TypeOK
  <2>4. CASE k # length
    <3>1. k \in 0 .. length - 1 /\ Wrap(pos + k) # Wrap(pos + length)
      BY <2>4, <1>2, CapacityAssumption DEF TypeOK, Slots, Wrap
    <3> QED
      BY <3>1, <2>1, <2>2, <1>3 DEF PutStore, TypeOK, Window
  <2> QED
    BY <2>3, <2>4
<1>8. WindowHoldsItems'
  <2>1. \A q \in Producers : pc'[q] # "idle" => arg'[q] \in Items
    BY <1>5 DEF PutStore, WindowHoldsItems, TypeOK, Threads
  <2>2. \A k \in 0 .. length' - 1 : buf'[(pos' + k) % Capacity] \in Items
    BY <1>6, <1>7, RingRead DEF Window, TypeOK
  <2> QED
    BY <2>1, <2>2 DEF WindowHoldsItems
<1>9. NoLostWakeup'
  BY <1>5 DEF NoLostWakeup, Threads
<1> QED
  BY <1>6, <1>8, <1>9

(* A get that takes: the window starts one slot later. *)
LEMMA GetTakeIInv ==
    ASSUME IInv, NEW c \in Consumers, GetTake(c)
    PROVE  IInv'
<1> USE DEF IInv
<1>1. c \in Threads /\ c \notin Producers
  BY RoleAssumption DEF Threads
<1>2. length \in 1 .. Capacity /\ length - 1 \in 0 .. Capacity /\ length' = length - 1
  BY CapacityAssumption DEF GetTake, TypeOK
<1>3. pos' = Wrap(pos + 1) /\ pos' \in Slots
  <2>1. pos + 1 \in 0 .. 2 * Capacity - 1
    BY CapacityAssumption DEF TypeOK, Slots
  <2> QED
    BY <2>1, RingIndex DEF GetTake
<1>4. [pc EXCEPT ![c] = "idle"] \in [Threads -> States]
  BY <1>1 DEF TypeOK, States
<1>5. /\ pc' \in [Threads -> States]
      /\ \A t \in Threads : pc'[t] # "waiting"
      /\ \A t \in Threads : pc'[t] # "idle" => pc[t] # "idle"
  BY <1>1, <1>4, AfterBroadcast DEF GetTake, TypeOK
<1>6. TypeOK'
  BY <1>2, <1>3, <1>5 DEF GetTake, TypeOK
<1>7. Window'
  <2>1. Window
    BY RingRead DEF WindowHoldsItems, Window, TypeOK
  <2> SUFFICES ASSUME NEW k \in 0 .. length - 2
               PROVE  buf'[Wrap(pos' + k)] \in Items
    BY <1>2 DEF Window, Wrap
  <2>2. /\ Wrap(pos' + k) = Wrap(pos + (k + 1))
        /\ k + 1 \in 0 .. length - 1
        /\ Wrap(pos + (k + 1)) # pos
        /\ Wrap(pos + (k + 1)) \in Slots
    BY <1>2, <1>3, CapacityAssumption DEF TypeOK, Slots, Wrap
  <2> QED
    BY <2>1, <2>2 DEF GetTake, TypeOK, Window
<1>8. WindowHoldsItems'
  <2>1. \A q \in Producers : pc'[q] # "idle" => arg'[q] \in Items
    BY <1>5 DEF GetTake, WindowHoldsItems, Threads
  <2>2. \A k \in 0 .. length' - 1 : buf'[(pos' + k) % Capacity] \in Items
    BY <1>6, <1>7, RingRead DEF Window, TypeOK
  <2> QED
    BY <2>1, <2>2 DEF WindowHoldsItems
<1>9. NoLostWakeup'
  BY <1>5 DEF NoLostWakeup, Threads
<1> QED
  BY <1>6, <1>8, <1>9

(* The steps that do not touch the ring. *)
LEMMA OtherStepIInv ==
    ASSUME IInv, UNCHANGED <<buf, pos, length>>,
           \/ \E p \in Producers :
                 PutAbort(p) \/ PutWait(p) \/ \E v \in Items : CallPut(p, v)
           \/ \E c \in Consumers : GetWait(c) \/ GetNull(c) \/ CallGet(c)
           \/ Close
           \/ \E t \in Threads : SpuriousWakeup(t)
    PROVE  IInv'
<1> USE DEF IInv
<1>1. ASSUME NEW p \in Producers, PutAbort(p)
      PROVE  IInv'
  BY <1>1 DEF PutAbort, TypeOK, WindowHoldsItems, NoLostWakeup
<1>2. ASSUME NEW p \in Producers, PutWait(p)
      PROVE  IInv'
  <2>1. TypeOK'
    BY <1>2 DEF PutWait, TypeOK, States, Threads
  <2>2. WindowHoldsItems'
    BY <1>2, WindowKept DEF PutWait, TypeOK, Threads
  <2>3. NoLostWakeup'
    BY <1>2, RoleAssumption DEF PutWait, TypeOK, NoLostWakeup, Threads
  <2> QED
    BY <2>1, <2>2, <2>3
<1>3. ASSUME NEW p \in Producers, NEW v \in Items, CallPut(p, v)
      PROVE  IInv'
  <2>1. TypeOK'
    BY <1>3 DEF CallPut, TypeOK, States, Threads
  <2>2. WindowHoldsItems'
    BY <1>3 DEF CallPut, TypeOK, WindowHoldsItems, Threads
  <2>3. NoLostWakeup'
    BY <1>3 DEF CallPut, TypeOK, NoLostWakeup, Threads
  <2> QED
    BY <2>1, <2>2, <2>3
<1>4. ASSUME NEW c \in Consumers, GetWait(c)
      PROVE  IInv'
  <2>1. TypeOK'
    BY <1>4 DEF GetWait, TypeOK, States, Threads
  <2>2. WindowHoldsItems'
    BY <1>4, WindowKept DEF GetWait, TypeOK, Threads
  <2>3. NoLostWakeup'
    BY <1>4, RoleAssumption DEF GetWait, TypeOK, NoLostWakeup, Threads
  <2> QED
    BY <2>1, <2>2, <2>3
<1>5. ASSUME NEW c \in Consumers, GetNull(c) \/ CallGet(c)
      PROVE  IInv'
  <2>1. TypeOK'
    BY <1>5 DEF GetNull, CallGet, TypeOK, States, Threads
  <2>2. WindowHoldsItems'
    BY <1>5, WindowKept, RoleAssumption DEF GetNull, CallGet, TypeOK, Threads
  <2>3. NoLostWakeup'
    BY <1>5 DEF GetNull, CallGet, TypeOK, NoLostWakeup, Threads
  <2> QED
    BY <2>1, <2>2, <2>3
<1>6. ASSUME Close
      PROVE  IInv'
  <2>1. /\ pc' \in [Threads -> States]
        /\ \A t \in Threads : pc'[t] # "waiting"
        /\ \A t \in Threads : pc'[t] # "idle" => pc[t] # "idle"
    BY <1>6, AfterBroadcast DEF Close, TypeOK
  <2>2. TypeOK'
    BY <1>6, <2>1 DEF Close, TypeOK
  <2>3. WindowHoldsItems'
    BY <1>6, <2>1, WindowKept DEF Close, Threads
  <2>4. NoLostWakeup'
    BY <2>1 DEF NoLostWakeup, Threads
  <2> QED
    BY <2>2, <2>3, <2>4
<1>7. ASSUME NEW t \in Threads, SpuriousWakeup(t)
      PROVE  IInv'
  <2>1. TypeOK'
    BY <1>7 DEF SpuriousWakeup, TypeOK, States
  <2>2. WindowHoldsItems'
    BY <1>7, WindowKept DEF SpuriousWakeup, TypeOK, Threads
  <2>3. NoLostWakeup'
    BY <1>7 DEF SpuriousWakeup, TypeOK, NoLostWakeup, Threads
  <2> QED
    BY <2>1, <2>2, <2>3
<1> QED
  BY <1>1, <1>2, <1>3, <1>4, <1>5, <1>6, <1>7

(* Every step of the threads keeps it. *)
LEMMA NextIInv == IInv /\ [Next]_vars => IInv'
<1> SUFFICES ASSUME IInv, [Next]_vars PROVE IInv'
  OBVIOUS
<1>1. ASSUME NEW p \in Producers, PutStore(p) PROVE IInv'
  BY <1>1, PutStoreIInv
<1>2. ASSUME NEW c \in Consumers, GetTake(c) PROVE IInv'
  BY <1>2, GetTakeIInv
<1>3. CASE UNCHANGED vars
  BY <1>3 DEF vars, IInv, TypeOK, WindowHoldsItems, NoLostWakeup
<1>4. ASSUME NEW p \in Producers, \/ PutAbort(p) \/ PutWait(p)
                                 \/ \E v \in Items : CallPut(p, v)
      PROVE  IInv'
  <2>1. UNCHANGED <<buf, pos, length>>
    BY <1>4 DEF PutAbort, PutWait, CallPut
  <2> QED
    BY <1>4, <2>1, OtherStepIInv
<1>5. ASSUME NEW c \in Consumers, GetWait(c) \/ GetNull(c) \/ CallGet(c)
      PROVE  IInv'
  <2>1. UNCHANGED <<buf, pos, length>>
    BY <1>5 DEF GetWait, GetNull, CallGet
  <2> QED
    BY <1>5, <2>1, OtherStepIInv
<1>6. ASSUME Close \/ \E t \in Threads : SpuriousWakeup(t)
      PROVE  IInv'
  <2>1. UNCHANGED <<buf, pos, length>>
    BY <1>6 DEF Close, SpuriousWakeup
  <2> QED
    BY <1>6, <2>1, OtherStepIInv
<1> QED
  BY <1>1, <1>2, <1>3, <1>4, <1>5, <1>6 DEF Next, PutStep, GetStep

(* In every reachable state of a DSQueue of any capacity with any threads  *)
(* the fields have their C types and the asserts on length in put (line    *)
(* 122) and get (lines 150-151) hold.                                      *)
THEOREM TypeCorrect == Spec => []TypeOK
<1>1. IInv => TypeOK
  BY DEF IInv
<1> QED
  BY <1>1, InitIInv, NextIInv, PTL DEF Spec

(* The unread window of the ring holds items that were put, wherever it    *)
(* wraps: ds_queue_get never returns NULL or garbage from an open queue.   *)
THEOREM WindowCorrect == Spec => []WindowHoldsItems
<1>1. IInv => WindowHoldsItems
  BY DEF IInv
<1> QED
  BY <1>1, InitIInv, NextIInv, PTL DEF Spec

(* The single condition variable loses no wakeup, for any mix of threads.  *)
THEOREM WakeupCorrect == Spec => []NoLostWakeup
<1>1. IInv => NoLostWakeup
  BY DEF IInv
<1> QED
  BY <1>1, InitIInv, NextIInv, PTL DEF Spec

--------------------------------------------------------------------------------
(* The refinement.  Contents is a sequence of items, of the ring's length. *)
LEMMA ContentsSeq ==
    ASSUME TypeOK, WindowHoldsItems
    PROVE  /\ Contents \in Seq(Items)
           /\ Len(Contents) = length
           /\ Contents = [k \in 1 .. length |-> buf[Wrap(pos + k - 1)]]
<1>1. length \in Nat
  BY DEF TypeOK
<1>2. Contents = [k \in 1 .. length |-> buf[Wrap(pos + k - 1)]]
  BY RingRead DEF TypeOK, Contents
<1>3. \A k \in 1 .. length : Contents[k] \in Items
  <2> SUFFICES ASSUME NEW k \in 1 .. length
               PROVE  buf[(pos + k - 1) % Capacity] \in Items
    BY DEF Contents
  <2>1. k - 1 \in 0 .. length - 1 /\ pos + (k - 1) = pos + k - 1
    BY DEF TypeOK, Slots
  <2> QED
    BY <2>1 DEF WindowHoldsItems
<1>4. Contents \in [1 .. length -> Items]
  BY <1>3 DEF Contents
<1> QED
  BY <1>1, <1>2, <1>4

(* Storing at Slot(length) appends. *)
LEMMA PutStoreAppends ==
    ASSUME IInv, NEW p \in Producers, PutStore(p)
    PROVE  Contents' = Append(Contents, arg[p])
<1>1. IInv'
  BY PutStoreIInv
<1>2. length \in 0 .. Capacity - 1 /\ length' = length + 1 /\ pos' = pos /\ pos \in Slots
  BY CapacityAssumption DEF IInv, PutStore, TypeOK
<1>3. Slot(length) = Wrap(pos + length) /\ Slot(length) \in Slots
  BY <1>2, SlotIndex DEF IInv
<1>4. /\ Contents = [k \in 1 .. length |-> buf[Wrap(pos + k - 1)]]
      /\ Contents \in Seq(Items) /\ Len(Contents) = length
  BY ContentsSeq DEF IInv
<1>5. Contents' = [k \in 1 .. length + 1 |-> buf'[Wrap(pos + k - 1)]]
  <2>1. \A k \in 1 .. length' : (pos' + k - 1) % Capacity = Wrap(pos' + k - 1)
    BY <1>1, RingRead DEF IInv, TypeOK
  <2> QED
    BY <1>2, <2>1 DEF Contents
<1>6. ASSUME NEW k \in 1 .. length
      PROVE  buf'[Wrap(pos + k - 1)] = buf[Wrap(pos + k - 1)]
  <2>1. Wrap(pos + k - 1) # Wrap(pos + length) /\ Wrap(pos + k - 1) \in Slots
    BY <1>2, CapacityAssumption DEF Slots, Wrap
  <2> QED
    BY <2>1, <1>3 DEF PutStore, IInv, TypeOK
<1>7. buf'[Wrap(pos + (length + 1) - 1)] = arg[p]
  <2>1. pos + (length + 1) - 1 = pos + length
    BY <1>2 DEF Slots
  <2> QED
    BY <2>1, <1>3 DEF PutStore, IInv, TypeOK
<1>8. Append(Contents, arg[p])
        = [k \in 1 .. length + 1 |-> IF k = length + 1 THEN arg[p] ELSE Contents[k]]
  BY <1>4, <1>2
<1>9. ASSUME NEW k \in 1 .. length + 1
      PROVE  buf'[Wrap(pos + k - 1)] = IF k = length + 1 THEN arg[p] ELSE Contents[k]
  <2>1. CASE k = length + 1
    BY <2>1, <1>7
  <2>2. CASE k # length + 1
    <3>1. k \in 1 .. length
      BY <2>2, <1>2
    <3> QED
      BY <2>2, <3>1, <1>4, <1>6
  <2> QED
    BY <2>1, <2>2
<1> QED
  BY <1>5, <1>8, <1>9

(* Reading at pos and moving pos removes the head. *)
LEMMA GetTakePops ==
    ASSUME IInv, NEW c \in Consumers, GetTake(c)
    PROVE  /\ Contents # <<>>
           /\ buf[pos] = Head(Contents)
           /\ Contents' = Tail(Contents)
<1>1. IInv'
  BY GetTakeIInv
<1>2. length \in 1 .. Capacity /\ length' = length - 1 /\ pos \in Slots
  BY CapacityAssumption DEF IInv, GetTake, TypeOK
<1>3. pos' = Wrap(pos + 1)
  <2>1. pos + 1 \in 0 .. 2 * Capacity - 1
    BY <1>2, CapacityAssumption DEF Slots
  <2> QED
    BY <2>1, RingIndex DEF GetTake
<1>4. /\ Contents = [k \in 1 .. length |-> buf[Wrap(pos + k - 1)]]
      /\ Contents \in Seq(Items) /\ Len(Contents) = length
  BY ContentsSeq DEF IInv
<1>5. Contents' = [k \in 1 .. length - 1 |-> buf'[Wrap(pos' + k - 1)]]
  <2>1. \A k \in 1 .. length' : (pos' + k - 1) % Capacity = Wrap(pos' + k - 1)
    BY <1>1, RingRead DEF IInv, TypeOK
  <2> QED
    BY <1>2, <2>1 DEF Contents
<1>6. ASSUME NEW k \in 1 .. length - 1
      PROVE  buf'[Wrap(pos' + k - 1)] = Contents[k + 1]
  <2>1. /\ Wrap(pos' + k - 1) = Wrap(pos + (k + 1) - 1)
        /\ Wrap(pos' + k - 1) # pos
        /\ Wrap(pos' + k - 1) \in Slots
        /\ k + 1 \in 1 .. length
    BY <1>2, <1>3, CapacityAssumption DEF Slots, Wrap
  <2> QED
    BY <2>1, <1>4 DEF GetTake, IInv, TypeOK
<1>7. Contents[1] = buf[pos]
  <2>1. Wrap(pos + 1 - 1) = pos /\ 1 \in 1 .. length
    BY <1>2, CapacityAssumption DEF Slots, Wrap
  <2> QED
    BY <2>1, <1>4
<1>8. Contents # <<>> /\ Head(Contents) = Contents[1]
  BY <1>2, <1>4
<1>9. Tail(Contents) = [k \in 1 .. length - 1 |-> Contents[k + 1]]
  BY <1>2, <1>4
<1> QED
  BY <1>5, <1>6, <1>7, <1>8, <1>9

(* Every step of the ring is a step of the bounded FIFO, or none. *)
LEMMA StepRefines ==
    IInv /\ [Next]_vars => [Fifo!Next]_(Fifo!fifoVars)
<1> SUFFICES ASSUME IInv, [Next]_vars
             PROVE  [Fifo!Next]_(Fifo!fifoVars)
  OBVIOUS
<1>1. ASSUME NEW p \in Producers, PutStore(p)
      PROVE  Fifo!Next
  <2>1. arg[p] \in Items /\ Contents' = Append(Contents, arg[p])
    BY <1>1, PutStoreAppends DEF IInv, WindowHoldsItems, PutStore
  <2>2. Len(Contents) < Capacity
    BY <1>1, ContentsSeq DEF IInv, PutStore
  <2>3. Fifo!Enqueue(arg[p])
    BY <1>1, <2>1, <2>2 DEF PutStore, Fifo!Enqueue
  <2> QED
    BY <2>1, <2>3 DEF Fifo!Next
<1>2. ASSUME NEW c \in Consumers, GetTake(c)
      PROVE  Fifo!Next
  <2>1. Fifo!Dequeue(c)
    BY <1>2, GetTakePops DEF GetTake, Fifo!Dequeue
  <2> QED
    BY <2>1 DEF Fifo!Next
<1>3. ASSUME NEW c \in Consumers, GetNull(c)
      PROVE  Fifo!Next
  <2>1. Contents = <<>> /\ Contents' = Contents
    BY <1>3 DEF GetNull, Contents
  <2>2. Fifo!Drained(c)
    BY <1>3, <2>1 DEF GetNull, Fifo!Drained
  <2> QED
    BY <2>2 DEF Fifo!Next
<1>4. ASSUME Close
      PROVE  Fifo!Next
  BY <1>4 DEF Close, Contents, Fifo!Close, Fifo!Next
<1>5. ASSUME UNCHANGED <<buf, pos, length, closed, ret>>
      PROVE  UNCHANGED Fifo!fifoVars
  BY <1>5 DEF Contents, Fifo!fifoVars
<1>6. CASE UNCHANGED vars
  BY <1>5, <1>6 DEF vars
<1>7. ASSUME NEW p \in Producers, PutAbort(p) \/ PutWait(p) \/ \E v \in Items : CallPut(p, v)
      PROVE  UNCHANGED Fifo!fifoVars
  BY <1>5, <1>7 DEF PutAbort, PutWait, CallPut
<1>8. ASSUME NEW c \in Consumers, GetWait(c) \/ CallGet(c)
      PROVE  UNCHANGED Fifo!fifoVars
  BY <1>5, <1>8 DEF GetWait, CallGet
<1>9. ASSUME NEW t \in Threads, SpuriousWakeup(t)
      PROVE  UNCHANGED Fifo!fifoVars
  BY <1>5, <1>9 DEF SpuriousWakeup
<1> QED
  BY <1>1, <1>2, <1>3, <1>4, <1>6, <1>7, <1>8, <1>9 DEF Next, PutStep, GetStep

(* DSQueue implements the bounded FIFO of buffer.h: items leave in order,  *)
(* none is lost, duplicated or made up, the bound holds, a closed queue    *)
(* takes nothing and NULL is returned only when it is closed and drained.  *)
THEOREM Refinement == Spec => RefinesFifo
<1>1. Init => Fifo!Init
  <2> SUFFICES ASSUME Init PROVE Fifo!Init
    OBVIOUS
  <2>1. Contents = <<>>
    BY DEF Init, Contents
  <2> QED
    BY <2>1 DEF Init, Fifo!Init
<1> QED
  BY <1>1, InitIInv, NextIInv, StepRefines, PTL DEF Spec, Fifo!Spec, RefinesFifo
================================================================================
