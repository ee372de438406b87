-------------------------------- MODULE DSQueue --------------------------------
(***************************************************************************)
(* The blocking ring buffer between getArgs and sendData of the data       *)
(* collector's client (InfoCollectClient_V1.1/src/buffer.c).               *)
(*                                                                         *)
(* Every operation takes queue->mutate first and gives it up only on       *)
(* return or inside pthread_cond_wait, so one action is the stretch of     *)
(* code a thread runs from acquiring the mutex to giving it up.  A thread  *)
(* that has called ds_queue_put or ds_queue_get and competes for the mutex *)
(* is "calling"; a thread inside pthread_cond_wait is "waiting"; one that  *)
(* a broadcast (or a spurious wakeup) released, and that competes for the  *)
(* mutex again, is "woken".                                                *)
(***************************************************************************)
EXTENDS Integers, Sequences

CONSTANTS
    Producers,   \* threads that call ds_queue_put
    Consumers,   \* threads that call ds_queue_get
    Closers,     \* threads that call ds_queue_close (none in infoCollect.c)
    Items,       \* the pointers that are put
    Capacity,    \* buffer_capacity
    Word,        \* number of values of uint32_t
    NULL,        \* the NULL pointer
    Junk         \* what malloc leaves in a slot

(* create asserts buffer_capacity > 0; pos + length must fit in a word. *)
ASSUME CapacityAssumption ==
    /\ Capacity \in Nat \ {0}
    /\ Word \in Nat
    /\ 2 * Capacity - 1 =< Word
(* A thread has one role, and a pointer that is put is a real pointer. *)
ASSUME RoleAssumption == Producers \cap Consumers = {}
ASSUME ItemAssumption == NULL \notin Items /\ Junk \notin Items /\ NULL # Junk

VARIABLES
    buf,      \* queue->buf, indexed as in C
    pos,      \* queue->pos
    length,   \* queue->length
    closed,   \* queue->closed
    pc,       \* where each thread is
    arg,      \* the item of the put a producer is in
    ret,      \* what the last get of a consumer returned
    aborted   \* the assert that ended the process

vars == <<buf, pos, length, closed, pc, arg, ret, aborted>>

Threads == Producers \cup Consumers
States == {"idle", "calling", "waiting", "woken"}
Slots == 0 .. Capacity - 1

(* Variant: the read position is left out of the slot of a put. *)
SlotNoPos(k) == (k % Word) % Capacity

(* The slot that holds, or will hold, the item number k of the queue. *)
Slot(k) == ((pos + k) % Word) % Capacity

Init ==
    /\ buf = [i \in Slots |-> Junk]
    /\ pos = 0
    /\ length = 0
    /\ closed = FALSE
    /\ pc = [t \in Threads |-> "idle"]
    /\ arg = [p \in Producers |-> NULL]
    /\ ret = [c \in Consumers |-> NULL]
    /\ aborted = "no"

(* pthread_cond_broadcast: f is pc after the caller's own move. *)
Broadcast(f) == [t \in Threads |-> IF f[t] = "waiting" THEN "woken" ELSE f[t]]

(* The contract of buffer.h: no ds_queue_put on a queue already closed. *)
CallPut(p, v) ==
    /\ pc[p] = "idle"
    /\ ~closed
    /\ pc' = [pc EXCEPT ![p] = "calling"]
    /\ arg' = [arg EXCEPT ![p] = v]
    /\ UNCHANGED <<buf, pos, length, closed, ret, aborted>>

CallGet(c) ==
    /\ pc[c] = "idle"
    /\ pc' = [pc EXCEPT ![c] = "calling"]
    /\ UNCHANGED <<buf, pos, length, closed, arg, ret, aborted>>

(* assert(!queue->closed) fails: on entry, or after the wait. *)
PutAbort(p) ==
    /\ closed
    /\ \/ pc[p] = "calling" /\ aborted' = "entry"
       \/ pc[p] = "woken" /\ length < Capacity /\ aborted' = "afterWait"
    /\ UNCHANGED <<buf, pos, length, closed, pc, arg, ret>>

(* while (queue->length == queue->capacity) pthread_cond_wait(...) *)
PutWait(p) ==
    /\ \/ pc[p] = "calling" /\ ~closed
       \/ pc[p] = "woken"
    /\ length = Capacity
    /\ pc' = [pc EXCEPT ![p] = "waiting"]
    /\ UNCHANGED <<buf, pos, length, closed, arg, ret, aborted>>

(* Variant: no broadcast after a store. *)
PutStoreSilent(p) ==
    /\ pc[p] \in {"calling", "woken"}
    /\ ~closed
    /\ length < Capacity
    /\ buf' = [buf EXCEPT ![Slot(length)] = arg[p]]
    /\ length' = length + 1
    /\ pc' = [pc EXCEPT ![p] = "idle"]
    /\ arg' = [arg EXCEPT ![p] = NULL]
    /\ UNCHANGED <<pos, closed, ret, aborted>>

(* Variant: the second assert(!queue->closed) is missing. *)
PutStoreUnasserted(p) ==
    /\ pc[p] \in {"calling", "woken"}
    /\ length < Capacity
    /\ buf' = [buf EXCEPT ![Slot(length)] = arg[p]]
    /\ length' = length + 1
    /\ pc' = Broadcast([pc EXCEPT ![p] = "idle"])
    /\ arg' = [arg EXCEPT ![p] = NULL]
    /\ UNCHANGED <<pos, closed, ret, aborted>>

PutStore(p) ==
    /\ pc[p] \in {"calling", "woken"}
    /\ ~closed
    /\ length < Capacity
    /\ buf' = [buf EXCEPT ![Slot(length)] = arg[p]]
    /\ length' = length + 1
    /\ pc' = Broadcast([pc EXCEPT ![p] = "idle"])
    /\ arg' = [arg EXCEPT ![p] = NULL]
    /\ UNCHANGED <<pos, closed, ret, aborted>>

(* Variant: the loop does not look at queue->closed. *)
GetWaitClosed(c) ==
    /\ pc[c] \in {"calling", "woken"}
    /\ length = 0
    /\ pc' = [pc EXCEPT ![c] = "waiting"]
    /\ UNCHANGED <<buf, pos, length, closed, arg, ret, aborted>>

(* while (queue->length == 0), the queue open *)
GetWait(c) ==
    /\ pc[c] \in {"calling", "woken"}
    /\ length = 0
    /\ ~closed
    /\ pc' = [pc EXCEPT ![c] = "waiting"]
    /\ UNCHANGED <<buf, pos, length, closed, arg, ret, aborted>>

(* ... and the queue closed: return NULL, length unchanged, no broadcast *)
GetNull(c) ==
    /\ pc[c] \in {"calling", "woken"}
    /\ length = 0
    /\ closed
    /\ ret' = [ret EXCEPT ![c] = NULL]
    /\ pc' = [pc EXCEPT ![c] = "idle"]
    /\ UNCHANGED <<buf, pos, length, closed, arg, aborted>>

(* Variant: pos is not reduced modulo the capacity. *)
GetTakeNoWrap(c) ==
    /\ pc[c] \in {"calling", "woken"}
    /\ length > 0
    /\ ret' = [ret EXCEPT ![c] = buf[pos]]
    /\ buf' = [buf EXCEPT ![pos] = NULL]
    /\ pos' = pos + 1
    /\ length' = length - 1
    /\ pc' = Broadcast([pc EXCEPT ![c] = "idle"])
    /\ UNCHANGED <<closed, arg, aborted>>

(* Variant: no broadcast after an item was taken. *)
GetTakeSilent(c) ==
    /\ pc[c] \in {"calling", "woken"}
    /\ length > 0
    /\ ret' = [ret EXCEPT ![c] = buf[pos]]
    /\ buf' = [buf EXCEPT ![pos] = NULL]
    /\ pos' = (pos + 1) % Capacity
    /\ length' = length - 1
    /\ pc' = [pc EXCEPT ![c] = "idle"]
    /\ UNCHANGED <<closed, arg, aborted>>

GetTake(c) ==
    /\ pc[c] \in {"calling", "woken"}
    /\ length > 0
    /\ ret' = [ret EXCEPT ![c] = buf[pos]]
    /\ buf' = [buf EXCEPT ![pos] = NULL]
    /\ pos' = (pos + 1) % Capacity
    /\ length' = length - 1
    /\ pc' = Broadcast([pc EXCEPT ![c] = "idle"])
    /\ UNCHANGED <<closed, arg, aborted>>

(* Variant: close does not wake the sleepers. *)
CloseSilent ==
    /\ Closers # {}
    /\ closed' = TRUE
    /\ UNCHANGED <<buf, pos, length, pc, arg, ret, aborted>>

Close ==
    /\ Closers # {}
    /\ closed' = TRUE
    /\ pc' = Broadcast(pc)
    /\ UNCHANGED <<buf, pos, length, arg, ret, aborted>>

(* POSIX lets pthread_cond_wait return without a broadcast. *)
SpuriousWakeup(t) ==
    /\ pc[t] = "waiting"
    /\ pc' = [pc EXCEPT ![t] = "woken"]
    /\ UNCHANGED <<buf, pos, length, closed, arg, ret, aborted>>

PutStep(p) == PutAbort(p) \/ PutWait(p) \/ PutStore(p)
GetStep(c) == GetWait(c) \/ GetNull(c) \/ GetTake(c)

Next ==
    /\ aborted = "no"
    /\ \/ \E p \in Producers : PutStep(p) \/ \E v \in Items : CallPut(p, v)
       \/ \E c \in Consumers : GetStep(c) \/ CallGet(c)
       \/ Close
       \/ \E t \in Threads : SpuriousWakeup(t)

Spec == Init /\ [][Next]_vars

(* sendData calls ds_queue_get in an endless loop, and a thread that        *)
(* competes for the mutex gets it in the end (whatever it then finds, which *)
(* may send it back to sleep).  Nobody is obliged to call ds_queue_put.     *)
Fairness ==
    /\ \A p \in Producers : WF_vars(aborted = "no" /\ PutStep(p))
    /\ \A c \in Consumers : WF_vars(aborted = "no" /\ (GetStep(c) \/ CallGet(c)))

FairSpec == Spec /\ Fairness
--------------------------------------------------------------------------------
(* One type invariant: the C types, and 0 <= length <= capacity, which the *)
(* asserts of put (line 122) and get (lines 150-151) rely on.              *)
TypeOK ==
    /\ buf \in [Slots -> Items \cup {NULL, Junk}]
    /\ pos \in Slots
    /\ length \in 0 .. Capacity
    /\ closed \in BOOLEAN
    /\ pc \in [Threads -> States]
    /\ arg \in [Producers -> Items \cup {NULL}]
    /\ ret \in [Consumers -> Items \cup {NULL, Junk}]
    /\ aborted \in {"no", "entry", "afterWait"}

(* The window of length slots that starts at pos, and wraps, holds items   *)
(* that were put: a get never hands out NULL or an uninitialised pointer   *)
(* while the queue is not drained, and no put overwrites an unread item.   *)
WindowHoldsItems ==
    /\ \A k \in 0 .. length - 1 : buf[(pos + k) % Capacity] \in Items
    /\ \A p \in Producers : pc[p] # "idle" => arg[p] \in Items

(* No lost wakeup: whoever sleeps in pthread_cond_wait sleeps for a reason *)
(* that still holds, although one condition variable serves producers and  *)
(* consumers and the mutex is given up between the test and the sleep.     *)
NoLostWakeup ==
    /\ \A p \in Producers : pc[p] = "waiting" => length = Capacity
    /\ \A c \in Consumers : pc[c] = "waiting" => length = 0 /\ ~closed

(* The ring, read from pos, is a bounded FIFO. *)
Contents == [k \in 1 .. length |-> buf[(pos + k - 1) % Capacity]]

Fifo == INSTANCE BoundedFifo WITH fifo <- Contents, shut <- closed, last <- ret

(* Every step of the threads is a step of the bounded FIFO of buffer.h or  *)
(* leaves it alone: order kept, nothing lost, nothing handed out twice.    *)
RefinesFifo == Fifo!Spec

(* getArgs, the only producer of infoCollect.c, which holds mtx across     *)
(* ds_queue_put, is never stuck in it: with the consumers draining, a put  *)
(* returns, however often it has to wait, unless the queue is closed.      *)
PutReturns == \A p \in Producers : pc[p] = "calling" ~> pc[p] = "idle" \/ closed

(* A full queue does not stay full, open or closed: some consumer is awake *)
(* or is woken.                                                            *)
QueueDrains == length = Capacity ~> length < Capacity \/ aborted # "no"

(* After ds_queue_close no consumer stays blocked ("NULL will be returned  *)
(* immediately", buffer.h:66): each get under way returns.                 *)
CloseReleasesGets ==
    \A c \in Consumers :
        closed /\ pc[c] # "idle" ~> pc[c] = "idle" \/ aborted # "no"
================================================================================
