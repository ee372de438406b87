------------------------------ MODULE BoundedFifo ------------------------------
(***************************************************************************)
(* What buffer.h promises of a DSQueue, without threads, mutex or ring: a  *)
(* bounded queue whose items leave in the order in which they were put,    *)
(* which takes nothing once closed, and which answers NULL to a reader     *)
(* exactly when it is closed and drained.                                  *)
(***************************************************************************)
EXTENDS Naturals, Sequences

CONSTANTS Items,      \* the values that producers put
          Consumers,  \* the threads that call ds_queue_get
          Capacity,   \* ds_queue_capacity
          NULL        \* the NULL pointer

VARIABLES fifo,       \* the items in the queue, first to leave first
          shut,       \* ds_queue_close has been called
          last        \* what each consumer's last ds_queue_get returned

fifoVars == <<fifo, shut, last>>

Init ==
    /\ fifo = <<>>
    /\ shut = FALSE
    /\ last = [c \in Consumers |-> NULL]

Enqueue(v) ==
    /\ ~shut
    /\ Len(fifo) < Capacity
    /\ fifo' = Append(fifo, v)
    /\ UNCHANGED <<shut, last>>

Dequeue(c) ==
    /\ fifo # <<>>
    /\ last' = [last EXCEPT ![c] = Head(fifo)]
    /\ fifo' = Tail(fifo)
    /\ UNCHANGED shut

Drained(c) ==
    /\ shut
    /\ fifo = <<>>
    /\ last' = [last EXCEPT ![c] = NULL]
    /\ UNCHANGED <<fifo, shut>>

Close ==
    /\ shut' = TRUE
    /\ UNCHANGED <<fifo, last>>

Next ==
    \/ \E v \in Items : Enqueue(v)
    \/ \E c \in Consumers : Dequeue(c) \/ Drained(c)
    \/ Close

Spec == Init /\ [][Next]_fifoVars
================================================================================
