----------------------------- MODULE CollectServer -----------------------------
(***************************************************************************)
(* The collector server (DataReceiver.cpp).  run accepts the connections   *)
(* of the APs and starts a thread receive for each; the threads share one  *)
(* buffer with save, which writes its records to the database.             *)
(*                                                                         *)
(* Every thread is given the address of the one local variable client of   *)
(* run and reads the descriptor from there at each call, so all of them    *)
(* use the connection that was accepted last.  Connections are numbered in *)
(* the order they are accepted, and thread t was started for connection t. *)
(*                                                                         *)
(* pthread_cond_wait may return without a signal, which the two waits,     *)
(* being in no loop, do not allow for: spurious records where it did.      *)
(***************************************************************************)
EXTENDS Integers

CONSTANTS
    Connections,   \* 1 .. n
    Max,           \* MAX of receivebuffer.h
    MaxSend,       \* bound on the records an AP has under way
    MaxBuffer      \* bound on the buffer once it has passed Max

ASSUME ServerAssumption ==
    /\ Connections \subseteq Nat \ {0}
    /\ Max \in Nat \ {0}
    /\ MaxSend \in Nat
    /\ MaxBuffer \in Nat /\ MaxBuffer > Max

VARIABLES
    client,    \* the variable of run, 0 before the first connection
    wire,      \* the records sent and not read yet, per connection
    ended,     \* the connections the AP has ended
    closed,    \* the descriptors the server has closed
    receiver,  \* where each thread receive is
    fd,        \* the descriptor of the read a thread is in
    buffer,    \* the number of records in the buffer
    saver,     \* where save is; it holds mutex in "query"
    pinging,   \* heartBeat holds mutex2
    alive,     \* the process has neither crashed nor called exit
    spurious   \* the conditions a wait on which has returned without a signal

vars == <<client, wire, ended, closed, receiver, fd, buffer, saver, pinging, alive, spurious>>

ReceiverStates == {"none", "read", "blocked", "enter", "full", "roused", "closing", "done"}
SaverStates == {"enter", "wait", "woken", "spurious", "query", "crashed"}
Conditions == {"full", "empty"}

Init ==
    /\ client = 0
    /\ wire = [c \in Connections |-> 0]
    /\ ended = {}
    /\ closed = {}
    /\ receiver = [c \in Connections |-> "none"]
    /\ fd = [c \in Connections |-> 0]
    /\ buffer = 0
    /\ saver = "enter"
    /\ pinging = FALSE
    /\ alive = TRUE
    /\ spurious = {}

MutexFree == saver # "query"

-----------------------------------------------------------------------------
(* The accept of run and the thread it starts. *)
Accept(c) ==
    /\ alive /\ receiver[c] = "none" /\ c = client + 1
    /\ client' = c
    /\ receiver' = [receiver EXCEPT ![c] = "read"]
    /\ UNCHANGED <<wire, ended, closed, fd, buffer, saver, pinging, alive, spurious>>

(* An accept that fails ends the process. *)
AcceptFails ==
    /\ alive /\ alive' = FALSE
    /\ UNCHANGED <<client, wire, ended, closed, receiver, fd, buffer, saver, pinging, spurious>>

(* An AP sends a record, or ends its connection. *)
Send(c) ==
    /\ receiver[c] # "none" /\ c \notin ended
    /\ wire[c] < MaxSend
    /\ wire' = [wire EXCEPT ![c] = @ + 1]
    /\ UNCHANGED <<client, ended, closed, receiver, fd, buffer, saver, pinging, alive, spurious>>

End(c) ==
    /\ receiver[c] # "none" /\ c \notin ended
    /\ ended' = ended \union {c}
    /\ UNCHANGED <<client, wire, closed, receiver, fd, buffer, saver, pinging, alive, spurious>>

-----------------------------------------------------------------------------
(* receive calls read on *client.  On a closed descriptor the result is -1, *)
(* which the loop takes for a record.                                       *)
ReadCall(t) ==
    /\ alive /\ receiver[t] = "read"
    /\ fd' = [fd EXCEPT ![t] = client]
    /\ receiver' = [receiver EXCEPT ![t] = IF client \in closed THEN "enter" ELSE "blocked"]
    /\ UNCHANGED <<client, wire, ended, closed, buffer, saver, pinging, alive, spurious>>

(* pthread_cond_signal(&empty). *)
Signalled == IF saver = "wait" THEN "woken" ELSE saver

(* A variant for comparison: receive signals empty before it has the mutex. *)
ReadReturnSignals(t) ==
    /\ alive /\ receiver[t] = "blocked"
    /\ \/ /\ wire[fd[t]] > 0
          /\ wire' = [wire EXCEPT ![fd[t]] = @ - 1]
          /\ receiver' = [receiver EXCEPT ![t] = "enter"]
          /\ saver' = Signalled
       \/ /\ wire[fd[t]] = 0 /\ fd[t] \in ended
          /\ receiver' = [receiver EXCEPT ![t] = "closing"]
          /\ UNCHANGED <<wire, saver>>
    /\ UNCHANGED <<client, ended, closed, fd, buffer, pinging, alive, spurious>>

ReadReturn(t) ==
    /\ alive /\ receiver[t] = "blocked"
    /\ \/ /\ wire[fd[t]] > 0
          /\ wire' = [wire EXCEPT ![fd[t]] = @ - 1]
          /\ receiver' = [receiver EXCEPT ![t] = "enter"]
       \/ /\ wire[fd[t]] = 0 /\ fd[t] \in ended
          /\ receiver' = [receiver EXCEPT ![t] = "closing"]
          /\ UNCHANGED wire
    /\ UNCHANGED <<client, ended, closed, fd, buffer, saver, pinging, alive, spurious>>

(* A variant for comparison: receive without the signal. *)
EnterSilent(t) ==
    /\ alive /\ MutexFree
    /\ receiver[t] \in {"enter", "roused"} /\ buffer < MaxBuffer
    /\ IF receiver[t] = "enter" /\ buffer = Max
       THEN receiver' = [receiver EXCEPT ![t] = "full"] /\ UNCHANGED buffer
       ELSE receiver' = [receiver EXCEPT ![t] = "read"] /\ buffer' = buffer + 1
    /\ UNCHANGED <<client, wire, ended, closed, fd, saver, pinging, alive, spurious>>

(* The critical section of receive.  The test of IsFull is an if: a thread  *)
(* that a signal on full has roused adds its record without another look.   *)
Enter(t) ==
    /\ alive /\ MutexFree
    /\ receiver[t] \in {"enter", "roused"} /\ buffer < MaxBuffer
    /\ IF receiver[t] = "enter" /\ buffer = Max
       THEN receiver' = [receiver EXCEPT ![t] = "full"] /\ UNCHANGED <<buffer, saver>>
       ELSE /\ receiver' = [receiver EXCEPT ![t] = "read"]
            /\ buffer' = buffer + 1
            /\ saver' = Signalled
    /\ UNCHANGED <<client, wire, ended, closed, fd, pinging, alive, spurious>>

(* receive closes the descriptor that client holds by now. *)
CloseClient(t) ==
    /\ alive /\ receiver[t] = "closing"
    /\ closed' = closed \union {client}
    /\ receiver' = [receiver EXCEPT ![t] = "done"]
    /\ UNCHANGED <<client, wire, ended, fd, buffer, saver, pinging, alive, spurious>>

-----------------------------------------------------------------------------
(* A variant for comparison: save without the test of IsEmpty. *)
SaveTakeUntested ==
    /\ alive /\ saver \in {"enter", "woken", "spurious"}
    /\ saver' = "query" /\ buffer' = buffer - 1
    /\ UNCHANGED <<client, wire, ended, closed, receiver, fd, pinging, alive, spurious>>

(* save: the test of IsEmpty is an if as well.  Get on an empty list is     *)
(* undefined; with the list of this build, whose head is followed by its    *)
(* size, it returns NULL, and print_record ends the process.                *)
SaveTake ==
    /\ alive
    /\ \/ /\ saver = "enter" /\ buffer = 0
          /\ saver' = "wait"
          /\ UNCHANGED <<buffer, alive>>
       \/ /\ saver \in {"enter", "woken", "spurious"} /\ buffer > 0
          /\ saver' = "query" /\ buffer' = buffer - 1
          /\ UNCHANGED alive
       \/ /\ saver \in {"woken", "spurious"} /\ buffer = 0
          /\ saver' = "crashed" /\ alive' = FALSE
          /\ UNCHANGED buffer
    /\ UNCHANGED <<client, wire, ended, closed, receiver, fd, pinging, spurious>>

(* A variant for comparison: save signals full, which receive waits for. *)
SaveDoneFull ==
    /\ alive /\ saver = "query" /\ ~pinging
    /\ saver' = "enter"
    /\ IF \E t \in Connections : receiver[t] = "full"
       THEN \E t \in Connections : /\ receiver[t] = "full"
                                   /\ receiver' = [receiver EXCEPT ![t] = "roused"]
       ELSE UNCHANGED receiver
    /\ UNCHANGED <<client, wire, ended, closed, fd, buffer, pinging, alive, spurious>>

(* mysql_query under mutex2, then a signal on empty, where only save itself *)
(* ever waits, and the release of mutex.                                    *)
SaveDone ==
    /\ alive /\ saver = "query" /\ ~pinging
    /\ saver' = "enter"
    /\ UNCHANGED <<client, wire, ended, closed, receiver, fd, buffer, pinging, alive, spurious>>

(* pthread_cond_wait returns without a signal, in receive or in save. *)
SpuriousFull(t) ==
    /\ alive /\ receiver[t] = "full"
    /\ receiver' = [receiver EXCEPT ![t] = "roused"]
    /\ spurious' = spurious \union {"full"}
    /\ UNCHANGED <<client, wire, ended, closed, fd, buffer, saver, pinging, alive>>

SpuriousEmpty ==
    /\ alive /\ saver = "wait"
    /\ saver' = "spurious"
    /\ spurious' = spurious \union {"empty"}
    /\ UNCHANGED <<client, wire, ended, closed, receiver, fd, buffer, pinging, alive>>

(* heartBeat pings the database once an hour under mutex2. *)
Ping ==
    /\ alive
    /\ pinging' = ~pinging
    /\ UNCHANGED <<client, wire, ended, closed, receiver, fd, buffer, saver, alive, spurious>>

Next ==
    \/ \E c \in Connections : Accept(c) \/ Send(c) \/ End(c)
    \/ AcceptFails
    \/ \E t \in Connections : ReadCall(t) \/ ReadReturn(t) \/ Enter(t) \/ CloseClient(t)
    \/ SaveTake \/ SaveDone
    \/ Ping
    \/ SpuriousEmpty \/ \E t \in Connections : SpuriousFull(t)

Spec == Init /\ [][Next]_vars

(* Threads run.  heartBeat sleeps an hour between two pings, so that save   *)
(* gets mutex2 although both compete for it again and again.                *)
FairSpec ==
    /\ Spec
    /\ \A t \in Connections :
           /\ WF_vars(ReadCall(t)) /\ WF_vars(ReadReturn(t))
           /\ SF_vars(Enter(t)) /\ WF_vars(CloseClient(t))
    /\ WF_vars(SaveTake) /\ SF_vars(SaveDone)
    /\ WF_vars(pinging /\ Ping)

-----------------------------------------------------------------------------
(* The types of the variables. *)
TypeOK ==
    /\ client \in Nat
    /\ wire \in [Connections -> 0 .. MaxSend]
    /\ ended \subseteq Connections
    /\ closed \subseteq Nat
    /\ receiver \in [Connections -> ReceiverStates]
    /\ fd \in [Connections -> Nat]
    /\ buffer \in 0 .. MaxBuffer
    /\ saver \in SaverStates
    /\ pinging \in BOOLEAN
    /\ alive \in BOOLEAN
    /\ spurious \subseteq Conditions

(* The buffer exceeds MAX only after a wait on full has returned without a  *)
(* signal.  IsFull tests for equality, once, before a wait that is in no    *)
(* loop: what bounds the buffer is that nothing ever signals full, and one  *)
(* spurious return is enough to pass MAX, where IsFull is false for good.   *)
BufferBounded == buffer > Max => "full" \in spurious

(* A signal on empty finds save a record: none comes without one, is left   *)
(* over from an earlier one, or loses its record to another thread before   *)
(* save has the mutex again.  So the process dies of Get on an empty list   *)
(* only if the wait on empty has returned without a signal.                 *)
WokenHasRecord ==
    /\ saver = "woken" => buffer > 0
    /\ saver = "crashed" => "empty" \in spurious

(* A full buffer is emptied again as long as the process lives: save is     *)
(* never left waiting on empty while there are records, and never stuck     *)
(* between the two mutexes.  Once a spurious return on full has let the     *)
(* buffer past MAX, the receivers may keep it there.                        *)
BufferDrains == buffer = Max ~> (buffer < Max \/ ~alive \/ "full" \in spurious)
================================================================================
