----------------------------- MODULE CollectClient -----------------------------
(***************************************************************************)
(* The threads of the collector client (infoCollect.c).  The capture       *)
(* thread runs captureOne for every packet: a SYN-ACK opens a session in   *)
(* sessionTable, the ACK that follows ends it and hands a record to        *)
(* getArgs through the one variable cur_task.  getArgs completes the       *)
(* record and puts it in the send queue, which sendData empties.           *)
(*                                                                         *)
(* getArgs keeps mtx while it runs getInfo and ds_queue_put; captureOne    *)
(* only tries the lock and runs from there to its unlock without waiting,  *)
(* so here it is one step.  The send queue is the bounded FIFO that        *)
(* DSQueue implements.                                                     *)
(***************************************************************************)
EXTENDS HashTable

CONSTANTS
    QueueCap,   \* MAXSIZE, the capacity of the send queue
    MaxNow,     \* bound on the clock
    MaxSize     \* bound on the size of the table

ASSUME ClientAssumption ==
    /\ IsFiniteSet(Keys)
    /\ QueueCap \in Nat /\ MaxNow \in Nat
    /\ MaxSize \in Nat /\ InitSize <= MaxSize

VARIABLES
    sessionTable,
    now,
    opened,     \* history: the time of the last SYN-ACK of each open session
    cur_task,   \* the session whose record is handed over, or None
    getter,     \* where getArgs is
    queued,     \* the number of records in the send queue
    sender      \* where sendData is

vars == <<sessionTable, now, opened, cur_task, getter, queued, sender>>

Init ==
    /\ sessionTable = ht_init(InitSize)
    /\ now = 0
    /\ opened = [k \in Keys |-> None]
    /\ cur_task = None
    /\ getter = "lock"
    /\ queued = 0
    /\ sender = "get"

(* The process runs until the table is corrupted or SIGPIPE kills it. *)
Running == ~sessionTable.broken /\ sender # "killed"

(* getArgs holds mtx from the end of its wait until the record is dealt with. *)
Locked == getter \in {"info", "put"}

-----------------------------------------------------------------------------
(* captureOne on a SYN-ACK. *)
SynAck(k) ==
    /\ Running
    /\ sessionTable' = ht_insert(sessionTable, k, now, now)
    /\ sessionTable'.size <= MaxSize
    /\ opened' = [opened EXCEPT ![k] = now]
    /\ UNCHANGED <<now, cur_task, getter, queued, sender>>

(* Variants for comparison: captureOne without the lock, and without the    *)
(* signal.                                                                  *)
AckUnlocked(k) ==
    /\ Running
    /\ ht_get(sessionTable, k) # None
    /\ sessionTable' = ht_remove(sessionTable, k)
    /\ opened' = [opened EXCEPT ![k] = None]
    /\ cur_task' = k
    /\ getter' = IF getter = "wait" THEN "lock" ELSE getter
    /\ UNCHANGED <<now, queued, sender>>

AckSilent(k) ==
    /\ Running
    /\ ht_get(sessionTable, k) # None
    /\ sessionTable' = ht_remove(sessionTable, k)
    /\ opened' = [opened EXCEPT ![k] = None]
    /\ cur_task' = IF Locked THEN cur_task ELSE k
    /\ UNCHANGED <<now, getter, queued, sender>>

(* captureOne on an ACK of a session in the table.  While getArgs has the   *)
(* lock the record is freed; a record that getArgs has not taken yet is     *)
(* overwritten.                                                             *)
Ack(k) ==
    /\ Running
    /\ ht_get(sessionTable, k) # None
    /\ sessionTable' = ht_remove(sessionTable, k)
    /\ opened' = [opened EXCEPT ![k] = None]
    /\ IF Locked THEN UNCHANGED <<cur_task, getter>>
       ELSE /\ cur_task' = k
            /\ getter' = IF getter = "wait" THEN "lock" ELSE getter
    /\ UNCHANGED <<now, queued, sender>>

Tick ==
    /\ Running
    /\ now < MaxNow
    /\ now' = now + 1
    /\ UNCHANGED <<sessionTable, opened, cur_task, getter, queued, sender>>

-----------------------------------------------------------------------------
(* getArgs: the lock, or the end of the wait, and the test of cur_task. *)
GetLock ==
    /\ Running
    /\ getter = "lock"
    /\ getter' = IF cur_task = None THEN "wait" ELSE "info"
    /\ UNCHANGED <<sessionTable, now, opened, cur_task, queued, sender>>

(* getInfo returns true or false; false frees the record. *)
GetInfo(complete) ==
    /\ Running
    /\ getter = "info"
    /\ IF complete THEN getter' = "put" /\ UNCHANGED cur_task
       ELSE getter' = "lock" /\ cur_task' = None
    /\ UNCHANGED <<sessionTable, now, opened, queued, sender>>

(* A variant for comparison: a put that does not wait for room. *)
GetPutUnbounded ==
    /\ Running
    /\ getter = "put"
    /\ queued' = queued + 1
    /\ cur_task' = None
    /\ getter' = "lock"
    /\ UNCHANGED <<sessionTable, now, opened, sender>>

(* ds_queue_put waits for room, with mtx held. *)
GetPut ==
    /\ Running
    /\ getter = "put"
    /\ queued < QueueCap
    /\ queued' = queued + 1
    /\ cur_task' = None
    /\ getter' = "lock"
    /\ UNCHANGED <<sessionTable, now, opened, sender>>

(* sendData takes a record and writes it to the server.  write blocks while *)
(* the server does not read, and kills the process when it has closed the   *)
(* connection, since nothing handles SIGPIPE.                               *)
SendGet ==
    /\ Running
    /\ sender = "get" /\ queued > 0
    /\ queued' = queued - 1
    /\ sender' = "write"
    /\ UNCHANGED <<sessionTable, now, opened, cur_task, getter>>

SendWrite ==
    /\ Running
    /\ sender = "write"
    /\ sender' = "get"
    /\ UNCHANGED <<sessionTable, now, opened, cur_task, getter, queued>>

SendKilled ==
    /\ Running
    /\ sender = "write"
    /\ sender' = "killed"
    /\ UNCHANGED <<sessionTable, now, opened, cur_task, getter, queued>>

Next ==
    \/ \E k \in Keys : SynAck(k)
    \/ \E k \in Keys : Ack(k)
    \/ Tick
    \/ GetLock
    \/ \E complete \in BOOLEAN : GetInfo(complete)
    \/ GetPut
    \/ SendGet
    \/ SendWrite
    \/ SendKilled

Spec == Init /\ [][Next]_vars

(* The two threads run.  That write returns is not assumed: every thread of *)
(* the server reads from the connection it accepted last, and an earlier    *)
(* one is not read any more.                                                *)
FairSpec ==
    /\ Spec
    /\ WF_vars(GetLock)
    /\ WF_vars(\E complete \in BOOLEAN : GetInfo(complete))
    /\ WF_vars(GetPut)
    /\ WF_vars(SendGet)

-----------------------------------------------------------------------------
(* The types of the variables; the send queue is within its capacity and    *)
(* getArgs has a record whenever it works on one.                           *)
TypeOK ==
    /\ sessionTable.size \in InitSize .. MaxSize
    /\ sessionTable.count \in 0 .. Cardinality(Keys)
    /\ sessionTable.collisions \in Nat
    /\ now \in 0 .. MaxNow
    /\ opened \in [Keys -> Nat \union {None}]
    /\ cur_task \in Keys \union {None}
    /\ getter \in {"lock", "wait", "info", "put"}
    /\ queued \in 0 .. QueueCap
    /\ sender \in {"get", "write", "killed"}
    /\ Locked => cur_task # None

(* Through insertions, ageing, removals and resizes, in any order, every    *)
(* entry of sessionTable is in the bucket of its key, no key is there       *)
(* twice, key_count is exact and collisions (an unsigned int) never falls   *)
(* below the number of entries behind a head, so that it cannot wrap        *)
(* around.  Entries the walk has corrupted are excepted.                    *)
TableSound ==
    Running =>
        LET t == sessionTable
        IN  /\ \A p \in Places(t) : ht_index(t, KeyAt(t, p)) = p[1]
            /\ \A p, q \in Places(t) : KeyAt(t, p) = KeyAt(t, q) => p = q
            /\ t.count = Cardinality(Places(t))
            /\ t.collisions >= Cardinality(Rear(t))

(* The ACK of a session that was opened within AGE_TIMEOUT finds it, with   *)
(* the time of its last SYN-ACK, whatever was inserted, aged, removed or    *)
(* moved to a larger table in between.                                      *)
RecentIsFound ==
    Running =>
        \A k \in Keys : opened[k] # None /\ now - opened[k] <= Age
                        => ht_get(sessionTable, k) = opened[k]

(* While getArgs completes a record and waits for room in the send queue,   *)
(* captureOne neither replaces cur_task nor sets it back.                   *)
CollectedIsStable ==
    [][Locked /\ Locked' => cur_task' = cur_task]_vars

(* As long as cur_task is set, getArgs gets round to it and sets it back,   *)
(* unless sendData never returns from a write again: the signal of          *)
(* captureOne is not lost, and a queue that is full for a while does not    *)
(* stop getArgs, which waits for room with mtx held.  The record it takes   *)
(* is the last one handed over; one that captureOne has overwritten before  *)
(* is lost.                                                                 *)
TaskIsTaken ==
    cur_task # None ~> (cur_task = None \/ ~Running \/ [](sender = "write"))
================================================================================
