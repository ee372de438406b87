-------------------------- MODULE CollectServerProofs --------------------------
(***************************************************************************)
(* The invariants of CollectServer for any number of connections and any   *)
(* size of the buffer.                                                     *)
(***************************************************************************)
EXTENDS CollectServer, TLAPS

(* Nothing signals the condition full, so that a thread is roused only by   *)
(* a spurious return: that, and not the test in receive, is what bounds     *)
(* the buffer.                                                              *)
RousedSpuriously == \A t \in Connections : receiver[t] = "roused" => "full" \in spurious

(* save has left its wait without a signal. *)
SavedSpuriously == saver = "spurious" => "empty" \in spurious

Inv == TypeOK /\ RousedSpuriously /\ SavedSpuriously /\ BufferBounded /\ WokenHasRecord

(* run starts with an empty buffer and no connection. *)
LEMMA InitInv == Init => Inv
<1> SUFFICES ASSUME Init PROVE Inv
  OBVIOUS
<1> USE ServerAssumption DEF Init
<1>1. TypeOK
  <2>1. wire \in [Connections -> 0 .. MaxSend] /\ fd \in [Connections -> Nat]
    OBVIOUS
  <2>2. receiver \in [Connections -> ReceiverStates]
    BY DEF ReceiverStates
  <2>3. saver \in SaverStates /\ pinging \in BOOLEAN /\ alive \in BOOLEAN
    BY DEF SaverStates
  <2>4. buffer \in 0 .. MaxBuffer /\ client \in Nat
    OBVIOUS
  <2>5. ended \subseteq Connections /\ closed \subseteq Nat /\ spurious \subseteq Conditions
    OBVIOUS
  <2> QED
    BY <2>1, <2>2, <2>3, <2>4, <2>5 DEF TypeOK
<1>2. RousedSpuriously
  BY DEF RousedSpuriously
<1> QED
  BY <1>1, <1>2 DEF Inv, SavedSpuriously, BufferBounded, WokenHasRecord

(* Each step of the server preserves the invariant. *)
LEMMA NextInv == Inv /\ [Next]_vars => Inv'
<1> SUFFICES ASSUME Inv, [Next]_vars PROVE Inv'
  OBVIOUS
<1> USE ServerAssumption DEF Inv, TypeOK, RousedSpuriously, SavedSpuriously, BufferBounded, WokenHasRecord,
                             ReceiverStates, SaverStates, Conditions
<1>1. ASSUME NEW c \in Connections, Accept(c) PROVE Inv'
  BY <1>1 DEF Accept
<1>2. ASSUME NEW c \in Connections, Send(c) PROVE Inv'
  BY <1>2 DEF Send
<1>3. ASSUME NEW c \in Connections, End(c) PROVE Inv'
  BY <1>3 DEF End
<1>4. ASSUME NEW t \in Connections, ReadCall(t) PROVE Inv'
  BY <1>4 DEF ReadCall
<1>5. ASSUME NEW t \in Connections, ReadReturn(t) PROVE Inv'
  BY <1>5 DEF ReadReturn
<1>6. ASSUME NEW t \in Connections, Enter(t) PROVE Inv'
  BY <1>6 DEF Enter, Signalled
<1>7. ASSUME NEW t \in Connections, CloseClient(t) PROVE Inv'
  BY <1>7 DEF CloseClient
<1>8. CASE SaveTake
  <2>1. CASE saver = "enter" /\ buffer = 0 /\ saver' = "wait" /\ UNCHANGED <<buffer, alive>>
    BY <1>8, <2>1 DEF SaveTake
  <2>2. CASE buffer > 0 /\ saver' = "query" /\ buffer' = buffer - 1 /\ UNCHANGED alive
    BY <1>8, <2>2 DEF SaveTake
  <2>3. CASE saver \in {"woken", "spurious"} /\ buffer = 0 /\ saver' = "crashed"
             /\ alive' = FALSE /\ UNCHANGED buffer
    <3>1. saver = "spurious" /\ "empty" \in spurious
      BY <2>3
    <3>2. UNCHANGED <<client, wire, ended, closed, receiver, fd, pinging, spurious>>
      BY <1>8 DEF SaveTake
    <3>3. TypeOK'
      BY <2>3, <3>2
    <3> QED
      BY <2>3, <3>1, <3>2, <3>3
  <2> QED
    BY <1>8, <2>1, <2>2, <2>3 DEF SaveTake
<1>9. CASE SaveDone
  BY <1>9 DEF SaveDone
<1>10. CASE Ping
  BY <1>10 DEF Ping
<1>11. CASE AcceptFails
  BY <1>11 DEF AcceptFails
<1>12. CASE SpuriousEmpty
  BY <1>12 DEF SpuriousEmpty
<1>13. ASSUME NEW t \in Connections, SpuriousFull(t) PROVE Inv'
  BY <1>13 DEF SpuriousFull
<1>14. CASE UNCHANGED vars
  BY <1>14 DEF vars
<1> QED
  BY <1>1, <1>2, <1>3, <1>4, <1>5, <1>6, <1>7, <1>8, <1>9, <1>10, <1>11, <1>12, <1>13, <1>14 DEF Next

(* The inductive invariant holds in every state of the server. *)
LEMMA InvHolds == Spec => []Inv
  BY InitInv, NextInv, PTL DEF Spec

(* The types of the variables, the buffer's count included: save never     *)
(* takes a record that is not there and lives.                             *)
THEOREM ServerTypeOK == Spec => []TypeOK
  BY InvHolds, PTL DEF Inv

(* For any number of threads receive the buffer holds more than MAX records *)
(* only after a wait on full has returned without a signal.                 *)
THEOREM ServerBufferBounded == Spec => []BufferBounded
  BY InvHolds, PTL DEF Inv

(* save finds a record whenever a signal on empty has ended its wait, with  *)
(* spurious returns of all waits allowed for; the process dies of an empty  *)
(* list only if save's own wait has returned without a signal.              *)
THEOREM ServerWokenHasRecord == Spec => []WokenHasRecord
  BY InvHolds, PTL DEF Inv
================================================================================
