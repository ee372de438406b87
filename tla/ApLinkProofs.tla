----------------------------- MODULE ApLinkProofs -----------------------------
(***************************************************************************)
(* The invariants of ApLink for any set of descriptors and any number of   *)
(* faults.  A descriptor is lost only when S replaces a socket that nobody *)
(* has closed; the argument is that the fault that led there has not been  *)
(* spent on another descriptor yet.                                        *)
(***************************************************************************)
EXTENDS ApLink, FiniteSetTheorems, TLAPS

Leaked == {f \in Fds \ {sock} : fd[f] # "closed"}

(* There has been one fault more than descriptors were lost. *)
Spare == Cardinality(Leaked) + 1 <= faults

(* S makes a new link only while the status is DISABLE. *)
NewLink ==
    /\ spc \in {"socket", "connect", "update", "wait", "sleep"} => status = "DISABLE"
    /\ fd[sock] = "new" => spc = "connect"

(* A thread finishes a tear-down before it goes on, nobody is left tearing  *)
(* down when S sets ENABLE, and a socket that was shut down is about to be  *)
(* closed.                                                                  *)
Tearing ==
    /\ td["S"] # "no" => spc \in {"check", "wait", "sleep"}
    /\ td["R"] # "no" => rpc = "check"
    /\ td["H"] # "no" => hpc = "idle"
    /\ status = "ENABLE" => \A t \in Threads : td[t] = "no"
    /\ fd[sock] = "shut" => \E t \in Threads : td[t] = "close"

(* Where a fault is spare: on a broken socket; when R has lost its file     *)
(* under an enabled link; and when S is going to replace a socket that it   *)
(* has not closed itself.                                                   *)
Accounts ==
    /\ fd[sock] = "dead" => Spare
    /\ status = "ENABLE" /\ rpc = "failed" /\ fd[sock] # "closed" => Spare
    /\ /\ status = "ENABLE" /\ rpc = "recv" /\ rfd # Orphan /\ (rfd \in Fds => fd[rfd] # "open")
       /\ fd[sock] # "closed"
       => Spare
    /\ /\ status = "DISABLE" /\ spc \notin {"connect", "update", "wait"} /\ td["S"] = "no"
       /\ fd[sock] # "closed"
       => Spare

(* A new link starts with BEAT_LIVE, and the echo of a heartbeat that was   *)
(* sent is on its way or in the hands of R.                                 *)
Heartbeat ==
    /\ spc \in {"update", "wait"} /\ fd[sock] = "open" => beat = "LIVE"
    /\ spc \in {"check", "beat"} /\ beat = "DEAD" /\ status = "ENABLE" /\ fd[sock] = "open" =>
           echo = sock \/ (rpc = "handle" /\ fresh)

Safe == TypeOK /\ NewLink /\ Tearing /\ Heartbeat
IInv == Safe /\ LeakBounded /\ Accounts

-----------------------------------------------------------------------------
(* fnii_roam_init starts with one socket and no thread under way. *)
LEMMA InitIInv == Init => IInv
<1> SUFFICES ASSUME Init PROVE IInv
  OBVIOUS
<1>1. PICK connected \in BOOLEAN :
          /\ fd = [f \in Fds |-> IF f = 1 /\ connected THEN "open" ELSE "closed"]
          /\ beat = IF connected THEN "LIVE" ELSE "DEAD"
  BY DEF Init
<1>2. TypeOK
  <2>1. fd \in [Fds -> {"closed", "new", "open", "dead", "shut"}] /\ sock \in Fds
    BY <1>1, ApLinkAssumption DEF Init
  <2>2. faults \in 0 .. MaxFaults /\ beat \in {"LIVE", "DEAD"}
    BY <1>1, ApLinkAssumption DEF Init
  <2>3. fresh \in BOOLEAN
    BY DEF Init
  <2> QED
    BY <2>1, <2>2, <2>3 DEF Init, TypeOK
<1>3. fd[sock] \in {"open", "closed"} /\ (fd[sock] = "open" => beat = "LIVE")
  BY <1>1, ApLinkAssumption DEF Init
<1>4. Safe
  BY <1>2, <1>3 DEF Safe, Init, NewLink, Tearing, Heartbeat, Threads
<1>5. Leaked = {}
  BY <1>1, ApLinkAssumption DEF Leaked, Init
<1>6. LeakBounded
  BY <1>5, FS_EmptySet DEF LeakBounded, Leaked, Init
<1> QED
  BY <1>3, <1>4, <1>6 DEF IInv, Accounts, Init

(* Each step of the three threads and of the network preserves Safe. *)
LEMMA SafeTeardown == ASSUME Safe, NEW t \in Threads, Shutdown(t) \/ Close(t) PROVE Safe'
<1> USE ApLinkAssumption DEF Safe
<1>1. TypeOK'
  BY DEF TypeOK, Shutdown, Close, Threads, Ended, Orphan
<1>2. NewLink'
  BY DEF TypeOK, NewLink, Shutdown, Close
<1>3. Tearing'
  BY DEF TypeOK, Tearing, Shutdown, Close, Threads
<1>4. Heartbeat'
  BY DEF TypeOK, Heartbeat, Shutdown, Close
<1> QED
  BY <1>1, <1>2, <1>3, <1>4

LEMMA SafeS == ASSUME Safe, SStep \/ SRefused \/ SDead PROVE Safe'
<1> USE ApLinkAssumption DEF Safe, Threads, Ended, Orphan
<1>1. CASE SCheck
  <2>1. fresh' \in BOOLEAN
    BY <1>1 DEF SCheck, TypeOK
  <2>2. TypeOK'
    BY <1>1, <2>1 DEF SCheck, TypeOK
  <2>3. NewLink' /\ Tearing'
    BY <1>1 DEF SCheck, TypeOK, NewLink, Tearing
  <2>4. Heartbeat'
    BY <1>1 DEF SCheck, TypeOK, NewLink, Tearing, Heartbeat
  <2> QED
    BY <2>2, <2>3, <2>4
<1>2. CASE SSocket
  <2>1. fresh' \in BOOLEAN
    BY <1>2 DEF SSocket, TypeOK
  <2>2. TypeOK'
    BY <1>2, <2>1 DEF SSocket, TypeOK
  <2>3. NewLink' /\ Tearing'
    BY <1>2 DEF SSocket, TypeOK, NewLink, Tearing
  <2>4. Heartbeat'
    BY <1>2 DEF SSocket, TypeOK, NewLink, Tearing, Heartbeat
  <2> QED
    BY <2>2, <2>3, <2>4
<1>3. CASE SConnect
  <2>1. fresh' \in BOOLEAN
    BY <1>3 DEF SConnect, TypeOK
  <2>2. TypeOK'
    BY <1>3, <2>1 DEF SConnect, TypeOK
  <2>3. NewLink' /\ Tearing'
    BY <1>3 DEF SConnect, TypeOK, NewLink, Tearing
  <2>4. Heartbeat'
    BY <1>3 DEF SConnect, TypeOK, NewLink, Tearing, Heartbeat
  <2> QED
    BY <2>2, <2>3, <2>4
<1>4. CASE SRefused
  <2>1. fresh' \in BOOLEAN
    BY <1>4 DEF SRefused, TypeOK
  <2>2. TypeOK'
    BY <1>4, <2>1 DEF SRefused, TypeOK
  <2>3. NewLink' /\ Tearing'
    BY <1>4 DEF SRefused, TypeOK, NewLink, Tearing
  <2>4. Heartbeat'
    BY <1>4 DEF SRefused, TypeOK, NewLink, Tearing, Heartbeat
  <2> QED
    BY <2>2, <2>3, <2>4
<1>5. CASE SUpdate
  <2>1. fresh' \in BOOLEAN
    BY <1>5 DEF SUpdate, TypeOK
  <2>2. TypeOK'
    BY <1>5, <2>1 DEF SUpdate, Fail, TypeOK
  <2>3. NewLink' /\ Tearing'
    BY <1>5 DEF SUpdate, Fail, TypeOK, NewLink, Tearing
  <2>4. Heartbeat'
    BY <1>5 DEF SUpdate, Fail, TypeOK, NewLink, Tearing, Heartbeat
  <2> QED
    BY <2>2, <2>3, <2>4
<1>6. CASE SEnable
  <2>1. fresh' \in BOOLEAN
    BY <1>6 DEF SEnable, TypeOK
  <2>2. TypeOK'
    BY <1>6, <2>1 DEF SEnable, Settled, TypeOK
  <2>3. NewLink' /\ Tearing'
    BY <1>6 DEF SEnable, Settled, TypeOK, NewLink, Tearing
  <2>4. Heartbeat'
    BY <1>6 DEF SEnable, Settled, TypeOK, NewLink, Tearing, Heartbeat
  <2> QED
    BY <2>2, <2>3, <2>4
<1>7. CASE SMark
  <2>1. fresh' \in BOOLEAN
    BY <1>7 DEF SMark, TypeOK
  <2>2. TypeOK'
    BY <1>7, <2>1 DEF SMark, TypeOK
  <2>3. NewLink' /\ Tearing'
    BY <1>7 DEF SMark, TypeOK, NewLink, Tearing
  <2>4. Heartbeat'
    BY <1>7 DEF SMark, TypeOK, NewLink, Tearing, Heartbeat
  <2> QED
    BY <2>2, <2>3, <2>4
<1>8. CASE SSend
  <2>1. fresh' \in BOOLEAN
    BY <1>8 DEF SSend, TypeOK
  <2>2. TypeOK'
    BY <1>8, <2>1 DEF SSend, Fail, TypeOK
  <2>3. NewLink' /\ Tearing'
    BY <1>8 DEF SSend, Fail, TypeOK, NewLink, Tearing
  <2>4. Heartbeat'
    BY <1>8 DEF SSend, Fail, TypeOK, NewLink, Tearing, Heartbeat
  <2> QED
    BY <2>2, <2>3, <2>4
<1>9. CASE SDead
  <2>1. fresh' \in BOOLEAN
    BY <1>9 DEF SDead, TypeOK
  <2>2. TypeOK'
    BY <1>9, <2>1 DEF SDead, Fail, TypeOK
  <2>3. NewLink' /\ Tearing'
    BY <1>9 DEF SDead, Fail, TypeOK, NewLink, Tearing
  <2>4. Heartbeat'
    BY <1>9 DEF SDead, Fail, TypeOK, NewLink, Tearing, Heartbeat
  <2> QED
    BY <2>2, <2>3, <2>4
<1> QED
  BY <1>1, <1>2, <1>3, <1>4, <1>5, <1>6, <1>7, <1>8, <1>9 DEF SStep

LEMMA SafeR == ASSUME Safe, RStep PROVE Safe'
<1> USE ApLinkAssumption DEF Safe, Threads, Ended, Orphan
<1>1. CASE RCheck
  <2>1. fresh' \in BOOLEAN
    BY <1>1 DEF RCheck, TypeOK
  <2>2. TypeOK'
    BY <1>1, <2>1 DEF RCheck, TypeOK
  <2>3. NewLink' /\ Tearing'
    BY <1>1 DEF RCheck, TypeOK, NewLink, Tearing
  <2>4. Heartbeat'
    BY <1>1 DEF RCheck, TypeOK, NewLink, Tearing, Heartbeat
  <2> QED
    BY <2>2, <2>3, <2>4
<1>2. CASE RCall
  <2>1. fresh' \in BOOLEAN
    BY <1>2 DEF RCall, TypeOK
  <2>2. TypeOK'
    BY <1>2, <2>1 DEF RCall, TypeOK
  <2>3. NewLink' /\ Tearing'
    BY <1>2 DEF RCall, TypeOK, NewLink, Tearing
  <2>4. Heartbeat'
    BY <1>2 DEF RCall, TypeOK, NewLink, Tearing, Heartbeat
  <2> QED
    BY <2>2, <2>3, <2>4
<1>3. CASE RRead
  <2>1. fresh' \in BOOLEAN
    BY <1>3 DEF RRead, TypeOK
  <2>2. TypeOK'
    BY <1>3, <2>1 DEF RRead, TypeOK
  <2>3. NewLink' /\ Tearing'
    BY <1>3 DEF RRead, TypeOK, NewLink, Tearing
  <2>4. Heartbeat'
    BY <1>3 DEF RRead, TypeOK, NewLink, Tearing, Heartbeat
  <2> QED
    BY <2>2, <2>3, <2>4
<1>4. CASE REnd
  <2>1. fresh' \in BOOLEAN
    BY <1>4 DEF REnd, TypeOK
  <2>2. TypeOK'
    BY <1>4, <2>1 DEF REnd, TypeOK
  <2>3. NewLink' /\ Tearing'
    BY <1>4 DEF REnd, TypeOK, NewLink, Tearing
  <2>4. Heartbeat'
    BY <1>4 DEF REnd, TypeOK, NewLink, Tearing, Heartbeat
  <2> QED
    BY <2>2, <2>3, <2>4
<1>5. CASE RFailed
  <2>1. fresh' \in BOOLEAN
    BY <1>5 DEF RFailed, TypeOK
  <2>2. TypeOK'
    BY <1>5, <2>1 DEF RFailed, Fail, TypeOK
  <2>3. NewLink' /\ Tearing'
    BY <1>5 DEF RFailed, Fail, TypeOK, NewLink, Tearing
  <2>4. Heartbeat'
    BY <1>5 DEF RFailed, Fail, TypeOK, NewLink, Tearing, Heartbeat
  <2> QED
    BY <2>2, <2>3, <2>4
<1>6. CASE RHandle
  <2>1. fresh' \in BOOLEAN
    BY <1>6 DEF RHandle, TypeOK
  <2>2. TypeOK'
    BY <1>6, <2>1 DEF RHandle, Fail, TypeOK
  <2>3. NewLink' /\ Tearing'
    BY <1>6 DEF RHandle, Fail, TypeOK, NewLink, Tearing
  <2>4. Heartbeat'
    BY <1>6 DEF RHandle, Fail, TypeOK, NewLink, Tearing, Heartbeat
  <2> QED
    BY <2>2, <2>3, <2>4
<1> QED
  BY <1>1, <1>2, <1>3, <1>4, <1>5, <1>6 DEF RStep

LEMMA SafeH == ASSUME Safe, HStep \/ (\E f \in Fds : Break(f)) \/ UNCHANGED vars PROVE Safe'
<1> USE ApLinkAssumption DEF Safe, TypeOK, NewLink, Tearing, Heartbeat, Threads, Ended, Orphan
<1>1. CASE HCheck
  BY <1>1 DEF HCheck
<1>2. CASE HSend
  BY <1>2 DEF HSend, Fail
<1>3. ASSUME NEW f \in Fds, Break(f) PROVE Safe'
  BY <1>3 DEF Break
<1>4. CASE UNCHANGED vars
  BY <1>4 DEF vars
<1> QED
  BY <1>1, <1>2, <1>3, <1>4 DEF HStep

-----------------------------------------------------------------------------
LEMMA LeakedFinite == IsFiniteSet(Leaked) /\ Cardinality(Leaked) \in Nat
<1>1. Leaked \in SUBSET Fds /\ IsFiniteSet(Fds)
  BY ApLinkAssumption DEF Leaked
<1> QED
  BY <1>1, FS_Subset, FS_CardinalityType

(* Nothing is lost or found again unless S makes a new socket. *)
LEMMA LeakedSame ==
    ASSUME sock' = sock,
           \A f \in Fds \ {sock} : fd'[f] = "closed" <=> fd[f] = "closed"
    PROVE  Leaked' = Leaked
  BY DEF Leaked

LEMMA SpareSame ==
    ASSUME TypeOK, TypeOK', LeakBounded, Leaked' = Leaked, faults' >= faults
    PROVE  LeakBounded' /\ (Spare => Spare') /\ (faults' > faults => Spare')
<1>1. Cardinality(Leaked) \in Nat /\ Cardinality(Leaked') = Cardinality(Leaked)
  BY LeakedFinite
<1>2. LeakBounded <=> Cardinality(Leaked) <= faults
  BY DEF LeakBounded, Leaked
<1>3. LeakBounded' <=> Cardinality(Leaked') <= faults'
  BY DEF LeakBounded, Leaked
<1>4. faults \in Nat /\ faults' \in Nat
  BY ApLinkAssumption DEF TypeOK
<1> QED
  BY <1>1, <1>2, <1>3, <1>4 DEF Spare

(* socket(): the old socket is lost if nobody has closed it. *)
LEMMA AccountsSocket == ASSUME IInv, Safe', SSocket PROVE IInv'
<1> USE DEF IInv, Safe
<1>1. PICK f \in Fds : fd[f] = "closed" /\ sock' = f /\ fd' = [fd EXCEPT ![f] = "new"]
  BY DEF SSocket
<1>2. /\ spc = "socket" /\ status = "DISABLE" /\ td["S"] = "no" /\ spc' = "connect"
      /\ UNCHANGED <<status, td, rpc, rfd, faults>>
  BY DEF SSocket, NewLink, Tearing, TypeOK, Threads
<1>3. LeakBounded'
  <2>1. Leaked' = IF fd[sock] = "closed" THEN Leaked ELSE Leaked \union {sock}
    BY <1>1 DEF Leaked, TypeOK
  <2>2. Cardinality(Leaked') <= faults
    <3>1. CASE fd[sock] = "closed"
      BY <2>1, <3>1 DEF LeakBounded, Leaked
    <3>2. CASE fd[sock] # "closed"
      <4>1. Spare
        BY <1>2, <3>2 DEF Accounts
      <4>2. Cardinality(Leaked \union {sock}) = Cardinality(Leaked) + 1
        BY LeakedFinite, FS_AddElement DEF Leaked
      <4> QED
        BY <2>1, <3>2, <4>1, <4>2 DEF Spare
    <3> QED
      BY <3>1, <3>2
  <2> QED
    BY <1>2, <2>2 DEF LeakBounded, Leaked
<1>4. fd'[sock'] = "new"
  BY <1>1 DEF TypeOK
<1> QED
  BY <1>2, <1>3, <1>4 DEF Accounts

(* The steps of one link: every fault is spare, and what is spare stays so. *)
LEMMA AccountsStep ==
    ASSUME IInv, Safe', \/ \E t \in Threads : Teardown(t)
                        \/ SRefused \/ SDead \/ (SStep /\ ~SSocket) \/ RStep \/ HStep
                        \/ \E f \in Fds : Break(f)
                        \/ UNCHANGED vars
    PROVE  IInv'
<1> USE DEF IInv, Safe
<1>1. sock' = sock /\ faults' >= faults /\ Leaked' = Leaked
  <2>1. sock' = sock /\ faults' >= faults
    BY ApLinkAssumption DEF TypeOK, Teardown, Shutdown, Close, SRefused, SDead, SStep, SCheck, SConnect,
       SUpdate, SEnable, SMark, SSend, RStep, RCheck, RCall, RRead, REnd, RFailed, RHandle, HStep,
       HCheck, HSend, Break, vars
  <2>2. \A f \in Fds \ {sock} : fd'[f] = "closed" <=> fd[f] = "closed"
    BY DEF TypeOK, Teardown, Shutdown, Close, SRefused, SDead, SStep, SCheck, SConnect,
       SUpdate, SEnable, SMark, SSend, RStep, RCheck, RCall, RRead, REnd, RFailed, RHandle, HStep,
       HCheck, HSend, Break, vars
  <2> QED
    BY <2>1, <2>2, LeakedSame
<1>2. LeakBounded' /\ (Spare => Spare') /\ (faults' > faults => Spare')
  BY <1>1, SpareSame
<1> USE DEF Accounts, TypeOK
<1>3. ASSUME NEW t \in Threads, Shutdown(t) \/ Close(t) PROVE Accounts'
  BY <1>2, <1>3 DEF Shutdown, Close, Tearing, Threads, Ended, Orphan
<1>4. CASE SCheck
  BY <1>2, <1>4 DEF SCheck, Ended, Orphan
<1>5. CASE SConnect
  BY <1>2, <1>5 DEF SConnect, Ended, Orphan
<1>6. CASE SRefused
  BY <1>2, <1>6 DEF SRefused, NewLink, Ended, Orphan
<1>7. CASE SUpdate
  BY <1>2, <1>7 DEF SUpdate, Fail, NewLink, Threads, Ended, Orphan
<1>8. CASE SEnable
  BY <1>2, <1>8 DEF SEnable, Settled, NewLink, Tearing, Ended, Orphan
<1>9. CASE SMark
  BY <1>2, <1>9 DEF SMark, Ended, Orphan
<1>10. CASE SSend
  BY <1>2, <1>10 DEF SSend, Fail, Threads, Ended, Orphan
<1>11. CASE SDead
  BY <1>2, <1>11 DEF SDead, Fail, Threads, Ended, Orphan
<1>12. CASE RCheck
  BY <1>2, <1>12 DEF RCheck, Ended, Orphan
<1>13. CASE RCall
  BY <1>2, <1>13 DEF RCall, NewLink, Tearing, Threads, Ended, Orphan
<1>14. CASE RRead
  BY <1>2, <1>14 DEF RRead, Ended, Orphan
<1>15. CASE REnd
  BY <1>2, <1>15 DEF REnd, Ended, Orphan
<1>16. CASE RFailed
  BY <1>2, <1>16 DEF RFailed, Fail, Threads, Ended, Orphan
<1>17. CASE RHandle
  BY <1>2, <1>17 DEF RHandle, Fail, NewLink, Tearing, Threads, Ended, Orphan
<1>18. CASE HCheck
  BY <1>2, <1>18 DEF HCheck, Ended, Orphan
<1>19. CASE HSend
  BY <1>2, <1>19 DEF HSend, Fail, NewLink, Tearing, Threads, Ended, Orphan
<1>20. ASSUME NEW f \in Fds, Break(f) PROVE Accounts'
  <2>1. faults' > faults
    BY <1>20, ApLinkAssumption DEF Break
  <2> QED
    BY <1>2, <2>1
<1>21. CASE UNCHANGED vars
  BY <1>2, <1>21 DEF vars
<1> QED
  BY <1>2, <1>3, <1>4, <1>5, <1>6, <1>7, <1>8, <1>9, <1>10, <1>11, <1>12, <1>13, <1>14, <1>15, <1>16, <1>17, <1>18, <1>19, <1>20, <1>21 DEF Teardown, SStep, RStep, HStep

LEMMA NextIInv == IInv /\ [Next]_vars => IInv'
<1> SUFFICES ASSUME IInv, [Next]_vars PROVE IInv'
  OBVIOUS
<1>1. Safe'
  BY SafeTeardown, SafeS, SafeR, SafeH DEF IInv, Next, Teardown
<1>2. CASE SSocket
  BY <1>1, <1>2, AccountsSocket
<1>3. CASE ~SSocket
  BY <1>1, <1>3, AccountsStep DEF Next
<1> QED
  BY <1>2, <1>3

LEMMA InvHolds == Spec => []IInv
  BY InitIInv, NextIInv, PTL DEF Spec

(* The descriptors, the status and the three threads keep their types; R   *)
(* is on a file only while it is in recv.                                  *)
THEOREM LinkTypeOK == Spec => []TypeOK
<1>1. IInv => TypeOK
  BY DEF IInv, Safe
<1> QED
  BY <1>1, InvHolds, PTL

(* fnii_handle_beat against the next round of S: an open, enabled link     *)
(* with BEAT_DEAD still has its echo to come, or R is on another file.     *)
THEOREM LinkAnsweredIsLive == Spec => []AnsweredIsLive
<1>1. IInv => AnsweredIsLive
  BY DEF IInv, Safe, Heartbeat, AnsweredIsLive, Answerable
<1> QED
  BY <1>1, InvHolds, PTL

(* fnii_connect2master overwrites fnii_master_socket whoever still has it  *)
(* to close, and yet every fault costs at most one descriptor.             *)
THEOREM LinkLeakBounded == Spec => []LeakBounded
<1>1. IInv => LeakBounded
  BY DEF IInv
<1> QED
  BY <1>1, InvHolds, PTL

(* The call of socket() in fnii_connect2master finds a free descriptor as  *)
(* long as there were fewer faults than the AP has descriptors.            *)
SocketFinds == spc = "socket" => \E f \in Fds : fd[f] = "closed"

(* fnii_connect2master never goes without a descriptor, for any number of  *)
(* descriptors that is greater than the number of faults.                  *)
THEOREM SocketFindsOne == Spec => []SocketFinds
<1>1. IInv => SocketFinds
  <2> SUFFICES ASSUME IInv, spc = "socket", \A f \in Fds : fd[f] # "closed" PROVE FALSE
    BY DEF SocketFinds
  <2>1. sock \in Fds /\ Leaked = Fds \ {sock} /\ faults \in Nat /\ faults <= MaxFaults
    <3>1. TypeOK
      BY DEF IInv, Safe
    <3>2. Leaked = Fds \ {sock}
      BY DEF Leaked
    <3> QED
      BY <3>1, <3>2, ApLinkAssumption DEF TypeOK
  <2>2. Cardinality(Leaked) = Cardinality(Fds) - 1
    <3>1. IsFiniteSet(Fds)
      BY ApLinkAssumption
    <3>2. Cardinality(Fds \ {sock}) = Cardinality(Fds) - 1
      BY <2>1, <3>1, FS_RemoveElement
    <3> QED
      BY <2>1, <3>2
  <2>3. Spare
    BY <2>1 DEF IInv, Safe, NewLink, Tearing, Accounts, TypeOK, Threads
  <2>4. Cardinality(Fds) \in Nat
    BY FS_CardinalityType, ApLinkAssumption
  <2> QED
    BY <2>1, <2>2, <2>3, <2>4, ApLinkAssumption DEF Spare
<1> QED
  BY <1>1, InvHolds, PTL
================================================================================
