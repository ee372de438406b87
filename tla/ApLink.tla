--------------------------------- MODULE ApLink ---------------------------------
(***************************************************************************)
(* The link of an AP to the controller (fnii_roam.c).  Three threads share *)
(* the socket fnii_master_socket and its status: S (the statistics thread) *)
(* connects and sends heartbeats, R (the receive thread) reads, H stands   *)
(* for the threads of hostapd that report stations.  Whoever meets an      *)
(* error sets the status to DISABLE and then shuts down and closes         *)
(* whatever fnii_master_socket is by then; only the status is under a      *)
(* mutex.  S reconnects as soon as it sees DISABLE.                        *)
(*                                                                         *)
(* Fds are file descriptors: socket() takes the least that is closed.  A   *)
(* fault is a link that breaks, a refused connection or an echo that takes *)
(* longer than the ten seconds S waits.                                    *)
(***************************************************************************)
EXTENDS Integers, FiniteSets

CONSTANTS
    Fds,        \* 1 .. n
    MaxFaults   \* bound on the faults of the network

(* With more descriptors than faults, socket() always finds one; see        *)
(* SocketFindsOne in ApLinkProofs.                                          *)
ASSUME ApLinkAssumption ==
    /\ Fds \subseteq Nat \ {0} /\ IsFiniteSet(Fds) /\ 1 \in Fds
    /\ MaxFaults \in Nat /\ MaxFaults < Cardinality(Fds)

Threads == {"S", "R", "H"}
Ended == 0      \* recv is on a file that has ended
Orphan == -1    \* recv is on a file that was closed without a shutdown

VARIABLES
    sock,      \* fnii_master_socket
    fd,        \* the state of each descriptor
    status,    \* fnii_socket_status
    beat,      \* beat_status
    echo,      \* the descriptor the echo of the last heartbeat comes on, or 0
    td,        \* what is left of each thread's tear-down of the link
    spc, rpc, hpc,  \* where the threads are
    rfd,       \* the descriptor R is in recv on
    fresh,     \* the echo R has read is of the last heartbeat
    faults

vars == <<sock, fd, status, beat, echo, td, spc, rpc, hpc, rfd, fresh, faults>>

(* fnii_roam_init tries to connect before the threads start. *)
Init ==
    /\ sock = 1
    /\ \E connected \in BOOLEAN :
           /\ fd = [f \in Fds |-> IF f = 1 /\ connected THEN "open" ELSE "closed"]
           /\ beat = IF connected THEN "LIVE" ELSE "DEAD"
    /\ status = "DISABLE"
    /\ echo = 0
    /\ td = [t \in Threads |-> "no"]
    /\ spc = "update" /\ rpc = "check" /\ hpc = "idle"
    /\ rfd = Ended
    /\ fresh = FALSE
    /\ faults = 0

-----------------------------------------------------------------------------
(* fnii_send_msg after an error: DISABLE first, then the socket. *)
Fail(t) ==
    /\ status' = "DISABLE"
    /\ td' = [td EXCEPT ![t] = "shutdown"]

Shutdown(t) ==
    /\ td[t] = "shutdown"
    /\ td' = [td EXCEPT ![t] = "close"]
    /\ fd' = [fd EXCEPT ![sock] = IF @ \in {"open", "dead"} THEN "shut" ELSE @]
    /\ UNCHANGED <<sock, status, beat, echo, spc, rpc, hpc, rfd, fresh, faults>>

(* A recv in progress keeps the file, and returns if that was shut down. *)
Close(t) ==
    /\ td[t] = "close"
    /\ td' = [td EXCEPT ![t] = "no"]
    /\ fd' = [fd EXCEPT ![sock] = "closed"]
    /\ rfd' = IF rfd # sock THEN rfd ELSE IF fd[sock] = "open" THEN Orphan ELSE Ended
    /\ UNCHANGED <<sock, status, beat, echo, spc, rpc, hpc, fresh, faults>>

-----------------------------------------------------------------------------
(* S sleeps 30 seconds before it enables a new link and 10 after a failed   *)
(* send.  That is enough for R and H to finish what they had begun: a       *)
(* tear-down, or the call that meets the error and the look at the status.  *)
Settled ==
    /\ td["R"] = "no" /\ td["H"] = "no"
    /\ rpc \in {"check", "recv"}
    /\ rpc = "recv" => rfd = Orphan \/ (rfd \in Fds /\ fd[rfd] = "open")
    /\ hpc = "send" => fd[sock] = "open"

(* S: fnii_statistics_flow_thread and fnii_connect2master. *)
SCheck ==
    /\ \/ spc = "check" /\ td["S"] = "no"
       \/ spc = "sleep" /\ td["S"] = "no" /\ Settled
    /\ spc' = IF status = "ENABLE" THEN "beat" ELSE "socket"
    /\ UNCHANGED <<sock, fd, status, beat, echo, td, rpc, hpc, rfd, fresh, faults>>

SSocket ==
    /\ spc = "socket"
    /\ \E f \in Fds :
           /\ fd[f] = "closed"
           /\ \A g \in Fds : fd[g] = "closed" => f <= g
           /\ sock' = f
           /\ fd' = [fd EXCEPT ![f] = "new"]
    /\ spc' = "connect"
    /\ UNCHANGED <<status, beat, echo, td, rpc, hpc, rfd, fresh, faults>>

(* A variant for comparison: connect leaves beat_status as it was. *)
SConnectBeat ==
    /\ spc = "connect" /\ fd[sock] = "new"
    /\ fd' = [fd EXCEPT ![sock] = "open"]
    /\ spc' = "update"
    /\ UNCHANGED <<sock, status, beat, echo, td, rpc, hpc, rfd, fresh, faults>>

SConnect ==
    /\ spc = "connect" /\ fd[sock] = "new"
    /\ fd' = [fd EXCEPT ![sock] = "open"]
    /\ beat' = "LIVE"
    /\ spc' = "update"
    /\ UNCHANGED <<sock, status, echo, td, rpc, hpc, rfd, fresh, faults>>

(* connect fails, by a fault or because another thread closed the socket. *)
SRefused ==
    /\ spc = "connect"
    /\ IF fd[sock] = "new" THEN faults < MaxFaults /\ faults' = faults + 1
       ELSE UNCHANGED faults
    /\ status' = "DISABLE"
    /\ fd' = [fd EXCEPT ![sock] = "closed"]
    /\ rfd' = IF rfd = sock THEN Ended ELSE rfd
    /\ spc' = "check"
    /\ UNCHANGED <<sock, beat, echo, td, rpc, hpc, fresh>>

(* fnii_reset_dense_station_hash and fnii_update_ap_info, which sends       *)
(* although the status is DISABLE.                                          *)
SUpdate ==
    /\ spc = "update"
    /\ IF fd[sock] = "open" THEN UNCHANGED <<status, td>> ELSE Fail("S")
    /\ spc' = "wait"
    /\ UNCHANGED <<sock, fd, beat, echo, rpc, hpc, rfd, fresh, faults>>

SEnable ==
    /\ spc = "wait" /\ td["S"] = "no" /\ Settled
    /\ status' = "ENABLE"
    /\ spc' = "beat"
    /\ UNCHANGED <<sock, fd, beat, echo, td, rpc, hpc, rfd, fresh, faults>>

(* fnii_send_msg and fnii_send_msg_beat: BEAT_DEAD is set before the send,  *)
(* and only if the status is still ENABLE.                                  *)
SMark ==
    /\ spc = "beat" /\ beat = "LIVE"
    /\ IF status = "ENABLE"
       THEN /\ beat' = "DEAD"
            /\ fresh' = FALSE
            /\ spc' = "send"
       ELSE /\ spc' = "sleep"
            /\ UNCHANGED <<beat, fresh>>
    /\ UNCHANGED <<sock, fd, status, echo, td, rpc, hpc, rfd, faults>>

SSend ==
    /\ spc = "send"
    /\ IF fd[sock] = "open" THEN echo' = sock /\ spc' = "check" /\ UNCHANGED <<status, td>>
       ELSE Fail("S") /\ spc' = "sleep" /\ UNCHANGED echo
    /\ UNCHANGED <<sock, fd, beat, rpc, hpc, rfd, fresh, faults>>

(* The echo of the last heartbeat is on its way to R, or R has it. *)
Answerable ==
    \/ echo = sock /\ fd[sock] = "open" /\ (rpc = "recv" => rfd = sock)
    \/ rpc = "handle" /\ fresh

(* A variant for comparison: the dead link is disabled but left open. *)
SDeadKeeps ==
    /\ spc = "beat" /\ beat = "DEAD"
    /\ IF Answerable THEN faults < MaxFaults /\ faults' = faults + 1 ELSE UNCHANGED faults
    /\ status' = "DISABLE"
    /\ spc' = "check"
    /\ UNCHANGED <<sock, fd, beat, echo, td, rpc, hpc, rfd, fresh>>

(* The heartbeat has failed.  That an echo on its way is late is a fault. *)
SDead ==
    /\ spc = "beat" /\ beat = "DEAD"
    /\ IF Answerable THEN faults < MaxFaults /\ faults' = faults + 1 ELSE UNCHANGED faults
    /\ Fail("S")
    /\ spc' = "check"
    /\ UNCHANGED <<sock, fd, beat, echo, rpc, hpc, rfd, fresh>>

-----------------------------------------------------------------------------
(* R: fnii_receive_msg_thread. *)
RCheck ==
    /\ rpc = "check" /\ td["R"] = "no" /\ status = "ENABLE"
    /\ rpc' = "call"
    /\ UNCHANGED <<sock, fd, status, beat, echo, td, spc, hpc, rfd, fresh, faults>>

RCall ==
    /\ rpc = "call"
    /\ rpc' = "recv"
    /\ rfd' = IF fd[sock] = "open" THEN sock ELSE Ended
    /\ UNCHANGED <<sock, fd, status, beat, echo, td, spc, hpc, fresh, faults>>

RRead ==
    /\ rpc = "recv" /\ rfd \in Fds /\ echo = rfd
    /\ fd[rfd] = "open"
    /\ echo' = 0
    /\ rpc' = "handle"
    /\ rfd' = Ended
    /\ fresh' = TRUE
    /\ UNCHANGED <<sock, fd, status, beat, td, spc, hpc, faults>>

(* A variant for comparison: an interrupted recv is not noticed. *)
REndIgnored ==
    /\ rpc = "recv" /\ rfd # Orphan
    /\ rfd \in Fds => fd[rfd] # "open"
    /\ rpc' = "handle"
    /\ UNCHANGED <<sock, fd, status, beat, echo, td, spc, hpc, rfd, fresh, faults>>

REnd ==
    /\ rpc = "recv" /\ rfd # Orphan
    /\ rfd \in Fds => fd[rfd] # "open"
    /\ rpc' = "failed"
    /\ rfd' = Ended
    /\ UNCHANGED <<sock, fd, status, beat, echo, td, spc, hpc, fresh, faults>>

RFailed ==
    /\ rpc = "failed"
    /\ IF status = "ENABLE" THEN Fail("R") ELSE UNCHANGED <<status, td>>
    /\ rpc' = "check"
    /\ UNCHANGED <<sock, fd, beat, echo, spc, hpc, rfd, fresh, faults>>

(* A variant for comparison: the right echo does not set BEAT_LIVE. *)
RHandleSilent ==
    /\ rpc = "handle"
    /\ IF status = "ENABLE" /\ fd[sock] # "open" THEN Fail("R") ELSE UNCHANGED <<status, td>>
    /\ rpc' = "check"
    /\ fresh' = FALSE
    /\ UNCHANGED <<sock, fd, beat, echo, spc, hpc, rfd, faults>>

(* fnii_handle_beat, and the OK or ERR that answers the echo. *)
RHandle ==
    /\ rpc = "handle"
    /\ beat' = IF fresh THEN "LIVE" ELSE beat
    /\ IF status = "ENABLE" /\ fd[sock] # "open" THEN Fail("R") ELSE UNCHANGED <<status, td>>
    /\ rpc' = "check"
    /\ fresh' = FALSE
    /\ UNCHANGED <<sock, fd, echo, spc, hpc, rfd, faults>>

-----------------------------------------------------------------------------
(* H: fnii_send_msg looks at the status and sends. *)
HCheck ==
    /\ hpc = "idle" /\ td["H"] = "no" /\ status = "ENABLE"
    /\ hpc' = "send"
    /\ UNCHANGED <<sock, fd, status, beat, echo, td, spc, rpc, rfd, fresh, faults>>

HSend ==
    /\ hpc = "send"
    /\ IF fd[sock] = "open" THEN UNCHANGED <<status, td>> ELSE Fail("H")
    /\ hpc' = "idle"
    /\ UNCHANGED <<sock, fd, beat, echo, spc, rpc, rfd, fresh, faults>>

(* The link breaks: calls on it fail from now on. *)
Break(f) ==
    /\ fd[f] = "open" /\ faults < MaxFaults
    /\ fd' = [fd EXCEPT ![f] = "dead"]
    /\ faults' = faults + 1
    /\ UNCHANGED <<sock, status, beat, echo, td, spc, rpc, hpc, rfd, fresh>>

SStep == SCheck \/ SSocket \/ SConnect \/ SUpdate \/ SEnable \/ SMark \/ SSend
RStep == RCheck \/ RCall \/ RRead \/ REnd \/ RFailed \/ RHandle
HStep == HCheck \/ HSend
Teardown(t) == Shutdown(t) \/ Close(t)

Next ==
    \/ \E t \in Threads : Teardown(t)
    \/ SStep \/ SRefused \/ SDead \/ RStep \/ HStep
    \/ \E f \in Fds : Break(f)

Spec == Init /\ [][Next]_vars

(* Every thread runs; H sends only when there is something to report. *)
FairSpec ==
    /\ Spec
    /\ \A t \in Threads : WF_vars(Teardown(t))
    /\ WF_vars(SStep) /\ WF_vars(SRefused) /\ WF_vars(SDead)
    /\ WF_vars(RStep) /\ WF_vars(HSend)

-----------------------------------------------------------------------------
(* The types of the variables. *)
TypeOK ==
    /\ sock \in Fds
    /\ fd \in [Fds -> {"closed", "new", "open", "dead", "shut"}]
    /\ status \in {"ENABLE", "DISABLE"} /\ beat \in {"LIVE", "DEAD"}
    /\ echo \in Fds \union {0}
    /\ td \in [Threads -> {"no", "shutdown", "close"}]
    /\ spc \in {"check", "socket", "connect", "update", "wait", "beat", "send", "sleep"}
    /\ rpc \in {"check", "call", "recv", "failed", "handle"}
    /\ hpc \in {"idle", "send"}
    /\ rfd \in Fds \union {Ended, Orphan} /\ (rpc # "recv" => rfd = Ended)
    /\ fresh \in BOOLEAN /\ faults \in 0 .. MaxFaults

(* S never gives up a healthy link whose last heartbeat was answered: when  *)
(* it finds BEAT_DEAD on an open socket, the echo has not been handled yet, *)
(* or R never gets it because it still reads from another file.             *)
AnsweredIsLive ==
    spc = "beat" /\ beat = "DEAD" /\ status = "ENABLE" /\ fd[sock] = "open" =>
        Answerable \/ (rpc = "recv" /\ rfd # sock)

(* Although threads close each other's sockets and lose track of their own, *)
(* each fault of the network costs the AP at most one descriptor.           *)
LeakBounded == Cardinality({f \in Fds \ {sock} : fd[f] # "closed"}) <= faults

(* When the network stops failing, the AP ends up with an open socket and   *)
(* the status ENABLE for good, whatever the three threads had shut down and *)
(* closed under each other before - unless R was left in a recv that        *)
(* nothing ends.                                                            *)
LinkRecovers == <>(rfd = Orphan) \/ <>[](status = "ENABLE" /\ fd[sock] = "open")

(* The statistics thread watches the link and reconnects "until the         *)
(* connection succeeds" (fnii_roam.c:1163).                                 *)
ReconnectSucceeds == <>[](status = "ENABLE" /\ fd[sock] = "open")
================================================================================
