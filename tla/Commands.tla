-------------------------------- MODULE Commands --------------------------------
(***************************************************************************)
(* How a command of the controller reaches a radio and how its answer is   *)
(* matched.  An executor thread takes a number from the Agent object,      *)
(* writes the command, stores it in sendMsgBuffer under the radio's MAC    *)
(* address and the number, and starts a timer that judges the entry after  *)
(* AGENT_TIME_OUT.  The AP answers OK or ERR under the number it was sent. *)
(*                                                                         *)
(* Two things blur that number.  A radio that reconnects gets a new Agent  *)
(* object, which counts from the start while the buffer keeps its entries. *)
(* And the AP numbers its heartbeats itself, but also acknowledges their   *)
(* echo with OK.  And the count starts again at 1 after MaxId, while an    *)
(* entry that was refused or never answered stays in the buffer.           *)
(*                                                                         *)
(* A command is written under two monitors, Master's (writeMessage) and    *)
(* the socket's.  The first is one for all radios, and its owner may wait  *)
(* in it for the second, which closeSocket holds, or for room in the       *)
(* socket of an AP that does not read.                                     *)
(*                                                                         *)
(* One radio; its connections are numbered.  What the answer changes in    *)
(* the views is the subject of VapControl.                                 *)
(***************************************************************************)
EXTENDS Integers, Sequences

CONSTANTS
    Cmds,      \* the commands, each given to the executor once
    MaxConn,   \* bound on the connections
    MaxBeats,  \* bound on the heartbeats
    MaxId,     \* the last number of getMsgId before it starts again, 10000
    Room,      \* the messages the sockets of a connection hold
    Other,     \* a message to another radio
    None

ASSUME CommandsAssumption ==
    /\ MaxConn \in Nat /\ MaxBeats \in Nat /\ MaxId \in Nat \ {0} /\ Room \in Nat
    /\ None \notin Cmds

VARIABLES
    conn,      \* the number of the newest connection
    open,      \* it is open and its agent is tracked
    cut,       \* but the AP or the network has ended it
    closing,   \* closeSocket is in its monitor
    out,       \* what the owner of Master's monitor writes, and to whom
    currentId, \* currentId of the Agent object of each connection
    pc,        \* where the executor thread of each command is
    agent,     \* the connection whose Agent object a command was given
    msgId,     \* the number of each command, 0 at first
    msgMap,    \* sendMsgBuffer: number -> entry
    toAp,      \* the connection, from the controller to the AP
    toMaster,  \* and back
    held,      \* the message fnii_receive_msg_thread is about to handle
    beatSeq,   \* beat_cseq of the AP
    beatLive,  \* beat_status is BEAT_LIVE
    beats,     \* the heartbeats sent
    beatIds,   \* history: the numbers of the heartbeats
    laps,      \* history: how often each Agent object's numbers started again
    lap,       \* history: and how often before each command's number
    result,    \* history: what the AP did with each command
    outcome    \* history: what CheckSendMsgTask or cancelTask made of each command

vars == <<conn, open, cut, closing, out, currentId, pc, agent, msgId, msgMap, toAp, toMaster,
          held, beatSeq, beatLive, beats, beatIds, laps, lap, result, outcome>>
socket == <<conn, open, cut, closing>>
numbers == <<currentId, laps>>
runnable == <<pc, agent, msgId, lap>>
ap == <<held, beatSeq, beatLive, beats, beatIds, result>>

Ids == 0 .. MaxId
Entries == [cmd : Cmds, status : {"unreply", "ok", "err"}]
Messages == [kind : {"cmd"}, id : Ids, cmd : Cmds] \union [kind : {"beat"}, id : Ids]
Replies == [kind : {"beat", "ok", "err"}, id : Ids]
Writes == [to : 0 .. MaxConn, msg : Messages]

Init ==
    /\ conn = 0 /\ open = FALSE /\ cut = FALSE
    /\ closing = FALSE /\ out = None
    /\ currentId = [c \in 0 .. MaxConn |-> 0]
    /\ laps = [c \in 0 .. MaxConn |-> 0]
    /\ pc = [m \in Cmds |-> "idle"]
    /\ agent = [m \in Cmds |-> 0]
    /\ msgId = [m \in Cmds |-> 0]
    /\ lap = [m \in Cmds |-> 0]
    /\ msgMap = [i \in Ids |-> None]
    /\ toAp = <<>> /\ toMaster = <<>>
    /\ held = None
    /\ beatSeq = 0 /\ beatLive = TRUE /\ beats = 0 /\ beatIds = {}
    /\ result = [m \in Cmds |-> "none"]
    /\ outcome = [m \in Cmds |-> "none"]

Reachable(m) == open /\ agent[m] = conn

(* A writer of this radio owns Master's monitor; its socket is open.  A     *)
(* close of that socket begins before the writer comes or after it is gone: *)
(* in between, the writer has the socket's monitor or is about to take it.  *)
Writing == out \notin {None, Other}
IsOpen == open /\ out.to = conn

-----------------------------------------------------------------------------
(* The AP connects and is registered with a new Agent object. *)
Connect ==
    /\ ~open /\ conn < MaxConn
    /\ conn' = conn + 1 /\ open' = TRUE
    /\ toAp' = <<>> /\ toMaster' = <<>>
    /\ beatLive' = TRUE
    /\ UNCHANGED <<cut, closing, out, numbers, runnable, msgMap, held, beatSeq, beats, beatIds, result, outcome>>

(* The AP or the network ends the connection.  What the AP has received     *)
(* already it still handles.                                                *)
Break ==
    /\ open /\ ~cut
    /\ cut' = TRUE
    /\ toAp' = <<>>
    /\ UNCHANGED <<conn, open, closing, out, numbers, runnable, msgMap, toMaster, ap, outcome>>

(* closeSocket, for whatever reason: it enters the socket's monitor, resets *)
(* the agent, which may wait for a station's monitor, and closes.           *)
CloseEnter ==
    /\ open /\ ~closing /\ ~(Writing /\ IsOpen)
    /\ closing' = TRUE
    /\ UNCHANGED <<conn, open, cut, out, numbers, runnable, msgMap, toAp, toMaster, ap, outcome>>

CloseEnd ==
    /\ closing
    /\ closing' = FALSE /\ open' = FALSE /\ cut' = FALSE
    /\ toAp' = <<>> /\ toMaster' = <<>>
    /\ UNCHANGED <<conn, out, numbers, runnable, msgMap, ap, outcome>>

-----------------------------------------------------------------------------
(* excuteAddVap or delVapContainer gives a runnable to the executor. *)
Issue(m) ==
    /\ pc[m] = "idle" /\ open
    /\ pc' = [pc EXCEPT ![m] = "issued"]
    /\ agent' = [agent EXCEPT ![m] = conn]
    /\ UNCHANGED <<socket, out, numbers, msgId, lap, msgMap, toAp, toMaster, ap, outcome>>

(* A variant for comparison: getMsgId without idLock loses an increment. *)
NumberUnlocked(m) ==
    /\ pc[m] = "issued"
    /\ LET last == currentId[agent[m]]
           again == last + 1 > MaxId
       IN  /\ msgId' = [msgId EXCEPT ![m] = IF again THEN last + 1 - MaxId ELSE last + 1]
           /\ laps' = [laps EXCEPT ![agent[m]] = IF again THEN @ + 1 ELSE @]
           /\ \E i \in {last, msgId'[m]} : currentId' = [currentId EXCEPT ![agent[m]] = i]
    /\ lap' = [lap EXCEPT ![m] = laps'[agent[m]]]
    /\ pc' = [pc EXCEPT ![m] = "numbered"]
    /\ UNCHANGED <<socket, out, agent, msgMap, toAp, toMaster, ap, outcome>>

(* getMsgId under idLock: the numbers run from 1 to MaxId and start again.  *)
(* The last one has a digit more than its field; the AP never gets to the   *)
(* end of that message, which is to say that it stops receiving.            *)
Number(m) ==
    /\ pc[m] = "issued"
    /\ LET next == currentId[agent[m]] + 1
           again == next > MaxId
       IN  /\ currentId' = [currentId EXCEPT ![agent[m]] = IF again THEN next - MaxId ELSE next]
           /\ laps' = [laps EXCEPT ![agent[m]] = IF again THEN @ + 1 ELSE @]
    /\ msgId' = [msgId EXCEPT ![m] = currentId'[agent[m]]]
    /\ lap' = [lap EXCEPT ![m] = laps'[agent[m]]]
    /\ pc' = [pc EXCEPT ![m] = "numbered"]
    /\ UNCHANGED <<socket, out, agent, msgMap, toAp, toMaster, ap, outcome>>

(* writeMessage: its caller enters Master's monitor. *)
EnterWrite(m) ==
    /\ pc[m] = "numbered" /\ out = None
    /\ out' = [to |-> agent[m], msg |-> [kind |-> "cmd", id |-> msgId[m], cmd |-> m]]
    /\ pc' = [pc EXCEPT ![m] = "writing"]
    /\ UNCHANGED <<socket, numbers, agent, msgId, lap, msgMap, toAp, toMaster, ap, outcome>>

WriterIs(there) ==
    pc' = IF out.msg.kind = "cmd" THEN [pc EXCEPT ![out.msg.cmd] = there] ELSE pc

(* In it the caller enters the socket's, and repeats sc.write until the     *)
(* socket has taken the message.  Of a connection that is cut the socket    *)
(* may take it too.                                                         *)
Write ==
    /\ Writing /\ IsOpen /\ ~closing
    /\ \/ ~cut /\ Len(toAp) < Room /\ toAp' = Append(toAp, out.msg)
       \/ cut /\ UNCHANGED toAp
    /\ WriterIs("written")
    /\ out' = None
    /\ UNCHANGED <<socket, numbers, agent, msgId, lap, msgMap, toMaster, ap, outcome>>

(* It fails with an IOException, or as the socket is closed. *)
WriteFails ==
    /\ Writing
    /\ IsOpen => cut /\ ~closing
    /\ WriterIs("failed")
    /\ out' = None
    /\ UNCHANGED <<socket, numbers, agent, msgId, lap, msgMap, toAp, toMaster, ap, outcome>>

(* Then cancelTask takes the command back, if the socket is still tracked. *)
CancelWrite(m) ==
    /\ pc[m] = "failed"
    /\ pc' = [pc EXCEPT ![m] = "checked"]
    /\ outcome' = IF Reachable(m) THEN [outcome EXCEPT ![m] = "cancelled"] ELSE outcome
    /\ UNCHANGED <<socket, out, numbers, agent, msgId, lap, msgMap, toAp, toMaster, ap>>

(* A message to another radio is written; of interest to those who wait. *)
OtherEnters ==
    /\ \E m \in Cmds : pc[m] = "numbered"
    /\ out = None /\ out' = Other
    /\ UNCHANGED <<socket, numbers, runnable, msgMap, toAp, toMaster, ap, outcome>>

OtherEnds ==
    /\ out = Other /\ out' = None
    /\ UNCHANGED <<socket, numbers, runnable, msgMap, toAp, toMaster, ap, outcome>>

(* putSendMsg, whatever the buffer holds under this number, and the start   *)
(* of the timer.                                                            *)
Store(m) ==
    /\ pc[m] = "written"
    /\ msgMap' = [msgMap EXCEPT ![msgId[m]] = [cmd |-> m, status |-> "unreply"]]
    /\ pc' = [pc EXCEPT ![m] = "stored"]
    /\ UNCHANGED <<socket, out, numbers, agent, msgId, lap, toAp, toMaster, ap, outcome>>

-----------------------------------------------------------------------------
(* CheckSendMsgTask: the entry under the number of m is judged, which need  *)
(* not be m's.  Only an entry that is ok leaves the buffer; on none at all  *)
(* the task throws.                                                         *)
Judged(entry) == IF entry.status = "ok" THEN "confirmed" ELSE "cancelled"

(* A variant for comparison: an unanswered command is left alone. *)
CheckAnswered(m) ==
    /\ pc[m] = "stored"
    /\ pc' = [pc EXCEPT ![m] = "checked"]
    /\ LET entry == msgMap[msgId[m]]
       IN  IF entry = None \/ entry.status = "unreply" THEN UNCHANGED <<msgMap, outcome>>
           ELSE /\ outcome' = [outcome EXCEPT ![entry.cmd] = Judged(entry)]
                /\ msgMap' = IF entry.status = "ok" THEN [msgMap EXCEPT ![msgId[m]] = None]
                             ELSE msgMap
    /\ UNCHANGED <<socket, out, numbers, agent, msgId, lap, toAp, toMaster, ap>>

Check(m) ==
    /\ pc[m] = "stored"
    /\ pc' = [pc EXCEPT ![m] = "checked"]
    /\ LET entry == msgMap[msgId[m]]
       IN  IF entry = None THEN UNCHANGED <<msgMap, outcome>>
           ELSE /\ outcome' = [outcome EXCEPT ![entry.cmd] = Judged(entry)]
                /\ msgMap' = IF entry.status = "ok" THEN [msgMap EXCEPT ![msgId[m]] = None]
                             ELSE msgMap
    /\ UNCHANGED <<socket, out, numbers, agent, msgId, lap, toAp, toMaster, ap>>

(* The worker of this connection is in writeMessage. *)
Echoing == Writing /\ IsOpen /\ out.msg.kind = "beat"

(* A variant for comparison: an answer of any kind is taken for a result. *)
AnswerAnyKind ==
    /\ toMaster # <<>> /\ ~Echoing
    /\ toMaster' = Tail(toMaster)
    /\ LET i == Head(toMaster).id
       IN  msgMap' = IF msgMap[i] = None THEN msgMap
                     ELSE [msgMap EXCEPT ![i].status = Head(toMaster).kind]
    /\ UNCHANGED <<socket, out, numbers, runnable, toAp, ap, outcome>>

(* processMsgOk and processMsgErr: an answer that finds no entry is lost. *)
Answer ==
    /\ toMaster # <<>> /\ Head(toMaster).kind \in {"ok", "err"} /\ ~Echoing
    /\ toMaster' = Tail(toMaster)
    /\ LET i == Head(toMaster).id
       IN  msgMap' = IF msgMap[i] = None THEN msgMap
                     ELSE [msgMap EXCEPT ![i].status = Head(toMaster).kind]
    /\ UNCHANGED <<socket, out, numbers, runnable, toAp, ap, outcome>>

(* processMsgHeartBeat: the worker writes the echo. *)
EnterEcho ==
    /\ toMaster # <<>> /\ Head(toMaster).kind = "beat" /\ out = None
    /\ toMaster' = Tail(toMaster)
    /\ out' = [to |-> conn, msg |-> Head(toMaster)]
    /\ UNCHANGED <<socket, numbers, runnable, msgMap, toAp, ap, outcome>>

-----------------------------------------------------------------------------
(* fnii_send_msg_beat: the number is fnii_msg_idf, which every message of   *)
(* the AP advances.  The next one waits for the echo of the last; without   *)
(* it the AP ends the connection.                                           *)
ApBeat(i) ==
    /\ open /\ ~cut /\ beatLive /\ beats < MaxBeats
    /\ toMaster' = Append(toMaster, [kind |-> "beat", id |-> i])
    /\ beatSeq' = i /\ beatLive' = FALSE
    /\ beats' = beats + 1
    /\ beatIds' = beatIds \union {i}
    /\ UNCHANGED <<socket, out, numbers, runnable, msgMap, toAp, held, result, outcome>>

(* recv in fnii_receive_msg_thread. *)
ApReceive ==
    /\ held = None /\ toAp # <<>>
    /\ held' = Head(toAp)
    /\ toAp' = Tail(toAp)
    /\ UNCHANGED <<socket, out, numbers, runnable, msgMap, toMaster, beatSeq, beatLive, beats, beatIds, result, outcome>>

(* The answer goes to whatever connection there is by now. *)
Reply(kind, i) ==
    toMaster' = IF open /\ ~cut THEN Append(toMaster, [kind |-> kind, id |-> i]) ELSE toMaster

(* fnii_parse_msg and the answer: a command is done or refused, the echo of *)
(* a heartbeat (fnii_handle_beat) is right or late.                         *)
ApCommand(done) ==
    /\ held # None /\ held.kind = "cmd"
    /\ result' = [result EXCEPT ![held.cmd] = IF done THEN "done" ELSE "refused"]
    /\ Reply(IF done THEN "ok" ELSE "err", held.id)
    /\ held' = None
    /\ UNCHANGED <<socket, out, numbers, runnable, msgMap, toAp, beatSeq, beatLive, beats, beatIds, outcome>>

ApEcho ==
    /\ held # None /\ held.kind = "beat"
    /\ Reply(IF held.id = beatSeq THEN "ok" ELSE "err", held.id)
    /\ beatLive' = (beatLive \/ held.id = beatSeq)
    /\ held' = None
    /\ UNCHANGED <<socket, out, numbers, runnable, msgMap, toAp, beatSeq, beats, beatIds, result, outcome>>

-----------------------------------------------------------------------------
Next ==
    \/ Connect \/ Break \/ CloseEnter \/ CloseEnd
    \/ \E m \in Cmds : Issue(m) \/ Number(m) \/ EnterWrite(m) \/ CancelWrite(m) \/ Store(m) \/ Check(m)
    \/ Write \/ WriteFails
    \/ OtherEnters \/ OtherEnds
    \/ Answer \/ EnterEcho
    \/ \E i \in Ids : ApBeat(i)
    \/ ApReceive
    \/ \E done \in BOOLEAN : ApCommand(done)
    \/ ApEcho

Spec == Init /\ [][Next]_vars

(* The pool gives every runnable a thread, and every timer runs; a thread   *)
(* that waits for a monitor gets it if it is free again and again.  Nothing *)
(* is assumed of the AP, of the network, of other radios and of a           *)
(* closeSocket that waits in Agent.reset.                                   *)
FairSpec ==
    /\ Spec
    /\ \A m \in Cmds : /\ WF_vars(Number(m)) /\ SF_vars(EnterWrite(m)) /\ WF_vars(CancelWrite(m))
                       /\ WF_vars(Store(m)) /\ WF_vars(Check(m))
    /\ WF_vars(Write) /\ WF_vars(WriteFails)

-----------------------------------------------------------------------------
(* The types of the variables. *)
TypeOK ==
    /\ conn \in 0 .. MaxConn /\ open \in BOOLEAN /\ cut \in BOOLEAN
    /\ closing \in BOOLEAN /\ out \in Writes \union {None, Other}
    /\ currentId \in [0 .. MaxConn -> Ids] /\ laps \in [0 .. MaxConn -> Nat]
    /\ pc \in [Cmds -> {"idle", "issued", "numbered", "writing", "written", "failed", "stored", "checked"}]
    /\ agent \in [Cmds -> 0 .. MaxConn]
    /\ msgId \in [Cmds -> Ids] /\ lap \in [Cmds -> Nat]
    /\ msgMap \in [Ids -> Entries \union {None}]
    /\ toAp \in Seq(Messages) /\ toMaster \in Seq(Replies)
    /\ held \in Messages \union {None}
    /\ beatSeq \in Ids /\ beatLive \in BOOLEAN /\ beats \in 0 .. MaxBeats /\ beatIds \subseteq Ids
    /\ result \in [Cmds -> {"none", "done", "refused"}]
    /\ outcome \in [Cmds -> {"none", "confirmed", "cancelled"}]

(* An entry of sendMsgBuffer is ok only if the AP has executed its command, *)
(* or a heartbeat had its number, or a command that was executed had it and *)
(* was given it by the Agent object of another connection or, by the same   *)
(* one, before or after getMsgId started again: between two restarts of the *)
(* count the commands of a connection are never mixed up.                   *)
ConfirmedByRightAnswer ==
    \A i \in Ids : msgMap[i] # None /\ msgMap[i].status = "ok" =>
        LET m == msgMap[i].cmd
        IN  \/ result[m] = "done"
            \/ i \in beatIds
            \/ \E n \in Cmds : /\ result[n] = "done" /\ msgId[n] = i
                               /\ agent[n] # agent[m] \/ lap[n] # lap[m]

(* Master's monitor does not come free: another radio's write is in it, or  *)
(* a message to an AP that does not read, or to a socket that is closing.   *)
Stalled == out = Other \/ (out # None /\ (Len(toAp) >= Room \/ closing))

(* A command that was given to the executor is confirmed or cancelled in    *)
(* the end, as long as its agent is there, no other command has taken its   *)
(* place in sendMsgBuffer, and writeMessage is not held up for good by an   *)
(* AP that does not read or by a close.                                     *)
CommandSettles ==
    \A m \in Cmds :
        pc[m] = "issued" ~>
            \/ outcome[m] # "none"
            \/ ~Reachable(m)
            \/ msgMap[msgId[m]] # None /\ msgMap[msgId[m]].cmd # m
            \/ []Stalled
================================================================================
