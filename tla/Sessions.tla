-------------------------------- MODULE Sessions --------------------------------
(***************************************************************************)
(* AP sessions in the controller: the socket, agent-by-MAC and             *)
(* agent-by-socket maps of Master, and the threads that open, replace and  *)
(* close sessions: the listener (ListenServer), the message workers        *)
(* (Worker), and the threads of Master's executors, which run the ageing   *)
(* task and the command task, write commands and cancel them.              *)
(*                                                                         *)
(* An AP announces itself once per connection (FNII_MSG_LOCAL_MAC), so the *)
(* Agent object is named by its socket.  The monitors of SocketChannel and *)
(* Station objects are modelled where they are held across a call that may *)
(* block; a stretch of code that takes a monitor and gives it up without   *)
(* blocking in between is one action with the monitor free in its guard.   *)
(* The maps themselves are read without a monitor, so two updates of them  *)
(* in one stretch are two actions.                                         *)
(* What vap a station has on an agent matters here only as the monitors    *)
(* Agent.reset must take; module VapControl has the rest of it, and module *)
(* Commands what is written.                                               *)
(***************************************************************************)
EXTENDS Naturals, Sequences

CONSTANTS
    Sockets,     \* SocketChannel objects, one per connection an AP opens
    Macs,        \* the APs
    Mac,         \* the AP at the other end of each socket
    Stations,    \* Station objects, each a monitor
    Workers,     \* message threads (Controller.NUM_PROCESS_MESSAGE)
    WorkerOf,    \* the worker of each socket, by its hash code
    QueueSize,   \* Worker.QUEUE_SIZE
    MaxMsgs,     \* bound: messages of each connection
    Listener,    \* the selector thread
    Pool,        \* threads of executor and timerExecutor
    None

ASSUME MacAssumption == Mac \in [Sockets -> Macs]
ASSUME QueueAssumption == WorkerOf \in [Sockets -> Workers] /\ QueueSize \in Nat \ {0}
ASSUME MsgsAssumption == MaxMsgs \in [Sockets -> Nat]
ASSUME ThreadAssumption ==
    /\ Listener \notin Workers \cup Pool
    /\ Workers \cap Pool = {}
ASSUME NoneAssumption ==
    /\ None \notin Sockets \cup Stations \cup Workers \cup Pool \cup {Listener}
    /\ Sockets \cap Stations = {}

Threads == Workers \cup Pool \cup {Listener}
Jobs == [type : {"mac", "other"}, sc : Sockets]

VARIABLES
    sock,      \* state of each channel
    tracked,   \* keys of SocketManager.socketMap
    eof,       \* sockets whose AP has closed its end
    read,      \* messages the listener has read from each socket
    sc2Agent,  \* keys of AgentManager.sc2AgentMap
    agentMap,  \* AgentManager.agentMap
    live,      \* agents whose field sc is set: created and not yet reset
    heard,     \* agents heard of within AGENT_TIME_OUT
    vaps,      \* <<station, agent>> pairs that have a vap container
    queue,     \* jobs of each worker
    scLock,    \* owner of each SocketChannel monitor
    stLock,    \* owner of each Station monitor
    pc,        \* where each thread is
    tgt,       \* the socket a thread is closing or about to use
    own,       \* the socket a worker registers, the station a thread works on
    todo,      \* stations that Agent.reset still has to visit
    cmdAlive   \* CmdTask has not been ended by an exception

views == <<tracked, sc2Agent, agentMap, live, heard, vaps>>
input == <<eof, read, queue>>
threadState == <<pc, tgt, own, todo>>
vars == <<sock, input, views, scLock, stLock, threadState, cmdAlive>>

Init ==
    /\ sock = [s \in Sockets |-> "new"]
    /\ tracked = {} /\ eof = {}
    /\ read = [s \in Sockets |-> 0]
    /\ sc2Agent = {} /\ live = {} /\ heard = {}
    /\ agentMap = [m \in Macs |-> None]
    /\ vaps = {}
    /\ queue = [w \in Workers |-> <<>>]
    /\ scLock = [s \in Sockets |-> None]
    /\ stLock = [st \in Stations |-> None]
    /\ pc = [t \in Threads |-> "idle"]
    /\ tgt = [t \in Threads |-> None]
    /\ own = [t \in Threads |-> None]
    /\ todo = [t \in Threads |-> {}]
    /\ cmdAlive = TRUE

StationsOn(s) == {st \in Stations : <<st, s>> \in vaps}

(* The thread of the pool that runs AgeTask holds the station it is at; the *)
(* one that runs CmdTask does not.                                          *)
Ages(t) == t \in Pool /\ own[t] \in Stations /\ stLock[own[t]] = t
RunsCmdTask(t) == t \in Pool /\ own[t] \in Stations /\ stLock[own[t]] # t

(* What a thread does when closeSocket returns: a worker goes on with       *)
(* processMsgLocalMac or is done with its message and gives up the station  *)
(* it may have locked for it, AgeTask goes on with its loop over the vaps.  *)
Return(t) ==
    LET registers == t \in Workers /\ own[t] \in Sockets IN
    /\ pc' = [pc EXCEPT ![t] = IF registers THEN "register"
                              ELSE IF Ages(t) THEN "aging" ELSE "idle"]
    /\ tgt' = [tgt EXCEPT ![t] = None]
    /\ own' = [own EXCEPT ![t] = IF registers \/ Ages(t) THEN @ ELSE None]
    /\ stLock' = [st \in Stations |->
                     IF stLock[st] = t /\ ~ Ages(t) THEN None ELSE stLock[st]]
--------------------------------------------------------------------------------
(* ListenServer.handle: accept, read, end of stream. *)

Accept(s) ==
    /\ pc[Listener] = "idle"
    /\ sock[s] = "new"
    /\ sock' = [sock EXCEPT ![s] = "open"]
    /\ tracked' = tracked \cup {s}
    /\ UNCHANGED <<input, sc2Agent, agentMap, live, heard, vaps, scLock, stLock,
                   threadState, cmdAlive>>

(* A message goes to the worker of its socket; the first one of a           *)
(* connection is LOCAL_MAC.  Worker.putMessage blocks on a full queue.      *)
Job(s) == [type |-> IF read[s] = 0 THEN "mac" ELSE "other", sc |-> s]

Read(s) ==
    LET w == WorkerOf[s] IN
    /\ pc[Listener] = "idle"
    /\ sock[s] = "open"
    /\ s \in tracked \ eof
    /\ read[s] < MaxMsgs[s]
    /\ IF Len(queue[w]) < QueueSize
       THEN /\ queue' = [queue EXCEPT ![w] = Append(@, Job(s))]
            /\ read' = [read EXCEPT ![s] = @ + 1]
            /\ UNCHANGED <<pc, tgt>>
       ELSE /\ pc' = [pc EXCEPT ![Listener] = "put"]
            /\ tgt' = [tgt EXCEPT ![Listener] = s]
            /\ UNCHANGED <<queue, read>>
    /\ UNCHANGED <<sock, eof, views, scLock, stLock, own, todo, cmdAlive>>

Put ==
    LET s == tgt[Listener]
        w == WorkerOf[s]
    IN
    /\ pc[Listener] = "put"
    /\ Len(queue[w]) < QueueSize
    /\ queue' = [queue EXCEPT ![w] = Append(@, Job(s))]
    /\ read' = [read EXCEPT ![s] = @ + 1]
    /\ pc' = [pc EXCEPT ![Listener] = "idle"]
    /\ tgt' = [tgt EXCEPT ![Listener] = None]
    /\ UNCHANGED <<sock, eof, views, scLock, stLock, own, todo, cmdAlive>>

(* The AP closes its end, or its end is found dead: the next read says so.  *)
PeerCloses(s) ==
    /\ sock[s] = "open"
    /\ s \notin eof
    /\ eof' = eof \cup {s}
    /\ UNCHANGED <<sock, read, queue, views, scLock, stLock, threadState, cmdAlive>>


(* count <= 0, or an IOException: closeSocket(sc) *)
ReadEof(s) ==
    /\ pc[Listener] = "idle"
    /\ s \in eof
    /\ sock[s] = "open"
    /\ pc' = [pc EXCEPT ![Listener] = "close"]
    /\ tgt' = [tgt EXCEPT ![Listener] = s]
    /\ UNCHANGED <<sock, input, views, scLock, stLock, own, todo, cmdAlive>>
--------------------------------------------------------------------------------
(* Master.closeSocket, run by any thread. *)

(* synchronized (sc): a channel already closed throws, and nothing is done; *)
(* one without an agent is closed at once; otherwise its agent is reset.    *)
CloseBody(t) ==
    LET s == tgt[t] IN
    /\ pc[t] = "close"
    /\ tracked' = tracked \ {s}
    /\ IF sock[s] = "open" /\ s \in sc2Agent
       THEN /\ scLock' = [scLock EXCEPT ![s] = t]
            /\ todo' = [todo EXCEPT ![t] = StationsOn(s)]
            /\ pc' = [pc EXCEPT ![t] = "reset"]
            /\ UNCHANGED <<sock, tgt, own, stLock>>
       ELSE /\ sock' = [sock EXCEPT ![s] = "closed"]
            /\ Return(t)
            /\ UNCHANGED <<scLock, todo>>
    /\ UNCHANGED <<input, sc2Agent, agentMap, live, heard, vaps, cmdAlive>>

(* Variant: without synchronized (sc). *)
CloseEnterUnlocked(t) == CloseBody(t)

CloseEnter(t) == pc[t] = "close" /\ scLock[tgt[t]] = None /\ CloseBody(t)

(* Agent.reset: one vap, under the monitor of its station.  The iterator    *)
(* shows every vap present when it was made and may show later ones.        *)
ResetVap(t, st) ==
    /\ pc[t] = "reset"
    /\ st \in StationsOn(tgt[t]) \cup todo[t]
    /\ stLock[st] \in {None, t}
    /\ vaps' = vaps \ {<<st, tgt[t]>>}
    /\ todo' = [todo EXCEPT ![t] = @ \ {st}]
    /\ UNCHANGED <<sock, input, tracked, sc2Agent, agentMap, live, heard, scLock,
                   stLock, pc, tgt, own, cmdAlive>>

(* Variant: the agent keeps its reference to the socket. *)
ResetEndKeepsSc(t) ==
    /\ pc[t] = "reset"
    /\ todo[t] = {}
    /\ heard' = heard \ {tgt[t]}
    /\ pc' = [pc EXCEPT ![t] = "unmap"]
    /\ UNCHANGED <<sock, input, tracked, sc2Agent, agentMap, live, vaps, scLock,
                   stLock, tgt, own, todo, cmdAlive>>

(* The end of Agent.reset: setLastHeard(0), setSocketChannel(null). *)
ResetEnd(t) ==
    /\ pc[t] = "reset"
    /\ todo[t] = {}
    /\ heard' = heard \ {tgt[t]}
    /\ live' = live \ {tgt[t]}
    /\ pc' = [pc EXCEPT ![t] = "unmap"]
    /\ UNCHANGED <<sock, input, tracked, sc2Agent, agentMap, vaps, scLock, stLock,
                   tgt, own, todo, cmdAlive>>

(* agentManager.removeAgentBySc: lookups by socket no longer find it. *)
UnmapSc(t) ==
    /\ pc[t] = "unmap"
    /\ sc2Agent' = sc2Agent \ {tgt[t]}
    /\ pc' = [pc EXCEPT ![t] = "unmapMac"]
    /\ UNCHANGED <<sock, input, tracked, agentMap, live, heard, vaps, scLock, stLock,
                   tgt, own, todo, cmdAlive>>

(* Variant: the agent is not removed from agentMap. *)
UnmapMacNot(t) ==
    LET s == tgt[t] IN
    /\ pc[t] = "unmapMac"
    /\ sock' = [sock EXCEPT ![s] = "closed"]
    /\ scLock' = [scLock EXCEPT ![s] = None]
    /\ Return(t)
    /\ UNCHANGED <<input, views, todo, cmdAlive>>

(* agentManager.removeAgent, by MAC, whichever agent is registered there    *)
(* now; then sc.close() and the end of synchronized (sc).                   *)
UnmapMac(t) ==
    LET s == tgt[t] IN
    /\ pc[t] = "unmapMac"
    /\ agentMap' = [agentMap EXCEPT ![Mac[s]] = None]
    /\ sock' = [sock EXCEPT ![s] = "closed"]
    /\ scLock' = [scLock EXCEPT ![s] = None]
    /\ Return(t)
    /\ UNCHANGED <<input, tracked, sc2Agent, live, heard, vaps, todo, cmdAlive>>
--------------------------------------------------------------------------------
(* A worker and its queue. *)

Take(w, type) ==
    /\ pc[w] = "idle"
    /\ queue[w] # <<>>
    /\ Head(queue[w]).type = type
    /\ queue' = [queue EXCEPT ![w] = Tail(@)]

(* Variant: agentSc != null is not tested. *)
LocalMacUntested(w) ==
    LET s == Head(queue[w]).sc
        old == agentMap[Mac[s]]
        stale == old # None /\ old # s
    IN
    /\ Take(w, "mac")
    /\ own' = [own EXCEPT ![w] = s]
    /\ pc' = [pc EXCEPT ![w] = IF stale THEN "close" ELSE "register"]
    /\ tgt' = [tgt EXCEPT ![w] = IF stale /\ old \in live THEN old ELSE None]
    /\ UNCHANGED <<sock, eof, read, views, scLock, stLock, todo, cmdAlive>>

(* processMsgLocalMac: a session of the same AP that is still known is      *)
(* closed first.                                                            *)
LocalMac(w) ==
    LET s == Head(queue[w]).sc
        old == agentMap[Mac[s]]
        stale == old # None /\ old \in live /\ old # s
    IN
    /\ Take(w, "mac")
    /\ own' = [own EXCEPT ![w] = s]
    /\ pc' = [pc EXCEPT ![w] = IF stale THEN "close" ELSE "register"]
    /\ tgt' = [tgt EXCEPT ![w] = IF stale THEN old ELSE None]
    /\ UNCHANGED <<sock, eof, read, views, scLock, stLock, todo, cmdAlive>>

(* addAgent: from now on the new agent is found by its MAC. *)
AddAgentBody(w) ==
    LET s == own[w] IN
    /\ scLock' = [scLock EXCEPT ![s] = w]
    /\ live' = live \cup {s}
    /\ heard' = heard \cup {s}
    /\ agentMap' = [agentMap EXCEPT ![Mac[s]] = s]
    /\ pc' = [pc EXCEPT ![w] = "putBySc"]
    /\ UNCHANGED own

(* Variant: the socket is not tested again under its monitor. *)
AddAgentUntested(w) ==
    /\ pc[w] = "register"
    /\ scLock[own[w]] = None
    /\ AddAgentBody(w)
    /\ UNCHANGED <<sock, input, tracked, sc2Agent, vaps, stLock, tgt, todo, cmdAlive>>

(* new Agent, then synchronized (sc): registered if the socket is tracked.  *)
AddAgent(w) ==
    LET s == own[w] IN
    /\ pc[w] = "register"
    /\ scLock[s] = None
    /\ IF s \in tracked
       THEN AddAgentBody(w)
       ELSE /\ pc' = [pc EXCEPT ![w] = "idle"]
            /\ own' = [own EXCEPT ![w] = None]
            /\ UNCHANGED <<scLock, live, heard, agentMap>>
    /\ UNCHANGED <<sock, input, tracked, sc2Agent, vaps, stLock, tgt, todo, cmdAlive>>

(* putAgentBySc, and the end of synchronized (sc). *)
PutBySc(w) ==
    LET s == own[w] IN
    /\ pc[w] = "putBySc"
    /\ sc2Agent' = sc2Agent \cup {s}
    /\ scLock' = [scLock EXCEPT ![s] = None]
    /\ pc' = [pc EXCEPT ![w] = "idle"]
    /\ own' = [own EXCEPT ![w] = None]
    /\ UNCHANGED <<sock, input, tracked, agentMap, live, heard, vaps, stLock, tgt, todo,
                   cmdAlive>>

Usable(s) == s \in live /\ s \in sc2Agent
Silent(s) == Usable(s) /\ s \notin heard

(* delVapContainer and excuteAddVap, for an agent that is found OFF_LINE:   *)
(* on to closeSocket.                                                       *)
CloseSilent(t, s) ==
    /\ Silent(s)
    /\ pc' = [pc EXCEPT ![t] = "readSc"]
    /\ tgt' = [tgt EXCEPT ![t] = s]

(* Any other message: updateAgentHeard first. *)
Hear(w) ==
    LET s == Head(queue[w]).sc IN
    /\ Take(w, "other")
    /\ heard' = IF s \in sc2Agent THEN heard \cup {s} ELSE heard
    /\ UNCHANGED <<sock, eof, read, tracked, sc2Agent, agentMap, live, vaps, scLock, todo,
                   cmdAlive>>

Message(w) == Hear(w) /\ UNCHANGED <<pc, tgt, own, stLock>>

(* processMsgNewStation tells other agents to drop their vaps of the        *)
(* station, and a roaming application, which runs on the worker, asks       *)
(* another agent to add one: no monitor is held.                            *)
MessageCloses(w, s) ==
    /\ Hear(w)
    /\ Head(queue[w]).sc \in sc2Agent \ {s}
    /\ CloseSilent(w, s)
    /\ UNCHANGED <<own, stLock>>

(* processMsgOk for ADD_VAP_ROAM: the vap is looked up, and the station is  *)
(* locked for delVapContainer.  An agent that is online gets a command.     *)
OkRoam(w, st, s) ==
    /\ Hear(w)
    /\ Head(queue[w]).sc \in sc2Agent \ {s}
    /\ <<st, s>> \in vaps
    /\ pc' = [pc EXCEPT ![w] = "roam"]
    /\ tgt' = [tgt EXCEPT ![w] = s]
    /\ own' = [own EXCEPT ![w] = st]
    /\ UNCHANGED stLock

OkRoamLocked(w) ==
    /\ pc[w] = "roam"
    /\ stLock[own[w]] = None
    /\ \/ /\ CloseSilent(w, tgt[w])
          /\ stLock' = [stLock EXCEPT ![own[w]] = w]
          /\ UNCHANGED own
       \/ /\ ~ Silent(tgt[w])
          /\ pc' = [pc EXCEPT ![w] = "idle"]
          /\ tgt' = [tgt EXCEPT ![w] = None]
          /\ own' = [own EXCEPT ![w] = None]
          /\ UNCHANGED stLock
    /\ UNCHANGED <<sock, input, views, scLock, todo, cmdAlive>>

(* The passing of AGENT_TIME_OUT. *)
AgentTimesOut(s) ==
    /\ s \in heard
    /\ heard' = heard \ {s}
    /\ UNCHANGED <<sock, input, tracked, sc2Agent, agentMap, live, vaps, scLock, stLock,
                   threadState, cmdAlive>>
--------------------------------------------------------------------------------
(* The tasks that meet an agent that has timed out. *)

(* closeSocket(agent.getSc()): the field is read a second time; when reset  *)
(* has cleared it meanwhile, synchronized (null) throws.  AgeTask and the   *)
(* worker catch it and have given up the monitor; in CmdTask it ends the    *)
(* scheduled task.                                                          *)
ReadScAgain(t) ==
    /\ pc[t] = "readSc"
    /\ IF tgt[t] \in live
       THEN /\ pc' = [pc EXCEPT ![t] = "close"]
            /\ UNCHANGED <<tgt, own, stLock, cmdAlive>>
       ELSE /\ pc' = [pc EXCEPT ![t] = "idle"]
            /\ cmdAlive' = (cmdAlive /\ ~ RunsCmdTask(t))
            /\ tgt' = [tgt EXCEPT ![t] = None]
            /\ own' = [own EXCEPT ![t] = None]
            /\ stLock' = [st \in Stations |-> IF stLock[st] = t THEN None ELSE stLock[st]]
    /\ UNCHANGED <<sock, input, views, scLock, todo>>

(* AgeTask, one run at a time, takes the monitor of an offline station and  *)
(* goes over its vaps.                                                      *)
AgeStation(p, st) ==
    /\ \A q \in Pool : ~ Ages(q)
    /\ pc[p] = "idle"
    /\ stLock[st] = None
    /\ \E s \in Sockets : <<st, s>> \in vaps
    /\ stLock' = [stLock EXCEPT ![st] = p]
    /\ pc' = [pc EXCEPT ![p] = "aging"]
    /\ own' = [own EXCEPT ![p] = st]
    /\ UNCHANGED <<sock, input, views, scLock, tgt, todo, cmdAlive>>

(* delVapContainer for one vap.  The agent is unusable or online: nothing   *)
(* or a command, and the vap is removed.  Timed out: closeSocket first,     *)
(* with the monitor of the station held; reset removes the vap.             *)
AgeVap(p, s) ==
    /\ pc[p] = "aging"
    /\ <<own[p], s>> \in vaps
    /\ \/ CloseSilent(p, s) /\ UNCHANGED vaps
       \/ /\ ~ Silent(s)
          /\ vaps' = vaps \ {<<own[p], s>>}
          /\ UNCHANGED <<pc, tgt>>
    /\ UNCHANGED <<sock, input, tracked, sc2Agent, agentMap, live, heard, scLock,
                   stLock, own, todo, cmdAlive>>

AgeEnd(p) ==
    /\ pc[p] = "aging"
    /\ \A s \in Sockets : <<own[p], s>> \notin vaps
    /\ stLock' = [stLock EXCEPT ![own[p]] = None]
    /\ pc' = [pc EXCEPT ![p] = "idle"]
    /\ own' = [own EXCEPT ![p] = None]
    /\ UNCHANGED <<sock, input, views, scLock, tgt, todo, cmdAlive>>

(* CmdTask, one run at a time: excuteAddVap tests the agent before it takes *)
(* the station.                                                             *)
AddVap(p, st, s) ==
    /\ cmdAlive
    /\ \A q \in Pool : ~ RunsCmdTask(q)
    /\ pc[p] = "idle"
    /\ Usable(s)
    /\ own' = [own EXCEPT ![p] = st]
    /\ tgt' = [tgt EXCEPT ![p] = s]
    /\ pc' = [pc EXCEPT ![p] = IF s \in heard THEN "add" ELSE "readSc"]
    /\ UNCHANGED <<sock, input, views, scLock, stLock, todo, cmdAlive>>

(* synchronized (station): the container is added to both sets. *)
AddVapLocked(p) ==
    /\ pc[p] = "add"
    /\ stLock[own[p]] = None
    /\ vaps' = vaps \cup {<<own[p], tgt[p]>>}
    /\ pc' = [pc EXCEPT ![p] = "idle"]
    /\ tgt' = [tgt EXCEPT ![p] = None]
    /\ own' = [own EXCEPT ![p] = None]
    /\ UNCHANGED <<sock, input, tracked, sc2Agent, agentMap, live, heard, scLock,
                   stLock, todo, cmdAlive>>
--------------------------------------------------------------------------------
(* The threads that write commands.  A heartbeat that a worker echoes waits *)
(* for the same monitors, with none in its hands.                           *)

(* writeMessage: Master's monitor allows one writer at a time, which holds  *)
(* the socket's until the AP has taken the bytes or the write fails.        *)
Write(p, s) ==
    /\ pc[p] = "idle"
    /\ s \in live
    /\ sock[s] = "open"
    /\ scLock[s] = None
    /\ \A t \in Threads : pc[t] # "writing"
    /\ scLock' = [scLock EXCEPT ![s] = p]
    /\ pc' = [pc EXCEPT ![p] = "writing"]
    /\ tgt' = [tgt EXCEPT ![p] = s]
    /\ UNCHANGED <<sock, input, views, stLock, own, todo, cmdAlive>>

WriteEnd(p) ==
    /\ pc[p] = "writing"
    /\ scLock' = [scLock EXCEPT ![tgt[p]] = None]
    /\ pc' = [pc EXCEPT ![p] = "idle"]
    /\ tgt' = [tgt EXCEPT ![p] = None]
    /\ UNCHANGED <<sock, input, views, stLock, own, todo, cmdAlive>>

(* cancelTask for a DEL_VAP: an agent found OFF_LINE is closed. *)
CancelTask(p, s) ==
    /\ pc[p] = "idle"
    /\ Silent(s)
    /\ pc' = [pc EXCEPT ![p] = "close"]
    /\ tgt' = [tgt EXCEPT ![p] = s]
    /\ UNCHANGED <<sock, input, views, scLock, stLock, own, todo, cmdAlive>>
--------------------------------------------------------------------------------
(* A worker takes its next message. *)
Serve(w) ==
    \/ LocalMac(w)
    \/ Message(w)
    \/ \E s \in Sockets : MessageCloses(w, s)
    \/ \E st \in Stations, s \in Sockets : OkRoam(w, st, s)

ThreadStep(t) ==
    \/ CloseEnter(t)
    \/ \E st \in Stations : ResetVap(t, st)
    \/ ResetEnd(t) \/ UnmapSc(t) \/ UnmapMac(t)
    \/ AddAgent(t) \/ PutBySc(t)
    \/ OkRoamLocked(t) \/ ReadScAgain(t)
    \/ AgeEnd(t) \/ \E s \in Sockets : AgeVap(t, s)
    \/ AddVapLocked(t)
    \/ t = Listener /\ Put

Next ==
    \/ \E s \in Sockets :
          \/ Accept(s) \/ PeerCloses(s) \/ Read(s) \/ ReadEof(s)
          \/ AgentTimesOut(s)
          \/ \E p \in Pool :
                \/ \E st \in Stations : AddVap(p, st, s)
                \/ Write(p, s) \/ CancelTask(p, s)
    \/ \E w \in Workers : Serve(w)
    \/ \E p \in Pool : WriteEnd(p) \/ \E st \in Stations : AgeStation(p, st)
    \/ \E t \in Threads : ThreadStep(t)

Spec == Init /\ [][Next]_vars

(* What a thread does next once it may: it serves its queue or the channels *)
(* that have ended, or goes on with what it has begun.  The iterator of     *)
(* reset goes forward through a finite map, so it comes to an end even      *)
(* while new vaps are added.  A write to an AP that has closed its end      *)
(* fails; nothing else is assumed of writes.                                *)
Proceeds(t) ==
    \/ ThreadStep(t) /\ (pc[t] = "reset" /\ todo[t] # {} => todo'[t] # todo[t])
                     /\ (pc[t] = "reset" /\ todo[t] = {} => pc'[t] # "reset")
    \/ t \in Workers /\ Serve(t)
    \/ t = Listener /\ \E s \in Sockets : ReadEof(s)
    \/ t \in Pool /\ tgt[t] \in eof /\ WriteEnd(t)

(* Strong fairness: a thread that waits for a monitor that is free again    *)
(* and again gets it, although AgeTask comes back every AGETASK_PERIOD (3   *)
(* s) and writers come and go.                                              *)
Fairness == \A t \in Threads : SF_vars(Proceeds(t))

FairSpec == Spec /\ Fairness
--------------------------------------------------------------------------------
PCs == {"idle", "put", "close", "reset", "unmap", "unmapMac", "register", "putBySc",
        "roam", "readSc", "aging", "add", "writing"}

(* The variables hold what their comments say; a thread in closeSocket has  *)
(* a socket to close.                                                       *)
TypeOK ==
    /\ sock \in [Sockets -> {"new", "open", "closed"}]
    /\ tracked \subseteq Sockets /\ eof \subseteq Sockets
    /\ read \in [Sockets -> Nat]
    /\ sc2Agent \subseteq Sockets /\ live \subseteq Sockets /\ heard \subseteq Sockets
    /\ agentMap \in [Macs -> Sockets \cup {None}]
    /\ vaps \subseteq Stations \X Sockets
    /\ queue \in [Workers -> Seq(Jobs)]
    /\ scLock \in [Sockets -> Threads \cup {None}]
    /\ stLock \in [Stations -> Threads \cup {None}]
    /\ pc \in [Threads -> PCs]
    /\ tgt \in [Threads -> Sockets \cup {None}]
    /\ own \in [Threads -> Sockets \cup Stations \cup {None}]
    /\ todo \in [Threads -> SUBSET Stations]
    /\ cmdAlive \in BOOLEAN
    /\ \A t \in Threads :
          pc[t] \in {"close", "reset", "unmap", "unmapMac"} => tgt[t] \in Sockets

(* The session of s is being opened or closed, under the socket's monitor. *)
Changing(s) ==
    /\ scLock[s] # None
    /\ pc[scLock[s]] \in {"putBySc", "reset", "unmap", "unmapMac"}

(* The inconsistency that the comment at Master.java:402-405 describes and  *)
(* synchronized (sc) is there to prevent: a registration that completes     *)
(* after the listener closed the same socket.  Whoever finds a socket in    *)
(* sc2AgentMap while no closeSocket is at work on it finds it open, still   *)
(* tracked by the selector, and its agent not reset.                        *)
RegisteredIsOpen ==
    \A s \in sc2Agent :
        /\ sock[s] = "open"
        /\ ~ Changing(s) => s \in tracked /\ s \in live

(* Lookups by MAC take no monitor, and agentMap and sc2AgentMap are updated *)
(* one after the other.  What a lookup by MAC finds is an agent of that AP; *)
(* it may have been reset, or be unknown to sc2AgentMap, but only while     *)
(* closeSocket or processMsgLocalMac is at work on its socket, in           *)
(* synchronized (sc): otherwise it is registered, open, tracked, not reset. *)
FoundByMacIsRegistered ==
    \A m \in Macs :
        LET s == agentMap[m] IN
        s # None => /\ Mac[s] = m
                    /\ sock[s] = "open"
                    /\ ~ Changing(s) => s \in sc2Agent \cap live \cap tracked

(* A socket that was closed is forgotten: no map keeps it, so a message of  *)
(* it that is still queued is dropped by the isTrackedSc tests.             *)
ClosedIsForgotten ==
    \A s \in Sockets : sock[s] = "closed" =>
        s \notin tracked \cup sc2Agent \cup live \cup {agentMap[m] : m \in Macs}

(* Agent.reset runs for one thread at a time, which owns the socket, and    *)
(* only for a session that is registered.                                   *)
ResetIsExclusive ==
    \A t \in Threads :
        /\ pc[t] \in {"reset", "unmap", "unmapMac"} => scLock[tgt[t]] = t
        /\ pc[t] \in {"reset", "unmap"} => tgt[t] \in sc2Agent

(* "On a timeout, actively closeSocket" (Master.java:1230, 1256): a task    *)
(* that has decided to close a timed-out session gets it closed.            *)
TimedOutIsClosed ==
    \A s \in Sockets :
        (\E t \in Pool : pc[t] = "close" /\ tgt[t] = s) ~> sock[s] = "closed"

(* A thread waits for the owner of a socket in closeSocket and in           *)
(* processMsgLocalMac, for the owner of a station in Agent.reset and in     *)
(* processMsgOk, and for a worker with a full queue in putMessage.          *)
WaitsFor(t, u) ==
    \/ pc[t] = "close" /\ scLock[tgt[t]] = u
    \/ pc[t] = "register" /\ scLock[own[t]] = u
    \/ pc[t] = "reset" /\ t # u /\ \E st \in todo[t] : stLock[st] = u
    \/ pc[t] = "roam" /\ stLock[own[t]] = u
    \/ pc[t] = "put" /\ u = WorkerOf[tgt[t]]

(* The listener waits, itself or through others, for threads that wait for  *)
(* each other in a circle, or for a write that an AP does not take.         *)
ListenerStuck ==
    \E B \in SUBSET Threads :
        /\ Listener \in B
        /\ \A t \in B : pc[t] = "writing" \/ \E u \in B : WaitsFor(t, u)

================================================================================
