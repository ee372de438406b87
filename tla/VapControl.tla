------------------------------- MODULE VapControl -------------------------------
(***************************************************************************)
(* Which station may use which AP: the controller's station and agent      *)
(* views (StationManager, Station, Agent, VapContainer), the handlers and  *)
(* tasks of Master that change them, and the AP's table of admitted        *)
(* stations that they are meant to mirror.                                 *)
(*                                                                         *)
(* A vap container ties an agent, a station and an SSID; these three never *)
(* change once it is made, so they are its identity here, with a copy      *)
(* number that tells two objects of equal fields apart.  The maps are      *)
(* keyed by MAC addresses, so an entry may belong to an earlier Agent or   *)
(* Station object of the same MAC, as in the code.                         *)
(*                                                                         *)
(* A stretch of code under one station monitor is one action.  Handlers    *)
(* that read the views before taking the monitor, or go on after giving it *)
(* up, take one action per stretch.  The messages of one connection are    *)
(* handled in order (one worker per socket); commands run on a cached      *)
(* thread pool, in any order.  Times (last heard, last probe) are left     *)
(* out: whatever may time out may do so at any moment.                     *)
(***************************************************************************)
EXTENDS Naturals, Sequences, FiniteSets, Bags

CONSTANTS
    Agents,     \* Agent objects, one per connection of an AP radio
    ApMacs,     \* the AP radios
    ApMac,      \* the radio of each Agent object
    FiveG,      \* the radios in 5 GHz mode, the others are in 2.4 GHz mode
    Stations,   \* Station objects
    StaMacs,    \* the terminals
    StaMac,     \* the terminal of each Station object
    Ssids,
    Copies,     \* tells vap containers of equal fields apart
    NULL,
    MaxCmds,    \* bound on commands given to the executor and not yet run
    MaxMsgs,    \* bound on messages of all connections not yet handled
    MaxAdds     \* bound on concurrent calls of excuteAddVap

ASSUME ApAssumption == ApMac \in [Agents -> ApMacs] /\ FiveG \subseteq ApMacs
ASSUME StaAssumption == StaMac \in [Stations -> StaMacs]
ASSUME BoundAssumption == MaxCmds \in Nat /\ MaxMsgs \in Nat /\ MaxAdds \in Nat

Vaps == [agent : Agents, station : Stations, ssid : Ssids, copy : Copies]
Cmds == [type : {"ADD", "ROAM", "DEL", "OFFLINE"}, agent : Agents, sta : StaMacs,
         ssid : Ssids, from : ApMacs]
Msgs == [type : {"NEW_STA", "DEL_STA"}, sta : StaMacs, ssid : Ssids]
        \cup [type : {"OK", "ERR"}, cmd : Cmds]
Calls == [kind : {"access", "roam", "force"}, agent : Agents, station : Stations,
          ssid : Ssids, from : ApMacs]

(* What is left of a handler that works on the messages of a connection. *)
Idle == [step |-> "idle"]
Handlers == {Idle}
            \cup [step : {"probe"}, sta : StaMacs]
            \cup [step : {"create"}, sta : StaMacs, ssid : Ssids]
            \cup [step : {"linked", "unlinked", "purge", "deleted"}, station : Stations,
                   ssid : Ssids]

ASSUME NullAssumption == NULL \notin Vaps \cup Stations

VARIABLES
    stationMap,  \* StationManager.stationMap
    made,        \* Station objects constructed so far
    online,      \* Station objects with status ON_LINE
    working,     \* Station.workingVapContainer
    staVaps,     \* Station.vapContainerSet, keyed by AP MAC and SSID
    agVaps,      \* Agent.vapContainerSet, keyed by station MAC and SSID
    vapOn,       \* vap containers with status ON_LINE
    seen,        \* agents registered so far
    up,          \* agents that are registered: sc set, sc and MAC tracked
    inbox,       \* messages of each connection not yet handled
    hand,        \* the handler that works on each connection
    adding,      \* calls of excuteAddVap past the checks made without a lock
    cmds,        \* commands given to the executor
    table,       \* AP: g_dense_station_hash
    joined       \* AP: stations it holds a sta_info of

view == <<stationMap, made, online, working, staVaps, agVaps, vapOn>>
apState == <<table, joined>>
vars == <<view, seen, up, inbox, hand, adding, cmds, apState>>

Init ==
    /\ stationMap = [m \in StaMacs |-> NULL]
    /\ made = {} /\ online = {} /\ vapOn = {}
    /\ working = [st \in Stations |-> NULL]
    /\ staVaps = [st \in Stations |-> [k \in ApMacs \X Ssids |-> NULL]]
    /\ agVaps = [a \in Agents |-> [k \in StaMacs \X Ssids |-> NULL]]
    /\ seen = {} /\ up = {}
    /\ inbox = [a \in Agents |-> <<>>]
    /\ hand = [a \in Agents |-> Idle]
    /\ adding = {}
    /\ cmds = EmptyBag
    /\ table = [m \in ApMacs |-> {}]
    /\ joined = [m \in ApMacs |-> {}]
--------------------------------------------------------------------------------
(* Station and Agent: lookups. *)

StaKey(v) == <<ApMac[v.agent], v.ssid>>
AgKey(v) == <<StaMac[v.station], v.ssid>>

VapsOf(st) == {staVaps[st][k] : k \in ApMacs \X Ssids} \ {NULL}
VapsOn(a) == {agVaps[a][k] : k \in StaMacs \X Ssids} \ {NULL}

(* Station.getVapContainer, Agent.getVapContainer *)
StaVap(st, a, ssid) == staVaps[st][<<ApMac[a], ssid>>]
AgVap(a, st, ssid) == agVaps[a][<<StaMac[st], ssid>>]

(* Station.getAgentSet, Agent.getStationSet *)
AgentSet(st) == {v.agent : v \in {w \in VapsOf(st) : w.station = st}}
StationSet(a) == {v.station : v \in VapsOn(a)}

(* The containers some view refers to.  Any other is garbage: its status is *)
(* forgotten, and it may stand for one just constructed.                    *)
Referenced ==
    (UNION ({VapsOf(st) : st \in Stations} \cup {VapsOn(a) : a \in Agents}))
    \cup {working[st] : st \in Stations}
Fresh(a, st, ssid) ==
    {v \in Vaps : v.agent = a /\ v.station = st /\ v.ssid = ssid} \ Referenced

(* VapContainer.setStatus(ON_LINE), once the views are settled *)
TurnOn(v) == vapOn' = (vapOn \cup {v}) \cap Referenced'

(* Variant: filed under the radio that the station works on. *)
PutStaStale(st, v) ==
    LET m == ApMac[IF working[st] = NULL THEN v.agent ELSE working[st].agent]
    IN  [staVaps EXCEPT ![st][<<m, v.ssid>>] = v]

(* Station.addVapContainer replaces, Agent.addVapContainer does not. *)
PutSta(st, v) == [staVaps EXCEPT ![st][StaKey(v)] = v]
PutAg(a, v) == [agVaps EXCEPT ![a][AgKey(v)] = IF @ = NULL THEN v ELSE @]

(* removeVapContainer, on either side: whatever the key holds goes. *)
DropSta(st, V) ==
    [staVaps EXCEPT ![st] = [k \in DOMAIN @ |->
                                IF \E v \in V : StaKey(v) = k THEN NULL ELSE @[k]]]
DropAg(V) ==
    [a \in Agents |-> [k \in DOMAIN agVaps[a] |->
        IF \E v \in V : v.agent = a /\ AgKey(v) = k THEN NULL ELSE agVaps[a][k]]]

(* AgentManager.getAgent: the registered agent of a radio. *)
AgentOf(m) == {a \in up : ApMac[a] = m}

(* Variant: the strings of StationCtrlMessage in the wrong order. *)
CmdSwapped(type, a, st, ssid, from) ==
    [type |-> type, agent |-> a, sta |-> ssid, ssid |-> StaMac[st], from |-> from]

(* Master.delVapContainer: a command for a registered agent that the        *)
(* station has a vap of.  An agent found silent here is closed instead,     *)
(* which is Reset.                                                          *)
Cmd(type, a, st, ssid, from) ==
    [type |-> type, agent |-> a, sta |-> StaMac[st], ssid |-> ssid, from |-> from]
DelCmds(type, st, V) ==
    {Cmd(type, v.agent, st, v.ssid, ApMac[v.agent]) :
        v \in {w \in V : w.agent \in up \cap AgentSet(st)}}
Execute(C) ==
    /\ BagCardinality(cmds) + Cardinality(C) <= MaxCmds
    /\ cmds' = cmds (+) SetToBag(C)
--------------------------------------------------------------------------------
(* Connections. *)

(* An AP connects and announces itself: a new Agent object.  The AP clears  *)
(* its table when it reconnects; it disassociates the stations in it, which *)
(* a timer frees later (Leave).                                             *)
Connect(a) ==
    /\ a \notin seen
    /\ AgentOf(ApMac[a]) = {}
    /\ seen' = seen \cup {a}
    /\ up' = up \cup {a}
    /\ table' = [table EXCEPT ![ApMac[a]] = {}]
    /\ UNCHANGED <<view, inbox, hand, adding, cmds, joined>>

(* Variant: a station that loses its working vap stays ON_LINE. *)
ResetKeepsOnline(a) ==
    LET V == {v \in VapsOn(a) : v \in VapsOf(v.station)}
        lost == {st \in Stations : working[st] \in V /\ working[st].station = st}
    IN
    /\ a \in up
    /\ up' = up \ {a}
    /\ staVaps' = [st \in Stations |-> DropSta(st, {v \in V : v.station = st})[st]]
    /\ working' = [st \in Stations |-> IF st \in lost THEN NULL ELSE working[st]]
    /\ agVaps' = [agVaps EXCEPT ![a] = [k \in DOMAIN @ |-> NULL]]
    /\ vapOn' = vapOn \cap Referenced'
    /\ inbox' = [inbox EXCEPT ![a] = <<>>]
    /\ UNCHANGED <<stationMap, made, online, seen, hand, adding, cmds, apState>>

(* closeSocket and Agent.reset.  Messages still queued find the socket      *)
(* untracked and are dropped; a handler already at work goes on.            *)
Reset(a) ==
    LET V == {v \in VapsOn(a) : v \in VapsOf(v.station)}
        lost == {st \in Stations : working[st] \in V /\ working[st].station = st}
    IN
    /\ a \in up
    /\ up' = up \ {a}
    /\ staVaps' = [st \in Stations |-> DropSta(st, {v \in V : v.station = st})[st]]
    /\ working' = [st \in Stations |-> IF st \in lost THEN NULL ELSE working[st]]
    /\ online' = online \ lost
    /\ agVaps' = [agVaps EXCEPT ![a] = [k \in DOMAIN @ |-> NULL]]
    /\ vapOn' = vapOn \cap Referenced'
    /\ inbox' = [inbox EXCEPT ![a] = <<>>]
    /\ UNCHANGED <<stationMap, made, seen, hand, adding, cmds, apState>>
--------------------------------------------------------------------------------
(* processMsgProbeInfo: a station not heard of before is put into the view, *)
(* the test and the put not being one step.                                 *)

ProbeTest(a, m) ==
    /\ a \in up
    /\ hand[a] = Idle
    /\ stationMap[m] = NULL
    /\ hand' = [hand EXCEPT ![a] = [step |-> "probe", sta |-> m]]
    /\ UNCHANGED <<view, seen, up, inbox, adding, cmds, apState>>

ProbeCreate(a, st) ==
    /\ hand[a].step = "probe"
    /\ st \notin made
    /\ StaMac[st] = hand[a].sta
    /\ made' = made \cup {st}
    /\ stationMap' = [stationMap EXCEPT ![hand[a].sta] = st]
    /\ hand' = [hand EXCEPT ![a] = Idle]
    /\ UNCHANGED <<online, working, staVaps, agVaps, vapOn, seen, up, inbox, adding,
                   cmds, apState>>
--------------------------------------------------------------------------------
(* processMsgNewStation *)

Take(a, type) ==
    /\ a \in up
    /\ hand[a] = Idle
    /\ inbox[a] # <<>>
    /\ Head(inbox[a]).type = type
    /\ inbox' = [inbox EXCEPT ![a] = Tail(@)]

(* Before the lock: is the station known, and linked to this agent? *)
NewStaTest(a) ==
    LET msg == Head(inbox[a])
        st == stationMap[msg.sta]
    IN
    /\ Take(a, "NEW_STA")
    /\ hand' = [hand EXCEPT ![a] =
         IF st = NULL
         THEN [step |-> "create", sta |-> msg.sta, ssid |-> msg.ssid]
         ELSE [step |-> IF a \in AgentSet(st) /\ st \in StationSet(a)
                        THEN "linked" ELSE "unlinked",
               station |-> st, ssid |-> msg.ssid]]
    /\ UNCHANGED <<view, seen, up, adding, cmds, apState>>

(* A station that was not known is put online by force. *)
NewStaCreate(a, st) ==
    /\ hand[a].step = "create"
    /\ st \notin made
    /\ StaMac[st] = hand[a].sta
    /\ \E v \in Fresh(a, st, hand[a].ssid) :
         /\ working' = [working EXCEPT ![st] = v]
         /\ staVaps' = PutSta(st, v)
         /\ agVaps' = PutAg(a, v)
         /\ TurnOn(v)
    /\ made' = made \cup {st}
    /\ online' = online \cup {st}
    /\ stationMap' = [stationMap EXCEPT ![StaMac[st]] = st]
    /\ hand' = [hand EXCEPT ![a] =
         [step |-> "unlinked", station |-> st, ssid |-> hand[a].ssid]]
    /\ UNCHANGED <<seen, up, inbox, adding, cmds, apState>>

Purge(a) ==
    [hand EXCEPT ![a] = [step |-> "purge", station |-> @.station, ssid |-> @.ssid]]

(* Online and linked: move to this agent, unless the station works on it.   *)
(* Without a working vap the handler ends with an exception.                *)
NewStaOnline(a) ==
    LET st == hand[a].station
        old == StaVap(st, a, hand[a].ssid)
        moves == working[st] # NULL /\ working[st].agent # a
    IN
    /\ hand[a].step = "linked"
    /\ st \in online
    /\ \/ /\ ~moves
          /\ UNCHANGED <<working, staVaps, agVaps, vapOn>>
       \/ /\ moves /\ old # NULL
          /\ working' = [working EXCEPT ![st] = old]
          /\ UNCHANGED <<staVaps, agVaps>>
          /\ TurnOn(old)
       \/ /\ moves /\ old = NULL
          /\ \E v \in Fresh(a, st, hand[a].ssid) :
               /\ working' = [working EXCEPT ![st] = v]
               /\ staVaps' = PutSta(st, v)
               /\ agVaps' = PutAg(a, v)
               /\ TurnOn(v)
    /\ hand' = IF working[st] = NULL THEN [hand EXCEPT ![a] = Idle] ELSE Purge(a)
    /\ UNCHANGED <<stationMap, made, online, seen, up, inbox, adding, cmds,
                   apState>>

(* Offline and linked: online, if the agent is still among the station's.   *)
(* A vap made here is the working one and is filed nowhere.                 *)
NewStaOffline(a) ==
    LET st == hand[a].station
        old == StaVap(st, a, hand[a].ssid)
    IN
    /\ hand[a].step = "linked"
    /\ st \notin online
    /\ UNCHANGED <<staVaps, agVaps>>
    /\ IF a \in AgentSet(st)
       THEN \E v \in IF old # NULL THEN {old} ELSE Fresh(a, st, hand[a].ssid) :
              /\ working' = [working EXCEPT ![st] = v]
              /\ online' = online \cup {st}
              /\ TurnOn(v)
       ELSE UNCHANGED <<vapOn, working, online>>
    /\ hand' = Purge(a)
    /\ UNCHANGED <<stationMap, made, seen, up, inbox, adding, cmds, apState>>

(* Not linked: file a vap and work on it, without a change of the status.   *)
NewStaUnlinked(a) ==
    LET st == hand[a].station
        ssid == hand[a].ssid
        old == AgVap(a, st, ssid)
    IN
    /\ hand[a].step = "unlinked"
    /\ IF StaVap(st, a, ssid) = NULL
       THEN \E v \in IF old # NULL THEN {old} ELSE Fresh(a, st, ssid) :
              /\ staVaps' = PutSta(st, v)
              /\ working' = [working EXCEPT ![st] = v]
              /\ agVaps' = PutAg(a, v)
              /\ TurnOn(v)
       ELSE UNCHANGED <<vapOn, staVaps, working, agVaps>>
    /\ hand' = Purge(a)
    /\ UNCHANGED <<stationMap, made, online, seen, up, inbox, adding, cmds,
                   apState>>

(* After the lock: the vaps of other agents with this SSID are to go. *)
NewStaPurge(a) ==
    LET st == hand[a].station
        others == {v \in VapsOf(st) : v.agent # a /\ v.ssid = hand[a].ssid}
    IN
    /\ hand[a].step = "purge"
    /\ Execute(DelCmds("DEL", st, others))
    /\ hand' = [hand EXCEPT ![a] = Idle]
    /\ UNCHANGED <<view, seen, up, inbox, adding, apState>>
--------------------------------------------------------------------------------
(* Variant: the vap of the message goes offline, working or not, and the    *)
(* station's status is left to the next message.                            *)
DelStaKeepsStatus(a) ==
    LET msg == Head(inbox[a])
        st == stationMap[msg.sta]
        v == StaVap(st, a, msg.ssid)
    IN
    /\ Take(a, "DEL_STA")
    /\ vapOn' = IF st # NULL /\ v # NULL THEN vapOn \ {v} ELSE vapOn
    /\ UNCHANGED <<stationMap, made, online, working, staVaps, agVaps, seen, up, hand,
                   adding, cmds, apState>>

(* processMsgDelStation: the station goes offline if it worked on this vap. *)
DelSta(a) ==
    LET msg == Head(inbox[a])
        st == stationMap[msg.sta]
        v == StaVap(st, a, msg.ssid)
    IN
    /\ Take(a, "DEL_STA")
    /\ IF st # NULL /\ v # NULL
       THEN /\ vapOn' = vapOn \ {v}
            /\ IF working[st] = v
               THEN /\ online' = online \ {st}
                    /\ working' = [working EXCEPT ![st] = NULL]
               ELSE UNCHANGED <<online, working>>
       ELSE UNCHANGED <<online, working, vapOn>>
    /\ UNCHANGED <<stationMap, made, staVaps, agVaps, seen, up, hand, adding, cmds, apState>>

(* processMsgOk for ADD_VAP and OFFLINE_VAP changes nothing. *)
OkNothing(a) ==
    /\ Take(a, "OK")
    /\ Head(inbox[a]).cmd.type \in {"ADD", "OFFLINE"}
    /\ UNCHANGED <<view, seen, up, hand, adding, cmds, apState>>

(* processMsgOk for ADD_VAP_ROAM: the station is told to leave its old AP.  *)
(* A station or an agent that is gone ends the handler with an exception.   *)
OkRoam(a) ==
    LET c == Head(inbox[a]).cmd
        st == stationMap[c.sta]
    IN
    /\ Take(a, "OK")
    /\ c.type = "ROAM"
    /\ \/ /\ st # NULL
          /\ \E from \in AgentOf(c.from) :
               Execute(IF StaVap(st, from, c.ssid) # NULL /\ from \in AgentSet(st)
                       THEN {Cmd("OFFLINE", from, st, c.ssid, c.from)} ELSE {})
       \/ /\ st = NULL \/ AgentOf(c.from) = {}
          /\ UNCHANGED cmds
    /\ UNCHANGED <<view, seen, up, hand, adding, apState>>

(* processMsgOk for DEL_VAP.  Before the lock: is the station known? *)
OkDelTest(a) ==
    LET c == Head(inbox[a]).cmd
        st == stationMap[c.sta]
    IN
    /\ Take(a, "OK")
    /\ c.type = "DEL"
    /\ hand' = IF st = NULL THEN hand
               ELSE [hand EXCEPT ![a] = [step |-> "deleted", station |-> st, ssid |-> c.ssid]]
    /\ UNCHANGED <<view, seen, up, adding, cmds, apState>>

(* Under the lock.  An online vap takes its station offline; if it was the  *)
(* working vap, or there is none, the handler ends there with an exception. *)
(* Otherwise the vap leaves both views, if the radio has a registered agent *)
(* and this one has not been silent for AGENT_TIME_OUT.                     *)
OkDel(a) ==
    LET st == hand[a].station
        v == StaVap(st, a, hand[a].ssid)
        wasOn == v \in vapOn
    IN
    /\ hand[a].step = "deleted"
    /\ IF stationMap[StaMac[st]] # NULL /\ a \in AgentSet(st) /\ v # NULL
       THEN /\ vapOn' = vapOn \ {v}
            /\ online' = IF wasOn THEN online \ {st} ELSE online
            /\ working' = IF wasOn /\ working[st] = v
                          THEN [working EXCEPT ![st] = NULL] ELSE working
            /\ \/ /\ wasOn => working[st] \notin {v, NULL}
                  /\ AgentOf(ApMac[a]) # {}
                  /\ staVaps' = DropSta(st, {v})
                  /\ agVaps' = [agVaps EXCEPT ![a][AgKey(v)] = NULL]
               \/ UNCHANGED <<staVaps, agVaps>>
       ELSE UNCHANGED <<vapOn, online, working, staVaps, agVaps>>
    /\ hand' = [hand EXCEPT ![a] = Idle]
    /\ UNCHANGED <<stationMap, made, seen, up, inbox, adding, cmds, apState>>

(* processMsgErr, and cancelTask after it: the test that guards the         *)
(* roll-back, station.getAgentSet().contains(station), asks a set of agents *)
(* for a station and is false, so the views stay.                           *)
Err(a) ==
    /\ Take(a, "ERR")
    /\ UNCHANGED <<view, seen, up, hand, adding, cmds, apState>>

(* An answer that is handled before the thread that wrote the command has   *)
(* stored it in sendMsgBuffer finds nothing there.                          *)
AnswerUnmatched(a) ==
    /\ Take(a, "OK") \/ Take(a, "ERR")
    /\ UNCHANGED <<view, seen, up, hand, adding, cmds, apState>>
--------------------------------------------------------------------------------
(* excuteAddVap, called by CmdTask for the access-control applications and  *)
(* by the workers for the roaming application.                              *)

(* checkSsidExist *)
SsidExists(x) ==
    LET same == {v \in VapsOf(x.station) : v.station = x.station /\ v.ssid = x.ssid}
        self == \E v \in same : v.agent = x.agent
    IN  IF x.kind # "access" THEN self
        ELSE IF ApMac[x.agent] \in FiveG
             THEN self \/ \E v \in same : ApMac[v.agent] \in FiveG
             ELSE same # {}

(* Before the lock.  HandoffApp moves a station from the agent it works on  *)
(* to one of another radio that it has no vap of.                           *)
AddCheck(kind, a, st, ssid) ==
    LET cur == working[st]
        x == [kind |-> kind, agent |-> a, station |-> st, ssid |-> ssid,
              from |-> ApMac[IF kind = "access" THEN a ELSE cur.agent]]
    IN
    /\ a \in up
    /\ stationMap[StaMac[st]] = st
    /\ Cardinality(adding) < MaxAdds
    /\ kind # "access" =>
         /\ cur # NULL
         /\ cur.ssid = ssid
         /\ ApMac[cur.agent] # ApMac[a]
         /\ ~SsidExists(x)
    /\ adding' = adding \cup {x}
    /\ UNCHANGED <<view, seen, up, inbox, hand, cmds, apState>>

(* Under the lock: the view is changed first, the command follows. *)
AddLocked(x) ==
    /\ x \in adding
    /\ adding' = adding \ {x}
    /\ IF /\ stationMap[StaMac[x.station]] # NULL
          /\ ~SsidExists(x)
          /\ AgVap(x.agent, x.station, x.ssid) = NULL
       THEN /\ \E v \in Fresh(x.agent, x.station, x.ssid) :
                 /\ agVaps' = PutAg(x.agent, v)
                 /\ staVaps' = PutSta(x.station, v)
                 /\ vapOn' = vapOn \ {v}
            /\ Execute({Cmd(IF x.kind = "force" THEN "ROAM" ELSE "ADD",
                            x.agent, x.station, x.ssid, x.from)})
       ELSE UNCHANGED <<agVaps, staVaps, vapOn, cmds>>
    /\ UNCHANGED <<stationMap, made, online, working, seen, up, inbox, hand,
                   apState>>

(* HandoffApp: the vap was given before, now leave the current AP. *)
AppOffline(st) ==
    /\ stationMap[StaMac[st]] = st
    /\ working[st] # NULL
    /\ \E v \in VapsOf(st) : /\ v.station = st /\ v.ssid = working[st].ssid
                            /\ v.agent \in up
                            /\ ApMac[v.agent] # ApMac[working[st].agent]
    /\ DelCmds("OFFLINE", st, {working[st]}) # {}
    /\ Execute(DelCmds("OFFLINE", st, {working[st]}))
    /\ UNCHANGED <<view, seen, up, inbox, hand, adding, apState>>
--------------------------------------------------------------------------------
(* AgeTask, for an offline station. *)


(* Silent for AGE_TIME_OUT: all its vaps go; once it has none, it goes. *)
AgeStation(st) ==
    LET V == {v \in VapsOf(st) : v.station = st} IN
    /\ stationMap[StaMac[st]] = st
    /\ st \notin online
    /\ IF VapsOf(st) # {}
       THEN /\ Execute(DelCmds("DEL", st, V))
            /\ staVaps' = DropSta(st, V)
            /\ agVaps' = DropAg(V)
            /\ UNCHANGED stationMap
       ELSE /\ stationMap' = [stationMap EXCEPT ![StaMac[st]] = NULL]
            /\ UNCHANGED <<cmds, staVaps, agVaps>>
    /\ UNCHANGED <<made, online, working, seen, up, inbox, hand, adding,
                   apState>>
    /\ vapOn' = vapOn \cap Referenced'

(* One vap not probed through for VAP_TIME_OUT. *)
AgeVap(st, v) ==
    /\ stationMap[StaMac[st]] = st
    /\ st \notin online
    /\ v \in VapsOf(st) \ vapOn
    /\ v.station = st
    /\ Execute(DelCmds("DEL", st, {v}))
    /\ staVaps' = DropSta(st, {v})
    /\ agVaps' = DropAg({v})
    /\ UNCHANGED <<stationMap, made, online, working, vapOn, seen, up, inbox, hand,
                   adding, apState>>
--------------------------------------------------------------------------------
(* The AP: fnii_roam.c and its hooks in hostapd. *)

Report(a, msg) ==
    /\ Cardinality({p \in Agents \X (1 .. MaxMsgs) : p[2] <= Len(inbox[p[1]])}) < MaxMsgs
    /\ inbox' = [inbox EXCEPT ![a] = Append(@, msg)]

(* fnii_dense_station_add, fnii_dense_station_del: an entry that is already *)
(* there, or not there to delete, is an error.                              *)
Accepts(c) ==
    LET there == <<c.sta, c.ssid>> \in table[ApMac[c.agent]]
    IN  (c.type \in {"ADD", "ROAM"} => ~there) /\ (c.type = "DEL" => there)
TableAfter(c) ==
    [table EXCEPT ![ApMac[c.agent]] =
        CASE c.type \in {"ADD", "ROAM"} -> @ \cup {<<c.sta, c.ssid>>}
          [] c.type = "DEL" -> @ \ {<<c.sta, c.ssid>>}
          [] OTHER -> @]

(* A pool thread writes a command and the AP carries it out.  One for a     *)
(* connection that is gone is not written.  A station that DEL or OFFLINE   *)
(* disassociates is freed later, by a timer or when it goes (Leave).        *)
RunCmd(c) ==
    /\ BagIn(c, cmds)
    /\ cmds' = cmds (-) SetToBag({c})
    /\ IF c.agent \in up
       THEN /\ Report(c.agent, [type |-> IF Accepts(c) THEN "OK" ELSE "ERR", cmd |-> c])
            /\ table' = TableAfter(c)
       ELSE UNCHANGED <<inbox, table>>
    /\ UNCHANGED <<view, seen, up, hand, adding, joined>>

(* mlme_associate_indication, mlme_reassociate_indication *)
Join(a, m, ssid) ==
    /\ a \in up
    /\ Report(a, [type |-> "NEW_STA", sta |-> m, ssid |-> ssid])
    /\ table' = [table EXCEPT ![ApMac[a]] = @ \cup {<<m, ssid>>}]
    /\ joined' = [joined EXCEPT ![ApMac[a]] = @ \cup {<<m, ssid>>}]
    /\ UNCHANGED <<view, seen, up, hand, adding, cmds>>

(* ap_free_sta: the station left, timed out or was disassociated. *)
Leave(a, m, ssid) ==
    /\ a \in up
    /\ <<m, ssid>> \in joined[ApMac[a]]
    /\ Report(a, [type |-> "DEL_STA", sta |-> m, ssid |-> ssid])
    /\ joined' = [joined EXCEPT ![ApMac[a]] = @ \ {<<m, ssid>>}]
    /\ UNCHANGED <<view, seen, up, hand, adding, cmds, table>>
--------------------------------------------------------------------------------
(* What a worker does with the messages of a connection. *)
Handle(a) ==
    \/ \E st \in Stations : ProbeCreate(a, st) \/ NewStaCreate(a, st)
    \/ NewStaTest(a)
    \/ NewStaOnline(a) \/ NewStaOffline(a) \/ NewStaUnlinked(a)
    \/ NewStaPurge(a)
    \/ DelSta(a)
    \/ OkNothing(a) \/ OkRoam(a) \/ OkDelTest(a) \/ OkDel(a)
    \/ Err(a) \/ AnswerUnmatched(a)

Next ==
    \/ \E a \in Agents :
         \/ Connect(a) \/ Reset(a)
         \/ \E m \in StaMacs : ProbeTest(a, m)
         \/ Handle(a)
         \/ \E m \in StaMacs, ssid \in Ssids : Join(a, m, ssid) \/ Leave(a, m, ssid)
    \/ \E kind \in {"access", "roam", "force"}, a \in Agents, st \in Stations,
          ssid \in Ssids : AddCheck(kind, a, st, ssid)
    \/ \E x \in adding : AddLocked(x)
    \/ \E c \in BagToSet(cmds) : RunCmd(c)
    \/ \E st \in Stations :
         \/ AppOffline(st) \/ AgeStation(st)
         \/ \E v \in VapsOf(st) : AgeVap(st, v)

Spec == Init /\ [][Next]_vars

(* Workers and pool threads run while there is work for them, and AgeTask   *)
(* is scheduled with a fixed delay: an offline station that stays silent is *)
(* aged.  Nothing is assumed of APs, stations and applications.             *)
Fairness ==
    /\ \A a \in Agents : WF_vars(Handle(a))
    /\ \A st \in Stations : WF_vars(AgeStation(st))
    /\ WF_vars(\E x \in adding : AddLocked(x))
    /\ WF_vars(\E c \in BagToSet(cmds) : RunCmd(c))

FairSpec == Spec /\ Fairness
--------------------------------------------------------------------------------
(* The variables hold what their comments say. *)
TypeOK ==
    /\ stationMap \in [StaMacs -> Stations \cup {NULL}]
    /\ made \subseteq Stations
    /\ online \subseteq made
    /\ working \in [Stations -> Vaps \cup {NULL}]
    /\ staVaps \in [Stations -> [ApMacs \X Ssids -> Vaps \cup {NULL}]]
    /\ agVaps \in [Agents -> [StaMacs \X Ssids -> Vaps \cup {NULL}]]
    /\ vapOn \subseteq Vaps
    /\ seen \subseteq Agents /\ up \subseteq seen
    /\ inbox \in [Agents -> Seq(Msgs)]
    /\ hand \in [Agents -> Handlers]
    /\ adding \subseteq Calls
    /\ BagToSet(cmds) \subseteq Cmds
    /\ table \in [ApMacs -> SUBSET (StaMacs \X Ssids)]
    /\ joined \in [ApMacs -> SUBSET (StaMacs \X Ssids)]

(* Removal goes by key, through the agent and the station that the vap      *)
(* itself names, so every vap must be filed where those lead: in the map of *)
(* its own agent under its key, and in the map of some Station object of    *)
(* its own terminal under its key (Agent.addVapContainer,                   *)
(* Station.addVapContainer and all their callers).                          *)
FiledByOwner ==
    /\ \A a \in Agents : \A k \in StaMacs \X Ssids :
         LET v == agVaps[a][k] IN v # NULL => v.agent = a /\ AgKey(v) = k
    /\ \A st \in Stations : \A k \in ApMacs \X Ssids :
         LET v == staVaps[st][k] IN
         v # NULL => StaMac[v.station] = StaMac[st] /\ StaKey(v) = k

(* The terminal has had another Station object, and the radio that it works *)
(* on another connection: a DEL_VAP answer under way may name the old ones. *)
Doubled(st) ==
    /\ \E s \in made \ {st} : StaMac[s] = StaMac[st]
    /\ \E a \in seen \ {working[st].agent} : ApMac[a] = ApMac[working[st].agent]

(* A station that the view shows online works on a vap, and that vap is     *)
(* online: NEW_STA dereferences the working vap of an online station, and   *)
(* the views are updated by handlers, answers, resets and ageing of         *)
(* several connections at once.  The one exception: processMsgOk, handling  *)
(* a DEL_VAP answer of a connection that has been replaced, for a Station   *)
(* object that has been replaced too, may set the vap that both Station     *)
(* objects hold to OFF_LINE; the station found in the map stays online.     *)
OnlineOnItsVap ==
    \A m \in StaMacs :
        LET st == stationMap[m] IN
        st \in online => working[st] # NULL /\ (working[st] \in vapOn \/ Doubled(st))

--------------------------------------------------------------------------------
(* What a comment in the code says, and the code does not do. *)

(* "A vap that is not the associated one sets the station offline only when *)
(* none is left": a DEL_VAP answer for another vap than the working one     *)
(* leaves an online station online.                                         *)
HandoverKeepsOnline ==
    [][\A a \in Agents : OkDel(a) =>
         LET st == hand[a].station
         IN  st \in online /\ working[st].agent # a => st \in online']_vars
================================================================================
