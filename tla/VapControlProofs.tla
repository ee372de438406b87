---------------------------- MODULE VapControlProofs ----------------------------
(***************************************************************************)
(* Proofs about VapControl: the views are well formed, every vap is filed  *)
(* under the key that its removal will use, and an online station works on *)
(* an online vap, for any number of radios, connections, terminals, SSIDs  *)
(* and messages.                                                           *)
(***************************************************************************)
EXTENDS VapControl, TLAPS

(* A Station object is found under its own MAC, and was constructed. *)
KnownIsOwn ==
    \A m \in StaMacs : stationMap[m] # NULL =>
        stationMap[m] \in made /\ StaMac[stationMap[m]] = m

(* A handler past its test works on a Station object that was constructed. *)
HandIsMade ==
    \A a \in Agents : hand[a].step \in {"linked", "unlinked", "purge", "deleted"} =>
        hand[a].station \in made

(* A station works on a vap of its own terminal. *)
WorkingIsOwn ==
    \A st \in Stations : working[st] # NULL =>
        StaMac[working[st].station] = StaMac[st]

(* A Station object that was not constructed works on no vap. *)
UnmadeRests == \A st \in Stations : st \notin made => working[st] = NULL

(* A handler at work belongs to a connection that registered. *)
HandIsSeen == \A a \in Agents : hand[a].step # "idle" => a \in seen

(* The radio of a connection has had another one. *)
Reconnected(a) == \E b \in seen \ {a} : ApMac[b] = ApMac[a]

(* A DEL_VAP answer is being handled for a Station object that has left the *)
(* map since: the one that took its place does not work on this connection, *)
(* whose only worker is busy, unless the radio has reconnected.             *)
ReplacedIsElsewhere ==
    \A a \in Agents : hand[a].step = "deleted" =>
        LET st == stationMap[StaMac[hand[a].station]] IN
        /\ st \notin {NULL, hand[a].station}
        /\ working[st] # NULL
        => working[st].agent # a \/ Reconnected(a)

IInv ==
    /\ TypeOK
    /\ FiledByOwner
    /\ KnownIsOwn
    /\ HandIsMade
    /\ WorkingIsOwn
    /\ OnlineOnItsVap
    /\ UnmadeRests
    /\ HandIsSeen
    /\ ReplacedIsElsewhere

(* The maps of stations and agents, well typed and filed by owner. *)
StaMapOK(f) ==
    /\ f \in [Stations -> [ApMacs \X Ssids -> Vaps \cup {NULL}]]
    /\ \A st \in Stations : \A k \in ApMacs \X Ssids :
         f[st][k] # NULL =>
            StaMac[f[st][k].station] = StaMac[st] /\ StaKey(f[st][k]) = k
AgMapOK(f) ==
    /\ f \in [Agents -> [StaMacs \X Ssids -> Vaps \cup {NULL}]]
    /\ \A a \in Agents : \A k \in StaMacs \X Ssids :
         f[a][k] # NULL => f[a][k].agent = a /\ AgKey(f[a][k]) = k
--------------------------------------------------------------------------------
(* Fields. *)

(* The fields and keys of a vap container. *)
LEMMA VapFields ==
  ASSUME NEW v \in Vaps
  PROVE  /\ v.agent \in Agents /\ v.station \in Stations /\ v.ssid \in Ssids
         /\ v # NULL
         /\ StaKey(v) \in ApMacs \X Ssids
         /\ AgKey(v) \in StaMacs \X Ssids
         /\ StaKey(v) = <<ApMac[v.agent], v.ssid>>
         /\ AgKey(v) = <<StaMac[v.station], v.ssid>>
  BY ApAssumption, StaAssumption, NullAssumption DEF Vaps, StaKey, AgKey

(* What a handler remembers at each step. *)
LEMMA HandlerFields ==
  ASSUME NEW h \in Handlers
  PROVE  /\ h.step = "probe" => h.sta \in StaMacs
         /\ h.step = "create" => h.sta \in StaMacs /\ h.ssid \in Ssids
         /\ h.step \in {"linked", "unlinked", "purge", "deleted"}
              => h.station \in Stations /\ h.ssid \in Ssids
  BY DEF Handlers, Idle

(* The fields of a message. *)
LEMMA MsgFields ==
  ASSUME NEW m \in Msgs
  PROVE  /\ m.type \in {"NEW_STA", "DEL_STA"} => m.sta \in StaMacs /\ m.ssid \in Ssids
         /\ m.type \in {"OK", "ERR"} => m.cmd \in Cmds
  BY DEF Msgs

(* The fields of a command. *)
LEMMA CmdFields ==
  ASSUME NEW c \in Cmds
  PROVE  c.agent \in Agents /\ c.sta \in StaMacs /\ c.ssid \in Ssids /\ c.from \in ApMacs
  BY DEF Cmds

(* The fields of a call of excuteAddVap. *)
LEMMA CallFields ==
  ASSUME NEW x \in Calls
  PROVE  x.agent \in Agents /\ x.station \in Stations /\ x.ssid \in Ssids
         /\ x.from \in ApMacs
  BY DEF Calls
--------------------------------------------------------------------------------
(* Lookups and updates of the maps. *)

(* What Station.getVapContainer finds belongs to the station's terminal. *)
LEMMA StaVapFacts ==
  ASSUME StaMapOK(staVaps), NEW st \in Stations, NEW a \in Agents, NEW ssid \in Ssids
  PROVE  /\ StaVap(st, a, ssid) \in Vaps \cup {NULL}
         /\ StaVap(st, a, ssid) # NULL =>
              /\ StaMac[StaVap(st, a, ssid).station] = StaMac[st]
              /\ ApMac[StaVap(st, a, ssid).agent] = ApMac[a]
  <1>1. <<ApMac[a], ssid>> \in ApMacs \X Ssids
    BY ApAssumption
  <1>2. /\ StaVap(st, a, ssid) \in Vaps \cup {NULL}
        /\ StaVap(st, a, ssid) # NULL =>
              /\ StaMac[StaVap(st, a, ssid).station] = StaMac[st]
              /\ StaKey(StaVap(st, a, ssid)) = <<ApMac[a], ssid>>
    BY <1>1 DEF StaMapOK, StaVap
  <1> QED BY <1>2 DEF StaKey

(* What Agent.getVapContainer finds belongs to the agent and the terminal. *)
LEMMA AgVapFacts ==
  ASSUME AgMapOK(agVaps), NEW st \in Stations, NEW a \in Agents, NEW ssid \in Ssids
  PROVE  /\ AgVap(a, st, ssid) \in Vaps \cup {NULL}
         /\ AgVap(a, st, ssid) # NULL =>
              /\ AgVap(a, st, ssid).agent = a
              /\ StaMac[AgVap(a, st, ssid).station] = StaMac[st]
  <1>1. <<StaMac[st], ssid>> \in StaMacs \X Ssids
    BY StaAssumption
  <1>2. /\ AgVap(a, st, ssid) \in Vaps \cup {NULL}
        /\ AgVap(a, st, ssid) # NULL =>
              /\ AgVap(a, st, ssid).agent = a
              /\ AgKey(AgVap(a, st, ssid)) = <<StaMac[st], ssid>>
    BY <1>1 DEF AgMapOK, AgVap
  <1> QED BY <1>2 DEF AgKey

(* A working vap is never garbage. *)
LEMMA ReferencedWorking ==
  /\ \A s \in Stations : working[s] \in Referenced
  /\ \A s \in Stations : working'[s] \in Referenced'
  <1>1. ASSUME NEW s \in Stations PROVE working[s] \in Referenced
    <2>1. working[s] \in {working[x] : x \in Stations}
      OBVIOUS
    <2> QED BY <2>1, Zenon DEF Referenced
  <1>2. ASSUME NEW s \in Stations PROVE working'[s] \in Referenced'
    <2>1. working'[s] \in {working'[x] : x \in Stations}
      OBVIOUS
    <2> QED BY <2>1, Zenon DEF Referenced
  <1> QED BY <1>1, <1>2

(* A container just constructed is nobody's working vap. *)
LEMMA FreshFacts ==
  ASSUME NEW a, NEW st, NEW ssid, NEW v \in Fresh(a, st, ssid)
  PROVE  /\ v \in Vaps /\ v.agent = a /\ v.station = st
         /\ \A s \in Stations : working[s] # v
  <1>1. v \in Vaps /\ v.agent = a /\ v.station = st /\ v \notin Referenced
    BY DEF Fresh
  <1> QED BY <1>1, ReferencedWorking

(* Station.addVapContainer keeps the map filed by owner. *)
LEMMA PutStaOK ==
  ASSUME StaMapOK(staVaps), NEW st \in Stations, NEW v \in Vaps,
         StaMac[v.station] = StaMac[st]
  PROVE  StaMapOK(PutSta(st, v))
  <1> DEFINE K == ApMacs \X Ssids
             g == PutSta(st, v)
  <1>1. StaKey(v) \in K
    BY VapFields
  <1>2. staVaps \in [Stations -> [K -> Vaps \cup {NULL}]]
    BY DEF StaMapOK
  <1>3. /\ g \in [Stations -> [K -> Vaps \cup {NULL}]]
        /\ \A s \in Stations : \A k \in K :
             g[s][k] = IF s = st /\ k = StaKey(v) THEN v ELSE staVaps[s][k]
    <2> DEFINE key == StaKey(v)
    <2> HIDE DEF K, key
    <2>1. g = [staVaps EXCEPT ![st][key] = v]
      BY DEF PutSta, key
    <2>2. key \in K
      BY <1>1 DEF key
    <2> HIDE DEF g
    <2>3. /\ g \in [Stations -> [K -> Vaps \cup {NULL}]]
          /\ \A s \in Stations : \A k \in K :
               g[s][k] = IF s = st /\ k = key THEN v ELSE staVaps[s][k]
      BY <1>2, <2>1, <2>2
    <2> QED BY <2>3 DEF key
  <1>4. ASSUME NEW s \in Stations, NEW k \in K, g[s][k] # NULL
        PROVE  StaMac[g[s][k].station] = StaMac[s] /\ StaKey(g[s][k]) = k
    <2>1. CASE s = st /\ k = StaKey(v)
      <3>1. g[s][k] = v
        BY <1>3, <2>1
      <3> QED BY <2>1, <3>1
    <2>2. CASE ~(s = st /\ k = StaKey(v))
      <3>1. g[s][k] = staVaps[s][k]
        BY <1>3, <2>2
      <3> QED BY <1>4, <3>1 DEF StaMapOK
    <2> QED BY <2>1, <2>2
  <1>5. StaMapOK(g)
    <2> HIDE DEF g
    <2> QED BY <1>3, <1>4 DEF StaMapOK
  <1> QED BY <1>5

(* Agent.addVapContainer keeps the map filed by owner. *)
LEMMA PutAgOK ==
  ASSUME AgMapOK(agVaps), NEW a \in Agents, NEW v \in Vaps, v.agent = a
  PROVE  AgMapOK(PutAg(a, v))
  <1> DEFINE K == StaMacs \X Ssids
             r == IF agVaps[a][AgKey(v)] = NULL THEN v ELSE agVaps[a][AgKey(v)]
             g == [agVaps EXCEPT ![a][AgKey(v)] = r]
  <1>1. AgKey(v) \in K
    BY VapFields
  <1>2. agVaps \in [Agents -> [K -> Vaps \cup {NULL}]]
    BY DEF AgMapOK
  <1>3. r \in Vaps \cup {NULL}
    BY <1>1, <1>2
  <1>4. PutAg(a, v) = g
    BY Zenon DEF PutAg
  <1>5. /\ g \in [Agents -> [K -> Vaps \cup {NULL}]]
        /\ \A b \in Agents : \A k \in K :
             g[b][k] = IF b = a /\ k = AgKey(v) THEN r ELSE agVaps[b][k]
    <2> DEFINE key == AgKey(v)
    <2> HIDE DEF K, r, key
    <2>1. g = [agVaps EXCEPT ![a][key] = r]
      BY DEF key
    <2>2. key \in K
      BY <1>1 DEF key
    <2> HIDE DEF g
    <2>3. /\ g \in [Agents -> [K -> Vaps \cup {NULL}]]
          /\ \A b \in Agents : \A k \in K :
               g[b][k] = IF b = a /\ k = key THEN r ELSE agVaps[b][k]
      BY <1>2, <1>3, <2>1, <2>2
    <2> QED BY <2>3 DEF key
  <1>6. ASSUME NEW b \in Agents, NEW k \in K, g[b][k] # NULL
        PROVE  g[b][k].agent = b /\ AgKey(g[b][k]) = k
    <2>1. CASE b = a /\ k = AgKey(v) /\ agVaps[a][AgKey(v)] = NULL
      <3>1. g[b][k] = v
        BY <1>5, <2>1
      <3> QED BY <2>1, <3>1
    <2>2. CASE ~(b = a /\ k = AgKey(v) /\ agVaps[a][AgKey(v)] = NULL)
      <3>1. g[b][k] = agVaps[b][k]
        BY <1>5, <2>2
      <3> QED BY <1>6, <3>1 DEF AgMapOK
    <2> QED BY <2>1, <2>2
  <1> HIDE DEF g
  <1> QED BY <1>4, <1>5, <1>6 DEF AgMapOK

(* Removal from a station's map keeps it filed by owner, and adds nothing. *)
LEMMA DropStaOK ==
  ASSUME StaMapOK(staVaps), NEW st \in Stations, NEW V
  PROVE  /\ StaMapOK(DropSta(st, V))
         /\ \A s \in Stations : \A k \in ApMacs \X Ssids :
              DropSta(st, V)[s][k] \in {NULL, staVaps[s][k]}
  <1> DEFINE K == ApMacs \X Ssids
             h == [k \in K |-> IF \E v \in V : StaKey(v) = k THEN NULL ELSE staVaps[st][k]]
             g == [staVaps EXCEPT ![st] = h]
  <1>1. staVaps \in [Stations -> [K -> Vaps \cup {NULL}]]
    BY DEF StaMapOK
  <1>2. DropSta(st, V) = g
    <2>1. DOMAIN staVaps[st] = K
      BY <1>1
    <2> QED BY <2>1, Zenon DEF DropSta
  <1>3. h \in [K -> Vaps \cup {NULL}] /\ \A k \in K : h[k] \in {NULL, staVaps[st][k]}
    BY <1>1
  <1>4. /\ g \in [Stations -> [K -> Vaps \cup {NULL}]]
        /\ \A s \in Stations : \A k \in K : g[s][k] \in {NULL, staVaps[s][k]}
    <2> HIDE DEF K, h
    <2> QED BY <1>1, <1>3
  <1>5. ASSUME NEW s \in Stations, NEW k \in K, g[s][k] # NULL
        PROVE  StaMac[g[s][k].station] = StaMac[s] /\ StaKey(g[s][k]) = k
    <2>1. g[s][k] = staVaps[s][k]
      BY <1>4, <1>5
    <2> QED BY <1>5, <2>1 DEF StaMapOK
  <1> HIDE DEF g
  <1> QED BY <1>2, <1>4, <1>5 DEF StaMapOK

(* Removal of one key from an agent's map keeps it filed by owner. *)
LEMMA DelAgOK ==
  ASSUME AgMapOK(agVaps), NEW a \in Agents, NEW v \in Vaps
  PROVE  AgMapOK([agVaps EXCEPT ![a][AgKey(v)] = NULL])
  <1> DEFINE K == StaMacs \X Ssids
             key == AgKey(v)
             g == [agVaps EXCEPT ![a][key] = NULL]
  <1>1. key \in K /\ agVaps \in [Agents -> [K -> Vaps \cup {NULL}]]
    BY VapFields DEF AgMapOK
  <1>2. /\ g \in [Agents -> [K -> Vaps \cup {NULL}]]
        /\ \A b \in Agents : \A k \in K : g[b][k] \in {NULL, agVaps[b][k]}
    <2> HIDE DEF K, key
    <2> QED BY <1>1
  <1>3. AgMapOK(g)
    <2> HIDE DEF g
    <2>1. ASSUME NEW b \in Agents, NEW k \in K, g[b][k] # NULL
          PROVE  g[b][k].agent = b /\ AgKey(g[b][k]) = k
      <3>1. g[b][k] = agVaps[b][k]
        BY <1>2, <2>1
      <3> QED BY <2>1, <3>1 DEF AgMapOK
    <2> QED BY <1>2, <2>1 DEF AgMapOK
  <1> QED BY <1>3

(* Removal of several vaps from the agents' maps keeps them filed by owner. *)
LEMMA DropAgOK ==
  ASSUME AgMapOK(agVaps), NEW V
  PROVE  AgMapOK(DropAg(V))
  BY DEF AgMapOK, DropAg
--------------------------------------------------------------------------------
(* Bags of commands. *)

(* The executor is given commands. *)
LEMMA ExecuteType ==
  ASSUME NEW C \in SUBSET Cmds, BagToSet(cmds) \subseteq Cmds, Execute(C)
  PROVE  BagToSet(cmds') \subseteq Cmds
  <1>1. BagToSet(cmds (+) SetToBag(C)) = BagToSet(cmds) \cup C
    BY DEF BagToSet, SetToBag, (+)
  <1> QED BY <1>1 DEF Execute

(* Taking a command from the executor leaves commands. *)
LEMMA RemoveType ==
  ASSUME NEW C, BagToSet(cmds) \subseteq Cmds, cmds' = cmds (-) SetToBag(C)
  PROVE  BagToSet(cmds') \subseteq Cmds
  BY DEF BagToSet, SetToBag, (-)

(* Cmd makes a command. *)
LEMMA CmdType ==
  ASSUME NEW type \in {"ADD", "ROAM", "DEL", "OFFLINE"}, NEW a \in Agents,
         NEW st \in Stations, NEW ssid \in Ssids, NEW from \in ApMacs
  PROVE  Cmd(type, a, st, ssid, from) \in Cmds
  BY StaAssumption DEF Cmd, Cmds

(* delVapContainer makes commands. *)
LEMMA DelCmdsType ==
  ASSUME NEW type \in {"ADD", "ROAM", "DEL", "OFFLINE"}, NEW st \in Stations,
         NEW V \in SUBSET Vaps
  PROVE  DelCmds(type, st, V) \in SUBSET Cmds
  <1>1. \A v \in V : Cmd(type, v.agent, st, v.ssid, ApMac[v.agent]) \in Cmds
    BY VapFields, CmdType, ApAssumption
  <1> QED BY <1>1 DEF DelCmds

(* A station's map holds vaps. *)
LEMMA VapsOfType ==
  ASSUME StaMapOK(staVaps), NEW st \in Stations
  PROVE  VapsOf(st) \in SUBSET Vaps
  BY DEF StaMapOK, VapsOf

(* A worker takes a message of the wanted type. *)
LEMMA TakeFacts ==
  ASSUME NEW a \in Agents, NEW type, inbox \in [Agents -> Seq(Msgs)], Take(a, type)
  PROVE  /\ inbox' \in [Agents -> Seq(Msgs)]
         /\ Head(inbox[a]) \in Msgs
         /\ Head(inbox[a]).type = type
  BY DEF Take

(* An AP sends a message. *)
LEMMA ReportType ==
  ASSUME NEW a \in Agents, NEW msg \in Msgs, inbox \in [Agents -> Seq(Msgs)],
         Report(a, msg)
  PROVE  inbox' \in [Agents -> Seq(Msgs)]
  BY DEF Report
--------------------------------------------------------------------------------
(* The invariant in parts: the views, and the work under way. *)

ViewOK ==
    /\ stationMap \in [StaMacs -> Stations \cup {NULL}]
    /\ made \subseteq Stations
    /\ online \subseteq made
    /\ working \in [Stations -> Vaps \cup {NULL}]
    /\ vapOn \subseteq Vaps
    /\ StaMapOK(staVaps)
    /\ AgMapOK(agVaps)
    /\ KnownIsOwn
    /\ WorkingIsOwn
    /\ OnlineOnItsVap

WorkOK ==
    /\ seen \subseteq Agents /\ up \subseteq seen
    /\ inbox \in [Agents -> Seq(Msgs)]
    /\ hand \in [Agents -> Handlers]
    /\ adding \subseteq Calls
    /\ BagToSet(cmds) \subseteq Cmds
    /\ table \in [ApMacs -> SUBSET (StaMacs \X Ssids)]
    /\ joined \in [ApMacs -> SUBSET (StaMacs \X Ssids)]
    /\ HandIsMade

(* And which handler may know an object that is no longer in the map. *)
StaleOK == UnmadeRests /\ HandIsSeen /\ ReplacedIsElsewhere

(* The three parts are the invariant. *)
LEMMA Halves == IInv <=> ViewOK /\ WorkOK /\ StaleOK
  BY DEF StaleOK, IInv, ViewOK, WorkOK, TypeOK, FiledByOwner, StaMapOK, AgMapOK

(* The same after a step. *)
LEMMA HalvesPrime == ViewOK' /\ WorkOK' /\ StaleOK' => IInv'
  BY DEF StaleOK, IInv, ViewOK, WorkOK, TypeOK, FiledByOwner, StaMapOK, AgMapOK

(* A step that leaves the views alone keeps their half. *)
LEMMA ViewSame ==
  ASSUME ViewOK, UNCHANGED view, seen \subseteq seen'
  PROVE  ViewOK'
  BY DEF ViewOK, view, KnownIsOwn, WorkingIsOwn, OnlineOnItsVap, Doubled

(* The controller starts with the invariant. *)
LEMMA InitIInv == Init => IInv
  <1> SUFFICES ASSUME Init PROVE IInv
    OBVIOUS
  <1>1. BagToSet(cmds) \subseteq Cmds
    BY DEF Init, BagToSet, EmptyBag, SetToBag
  <1>2. WorkOK
    BY <1>1 DEF Init, WorkOK, HandIsMade, Handlers, Idle
  <1>3. ViewOK
    BY NullAssumption DEF Init, ViewOK, StaMapOK, AgMapOK, KnownIsOwn, WorkingIsOwn,
         OnlineOnItsVap
  <1>4. StaleOK
    BY DEF Init, StaleOK, UnmadeRests, HandIsSeen, ReplacedIsElsewhere, Idle
  <1> QED BY <1>2, <1>3, <1>4, Halves

(* Stations that are online after a step work on a vap that is online, or   *)
(* go on with the one they had.                                             *)
LEMMA OnlineStays ==
  ASSUME ViewOK, made \subseteq made', seen \subseteq seen',
         \A m \in StaMacs : stationMap'[m] \in online' =>
           \/ working'[stationMap'[m]] # NULL /\ working'[stationMap'[m]] \in vapOn'
           \/ /\ stationMap'[m] = stationMap[m] /\ stationMap[m] \in online
              /\ working'[stationMap[m]] = working[stationMap[m]]
              /\ working[stationMap[m]] \in vapOn =>
                   working[stationMap[m]] \in vapOn' \/ Doubled(stationMap[m])
  PROVE  OnlineOnItsVap'
  <1>1. ASSUME NEW s, Doubled(s), working'[s] = working[s]
        PROVE  Doubled(s)'
    BY <1>1 DEF Doubled
  <1>2. ASSUME NEW m \in StaMacs, NEW s, s = stationMap'[m], s \in online'
        PROVE  working'[s] # NULL /\ (working'[s] \in vapOn' \/ Doubled(s)')
    <2>1. CASE working'[s] # NULL /\ working'[s] \in vapOn'
      BY <2>1
    <2>2. CASE /\ s = stationMap[m] /\ s \in online /\ working'[s] = working[s]
               /\ working[s] \in vapOn => working[s] \in vapOn' \/ Doubled(s)
      <3>1. working[s] # NULL /\ (working[s] \in vapOn \/ Doubled(s))
        BY <2>2 DEF ViewOK, OnlineOnItsVap
      <3> QED BY <1>1, <2>2, <3>1
    <2> QED BY <1>2, <2>1, <2>2
  <1> QED BY <1>2 DEF OnlineOnItsVap, Doubled

(* The handler of one connection moves on. *)
LEMMA HandRecords ==
  /\ Idle \in Handlers /\ Idle.step = "idle"
  /\ \A m \in StaMacs : [step |-> "probe", sta |-> m] \in Handlers
  /\ \A m \in StaMacs, ssid \in Ssids :
       [step |-> "create", sta |-> m, ssid |-> ssid] \in Handlers
  /\ \A s \in {"linked", "unlinked", "purge", "deleted"}, st \in Stations, ssid \in Ssids :
       [step |-> s, station |-> st, ssid |-> ssid] \in Handlers
  BY DEF Handlers, Idle

(* A handler goes on with a constructed station. *)
LEMMA HandMoves ==
  ASSUME WorkOK, NEW a \in Agents, NEW h \in Handlers, made \subseteq made',
         h.step \in {"linked", "unlinked", "purge", "deleted"} => h.station \in made',
         hand' = [hand EXCEPT ![a] = h]
  PROVE  hand' \in [Agents -> Handlers] /\ HandIsMade'
  BY DEF WorkOK, HandIsMade

(* Handlers that rest keep theirs. *)
LEMMA HandStays ==
  ASSUME WorkOK, UNCHANGED hand, made \subseteq made'
  PROVE  hand' \in [Agents -> Handlers] /\ HandIsMade'
  BY DEF WorkOK, HandIsMade

(* A station works on another vap, and that vap is online. *)
LEMMA WorkOn ==
  ASSUME ViewOK, NEW st \in Stations, NEW v \in Vaps, StaMac[v.station] = StaMac[st],
         working' = [working EXCEPT ![st] = v], TurnOn(v),
         online' \subseteq online \cup {st}, made \subseteq made', seen' = seen,
         \A m \in StaMacs : stationMap'[m] \in {st, stationMap[m]}
  PROVE  /\ working' \in [Stations -> Vaps \cup {NULL}]
         /\ vapOn' \subseteq Vaps
         /\ WorkingIsOwn'
         /\ OnlineOnItsVap'
  <1>1. working' \in [Stations -> Vaps \cup {NULL}]
    BY DEF ViewOK
  <1>2. vapOn' \subseteq Vaps
    BY DEF ViewOK, TurnOn
  <1>3. WorkingIsOwn'
    BY DEF ViewOK, WorkingIsOwn
  <1>4. \A s \in Stations : working'[s] \in Referenced'
    BY ReferencedWorking
  <1>5. ASSUME NEW m \in StaMacs, stationMap'[m] \in online'
        PROVE  \/ working'[stationMap'[m]] # NULL /\ working'[stationMap'[m]] \in vapOn'
               \/ /\ stationMap'[m] = stationMap[m] /\ stationMap[m] \in online
                  /\ working'[stationMap[m]] = working[stationMap[m]]
                  /\ working[stationMap[m]] \in vapOn => working[stationMap[m]] \in vapOn'
    <2>1. CASE stationMap'[m] = st
      BY <1>4, <2>1, VapFields DEF ViewOK, TurnOn
    <2>2. CASE stationMap'[m] # st
      <3>1. stationMap'[m] = stationMap[m] /\ stationMap[m] \in online
        BY <1>5, <2>2
      <3>2. stationMap[m] \in Stations
        BY <3>1 DEF ViewOK
      <3>3. working'[stationMap[m]] = working[stationMap[m]]
        BY <2>2, <3>1, <3>2 DEF ViewOK
      <3> QED BY <1>4, <3>1, <3>2, <3>3 DEF TurnOn
    <2> QED BY <2>1, <2>2
  <1>6. OnlineOnItsVap'
    BY <1>5, OnlineStays
  <1> QED BY <1>1, <1>2, <1>3, <1>6
--------------------------------------------------------------------------------
(* Actions that leave the views alone. *)

(* A radio connects. *)
LEMMA ConnectStep ==
  ASSUME ViewOK, WorkOK, NEW a \in Agents, Connect(a)
  PROVE  ViewOK' /\ WorkOK'
  <1>1. ViewOK'
    BY ViewSame DEF Connect
  <1>2. hand' \in [Agents -> Handlers] /\ HandIsMade'
    BY HandStays DEF Connect, view
  <1> QED BY <1>1, <1>2 DEF Connect, WorkOK, apState

(* PROBE_INFO, the test. *)
LEMMA ProbeTestStep ==
  ASSUME ViewOK, WorkOK, NEW a \in Agents, NEW m \in StaMacs, ProbeTest(a, m)
  PROVE  ViewOK' /\ WorkOK'
  <1>1. ViewOK'
    BY ViewSame DEF ProbeTest
  <1>2. hand' \in [Agents -> Handlers] /\ HandIsMade'
    BY HandMoves, HandRecords DEF ProbeTest, view
  <1> QED BY <1>1, <1>2 DEF ProbeTest, WorkOK, apState

(* NEW_STA, the tests without a lock. *)
LEMMA NewStaTestStep ==
  ASSUME ViewOK, WorkOK, NEW a \in Agents, NewStaTest(a)
  PROVE  ViewOK' /\ WorkOK'
  <1> DEFINE msg == Head(inbox[a])
             st == stationMap[msg.sta]
             h == IF st = NULL
                  THEN [step |-> "create", sta |-> msg.sta, ssid |-> msg.ssid]
                  ELSE [step |-> IF a \in AgentSet(st) /\ st \in StationSet(a)
                                 THEN "linked" ELSE "unlinked",
                        station |-> st, ssid |-> msg.ssid]
  <1>1. ViewOK'
    BY ViewSame DEF NewStaTest
  <1>2. /\ inbox' \in [Agents -> Seq(Msgs)]
        /\ msg.sta \in StaMacs /\ msg.ssid \in Ssids
    BY TakeFacts, MsgFields DEF NewStaTest, WorkOK
  <1>3. st # NULL => st \in Stations /\ st \in made
    BY <1>2 DEF ViewOK, KnownIsOwn
  <1>4. h \in Handlers
    BY <1>2, <1>3, HandRecords
  <1>5. h.step \in {"linked", "unlinked", "purge", "deleted"} => h.station \in made'
    BY <1>3 DEF NewStaTest, view
  <1>6. hand' = [hand EXCEPT ![a] = h] /\ made' = made
    BY DEF NewStaTest, view
  <1>7. hand' \in [Agents -> Handlers] /\ HandIsMade'
    <2> HIDE DEF h
    <2> QED BY <1>4, <1>5, <1>6, HandMoves
  <1> QED BY <1>1, <1>2, <1>7 DEF NewStaTest, WorkOK, apState

(* NEW_STA, the DEL_VAPs for other agents. *)
LEMMA NewStaPurgeStep ==
  ASSUME ViewOK, WorkOK, NEW a \in Agents, NewStaPurge(a)
  PROVE  ViewOK' /\ WorkOK'
  <1> DEFINE st == hand[a].station
             others == {v \in VapsOf(st) : v.agent # a /\ v.ssid = hand[a].ssid}
  <1>1. ViewOK'
    BY ViewSame DEF NewStaPurge
  <1>2. st \in Stations
    BY HandlerFields DEF NewStaPurge, WorkOK
  <1>3. others \in SUBSET Vaps
    BY <1>2, VapsOfType DEF ViewOK
  <1>4. BagToSet(cmds') \subseteq Cmds
    <2>1. DelCmds("DEL", st, others) \in SUBSET Cmds /\ Execute(DelCmds("DEL", st, others))
      BY <1>2, <1>3, DelCmdsType DEF NewStaPurge
    <2> QED BY <2>1, ExecuteType DEF WorkOK
  <1>5. hand' \in [Agents -> Handlers] /\ HandIsMade'
    BY HandMoves, HandRecords DEF NewStaPurge, view
  <1> QED BY <1>1, <1>4, <1>5 DEF NewStaPurge, WorkOK, apState

(* OK of ADD_VAP and OFFLINE_VAP. *)
LEMMA OkNothingStep ==
  ASSUME ViewOK, WorkOK, NEW a \in Agents, OkNothing(a)
  PROVE  ViewOK' /\ WorkOK'
  <1>1. ViewOK'
    BY ViewSame DEF OkNothing
  <1>2. inbox' \in [Agents -> Seq(Msgs)]
    BY TakeFacts DEF OkNothing, WorkOK
  <1>3. hand' \in [Agents -> Handlers] /\ HandIsMade'
    BY HandStays DEF OkNothing, view
  <1> QED BY <1>1, <1>2, <1>3 DEF OkNothing, WorkOK, apState

(* OK of ADD_VAP_ROAM. *)
LEMMA OkRoamStep ==
  ASSUME ViewOK, WorkOK, NEW a \in Agents, OkRoam(a)
  PROVE  ViewOK' /\ WorkOK'
  <1> DEFINE c == Head(inbox[a]).cmd
             st == stationMap[c.sta]
  <1>1. ViewOK'
    BY ViewSame DEF OkRoam
  <1>2. inbox' \in [Agents -> Seq(Msgs)] /\ c \in Cmds
    BY TakeFacts, MsgFields DEF OkRoam, WorkOK
  <1>3. hand' \in [Agents -> Handlers] /\ HandIsMade'
    BY HandStays DEF OkRoam, view
  <1>4. BagToSet(cmds') \subseteq Cmds
    <2>1. CASE UNCHANGED cmds
      BY <2>1 DEF WorkOK
    <2>2. ASSUME st # NULL, NEW from \in AgentOf(c.from),
                 Execute(IF StaVap(st, from, c.ssid) # NULL /\ from \in AgentSet(st)
                         THEN {Cmd("OFFLINE", from, st, c.ssid, c.from)} ELSE {})
          PROVE  BagToSet(cmds') \subseteq Cmds
      <3>1. c.sta \in StaMacs /\ c.ssid \in Ssids /\ c.from \in ApMacs
        BY <1>2, CmdFields
      <3>2. st \in Stations /\ from \in Agents
        BY <2>2, <3>1 DEF ViewOK, WorkOK, AgentOf
      <3>3. Cmd("OFFLINE", from, st, c.ssid, c.from) \in Cmds
        BY <3>1, <3>2, CmdType
      <3> DEFINE C == IF StaVap(st, from, c.ssid) # NULL /\ from \in AgentSet(st)
                      THEN {Cmd("OFFLINE", from, st, c.ssid, c.from)} ELSE {}
      <3>4. C \in SUBSET Cmds
        BY <3>3
      <3> HIDE DEF C
      <3> QED BY <2>2, <3>4, ExecuteType DEF WorkOK, C
    <2> QED BY <2>1, <2>2 DEF OkRoam
  <1> QED BY <1>1, <1>2, <1>3, <1>4 DEF OkRoam, WorkOK, apState

(* OK of DEL_VAP, the test without a lock. *)
LEMMA OkDelTestStep ==
  ASSUME ViewOK, WorkOK, NEW a \in Agents, OkDelTest(a)
  PROVE  ViewOK' /\ WorkOK'
  <1> DEFINE c == Head(inbox[a]).cmd
             st == stationMap[c.sta]
             h == [step |-> "deleted", station |-> st, ssid |-> c.ssid]
  <1>1. ViewOK'
    BY ViewSame DEF OkDelTest
  <1>2. inbox' \in [Agents -> Seq(Msgs)] /\ c \in Cmds
    BY TakeFacts, MsgFields DEF OkDelTest, WorkOK
  <1>3. c.sta \in StaMacs /\ c.ssid \in Ssids /\ made' = made
    BY <1>2, CmdFields DEF OkDelTest, view
  <1>4. hand' \in [Agents -> Handlers] /\ HandIsMade'
    <2>1. CASE st = NULL
      BY <1>3, <2>1, HandStays DEF OkDelTest
    <2>2. CASE st # NULL
      <3>1. h \in Handlers /\ h.station \in made'
        BY <1>3, <2>2, HandRecords DEF ViewOK, KnownIsOwn
      <3>2. hand' = [hand EXCEPT ![a] = h]
        BY <2>2 DEF OkDelTest
      <3> HIDE DEF h
      <3> QED BY <1>3, <3>1, <3>2, HandMoves
    <2> QED BY <2>1, <2>2
  <1> QED BY <1>1, <1>2, <1>4 DEF OkDelTest, WorkOK, apState

(* ERR. *)
LEMMA ErrStep ==
  ASSUME ViewOK, WorkOK, NEW a \in Agents, Err(a)
  PROVE  ViewOK' /\ WorkOK'
  <1>1. ViewOK'
    BY ViewSame DEF Err
  <1>2. inbox' \in [Agents -> Seq(Msgs)]
    BY TakeFacts DEF Err, WorkOK
  <1>3. hand' \in [Agents -> Handlers] /\ HandIsMade'
    BY HandStays DEF Err, view
  <1> QED BY <1>1, <1>2, <1>3 DEF Err, WorkOK, apState

(* An answer without its command. *)
LEMMA AnswerUnmatchedStep ==
  ASSUME ViewOK, WorkOK, NEW a \in Agents, AnswerUnmatched(a)
  PROVE  ViewOK' /\ WorkOK'
  <1>1. ViewOK'
    BY ViewSame DEF AnswerUnmatched
  <1>2. inbox' \in [Agents -> Seq(Msgs)]
    BY TakeFacts DEF AnswerUnmatched, WorkOK
  <1>3. hand' \in [Agents -> Handlers] /\ HandIsMade'
    BY HandStays DEF AnswerUnmatched, view
  <1> QED BY <1>1, <1>2, <1>3 DEF AnswerUnmatched, WorkOK, apState

(* excuteAddVap, the tests without a lock. *)
LEMMA AddCheckStep ==
  ASSUME ViewOK, WorkOK, NEW kind \in {"access", "roam", "force"}, NEW a \in Agents,
         NEW st \in Stations, NEW ssid \in Ssids, AddCheck(kind, a, st, ssid)
  PROVE  ViewOK' /\ WorkOK'
  <1> DEFINE from == ApMac[IF kind = "access" THEN a ELSE working[st].agent]
             x == [kind |-> kind, agent |-> a, station |-> st, ssid |-> ssid, from |-> from]
  <1>1. ViewOK'
    BY ViewSame DEF AddCheck
  <1>2. from \in ApMacs
    <2>1. kind # "access" => working[st] \in Vaps
      BY DEF AddCheck, ViewOK
    <2> QED BY <2>1, VapFields, ApAssumption
  <1>3. x \in Calls
    BY <1>2 DEF Calls
  <1>4. adding' = adding \cup {x}
    BY DEF AddCheck
  <1>5. hand' \in [Agents -> Handlers] /\ HandIsMade'
    BY HandStays DEF AddCheck, view
  <1> HIDE DEF x
  <1> QED BY <1>1, <1>3, <1>4, <1>5 DEF AddCheck, WorkOK, apState

(* HandoffApp sends OFFLINE_VAP. *)
LEMMA AppOfflineStep ==
  ASSUME ViewOK, WorkOK, NEW st \in Stations, AppOffline(st)
  PROVE  ViewOK' /\ WorkOK'
  <1>1. ViewOK'
    BY ViewSame DEF AppOffline
  <1>2. {working[st]} \in SUBSET Vaps
    BY DEF AppOffline, ViewOK
  <1>3. BagToSet(cmds') \subseteq Cmds
    <2>1. /\ DelCmds("OFFLINE", st, {working[st]}) \in SUBSET Cmds
          /\ Execute(DelCmds("OFFLINE", st, {working[st]}))
      BY <1>2, DelCmdsType DEF AppOffline
    <2> QED BY <2>1, ExecuteType DEF WorkOK
  <1>4. hand' \in [Agents -> Handlers] /\ HandIsMade'
    BY HandStays DEF AppOffline, view
  <1> QED BY <1>1, <1>3, <1>4 DEF AppOffline, WorkOK, apState

(* A command reaches its AP. *)
LEMMA RunCmdStep ==
  ASSUME ViewOK, WorkOK, NEW c \in BagToSet(cmds), RunCmd(c)
  PROVE  ViewOK' /\ WorkOK'
  <1>1. ViewOK'
    BY ViewSame DEF RunCmd
  <1>2. c \in Cmds /\ c.agent \in Agents /\ c.sta \in StaMacs /\ c.ssid \in Ssids
    BY CmdFields DEF WorkOK
  <1>3. BagToSet(cmds') \subseteq Cmds
    BY RemoveType DEF RunCmd, WorkOK
  <1>4. inbox' \in [Agents -> Seq(Msgs)]
    <2>1. [type |-> IF Accepts(c) THEN "OK" ELSE "ERR", cmd |-> c] \in Msgs
      BY <1>2 DEF Msgs
    <2> QED BY <1>2, <2>1, ReportType DEF RunCmd, WorkOK
  <1>5. table' \in [ApMacs -> SUBSET (StaMacs \X Ssids)]
    <2> DEFINE cur == table[ApMac[c.agent]]
               new == CASE c.type \in {"ADD", "ROAM"} -> cur \cup {<<c.sta, c.ssid>>}
                        [] c.type = "DEL" -> cur \ {<<c.sta, c.ssid>>}
                        [] OTHER -> cur
    <2>1. cur \in SUBSET (StaMacs \X Ssids) /\ ApMac[c.agent] \in ApMacs
      BY <1>2, ApAssumption DEF WorkOK
    <2>2. new \in SUBSET (StaMacs \X Ssids)
      BY <1>2, <2>1
    <2>3. TableAfter(c) = [table EXCEPT ![ApMac[c.agent]] = new]
      BY Zenon DEF TableAfter
    <2> HIDE DEF new
    <2> QED BY <2>1, <2>2, <2>3 DEF RunCmd, WorkOK
  <1>6. hand' \in [Agents -> Handlers] /\ HandIsMade'
    BY HandStays DEF RunCmd, view
  <1> QED BY <1>1, <1>3, <1>4, <1>5, <1>6 DEF RunCmd, WorkOK, apState

(* A terminal joins an AP. *)
LEMMA JoinStep ==
  ASSUME ViewOK, WorkOK, NEW a \in Agents, NEW m \in StaMacs, NEW ssid \in Ssids,
         Join(a, m, ssid)
  PROVE  ViewOK' /\ WorkOK'
  <1>1. ViewOK'
    BY ViewSame DEF Join
  <1>2. inbox' \in [Agents -> Seq(Msgs)]
    <2>1. [type |-> "NEW_STA", sta |-> m, ssid |-> ssid] \in Msgs
      BY DEF Msgs
    <2> QED BY <2>1, ReportType DEF Join, WorkOK
  <1>3. hand' \in [Agents -> Handlers] /\ HandIsMade'
    BY HandStays DEF Join, view
  <1>4. /\ table' \in [ApMacs -> SUBSET (StaMacs \X Ssids)]
        /\ joined' \in [ApMacs -> SUBSET (StaMacs \X Ssids)]
    <2> DEFINE K == StaMacs \X Ssids
               k == <<m, ssid>>
    <2>1. ApMac[a] \in ApMacs /\ k \in K
      BY ApAssumption
    <2>2. /\ table \in [ApMacs -> SUBSET K] /\ joined \in [ApMacs -> SUBSET K]
          /\ table' = [table EXCEPT ![ApMac[a]] = @ \cup {k}]
          /\ joined' = [joined EXCEPT ![ApMac[a]] = @ \cup {k}]
      BY DEF Join, WorkOK
    <2> HIDE DEF K, k
    <2>3. table' \in [ApMacs -> SUBSET K] /\ joined' \in [ApMacs -> SUBSET K]
      BY <2>1, <2>2
    <2> QED BY <2>3 DEF K
  <1> QED BY <1>1, <1>2, <1>3, <1>4 DEF Join, WorkOK, apState

(* A terminal leaves an AP. *)
LEMMA LeaveStep ==
  ASSUME ViewOK, WorkOK, NEW a \in Agents, NEW m \in StaMacs, NEW ssid \in Ssids,
         Leave(a, m, ssid)
  PROVE  ViewOK' /\ WorkOK'
  <1>1. ViewOK'
    BY ViewSame DEF Leave
  <1>2. inbox' \in [Agents -> Seq(Msgs)]
    <2>1. [type |-> "DEL_STA", sta |-> m, ssid |-> ssid] \in Msgs
      BY DEF Msgs
    <2> QED BY <2>1, ReportType DEF Leave, WorkOK
  <1>3. hand' \in [Agents -> Handlers] /\ HandIsMade'
    BY HandStays DEF Leave, view
  <1> QED BY <1>1, <1>2, <1>3 DEF Leave, WorkOK, apState
--------------------------------------------------------------------------------
(* Actions that change the views. *)

(* closeSocket: a station that loses its working vap goes offline with it. *)
LEMMA ResetStep ==
  ASSUME ViewOK, WorkOK, NEW a \in Agents, Reset(a)
  PROVE  ViewOK' /\ WorkOK'
  <1> DEFINE V == {v \in VapsOn(a) : v \in VapsOf(v.station)}
             lost == {st \in Stations : working[st] \in V /\ working[st].station = st}
  <1>1. /\ stationMap' = stationMap /\ made' = made
        /\ online' = online \ lost
        /\ working' = [st \in Stations |-> IF st \in lost THEN NULL ELSE working[st]]
        /\ vapOn' = vapOn \cap Referenced'
        /\ staVaps' = [st \in Stations |-> DropSta(st, {v \in V : v.station = st})[st]]
        /\ agVaps' = [agVaps EXCEPT ![a] = [k \in DOMAIN @ |-> NULL]]
    BY DEF Reset
  <1> HIDE DEF lost, V
  <1>2. StaMapOK(staVaps')
    <2> DEFINE K == ApMacs \X Ssids
               D(st) == DropSta(st, {v \in V : v.station = st})
    <2>1. ASSUME NEW st \in Stations
          PROVE  /\ D(st)[st] \in [K -> Vaps \cup {NULL}]
                 /\ \A k \in K : D(st)[st][k] \in {NULL, staVaps[st][k]}
      <3>1. /\ StaMapOK(D(st))
            /\ \A s \in Stations : \A k \in K : D(st)[s][k] \in {NULL, staVaps[s][k]}
        BY DropStaOK, Zenon DEF ViewOK
      <3> HIDE DEF D
      <3> QED BY <3>1 DEF StaMapOK
    <2> HIDE DEF D
    <2>2. staVaps' = [st \in Stations |-> D(st)[st]]
      BY <1>1 DEF D
    <2>3. /\ staVaps' \in [Stations -> [K -> Vaps \cup {NULL}]]
          /\ \A st \in Stations : \A k \in K : staVaps'[st][k] \in {NULL, staVaps[st][k]}
      BY <2>1, <2>2
    <2>4. ASSUME NEW s \in Stations, NEW k \in K, staVaps'[s][k] # NULL
          PROVE  StaMac[staVaps'[s][k].station] = StaMac[s] /\ StaKey(staVaps'[s][k]) = k
      <3>1. staVaps'[s][k] = staVaps[s][k]
        BY <2>3, <2>4
      <3> QED BY <2>4, <3>1 DEF ViewOK, StaMapOK
    <2> QED BY <2>3, <2>4 DEF StaMapOK
  <1>3. AgMapOK(agVaps')
    <2> DEFINE K == StaMacs \X Ssids
    <2>1. agVaps \in [Agents -> [K -> Vaps \cup {NULL}]]
      BY DEF ViewOK, AgMapOK
    <2>2. /\ agVaps' = [agVaps EXCEPT ![a] = [k \in K |-> NULL]]
          /\ [k \in K |-> NULL] \in [K -> Vaps \cup {NULL}]
      BY <1>1, <2>1
    <2> HIDE DEF K
    <2>3. agVaps' \in [Agents -> [K -> Vaps \cup {NULL}]]
      BY <2>1, <2>2
    <2>4. \A b \in Agents : \A k \in K : agVaps'[b][k] \in {NULL, agVaps[b][k]}
      BY <2>1, <2>2
    <2>5. ASSUME NEW b \in Agents, NEW k \in K, agVaps'[b][k] # NULL
          PROVE  agVaps'[b][k].agent = b /\ AgKey(agVaps'[b][k]) = k
      <3>1. agVaps'[b][k] = agVaps[b][k]
        BY <2>4, <2>5
      <3> QED BY <2>5, <3>1 DEF ViewOK, AgMapOK, K
    <2> QED BY <2>3, <2>5 DEF AgMapOK, K
  <1>4. working' \in [Stations -> Vaps \cup {NULL}] /\ WorkingIsOwn'
    BY <1>1 DEF ViewOK, WorkingIsOwn
  <1>5. ASSUME NEW m \in StaMacs, stationMap'[m] \in online'
        PROVE  /\ stationMap'[m] = stationMap[m] /\ stationMap[m] \in online
               /\ working'[stationMap[m]] = working[stationMap[m]]
               /\ working[stationMap[m]] \in vapOn => working[stationMap[m]] \in vapOn'
    <2>1. stationMap'[m] = stationMap[m] /\ stationMap[m] \in online \ lost
      BY <1>1, <1>5
    <2>2. stationMap[m] \in Stations
      BY <2>1 DEF ViewOK
    <2>3. working'[stationMap[m]] = working[stationMap[m]]
      BY <1>1, <2>1, <2>2
    <2> QED BY <1>1, <2>1, <2>2, <2>3, ReferencedWorking
  <1>6. ViewOK'
    <2>1. OnlineOnItsVap'
      BY <1>1, <1>5, OnlineStays DEF Reset
    <2> QED BY <1>1, <1>2, <1>3, <1>4, <2>1 DEF ViewOK, KnownIsOwn
  <1>7. hand' \in [Agents -> Handlers] /\ HandIsMade'
    BY HandStays DEF Reset
  <1>8. inbox' \in [Agents -> Seq(Msgs)]
    BY DEF Reset, WorkOK
  <1> QED BY <1>6, <1>7, <1>8 DEF Reset, WorkOK, apState

(* PROBE_INFO, a new station is offline. *)
LEMMA ProbeCreateStep ==
  ASSUME ViewOK, WorkOK, NEW a \in Agents, NEW st \in Stations, ProbeCreate(a, st)
  PROVE  ViewOK' /\ WorkOK'
  <1>1. hand[a].sta \in StaMacs
    BY HandlerFields DEF ProbeCreate, WorkOK
  <1>2. KnownIsOwn'
    BY <1>1 DEF ProbeCreate, ViewOK, KnownIsOwn
  <1>3. OnlineOnItsVap'
    <2>1. ASSUME NEW m \in StaMacs, stationMap'[m] \in online'
          PROVE  /\ stationMap'[m] = stationMap[m] /\ stationMap[m] \in online
                 /\ UNCHANGED <<working, vapOn>>
      BY <1>1, <2>1 DEF ProbeCreate, ViewOK
    <2> QED BY <2>1, OnlineStays DEF ProbeCreate
  <1>4. ViewOK'
    BY <1>1, <1>2, <1>3 DEF ProbeCreate, ViewOK, WorkingIsOwn
  <1>5. hand' \in [Agents -> Handlers] /\ HandIsMade'
    BY HandMoves, HandRecords DEF ProbeCreate
  <1> QED BY <1>4, <1>5 DEF ProbeCreate, WorkOK, apState

(* NEW_STA of an unknown station. *)
LEMMA NewStaCreateStep ==
  ASSUME ViewOK, WorkOK, NEW a \in Agents, NEW st \in Stations, NewStaCreate(a, st)
  PROVE  ViewOK' /\ WorkOK'
  <1>1. hand[a].sta \in StaMacs /\ hand[a].ssid \in Ssids
    BY HandlerFields DEF NewStaCreate, WorkOK
  <1>2. PICK v \in Fresh(a, st, hand[a].ssid) :
          /\ working' = [working EXCEPT ![st] = v]
          /\ staVaps' = PutSta(st, v)
          /\ agVaps' = PutAg(a, v)
          /\ TurnOn(v)
    BY DEF NewStaCreate
  <1>3. v \in Vaps /\ v.agent = a /\ v.station = st
    BY FreshFacts
  <1>4. /\ online' = online \cup {st} /\ made' = made \cup {st} /\ seen' = seen
        /\ stationMap' = [stationMap EXCEPT ![StaMac[st]] = st]
        /\ StaMac[st] \in StaMacs
    BY StaAssumption DEF NewStaCreate
  <1>5. StaMapOK(staVaps') /\ AgMapOK(agVaps')
    BY <1>2, <1>3, PutStaOK, PutAgOK DEF ViewOK
  <1>6. \A m \in StaMacs : stationMap'[m] \in {st, stationMap[m]}
    BY <1>4 DEF ViewOK
  <1>7. /\ working' \in [Stations -> Vaps \cup {NULL}] /\ vapOn' \subseteq Vaps
        /\ WorkingIsOwn' /\ OnlineOnItsVap'
    BY <1>2, <1>3, <1>4, <1>6, WorkOn
  <1>8. KnownIsOwn'
    BY <1>4 DEF ViewOK, KnownIsOwn
  <1>9. ViewOK'
    BY <1>4, <1>5, <1>7, <1>8 DEF ViewOK
  <1>10. hand' \in [Agents -> Handlers] /\ HandIsMade'
    <2> DEFINE h == [step |-> "unlinked", station |-> st, ssid |-> hand[a].ssid]
    <2>1. h \in Handlers /\ h.station \in made'
      BY <1>1, <1>4, HandRecords
    <2>2. hand' = [hand EXCEPT ![a] = h]
      BY DEF NewStaCreate
    <2> HIDE DEF h
    <2> QED BY <1>4, <2>1, <2>2, HandMoves
  <1> QED BY <1>9, <1>10 DEF NewStaCreate, WorkOK, apState

(* NEW_STA goes on to its last stretch, or ends. *)
LEMMA PurgeMoves ==
  ASSUME WorkOK, NEW a \in Agents, hand[a].step \in {"linked", "unlinked"},
         hand' = Purge(a) \/ hand' = [hand EXCEPT ![a] = Idle], made' = made
  PROVE  /\ hand' \in [Agents -> Handlers] /\ HandIsMade'
         /\ hand[a].station \in Stations /\ hand[a].station \in made
         /\ hand[a].ssid \in Ssids
  <1> DEFINE h == [step |-> "purge", station |-> hand[a].station, ssid |-> hand[a].ssid]
  <1>1. hand[a] \in Handlers
    BY DEF WorkOK
  <1>2. hand[a].station \in Stations /\ hand[a].ssid \in Ssids
    BY <1>1, HandlerFields
  <1>3. hand[a].station \in made
    BY DEF WorkOK, HandIsMade
  <1>4. h \in Handlers /\ h.station \in made'
    BY <1>2, <1>3, HandRecords
  <1>5. hand' = [hand EXCEPT ![a] = h] \/ hand' = [hand EXCEPT ![a] = Idle]
    BY DEF Purge
  <1>6. hand' \in [Agents -> Handlers] /\ HandIsMade'
    <2> HIDE DEF h
    <2> QED BY <1>4, <1>5, HandMoves, HandRecords
  <1> QED BY <1>2, <1>3, <1>6

(* NEW_STA of an online station. *)
LEMMA NewStaOnlineStep ==
  ASSUME ViewOK, WorkOK, NEW a \in Agents, NewStaOnline(a)
  PROVE  ViewOK' /\ WorkOK'
  <1> DEFINE st == hand[a].station
             ssid == hand[a].ssid
             old == StaVap(st, a, ssid)
  <1>1. /\ hand' \in [Agents -> Handlers] /\ HandIsMade'
        /\ st \in Stations /\ ssid \in Ssids
    BY PurgeMoves DEF NewStaOnline
  <1>2. /\ stationMap' = stationMap /\ made' = made /\ online' = online
        /\ seen' = seen /\ WorkOK'
    BY <1>1 DEF NewStaOnline, WorkOK, apState
  <1> HIDE DEF st, ssid
  <1>3. ASSUME NEW v \in Vaps, StaMac[v.station] = StaMac[st],
               working' = [working EXCEPT ![st] = v], TurnOn(v),
               StaMapOK(staVaps'), AgMapOK(agVaps')
        PROVE  ViewOK'
    <2>1. /\ working' \in [Stations -> Vaps \cup {NULL}] /\ vapOn' \subseteq Vaps
          /\ WorkingIsOwn' /\ OnlineOnItsVap'
      BY <1>1, <1>2, <1>3, WorkOn
    <2> QED BY <1>2, <1>3, <2>1 DEF ViewOK, KnownIsOwn
  <1>4. CASE UNCHANGED <<working, staVaps, agVaps, vapOn>>
    BY <1>2, <1>4, ViewSame DEF view
  <1>5. CASE /\ old # NULL /\ working' = [working EXCEPT ![st] = old]
             /\ UNCHANGED <<staVaps, agVaps>> /\ TurnOn(old)
    <2>1. old \in Vaps /\ StaMac[old.station] = StaMac[st]
      BY <1>1, <1>5, StaVapFacts DEF ViewOK
    <2>2. StaMapOK(staVaps') /\ AgMapOK(agVaps')
      BY <1>5 DEF ViewOK
    <2>3. PICK v \in Vaps : v = old
      BY <2>1
    <2>4. working' = [working EXCEPT ![st] = v] /\ TurnOn(v)
      BY <1>5, <2>3 DEF TurnOn
    <2> QED BY <1>2, <1>3, <2>1, <2>2, <2>3, <2>4
  <1>6. ASSUME NEW v \in Fresh(a, st, ssid), working' = [working EXCEPT ![st] = v],
               staVaps' = PutSta(st, v), agVaps' = PutAg(a, v), TurnOn(v)
        PROVE  ViewOK'
    <2>1. v \in Vaps /\ v.agent = a /\ v.station = st
      BY <1>6, FreshFacts
    <2>2. StaMapOK(staVaps') /\ AgMapOK(agVaps')
      BY <1>1, <1>6, <2>1, PutStaOK, PutAgOK DEF ViewOK
    <2> QED BY <1>3, <1>6, <2>1, <2>2
  <1> QED BY <1>2, <1>4, <1>5, <1>6 DEF NewStaOnline, st, ssid

(* NEW_STA of an offline station. *)
LEMMA NewStaOfflineStep ==
  ASSUME ViewOK, WorkOK, NEW a \in Agents, NewStaOffline(a)
  PROVE  ViewOK' /\ WorkOK'
  <1> DEFINE st == hand[a].station
             ssid == hand[a].ssid
             old == StaVap(st, a, ssid)
  <1>1. /\ hand' \in [Agents -> Handlers] /\ HandIsMade'
        /\ st \in Stations /\ st \in made /\ ssid \in Ssids
    BY PurgeMoves DEF NewStaOffline
  <1>2. /\ stationMap' = stationMap /\ made' = made
        /\ staVaps' = staVaps /\ agVaps' = agVaps
        /\ seen' = seen /\ WorkOK'
    BY <1>1 DEF NewStaOffline, WorkOK, apState
  <1> HIDE DEF st, ssid
  <1>3. CASE UNCHANGED <<vapOn, working, online>>
    BY <1>2, <1>3, ViewSame DEF view
  <1>4. ASSUME NEW v \in IF old # NULL THEN {old} ELSE Fresh(a, st, ssid),
               working' = [working EXCEPT ![st] = v], online' = online \cup {st}, TurnOn(v)
        PROVE  ViewOK'
    <2>1. v \in Vaps /\ StaMac[v.station] = StaMac[st]
      <3>1. CASE old # NULL
        BY <1>1, <1>4, <3>1, StaVapFacts DEF ViewOK
      <3>2. CASE old = NULL
        BY <1>4, <3>2, FreshFacts
      <3> QED BY <3>1, <3>2
    <2>2. /\ working' \in [Stations -> Vaps \cup {NULL}] /\ vapOn' \subseteq Vaps
          /\ WorkingIsOwn' /\ OnlineOnItsVap'
      BY <1>1, <1>2, <1>4, <2>1, WorkOn
    <2> QED BY <1>1, <1>2, <1>4, <2>2 DEF ViewOK, KnownIsOwn
  <1> QED BY <1>2, <1>3, <1>4 DEF NewStaOffline, st, ssid

(* NEW_STA of a station without a vap here. *)
LEMMA NewStaUnlinkedStep ==
  ASSUME ViewOK, WorkOK, NEW a \in Agents, NewStaUnlinked(a)
  PROVE  ViewOK' /\ WorkOK'
  <1> DEFINE st == hand[a].station
             ssid == hand[a].ssid
             old == AgVap(a, st, ssid)
  <1>1. /\ hand' \in [Agents -> Handlers] /\ HandIsMade'
        /\ st \in Stations /\ ssid \in Ssids
    BY PurgeMoves DEF NewStaUnlinked
  <1>2. /\ stationMap' = stationMap /\ made' = made /\ online' = online
        /\ seen' = seen /\ WorkOK'
    BY <1>1 DEF NewStaUnlinked, WorkOK, apState
  <1> HIDE DEF st, ssid
  <1>3. CASE UNCHANGED <<vapOn, staVaps, working, agVaps>>
    BY <1>2, <1>3, ViewSame DEF view
  <1>4. ASSUME NEW v \in IF old # NULL THEN {old} ELSE Fresh(a, st, ssid),
               staVaps' = PutSta(st, v), working' = [working EXCEPT ![st] = v],
               agVaps' = PutAg(a, v), TurnOn(v)
        PROVE  ViewOK'
    <2>1. v \in Vaps /\ v.agent = a /\ StaMac[v.station] = StaMac[st]
      <3>1. CASE old # NULL
        BY <1>1, <1>4, <3>1, AgVapFacts DEF ViewOK
      <3>2. CASE old = NULL
        BY <1>4, <3>2, FreshFacts
      <3> QED BY <3>1, <3>2
    <2>2. StaMapOK(staVaps') /\ AgMapOK(agVaps')
      BY <1>1, <1>4, <2>1, PutStaOK, PutAgOK DEF ViewOK
    <2>3. /\ working' \in [Stations -> Vaps \cup {NULL}] /\ vapOn' \subseteq Vaps
          /\ WorkingIsOwn' /\ OnlineOnItsVap'
      BY <1>1, <1>2, <1>4, <2>1, WorkOn
    <2> QED BY <1>2, <2>2, <2>3 DEF ViewOK, KnownIsOwn
  <1> QED BY <1>2, <1>3, <1>4 DEF NewStaUnlinked, st, ssid

(* A vap goes offline, and its station too if it worked on it. *)
LEMMA VapDown ==
  ASSUME ViewOK, NEW st \in Stations, NEW v,
         UNCHANGED <<stationMap, made, seen>>, vapOn' = vapOn \ {v}, online' \subseteq online,
         \A s \in Stations : s # st => working'[s] = working[s],
         st \in online' => working'[st] = working[st] /\ (working[st] # v \/ v \notin vapOn),
         \A s \in Stations : s # st /\ stationMap[StaMac[s]] = s /\ working[s] = v
                              => Doubled(s)
  PROVE  OnlineOnItsVap'
  <1>1. ASSUME NEW n \in StaMacs, stationMap[n] \in online'
        PROVE  /\ stationMap[n] \in online
               /\ working'[stationMap[n]] = working[stationMap[n]]
               /\ working[stationMap[n]] \in vapOn =>
                    working[stationMap[n]] \in vapOn' \/ Doubled(stationMap[n])
    <2>1. PICK s \in Stations : s = stationMap[n]
      BY <1>1, NullAssumption DEF ViewOK
    <2>2. s \in online /\ StaMac[s] = n /\ s \in online'
      BY <1>1, <2>1, NullAssumption DEF ViewOK, KnownIsOwn
    <2>3. CASE s = st
      BY <2>1, <2>2, <2>3
    <2>4. CASE s # st
      <3>1. working[s] = v => Doubled(s)
        BY <2>1, <2>2, <2>4
      <3> QED BY <2>1, <2>2, <2>4, <3>1
    <2> QED BY <2>3, <2>4
  <1> QED BY <1>1, OnlineStays

(* DEL_STA. *)
LEMMA DelStaStep ==
  ASSUME ViewOK, WorkOK, NEW a \in Agents, DelSta(a)
  PROVE  ViewOK' /\ WorkOK'
  <1> DEFINE msg == Head(inbox[a])
             st == stationMap[msg.sta]
             v == StaVap(st, a, msg.ssid)
  <1>1. /\ inbox' \in [Agents -> Seq(Msgs)]
        /\ msg.sta \in StaMacs /\ msg.ssid \in Ssids
    BY TakeFacts, MsgFields DEF DelSta, WorkOK
  <1>2. hand' \in [Agents -> Handlers] /\ HandIsMade'
    BY HandStays DEF DelSta
  <1>3. WorkOK'
    BY <1>1, <1>2 DEF DelSta, WorkOK, apState
  <1>4. UNCHANGED <<stationMap, made, staVaps, agVaps, seen>>
    BY DEF DelSta
  <1>5. CASE UNCHANGED <<online, working, vapOn>>
    BY <1>3, <1>4, <1>5, ViewSame DEF view
  <1>6. ASSUME st # NULL, v # NULL, vapOn' = vapOn \ {v},
               IF working[st] = v
               THEN online' = online \ {st} /\ working' = [working EXCEPT ![st] = NULL]
               ELSE UNCHANGED <<online, working>>
        PROVE  ViewOK'
    <2>1. st \in Stations /\ StaMac[st] = msg.sta
      BY <1>1, <1>6 DEF ViewOK, KnownIsOwn
    <2>2. v \in Vaps /\ StaMac[v.station] = StaMac[st]
      BY <1>1, <1>6, <2>1, StaVapFacts DEF ViewOK
    <2> HIDE DEF v
    <2>3. /\ working' \in [Stations -> Vaps \cup {NULL}]
          /\ \A s \in Stations : s # st => working'[s] = working[s]
          /\ \A s \in Stations : working'[s] # NULL => working'[s] = working[s]
      BY <1>6, <2>1 DEF ViewOK
    <2>4. WorkingIsOwn'
      BY <2>3 DEF ViewOK, WorkingIsOwn
    <2>5. /\ online' \subseteq online
          /\ st \in online' => working'[st] = working[st] /\ working[st] # v
      BY <1>6
    <2>6. ASSUME NEW s \in Stations, s # st, stationMap[StaMac[s]] = s
          PROVE  working[s] # v
      <3>1. StaMac[s] # StaMac[st]
        BY <2>1, <2>6
      <3> QED BY <2>2, <2>6, <3>1, VapFields DEF ViewOK, WorkingIsOwn
    <2>7. OnlineOnItsVap'
      <3> HIDE DEF st
      <3> QED BY <1>4, <1>6, <2>1, <2>3, <2>5, <2>6, VapDown
    <2> QED BY <1>4, <1>6, <2>3, <2>4, <2>5, <2>7 DEF ViewOK, KnownIsOwn
  <1> QED BY <1>3, <1>5, <1>6 DEF DelSta

(* OK of DEL_VAP, the ends by an exception included. *)
LEMMA OkDelStep ==
  ASSUME ViewOK, WorkOK, StaleOK, NEW a \in Agents, OkDel(a)
  PROVE  ViewOK' /\ WorkOK'
  <1> DEFINE st == hand[a].station
             ssid == hand[a].ssid
             v == StaVap(st, a, ssid)
  <1>1. st \in Stations /\ ssid \in Ssids /\ st \in made /\ a \in seen
    BY HandlerFields DEF OkDel, WorkOK, HandIsMade, StaleOK, HandIsSeen
  <1>2. hand' \in [Agents -> Handlers] /\ HandIsMade'
    BY HandMoves, HandRecords DEF OkDel
  <1>3. WorkOK'
    BY <1>2 DEF OkDel, WorkOK, apState
  <1>4. UNCHANGED <<stationMap, made, seen>> /\ hand[a].step = "deleted"
    BY DEF OkDel
  <1>5. CASE UNCHANGED <<vapOn, online, working, staVaps, agVaps>>
    BY <1>3, <1>4, <1>5, ViewSame DEF view
  <1>6. ASSUME v # NULL, vapOn' = vapOn \ {v},
               online' = IF v \in vapOn THEN online \ {st} ELSE online,
               working' = IF v \in vapOn /\ working[st] = v
                          THEN [working EXCEPT ![st] = NULL] ELSE working,
               \/ UNCHANGED <<staVaps, agVaps>>
               \/ /\ staVaps' = DropSta(st, {v})
                  /\ agVaps' = [agVaps EXCEPT ![a][AgKey(v)] = NULL]
        PROVE  ViewOK'
    <2>1. v \in Vaps /\ StaMac[v.station] = StaMac[st] /\ ApMac[v.agent] = ApMac[a]
      BY <1>1, <1>6, StaVapFacts DEF ViewOK
    <2>2. ASSUME NEW s \in Stations, s # st, stationMap[StaMac[s]] = s, working[s] = v
          PROVE  Doubled(s)
      <3>1. StaMac[s] = StaMac[st] /\ v # NULL /\ v.agent \in Agents
        BY <2>1, <2>2, VapFields DEF ViewOK, WorkingIsOwn
      <3>2. \E b \in seen \ {v.agent} : ApMac[b] = ApMac[v.agent]
        <4>1. CASE v.agent # a
          BY <1>1, <2>1, <4>1
        <4>2. CASE v.agent = a
          <5>1. stationMap[StaMac[hand[a].station]] = s /\ s # hand[a].station
            BY <2>2, <3>1
          <5>2. s # NULL
            BY NullAssumption
          <5> HIDE DEF v, st
          <5>3. Reconnected(a)
            BY <1>4, <2>2, <3>1, <4>2, <5>1, <5>2 DEF StaleOK, ReplacedIsElsewhere
          <5> QED BY <4>2, <5>3 DEF Reconnected
        <4> QED BY <4>1, <4>2
      <3> HIDE DEF v, st
      <3> QED BY <1>1, <2>2, <3>1, <3>2 DEF Doubled
    <2> HIDE DEF v
    <2>3. /\ working' \in [Stations -> Vaps \cup {NULL}]
          /\ \A s \in Stations : s # st => working'[s] = working[s]
          /\ \A s \in Stations : working'[s] # NULL => working'[s] = working[s]
      BY <1>1, <1>6 DEF ViewOK
    <2>4. WorkingIsOwn'
      BY <2>3 DEF ViewOK, WorkingIsOwn
    <2>5. /\ online' \subseteq online
          /\ st \in online' => working'[st] = working[st] /\ v \notin vapOn
      BY <1>6
    <2>6. OnlineOnItsVap'
      <3> HIDE DEF st
      <3> QED BY <1>1, <1>4, <1>6, <2>2, <2>3, <2>5, VapDown
    <2>7. StaMapOK(staVaps')
      BY <1>1, <1>6, DropStaOK DEF ViewOK
    <2>8. AgMapOK(agVaps')
      BY <1>6, <2>1, DelAgOK DEF ViewOK
    <2> QED BY <1>4, <1>6, <2>3, <2>4, <2>5, <2>6, <2>7, <2>8 DEF ViewOK, KnownIsOwn
  <1> QED BY <1>3, <1>5, <1>6 DEF OkDel

(* excuteAddVap under the lock: a new vap is offline and nobody works on it. *)
LEMMA AddLockedStep ==
  ASSUME ViewOK, WorkOK, NEW x \in adding, AddLocked(x)
  PROVE  ViewOK' /\ WorkOK'
  <1> DEFINE type == IF x.kind = "force" THEN "ROAM" ELSE "ADD"
             c == Cmd(type, x.agent, x.station, x.ssid, x.from)
  <1>1. /\ x.agent \in Agents /\ x.station \in Stations /\ x.ssid \in Ssids
        /\ x.from \in ApMacs
    BY CallFields DEF WorkOK
  <1>2. hand' \in [Agents -> Handlers] /\ HandIsMade'
    BY HandStays DEF AddLocked
  <1>3. UNCHANGED <<stationMap, made, online, working, seen>>
    BY DEF AddLocked
  <1>4. CASE UNCHANGED <<agVaps, staVaps, vapOn, cmds>>
    <2>1. ViewOK'
      BY <1>3, <1>4, ViewSame DEF view
    <2> QED BY <1>2, <1>4, <2>1 DEF AddLocked, WorkOK, apState
  <1>5. ASSUME NEW v \in Fresh(x.agent, x.station, x.ssid), agVaps' = PutAg(x.agent, v),
               staVaps' = PutSta(x.station, v), vapOn' = vapOn \ {v}, Execute({c})
        PROVE  ViewOK' /\ WorkOK'
    <2>1. /\ v \in Vaps /\ v.agent = x.agent /\ v.station = x.station
          /\ \A s \in Stations : working[s] # v
      BY <1>5, FreshFacts
    <2>2. StaMapOK(staVaps') /\ AgMapOK(agVaps')
      BY <1>1, <1>5, <2>1, PutStaOK, PutAgOK DEF ViewOK
    <2>3. OnlineOnItsVap'
      <3>1. ASSUME NEW m \in StaMacs, stationMap[m] \in online
            PROVE  working[stationMap[m]] \in vapOn => working[stationMap[m]] \in vapOn'
        BY <1>5, <2>1, <3>1, NullAssumption DEF ViewOK
      <3> QED BY <1>3, <3>1, OnlineStays DEF AddLocked
    <2>4. ViewOK'
      BY <1>3, <1>5, <2>2, <2>3 DEF ViewOK, KnownIsOwn, WorkingIsOwn
    <2>5. BagToSet(cmds') \subseteq Cmds
      <3>1. {c} \in SUBSET Cmds
        BY <1>1, CmdType
      <3> HIDE DEF c
      <3> QED BY <1>5, <3>1, ExecuteType DEF WorkOK
    <2> QED BY <1>2, <2>4, <2>5 DEF AddLocked, WorkOK, apState
  <1> QED BY <1>4, <1>5 DEF AddLocked

(* AgeTask, a silent station. *)
LEMMA AgeStationStep ==
  ASSUME ViewOK, WorkOK, NEW st \in Stations, AgeStation(st)
  PROVE  ViewOK' /\ WorkOK'
  <1> DEFINE V == {v \in VapsOf(st) : v.station = st}
  <1>1. hand' \in [Agents -> Handlers] /\ HandIsMade'
    BY HandStays DEF AgeStation
  <1>2. /\ UNCHANGED <<made, online, working>> /\ vapOn' = vapOn \cap Referenced'
        /\ \/ /\ Execute(DelCmds("DEL", st, V)) /\ stationMap' = stationMap
              /\ staVaps' = DropSta(st, V) /\ agVaps' = DropAg(V)
           \/ /\ stationMap' = [stationMap EXCEPT ![StaMac[st]] = NULL]
              /\ UNCHANGED <<cmds, staVaps, agVaps>>
    BY DEF AgeStation
  <1>3. V \in SUBSET Vaps
    BY VapsOfType DEF ViewOK
  <1> HIDE DEF V
  <1>4. StaMapOK(staVaps') /\ AgMapOK(agVaps')
    BY <1>2, DropStaOK, DropAgOK DEF ViewOK
  <1>5. /\ stationMap' \in [StaMacs -> Stations \cup {NULL}]
        /\ \A m \in StaMacs : stationMap'[m] # NULL => stationMap'[m] = stationMap[m]
    BY <1>2, StaAssumption DEF ViewOK
  <1>6. KnownIsOwn'
    BY <1>2, <1>5 DEF ViewOK, KnownIsOwn
  <1>7. OnlineOnItsVap'
    <2>1. ASSUME NEW m \in StaMacs, stationMap'[m] \in online'
          PROVE  /\ stationMap'[m] = stationMap[m]
                 /\ working[stationMap[m]] \in vapOn => working[stationMap[m]] \in vapOn'
      <3>1. stationMap'[m] \in Stations /\ stationMap'[m] = stationMap[m]
        BY <1>2, <1>5, <2>1, NullAssumption DEF ViewOK
      <3> QED BY <1>2, <3>1, ReferencedWorking
    <2> QED BY <1>2, <2>1, OnlineStays DEF AgeStation
  <1>8. ViewOK'
    BY <1>2, <1>4, <1>5, <1>6, <1>7 DEF ViewOK, WorkingIsOwn
  <1>9. BagToSet(cmds') \subseteq Cmds
    <2>1. DelCmds("DEL", st, V) \in SUBSET Cmds
      BY <1>3, DelCmdsType
    <2> QED BY <1>2, <2>1, ExecuteType DEF WorkOK
  <1> QED BY <1>1, <1>8, <1>9 DEF AgeStation, WorkOK, apState

(* AgeTask, a silent vap. *)
LEMMA AgeVapStep ==
  ASSUME ViewOK, WorkOK, NEW st \in Stations, NEW v \in VapsOf(st), AgeVap(st, v)
  PROVE  ViewOK' /\ WorkOK'
  <1>1. hand' \in [Agents -> Handlers] /\ HandIsMade'
    BY HandStays DEF AgeVap
  <1>2. {v} \in SUBSET Vaps
    BY VapsOfType DEF ViewOK
  <1>3. StaMapOK(staVaps') /\ AgMapOK(agVaps')
    BY DropStaOK, DropAgOK DEF AgeVap, ViewOK
  <1>4. ViewOK'
    BY <1>3 DEF AgeVap, ViewOK, KnownIsOwn, WorkingIsOwn, OnlineOnItsVap, Doubled
  <1>5. BagToSet(cmds') \subseteq Cmds
    <2>1. DelCmds("DEL", st, {v}) \in SUBSET Cmds /\ Execute(DelCmds("DEL", st, {v}))
      BY <1>2, DelCmdsType DEF AgeVap
    <2> QED BY <2>1, ExecuteType DEF WorkOK
  <1> QED BY <1>1, <1>4, <1>5 DEF AgeVap, WorkOK, apState
--------------------------------------------------------------------------------
(* Objects that have been replaced. *)

(* A step keeps StaleOK if it starts to work on DEL_VAP answers only for    *)
(* stations in the map, adds only stations just constructed to the map, and *)
(* gives stations only vaps that no such answer can hurt.                   *)
LEMMA StaleStays ==
  ASSUME ViewOK, WorkOK, StaleOK, made \subseteq made', seen \subseteq seen',
         \A a \in Agents : hand'[a].step # "idle" => a \in seen',
         \A a \in Agents : hand'[a].step = "deleted" =>
            \/ hand'[a] = hand[a]
            \/ stationMap'[StaMac[hand'[a].station]] = hand'[a].station,
         \A m \in StaMacs : stationMap'[m] \in {NULL, stationMap[m]} \cup (Stations \ made),
         \A st \in Stations :
            \/ working'[st] \in {NULL, working[st]}
            \/ /\ st \in made'
               /\ \A a \in Agents : hand'[a].step = "deleted" =>
                    working'[st].agent # a \/ Reconnected(a)'
  PROVE  StaleOK'
  <1>1. UnmadeRests'
    BY DEF StaleOK, UnmadeRests
  <1>2. ASSUME NEW a \in Agents, hand'[a].step = "deleted",
               NEW st, st = stationMap'[StaMac[hand'[a].station]],
               st \notin {NULL, hand'[a].station}, working'[st] # NULL
        PROVE  working'[st].agent # a \/ Reconnected(a)'
    <2>1. hand'[a] = hand[a] /\ hand[a].station \in Stations
      BY <1>2, HandlerFields DEF WorkOK
    <2> DEFINE m == StaMac[hand[a].station]
    <2>2. m \in StaMacs /\ st = stationMap'[m]
      BY <1>2, <2>1, StaAssumption
    <2>3. st \in {stationMap[m]} \cup (Stations \ made) /\ st \in Stations
      BY <1>2, <2>2 DEF ViewOK
    <2>4. CASE working'[st] # working[st]
      BY <1>2, <2>3, <2>4
    <2>5. CASE working'[st] = working[st]
      <3>1. st = stationMap[m]
        BY <1>2, <2>3, <2>5 DEF StaleOK, UnmadeRests
      <3>2. working[st].agent # a \/ Reconnected(a)
        BY <1>2, <2>1, <2>5, <3>1 DEF StaleOK, ReplacedIsElsewhere
      <3> QED BY <2>5, <3>2 DEF Reconnected
    <2> QED BY <2>4, <2>5
  <1>3. ReplacedIsElsewhere'
    BY <1>2 DEF ReplacedIsElsewhere
  <1> QED BY <1>1, <1>3 DEF StaleOK, HandIsSeen

(* The handler of one connection gives a station another vap: one of its    *)
(* own, or one of an earlier connection of its radio.                       *)
LEMMA StaleWorkOn ==
  ASSUME ViewOK, WorkOK, StaleOK, NEW a \in Agents, NEW st \in Stations,
         a \in seen, seen' = seen, made \subseteq made', st \in made',
         NEW h, hand' = [hand EXCEPT ![a] = h], h.step # "deleted",
         \A m \in StaMacs : stationMap'[m] \in {NULL, stationMap[m]} \cup (Stations \ made),
         \/ working' = working
         \/ \E v : /\ working' = [working EXCEPT ![st] = v] /\ v.agent \in Agents
                   /\ ApMac[v.agent] = ApMac[a]
  PROVE  StaleOK'
  <1>1. \A b \in Agents : b # a => hand'[b] = hand[b]
    BY DEF WorkOK
  <1>2. hand'[a] = h
    BY DEF WorkOK
  <1>3. \A b \in Agents : hand'[b].step # "idle" => b \in seen'
    BY <1>1 DEF StaleOK, HandIsSeen
  <1>4. ASSUME NEW s \in Stations
        PROVE  \/ working'[s] \in {NULL, working[s]}
               \/ /\ s \in made'
                  /\ \A b \in Agents : hand'[b].step = "deleted" =>
                       working'[s].agent # b \/ Reconnected(b)'
    <2>1. CASE working' = working
      BY <2>1
    <2>2. ASSUME NEW v, working' = [working EXCEPT ![st] = v], v.agent \in Agents,
                 ApMac[v.agent] = ApMac[a], s = st
          PROVE  /\ s \in made'
                 /\ \A b \in Agents : hand'[b].step = "deleted" =>
                      working'[s].agent # b \/ Reconnected(b)'
      <3>1. working'[s] = v
        BY <2>2 DEF ViewOK
      <3>2. ASSUME NEW b \in Agents, hand'[b].step = "deleted", v.agent = b
            PROVE  Reconnected(b)'
        <4>1. b # a
          BY <1>2, <3>2
        <4> QED BY <2>2, <3>2, <4>1 DEF Reconnected
      <3> QED BY <2>2, <3>1, <3>2
    <2>3. ASSUME NEW v, working' = [working EXCEPT ![st] = v], s # st
          PROVE  working'[s] = working[s]
      BY <2>3 DEF ViewOK
    <2> QED BY <2>1, <2>2, <2>3
  <1> QED BY <1>1, <1>2, <1>3, <1>4, StaleStays

(* A step that gives no station a vap and adds no station to the map. *)
LEMMA StaleSame ==
  ASSUME ViewOK, WorkOK, StaleOK, made \subseteq made', seen \subseteq seen',
         \A m \in StaMacs : stationMap'[m] \in {NULL, stationMap[m]} \cup (Stations \ made),
         \A st \in Stations : working'[st] \in {NULL, working[st]},
         \/ hand' = hand
         \/ \E a \in Agents : \E h : /\ hand' = [hand EXCEPT ![a] = h]
                                     /\ h.step # "idle" => a \in seen'
                                     /\ h.step # "deleted"
  PROVE  StaleOK'
  <1>1. CASE hand' = hand
    BY <1>1, StaleStays DEF StaleOK, HandIsSeen
  <1>2. ASSUME NEW a \in Agents, NEW h, hand' = [hand EXCEPT ![a] = h],
               h.step # "idle" => a \in seen', h.step # "deleted"
        PROVE  StaleOK'
    <2>1. hand'[a] = h /\ \A b \in Agents : b # a => hand'[b] = hand[b]
      BY <1>2 DEF WorkOK
    <2>2. \A b \in Agents : hand'[b].step # "idle" => b \in seen'
      BY <1>2, <2>1 DEF StaleOK, HandIsSeen
    <2> QED BY <1>2, <2>1, <2>2, StaleStays
  <1> QED BY <1>1, <1>2

(* NEW_STA under the lock. *)
LEMMA StaleNewSta ==
  ASSUME ViewOK, WorkOK, StaleOK, NEW a \in Agents,
         NewStaOnline(a) \/ NewStaOffline(a) \/ NewStaUnlinked(a)
  PROVE  StaleOK'
  <1> DEFINE st == hand[a].station
             ssid == hand[a].ssid
             h == [step |-> "purge", station |-> st, ssid |-> ssid]
  <1>1. /\ stationMap' = stationMap /\ made' = made /\ seen' = seen
        /\ hand[a].step \in {"linked", "unlinked"}
        /\ hand' = Purge(a) \/ hand' = [hand EXCEPT ![a] = Idle]
    BY DEF NewStaOnline, NewStaOffline, NewStaUnlinked
  <1>2. st \in Stations /\ st \in made /\ ssid \in Ssids /\ a \in seen
    BY <1>1, PurgeMoves DEF StaleOK, HandIsSeen
  <1>3. /\ hand' = [hand EXCEPT ![a] = h] \/ hand' = [hand EXCEPT ![a] = Idle]
        /\ h.step # "deleted" /\ Idle.step # "deleted"
    BY <1>1 DEF Purge, Idle
  <1>4. \/ working' = working
        \/ \E v : /\ working' = [working EXCEPT ![st] = v] /\ v.agent \in Agents
                  /\ ApMac[v.agent] = ApMac[a]
    <2>1. ASSUME NEW v \in Fresh(a, st, ssid)
          PROVE  v.agent \in Agents /\ ApMac[v.agent] = ApMac[a]
      BY <2>1, FreshFacts
    <2>2. ASSUME StaVap(st, a, ssid) # NULL
          PROVE  /\ StaVap(st, a, ssid).agent \in Agents
                 /\ ApMac[StaVap(st, a, ssid).agent] = ApMac[a]
      BY <1>2, <2>2, StaVapFacts, VapFields DEF ViewOK
    <2>3. ASSUME AgVap(a, st, ssid) # NULL
          PROVE  /\ AgVap(a, st, ssid).agent \in Agents
                 /\ ApMac[AgVap(a, st, ssid).agent] = ApMac[a]
      BY <1>2, <2>3, AgVapFacts DEF ViewOK
    <2>4. CASE NewStaOnline(a)
      BY <2>1, <2>2, <2>4 DEF NewStaOnline
    <2>5. CASE NewStaOffline(a)
      <3>1. CASE StaVap(st, a, ssid) # NULL
        BY <2>2, <2>5, <3>1 DEF NewStaOffline
      <3>2. CASE StaVap(st, a, ssid) = NULL
        BY <2>1, <2>5, <3>2 DEF NewStaOffline
      <3> QED BY <3>1, <3>2
    <2>6. CASE NewStaUnlinked(a)
      <3>1. CASE AgVap(a, st, ssid) # NULL
        BY <2>3, <2>6, <3>1 DEF NewStaUnlinked
      <3>2. CASE AgVap(a, st, ssid) = NULL
        BY <2>1, <2>6, <3>2 DEF NewStaUnlinked
      <3> QED BY <3>1, <3>2
    <2> QED BY <2>4, <2>5, <2>6
  <1> HIDE DEF st, h
  <1>5. \A m \in StaMacs : stationMap'[m] \in {NULL, stationMap[m]} \cup (Stations \ made)
    BY <1>1
  <1>6. PICK k : hand' = [hand EXCEPT ![a] = k] /\ k.step # "deleted"
    BY <1>3
  <1>7. seen' = seen /\ made \subseteq made' /\ st \in made'
    BY <1>1, <1>2
  <1> QED BY <1>2, <1>4, <1>5, <1>6, <1>7, StaleWorkOn

(* A station is put into the map. *)
LEMMA StaleCreate ==
  ASSUME ViewOK, WorkOK, StaleOK, NEW a \in Agents, NEW st \in Stations,
         ProbeCreate(a, st) \/ NewStaCreate(a, st)
  PROVE  StaleOK'
  <1>1. /\ made' = made \cup {st} /\ st \notin made /\ seen' = seen
        /\ hand[a].step \in {"probe", "create"} /\ hand[a].sta = StaMac[st]
        /\ stationMap' = [stationMap EXCEPT ![StaMac[st]] = st]
    BY DEF ProbeCreate, NewStaCreate
  <1>2. a \in seen /\ StaMac[st] \in StaMacs
    BY <1>1, StaAssumption DEF StaleOK, HandIsSeen
  <1>3. \A m \in StaMacs : stationMap'[m] \in {NULL, stationMap[m]} \cup (Stations \ made)
    BY <1>1, <1>2 DEF ViewOK
  <1>4. CASE ProbeCreate(a, st)
    <2>1. hand' = [hand EXCEPT ![a] = Idle] /\ Idle.step # "deleted" /\ working' = working
      BY <1>4 DEF ProbeCreate, Idle
    <2> QED BY <1>1, <1>2, <1>3, <2>1, StaleWorkOn
  <1>5. CASE NewStaCreate(a, st)
    <2> DEFINE h == [step |-> "unlinked", station |-> st, ssid |-> hand[a].ssid]
    <2>1. hand' = [hand EXCEPT ![a] = h] /\ h.step # "deleted"
      BY <1>5 DEF NewStaCreate
    <2>2. \E v : /\ working' = [working EXCEPT ![st] = v] /\ v.agent \in Agents
                /\ ApMac[v.agent] = ApMac[a]
      <3>1. PICK v \in Fresh(a, st, hand[a].ssid) : working' = [working EXCEPT ![st] = v]
        BY <1>5 DEF NewStaCreate
      <3>2. v.agent = a
        BY <3>1, FreshFacts
      <3> QED BY <3>1, <3>2
    <2> HIDE DEF h
    <2> QED BY <1>1, <1>2, <1>3, <2>1, <2>2, StaleWorkOn
  <1> QED BY <1>4, <1>5

(* OK of DEL_VAP, the test without a lock: the station is in the map. *)
LEMMA StaleOkDelTest ==
  ASSUME ViewOK, WorkOK, StaleOK, NEW a \in Agents, OkDelTest(a)
  PROVE  StaleOK'
  <1> DEFINE c == Head(inbox[a]).cmd
             st == stationMap[c.sta]
             h == [step |-> "deleted", station |-> st, ssid |-> c.ssid]
  <1>1. c.sta \in StaMacs /\ a \in seen
    <2>1. c \in Cmds
      BY TakeFacts, MsgFields DEF OkDelTest, WorkOK
    <2> QED BY <2>1, CmdFields DEF OkDelTest, Take, WorkOK
  <1>2. UNCHANGED <<stationMap, made, seen, working>>
    BY DEF OkDelTest, view
  <1>3. CASE st = NULL
    BY <1>2, <1>3, StaleSame DEF OkDelTest
  <1>4. CASE st # NULL
    <2>1. /\ hand' = [hand EXCEPT ![a] = h] /\ h.station = st
          /\ stationMap[StaMac[st]] = st
      BY <1>1, <1>4 DEF OkDelTest, ViewOK, KnownIsOwn
    <2> HIDE DEF h, st
    <2>2. hand'[a] = h /\ \A b \in Agents : b # a => hand'[b] = hand[b]
      BY <2>1 DEF WorkOK
    <2>3. \A b \in Agents : hand'[b].step # "idle" => b \in seen'
      BY <1>1, <1>2, <2>2 DEF StaleOK, HandIsSeen
    <2> QED BY <1>2, <2>1, <2>2, <2>3, StaleStays
  <1> QED BY <1>3, <1>4

(* What the rest of a connection's handlers do. *)
LEMMA StaleHandle ==
  ASSUME ViewOK, WorkOK, StaleOK, NEW a \in Agents, Handle(a)
  PROVE  StaleOK'
  <1>1. Idle.step = "idle"
    BY DEF Idle
  <1>2. CASE NewStaTest(a)
    <2>1. UNCHANGED <<stationMap, made, seen, working>> /\ a \in seen
      BY <1>2 DEF NewStaTest, Take, WorkOK, view
    <2>2. \E h : hand' = [hand EXCEPT ![a] = h] /\ h.step # "deleted"
      <3> DEFINE msg == Head(inbox[a])
                 st == stationMap[msg.sta]
                 h == IF st = NULL
                      THEN [step |-> "create", sta |-> msg.sta, ssid |-> msg.ssid]
                      ELSE [step |-> IF a \in AgentSet(st) /\ st \in StationSet(a)
                                     THEN "linked" ELSE "unlinked",
                            station |-> st, ssid |-> msg.ssid]
      <3>1. hand' = [hand EXCEPT ![a] = h]
        BY <1>2 DEF NewStaTest
      <3>2. h.step # "deleted"
        OBVIOUS
      <3> HIDE DEF h
      <3> QED BY <3>1, <3>2
    <2> QED BY <2>1, <2>2, StaleSame
  <1>3. CASE NewStaPurge(a) \/ OkDel(a)
    <2>1. UNCHANGED <<stationMap, made, seen>> /\ hand' = [hand EXCEPT ![a] = Idle]
      BY <1>3 DEF NewStaPurge, OkDel, view
    <2>2. \A st \in Stations : working'[st] \in {NULL, working[st]}
      BY <1>3 DEF NewStaPurge, OkDel, view, ViewOK
    <2> QED BY <1>1, <2>1, <2>2, StaleSame
  <1>4. CASE \/ DelSta(a) \/ OkNothing(a) \/ OkRoam(a) \/ Err(a) \/ AnswerUnmatched(a)
    <2>1. UNCHANGED <<stationMap, made, seen, hand>>
      BY <1>4 DEF DelSta, OkNothing, OkRoam, Err, AnswerUnmatched, view
    <2>2. \A st \in Stations : working'[st] \in {NULL, working[st]}
      BY <1>4 DEF DelSta, OkNothing, OkRoam, Err, AnswerUnmatched, view, ViewOK
    <2> QED BY <2>1, <2>2, StaleSame
  <1> QED BY <1>2, <1>3, <1>4, StaleNewSta, StaleCreate, StaleOkDelTest DEF Handle

(* Every step keeps it. *)
LEMMA StaleNext ==
  ASSUME ViewOK, WorkOK, StaleOK, Next
  PROVE  StaleOK'
  <1>1. ASSUME NEW a \in Agents, NEW m \in StaMacs, ProbeTest(a, m) PROVE StaleOK'
    <2> DEFINE h == [step |-> "probe", sta |-> m]
    <2>1. /\ UNCHANGED <<stationMap, made, seen, working>> /\ a \in seen
          /\ hand' = [hand EXCEPT ![a] = h] /\ h.step # "deleted"
      BY <1>1 DEF ProbeTest, WorkOK, view
    <2> HIDE DEF h
    <2> QED BY <2>1, StaleSame
  <1>2. ASSUME UNCHANGED hand, made' = made, seen \subseteq seen',
               \A m \in StaMacs : stationMap'[m] \in {NULL, stationMap[m]},
               \A st \in Stations : working'[st] \in {NULL, working[st]}
        PROVE  StaleOK'
    BY <1>2, StaleSame
  <1>3. ASSUME NEW a \in Agents, Connect(a) \/ Reset(a) PROVE StaleOK'
    <2>1. CASE Connect(a)
      BY <1>2, <2>1 DEF Connect, view
    <2>2. CASE Reset(a)
      BY <1>2, <2>2 DEF Reset
    <2> QED BY <1>3, <2>1, <2>2
  <1>4. ASSUME NEW a \in Agents, NEW m \in StaMacs, NEW ssid \in Ssids,
               Join(a, m, ssid) \/ Leave(a, m, ssid) PROVE StaleOK'
    BY <1>2, <1>4 DEF Join, Leave, view
  <1>5. ASSUME NEW kind, NEW a \in Agents, NEW st \in Stations, NEW ssid \in Ssids,
               AddCheck(kind, a, st, ssid) PROVE StaleOK'
    BY <1>2, <1>5 DEF AddCheck, view
  <1>6. ASSUME NEW x \in adding, AddLocked(x) PROVE StaleOK'
    BY <1>2, <1>6 DEF AddLocked
  <1>7. ASSUME NEW c, RunCmd(c) PROVE StaleOK'
    BY <1>2, <1>7 DEF RunCmd, view
  <1>8. ASSUME NEW st \in Stations, AppOffline(st) PROVE StaleOK'
    BY <1>2, <1>8 DEF AppOffline, view
  <1>9. ASSUME NEW st \in Stations, AgeStation(st) PROVE StaleOK'
    <2>1. /\ UNCHANGED <<hand, made, seen, working>>
          /\ \/ stationMap' = stationMap
             \/ stationMap' = [stationMap EXCEPT ![StaMac[st]] = NULL]
      BY <1>9 DEF AgeStation
    <2>2. \A m \in StaMacs : stationMap'[m] \in {NULL, stationMap[m]}
      BY <2>1 DEF ViewOK
    <2> QED BY <1>2, <2>1, <2>2
  <1>10. ASSUME NEW st \in Stations, NEW v \in VapsOf(st), AgeVap(st, v) PROVE StaleOK'
    BY <1>2, <1>10 DEF AgeVap
  <1> QED BY <1>1, <1>3, <1>4, <1>5, <1>6, <1>7, <1>8, <1>9, <1>10, StaleHandle DEF Next
--------------------------------------------------------------------------------
(* Every step keeps the invariant. *)
LEMMA NextIInv == IInv /\ [Next]_vars => IInv'
  <1> SUFFICES ASSUME ViewOK, WorkOK, StaleOK, [Next]_vars
               PROVE  ViewOK' /\ WorkOK' /\ StaleOK'
    BY Halves, HalvesPrime
  <1>1. CASE UNCHANGED vars
    <2>1. ViewOK'
      BY <1>1, ViewSame DEF vars
    <2>2. hand' \in [Agents -> Handlers] /\ HandIsMade'
      BY <1>1, HandStays DEF vars, view
    <2>3. StaleOK'
      BY <1>1, StaleSame DEF vars, view
    <2> QED BY <1>1, <2>1, <2>2, <2>3 DEF vars, WorkOK, apState
  <1>2. ASSUME NEW a \in Agents, Handle(a) PROVE ViewOK' /\ WorkOK'
    BY <1>2, ProbeCreateStep, NewStaCreateStep, NewStaTestStep, NewStaOnlineStep,
       NewStaOfflineStep, NewStaUnlinkedStep, NewStaPurgeStep, DelStaStep,
       OkNothingStep, OkRoamStep, OkDelTestStep, OkDelStep, ErrStep, AnswerUnmatchedStep
       DEF Handle
  <1>3. CASE Next
    <2>1. ViewOK' /\ WorkOK'
      BY <1>2, <1>3, ConnectStep, ResetStep, ProbeTestStep, JoinStep, LeaveStep,
         AddCheckStep, AddLockedStep, RunCmdStep, AppOfflineStep, AgeStationStep, AgeVapStep
         DEF Next
    <2> QED BY <1>3, <2>1, StaleNext
  <1> QED BY <1>1, <1>3

(* The views, the handlers under way, the commands and the AP's table are   *)
(* well formed, for any number of radios, connections, terminals and SSIDs. *)
THEOREM TypeCorrect == Spec => []TypeOK
  <1>1. IInv => TypeOK
    BY DEF IInv
  <1> QED BY <1>1, InitIInv, NextIInv, PTL DEF Spec

(* Every vap is filed under the key that its removal will use, although     *)
(* Agent and Station objects of one MAC address replace each other while    *)
(* handlers still hold the old ones.                                        *)
THEOREM FiledCorrect == Spec => []FiledByOwner
  <1>1. IInv => FiledByOwner
    BY DEF IInv
  <1> QED BY <1>1, InitIInv, NextIInv, PTL DEF Spec

(* A station that the view shows online works on an online vap, whatever    *)
(* handlers, answers, resets and ageing tasks interleave.                   *)
THEOREM OnlineCorrect == Spec => []OnlineOnItsVap
  <1>1. IInv => OnlineOnItsVap
    BY DEF IInv
  <1> QED BY <1>1, InitIInv, NextIInv, PTL DEF Spec
================================================================================
