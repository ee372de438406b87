----------------------------- MODULE SessionsProofs -----------------------------
(***************************************************************************)
(* The safety of the session views, for every number of APs, connections,  *)
(* workers, pool threads, stations and messages.                           *)
(***************************************************************************)
EXTENDS Sessions, TLAPS

(* Which fields a thread has set at each point of its code. *)
Control ==
    \A t \in Threads :
        /\ pc[t] \in {"put", "close", "reset", "unmap", "unmapMac", "roam", "readSc", "add",
                     "writing"} => tgt[t] \in Sockets
        /\ pc[t] \in {"roam", "aging", "add"} => own[t] \in Stations
        /\ pc[t] \in {"register", "putBySc"} => own[t] \in Sockets

(* The places where a thread holds the monitor of a socket. *)
Holding == {"reset", "unmap", "unmapMac", "putBySc", "writing"}

(* A socket whose monitor is held is open, and the owner is closing its     *)
(* session, opening it, or writing.  A closer has already taken the socket  *)
(* out of socketMap, then clears the agent's sc field, then takes it out of *)
(* sc2AgentMap; a worker that registers the session found it tracked.       *)
Owner ==
    \A s \in Sockets : scLock[s] # None =>
        /\ sock[s] = "open"
        /\ \/ /\ pc[scLock[s]] \in {"reset", "unmap", "unmapMac"}
              /\ tgt[scLock[s]] = s
              /\ s \notin tracked
              /\ pc[scLock[s]] # "reset" => s \notin live
              /\ pc[scLock[s]] = "unmapMac" => s \notin sc2Agent
           \/ /\ pc[scLock[s]] = "putBySc"
              /\ own[scLock[s]] = s
              /\ s \in tracked \cap live
           \/ pc[scLock[s]] = "writing" /\ tgt[scLock[s]] = s

(* A thread between the two puts, or in a write, owns the socket. *)
Holds ==
    \A t \in Threads :
        /\ pc[t] = "putBySc" => scLock[own[t]] = t
        /\ pc[t] = "writing" => scLock[tgt[t]] = t

(* What the selector tracks is open; an agent whose sc field is set is      *)
(* known by its socket, or about to be.                                     *)
TrackedIsOpen ==
    /\ \A s \in tracked : sock[s] = "open"
    /\ \A s \in live :
          s \in sc2Agent \/ (scLock[s] # None /\ pc[scLock[s]] = "putBySc")

IInv ==
    /\ TypeOK /\ Control /\ Owner /\ Holds /\ TrackedIsOpen
    /\ RegisteredIsOpen /\ FoundByMacIsRegistered /\ ResetIsExclusive

(* The controller starts with the invariant. *)
LEMMA InitIInv == Init => IInv
<1> SUFFICES ASSUME Init PROVE IInv
  OBVIOUS
<1>1. TypeOK
  BY DEF Init, TypeOK, PCs
<1>2. Control /\ Owner /\ Holds /\ TrackedIsOpen /\ ResetIsExclusive
  BY DEF Init, Control, Owner, Holds, TrackedIsOpen, ResetIsExclusive
<1>3. RegisteredIsOpen /\ FoundByMacIsRegistered
  BY DEF Init, RegisteredIsOpen, FoundByMacIsRegistered
<1> QED
  BY <1>1, <1>2, <1>3 DEF IInv

(* Closed sessions are forgotten because what is remembered is open. *)
LEMMA InvImpliesForgotten == IInv => ClosedIsForgotten
<1> SUFFICES ASSUME IInv, NEW s \in Sockets, sock[s] = "closed"
             PROVE  s \notin tracked \cup sc2Agent \cup live \cup {agentMap[m] : m \in Macs}
  BY DEF ClosedIsForgotten
<1>1. s \notin tracked /\ s \notin sc2Agent
  BY DEF IInv, TrackedIsOpen, RegisteredIsOpen
<1>2. s \notin live
  BY <1>1 DEF IInv, TrackedIsOpen, Owner
<1>3. s \notin {agentMap[m] : m \in Macs}
  BY NoneAssumption DEF IInv, FoundByMacIsRegistered
<1> QED
  BY <1>1, <1>2, <1>3

(* A step that leaves the maps, the channels, their monitors and the        *)
(* threads that hold one alone has only its own thread to answer for.       *)
LEMMA FrameStep ==
    ASSUME IInv, TypeOK', Control',
           UNCHANGED <<sock, tracked, sc2Agent, agentMap, live, scLock>>,
           \A t \in Threads :
               \/ pc'[t] = pc[t] /\ tgt'[t] = tgt[t] /\ own'[t] = own[t]
               \/ pc[t] \notin Holding /\ pc'[t] \notin Holding
    PROVE  IInv'
<1> USE DEF Holding
<1>0. TypeOK
  BY DEF IInv
<1>1. Owner'
  BY <1>0 DEF IInv, Owner, TypeOK
<1>2. Holds'
  BY <1>0 DEF IInv, Holds
<1>3. TrackedIsOpen'
  BY <1>0 DEF IInv, TrackedIsOpen, Owner, TypeOK
<1>4. \A s \in Sockets : Changing(s) => Changing(s)'
  BY <1>0 DEF Changing, TypeOK
<1>5. RegisteredIsOpen' /\ FoundByMacIsRegistered'
  BY <1>0, <1>4, NoneAssumption DEF IInv, RegisteredIsOpen, FoundByMacIsRegistered, TypeOK
<1>6. ResetIsExclusive'
  BY DEF IInv, ResetIsExclusive
<1> QED
  BY <1>1, <1>2, <1>3, <1>5, <1>6 DEF IInv

(* What closeSocket does to its thread when it returns. *)
LEMMA ReturnTypes ==
    ASSUME TypeOK, NEW t \in Threads, Return(t)
    PROVE  /\ pc' \in [Threads -> PCs]
           /\ tgt' \in [Threads -> Sockets \cup {None}]
           /\ own' \in [Threads -> Sockets \cup Stations \cup {None}]
           /\ stLock' \in [Stations -> Threads \cup {None}]
           /\ tgt'[t] = None
           /\ pc'[t] \in {"register", "aging", "idle"}
           /\ pc'[t] = "register" => own'[t] \in Sockets
           /\ pc'[t] = "aging" => own'[t] \in Stations
           /\ \A u \in Threads \ {t} : pc'[u] = pc[u] /\ tgt'[u] = tgt[u] /\ own'[u] = own[u]
<1> USE DEF Return, Ages
<1>1. pc' \in [Threads -> PCs] /\ pc'[t] \in {"register", "aging", "idle"}
  BY DEF TypeOK, PCs
<1>2. tgt' \in [Threads -> Sockets \cup {None}] /\ tgt'[t] = None
  BY DEF TypeOK
<1>3. own' \in [Threads -> Sockets \cup Stations \cup {None}]
  BY DEF TypeOK
<1>4. stLock' \in [Stations -> Threads \cup {None}]
  BY DEF TypeOK
<1>5. /\ pc'[t] = "register" => own'[t] \in Sockets
      /\ pc'[t] = "aging" => own'[t] \in Stations
  BY DEF TypeOK
<1>6. \A u \in Threads \ {t} : pc'[u] = pc[u] /\ tgt'[u] = tgt[u] /\ own'[u] = own[u]
  BY DEF TypeOK
<1> QED
  BY <1>1, <1>2, <1>3, <1>4, <1>5, <1>6

(* What the invariant says of one socket, and of one thread. *)
SessionOK(s) ==
    /\ scLock[s] # None =>
          /\ sock[s] = "open"
          /\ \/ /\ pc[scLock[s]] \in {"reset", "unmap", "unmapMac"}
                /\ tgt[scLock[s]] = s
                /\ s \notin tracked
                /\ pc[scLock[s]] # "reset" => s \notin live
                /\ pc[scLock[s]] = "unmapMac" => s \notin sc2Agent
             \/ /\ pc[scLock[s]] = "putBySc"
                /\ own[scLock[s]] = s
                /\ s \in tracked \cap live
             \/ pc[scLock[s]] = "writing" /\ tgt[scLock[s]] = s
    /\ s \in tracked => sock[s] = "open"
    /\ s \in live =>
          s \in sc2Agent \/ (scLock[s] # None /\ pc[scLock[s]] = "putBySc")
    /\ s \in sc2Agent =>
          /\ sock[s] = "open"
          /\ ~ Changing(s) => s \in tracked /\ s \in live
    /\ \A m \in Macs : agentMap[m] = s =>
          /\ Mac[s] = m
          /\ sock[s] = "open"
          /\ ~ Changing(s) => s \in sc2Agent \cap live \cap tracked

ThreadOK(t) ==
    /\ pc[t] = "putBySc" => scLock[own[t]] = t
    /\ pc[t] = "writing" => scLock[tgt[t]] = t
    /\ pc[t] \in {"reset", "unmap", "unmapMac"} => scLock[tgt[t]] = t
    /\ pc[t] \in {"reset", "unmap"} => tgt[t] \in sc2Agent

(* They follow from the invariant. *)
LEMMA Local ==
    ASSUME IInv
    PROVE  (\A s \in Sockets : SessionOK(s)) /\ (\A t \in Threads : ThreadOK(t))
<1>1. ASSUME NEW s \in Sockets PROVE SessionOK(s)
  BY NoneAssumption DEF IInv, SessionOK, Owner, TrackedIsOpen, RegisteredIsOpen,
     FoundByMacIsRegistered
<1>2. ASSUME NEW t \in Threads PROVE ThreadOK(t)
  BY DEF IInv, ThreadOK, Holds, ResetIsExclusive
<1> QED
  BY <1>1, <1>2

(* A thread owns at most the one socket it works on, and only in the places *)
(* of Holding.                                                              *)
LEMMA OwnsOne ==
    ASSUME IInv, NEW t \in Threads, NEW s \in Sockets, scLock[s] = t
    PROVE  /\ pc[t] \in Holding
           /\ pc[t] = "putBySc" => own[t] = s
           /\ pc[t] # "putBySc" => tgt[t] = s
BY NoneAssumption DEF IInv, Owner, Holding, Threads

(* A step of one thread on one socket, which no other thread owns, has only *)
(* that thread and that socket to answer for.                               *)
LEMMA LocalStep ==
    ASSUME IInv, TypeOK', Control', NEW t \in Threads, NEW s \in Sockets,
           \A u \in Threads \ {t} : pc'[u] = pc[u] /\ tgt'[u] = tgt[u] /\ own'[u] = own[u],
           \A z \in Sockets \ {s} :
               /\ scLock[z] # t
               /\ scLock'[z] = scLock[z] /\ sock'[z] = sock[z]
               /\ z \in tracked' <=> z \in tracked
               /\ z \in sc2Agent' <=> z \in sc2Agent
               /\ z \in live' <=> z \in live
               /\ \A m \in Macs : agentMap'[m] = z => agentMap[m] = z,
           scLock[s] \in {None, t},
           SessionOK(s)', ThreadOK(t)'
    PROVE  IInv'
<1>0. TypeOK /\ Control
  BY DEF IInv
<1>1. ASSUME NEW z \in Sockets \ {s} PROVE SessionOK(z)'
  <2>1. SessionOK(z)
    BY Local
  <2>2. Changing(z)' <=> Changing(z)
    BY <1>0 DEF Changing, TypeOK
  <2> QED
    BY <1>0, <2>1, <2>2 DEF SessionOK, TypeOK
<1>2. ASSUME NEW u \in Threads \ {t} PROVE ThreadOK(u)'
  <2>1. ThreadOK(u)
    BY Local
  <2>2. u # None
    BY NoneAssumption DEF Threads
  <2> QED
    BY <1>0, <2>1, <2>2 DEF ThreadOK, Control
<1> DEFINE AllOK == (\A z \in Sockets : SessionOK(z)) /\ (\A u \in Threads : ThreadOK(u))
<1>3. AllOK'
  BY <1>1, <1>2
<1>4. Owner'
  BY <1>3 DEF SessionOK, Owner
<1>5. Holds' /\ ResetIsExclusive'
  BY <1>3 DEF ThreadOK, Holds, ResetIsExclusive
<1>6. TrackedIsOpen' /\ RegisteredIsOpen'
  BY <1>3 DEF SessionOK, TrackedIsOpen, RegisteredIsOpen, TypeOK
<1>7. FoundByMacIsRegistered'
  BY <1>3 DEF SessionOK, FoundByMacIsRegistered, TypeOK
<1> QED
  BY <1>4, <1>5, <1>6, <1>7 DEF IInv

(* What a worker takes from its queue. *)
LEMMA TakeTypes ==
    ASSUME TypeOK, NEW w \in Workers, NEW type, Take(w, type)
    PROVE  queue' \in [Workers -> Seq(Jobs)] /\ Head(queue[w]).sc \in Sockets
<1>1. PICK q \in Seq(Jobs) : q = queue[w]
  BY DEF TypeOK
<1>2. q # <<>> /\ queue' = [queue EXCEPT ![w] = Tail(q)]
  BY <1>1 DEF Take
<1>3. Tail(q) \in Seq(Jobs) /\ Head(q) \in Jobs
  BY <1>2
<1>4. Head(q).sc \in Sockets
  BY <1>3 DEF Jobs
<1> QED
  BY <1>1, <1>2, <1>3, <1>4 DEF TypeOK

(* A new channel is tracked. *)
LEMMA AcceptStep ==
    ASSUME IInv, NEW s \in Sockets, Accept(s)
    PROVE  IInv'
<1> USE DEF Accept, threadState, input
<1>0. TypeOK /\ Control
  BY DEF IInv
<1>t. Listener \in Threads /\ Listener # None
  BY NoneAssumption DEF Threads
<1>1. \A u \in Threads \ {Listener} : pc'[u] = pc[u] /\ tgt'[u] = tgt[u] /\ own'[u] = own[u]
  BY <1>t, <1>0 DEF TypeOK
<1>2. SessionOK(s) /\ ThreadOK(Listener)
  BY <1>t, Local
<1>3. /\ scLock[s] \in {None, Listener}
      /\ \A z \in Sockets \ {s} : scLock[z] # Listener
  BY <1>t, <1>0, <1>2, OwnsOne DEF SessionOK, ThreadOK, Holding
<1>4. \A z \in Sockets \ {s} :
         /\ scLock'[z] = scLock[z] /\ sock'[z] = sock[z]
         /\ z \in tracked' <=> z \in tracked
         /\ z \in sc2Agent' <=> z \in sc2Agent
         /\ z \in live' <=> z \in live
         /\ \A m \in Macs : agentMap'[m] = z => agentMap[m] = z
  BY <1>0, MacAssumption, NoneAssumption DEF TypeOK
<1>5. Control'
  BY <1>t, <1>0, <1>1, NoneAssumption DEF TypeOK, Control
<1>6. TypeOK'
  BY <1>t, <1>0, <1>5, MacAssumption DEF TypeOK, PCs, Control
<1>7. SessionOK(s)'
  BY <1>t, <1>0, <1>2, <1>3, MacAssumption DEF SessionOK, ThreadOK, Changing, TypeOK
<1>8. ThreadOK(Listener)'
  BY <1>t, <1>0, <1>2, <1>3 DEF ThreadOK, SessionOK, TypeOK
<1> QED
  BY <1>t, <1>1, <1>3, <1>4, <1>5, <1>6, <1>7, <1>8, LocalStep

(* The listener reads a message. *)
LEMMA ReadStep ==
    ASSUME IInv, NEW s \in Sockets, Read(s)
    PROVE  IInv'
<1> USE DEF Read, Job, Jobs, views
<1>0. TypeOK /\ Control
  BY DEF IInv
<1>1. Control'
  BY <1>0, ThreadAssumption, NoneAssumption DEF TypeOK, Control, Threads
<1>2. TypeOK'
  <2>1. PICK w \in Workers : w = WorkerOf[s]
    BY <1>0, QueueAssumption DEF Control
  <2>2. Job(s) \in Jobs
    BY <1>0 DEF Control, TypeOK
  <2>3. queue' \in [Workers -> Seq(Jobs)]
    <3>1. queue[w] \in Seq(Jobs)
      BY <1>0 DEF TypeOK
    <3>2. Append(queue[w], Job(s)) \in Seq(Jobs)
      BY <2>2, <3>1
    <3> HIDE DEF Job, Jobs
    <3> QED
      BY <1>0, <2>1, <3>2 DEF TypeOK
  <2>4. read' \in [Sockets -> Nat]
    BY <1>0 DEF TypeOK, Control
  <2> QED
    BY <1>0, <1>1, <2>3, <2>4 DEF TypeOK, PCs, Control, Threads
<1> QED
  BY <1>0, <1>1, <1>2, FrameStep DEF TypeOK, Threads, Holding

(* The listener gets a message into the queue. *)
LEMMA PutStep ==
    ASSUME IInv, Put
    PROVE  IInv'
<1> USE DEF Put, Job, Jobs, views
<1>0. TypeOK /\ Control
  BY DEF IInv
<1>1. Control'
  BY <1>0, ThreadAssumption, NoneAssumption DEF TypeOK, Control, Threads
<1>2. TypeOK'
  <2>1. PICK w \in Workers : w = WorkerOf[tgt[Listener]]
    BY <1>0, QueueAssumption DEF Control, Threads
  <2>2. Job(tgt[Listener]) \in Jobs
    BY <1>0 DEF Control, TypeOK, Threads
  <2>3. queue' \in [Workers -> Seq(Jobs)]
    <3>1. queue[w] \in Seq(Jobs)
      BY <1>0 DEF TypeOK
    <3>2. Append(queue[w], Job(tgt[Listener])) \in Seq(Jobs)
      BY <2>2, <3>1
    <3> HIDE DEF Job, Jobs
    <3> QED
      BY <1>0, <2>1, <3>2 DEF TypeOK
  <2>4. read' \in [Sockets -> Nat]
    BY <1>0 DEF TypeOK, Control, Threads
  <2> QED
    BY <1>0, <1>1, <2>3, <2>4 DEF TypeOK, PCs, Control, Threads
<1> QED
  BY <1>0, <1>1, <1>2, FrameStep DEF TypeOK, Threads, Holding

(* An AP closes its end. *)
LEMMA PeerClosesStep ==
    ASSUME IInv, NEW s \in Sockets, PeerCloses(s)
    PROVE  IInv'
<1> USE DEF PeerCloses, views, threadState
<1>0. TypeOK /\ Control
  BY DEF IInv
<1>1. Control'
  BY <1>0, ThreadAssumption, NoneAssumption DEF TypeOK, Control, Threads
<1>2. TypeOK'
  BY <1>0, <1>1 DEF TypeOK, PCs, Control, Threads
<1> QED
  BY <1>0, <1>1, <1>2, FrameStep DEF TypeOK, Threads, Holding

(* The listener finds an end of stream. *)
LEMMA ReadEofStep ==
    ASSUME IInv, NEW s \in Sockets, ReadEof(s)
    PROVE  IInv'
<1> USE DEF ReadEof, views, input
<1>0. TypeOK /\ Control
  BY DEF IInv
<1>1. Control'
  BY <1>0, ThreadAssumption, NoneAssumption DEF TypeOK, Control, Threads
<1>2. TypeOK'
  BY <1>0, <1>1 DEF TypeOK, PCs, Control, Threads
<1> QED
  BY <1>0, <1>1, <1>2, FrameStep DEF TypeOK, Threads, Holding

(* closeSocket takes the monitor of a socket with an agent. *)
LEMMA CloseResets ==
    ASSUME IInv, NEW t \in Threads, CloseEnter(t),
           sock[tgt[t]] = "open", tgt[t] \in sc2Agent
    PROVE  IInv'
<1> USE DEF CloseEnter, CloseBody, StationsOn, input
<1>0. TypeOK /\ Control
  BY DEF IInv
<1>s. PICK s \in Sockets : s = tgt[t]
  BY <1>0 DEF Control, TypeOK
<1>t. t \in Threads /\ t # None
  BY NoneAssumption DEF Threads
<1>1. \A u \in Threads \ {t} : pc'[u] = pc[u] /\ tgt'[u] = tgt[u] /\ own'[u] = own[u]
  BY <1>s, <1>t, <1>0 DEF TypeOK
<1>2. SessionOK(s) /\ ThreadOK(t)
  BY <1>t, <1>s, Local
<1>3. /\ scLock[s] \in {None, t}
      /\ \A z \in Sockets \ {s} : scLock[z] # t
  BY <1>s, <1>t, <1>0, <1>2, OwnsOne DEF SessionOK, ThreadOK, Holding
<1>4. \A z \in Sockets \ {s} :
         /\ scLock'[z] = scLock[z] /\ sock'[z] = sock[z]
         /\ z \in tracked' <=> z \in tracked
         /\ z \in sc2Agent' <=> z \in sc2Agent
         /\ z \in live' <=> z \in live
         /\ \A m \in Macs : agentMap'[m] = z => agentMap[m] = z
  BY <1>s, <1>0, MacAssumption, NoneAssumption DEF TypeOK
<1>5. Control'
  BY <1>s, <1>t, <1>0, <1>1, NoneAssumption DEF TypeOK, Control
<1>6. TypeOK'
  <2>0. scLock' = [scLock EXCEPT ![s] = t] /\ pc' = [pc EXCEPT ![t] = "reset"]
    BY <1>s
  <2>1. scLock' \in [Sockets -> Threads \cup {None}]
    <3> HIDE DEF CloseEnter, CloseBody
    <3> QED
      BY <2>0, <1>0 DEF TypeOK
  <2>2. StationsOn(tgt[t]) \in SUBSET Stations
    OBVIOUS
  <2>3. todo' \in [Threads -> SUBSET Stations]
    <3> HIDE DEF StationsOn
    <3> QED
      BY <1>0, <2>2 DEF TypeOK
  <2>4. pc' \in [Threads -> PCs]
    <3> HIDE DEF CloseEnter, CloseBody
    <3> QED
      BY <2>0, <1>0 DEF TypeOK, PCs
  <2>5. tracked' \subseteq Sockets
    BY <1>0 DEF TypeOK
  <2>6. UNCHANGED <<sock, tgt, eof, read, queue, sc2Agent, agentMap, live, heard, vaps, stLock,
                    own, cmdAlive>>
    OBVIOUS
  <2> QED
    BY <1>0, <1>5, <2>1, <2>3, <2>4, <2>5, <2>6 DEF TypeOK, Control
<1>7. SessionOK(s)'
  BY <1>s, <1>t, <1>0, <1>2, <1>3, MacAssumption DEF SessionOK, ThreadOK, Changing, TypeOK
<1>8. ThreadOK(t)'
  BY <1>s, <1>t, <1>0, <1>2, <1>3 DEF ThreadOK, SessionOK, TypeOK
<1> QED
  BY <1>t, <1>1, <1>3, <1>4, <1>5, <1>6, <1>7, <1>8, LocalStep

(* closeSocket closes a socket without an agent, or finds it closed. *)
LEMMA CloseAtOnce ==
    ASSUME IInv, NEW t \in Threads, CloseEnter(t),
           ~ (sock[tgt[t]] = "open" /\ tgt[t] \in sc2Agent)
    PROVE  IInv'
<1> USE DEF CloseEnter, CloseBody, input
<1>0. TypeOK /\ Control
  BY DEF IInv
<1>s. PICK s \in Sockets : s = tgt[t]
  BY <1>0 DEF Control, TypeOK
<1>t. t \in Threads /\ t # None
  BY NoneAssumption DEF Threads
<1>r. /\ pc' \in [Threads -> PCs] /\ tgt' \in [Threads -> Sockets \cup {None}]
      /\ own' \in [Threads -> Sockets \cup Stations \cup {None}]
      /\ stLock' \in [Stations -> Threads \cup {None}]
      /\ tgt'[t] = None /\ pc'[t] \in {"register", "aging", "idle"}
      /\ pc'[t] = "register" => own'[t] \in Sockets
      /\ pc'[t] = "aging" => own'[t] \in Stations
      /\ \A u \in Threads \ {t} : pc'[u] = pc[u] /\ tgt'[u] = tgt[u] /\ own'[u] = own[u]
  BY <1>0, ReturnTypes
<1>1. \A u \in Threads \ {t} : pc'[u] = pc[u] /\ tgt'[u] = tgt[u] /\ own'[u] = own[u]
  BY <1>s, <1>t, <1>r, <1>0 DEF TypeOK
<1>2. SessionOK(s) /\ ThreadOK(t)
  BY <1>t, <1>s, Local
<1>3. /\ scLock[s] \in {None, t}
      /\ \A z \in Sockets \ {s} : scLock[z] # t
  BY <1>s, <1>t, <1>0, <1>2, OwnsOne DEF SessionOK, ThreadOK, Holding
<1>4. \A z \in Sockets \ {s} :
         /\ scLock'[z] = scLock[z] /\ sock'[z] = sock[z]
         /\ z \in tracked' <=> z \in tracked
         /\ z \in sc2Agent' <=> z \in sc2Agent
         /\ z \in live' <=> z \in live
         /\ \A m \in Macs : agentMap'[m] = z => agentMap[m] = z
  BY <1>s, <1>0, MacAssumption, NoneAssumption DEF TypeOK
<1>5. Control'
  BY <1>s, <1>t, <1>r, <1>0, <1>1, NoneAssumption DEF TypeOK, Control
<1>6. TypeOK'
  BY <1>s, <1>t, <1>r, <1>0, <1>5, MacAssumption DEF TypeOK, PCs, Control
<1>7. SessionOK(s)'
  BY <1>s, <1>t, <1>r, <1>0, <1>2, <1>3, MacAssumption DEF SessionOK, ThreadOK, Changing, TypeOK
<1>8. ThreadOK(t)'
  BY <1>s, <1>t, <1>r, <1>0, <1>2, <1>3 DEF ThreadOK, SessionOK, TypeOK
<1> QED
  BY <1>t, <1>1, <1>3, <1>4, <1>5, <1>6, <1>7, <1>8, LocalStep

LEMMA CloseEnterStep ==
    ASSUME IInv, NEW t \in Threads, CloseEnter(t)
    PROVE  IInv'
BY CloseResets, CloseAtOnce

(* Agent.reset removes one vap. *)
LEMMA ResetVapStep ==
    ASSUME IInv, NEW t \in Threads, NEW st \in Stations, ResetVap(t, st)
    PROVE  IInv'
<1> USE DEF ResetVap, input
<1>0. TypeOK /\ Control
  BY DEF IInv
<1>1. Control'
  BY <1>0, ThreadAssumption, NoneAssumption DEF TypeOK, Control, Threads
<1>2. TypeOK'
  BY <1>0, <1>1 DEF TypeOK, PCs, Control, Threads
<1> QED
  BY <1>0, <1>1, <1>2, FrameStep DEF TypeOK, Threads, Holding

(* Agent.reset is done. *)
LEMMA ResetEndStep ==
    ASSUME IInv, NEW t \in Threads, ResetEnd(t)
    PROVE  IInv'
<1> USE DEF ResetEnd, input
<1>0. TypeOK /\ Control
  BY DEF IInv
<1>s. PICK s \in Sockets : s = tgt[t]
  BY <1>0 DEF Control, TypeOK
<1>t. t \in Threads /\ t # None
  BY NoneAssumption DEF Threads
<1>1. \A u \in Threads \ {t} : pc'[u] = pc[u] /\ tgt'[u] = tgt[u] /\ own'[u] = own[u]
  BY <1>s, <1>t, <1>0 DEF TypeOK
<1>2. SessionOK(s) /\ ThreadOK(t)
  BY <1>t, <1>s, Local
<1>3. /\ scLock[s] \in {None, t}
      /\ \A z \in Sockets \ {s} : scLock[z] # t
  BY <1>s, <1>t, <1>0, <1>2, OwnsOne DEF SessionOK, ThreadOK, Holding
<1>4. \A z \in Sockets \ {s} :
         /\ scLock'[z] = scLock[z] /\ sock'[z] = sock[z]
         /\ z \in tracked' <=> z \in tracked
         /\ z \in sc2Agent' <=> z \in sc2Agent
         /\ z \in live' <=> z \in live
         /\ \A m \in Macs : agentMap'[m] = z => agentMap[m] = z
  BY <1>s, <1>0, MacAssumption, NoneAssumption DEF TypeOK
<1>5. Control'
  BY <1>s, <1>t, <1>0, <1>1, NoneAssumption DEF TypeOK, Control
<1>6. TypeOK'
  BY <1>s, <1>t, <1>0, <1>5, MacAssumption DEF TypeOK, PCs, Control
<1>7. SessionOK(s)'
  BY <1>s, <1>t, <1>0, <1>2, <1>3, MacAssumption DEF SessionOK, ThreadOK, Changing, TypeOK
<1>8. ThreadOK(t)'
  BY <1>s, <1>t, <1>0, <1>2, <1>3 DEF ThreadOK, SessionOK, TypeOK
<1> QED
  BY <1>t, <1>1, <1>3, <1>4, <1>5, <1>6, <1>7, <1>8, LocalStep

(* closeSocket takes the agent out of sc2AgentMap. *)
LEMMA UnmapScStep ==
    ASSUME IInv, NEW t \in Threads, UnmapSc(t)
    PROVE  IInv'
<1> USE DEF UnmapSc, input
<1>0. TypeOK /\ Control
  BY DEF IInv
<1>s. PICK s \in Sockets : s = tgt[t]
  BY <1>0 DEF Control, TypeOK
<1>t. t \in Threads /\ t # None
  BY NoneAssumption DEF Threads
<1>1. \A u \in Threads \ {t} : pc'[u] = pc[u] /\ tgt'[u] = tgt[u] /\ own'[u] = own[u]
  BY <1>s, <1>t, <1>0 DEF TypeOK
<1>2. SessionOK(s) /\ ThreadOK(t)
  BY <1>t, <1>s, Local
<1>3. /\ scLock[s] \in {None, t}
      /\ \A z \in Sockets \ {s} : scLock[z] # t
  BY <1>s, <1>t, <1>0, <1>2, OwnsOne DEF SessionOK, ThreadOK, Holding
<1>4. \A z \in Sockets \ {s} :
         /\ scLock'[z] = scLock[z] /\ sock'[z] = sock[z]
         /\ z \in tracked' <=> z \in tracked
         /\ z \in sc2Agent' <=> z \in sc2Agent
         /\ z \in live' <=> z \in live
         /\ \A m \in Macs : agentMap'[m] = z => agentMap[m] = z
  BY <1>s, <1>0, MacAssumption, NoneAssumption DEF TypeOK
<1>5. Control'
  BY <1>s, <1>t, <1>0, <1>1, NoneAssumption DEF TypeOK, Control
<1>6. TypeOK'
  BY <1>s, <1>t, <1>0, <1>5, MacAssumption DEF TypeOK, PCs, Control
<1>7. SessionOK(s)'
  BY <1>s, <1>t, <1>0, <1>2, <1>3, MacAssumption DEF SessionOK, ThreadOK, Changing, TypeOK
<1>8. ThreadOK(t)'
  BY <1>s, <1>t, <1>0, <1>2, <1>3 DEF ThreadOK, SessionOK, TypeOK
<1> QED
  BY <1>t, <1>1, <1>3, <1>4, <1>5, <1>6, <1>7, <1>8, LocalStep

(* closeSocket takes an agent out of agentMap and leaves. *)
LEMMA UnmapMacStep ==
    ASSUME IInv, NEW t \in Threads, UnmapMac(t)
    PROVE  IInv'
<1> USE DEF UnmapMac, input
<1>0. TypeOK /\ Control
  BY DEF IInv
<1>s. PICK s \in Sockets : s = tgt[t]
  BY <1>0 DEF Control, TypeOK
<1>t. t \in Threads /\ t # None
  BY NoneAssumption DEF Threads
<1>r. /\ pc' \in [Threads -> PCs] /\ tgt' \in [Threads -> Sockets \cup {None}]
      /\ own' \in [Threads -> Sockets \cup Stations \cup {None}]
      /\ stLock' \in [Stations -> Threads \cup {None}]
      /\ tgt'[t] = None /\ pc'[t] \in {"register", "aging", "idle"}
      /\ pc'[t] = "register" => own'[t] \in Sockets
      /\ pc'[t] = "aging" => own'[t] \in Stations
      /\ \A u \in Threads \ {t} : pc'[u] = pc[u] /\ tgt'[u] = tgt[u] /\ own'[u] = own[u]
  BY <1>0, ReturnTypes
<1>1. \A u \in Threads \ {t} : pc'[u] = pc[u] /\ tgt'[u] = tgt[u] /\ own'[u] = own[u]
  BY <1>s, <1>t, <1>r, <1>0 DEF TypeOK
<1>2. SessionOK(s) /\ ThreadOK(t)
  BY <1>t, <1>s, Local
<1>3. /\ scLock[s] \in {None, t}
      /\ \A z \in Sockets \ {s} : scLock[z] # t
  BY <1>s, <1>t, <1>0, <1>2, OwnsOne DEF SessionOK, ThreadOK, Holding
<1>4. \A z \in Sockets \ {s} :
         /\ scLock'[z] = scLock[z] /\ sock'[z] = sock[z]
         /\ z \in tracked' <=> z \in tracked
         /\ z \in sc2Agent' <=> z \in sc2Agent
         /\ z \in live' <=> z \in live
         /\ \A m \in Macs : agentMap'[m] = z => agentMap[m] = z
  BY <1>s, <1>0, MacAssumption, NoneAssumption DEF TypeOK
<1>5. Control'
  BY <1>s, <1>t, <1>r, <1>0, <1>1, NoneAssumption DEF TypeOK, Control
<1>6. TypeOK'
  BY <1>s, <1>t, <1>r, <1>0, <1>5, MacAssumption DEF TypeOK, PCs, Control
<1>7. SessionOK(s)'
  <2>1. scLock[s] = t
    BY <1>s, <1>2 DEF ThreadOK
  <2>2. s \notin tracked /\ s \notin live /\ s \notin sc2Agent
    BY <1>s, <1>t, <1>2, <2>1 DEF SessionOK
  <2>3. scLock'[s] = None
    BY <1>s, <1>0 DEF TypeOK
  <2>4. \A m \in Macs : agentMap'[m] # s
    BY <1>s, <1>0, <1>2, MacAssumption, NoneAssumption DEF SessionOK, TypeOK
  <2> QED
    BY <2>2, <2>3, <2>4 DEF SessionOK
<1>8. ThreadOK(t)'
  BY <1>s, <1>t, <1>r, <1>0, <1>2, <1>3 DEF ThreadOK, SessionOK, TypeOK
<1> QED
  BY <1>t, <1>1, <1>3, <1>4, <1>5, <1>6, <1>7, <1>8, LocalStep

(* A worker takes a LOCAL_MAC. *)
LEMMA LocalMacStep ==
    ASSUME IInv, NEW w \in Workers, LocalMac(w)
    PROVE  IInv'
<1> USE DEF LocalMac, views
<1>0. TypeOK /\ Control
  BY DEF IInv
<1>1. Control'
  <2>1. Head(queue[w]).sc \in Sockets
    BY <1>0, TakeTypes
  <2>2. PICK s \in Sockets : s = Head(queue[w]).sc
    BY <2>1
  <2>3. /\ own' = [own EXCEPT ![w] = s]
        /\ \A u \in Threads \ {w} : pc'[u] = pc[u] /\ tgt'[u] = tgt[u]
        /\ pc'[w] = "register" \/ (pc'[w] = "close" /\ tgt'[w] = agentMap[Mac[s]] /\ tgt'[w] # None)
    BY <1>0, <2>2 DEF TypeOK, Threads
  <2>4. pc'[w] = "close" => tgt'[w] \in Sockets
    BY <1>0, <2>2, <2>3, MacAssumption DEF TypeOK
  <2> QED
    BY <1>0, <2>2, <2>3, <2>4 DEF TypeOK, Control, Threads
<1>2. TypeOK'
  <2>1. queue' \in [Workers -> Seq(Jobs)] /\ Head(queue[w]).sc \in Sockets
    BY <1>0, TakeTypes
  <2>2. own' \in [Threads -> Sockets \cup Stations \cup {None}]
    BY <1>0, <2>1 DEF TypeOK, Threads
  <2>3. pc' \in [Threads -> PCs] /\ tgt' \in [Threads -> Sockets \cup {None}]
    BY <1>0, MacAssumption, NoneAssumption, <2>1 DEF TypeOK, Threads, PCs
  <2> QED
    BY <1>0, <1>1, <2>1, <2>2, <2>3 DEF TypeOK, Control
<1> QED
  BY <1>0, <1>1, <1>2, FrameStep DEF TypeOK, Threads, Holding, Take

(* A worker puts the new agent into agentMap. *)
LEMMA AddAgentStep ==
    ASSUME IInv, NEW t \in Threads, AddAgent(t)
    PROVE  IInv'
<1> USE DEF AddAgent, AddAgentBody, input
<1>0. TypeOK /\ Control
  BY DEF IInv
<1>s. PICK s \in Sockets : s = own[t]
  BY <1>0 DEF Control, TypeOK
<1>t. t \in Threads /\ t # None
  BY NoneAssumption DEF Threads
<1>1. \A u \in Threads \ {t} : pc'[u] = pc[u] /\ tgt'[u] = tgt[u] /\ own'[u] = own[u]
  BY <1>s, <1>t, <1>0 DEF TypeOK
<1>2. SessionOK(s) /\ ThreadOK(t)
  BY <1>t, <1>s, Local
<1>3. /\ scLock[s] \in {None, t}
      /\ \A z \in Sockets \ {s} : scLock[z] # t
  BY <1>s, <1>t, <1>0, <1>2, OwnsOne DEF SessionOK, ThreadOK, Holding
<1>4. \A z \in Sockets \ {s} :
         /\ scLock'[z] = scLock[z] /\ sock'[z] = sock[z]
         /\ z \in tracked' <=> z \in tracked
         /\ z \in sc2Agent' <=> z \in sc2Agent
         /\ z \in live' <=> z \in live
         /\ \A m \in Macs : agentMap'[m] = z => agentMap[m] = z
  BY <1>s, <1>0, MacAssumption, NoneAssumption DEF TypeOK
<1>5. Control'
  BY <1>s, <1>t, <1>0, <1>1, NoneAssumption DEF TypeOK, Control
<1>6. TypeOK'
  <2>0. /\ scLock' = scLock \/ scLock' = [scLock EXCEPT ![s] = t]
        /\ pc' = [pc EXCEPT ![t] = "putBySc"] \/ pc' = [pc EXCEPT ![t] = "idle"]
    BY <1>s
  <2>1. scLock' \in [Sockets -> Threads \cup {None}]
    <3> HIDE DEF AddAgent, AddAgentBody
    <3>1. scLock \in [Sockets -> Threads \cup {None}]
      BY <1>0 DEF TypeOK
    <3> QED
      BY <2>0, <3>1
  <2>2. agentMap' \in [Macs -> Sockets \cup {None}]
    BY <1>s, <1>0, MacAssumption DEF TypeOK
  <2>3. pc' \in [Threads -> PCs]
    <3> HIDE DEF AddAgent, AddAgentBody
    <3> QED
      BY <2>0, <1>0 DEF TypeOK, PCs
  <2>4. own' \in [Threads -> Sockets \cup Stations \cup {None}]
    BY <1>0 DEF TypeOK
  <2>5. live' \subseteq Sockets /\ heard' \subseteq Sockets
    BY <1>s, <1>0 DEF TypeOK
  <2>6. UNCHANGED <<sock, eof, read, queue, tracked, sc2Agent, vaps, stLock, tgt, todo, cmdAlive>>
    OBVIOUS
  <2> QED
    BY <1>0, <1>5, <2>1, <2>2, <2>3, <2>4, <2>5, <2>6 DEF TypeOK, Control
<1>7. SessionOK(s)'
  BY <1>s, <1>t, <1>0, <1>2, <1>3, MacAssumption DEF SessionOK, ThreadOK, Changing, TypeOK
<1>8. ThreadOK(t)'
  BY <1>s, <1>t, <1>0, <1>2, <1>3 DEF ThreadOK, SessionOK, TypeOK
<1> QED
  BY <1>t, <1>1, <1>3, <1>4, <1>5, <1>6, <1>7, <1>8, LocalStep

(* A worker puts the new agent into sc2AgentMap. *)
LEMMA PutByScStep ==
    ASSUME IInv, NEW t \in Threads, PutBySc(t)
    PROVE  IInv'
<1> USE DEF PutBySc, input
<1>0. TypeOK /\ Control
  BY DEF IInv
<1>s. PICK s \in Sockets : s = own[t]
  BY <1>0 DEF Control, TypeOK
<1>t. t \in Threads /\ t # None
  BY NoneAssumption DEF Threads
<1>1. \A u \in Threads \ {t} : pc'[u] = pc[u] /\ tgt'[u] = tgt[u] /\ own'[u] = own[u]
  BY <1>s, <1>t, <1>0 DEF TypeOK
<1>2. SessionOK(s) /\ ThreadOK(t)
  BY <1>t, <1>s, Local
<1>3. /\ scLock[s] \in {None, t}
      /\ \A z \in Sockets \ {s} : scLock[z] # t
  BY <1>s, <1>t, <1>0, <1>2, OwnsOne DEF SessionOK, ThreadOK, Holding
<1>4. \A z \in Sockets \ {s} :
         /\ scLock'[z] = scLock[z] /\ sock'[z] = sock[z]
         /\ z \in tracked' <=> z \in tracked
         /\ z \in sc2Agent' <=> z \in sc2Agent
         /\ z \in live' <=> z \in live
         /\ \A m \in Macs : agentMap'[m] = z => agentMap[m] = z
  BY <1>s, <1>0, MacAssumption, NoneAssumption DEF TypeOK
<1>5. Control'
  BY <1>s, <1>t, <1>0, <1>1, NoneAssumption DEF TypeOK, Control
<1>6. TypeOK'
  BY <1>s, <1>t, <1>0, <1>5, MacAssumption DEF TypeOK, PCs, Control
<1>7. SessionOK(s)'
  BY <1>s, <1>t, <1>0, <1>2, <1>3, MacAssumption DEF SessionOK, ThreadOK, Changing, TypeOK
<1>8. ThreadOK(t)'
  BY <1>s, <1>t, <1>0, <1>2, <1>3 DEF ThreadOK, SessionOK, TypeOK
<1> QED
  BY <1>t, <1>1, <1>3, <1>4, <1>5, <1>6, <1>7, <1>8, LocalStep

(* A worker handles a message. *)
LEMMA MessageStep ==
    ASSUME IInv, NEW w \in Workers, Message(w)
    PROVE  IInv'
<1> USE DEF Message, Hear
<1>0. TypeOK /\ Control
  BY DEF IInv
<1>1. Control'
  BY <1>0, ThreadAssumption, NoneAssumption DEF TypeOK, Control, Threads
<1>2. TypeOK'
  <2>1. queue' \in [Workers -> Seq(Jobs)] /\ Head(queue[w]).sc \in Sockets
    BY <1>0, TakeTypes
  <2> QED
    BY <1>0, <1>1, <2>1 DEF TypeOK, PCs, Control, Threads
<1> QED
  BY <1>0, <1>1, <1>2, FrameStep DEF TypeOK, Threads, Holding

(* A worker meets a silent agent. *)
LEMMA MessageClosesStep ==
    ASSUME IInv, NEW w \in Workers, NEW s \in Sockets, MessageCloses(w, s)
    PROVE  IInv'
<1> USE DEF MessageCloses, CloseSilent, Hear
<1>0. TypeOK /\ Control
  BY DEF IInv
<1>1. Control'
  BY <1>0, ThreadAssumption, NoneAssumption DEF TypeOK, Control, Threads
<1>2. TypeOK'
  <2>1. queue' \in [Workers -> Seq(Jobs)] /\ Head(queue[w]).sc \in Sockets
    BY <1>0, TakeTypes
  <2> QED
    BY <1>0, <1>1, <2>1 DEF TypeOK, PCs, Control, Threads
<1> QED
  BY <1>0, <1>1, <1>2, FrameStep DEF TypeOK, Threads, Holding, Take

(* A worker has an ADD_VAP_ROAM confirmed. *)
LEMMA OkRoamStep ==
    ASSUME IInv, NEW w \in Workers, NEW st \in Stations, NEW s \in Sockets, OkRoam(w, st, s)
    PROVE  IInv'
<1> USE DEF OkRoam, Hear
<1>0. TypeOK /\ Control
  BY DEF IInv
<1>1. Control'
  BY <1>0, ThreadAssumption, NoneAssumption DEF TypeOK, Control, Threads
<1>2. TypeOK'
  <2>1. queue' \in [Workers -> Seq(Jobs)] /\ Head(queue[w]).sc \in Sockets
    BY <1>0, TakeTypes
  <2> QED
    BY <1>0, <1>1, <2>1 DEF TypeOK, PCs, Control, Threads
<1> QED
  BY <1>0, <1>1, <1>2, FrameStep DEF TypeOK, Threads, Holding, Take

(* A worker has the station it wants. *)
LEMMA OkRoamLockedStep ==
    ASSUME IInv, NEW t \in Threads, OkRoamLocked(t)
    PROVE  IInv'
<1> USE DEF OkRoamLocked, CloseSilent, views, input
<1>0. TypeOK /\ Control
  BY DEF IInv
<1>1. Control'
  <2>1. \A u \in Threads \ {t} : pc'[u] = pc[u] /\ tgt'[u] = tgt[u] /\ own'[u] = own[u]
    BY <1>0 DEF TypeOK
  <2>2. pc'[t] = "idle" \/ (pc'[t] = "readSc" /\ tgt'[t] \in Sockets)
    BY <1>0 DEF TypeOK, Control
  <2> QED
    BY <1>0, <2>1, <2>2 DEF Control
<1>2. TypeOK'
  <2>1. own[t] \in Stations /\ tgt[t] \in Sockets
    BY <1>0 DEF Control
  <2>2. pc' \in [Threads -> PCs]
    BY <1>0 DEF TypeOK, PCs
  <2>3. tgt' \in [Threads -> Sockets \cup {None}]
    BY <1>0, <2>1 DEF TypeOK
  <2>4. own' \in [Threads -> Sockets \cup Stations \cup {None}]
    BY <1>0 DEF TypeOK
  <2>5. stLock' \in [Stations -> Threads \cup {None}]
    BY <1>0, <2>1 DEF TypeOK
  <2>6. UNCHANGED <<sock, tracked, eof, read, queue, sc2Agent, agentMap, live, heard, vaps,
                    scLock, todo, cmdAlive>>
    OBVIOUS
  <2> QED
    BY <1>0, <1>1, <2>2, <2>3, <2>4, <2>5, <2>6 DEF TypeOK, Control
<1> QED
  BY <1>0, <1>1, <1>2, FrameStep DEF TypeOK, Threads, Holding

(* An agent is not heard of for AGENT_TIME_OUT. *)
LEMMA AgentTimesOutStep ==
    ASSUME IInv, NEW s \in Sockets, AgentTimesOut(s)
    PROVE  IInv'
<1> USE DEF AgentTimesOut, threadState, input
<1>0. TypeOK /\ Control
  BY DEF IInv
<1>1. Control'
  BY <1>0, ThreadAssumption, NoneAssumption DEF TypeOK, Control, Threads
<1>2. TypeOK'
  BY <1>0, <1>1 DEF TypeOK, PCs, Control, Threads
<1> QED
  BY <1>0, <1>1, <1>2, FrameStep DEF TypeOK, Threads, Holding

(* A thread reads agent.sc again. *)
LEMMA ReadScAgainStep ==
    ASSUME IInv, NEW t \in Threads, ReadScAgain(t)
    PROVE  IInv'
<1> USE DEF ReadScAgain, views, input
<1>0. TypeOK /\ Control
  BY DEF IInv
<1>1. Control'
  <2>1. \A u \in Threads \ {t} : pc'[u] = pc[u] /\ tgt'[u] = tgt[u] /\ own'[u] = own[u]
    BY <1>0 DEF TypeOK
  <2>2. pc'[t] = "idle" \/ (pc'[t] = "close" /\ tgt'[t] \in Sockets)
    BY <1>0 DEF TypeOK, Control
  <2> QED
    BY <1>0, <2>1, <2>2 DEF Control
<1>2. TypeOK'
  <2>1. pc' \in [Threads -> PCs]
    BY <1>0 DEF TypeOK, PCs
  <2>2. tgt' \in [Threads -> Sockets \cup {None}]
    BY <1>0 DEF TypeOK
  <2>3. own' \in [Threads -> Sockets \cup Stations \cup {None}]
    BY <1>0 DEF TypeOK
  <2>4. stLock' \in [Stations -> Threads \cup {None}]
    BY <1>0 DEF TypeOK
  <2>5. cmdAlive' \in BOOLEAN
    BY <1>0 DEF TypeOK
  <2>6. UNCHANGED <<sock, tracked, eof, read, queue, sc2Agent, agentMap, live, heard, vaps,
                    scLock, todo>>
    OBVIOUS
  <2> QED
    BY <1>0, <1>1, <2>1, <2>2, <2>3, <2>4, <2>5, <2>6 DEF TypeOK, Control
<1> QED
  BY <1>0, <1>1, <1>2, FrameStep DEF TypeOK, Threads, Holding

(* AgeTask takes a station. *)
LEMMA AgeStationStep ==
    ASSUME IInv, NEW p \in Pool, NEW st \in Stations, AgeStation(p, st)
    PROVE  IInv'
<1> USE DEF AgeStation, views, input
<1>0. TypeOK /\ Control
  BY DEF IInv
<1>1. Control'
  BY <1>0, ThreadAssumption, NoneAssumption DEF TypeOK, Control, Threads
<1>2. TypeOK'
  BY <1>0, <1>1 DEF TypeOK, PCs, Control, Threads
<1> QED
  BY <1>0, <1>1, <1>2, FrameStep DEF TypeOK, Threads, Holding

(* AgeTask handles a vap. *)
LEMMA AgeVapStep ==
    ASSUME IInv, NEW t \in Threads, NEW s \in Sockets, AgeVap(t, s)
    PROVE  IInv'
<1> USE DEF AgeVap, CloseSilent, input
<1>0. TypeOK /\ Control
  BY DEF IInv
<1>1. Control'
  BY <1>0, ThreadAssumption, NoneAssumption DEF TypeOK, Control, Threads
<1>2. TypeOK'
  BY <1>0, <1>1 DEF TypeOK, PCs, Control, Threads
<1> QED
  BY <1>0, <1>1, <1>2, FrameStep DEF TypeOK, Threads, Holding

(* AgeTask leaves a station. *)
LEMMA AgeEndStep ==
    ASSUME IInv, NEW t \in Threads, AgeEnd(t)
    PROVE  IInv'
<1> USE DEF AgeEnd, views, input
<1>0. TypeOK /\ Control
  BY DEF IInv
<1>1. Control'
  BY <1>0, ThreadAssumption, NoneAssumption DEF TypeOK, Control, Threads
<1>2. TypeOK'
  BY <1>0, <1>1 DEF TypeOK, PCs, Control, Threads
<1> QED
  BY <1>0, <1>1, <1>2, FrameStep DEF TypeOK, Threads, Holding

(* CmdTask tests an agent. *)
LEMMA AddVapStep ==
    ASSUME IInv, NEW p \in Pool, NEW st \in Stations, NEW s \in Sockets, AddVap(p, st, s)
    PROVE  IInv'
<1> USE DEF AddVap, views, input
<1>0. TypeOK /\ Control
  BY DEF IInv
<1>1. Control'
  BY <1>0, ThreadAssumption, NoneAssumption DEF TypeOK, Control, Threads
<1>2. TypeOK'
  BY <1>0, <1>1 DEF TypeOK, PCs, Control, Threads
<1> QED
  BY <1>0, <1>1, <1>2, FrameStep DEF TypeOK, Threads, Holding

(* CmdTask adds a vap. *)
LEMMA AddVapLockedStep ==
    ASSUME IInv, NEW t \in Threads, AddVapLocked(t)
    PROVE  IInv'
<1> USE DEF AddVapLocked, input
<1>0. TypeOK /\ Control
  BY DEF IInv
<1>1. Control'
  BY <1>0, ThreadAssumption, NoneAssumption DEF TypeOK, Control, Threads
<1>2. TypeOK'
  BY <1>0, <1>1 DEF TypeOK, PCs, Control, Threads
<1> QED
  BY <1>0, <1>1, <1>2, FrameStep DEF TypeOK, Threads, Holding

(* A pool thread starts a write. *)
LEMMA WriteStep ==
    ASSUME IInv, NEW p \in Pool, NEW s \in Sockets, Write(p, s)
    PROVE  IInv'
<1> USE DEF Write, views, input, Threads
<1>0. TypeOK /\ Control
  BY DEF IInv
<1>t. p \in Threads /\ p # None
  BY NoneAssumption DEF Threads
<1>1. \A u \in Threads \ {p} : pc'[u] = pc[u] /\ tgt'[u] = tgt[u] /\ own'[u] = own[u]
  BY <1>t, <1>0 DEF TypeOK
<1>2. SessionOK(s) /\ ThreadOK(p)
  BY <1>t, Local
<1>3. /\ scLock[s] \in {None, p}
      /\ \A z \in Sockets \ {s} : scLock[z] # p
  BY <1>t, <1>0, <1>2, OwnsOne DEF SessionOK, ThreadOK, Holding
<1>4. \A z \in Sockets \ {s} :
         /\ scLock'[z] = scLock[z] /\ sock'[z] = sock[z]
         /\ z \in tracked' <=> z \in tracked
         /\ z \in sc2Agent' <=> z \in sc2Agent
         /\ z \in live' <=> z \in live
         /\ \A m \in Macs : agentMap'[m] = z => agentMap[m] = z
  BY <1>0, MacAssumption, NoneAssumption DEF TypeOK
<1>5. Control'
  BY <1>t, <1>0, <1>1, NoneAssumption DEF TypeOK, Control
<1>6. TypeOK'
  BY <1>t, <1>0, <1>5, MacAssumption DEF TypeOK, PCs, Control
<1>7. SessionOK(s)'
  BY <1>t, <1>0, <1>2, <1>3, MacAssumption DEF SessionOK, ThreadOK, Changing, TypeOK
<1>8. ThreadOK(p)'
  BY <1>t, <1>0, <1>2, <1>3 DEF ThreadOK, SessionOK, TypeOK
<1> QED
  BY <1>t, <1>1, <1>3, <1>4, <1>5, <1>6, <1>7, <1>8, LocalStep

(* A pool thread ends a write. *)
LEMMA WriteEndStep ==
    ASSUME IInv, NEW p \in Pool, WriteEnd(p)
    PROVE  IInv'
<1> USE DEF WriteEnd, views, input, Threads
<1>0. TypeOK /\ Control
  BY DEF IInv
<1>s. PICK s \in Sockets : s = tgt[p]
  BY <1>0 DEF Control, TypeOK
<1>t. p \in Threads /\ p # None
  BY NoneAssumption DEF Threads
<1>1. \A u \in Threads \ {p} : pc'[u] = pc[u] /\ tgt'[u] = tgt[u] /\ own'[u] = own[u]
  BY <1>s, <1>t, <1>0 DEF TypeOK
<1>2. SessionOK(s) /\ ThreadOK(p)
  BY <1>t, <1>s, Local
<1>3. /\ scLock[s] \in {None, p}
      /\ \A z \in Sockets \ {s} : scLock[z] # p
  BY <1>s, <1>t, <1>0, <1>2, OwnsOne DEF SessionOK, ThreadOK, Holding
<1>4. \A z \in Sockets \ {s} :
         /\ scLock'[z] = scLock[z] /\ sock'[z] = sock[z]
         /\ z \in tracked' <=> z \in tracked
         /\ z \in sc2Agent' <=> z \in sc2Agent
         /\ z \in live' <=> z \in live
         /\ \A m \in Macs : agentMap'[m] = z => agentMap[m] = z
  BY <1>s, <1>0, MacAssumption, NoneAssumption DEF TypeOK
<1>5. Control'
  BY <1>s, <1>t, <1>0, <1>1, NoneAssumption DEF TypeOK, Control
<1>6. TypeOK'
  BY <1>s, <1>t, <1>0, <1>5, MacAssumption DEF TypeOK, PCs, Control
<1>7. SessionOK(s)'
  BY <1>s, <1>t, <1>0, <1>2, <1>3, MacAssumption DEF SessionOK, ThreadOK, Changing, TypeOK
<1>8. ThreadOK(p)'
  BY <1>s, <1>t, <1>0, <1>2, <1>3 DEF ThreadOK, SessionOK, TypeOK
<1> QED
  BY <1>t, <1>1, <1>3, <1>4, <1>5, <1>6, <1>7, <1>8, LocalStep

(* A pool thread cancels a DEL_VAP. *)
LEMMA CancelTaskStep ==
    ASSUME IInv, NEW p \in Pool, NEW s \in Sockets, CancelTask(p, s)
    PROVE  IInv'
<1> USE DEF CancelTask, views, input
<1>0. TypeOK /\ Control
  BY DEF IInv
<1>1. Control'
  BY <1>0, ThreadAssumption, NoneAssumption DEF TypeOK, Control, Threads
<1>2. TypeOK'
  BY <1>0, <1>1 DEF TypeOK, PCs, Control, Threads
<1> QED
  BY <1>0, <1>1, <1>2, FrameStep DEF TypeOK, Threads, Holding

(* Every step of every thread keeps the invariant. *)
LEMMA NextIInv == IInv /\ [Next]_vars => IInv'
<1> SUFFICES ASSUME IInv, [Next]_vars PROVE IInv'
  OBVIOUS
<1>1. CASE UNCHANGED vars
  BY <1>1 DEF IInv, vars, views, input, threadState, TypeOK, Control, Owner, Holds, TrackedIsOpen,
              RegisteredIsOpen, FoundByMacIsRegistered, ResetIsExclusive, Changing
<1>2. ASSUME NEW t \in Threads, ThreadStep(t) PROVE IInv'
  BY <1>2, CloseEnterStep, ResetVapStep, ResetEndStep, UnmapScStep, UnmapMacStep,
     AddAgentStep, PutByScStep, OkRoamLockedStep, ReadScAgainStep, AgeVapStep, AgeEndStep,
     AddVapLockedStep, PutStep DEF ThreadStep
<1>3. ASSUME NEW w \in Workers, Serve(w) PROVE IInv'
  BY <1>3, LocalMacStep, MessageStep, MessageClosesStep, OkRoamStep DEF Serve
<1>4. CASE Next
  BY <1>2, <1>3, <1>4, AcceptStep, PeerClosesStep, ReadStep, ReadEofStep, AgentTimesOutStep,
     AddVapStep, WriteStep, CancelTaskStep, WriteEndStep, AgeStationStep DEF Next
<1> QED
  BY <1>1, <1>4

(* The maps, monitors and program counters keep their types. *)
THEOREM TypeCorrect == Spec => []TypeOK
<1>1. IInv => TypeOK
  BY DEF IInv
<1> QED
  BY <1>1, InitIInv, NextIInv, PTL DEF Spec

(* The race described at Master.java:402-405 is closed by synchronized (sc) *)
(* for any interleaving of listener, workers and tasks: a registered socket *)
(* is open and, unless its session is being closed, tracked and usable.     *)
THEOREM RegistrationSafe == Spec => []RegisteredIsOpen
<1>1. IInv => RegisteredIsOpen
  BY DEF IInv
<1> QED
  BY <1>1, InitIInv, NextIInv, PTL DEF Spec

(* agentMap and sc2AgentMap are updated one after the other, and agentMap   *)
(* is read without a monitor.  What a lookup by MAC finds is an open        *)
(* session of that AP, and unless closeSocket or processMsgLocalMac is just *)
(* at work on its socket it is also in sc2AgentMap, tracked and not reset.  *)
THEOREM LookupSafe == Spec => []FoundByMacIsRegistered
<1>1. IInv => FoundByMacIsRegistered
  BY DEF IInv
<1> QED
  BY <1>1, InitIInv, NextIInv, PTL DEF Spec

(* A closed socket is in no map. *)
THEOREM ForgetSafe == Spec => []ClosedIsForgotten
BY InitIInv, NextIInv, InvImpliesForgotten, PTL DEF Spec

(* Agent.reset has one owner, and runs for a registered session. *)
THEOREM ResetSafe == Spec => []ResetIsExclusive
<1>1. IInv => ResetIsExclusive
  BY DEF IInv
<1> QED
  BY <1>1, InitIInv, NextIInv, PTL DEF Spec
================================================================================
