---------------------------- MODULE CommandsProofs ----------------------------
(***************************************************************************)
(* ConfirmedByRightAnswer of Commands for any commands, connections,       *)
(* heartbeats and numbers.  The argument: until it starts again, getMsgId  *)
(* gives the commands of one Agent object different numbers; a command is  *)
(* taken into writeMessage with its number, is written once and            *)
(* stored under its number, and the AP answers OK only under the number of *)
(* a command it has executed or of a heartbeat.                            *)
(***************************************************************************)
EXTENDS Commands, TLAPS

Numbered(m) == pc[m] \notin {"idle", "issued"}
Written(m) == pc[m] \in {"written", "stored", "checked"}

(* The number i of an OK: a heartbeat's, or that of an executed command. *)
Justified(i) ==
    \/ i \in beatIds
    \/ \E n \in Cmds : result[n] = "done" /\ Numbered(n) /\ msgId[n] = i

(* A message on its way to the AP carries the number of its command, which  *)
(* the AP has not handled yet, or of a heartbeat.                           *)
MessageOK(x) ==
    /\ x.kind = "cmd" => Written(x.cmd) /\ msgId[x.cmd] = x.id /\ result[x.cmd] = "none"
    /\ x.kind = "beat" => x.id \in beatIds

ReplyOK(x) ==
    /\ x.kind = "ok" => Justified(x.id)
    /\ x.kind = "beat" => x.id \in beatIds

BothCommands(x, y) == x.kind = "cmd" /\ y.kind = "cmd"

(* getMsgId: since the numbers last started again those up to currentId are *)
(* used, and between two restarts each is used for one command.             *)
NumbersUnique ==
    /\ \A m \in Cmds : Numbered(m) =>
           /\ lap[m] <= laps[agent[m]]
           /\ lap[m] = laps[agent[m]] => msgId[m] <= currentId[agent[m]]
    /\ \A m, n \in Cmds : /\ Numbered(m) /\ Numbered(n)
                           /\ agent[m] = agent[n] /\ lap[m] = lap[n] /\ msgId[m] = msgId[n]
                          => m = n

(* What the owner of Master's monitor writes: a command that waits for it,  *)
(* under its number, or the echo of a heartbeat.                            *)
OutOK ==
    Writing => /\ out.msg.kind = "cmd" => pc[out.msg.cmd] = "writing" /\ msgId[out.msg.cmd] = out.msg.id
               /\ out.msg.kind = "beat" => out.msg.id \in beatIds

(* A command is handled only once it is written. *)
HandledIsWritten == \A m \in Cmds : result[m] # "none" => Written(m)

(* No command is on its way twice. *)
WayToAp ==
    /\ \A j \in 1 .. Len(toAp) : MessageOK(toAp[j])
    /\ \A j, k \in 1 .. Len(toAp) :
           BothCommands(toAp[j], toAp[k]) /\ toAp[j].cmd = toAp[k].cmd => j = k
    /\ held # None => /\ MessageOK(held)
                      /\ \A j \in 1 .. Len(toAp) :
                             BothCommands(held, toAp[j]) => held.cmd # toAp[j].cmd

WayBack == \A j \in 1 .. Len(toMaster) : ReplyOK(toMaster[j])

(* An entry of sendMsgBuffer is filed under its number. *)
Buffer ==
    \A i \in Ids : msgMap[i] # None =>
        /\ Numbered(msgMap[i].cmd) /\ msgId[msgMap[i].cmd] = i
        /\ msgMap[i].status = "ok" => Justified(i)

IInv == TypeOK /\ NumbersUnique /\ OutOK /\ HandledIsWritten /\ WayToAp /\ WayBack /\ Buffer

-----------------------------------------------------------------------------
(* Fields of the records. *)
LEMMA MessageFields ==
    ASSUME NEW x \in Messages
    PROVE  /\ x.kind \in {"cmd", "beat"} /\ x.id \in Ids
           /\ x.kind = "cmd" => x.cmd \in Cmds
  BY DEF Messages

LEMMA EntryFields ==
    ASSUME NEW x \in Entries
    PROVE  x.cmd \in Cmds /\ x.status \in {"unreply", "ok", "err"}
  BY DEF Entries

LEMMA OutFields ==
    ASSUME TypeOK, Writing
    PROVE  /\ out \in Writes /\ out.msg \in Messages
           /\ out.msg.kind \in {"cmd", "beat"} /\ out.msg.id \in Ids
           /\ out.msg.kind = "cmd" => out.msg.cmd \in Cmds
<1>1. out \in Writes
  BY DEF TypeOK, Writing
<1>2. out.msg \in Messages
  BY <1>1 DEF Writes
<1> QED
  BY <1>1, <1>2, MessageFields

LEMMA CmdMessage ==
    ASSUME NEW m \in Cmds, NEW i \in Ids
    PROVE  [kind |-> "cmd", id |-> i, cmd |-> m] \in Messages
  BY DEF Messages

LEMMA BeatIsMessage ==
    ASSUME NEW x \in Replies, x.kind = "beat"
    PROVE  x \in Messages
<1>1. x = [kind |-> "beat", id |-> x.id] /\ x.id \in Ids
  BY DEF Replies
<1> QED
  BY <1>1 DEF Messages

(* What the two ends of a connection's queue do. *)
LEMMA AppendFacts ==
    ASSUME NEW S, NEW s \in Seq(S), NEW x \in S
    PROVE  /\ Append(s, x) \in Seq(S) /\ Len(Append(s, x)) = Len(s) + 1 /\ Len(s) \in Nat
           /\ \A j \in 1 .. Len(s) : Append(s, x)[j] = s[j]
           /\ Append(s, x)[Len(s) + 1] = x
  OBVIOUS

LEMMA TailFacts ==
    ASSUME NEW S, NEW s \in Seq(S), s # <<>>
    PROVE  /\ Tail(s) \in Seq(S) /\ Len(s) \in Nat /\ Len(s) >= 1 /\ Len(Tail(s)) = Len(s) - 1
           /\ \A j \in 1 .. Len(Tail(s)) : j + 1 \in 1 .. Len(s) /\ Tail(s)[j] = s[j + 1]
           /\ Head(s) = s[1] /\ Head(s) \in S /\ 1 \in 1 .. Len(s)
  OBVIOUS

LEMMA ElementFacts ==
    ASSUME NEW S, NEW s \in Seq(S)
    PROVE  Len(s) \in Nat /\ \A j \in 1 .. Len(s) : s[j] \in S
  OBVIOUS

(* Nothing justified is taken back: what a step keeps of the numbers, the   *)
(* results and the heartbeats.                                              *)
Grows ==
    /\ beatIds \subseteq beatIds'
    /\ \A n \in Cmds : Numbered(n) => Numbered(n)' /\ msgId'[n] = msgId[n] /\ agent'[n] = agent[n]
                                        /\ lap'[n] = lap[n]
    /\ \A n \in Cmds : Written(n) => Written(n)'
    /\ \A n \in Cmds : result[n] = "done" => result'[n] = "done"

LEMMA JustifiedGrows ==
    ASSUME Grows, NEW i, Justified(i)
    PROVE  Justified(i)'
  BY DEF Grows, Justified

LEMMA MessageGrows ==
    ASSUME Grows, NEW x \in Messages, MessageOK(x), x.kind = "cmd" => result'[x.cmd] = result[x.cmd]
    PROVE  MessageOK(x)'
<1>1. CASE x.kind = "cmd"
  BY <1>1, MessageFields DEF Grows, MessageOK, Numbered, Written
<1>2. CASE x.kind = "beat"
  BY <1>2, MessageFields DEF Grows, MessageOK
<1> QED
  BY <1>1, <1>2, MessageFields

LEMMA ReplyGrows ==
    ASSUME Grows, NEW x, ReplyOK(x)
    PROVE  ReplyOK(x)'
  BY JustifiedGrows DEF Grows, ReplyOK

(* The parts an action leaves alone stay true. *)
LEMMA WayToApSame ==
    ASSUME TypeOK, WayToAp, Grows, UNCHANGED <<toAp, held, result>>
    PROVE  WayToAp'
<1>1. ASSUME NEW j \in 1 .. Len(toAp) PROVE MessageOK(toAp[j])'
  BY <1>1, MessageGrows, ElementFacts DEF TypeOK, WayToAp
<1>2. held # None => MessageOK(held)'
  BY MessageGrows DEF TypeOK, WayToAp
<1> QED
  BY <1>1, <1>2 DEF WayToAp, BothCommands

LEMMA WayBackSame ==
    ASSUME WayBack, Grows, UNCHANGED toMaster
    PROVE  WayBack'
  BY ReplyGrows DEF WayBack

LEMMA BufferSame ==
    ASSUME TypeOK, Buffer, Grows, UNCHANGED msgMap
    PROVE  Buffer'
<1> SUFFICES ASSUME NEW i \in Ids, msgMap[i] # None
             PROVE  /\ Numbered(msgMap[i].cmd)' /\ msgId'[msgMap[i].cmd] = i
                    /\ msgMap[i].status = "ok" => Justified(i)'
  BY DEF Buffer
<1>1. msgMap[i].cmd \in Cmds
  BY EntryFields DEF TypeOK
<1> QED
  BY <1>1, JustifiedGrows DEF Buffer, Grows

LEMMA NumbersSame ==
    ASSUME TypeOK, NumbersUnique, UNCHANGED <<currentId, laps, agent, msgId, lap>>,
           \A n \in Cmds : Numbered(n)' => Numbered(n)
    PROVE  NumbersUnique'
  BY DEF NumbersUnique

LEMMA OutSame ==
    ASSUME TypeOK, OutOK, Grows, UNCHANGED out,
           \A n \in Cmds : pc[n] = "writing" => pc'[n] = "writing"
    PROVE  OutOK'
<1> SUFFICES ASSUME Writing
             PROVE  /\ out.msg.kind = "cmd" => pc'[out.msg.cmd] = "writing" /\ msgId'[out.msg.cmd] = out.msg.id
                    /\ out.msg.kind = "beat" => out.msg.id \in beatIds'
  BY DEF OutOK, Writing
<1>1. CASE out.msg.kind = "cmd"
  <2>1. PICK n \in Cmds : n = out.msg.cmd
    BY <1>1, OutFields
  <2>2. pc[n] = "writing" /\ msgId[n] = out.msg.id
    BY <1>1, <2>1 DEF OutOK
  <2>3. Numbered(n)
    BY <2>2 DEF Numbered
  <2> QED
    BY <1>1, <2>1, <2>2, <2>3 DEF Grows
<1>2. CASE out.msg.kind = "beat"
  BY <1>2 DEF OutOK, Grows
<1> QED
  BY <1>1, <1>2, OutFields

LEMMA OutNone ==
    ASSUME out' \in {None, Other}
    PROVE  OutOK'
  BY DEF OutOK, Writing

(* The queues when a message leaves or joins. *)
LEMMA WayBackAppend ==
    ASSUME TypeOK, WayBack, Grows, NEW x \in Replies, ReplyOK(x)', toMaster' = Append(toMaster, x)
    PROVE  WayBack' /\ toMaster' \in Seq(Replies)
<1>1. ASSUME NEW j \in 1 .. Len(toMaster) + 1 PROVE ReplyOK(toMaster[j])'
  <2>1. CASE j = Len(toMaster) + 1
    <3>1. toMaster'[j] = x
      BY <2>1, AppendFacts DEF TypeOK
    <3> QED
      BY <3>1 DEF ReplyOK, Justified, Numbered
  <2>2. CASE j \in 1 .. Len(toMaster)
    <3>1. toMaster'[j] = toMaster[j]
      BY <2>2, AppendFacts DEF TypeOK
    <3>2. ReplyOK(toMaster[j])'
      BY <2>2, ReplyGrows DEF WayBack
    <3> QED
      BY <3>1, <3>2 DEF ReplyOK, Justified, Numbered
  <2> QED
    BY <2>1, <2>2, ElementFacts DEF TypeOK
<1>2. Len(toMaster') = Len(toMaster) + 1 /\ toMaster' \in Seq(Replies)
  BY AppendFacts DEF TypeOK
<1> QED
  BY <1>1, <1>2 DEF WayBack

LEMMA WayBackTail ==
    ASSUME TypeOK, WayBack, Grows, toMaster # <<>>, toMaster' = Tail(toMaster)
    PROVE  WayBack' /\ toMaster' \in Seq(Replies)
<1>1. ASSUME NEW j \in 1 .. Len(Tail(toMaster)) PROVE ReplyOK(toMaster[j])'
  <2>1. PICK x : x = toMaster[j + 1]
    OBVIOUS
  <2>2. j + 1 \in 1 .. Len(toMaster) /\ toMaster'[j] = x
    BY <1>1, <2>1, TailFacts DEF TypeOK
  <2>3. ReplyOK(x)
    BY <2>1, <2>2 DEF WayBack
  <2>4. ReplyOK(x)'
    BY <2>3, ReplyGrows
  <2> QED
    BY <2>2, <2>4 DEF ReplyOK, Justified, Numbered
<1> QED
  BY <1>1, TailFacts DEF WayBack, TypeOK

LEMMA WayToApAppend ==
    ASSUME TypeOK, WayToAp, Grows, UNCHANGED <<held, result>>,
           NEW x \in Messages, MessageOK(x)', toAp' = Append(toAp, x),
           x.kind = "cmd" => ~Written(x.cmd)
    PROVE  WayToAp' /\ toAp' \in Seq(Messages)
<1>1. /\ toAp' \in Seq(Messages) /\ Len(toAp') = Len(toAp) + 1 /\ Len(toAp) \in Nat
      /\ \A j \in 1 .. Len(toAp) : toAp'[j] = toAp[j]
      /\ toAp'[Len(toAp) + 1] = x
  BY AppendFacts DEF TypeOK
<1>2. ASSUME NEW j \in 1 .. Len(toAp)
      PROVE  MessageOK(toAp[j])' /\ (BothCommands(toAp[j], x) => toAp[j].cmd # x.cmd)
  <2>1. toAp[j] \in Messages /\ MessageOK(toAp[j])
    BY <1>2, ElementFacts DEF TypeOK, WayToAp
  <2>2. MessageOK(toAp[j])'
    BY <2>1, MessageGrows
  <2> QED
    BY <2>1, <2>2 DEF MessageOK, BothCommands
<1>3. ASSUME held # None
      PROVE  MessageOK(held)' /\ (BothCommands(held, x) => held.cmd # x.cmd)
  <2>1. held \in Messages /\ MessageOK(held)
    BY <1>3 DEF TypeOK, WayToAp
  <2>2. MessageOK(held)'
    BY <2>1, MessageGrows
  <2> QED
    BY <2>1, <2>2 DEF MessageOK, BothCommands
<1>4. (\A j \in 1 .. Len(toAp) : MessageOK(toAp[j]))'
  <2> SUFFICES ASSUME NEW j \in 1 .. Len(toAp') PROVE MessageOK(toAp[j])'
    OBVIOUS
  <2>1. CASE j = Len(toAp) + 1
    BY <2>1, <1>1 DEF MessageOK, Written
  <2>2. CASE j \in 1 .. Len(toAp)
    <3>1. toAp'[j] = toAp[j]
      BY <2>2, <1>1
    <3>2. MessageOK(toAp[j])'
      BY <2>2, <1>2
    <3> QED
      BY <3>1, <3>2 DEF MessageOK, Written
  <2> QED
    BY <2>1, <2>2, <1>1
<1>5. \A j, k \in 1 .. Len(toAp') :
          BothCommands(toAp'[j], toAp'[k]) /\ toAp'[j].cmd = toAp'[k].cmd => j = k
  <2> SUFFICES ASSUME NEW j \in 1 .. Len(toAp'), NEW k \in 1 .. Len(toAp'),
                      BothCommands(toAp'[j], toAp'[k]), toAp'[j].cmd = toAp'[k].cmd
               PROVE  j = k
    OBVIOUS
  <2>1. CASE j \in 1 .. Len(toAp) /\ k \in 1 .. Len(toAp)
    BY <2>1, <1>1 DEF WayToAp
  <2>2. CASE j = Len(toAp) + 1 /\ k \in 1 .. Len(toAp)
    BY <2>2, <1>1, <1>2 DEF BothCommands
  <2>3. CASE j \in 1 .. Len(toAp) /\ k = Len(toAp) + 1
    BY <2>3, <1>1, <1>2 DEF BothCommands
  <2> QED
    BY <2>1, <2>2, <2>3, <1>1
<1>6. held # None => \A j \in 1 .. Len(toAp') : BothCommands(held, toAp'[j]) => held.cmd # toAp'[j].cmd
  <2> SUFFICES ASSUME held # None, NEW j \in 1 .. Len(toAp'), BothCommands(held, toAp'[j])
               PROVE  held.cmd # toAp'[j].cmd
    OBVIOUS
  <2>1. CASE j = Len(toAp) + 1
    BY <2>1, <1>1, <1>3
  <2>2. CASE j \in 1 .. Len(toAp)
    BY <2>2, <1>1 DEF WayToAp
  <2> QED
    BY <2>1, <2>2, <1>1
<1> QED
  BY <1>1, <1>3, <1>4, <1>5, <1>6 DEF WayToAp, BothCommands

LEMMA WayToApTail ==
    ASSUME TypeOK, WayToAp, Grows, UNCHANGED result, held = None,
           toAp # <<>>, held' = Head(toAp), toAp' = Tail(toAp)
    PROVE  WayToAp' /\ toAp' \in Seq(Messages) /\ held' \in Messages
<1>1. /\ toAp' \in Seq(Messages) /\ Len(toAp) \in Nat /\ Len(toAp') = Len(toAp) - 1
      /\ \A j \in 1 .. Len(toAp') : j + 1 \in 1 .. Len(toAp) /\ toAp'[j] = toAp[j + 1]
      /\ held' = toAp[1] /\ held' \in Messages /\ 1 \in 1 .. Len(toAp)
  BY TailFacts DEF TypeOK
<1>2. ASSUME NEW x, NEW j \in 1 .. Len(toAp), x = toAp[j] PROVE MessageOK(x)'
  <2>1. x \in Messages /\ MessageOK(x)
    BY <1>2, ElementFacts DEF TypeOK, WayToAp
  <2> QED
    BY <2>1, MessageGrows
<1>3. MessageOK(held)'
  <2>1. PICK x : x = toAp[1]
    OBVIOUS
  <2>2. MessageOK(x)' /\ held' = x
    BY <2>1, <1>1, <1>2
  <2> QED
    BY <2>2 DEF MessageOK, Written
<1>4. (\A j \in 1 .. Len(toAp) : MessageOK(toAp[j]))'
  <2> SUFFICES ASSUME NEW j \in 1 .. Len(toAp') PROVE MessageOK(toAp[j])'
    OBVIOUS
  <2>1. PICK x : x = toAp[j + 1]
    OBVIOUS
  <2>2. MessageOK(x)' /\ toAp'[j] = x
    BY <2>1, <1>1, <1>2
  <2> QED
    BY <2>2 DEF MessageOK, Written
<1>5. \A j, k \in 1 .. Len(toAp') :
          BothCommands(toAp'[j], toAp'[k]) /\ toAp'[j].cmd = toAp'[k].cmd => j = k
  <2> SUFFICES ASSUME NEW j \in 1 .. Len(toAp'), NEW k \in 1 .. Len(toAp'),
                      BothCommands(toAp'[j], toAp'[k]), toAp'[j].cmd = toAp'[k].cmd
               PROVE  j = k
    OBVIOUS
  <2>1. j + 1 = k + 1
    BY <1>1 DEF WayToAp
  <2> QED
    BY <2>1
<1>6. \A j \in 1 .. Len(toAp') : BothCommands(held', toAp'[j]) => held'.cmd # toAp'[j].cmd
  <2> SUFFICES ASSUME NEW j \in 1 .. Len(toAp'), BothCommands(held', toAp'[j]), held'.cmd = toAp'[j].cmd
               PROVE  FALSE
    OBVIOUS
  <2>1. 1 = j + 1
    BY <1>1 DEF WayToAp
  <2> QED
    BY <2>1
<1> QED
  BY <1>1, <1>3, <1>4, <1>5, <1>6 DEF WayToAp, BothCommands

(* A connection that ends or begins has nothing on its way. *)
LEMMA EmptyWays ==
    ASSUME TypeOK, WayToAp, Grows, UNCHANGED <<held, result>>, toAp' = <<>>, toMaster' = <<>>
    PROVE  WayToAp' /\ WayBack' /\ toAp' \in Seq(Messages) /\ toMaster' \in Seq(Replies)
<1>1. toAp' \in Seq(Messages) /\ toMaster' \in Seq(Replies) /\ 1 .. Len(toAp') = {} /\ 1 .. Len(toMaster') = {}
  OBVIOUS
<1>2. held # None => MessageOK(held)'
  BY MessageGrows DEF TypeOK, WayToAp
<1> QED
  BY <1>1, <1>2 DEF WayToAp, WayBack

(* What the AP has handled stays written. *)
LEMMA HandledSame ==
    ASSUME TypeOK, HandledIsWritten, Grows, UNCHANGED result
    PROVE  HandledIsWritten'
  BY DEF HandledIsWritten, Grows

-----------------------------------------------------------------------------
(* The controller starts with no connection and no command. *)
LEMMA InitIInv == Init => IInv
<1> SUFFICES ASSUME Init PROVE IInv
  OBVIOUS
<1>1. TypeOK
  <2>1. msgMap \in [Ids -> Entries \union {None}] /\ 0 \in Ids
    BY CommandsAssumption DEF Init, Ids
  <2>2. open \in BOOLEAN /\ cut \in BOOLEAN /\ closing \in BOOLEAN /\ beatLive \in BOOLEAN
    BY DEF Init
  <2>3. conn \in 0 .. MaxConn /\ currentId \in [0 .. MaxConn -> Ids] /\ agent \in [Cmds -> 0 .. MaxConn]
        /\ laps \in [0 .. MaxConn -> Nat] /\ lap \in [Cmds -> Nat]
    BY <2>1, CommandsAssumption DEF Init
  <2>4. msgId \in [Cmds -> Ids] /\ beatSeq \in Ids /\ beats \in 0 .. MaxBeats
    BY <2>1, CommandsAssumption DEF Init
  <2>5. toAp \in Seq(Messages) /\ toMaster \in Seq(Replies)
    BY DEF Init
  <2> QED
    BY <2>1, <2>2, <2>3, <2>4, <2>5 DEF Init, TypeOK
<1>2. NumbersUnique /\ HandledIsWritten /\ OutOK
  BY DEF Init, NumbersUnique, HandledIsWritten, Numbered, OutOK, Writing
<1>3. WayToAp /\ WayBack
  BY DEF Init, WayToAp, WayBack
<1>4. Buffer
  BY DEF Init, Buffer
<1> QED
  BY <1>1, <1>2, <1>3, <1>4 DEF IInv

LEMMA LinkStep == IInv /\ (Connect \/ CloseEnd) => IInv'
<1> SUFFICES ASSUME IInv, Connect \/ CloseEnd PROVE IInv'
  OBVIOUS
<1> USE DEF IInv
<1>1. /\ UNCHANGED <<held, result, msgMap, currentId, laps, agent, msgId, lap, pc, out>>
      /\ UNCHANGED <<beatSeq, beats, beatIds, outcome>>
      /\ toAp' = <<>> /\ toMaster' = <<>>
  BY DEF Connect, CloseEnd, runnable, numbers, ap
<1>2. Grows
  BY <1>1 DEF Grows, Numbered, Written
<1>3. WayToAp' /\ WayBack' /\ toAp' \in Seq(Messages) /\ toMaster' \in Seq(Replies)
  BY <1>1, <1>2, EmptyWays
<1>4. TypeOK'
  <2>1. conn' \in 0 .. MaxConn
    BY CommandsAssumption DEF TypeOK, Connect, CloseEnd
  <2>2. open' \in BOOLEAN /\ cut' \in BOOLEAN /\ closing' \in BOOLEAN /\ beatLive' \in BOOLEAN
    BY DEF TypeOK, Connect, CloseEnd, ap
  <2> QED
    BY <1>1, <1>3, <2>1, <2>2 DEF TypeOK
<1>5. NumbersUnique' /\ OutOK'
  BY <1>1, <1>2, NumbersSame, OutSame DEF Numbered
<1> QED
  BY <1>1, <1>2, <1>3, <1>4, <1>5, BufferSame, HandledSame

LEMMA BreakStep == IInv /\ (Break \/ CloseEnter \/ OtherEnters \/ OtherEnds) => IInv'
<1> SUFFICES ASSUME IInv, Break \/ CloseEnter \/ OtherEnters \/ OtherEnds PROVE IInv'
  OBVIOUS
<1> USE DEF IInv
<1>1. /\ UNCHANGED <<conn, open, held, result, msgMap, currentId, laps, agent, msgId, lap, pc, toMaster>>
      /\ UNCHANGED <<beatSeq, beatLive, beats, beatIds, outcome>>
      /\ toAp' \in {toAp, <<>>} /\ (out' = out \/ out' \in {None, Other})
  BY DEF Break, CloseEnter, OtherEnters, OtherEnds, socket, runnable, numbers, ap
<1>2. Grows
  BY <1>1 DEF Grows, Numbered, Written
<1>3. WayToAp' /\ toAp' \in Seq(Messages)
  <2>1. CASE toAp' = toAp
    BY <2>1, <1>1, <1>2, WayToApSame DEF TypeOK
  <2>2. CASE toAp' = <<>>
    <3>1. toAp' \in Seq(Messages) /\ 1 .. Len(toAp') = {}
      BY <2>2
    <3>2. held # None => MessageOK(held)'
      BY <1>1, <1>2, MessageGrows DEF TypeOK, WayToAp
    <3> QED
      BY <1>1, <3>1, <3>2 DEF WayToAp
  <2> QED
    BY <1>1, <2>1, <2>2
<1>4. TypeOK'
  <2>1. cut' \in BOOLEAN /\ closing' \in BOOLEAN
    BY DEF TypeOK, Break, CloseEnter, OtherEnters, OtherEnds, socket
  <2>2. out' \in Writes \union {None, Other}
    BY <1>1 DEF TypeOK
  <2> QED
    BY <1>1, <1>3, <2>1, <2>2 DEF TypeOK
<1>5. NumbersUnique' /\ OutOK'
  BY <1>1, <1>2, NumbersSame, OutSame, OutNone DEF Numbered
<1> QED
  BY <1>1, <1>2, <1>3, <1>4, <1>5, BufferSame, HandledSame, WayBackSame

LEMMA IssueStep == ASSUME IInv, NEW m \in Cmds, Issue(m) PROVE IInv'
<1> USE DEF IInv
<1>1. /\ UNCHANGED <<held, result, msgMap, currentId, laps, msgId, lap, toAp, toMaster, out>>
      /\ pc[m] = "idle" /\ pc' = [pc EXCEPT ![m] = "issued"]
      /\ agent' = [agent EXCEPT ![m] = conn]
      /\ beatIds' = beatIds
  BY DEF Issue, numbers, ap
<1>2. \A n \in Cmds : /\ Numbered(n)' <=> Numbered(n)
                      /\ Written(n)' <=> Written(n)
                      /\ Numbered(n) => agent'[n] = agent[n]
                      /\ pc[n] = "writing" => pc'[n] = "writing"
  BY <1>1 DEF Numbered, Written, TypeOK
<1>3. Grows
  BY <1>1, <1>2 DEF Grows
<1>4. TypeOK'
  BY DEF TypeOK, Issue, socket, numbers, ap
<1>5. NumbersUnique' /\ OutOK'
  BY <1>1, <1>2, <1>3, OutSame DEF NumbersUnique
<1> QED
  BY <1>1, <1>3, <1>4, <1>5, BufferSame, HandledSame, WayToApSame, WayBackSame

LEMMA NumberStep == ASSUME IInv, NEW m \in Cmds, Number(m) PROVE IInv'
<1> USE DEF IInv
<1>1. /\ UNCHANGED <<conn, open, cut, closing, out, agent, held, result, msgMap, toAp, toMaster>>
      /\ UNCHANGED <<beatSeq, beatLive, beats, beatIds, outcome>>
      /\ pc[m] = "issued" /\ pc' = [pc EXCEPT ![m] = "numbered"]
  BY DEF Number, socket, ap
<1>2. PICK c \in 0 .. MaxConn : c = agent[m]
  BY DEF TypeOK
<1>3. PICK i : i = IF currentId[c] + 1 > MaxId THEN (currentId[c] + 1) - MaxId ELSE currentId[c] + 1
  OBVIOUS
<1>4. PICK l : l = IF currentId[c] + 1 > MaxId THEN laps[c] + 1 ELSE laps[c]
  OBVIOUS
<1>5. currentId[c] \in Nat /\ laps[c] \in Nat /\ i \in Ids /\ i \in Nat /\ l \in Nat
  <2>1. currentId[c] \in 0 .. MaxId /\ laps[c] \in Nat /\ MaxId \in Nat /\ MaxId # 0
    BY <1>2, CommandsAssumption DEF TypeOK, Ids
  <2> QED
    BY <1>3, <1>4, <2>1 DEF Ids
<1>6. /\ currentId' = [currentId EXCEPT ![c] = i] /\ laps' = [laps EXCEPT ![c] = l]
      /\ msgId' = [msgId EXCEPT ![m] = i] /\ lap' = [lap EXCEPT ![m] = l]
  <2>1. currentId' = [currentId EXCEPT ![c] = i]
    BY <1>2, <1>3 DEF Number
  <2>2. laps' = [laps EXCEPT ![c] = l]
    BY <1>2, <1>4 DEF Number, TypeOK
  <2>3. currentId'[c] = i /\ laps'[c] = l
    BY <1>2, <2>1, <2>2 DEF TypeOK
  <2> QED
    BY <1>2, <2>1, <2>2, <2>3 DEF Number
<1>7. \A n \in Cmds : n # m => /\ Numbered(n)' <=> Numbered(n)
                               /\ Written(n)' <=> Written(n)
                               /\ msgId'[n] = msgId[n] /\ lap'[n] = lap[n]
                               /\ pc'[n] = pc[n]
  BY <1>1, <1>6 DEF Numbered, Written, TypeOK
<1>8. ~Numbered(m) /\ ~Written(m) /\ ~Written(m)'
  BY <1>1 DEF Numbered, Written, TypeOK
<1>9. Grows
  BY <1>1, <1>7, <1>8 DEF Grows
<1>10. TypeOK'
  BY <1>1, <1>5, <1>6 DEF TypeOK
<1>11. NumbersUnique'
  <2>1. \A n \in Cmds : /\ msgId[n] \in Nat /\ lap[n] \in Nat /\ agent[n] \in 0 .. MaxConn
                        /\ currentId[agent[n]] \in Nat /\ laps[agent[n]] \in Nat
    BY DEF TypeOK, Ids
  <2>2. /\ msgId'[m] = i /\ lap'[m] = l
        /\ \A n \in Cmds : agent[n] = c => currentId'[agent[n]] = i /\ laps'[agent[n]] = l
        /\ \A n \in Cmds : agent[n] # c => /\ currentId'[agent[n]] = currentId[agent[n]]
                                         /\ laps'[agent[n]] = laps[agent[n]]
    BY <1>2, <1>6 DEF TypeOK
  <2>3. l > laps[c] \/ (l = laps[c] /\ i = currentId[c] + 1)
    BY <1>3, <1>4, <1>5
  <2>4. ASSUME NEW n \in Cmds, n # m, Numbered(n)', agent[n] = c
        PROVE  /\ lap'[n] <= l /\ (lap'[n] = l => msgId'[n] < i)
    <3>1. lap[n] <= laps[c] /\ (lap[n] = laps[c] => msgId[n] <= currentId[c])
      BY <1>7, <2>4 DEF NumbersUnique
    <3> QED
      BY <1>5, <1>7, <2>1, <2>3, <2>4, <3>1
  <2>5. ASSUME NEW n \in Cmds, Numbered(n)'
        PROVE  /\ lap'[n] <= laps'[agent'[n]]
               /\ lap'[n] = laps'[agent'[n]] => msgId'[n] <= currentId'[agent'[n]]
    <3>1. CASE n = m
      BY <1>1, <1>2, <1>5, <2>2, <3>1
    <3>2. CASE n # m /\ agent[n] = c
      BY <1>1, <1>5, <1>7, <2>1, <2>2, <2>4, <2>5, <3>2
    <3>3. CASE n # m /\ agent[n] # c
      BY <1>1, <1>7, <2>2, <2>5, <3>3 DEF NumbersUnique
    <3> QED
      BY <3>1, <3>2, <3>3
  <2>6. ASSUME NEW n \in Cmds, NEW k \in Cmds, Numbered(n)', Numbered(k)', agent'[n] = agent'[k],
               lap'[n] = lap'[k], msgId'[n] = msgId'[k]
        PROVE  n = k
    <3>1. CASE n # m /\ k # m
      BY <1>1, <1>7, <2>6, <3>1 DEF NumbersUnique
    <3>2. ASSUME NEW j \in Cmds, j # m, Numbered(j)', agent[j] = c, lap'[j] = l, msgId'[j] = i
          PROVE  FALSE
      BY <1>5, <2>4, <3>2
    <3>3. CASE n = m /\ k # m
      BY <1>1, <1>2, <2>2, <2>6, <3>2, <3>3
    <3>4. CASE n # m /\ k = m
      BY <1>1, <1>2, <2>2, <2>6, <3>2, <3>4
    <3> QED
      BY <3>1, <3>3, <3>4
  <2> QED
    BY <2>5, <2>6 DEF NumbersUnique
<1>12. OutOK'
  BY <1>1, <1>7, <1>9, OutSame DEF TypeOK
<1> QED
  BY <1>1, <1>9, <1>10, <1>11, <1>12, BufferSame, HandledSame, WayToApSame, WayBackSame

LEMMA EnterWriteStep == ASSUME IInv, NEW m \in Cmds, EnterWrite(m) PROVE IInv'
<1> USE DEF IInv
<1>1. /\ UNCHANGED <<conn, open, cut, closing, currentId, laps, agent, msgId, lap, msgMap, toAp, toMaster>>
      /\ UNCHANGED <<held, beatSeq, beatLive, beats, beatIds, result, outcome>>
      /\ pc[m] = "numbered" /\ pc' = [pc EXCEPT ![m] = "writing"]
  BY DEF EnterWrite, socket, numbers, ap
<1>2. \A n \in Cmds : (Numbered(n)' <=> Numbered(n)) /\ (Written(n)' <=> Written(n))
  BY <1>1 DEF Numbered, Written, TypeOK
<1>3. Grows
  BY <1>1, <1>2 DEF Grows
<1>4. PICK x : x = [kind |-> "cmd", id |-> msgId[m], cmd |-> m]
  OBVIOUS
<1>5. x \in Messages /\ x.kind = "cmd" /\ x.id = msgId[m] /\ x.cmd = m
  BY <1>4, CmdMessage DEF TypeOK
<1>6. out' = [to |-> agent[m], msg |-> x]
  BY <1>4 DEF EnterWrite
<1>7. out' \in Writes /\ out'.msg = x
  BY <1>5, <1>6 DEF Writes, TypeOK
<1>8. OutOK'
  BY <1>1, <1>5, <1>7 DEF OutOK, TypeOK
<1>9. TypeOK'
  BY <1>1, <1>7 DEF TypeOK
<1>10. NumbersUnique'
  BY <1>1, <1>2, NumbersSame
<1> QED
  BY <1>1, <1>3, <1>8, <1>9, <1>10, BufferSame, HandledSame, WayToApSame, WayBackSame

(* The writer leaves Master's monitor: the command it wrote, if it was one, *)
(* goes on from "writing".                                                  *)
LEMMA WriterLeaves ==
    ASSUME TypeOK, OutOK, Writing, UNCHANGED <<agent, msgId, lap, result, beatIds>>, out' = None,
           NEW there \in {"written", "failed"}, WriterIs(there)
    PROVE  /\ Grows /\ OutOK' /\ pc' \in [Cmds -> {"idle", "issued", "numbered", "writing", "written",
                                                  "failed", "stored", "checked"}]
           /\ \A n \in Cmds : Numbered(n)' => Numbered(n)
<1>1. CASE out.msg.kind = "beat"
  <2>1. pc' = pc
    BY <1>1 DEF WriterIs
  <2> QED
    BY <2>1, OutNone DEF Grows, Numbered, Written, TypeOK
<1>2. CASE out.msg.kind = "cmd"
  <2>1. PICK m \in Cmds : m = out.msg.cmd
    BY <1>2, OutFields
  <2>2. pc[m] = "writing" /\ pc' = [pc EXCEPT ![m] = there]
    BY <1>2, <2>1 DEF OutOK, WriterIs
  <2>3. pc' \in [Cmds -> {"idle", "issued", "numbered", "writing", "written", "failed", "stored", "checked"}]
    BY <2>2 DEF TypeOK
  <2>4. \A n \in Cmds : (Numbered(n)' <=> Numbered(n)) /\ (Written(n) => Written(n)')
    BY <2>2 DEF Numbered, Written, TypeOK
  <2>5. Grows
    BY <2>4 DEF Grows
  <2> QED
    BY <2>3, <2>4, <2>5, OutNone
<1> QED
  BY <1>1, <1>2, OutFields

LEMMA WriteStep == IInv /\ Write => IInv'
<1> SUFFICES ASSUME IInv, Write PROVE IInv'
  OBVIOUS
<1> USE DEF IInv
<1>1. /\ UNCHANGED <<conn, open, cut, closing, currentId, laps, agent, msgId, lap, msgMap, toMaster>>
      /\ UNCHANGED <<held, beatSeq, beatLive, beats, beatIds, result, outcome>>
      /\ Writing /\ WriterIs("written") /\ out' = None
      /\ toAp' = toAp \/ toAp' = Append(toAp, out.msg)
  BY DEF Write, socket, numbers, ap
<1>2. /\ Grows /\ OutOK' /\ pc' \in [Cmds -> {"idle", "issued", "numbered", "writing", "written",
                                             "failed", "stored", "checked"}]
      /\ \A n \in Cmds : Numbered(n)' => Numbered(n)
  BY <1>1, WriterLeaves
<1>3. WayToAp' /\ toAp' \in Seq(Messages)
  <2>1. CASE toAp' = toAp
    BY <2>1, <1>1, <1>2, WayToApSame DEF TypeOK
  <2>2. CASE toAp' = Append(toAp, out.msg)
    <3>1. PICK x \in Messages : x = out.msg
      BY <1>1, OutFields
    <3>2. CASE x.kind = "cmd"
      <4>1. PICK m \in Cmds : m = x.cmd
        BY <3>1, <3>2, MessageFields
      <4>2. pc[m] = "writing" /\ msgId[m] = x.id /\ pc'[m] = "written"
        BY <1>1, <3>1, <3>2, <4>1 DEF OutOK, WriterIs, TypeOK
      <4>3. ~Written(m) /\ Written(m)' /\ result[m] = "none"
        BY <4>2 DEF Written, TypeOK, HandledIsWritten
      <4>4. MessageOK(x)'
        BY <1>1, <3>2, <4>1, <4>2, <4>3 DEF MessageOK, Written
      <4> QED
        BY <1>1, <1>2, <2>2, <3>1, <4>1, <4>3, <4>4, WayToApAppend
    <3>3. CASE x.kind = "beat"
      <4>1. MessageOK(x)'
        BY <1>1, <3>1, <3>3 DEF MessageOK, OutOK
      <4> QED
        BY <1>1, <1>2, <2>2, <3>1, <3>3, <4>1, WayToApAppend
    <3> QED
      BY <3>2, <3>3, MessageFields
  <2> QED
    BY <1>1, <2>1, <2>2
<1>4. TypeOK'
  BY <1>1, <1>2, <1>3 DEF TypeOK
<1>5. NumbersUnique'
  BY <1>1, <1>2, NumbersSame
<1> QED
  BY <1>1, <1>2, <1>3, <1>4, <1>5, BufferSame, HandledSame, WayBackSame

LEMMA WriteFailsStep == IInv /\ WriteFails => IInv'
<1> SUFFICES ASSUME IInv, WriteFails PROVE IInv'
  OBVIOUS
<1> USE DEF IInv
<1>1. /\ UNCHANGED <<conn, open, cut, closing, currentId, laps, agent, msgId, lap, msgMap, toAp, toMaster>>
      /\ UNCHANGED <<held, beatSeq, beatLive, beats, beatIds, result, outcome>>
      /\ Writing /\ WriterIs("failed") /\ out' = None
  BY DEF WriteFails, socket, numbers, ap
<1>2. /\ Grows /\ OutOK' /\ pc' \in [Cmds -> {"idle", "issued", "numbered", "writing", "written",
                                             "failed", "stored", "checked"}]
      /\ \A n \in Cmds : Numbered(n)' => Numbered(n)
  BY <1>1, WriterLeaves
<1>3. TypeOK'
  BY <1>1, <1>2 DEF TypeOK
<1>4. NumbersUnique'
  BY <1>1, <1>2, NumbersSame
<1> QED
  BY <1>1, <1>2, <1>3, <1>4, BufferSame, HandledSame, WayToApSame, WayBackSame

LEMMA CancelWriteStep == ASSUME IInv, NEW m \in Cmds, CancelWrite(m) PROVE IInv'
<1> USE DEF IInv
<1>1. /\ UNCHANGED <<conn, open, cut, closing, out, currentId, laps, agent, msgId, lap, msgMap, toAp, toMaster>>
      /\ UNCHANGED <<held, beatSeq, beatLive, beats, beatIds, result>>
      /\ pc[m] = "failed" /\ pc' = [pc EXCEPT ![m] = "checked"]
      /\ outcome' \in {outcome, [outcome EXCEPT ![m] = "cancelled"]}
  BY DEF CancelWrite, socket, numbers, ap
<1>2. \A n \in Cmds : /\ Numbered(n)' <=> Numbered(n)
                      /\ Written(n) => Written(n)'
                      /\ pc[n] = "writing" => pc'[n] = "writing"
  BY <1>1 DEF Numbered, Written, TypeOK
<1>3. Grows
  BY <1>1, <1>2 DEF Grows
<1>4. TypeOK'
  BY <1>1 DEF TypeOK
<1>5. NumbersUnique' /\ OutOK'
  BY <1>1, <1>2, <1>3, NumbersSame, OutSame
<1> QED
  BY <1>1, <1>3, <1>4, <1>5, BufferSame, HandledSame, WayToApSame, WayBackSame

LEMMA StoreStep == ASSUME IInv, NEW m \in Cmds, Store(m) PROVE IInv'
<1> USE DEF IInv
<1>1. /\ UNCHANGED <<conn, open, cut, closing, out, currentId, laps, agent, msgId, lap, toAp, toMaster, held, result, beatIds>>
      /\ pc[m] = "written" /\ pc' = [pc EXCEPT ![m] = "stored"]
      /\ msgMap' = [msgMap EXCEPT ![msgId[m]] = [cmd |-> m, status |-> "unreply"]]
  BY DEF Store, socket, numbers, ap
<1>2. \A n \in Cmds : /\ Numbered(n)' <=> Numbered(n)
                      /\ Written(n) => Written(n)'
                      /\ pc[n] = "writing" => pc'[n] = "writing"
  BY <1>1 DEF Numbered, Written, TypeOK
<1>3. Grows
  BY <1>1, <1>2 DEF Grows
<1>4. TypeOK'
  <2>1. [cmd |-> m, status |-> "unreply"] \in Entries
    BY DEF Entries
  <2> QED
    BY <1>1, <2>1 DEF TypeOK, Store, socket, numbers, ap
<1>5. NumbersUnique' /\ OutOK'
  BY <1>1, <1>2, <1>3, NumbersSame, OutSame
<1>6. Buffer'
  <2> SUFFICES ASSUME NEW i \in Ids, msgMap'[i] # None
               PROVE  /\ Numbered(msgMap[i].cmd)' /\ msgId'[msgMap'[i].cmd] = i
                      /\ msgMap'[i].status = "ok" => Justified(i)'
    BY DEF Buffer
  <2>1. CASE i = msgId[m]
    <3>1. msgMap'[i].cmd = m /\ msgMap'[i].status = "unreply"
      BY <1>1, <2>1 DEF TypeOK
    <3> QED
      BY <1>1, <2>1, <3>1 DEF Numbered, TypeOK
  <2>2. CASE i # msgId[m]
    <3>1. msgMap'[i] = msgMap[i] /\ msgMap[i].cmd \in Cmds
      BY <1>1, <2>2, EntryFields DEF TypeOK
    <3>2. PICK n \in Cmds : n = msgMap[i].cmd
      BY <3>1
    <3>3. Numbered(n)' /\ msgId'[n] = i
      BY <1>1, <1>2, <3>1, <3>2 DEF Buffer
    <3>4. msgMap[i].status = "ok" => Justified(i)'
      BY <1>3, <3>1, JustifiedGrows DEF Buffer
    <3> QED
      BY <3>1, <3>2, <3>3, <3>4 DEF Numbered
  <2> QED
    BY <2>1, <2>2
<1> QED
  BY <1>1, <1>3, <1>4, <1>5, <1>6, HandledSame, WayToApSame, WayBackSame

LEMMA CheckStep == ASSUME IInv, NEW m \in Cmds, Check(m) PROVE IInv'
<1> USE DEF IInv
<1>1. /\ UNCHANGED <<conn, open, cut, closing, out, currentId, laps, agent, msgId, lap, toAp, toMaster, held, result, beatIds>>
      /\ pc[m] = "stored" /\ pc' = [pc EXCEPT ![m] = "checked"]
      /\ msgMap' \in {msgMap, [msgMap EXCEPT ![msgId[m]] = None]}
  BY DEF Check, socket, numbers, ap
<1>2. \A n \in Cmds : /\ Numbered(n)' <=> Numbered(n)
                      /\ Written(n) => Written(n)'
                      /\ pc[n] = "writing" => pc'[n] = "writing"
  BY <1>1 DEF Numbered, Written, TypeOK
<1>3. Grows
  BY <1>1, <1>2 DEF Grows
<1>4. TypeOK'
  <2>1. outcome' \in [Cmds -> {"none", "confirmed", "cancelled"}]
    <3>1. CASE msgMap[msgId[m]] = None
      BY <3>1 DEF Check, TypeOK
    <3>2. CASE msgMap[msgId[m]] # None
      <4>1. msgMap[msgId[m]].cmd \in Cmds
        BY <3>2, EntryFields DEF TypeOK
      <4> QED
        BY <3>2, <4>1 DEF Check, Judged, TypeOK
    <3> QED
      BY <3>1, <3>2
  <2>2. msgMap' \in [Ids -> Entries \union {None}]
    BY <1>1 DEF TypeOK
  <2> QED
    BY <1>1, <2>1, <2>2 DEF TypeOK, Check, socket, numbers, ap
<1>5. NumbersUnique' /\ OutOK'
  BY <1>1, <1>2, <1>3, NumbersSame, OutSame
<1>6. Buffer'
  <2> SUFFICES ASSUME NEW i \in Ids, msgMap'[i] # None
               PROVE  /\ Numbered(msgMap[i].cmd)' /\ msgId'[msgMap'[i].cmd] = i
                      /\ msgMap'[i].status = "ok" => Justified(i)'
    BY DEF Buffer
  <2>1. msgMap'[i] = msgMap[i] /\ msgMap[i].cmd \in Cmds
    BY <1>1, EntryFields DEF TypeOK
  <2>2. PICK n \in Cmds : n = msgMap[i].cmd
    BY <2>1
  <2>3. Numbered(n)' /\ msgId'[n] = i
    BY <1>1, <1>2, <2>1, <2>2 DEF Buffer
  <2>4. msgMap[i].status = "ok" => Justified(i)'
    BY <1>3, <2>1, JustifiedGrows DEF Buffer
  <2> QED
    BY <2>1, <2>2, <2>3, <2>4 DEF Numbered
<1> QED
  BY <1>1, <1>3, <1>4, <1>5, <1>6, HandledSame, WayToApSame, WayBackSame

LEMMA AnswerStep == IInv /\ Answer => IInv'
<1> SUFFICES ASSUME IInv, Answer PROVE IInv'
  OBVIOUS
<1> USE DEF IInv
<1>1. /\ UNCHANGED <<conn, open, cut, closing, out, currentId, laps, agent, msgId, lap, pc, toAp, held, result, beatIds, outcome>>
      /\ UNCHANGED <<beatSeq, beatLive, beats>>
      /\ toMaster # <<>> /\ toMaster' = Tail(toMaster)
      /\ Head(toMaster).kind \in {"ok", "err"}
  BY DEF Answer, socket, numbers, ap, runnable
<1>2. PICK r \in Replies : r = Head(toMaster) /\ ReplyOK(r)
  BY <1>1, TailFacts DEF TypeOK, WayBack
<1>3. /\ r.kind \in {"ok", "err"} /\ r.id \in Ids
      /\ msgMap' = IF msgMap[r.id] = None THEN msgMap ELSE [msgMap EXCEPT ![r.id].status = r.kind]
  BY <1>1, <1>2 DEF Answer, Replies
<1>4. Grows
  BY <1>1 DEF Grows, Numbered, Written
<1>5. ASSUME NEW i \in Ids, msgMap[i] # None
      PROVE  /\ msgMap[i] \in Entries /\ msgMap'[i] \in Entries /\ msgMap'[i].cmd = msgMap[i].cmd
             /\ msgMap'[i].status = "ok" => msgMap[i].status = "ok" \/ (i = r.id /\ r.kind = "ok")
  <2>1. msgMap[i] \in Entries
    BY <1>5 DEF TypeOK
  <2>2. CASE i = r.id
    <3>1. msgMap'[i] = [msgMap[i] EXCEPT !.status = r.kind]
      BY <1>3, <1>5, <2>2 DEF TypeOK
    <3> QED
      BY <1>3, <2>1, <2>2, <3>1 DEF Entries
  <2>3. CASE i # r.id
    <3>1. msgMap'[i] = msgMap[i]
      BY <1>3, <2>3 DEF TypeOK
    <3> QED
      BY <2>1, <3>1
  <2> QED
    BY <2>1, <2>2, <2>3
<1>6. ASSUME NEW i \in Ids, msgMap[i] = None PROVE msgMap'[i] = None
  BY <1>3, <1>6 DEF TypeOK
<1>7. TypeOK'
  <2>1. msgMap' \in [Ids -> Entries \union {None}]
    <3>1. DOMAIN msgMap' = Ids /\ msgMap' = [i \in Ids |-> msgMap'[i]]
      BY <1>3 DEF TypeOK
    <3> QED
      BY <1>5, <1>6, <3>1
  <2>2. toMaster' \in Seq(Replies)
    BY <1>1, TailFacts DEF TypeOK
  <2> QED
    BY <1>1, <2>1, <2>2 DEF TypeOK
<1>8. NumbersUnique' /\ OutOK'
  BY <1>1, <1>4, NumbersSame, OutSame DEF Numbered
<1>9. Buffer'
  <2> SUFFICES ASSUME NEW i \in Ids, msgMap'[i] # None
               PROVE  /\ Numbered(msgMap[i].cmd)' /\ msgId'[msgMap'[i].cmd] = i
                      /\ msgMap'[i].status = "ok" => Justified(i)'
    BY DEF Buffer
  <2>1. msgMap[i] # None
    BY <1>6
  <2>2. Numbered(msgMap[i].cmd)' /\ msgId'[msgMap'[i].cmd] = i
    BY <1>1, <1>5, <2>1 DEF Buffer, Numbered
  <2>3. ASSUME msgMap'[i].status = "ok" PROVE Justified(i)
    BY <1>2, <1>5, <2>1, <2>3 DEF Buffer, ReplyOK
  <2> QED
    BY <1>4, <2>2, <2>3, JustifiedGrows
<1> QED
  BY <1>1, <1>4, <1>7, <1>8, <1>9, HandledSame, WayToApSame, WayBackTail

LEMMA EnterEchoStep == IInv /\ EnterEcho => IInv'
<1> SUFFICES ASSUME IInv, EnterEcho PROVE IInv'
  OBVIOUS
<1> USE DEF IInv
<1>1. /\ UNCHANGED <<conn, open, cut, closing, currentId, laps, agent, msgId, lap, pc, msgMap, toAp>>
      /\ UNCHANGED <<held, beatSeq, beatLive, beats, beatIds, result, outcome>>
      /\ toMaster # <<>> /\ toMaster' = Tail(toMaster)
      /\ Head(toMaster).kind = "beat" /\ out' = [to |-> conn, msg |-> Head(toMaster)]
  BY DEF EnterEcho, socket, numbers, ap, runnable
<1>2. PICK r \in Replies : r = Head(toMaster) /\ ReplyOK(r)
  BY <1>1, TailFacts DEF TypeOK, WayBack
<1>3. Grows
  BY <1>1 DEF Grows, Numbered, Written
<1>4. r \in Messages /\ r.kind = "beat" /\ r.id \in beatIds
  BY <1>1, <1>2, BeatIsMessage DEF ReplyOK
<1>5. out' \in Writes /\ out'.msg = r
  BY <1>1, <1>2, <1>4 DEF Writes, TypeOK
<1>6. OutOK'
  BY <1>1, <1>4, <1>5 DEF OutOK
<1>7. WayBack' /\ toMaster' \in Seq(Replies)
  BY <1>1, <1>3, WayBackTail
<1>8. TypeOK'
  BY <1>1, <1>5, <1>7 DEF TypeOK
<1>9. NumbersUnique'
  BY <1>1, NumbersSame DEF Numbered
<1> QED
  BY <1>1, <1>3, <1>6, <1>7, <1>8, <1>9, BufferSame, HandledSame, WayToApSame

LEMMA ApBeatStep == ASSUME IInv, NEW i \in Ids, ApBeat(i) PROVE IInv'
<1> USE DEF IInv
<1>1. /\ UNCHANGED <<conn, open, cut, closing, out, currentId, laps, agent, msgId, lap, pc, msgMap, toAp, held, result, outcome>>
      /\ toMaster' = Append(toMaster, [kind |-> "beat", id |-> i])
      /\ beatSeq' = i /\ beatLive' = FALSE /\ beatIds' = beatIds \union {i}
      /\ beats < MaxBeats /\ beats' = beats + 1
  BY DEF ApBeat, socket, numbers, runnable
<1>2. Grows
  BY <1>1 DEF Grows, Numbered, Written
<1>3. PICK r : r = [kind |-> "beat", id |-> i]
  OBVIOUS
<1>4. r \in Replies /\ r.kind = "beat" /\ r.id = i
  BY <1>3 DEF Replies
<1>5. ReplyOK(r)'
  BY <1>1, <1>4 DEF ReplyOK
<1>6. WayBack' /\ toMaster' \in Seq(Replies)
  BY <1>1, <1>2, <1>3, <1>4, <1>5, WayBackAppend
<1>7. TypeOK'
  <2>1. beats' \in 0 .. MaxBeats /\ beatSeq' \in Ids /\ beatIds' \subseteq Ids
    BY <1>1, CommandsAssumption DEF TypeOK
  <2>2. beatLive' \in BOOLEAN /\ open' \in BOOLEAN /\ cut' \in BOOLEAN /\ closing' \in BOOLEAN
    BY <1>1 DEF TypeOK
  <2> QED
    BY <1>1, <1>6, <2>1, <2>2 DEF TypeOK
<1>8. NumbersUnique' /\ OutOK'
  BY <1>1, <1>2, NumbersSame, OutSame DEF Numbered
<1> QED
  BY <1>1, <1>2, <1>6, <1>7, <1>8, BufferSame, HandledSame, WayToApSame

LEMMA ApReceiveStep == IInv /\ ApReceive => IInv'
<1> SUFFICES ASSUME IInv, ApReceive PROVE IInv'
  OBVIOUS
<1> USE DEF IInv
<1>1. /\ UNCHANGED <<conn, open, cut, closing, out, currentId, laps, agent, msgId, lap, pc, msgMap, toMaster, result, outcome>>
      /\ UNCHANGED <<beatSeq, beatLive, beats, beatIds>>
      /\ held = None /\ toAp # <<>> /\ held' = Head(toAp) /\ toAp' = Tail(toAp)
  BY DEF ApReceive, socket, numbers, runnable
<1>2. Grows
  BY <1>1 DEF Grows, Numbered, Written
<1>3. WayToAp' /\ toAp' \in Seq(Messages) /\ held' \in Messages
  BY <1>1, <1>2, WayToApTail
<1>4. TypeOK'
  BY <1>1, <1>3 DEF TypeOK
<1>5. NumbersUnique' /\ OutOK'
  BY <1>1, <1>2, NumbersSame, OutSame DEF Numbered
<1> QED
  BY <1>1, <1>2, <1>3, <1>4, <1>5, BufferSame, HandledSame, WayBackSame

(* The AP has answered: nothing is held, and the other messages stay. *)
LEMMA WayToApHandled ==
    ASSUME TypeOK, WayToAp, Grows, UNCHANGED toAp, held' = None,
           \A j \in 1 .. Len(toAp) : toAp[j].kind = "cmd" => result'[toAp[j].cmd] = result[toAp[j].cmd]
    PROVE  WayToAp'
<1>1. ASSUME NEW j \in 1 .. Len(toAp) PROVE MessageOK(toAp[j])'
  BY <1>1, MessageGrows, ElementFacts DEF TypeOK, WayToAp
<1> QED
  BY <1>1 DEF WayToAp, BothCommands

LEMMA ReplyStep ==
    ASSUME TypeOK, WayBack, Grows, NEW k \in {"beat", "ok", "err"}, NEW i \in Ids, Reply(k, i),
           (k = "ok") => Justified(i)', k # "beat"
    PROVE  WayBack' /\ toMaster' \in Seq(Replies)
<1>1. CASE toMaster' = toMaster
  BY <1>1, WayBackSame DEF TypeOK
<1>2. CASE toMaster' = Append(toMaster, [kind |-> k, id |-> i])
  <2>1. PICK r : r = [kind |-> k, id |-> i]
    OBVIOUS
  <2>2. r \in Replies /\ r.kind = k /\ r.id = i
    BY <2>1 DEF Replies
  <2>3. ReplyOK(r)'
    BY <2>2 DEF ReplyOK
  <2> QED
    BY <1>2, <2>1, <2>2, <2>3, WayBackAppend
<1> QED
  BY <1>1, <1>2 DEF Reply

LEMMA ApCommandStep == ASSUME IInv, NEW done \in BOOLEAN, ApCommand(done) PROVE IInv'
<1> USE DEF IInv
<1>1. /\ UNCHANGED <<conn, open, cut, closing, out, currentId, laps, agent, msgId, lap, pc, msgMap, toAp, outcome>>
      /\ UNCHANGED <<beatSeq, beatLive, beats, beatIds>>
      /\ held # None /\ held.kind = "cmd" /\ held' = None
      /\ result' = [result EXCEPT ![held.cmd] = IF done THEN "done" ELSE "refused"]
      /\ Reply(IF done THEN "ok" ELSE "err", held.id)
  BY DEF ApCommand, socket, numbers, runnable
<1>2. PICK m \in Cmds : m = held.cmd
  BY <1>1, MessageFields DEF TypeOK
<1>3. held.id \in Ids /\ msgId[m] = held.id /\ Written(m) /\ Numbered(m) /\ result[m] = "none"
  BY <1>1, <1>2, MessageFields DEF TypeOK, WayToAp, MessageOK, Written, Numbered
<1>4. \A n \in Cmds : n # m => result'[n] = result[n]
  BY <1>1, <1>2 DEF TypeOK
<1>5. Grows
  BY <1>1, <1>3, <1>4 DEF Grows, Numbered, Written
<1>6. WayToAp'
  <2>1. ASSUME NEW j \in 1 .. Len(toAp), toAp[j].kind = "cmd"
        PROVE  result'[toAp[j].cmd] = result[toAp[j].cmd]
    <3>1. toAp[j].cmd \in Cmds
      BY <2>1, MessageFields, ElementFacts DEF TypeOK
    <3> QED
      BY <1>1, <1>2, <1>4, <2>1, <3>1 DEF WayToAp, BothCommands
  <2> QED
    BY <1>1, <1>5, <2>1, WayToApHandled
<1>7. result'[m] = IF done THEN "done" ELSE "refused"
  BY <1>1, <1>2 DEF TypeOK
<1>8. WayBack' /\ toMaster' \in Seq(Replies)
  <2>1. PICK i \in Ids : i = held.id
    BY <1>3
  <2>2. done => Justified(i)'
    BY <1>1, <1>3, <1>7, <2>1 DEF Justified, Numbered
  <2>3. CASE done
    BY <1>1, <1>5, <2>1, <2>2, <2>3, ReplyStep
  <2>4. CASE ~done
    BY <1>1, <1>5, <2>1, <2>4, ReplyStep
  <2> QED
    BY <2>3, <2>4
<1>9. TypeOK'
  BY <1>1, <1>2, <1>8 DEF TypeOK
<1>10. HandledIsWritten'
  BY <1>1, <1>3, <1>4 DEF HandledIsWritten, Written
<1>11. NumbersUnique' /\ OutOK'
  BY <1>1, <1>5, NumbersSame, OutSame DEF Numbered
<1> QED
  BY <1>1, <1>5, <1>6, <1>8, <1>9, <1>10, <1>11, BufferSame

LEMMA ApEchoStep == IInv /\ ApEcho => IInv'
<1> SUFFICES ASSUME IInv, ApEcho PROVE IInv'
  OBVIOUS
<1> USE DEF IInv
<1>1. /\ UNCHANGED <<conn, open, cut, closing, out, currentId, laps, agent, msgId, lap, pc, msgMap, toAp, result, outcome>>
      /\ UNCHANGED <<beatSeq, beats, beatIds>>
      /\ held # None /\ held.kind = "beat" /\ held' = None
      /\ Reply(IF held.id = beatSeq THEN "ok" ELSE "err", held.id)
  BY DEF ApEcho, socket, numbers, runnable
<1>2. beatLive' \in BOOLEAN
  BY DEF ApEcho, TypeOK
<1>3. PICK i \in Ids : i = held.id
  BY <1>1, MessageFields DEF TypeOK
<1>4. Grows
  BY <1>1 DEF Grows, Numbered, Written
<1>5. Justified(i)'
  BY <1>1, <1>3 DEF Justified, WayToAp, MessageOK
<1>6. WayToAp'
  BY <1>1, <1>4, WayToApHandled
<1>7. WayBack' /\ toMaster' \in Seq(Replies)
  BY <1>1, <1>3, <1>4, <1>5, ReplyStep
<1>8. TypeOK'
  BY <1>1, <1>2, <1>7 DEF TypeOK
<1>9. NumbersUnique' /\ OutOK'
  BY <1>1, <1>4, NumbersSame, OutSame DEF Numbered
<1> QED
  BY <1>1, <1>4, <1>6, <1>7, <1>8, <1>9, BufferSame, HandledSame

(* Every step of the controller, the executor's threads and the AP. *)
LEMMA NextIInv == IInv /\ [Next]_vars => IInv'
<1> SUFFICES ASSUME IInv, [Next]_vars PROVE IInv'
  OBVIOUS
<1>1. CASE UNCHANGED vars
  <2> USE DEF IInv
  <2>1. Grows
    BY <1>1 DEF Grows, Numbered, Written, vars
  <2>2. TypeOK'
    BY <1>1 DEF TypeOK, vars
  <2>3. NumbersUnique' /\ OutOK'
    BY <1>1, <2>1, NumbersSame, OutSame DEF Numbered, vars
  <2> QED
    BY <1>1, <2>1, <2>2, <2>3, BufferSame, HandledSame, WayToApSame, WayBackSame DEF vars
<1>2. CASE Next
  BY <1>2, LinkStep, BreakStep, IssueStep, NumberStep, EnterWriteStep, WriteStep, WriteFailsStep,
     CancelWriteStep, StoreStep, CheckStep, AnswerStep, EnterEchoStep, ApBeatStep, ApReceiveStep, ApCommandStep, ApEchoStep DEF Next
<1> QED
  BY <1>1, <1>2

(* Two commands with one number have different Agent objects, or that of    *)
(* both started again in between.                                           *)
LEMMA InvImpliesRight == IInv => ConfirmedByRightAnswer
<1> SUFFICES ASSUME IInv, NEW i \in Ids, msgMap[i] # None, msgMap[i].status = "ok", i \notin beatIds
             PROVE  \/ result[msgMap[i].cmd] = "done"
                    \/ \E n \in Cmds : /\ result[n] = "done" /\ msgId[n] = i
                                       /\ \/ agent[n] # agent[msgMap[i].cmd]
                                          \/ lap[n] # lap[msgMap[i].cmd]
  BY DEF ConfirmedByRightAnswer
<1>1. PICK n \in Cmds : result[n] = "done" /\ Numbered(n) /\ msgId[n] = i
  BY DEF IInv, Buffer, Justified
<1>2. PICK m \in Cmds : m = msgMap[i].cmd
  BY EntryFields DEF IInv, TypeOK
<1>3. Numbered(m) /\ msgId[m] = i
  BY <1>2 DEF IInv, Buffer
<1> QED
  BY <1>1, <1>2, <1>3 DEF IInv, NumbersUnique

(* The buffer, the queues and the counters keep their types. *)
THEOREM CommandsTypeOK == Spec => []TypeOK
<1>1. IInv => TypeOK
  BY DEF IInv
<1> QED
  BY <1>1, InitIInv, NextIInv, PTL DEF Spec

(* sendMsgBuffer takes the OK of one command for another's of the same     *)
(* connection only if getMsgId started again between the two, whatever is  *)
(* lost when a connection ends and however executor threads and answers    *)
(* interleave: an OK that is not the command's own is that of a heartbeat, *)
(* of another connection, or of the same number one round of the count     *)
(* away.                                                                   *)
THEOREM CommandsConfirmed == Spec => []ConfirmedByRightAnswer
  BY InvImpliesRight, InitIInv, NextIInv, PTL DEF Spec
================================================================================
