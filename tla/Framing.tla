--------------------------------- MODULE Framing ---------------------------------
(***************************************************************************)
(* How the two ends of a link cut the byte stream back into messages.  A   *)
(* message is Hdr bytes of header, the last of which is its length field,  *)
(* a body, the delimiter ';' and, for NEW_STA and DEL_STA, NULs up to a    *)
(* fixed size.  TCP hands over any number of bytes at a time.              *)
(*                                                                         *)
(* The AP (fnii_receive_msg_thread) receives into the upper half of a      *)
(* buffer of 2 * MaxLen bytes and keeps what is left in front of it.  The  *)
(* controller (ListenServer.handle, Worker) splits at ';' and keeps the    *)
(* last piece in SocketInfo.legacy.                                        *)
(***************************************************************************)
EXTENDS Integers, Sequences, FiniteSetsExt

CONSTANTS
    Hdr,      \* 10 in the code
    MaxLen,   \* MSG_VIF_INFO_MAX_LEN, 68; an ADD_VAP has up to 76 bytes
    Traffic,  \* what a link may carry: [down, up], two sequences of messages
    MaxLinks  \* bound on the links

Messages == [body : Nat, pad : Nat, blanks : SUBSET Nat]

ASSUME FramingAssumption ==
    /\ Hdr \in Nat \ {0} /\ MaxLen \in Nat /\ MaxLinks \in Nat \ {0}
    /\ \A t \in Traffic :
           /\ t.down \in Seq(Messages) /\ t.up \in Seq(Messages)
           /\ \A i \in 1 .. Len(t.down) : t.down[i].pad = 0

VARIABLES
    down,       \* bytes on their way to the AP
    rx,         \* the upper half of msg_buf
    work,       \* the msg_len bytes at msg_alig
    pc,         \* "recv", "parse" or "crashed"
    handled,    \* what fnii_parse_msg was called with, by message; 0 for junk
    clean,      \* nothing was left over from the last link, and no read of
                \* this one was cut where the AP cannot resume
    up,         \* bytes on their way to the controller
    sent,       \* the messages of up when the link was set up
    legacy,     \* SocketInfo.legacy
    processed,  \* the messages that pass Worker.checkLength
    links

vars == <<down, rx, work, pc, handled, clean, up, sent, legacy, processed, links>>

NUL == [m |-> 0, k |-> 0, len |-> 0, c |-> "nul"]

(* The bytes of m, the i-th message of a stream. *)
Msg(i, m) ==
    [k \in 1 .. Hdr + m.body + 1 |->
        [m |-> i, k |-> k, len |-> m.body,
         c |-> IF k > Hdr + m.body THEN "end" ELSE IF k \in m.blanks THEN "blank" ELSE "text"]]
    \o [k \in 1 .. m.pad |-> NUL]

(* The bytes of the first i messages of s, and of all of them. *)
Stream(s) ==
    LET f[i \in 0 .. Len(s)] == IF i = 0 THEN <<>> ELSE f[i - 1] \o Msg(i, s[i])
    IN  f
Bytes(s) == Stream(s)[Len(s)]

Init ==
    /\ \E t \in Traffic : down = Bytes(t.down) /\ up = Bytes(t.up) /\ sent = t.up
    /\ work = <<>> /\ handled = <<>> /\ clean = TRUE
    /\ legacy = <<>> /\ processed = <<>>
    /\ rx = [k \in 1 .. MaxLen |-> NUL]
    /\ pc = "recv" /\ links = 1

-----------------------------------------------------------------------------
(* The AP can resume a message only if the read filled the buffer and what  *)
(* it has of the message fits the lower half, and not if just the delimiter *)
(* is missing.                                                              *)
Resumable(n) ==
    \/ down[n].c = "end"
    \/ n = MaxLen /\ down[n].k <= MaxLen /\ down[n].k # Hdr + down[n].len

Recv(n) ==
    LET chunk == SubSeq(down, 1, n) IN
    /\ pc = "recv"
    /\ rx' = [k \in 1 .. MaxLen |-> IF k <= n THEN down[k] ELSE NUL]
    /\ work' = work \o chunk
    /\ down' = SubSeq(down, n + 1, Len(down))
    /\ clean' = (clean /\ Resumable(n))
    /\ pc' = "parse"
    /\ UNCHANGED <<handled, up, sent, legacy, processed, links>>

(* atoi of the length field; of bytes that are none it may be any number    *)
(* (no body is taken to hold a minus sign).                                 *)
Declared(b) ==
    IF b.k = Hdr THEN {b.len} ELSE IF b = NUL THEN {0} ELSE 0 .. 2 * MaxLen

(* The message that fnii_parse_msg finds in the bytes s, delimiter left out. *)
Found(s) ==
    IF \A k \in 1 .. Len(s) : s[k].m = s[1].m /\ s[k].k = k THEN s[1].m ELSE 0

(* A variant for comparison: the delimiter is not skipped. *)
ParseNoEnd ==
    /\ pc = "parse" /\ Len(work) >= Hdr
    /\ \E L \in Declared(work[Hdr]) :
           /\ L <= Len(work) - Hdr
           /\ handled' = Append(handled, Found(SubSeq(work, 1, Hdr + L)))
           /\ work' = SubSeq(work, Hdr + L + 1, Len(work))
    /\ UNCHANGED <<down, rx, pc, clean, up, sent, legacy, processed, links>>

(* One turn of the inner loop.  The delimiter is not asked for: without it  *)
(* msg_len becomes -1 and memcpy runs off the stack.                        *)
Parse ==
    /\ pc = "parse" /\ Len(work) >= Hdr
    /\ \E L \in Declared(work[Hdr]) :
           /\ L <= Len(work) - Hdr
           /\ handled' = Append(handled, Found(SubSeq(work, 1, Hdr + L)))
           /\ work' = SubSeq(work, Hdr + L + 2, Len(work))
           /\ pc' = IF L = Len(work) - Hdr THEN "crashed" ELSE "parse"
    /\ UNCHANGED <<down, rx, clean, up, sent, legacy, processed, links>>

(* What is left is copied from the end of msg_buf, whatever is there. *)
Keep ==
    LET left == Len(work) IN
    /\ pc = "parse"
    /\ left >= Hdr => \E L \in Declared(work[Hdr]) : L > left - Hdr
    /\ IF left > MaxLen
       THEN pc' = "crashed" /\ UNCHANGED work
       ELSE pc' = "recv" /\ work' = SubSeq(rx, MaxLen - left + 1, MaxLen)
    /\ UNCHANGED <<down, rx, handled, clean, up, sent, legacy, processed, links>>

-----------------------------------------------------------------------------
(* String.trim. *)
Trim(s) ==
    LET I == {i \in 1 .. Len(s) : s[i].c \notin {"nul", "blank"}} IN
    IF I = {} THEN <<>>
    ELSE SubSeq(s, Min(I), Max(I))

(* Worker.checkLength.  A field shifted by at least nine NULs, or one that  *)
(* is not the header's, never equals the length of its message.             *)
CheckLength(s) == Len(s) >= Hdr /\ s[Hdr].k = Hdr /\ s[Hdr].len = Len(s) - Hdr

(* String.split(";"): what is kept and which messages pass, after each byte *)
(* of s; at first the piece kept is put in front.                           *)
Split(piece, s) ==
    LET f[i \in 0 .. Len(s)] ==
            IF i = 0 THEN [kept |-> piece, valid |-> <<>>]
            ELSE IF s[i].c # "end" THEN [f[i - 1] EXCEPT !.kept = Append(@, s[i])]
            ELSE [kept |-> <<>>,
                  valid |-> IF CheckLength(f[i - 1].kept)
                            THEN Append(f[i - 1].valid, f[i - 1].kept[Hdr].m)
                            ELSE f[i - 1].valid]
    IN  f

(* Variants for comparison: the piece kept is not put in front, and the     *)
(* whole message is kept, not its last piece.                               *)
ReadFresh(n) ==
    LET newMsg == Trim(SubSeq(up, 1, n))
        msgs == Split(<<>>, newMsg)[Len(newMsg)]
    IN
    /\ up' = SubSeq(up, n + 1, Len(up))
    /\ legacy' = msgs.kept
    /\ processed' = processed \o msgs.valid
    /\ UNCHANGED <<down, rx, work, pc, handled, clean, sent, links>>

ReadKeepsAll(n) ==
    LET newMsg == Trim(SubSeq(up, 1, n))
        msgs == Split(legacy, newMsg)[Len(newMsg)]
    IN
    /\ up' = SubSeq(up, n + 1, Len(up))
    /\ legacy' = legacy \o newMsg
    /\ processed' = processed \o msgs.valid
    /\ UNCHANGED <<down, rx, work, pc, handled, clean, sent, links>>

(* A readable key; the worker of the socket takes the messages in order. *)
Read(n) ==
    LET newMsg == Trim(SubSeq(up, 1, n))
        msgs == Split(legacy, newMsg)[Len(newMsg)]
    IN
    /\ up' = SubSeq(up, n + 1, Len(up))
    /\ legacy' = msgs.kept
    /\ processed' = processed \o msgs.valid
    /\ UNCHANGED <<down, rx, work, pc, handled, clean, sent, links>>

(* The link breaks with bytes on their way; the controller makes a new      *)
(* SocketInfo.                                                              *)
NewLink ==
    /\ links < MaxLinks /\ pc = "recv"
    /\ \E t \in Traffic : down' = Bytes(t.down) /\ up' = Bytes(t.up) /\ sent' = t.up
    /\ handled' = <<>> /\ legacy' = <<>> /\ processed' = <<>>
    /\ links' = links + 1
    /\ UNCHANGED <<rx, pc>>

(* R sees DISABLE and sets msg_alig back. *)
Relink ==
    /\ NewLink
    /\ work' = <<>> /\ clean' = TRUE

(* R has passed the test of the status already, or comes to it only when    *)
(* the new link is up: the rest stays in front.  Its bytes are no longer    *)
(* those of a message of the link.                                          *)
RelinkMissed ==
    /\ NewLink
    /\ work' = [k \in 1 .. Len(work) |-> [work[k] EXCEPT !.m = 0]]
    /\ clean' = (work = <<>>)

Next ==
    \/ \E n \in 1 .. MaxLen : n <= Len(down) /\ Recv(n)
    \/ Parse \/ Keep
    \/ \E n \in 1 .. Len(up) : Read(n)
    \/ Relink \/ RelinkMissed

Spec == Init /\ [][Next]_vars

-----------------------------------------------------------------------------
Byte == [m : Nat, k : Nat, len : Nat, c : {"text", "blank", "end", "nul"}]

(* What the AP keeps fits in the lower half of its buffer, and the          *)
(* controller keeps no delimiter.                                           *)
TypeOK ==
    /\ \A s \in {down, up, rx, work, legacy} : \A i \in 1 .. Len(s) : s[i] \in Byte
    /\ pc \in {"recv", "parse", "crashed"}
    /\ pc = "recv" => Len(work) <= MaxLen
    /\ \A i \in 1 .. Len(legacy) : legacy[i].c # "end"
    /\ clean \in BOOLEAN /\ links \in 1 .. MaxLinks

(* Wherever the reads are cut and whatever is left over from another link,  *)
(* the AP carries out the commands of a link in order and none twice: what  *)
(* it loses or takes for a command besides (0) is junk.                     *)
(*                                                                          *)
(* It loses none, and what it keeps is the beginning of the next one, as    *)
(* long as the link began with nothing kept and every read ended with a     *)
(* message or filled the buffer, with more than a delimiter missing and no  *)
(* more than a buffer of the message there (see Resumable).  The code does  *)
(* not see to any of this: otherwise a rest is copied from the wrong place, *)
(* or the length becomes -1, or the buffer is too short for the rest, or    *)
(* the first command of a link is appended to the rest of the last.         *)
CommandsInOrder ==
    /\ \A i, j \in 1 .. Len(handled) :
           i < j /\ handled[i] # 0 /\ handled[j] # 0 => handled[i] < handled[j]
    /\ clean =>
        /\ pc # "crashed"
        /\ \A i \in 1 .. Len(handled) : handled[i] = i
        /\ pc = "recv" => \A k \in 1 .. Len(work) :
                              work[k].m = Len(handled) + 1 /\ work[k].k = k

(* The messages whose delimiter the controller has read. *)
Complete == {i \in 1 .. Len(sent) : \A k \in 1 .. Len(up) : up[k].c = "end" => up[k].m # i}

(* However the reads fall, the controller processes reports in order, none  *)
(* twice, and loses none but those with a blank to trim and those that      *)
(* follow the padding of NEW_STA or DEL_STA.                                *)
ReportsInOrder ==
    /\ \A i, j \in 1 .. Len(processed) : i < j => processed[i] < processed[j]
    /\ \A i \in Complete :
           \/ \E j \in 1 .. Len(processed) : processed[j] = i
           \/ sent[i].blanks # {}
           \/ i > 1 /\ sent[i - 1].pad > 0
================================================================================
