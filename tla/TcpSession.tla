----------------------------- MODULE TcpSession -----------------------------
(***************************************************************************)
(* One direction of a TCP connection between two servers: the frames that  *)
(* send_msg writes, the pieces in which they arrive, the buffer they are   *)
(* collected in (TcpBuffer) and the state machine that takes the messages  *)
(* out of it (ProtoCodec::decodedata, driven by TcpSession::recv).         *)
(*                                                                         *)
(* A cell stands for a byte.  A header field of four bytes is two cells,   *)
(* as the marks are, so that a read may end inside any of them.            *)
(***************************************************************************)
EXTENDS Integers, Sequences

CONSTANTS
    Messages,     \* what may be sent: records with a cmd and some data
    BufferSize,   \* cells of a new TcpBuffer: 1024 in the code
    MaxRead,      \* cells of the array handed to async_read_some: 2048
    MaxSent       \* bound on the messages of a run

Cell == 0..255

ASSUME TcpSessionAssumption ==
    /\ Messages \subseteq [cmd : Cell, data : Seq(Cell)]
    /\ \A m \in Messages : Len(m.data) \in Cell
    /\ BufferSize \in Nat /\ BufferSize >= 3
    /\ MaxRead \in Nat \ {0}
    /\ MaxSent \in Nat

LEN == 2                     \* LEN_START, LEN_CMD_ID, ..., LEN_END
PB_START == 238
PB_END == 238

(* The fields of a frame after its start, in the order they are sent. *)
MSG_START == 1
MSG_CMD_ID == 2
MSG_CMD_LEN == 3
MSG_ERR_CODE == 4
MSG_CHECK_NUM == 5
MSG_CONTENT == 6
MSG_END == 7

MsgParseState == MSG_START..MSG_END

encodebytes(m) ==
    <<0, PB_START, 0, m.cmd, 0, Len(m.data), 0, 0, 0, 0>> \o m.data \o <<0, PB_END>>

VARIABLES
    sent, got,    \* messages written, and handed to the handlers
    wire,         \* cells under way
    buffer,       \* m_read_buffer_
    parse,        \* m_st_msg_parse_
    packet,       \* cmd_id_, cmd_len and pb_data of the codec
    repeat,       \* tries left in one run of the loop
    session       \* "reading", "parsing", "stopped" or "crashed"

vars == <<sent, got, wire, buffer, parse, packet, repeat, session>>

-----------------------------------------------------------------------------
(* TcpBuffer *)

Zeros(n) == [i \in 1..n |-> 0]

readAble(b) == b.wr - b.rd
writeAble(b) == Len(b.cells) - b.wr
Unread(b) == SubSeq(b.cells, b.rd + 1, b.wr)

(* The unread cells at the front of a fresh array of n. *)
Moved(b, n) ==
    [cells |-> Unread(b) \o Zeros(n - readAble(b)), rd |-> 0, wr |-> readAble(b)]

MustAdjust(b) == b.rd > Len(b.cells) \div 3

adjustBuffer(b) == IF MustAdjust(b) THEN Moved(b, Len(b.cells)) ELSE b

(* adjustBuffer copies readAble() cells, which may be fewer than none. *)
CopyFaults(b) == MustAdjust(b) /\ readAble(b) < 0

(* Mutant of resizeBuffer: the cells move, the write index does not. *)
resizeBuffer_KeepsWrite(b, n) == [Moved(b, n) EXCEPT !.wr = b.wr + n]

resizeBuffer(b, n) == Moved(b, n)

writeToBuffer(b, s) ==
    LET w == IF Len(s) > writeAble(b)
             THEN resizeBuffer(b, (3 * (b.wr + Len(s))) \div 2)
             ELSE b
    IN  [w EXCEPT !.cells = [i \in 1..Len(w.cells) |->
                                IF i - w.wr \in 1..Len(s) THEN s[i - w.wr] ELSE w.cells[i]],
                  !.wr = @ + Len(s)]

(* Skipped(b, n) is recycleRead before it calls adjustBuffer. *)
Skipped(b, n) == IF b.rd + n > Len(b.cells) THEN b ELSE [b EXCEPT !.rd = @ + n]

(* Mutants of recycleRead: nothing is moved; cells that came late are lost. *)
recycleRead_NoAdjust(b, n) == Skipped(b, n)
recycleRead_Drops(b, n) ==
    LET s == Skipped(b, n) IN IF MustAdjust(s) THEN [s EXCEPT !.rd = 0, !.wr = 0] ELSE s

recycleRead(b, n) == adjustBuffer(Skipped(b, n))

-----------------------------------------------------------------------------
Init ==
    /\ sent = <<>> /\ got = <<>>
    /\ wire = <<>>
    /\ buffer = [cells |-> Zeros(BufferSize), rd |-> 0, wr |-> 0]
    /\ parse = MSG_START
    /\ packet = [cmd |-> 0, len |-> 0, data |-> <<>>]
    /\ repeat = 0
    /\ session = "reading"

(***************************************************************************)
(* send_msg.  A message that serialises to nothing is not sent.            *)
(***************************************************************************)
SendMsg(m) ==
    /\ Len(sent) < MaxSent                      \* bound
    /\ session \in {"reading", "parsing"}
    /\ m.data # <<>>
    /\ sent' = Append(sent, m)
    /\ wire' = wire \o encodebytes(m)
    /\ UNCHANGED <<got, buffer, parse, packet, repeat, session>>

(***************************************************************************)
(* The completion of async_read_some: any piece of what is under way.      *)
(***************************************************************************)
Recv(n) ==
    /\ session = "reading"
    /\ n \in 1..MaxRead /\ n <= Len(wire)
    /\ buffer' = writeToBuffer(buffer, SubSeq(wire, 1, n))
    /\ wire' = SubSeq(wire, n + 1, Len(wire))
    /\ repeat' = 3
    /\ session' = "parsing"
    /\ UNCHANGED <<sent, got, parse, packet>>

(* The connection is lost: what is under way is not read any more. *)
RecvFails ==
    /\ session = "reading"
    /\ session' = "stopped"
    /\ UNCHANGED <<sent, got, wire, buffer, parse, packet, repeat>>

(* Mutant of Enough: the start is not waited for either. *)
Enough_NoStart == IF parse = MSG_CONTENT THEN readAble(buffer) >= packet.len ELSE TRUE

(* Whether decodedata takes the next field: the tail is taken unseen. *)
Enough ==
    CASE parse = MSG_CONTENT -> readAble(buffer) >= packet.len
      [] parse = MSG_END -> TRUE
      [] OTHER -> readAble(buffer) >= LEN

Word == 256 * buffer.cells[buffer.rd + 1] + buffer.cells[buffer.rd + 2]

(* recycleRead, and what the copy it may make does to the process. *)
Recycle(n, then) ==
    IF CopyFaults(Skipped(buffer, n))
    THEN session' = "crashed" /\ UNCHANGED buffer
    ELSE session' = then /\ buffer' = recycleRead(buffer, n)

GoodMark == Word = IF parse = MSG_START THEN PB_START ELSE PB_END

(* The header fields; only the command and the length are used. *)
DecodeHeader ==
    /\ session = "parsing" /\ parse < MSG_CONTENT /\ Enough
    /\ parse = MSG_START => GoodMark
    /\ packet' = CASE parse = MSG_CMD_ID -> [packet EXCEPT !.cmd = Word]
                   [] parse = MSG_CMD_LEN -> [packet EXCEPT !.len = Word]
                   [] OTHER -> packet
    /\ parse' = parse + 1
    /\ Recycle(LEN, "parsing")
    /\ UNCHANGED <<sent, got, wire, repeat>>

DecodeContent ==
    /\ session = "parsing" /\ parse = MSG_CONTENT /\ Enough
    /\ packet' = [packet EXCEPT !.data =
                     SubSeq(buffer.cells, buffer.rd + 1, buffer.rd + packet.len)]
    /\ parse' = MSG_END
    /\ Recycle(packet.len, "parsing")
    /\ UNCHANGED <<sent, got, wire, repeat>>

(* Mutant of DecodeEnd: the loop ends with the message. *)
DecodeEnd_Leaves ==
    /\ session = "parsing" /\ parse = MSG_END /\ GoodMark
    /\ got' = Append(got, [cmd |-> packet.cmd, data |-> packet.data])
    /\ parse' = MSG_START
    /\ Recycle(LEN, "reading")
    /\ UNCHANGED <<sent, wire, packet, repeat>>

(* The tail: the message is handed to its handler and the loop goes on. *)
DecodeEnd ==
    /\ session = "parsing" /\ parse = MSG_END /\ GoodMark
    /\ got' = Append(got, [cmd |-> packet.cmd, data |-> packet.data])
    /\ parse' = MSG_START
    /\ Recycle(LEN, "parsing")
    /\ UNCHANGED <<sent, wire, packet, repeat>>

(***************************************************************************)
(* A mark that is none: one cell is skipped and the same state tried       *)
(* again; the third time in a run of the loop stops the session.           *)
(***************************************************************************)
DecodeFails ==
    /\ session = "parsing" /\ parse \in {MSG_START, MSG_END} /\ Enough /\ ~GoodMark
    /\ repeat' = repeat - 1
    /\ Recycle(1, IF repeat = 1 THEN "stopped" ELSE "parsing")
    /\ UNCHANGED <<sent, got, wire, parse, packet>>

(* No progress: the loop ends and the next read is started. *)
DecodeWaits ==
    /\ session = "parsing" /\ ~Enough
    /\ buffer' = adjustBuffer(buffer)
    /\ session' = "reading"
    /\ UNCHANGED <<sent, got, wire, parse, packet, repeat>>

Parse == DecodeHeader \/ DecodeContent \/ DecodeEnd \/ DecodeFails \/ DecodeWaits

Next ==
    \/ \E m \in Messages : SendMsg(m)
    \/ \E n \in 1..MaxRead : Recv(n)
    \/ RecvFails
    \/ Parse

Spec == Init /\ [][Next]_vars

(* TCP delivers while the connection lasts, and the io thread runs. *)
FairSpec == Spec /\ WF_vars(\E n \in 1..MaxRead : Recv(n)) /\ WF_vars(Parse)

-----------------------------------------------------------------------------
(* The members keep their types, and the two indexes stay in the array. *)
TypeOK ==
    /\ sent \in Seq(Messages)
    /\ got \in Seq([cmd : Nat, data : Seq(Cell)])
    /\ wire \in Seq(Cell)
    /\ buffer.cells \in Seq(Cell)
    /\ buffer.rd \in 0..Len(buffer.cells)
    /\ buffer.wr \in 0..Len(buffer.cells)
    /\ parse \in MsgParseState
    /\ packet.cmd \in Nat /\ packet.len \in Nat /\ packet.data \in Seq(Cell)
    /\ repeat \in 0..3
    /\ session \in {"reading", "parsing", "stopped", "crashed"}

(***************************************************************************)
(* What decodedata copies lies inside m_buffer.  Nothing tests it for the  *)
(* tail, which is read whether it has come or not (codec.cpp:160): it      *)
(* follows from adjustBuffer, which keeps the read index in the first      *)
(* third of the array.                                                     *)
(***************************************************************************)
ReadsStayInBuffer ==
    session = "parsing" =>
        /\ buffer.rd + LEN <= Len(buffer.cells)
        /\ parse = MSG_CONTENT /\ Enough => buffer.rd + packet.len <= Len(buffer.cells)

(***************************************************************************)
(* However the frames are cut into pieces, and whatever the buffer was     *)
(* moved or grown to in between, the handlers see the messages that were   *)
(* sent, whole, in order and once (TcpSession.cpp:64).                     *)
(***************************************************************************)
MessagesArriveInOrder ==
    /\ Len(got) <= Len(sent)
    /\ got = SubSeq(sent, 1, Len(got))

(***************************************************************************)
(* The parser gives a well-formed stream up, or takes the process down,    *)
(* only where a read has ended before or inside the tail of a frame: the   *)
(* one field whose length decodedata does not test (codec.cpp:158).        *)
(***************************************************************************)
OnlySplitTailsStop ==
    [][session = "parsing" /\ session' \in {"stopped", "crashed"} =>
          parse = MSG_END /\ readAble(buffer) < LEN]_vars

(* Every message sent arrives, unless the session ends (TcpSession.cpp:72). *)
AllArrive ==
    \A k \in 1..MaxSent :
        Len(sent) >= k ~> (Len(got) >= k \/ session \in {"stopped", "crashed"})
=============================================================================
