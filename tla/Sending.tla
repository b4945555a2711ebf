------------------------------- MODULE Sending -------------------------------
(***************************************************************************)
(* The send half of Parser: start_message, the forms of send_frame,        *)
(* send_control and send_close, MessageBuilder, and the deflate stream of  *)
(* DeflateExt they compress with.                                          *)
(*                                                                         *)
(* A call returns the frames it compiled in emitted. A payload is its      *)
(* size; a compressed fragment carries the fragments before it that the    *)
(* compressor may refer back to. Of zlib's deflate stream the model keeps  *)
(* that window and whether its last call was a sync flush: flushing again  *)
(* with no input is Z_BUF_ERROR, which _compress asserts never to see.     *)
(***************************************************************************)
EXTENDS WireFrames, Sequences

CONSTANTS
    Masks,               \* !_recv_mask_required: TRUE on the client
    StartOpcodes,        \* opcodes the user starts messages with
    Payloads,            \* sizes of payloads in plain messages
    CompressedPayloads,  \* sizes of payloads in compressed messages
    CompressOpcodes,     \* opcodes the user asks to compress
    BareCompressed,      \* may a compressed message be ended by send_frame(IsFinal::YES)
    Threshold,           \* DeflateConfig::compression_threshold
    CompressBinary,      \* DeflateConfig::default_compress_binary
    ControlLengths,      \* lengths of control payloads
    Codes,               \* codes the user closes with
    MaxFrames,           \* bound: frames of one message
    MaxWindow            \* bound: fragments in the compressor's window

ASSUME StartAssumption == StartOpcodes \subseteq {TEXT, BINARY, PING, PONG}
ASSUME SizesAssumption == Payloads \subseteq Nat /\ CompressedPayloads \subseteq Nat

VARIABLES
    established,         \* ESTABLISHED
    deflate,             \* _deflate_ext: whether it is set, its reset_after_tx
    send_flags,          \* SEND_FRAME, SEND_DEFLATE, SEND_CLOSED, those set
    send_opcode,         \* _send_opcode
    sent_frame_count,    \* _sent_frame_count
    tx,                  \* tx_stream: the window, whether just flushed
    emitted,             \* the frames the last call returned
    aborted              \* an assertion failed

send_vars == <<established, deflate, send_flags, send_opcode, sent_frame_count, tx, emitted, aborted>>

FreshStream == [window |-> <<>>, flushed |-> FALSE]

Sends(flag) == flag \in send_flags

\* The parts that are not empty.
Filled(parts) ==
    LET kept[i \in 0 .. Len(parts)] ==
          IF i = 0 THEN <<>> ELSE IF parts[i] > 0 THEN Append(kept[i - 1], parts[i]) ELSE kept[i - 1]
    IN  kept[Len(parts)]

-------------------------------------------------------------------------------
(* DeflateExt::compress and zlib. *)

\* A sync flush ends a fragment with an empty block, which the last one drops.
CompressedLength(size, fin) == size + (IF fin THEN 1 ELSE 5)

CompressFails(size) == size = 0 /\ tx.flushed

\* Mutant: finalize_message never resets the stream.
StreamAfterTakeover(parts, fin) ==
    [window |-> tx.window \o Filled(parts), flushed |-> TRUE]

\* The stream after compressing fragments, the last of the message if fin.
StreamAfter(parts, fin) ==
    IF fin /\ deflate.reset_after_tx
    THEN FreshStream
    ELSE [window |-> tx.window \o Filled(parts), flushed |-> TRUE]

-------------------------------------------------------------------------------
(* Frames on the wire. *)

SentFrame(op, fin, rsv1, len, size, code) ==
    [op |-> op, fin |-> fin, rsv1 |-> rsv1, rsv23 |-> FALSE, masked |-> Masks,
     len |-> len, size |-> size, corrupt |-> FALSE,
     text |-> IF size = 0 THEN "empty" ELSE "whole", code |-> code]

\* A frame that was not compressed.
PlainItem(f) == [frame |-> f, compressed |-> FALSE, context |-> <<>>]

\* _prepare_frame_header: the count-th frame (from 0) of a message.
Header(count, op, deflated) ==
    [op   |-> IF count > 0 THEN CONTINUE ELSE op,
     rsv1 |-> count = 0 /\ deflated]

\* The i-th of the fragments a call sends as consecutive frames.
FragmentItem(parts, i, fin, op, deflated) ==
    LET h    == Header(sent_frame_count + i - 1, op, deflated)
        last == fin /\ i = Len(parts)
        size == parts[i]
    IN  [frame |-> SentFrame(h.op, last, h.rsv1,
                             IF deflated THEN CompressedLength(size, last) ELSE size, size, 0),
         compressed |-> deflated,
         context |-> IF deflated /\ size > 0 THEN tx.window \o SubSeq(parts, 1, i - 1) ELSE <<>>]

\* The state after data frames, as many as n, of a message.
SentData(n, fin) ==
    /\ sent_frame_count' = IF fin THEN 0 ELSE sent_frame_count + n
    /\ send_flags' = IF fin THEN send_flags \ {"SEND_FRAME", "SEND_DEFLATE"} ELSE send_flags

-------------------------------------------------------------------------------
(* Messages frame by frame: start_message and FrameSender. *)

\* _check_send
MaySend == established /\ ~Sends("SEND_CLOSED") /\ ~aborted

StartMessage(op, compress) ==
    /\ MaySend
    /\ ~Sends("SEND_FRAME")
    /\ compress => op \in CompressOpcodes
    /\ send_opcode' = op
    /\ send_flags' = send_flags \cup {"SEND_FRAME"}
                        \cup {g \in {"SEND_DEFLATE"} : compress /\ deflate.set}
    /\ emitted' = <<>>
    /\ UNCHANGED <<established, deflate, sent_frame_count, tx, aborted>>

InMessage == Sends("SEND_FRAME") /\ ~aborted

\* deflate() returns Z_BUF_ERROR: the assertion in _compress fails.
Aborts(size) == Sends("SEND_DEFLATE") /\ CompressFails(size)

\* send_frame(payload, final) in a message of frames with data.
SendFrame(size, fin) ==
    /\ InMessage
    /\ ~IsControl(send_opcode)
    /\ size \in IF Sends("SEND_DEFLATE") THEN CompressedPayloads ELSE Payloads
    /\ sent_frame_count < MaxFrames \/ fin
    /\ Len(tx.window) < MaxWindow
    /\ aborted' = Aborts(size)
    /\ emitted' = IF aborted' THEN <<>>
                  ELSE <<FragmentItem(<<size>>, 1, fin, send_opcode, Sends("SEND_DEFLATE"))>>
    /\ SentData(1, fin)
    /\ tx' = IF Sends("SEND_DEFLATE") /\ ~aborted' THEN StreamAfter(<<size>>, fin) ELSE tx
    /\ UNCHANGED <<established, deflate, send_opcode>>

\* send_frame(final): a frame without a payload; the last one resets the stream.
SendBareFrame(fin) ==
    /\ InMessage
    /\ ~IsControl(send_opcode)
    /\ Sends("SEND_DEFLATE") => ~fin \/ BareCompressed
    /\ sent_frame_count < MaxFrames \/ fin
    /\ LET h == Header(sent_frame_count, send_opcode, Sends("SEND_DEFLATE")) IN
       emitted' = <<PlainItem(SentFrame(h.op, fin, h.rsv1, 0, 0, 0))>>
    /\ SentData(1, fin)
    /\ tx' = IF fin /\ Sends("SEND_DEFLATE") THEN FreshStream ELSE tx
    /\ UNCHANGED <<established, deflate, send_opcode, aborted>>

-------------------------------------------------------------------------------
(* Control frames. *)

\* _prepare_control_header
ControlFlags(op) ==
    IF op = CLOSE THEN (send_flags \cup {"SEND_CLOSED"}) \ {"SEND_FRAME"} ELSE send_flags

\* send_control, send_ping, send_pong, and send_close: the payload of a CLOSE starts
\* with its code, and what exceeds MAX_CONTROL_PAYLOAD is cut off.
SendControl(op, length, code) ==
    LET len == IF length > MAX_CONTROL_PAYLOAD THEN MAX_CONTROL_PAYLOAD ELSE length
        size == IF op = CLOSE /\ len >= 2 THEN len - 2 ELSE len
    IN
    /\ MaySend
    /\ emitted' = <<PlainItem(SentFrame(op, TRUE, FALSE, len, size, IF op = CLOSE /\ len >= 2 THEN code ELSE 0))>>
    /\ send_flags' = ControlFlags(op)
    /\ UNCHANGED <<established, deflate, send_opcode, sent_frame_count, tx, aborted>>

\* compile_close_payload: a code, then the reason.
SendClose(code, reason) == SendControl(CLOSE, 2 + reason, code)

\* send_frame after start_message with the opcode of a PING or a PONG: SEND_FRAME and
\* SEND_DEFLATE stay, rsv1 is never set, the payload is compressed all the same.
SendOpcodeControl(size) ==
    LET deflated == Sends("SEND_DEFLATE")
        len      == IF deflated THEN CompressedLength(size, TRUE) ELSE size
    IN
    /\ InMessage
    /\ send_opcode \in {PING, PONG}
    /\ MaySend
    /\ size \in IF deflated THEN CompressedPayloads ELSE Payloads
    /\ Len(tx.window) < MaxWindow
    /\ aborted' = Aborts(size)
    /\ emitted' = IF aborted' THEN <<>> ELSE <<PlainItem(SentFrame(send_opcode, TRUE, FALSE, len, len, 0))>>
    /\ tx' = IF deflated /\ ~aborted' THEN StreamAfter(<<size>>, TRUE) ELSE tx
    /\ UNCHANGED <<established, deflate, send_flags, send_opcode, sent_frame_count>>

\* The same without a payload.
SendBareOpcodeControl ==
    /\ InMessage
    /\ send_opcode \in {PING, PONG}
    /\ MaySend
    /\ emitted' = <<PlainItem(SentFrame(send_opcode, TRUE, FALSE, 0, 0, 0))>>
    /\ tx' = IF Sends("SEND_DEFLATE") THEN FreshStream ELSE tx
    /\ UNCHANGED <<established, deflate, send_flags, send_opcode, sent_frame_count, aborted>>

-------------------------------------------------------------------------------
(* MessageBuilder: a whole message in one call. *)

TotalLength(parts) ==
    LET total[i \in 0 .. Len(parts)] == IF i = 0 THEN 0 ELSE total[i - 1] + parts[i]
    IN  total[Len(parts)]

PartLists == {<<a>> : a \in Payloads} \cup {<<a, b>> : a, b \in Payloads \cup {0}}

\* Parser::should_deflate; _deflate_cfg is set where _deflate_ext is.
ShouldDeflate(op, length) ==
    /\ Threshold <= length
    /\ op = TEXT \/ CompressBinary
    /\ length > 0

\* maybe_deflate, then the test in start_message.
BuilderDeflates(wanted, op, length) ==
    /\ deflate.set
    /\ wanted = "yes" \/ (wanted = "default" /\ ShouldDeflate(op, length))

\* send and send_multiframe: a message in one frame for each part that is not empty.
BuildMessage(op, wanted, parts) ==
    LET filled   == Filled(parts)
        deflated == BuilderDeflates(wanted, op, TotalLength(parts))
    IN
    /\ MaySend
    /\ ~Sends("SEND_FRAME")
    /\ Len(parts) <= MaxFrames
    /\ filled # <<>>
    /\ Len(tx.window) + (IF deflated THEN Len(filled) ELSE 0) <= MaxWindow
    /\ \A i \in DOMAIN filled : filled[i] \in IF deflated THEN CompressedPayloads ELSE Payloads
    /\ emitted' = [i \in DOMAIN filled |-> FragmentItem(filled, i, TRUE, op, deflated)]
    /\ send_opcode' = op
    /\ SentData(Len(filled), TRUE)
    /\ tx' = IF deflated THEN StreamAfter(filled, TRUE) ELSE tx
    /\ UNCHANGED <<established, deflate, aborted>>

\* A message of nothing is one frame: the empty payload from send, a bare frame
\* from send_multiframe.
BuildEmptyMessage(op, wanted, bare) ==
    LET deflated == BuilderDeflates(wanted, op, 0)
        h        == Header(sent_frame_count, op, deflated)
    IN
    /\ MaySend
    /\ ~Sends("SEND_FRAME")
    /\ deflated => IF bare THEN BareCompressed ELSE 0 \in CompressedPayloads
    /\ aborted' = (deflated /\ ~bare /\ CompressFails(0))
    /\ emitted' = IF aborted' THEN <<>>
                  ELSE IF bare THEN <<PlainItem(SentFrame(h.op, TRUE, h.rsv1, 0, 0, 0))>>
                  ELSE <<FragmentItem(<<0>>, 1, TRUE, op, deflated)>>
    /\ send_opcode' = op
    /\ SentData(1, TRUE)
    /\ tx' = IF ~deflated \/ aborted' THEN tx
             ELSE IF bare THEN FreshStream ELSE StreamAfter(<<0>>, TRUE)
    /\ UNCHANGED <<established, deflate>>

-------------------------------------------------------------------------------
(* The connection. *)

\* The handshake ends, having negotiated permessage-deflate or not.
Establish(negotiated, reset_after_tx) ==
    /\ ~established /\ ~aborted
    /\ established' = TRUE
    /\ deflate' = IF negotiated THEN [set |-> TRUE, reset_after_tx |-> reset_after_tx] ELSE deflate
    /\ tx' = IF negotiated THEN FreshStream ELSE tx
    /\ emitted' = <<>>
    /\ UNCHANGED <<send_flags, send_opcode, sent_frame_count, aborted>>

\* Parser::reset. _sent_frame_count stays.
Reset ==
    /\ ~aborted
    /\ established' = FALSE
    /\ send_flags' = {}
    /\ tx' = FreshStream
    /\ emitted' = <<>>
    /\ UNCHANGED <<deflate, send_opcode, sent_frame_count, aborted>>

-------------------------------------------------------------------------------

SendInit ==
    /\ established = FALSE
    /\ deflate = [set |-> FALSE, reset_after_tx |-> FALSE]
    /\ send_flags = {}
    /\ send_opcode = CONTINUE
    /\ sent_frame_count = 0
    /\ tx = FreshStream
    /\ emitted = <<>>
    /\ aborted = FALSE

\* The calls of a user.
Call ==
    \/ \E op \in StartOpcodes :
          \/ \E compress \in BOOLEAN : StartMessage(op, compress)
          \/ ~IsControl(op) /\ \E wanted \in {"yes", "no", "default"} :
                /\ wanted # "no" => op \in CompressOpcodes
                /\ \/ \E parts \in PartLists : BuildMessage(op, wanted, parts)
                   \/ \E bare \in BOOLEAN : BuildEmptyMessage(op, wanted, bare)
    \/ \E fin \in BOOLEAN :
          \/ \E size \in Payloads \cup CompressedPayloads : SendFrame(size, fin)
          \/ SendBareFrame(fin)
    \/ \E size \in Payloads \cup CompressedPayloads : SendOpcodeControl(size)
    \/ SendBareOpcodeControl
    \/ \E length \in ControlLengths :
          \/ \E op \in {PING, PONG} : SendControl(op, length, 0)
          \/ \E code \in Codes : SendClose(code, length)
    \/ SendControl(CLOSE, 0, 0)
===============================================================================
