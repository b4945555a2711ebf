------------------------------- MODULE Reception -------------------------------
(***************************************************************************)
(* The receive half of Parser: configure, no_deflate, the handshake's end, *)
(* reset, get_frames and get_messages with the iterators they return.      *)
(*                                                                         *)
(* A getter call appends the chunk it is given to _buffer and parses one   *)
(* frame (FrameStep) or, in message mode, frames until a message is done   *)
(* (MessageStep, one action per turn of the loop in _get_message, with     *)
(* looping TRUE in between). An iterator's ++ is a call with no chunk.     *)
(*                                                                         *)
(* The buffer is a sequence of pieces of frames. A frame arrives whole or  *)
(* cut in two, the cut falling inside the header or inside the payload.    *)
(* When an error makes the parser drop the first half of a cut frame, the  *)
(* second half reaches it as bytes to be parsed afresh: the peer sends any *)
(* frames it likes, so they need no pieces of their own.                   *)
(***************************************************************************)
EXTENDS WireFrames, Sequences

CONSTANTS
    Frames,          \* the frames the peer may send, a subset of FrameType
    Configs,         \* the configurations the user may choose
    MaskRequired,    \* _recv_mask_required: TRUE on the server
    Cuts,            \* where a frame may be cut: a subset of {"header", "payload"}
    NoFrame,         \* no partly received frame
    MaxBuffer,       \* bound: pieces in _buffer
    MaxFragments,    \* bound: fragments of one message, with those in _buffer
    MaxInflated,     \* bound: DeflateExt::message_size when a fragment arrives
    MaxConnections   \* bound: handshakes of one Parser object

ConfigType == [max_frame_size: Nat, max_message_size: Nat,
               check_utf8: BOOLEAN, deflate: BOOLEAN]

Partial == [frame: Frames, part: {"header", "payload"}]

ASSUME FramesAssumption == Frames \subseteq FrameType
ASSUME ConfigsAssumption == Configs \subseteq ConfigType /\ Configs # {}
ASSUME CutsAssumption == Cuts \subseteq {"header", "payload"}
ASSUME MaskAssumption == MaskRequired \in BOOLEAN
ASSUME NoFrameAssumption == NoFrame \notin Partial
ASSUME BoundsAssumption == {MaxBuffer, MaxFragments, MaxInflated, MaxConnections} \subseteq Nat

VARIABLES
    cfg,                   \* _max_frame_size, _max_message_size, _check_utf8 (and cfg.deflate as given)
    deflate_cfg,           \* _deflate_cfg: whether it is set, its max_message_size
    deflate_ext,           \* _deflate_ext: whether it is set, its two message sizes
    flags,                 \* _flags, the members set
    buffer,                \* _buffer
    frame,                 \* _frame: the frame received in part in frame mode
    message_frame,         \* _message_frame: likewise in message mode
    close_message,         \* _message_frame._close_message
    frame_count,           \* _frame_count
    message,               \* _message; EmptyMessage also stands for null
    suggested_close_code,  \* _suggested_close_code
    utf8_pending,          \* _utf8_checker.need_ > 0
    looping,               \* inside the loop of _get_message
    out,                   \* what the last getter call returned
    fragments,             \* history: the data frames accepted of the message in progress
    connections            \* history: [count, negotiated]: handshakes so far, and
                           \*   whether the last one negotiated permessage-deflate

config_vars == <<cfg, deflate_cfg>>
parse_vars  == <<deflate_ext, flags, frame, message_frame, close_message, frame_count,
                 message, suggested_close_code, utf8_pending, fragments>>
vars == <<config_vars, parse_vars, buffer, looping, out, connections>>

Flags == {"ESTABLISHED", "RECV_FRAME", "RECV_MESSAGE", "RECV_INFLATE", "RECV_TEXT",
          "RECV_CLOSED"}

EmptyMessage == [frames |-> <<>>, length |-> 0]

NoDeflate == [set |-> FALSE, max_message_size |-> 0]
NoDeflateExt == [set |-> FALSE, message_size |-> 0, max_message_size |-> 0]

Silent  == [kind |-> "silent",  frames |-> <<>>, error |-> NoError, length |-> 0, reason |-> "empty"]
Refusal == [kind |-> "refused", frames |-> <<>>, error |-> NoError, length |-> 0, reason |-> "empty"]

-------------------------------------------------------------------------------
(* What is buffered, and what may arrive. *)

Whole(f)  == [frame |-> f, part |-> "whole"]
Rest(f)   == [frame |-> f, part |-> "rest"]
IsHead(i) == i.part \in {"header", "payload"}

Heads == {h \in [frame: Frames, part: Cuts] : h.part = "payload" => h.frame.len > 1}

Last == buffer[Len(buffer)]

\* The frame the stream is inside of, after everything handed to the parser.
CutFrame ==
    IF buffer # <<>> /\ IsHead(Last) THEN Last
    ELSE IF buffer # <<>> THEN NoFrame
    ELSE IF frame # NoFrame THEN frame
    ELSE message_frame

Chunks(cut) ==
    LET first == IF cut = NoFrame THEN {Whole(f) : f \in Frames} ELSE {Rest(cut.frame)}
        next  == {Whole(f) : f \in Frames} \cup Heads
    IN  {<<i>> : i \in first} \cup {<<i, j>> : i \in first, j \in next}
          \cup (IF cut = NoFrame THEN {<<i>> : i \in Heads} ELSE {})

\* _buffer with a chunk appended; the two halves of a cut frame meet.
Fed(chunk) ==
    IF chunk # <<>> /\ chunk[1].part = "rest" /\ buffer # <<>>
    THEN [buffer EXCEPT ![Len(buffer)] = Whole(chunk[1].frame)] \o Tail(chunk)
    ELSE buffer \o chunk

\* What a getter may be called with: nothing, or the next bytes of the stream.
Arrivals == {<<>>} \cup Chunks(CutFrame)

\* The bounds.
Fits(chunk) ==
    chunk # <<>> =>
       /\ Len(Fed(chunk)) <= MaxBuffer
       /\ (\E i \in DOMAIN chunk : ~chunk[i].frame.fin) =>
             /\ frame_count + Len(Fed(chunk)) <= MaxFragments
             /\ deflate_ext.message_size <= MaxInflated

-------------------------------------------------------------------------------
(* Parser::_parse_frame: the verdict on a frame that is complete. *)

Set(flag) == flag \in flags

\* Frame::parse. The header of a frame that was cut in its payload was checked
\* when its first half came in.
ParseError(f, passed) ==
       (IF passed THEN NoError ELSE HeaderError(f, MaskRequired, cfg.max_frame_size))
    ?? CloseError(f)

\* The reason of a CLOSE frame, _close_message, as Message copies it.
Reason(f, stale) == IF f.op = CLOSE THEN CloseMessage(f, stale) ELSE "empty"

ReasonError(f, reason) ==
    Check(f.op = CLOSE /\ cfg.check_utf8 /\ reason \notin {"empty", "whole"}, "invalid_utf8")

\* Mutants: a first frame may be CONTINUE; may be compressed whatever was negotiated.
OrderErrorNoInitial(f) ==
    IF frame_count = 0
    THEN    Check(f.rsv1 /\ ~deflate_ext.set, "unexpected_rsv")
         ?? Check(f.rsv23, "unexpected_rsv")
    ELSE Check(f.op # CONTINUE, "fragment_no_continue")
OrderErrorNoRsv(f) ==
    IF frame_count = 0
    THEN Check(f.op = CONTINUE, "initial_continue")
    ELSE Check(f.op # CONTINUE, "fragment_no_continue")

OrderError(f) ==
    IF frame_count = 0
    THEN    Check(f.op = CONTINUE, "initial_continue")
         ?? Check(f.rsv1 /\ ~deflate_ext.set, "unexpected_rsv")
         ?? Check(f.rsv23, "unexpected_rsv")
    ELSE Check(f.op # CONTINUE, "fragment_no_continue")

\* RECV_INFLATE as it is once the order of the frames is checked.
Inflated(f) == Set("RECV_INFLATE") \/ (frame_count = 0 /\ f.rsv1)

\* The bytes of payload an accepted frame adds to its message.
SizeOf(f) == PayloadSize(f, ~IsControl(f.op) /\ Inflated(f))

\* Mutant: the limit holds for each frame, not for the message.
InflateErrorPerFrame(f) ==
    IF Inflated(f) /\ ~(f.len = 0 /\ ~f.fin)
    THEN    Check(f.corrupt, "inflate_error")
         ?? Check(deflate_ext.max_message_size # 0 /\ f.size > deflate_ext.max_message_size,
                  "max_message_size")
    ELSE NoError

\* DeflateExt::uncompress
InflateError(f) ==
    IF Inflated(f) /\ ~(f.len = 0 /\ ~f.fin)
    THEN    Check(f.corrupt, "inflate_error")
         ?? Check(/\ deflate_ext.max_message_size # 0
                  /\ deflate_ext.message_size + f.size > deflate_ext.max_message_size,
                  "max_message_size")
    ELSE NoError

\* RECV_TEXT as it is when the payload is scanned.
Scanned(f) == cfg.check_utf8 /\ (Set("RECV_TEXT") \/ (frame_count = 0 /\ f.op = TEXT))

PendingAfter(f) ==
    IF Scanned(f) THEN TextPending(PayloadText(f, Inflated(f)), utf8_pending) ELSE utf8_pending

\* Mutant: the last fragment may end inside a code point.
Utf8ErrorNoFinish(f) ==
    Check(Scanned(f) /\ ~TextFits(PayloadText(f, Inflated(f)), utf8_pending), "invalid_utf8")

Utf8Error(f) ==
       Check(Scanned(f) /\ ~TextFits(PayloadText(f, Inflated(f)), utf8_pending), "invalid_utf8")
    ?? Check(cfg.check_utf8 /\ f.fin /\ PendingAfter(f), "invalid_utf8")

Verdict(f, passed, stale) ==
    ParseError(f, passed) ??
        (IF IsControl(f.op)
         THEN ReasonError(f, CloseMessage(f, stale))
         ELSE OrderError(f) ?? InflateError(f) ?? Utf8Error(f))

-------------------------------------------------------------------------------
(* Parser::_parse_frame: what it leaves behind, f being complete with verdict e. *)

Raised(f, e) ==
    CASE f.op = CLOSE /\ e \in {NoError, "invalid_utf8"} -> {"RECV_CLOSED"}
      [] ~IsControl(f.op) /\ e \in {NoError, "invalid_utf8"} ->
            {g \in {"RECV_TEXT"} : Scanned(f)} \cup {g \in {"RECV_INFLATE"} : Inflated(f)}
      [] OTHER -> {}

\* Mutants: the last frame leaves RECV_INFLATE on; any control frame ends frame mode.
LoweredKeepsInflate(f, e) ==
    IF e # NoError THEN {"RECV_FRAME", "RECV_INFLATE"}
    ELSE IF IsControl(f.op) THEN {g \in {"RECV_FRAME"} : frame_count = 0}
    ELSE IF f.fin THEN {"RECV_FRAME"} \cup {g \in {"RECV_TEXT"} : cfg.check_utf8}
    ELSE {}
LoweredByAnyControl(f, e) ==
    IF e # NoError THEN {"RECV_FRAME", "RECV_INFLATE"}
    ELSE IF IsControl(f.op) THEN {"RECV_FRAME"}
    ELSE IF f.fin THEN {"RECV_FRAME", "RECV_INFLATE"} \cup {g \in {"RECV_TEXT"} : cfg.check_utf8}
    ELSE {}

Lowered(f, e) ==
    IF e # NoError THEN {"RECV_FRAME", "RECV_INFLATE"}
    ELSE IF IsControl(f.op) THEN {g \in {"RECV_FRAME"} : frame_count = 0}
    ELSE IF f.fin THEN {"RECV_FRAME", "RECV_INFLATE"} \cup {g \in {"RECV_TEXT"} : cfg.check_utf8}
    ELSE {}

\* The getter sets its own flag first.
FlagsAfter(getter, f, e) == (flags \cup {getter} \cup Raised(f, e)) \ Lowered(f, e)

\* Mutant: the last frame is counted off instead of ending the count.
CountAfterDecrement(f, e) ==
    IF e # NoError THEN 0
    ELSE IF IsControl(f.op) THEN frame_count
    ELSE IF f.fin THEN frame_count - 1
    ELSE frame_count + 1

CountAfter(f, e) ==
    IF e # NoError THEN 0
    ELSE IF IsControl(f.op) THEN frame_count
    ELSE IF f.fin THEN 0
    ELSE frame_count + 1

FragmentsAfter(f, e) ==
    IF e # NoError THEN <<>>
    ELSE IF IsControl(f.op) THEN fragments
    ELSE IF f.fin THEN <<>>
    ELSE Append(fragments, f)

\* Mutant: an error leaves the scan where it was.
CheckerAfterErrorKept(f, e, stale) ==
    IF e # NoError \/ IsControl(f.op) THEN utf8_pending
    ELSE IF cfg.check_utf8 /\ f.fin THEN FALSE
    ELSE PendingAfter(f)

CheckerAfter(f, e, stale) ==
    IF e # NoError THEN FALSE
    ELSE IF IsControl(f.op) THEN utf8_pending /\ ~(f.op = CLOSE /\ cfg.check_utf8 /\ CloseMessage(f, stale) # "empty")
    ELSE IF cfg.check_utf8 /\ f.fin THEN FALSE
    ELSE PendingAfter(f)

\* message_size is zeroed with the last frame, then that frame's bytes are added.
InflatedSizeAfter(f, e) ==
    IF e \in {NoError, "invalid_utf8"} /\ ~IsControl(f.op) /\ Inflated(f)
    THEN (IF f.fin THEN 0 ELSE deflate_ext.message_size) + PayloadSize(f, TRUE)
    ELSE deflate_ext.message_size

\* Mutant: an empty CLOSE is answered with the code it stands for.
SuggestedAfterEcho(f, e) ==
    IF e = "invalid_utf8" THEN INVALID_TEXT
    ELSE IF e = "max_frame_size" THEN MAX_SIZE
    ELSE IF e # NoError THEN PROTOCOL_ERROR
    ELSE IF f.op = CLOSE THEN CloseCode(f)
    ELSE suggested_close_code

SuggestedAfter(f, e) ==
    IF e = "invalid_utf8" THEN INVALID_TEXT
    ELSE IF e = "max_frame_size" THEN MAX_SIZE
    ELSE IF e # NoError THEN PROTOCOL_ERROR
    ELSE IF f.op = CLOSE THEN (IF CloseCode(f) = UNKNOWN THEN DONE ELSE CloseCode(f))
    ELSE suggested_close_code

\* An error and a CLOSE frame drop whatever else is buffered.
BufferAfter(f, e, rest) == IF e # NoError \/ f.op = CLOSE THEN <<>> ELSE rest

\* A piece whose arrival completes the parse of its frame.
Completes(i) ==
    \/ ~IsHead(i)
    \/ i.part = "payload" /\ HeaderError(i.frame, MaskRequired, cfg.max_frame_size) # NoError

Passed(i, held) == i.part = "rest" /\ held # NoFrame /\ held.part = "payload"

\* What every completed frame does, whichever getter parsed it.
Parsed(f, e, stale) ==
    /\ frame_count' = CountAfter(f, e)
    /\ fragments' = FragmentsAfter(f, e)
    /\ utf8_pending' = CheckerAfter(f, e, stale)
    /\ deflate_ext' = [deflate_ext EXCEPT !.message_size = InflatedSizeAfter(f, e)]
    /\ UNCHANGED <<config_vars, connections>>

-------------------------------------------------------------------------------
(* Parser::_get_frame *)

\* A getter that may not be used now: it throws, its chunk stays buffered.
Refused(chunk) ==
    /\ Fits(chunk)
    /\ ~looping
    /\ ~Set("ESTABLISHED") \/ Set("RECV_FRAME") \/ Set("RECV_MESSAGE")
    /\ buffer' = Fed(chunk)
    /\ out' = Refusal
    /\ UNCHANGED <<config_vars, parse_vars, looping, connections>>

\* Calls that return before anything is parsed.
ReturnsNothing(chunk) ==
    /\ Fits(chunk)
    /\ ~looping
    /\ Set("ESTABLISHED")
    /\ Set("RECV_CLOSED") \/ Fed(chunk) = <<>>
    /\ buffer' = <<>>
    /\ out' = Silent
    /\ UNCHANGED <<config_vars, parse_vars, looping, connections>>

\* Mutant: frames may be taken in the middle of a message.
MayGetFrameAnyMode(chunk) ==
    /\ Fits(chunk)
    /\ ~looping
    /\ Set("ESTABLISHED") /\ ~Set("RECV_CLOSED")
    /\ Fed(chunk) # <<>>

MayGetFrame(chunk) ==
    /\ Fits(chunk)
    /\ ~looping
    /\ Set("ESTABLISHED") /\ ~Set("RECV_MESSAGE") /\ ~Set("RECV_CLOSED")
    /\ Fed(chunk) # <<>>

FramePrefix(chunk) ==
    /\ MayGetFrame(chunk)
    /\ LET i == Head(Fed(chunk)) IN
       /\ ~Completes(i)
       /\ frame' = i
    /\ flags' = flags \cup {"RECV_FRAME"}
    /\ buffer' = <<>>
    /\ out' = Silent
    /\ UNCHANGED <<config_vars, deflate_ext, message_frame, close_message, frame_count, message,
                   suggested_close_code, utf8_pending, looping, fragments, connections>>

FrameDone(chunk) ==
    /\ MayGetFrame(chunk)
    /\ LET buf == Fed(chunk)
           i == Head(buf)
           f == i.frame
           e == Verdict(f, Passed(i, frame), "empty")
       IN
       /\ Completes(i)
       /\ flags' = FlagsAfter("RECV_FRAME", f, e)
       /\ suggested_close_code' = SuggestedAfter(f, e)
       /\ buffer' = BufferAfter(f, e, Tail(buf))
       /\ out' = [kind |-> "frame", frames |-> <<f>>, error |-> e,
                  length |-> IF e = NoError THEN SizeOf(f) ELSE 0,
                  reason |-> IF e = NoError THEN Reason(f, "empty") ELSE "empty"]
       /\ Parsed(f, e, "empty")
    /\ frame' = NoFrame
    /\ UNCHANGED <<message_frame, close_message, message, looping>>

-------------------------------------------------------------------------------
(* Parser::_get_message, a turn of its loop *)

\* Mutants: messages may be taken in the middle of a message's frames; after a CLOSE.
MayGetMessageAnyMode(chunk) ==
    /\ Fits(chunk)
    /\ looping => chunk = <<>>
    /\ Set("ESTABLISHED") /\ ~Set("RECV_CLOSED")
    /\ Fed(chunk) # <<>>
MayGetMessageAfterClose(chunk) ==
    /\ Fits(chunk)
    /\ looping => chunk = <<>>
    /\ Set("ESTABLISHED") /\ ~Set("RECV_FRAME")
    /\ Fed(chunk) # <<>>

MayGetMessage(chunk) ==
    /\ Fits(chunk)
    /\ looping => chunk = <<>>
    /\ Set("ESTABLISHED") /\ ~Set("RECV_FRAME") /\ ~Set("RECV_CLOSED")
    /\ Fed(chunk) # <<>>

\* Mutant: the loop waits for the rest of the frame, which only the next call can bring.
MessagePrefixWaits(chunk) ==
    /\ MayGetMessage(chunk)
    /\ LET i == Head(Fed(chunk)) IN
       /\ ~Completes(i)
       /\ message_frame' = i
    /\ flags' = flags \cup {"RECV_MESSAGE"}
    /\ buffer' = Fed(chunk)
    /\ looping' = TRUE
    /\ UNCHANGED <<config_vars, deflate_ext, frame, close_message, frame_count, message,
                   suggested_close_code, utf8_pending, out, fragments, connections>>

MessagePrefix(chunk) ==
    /\ MayGetMessage(chunk)
    /\ LET i == Head(Fed(chunk)) IN
       /\ ~Completes(i)
       /\ message_frame' = i
    /\ flags' = flags \cup {"RECV_MESSAGE"}
    /\ buffer' = <<>>
    /\ looping' = FALSE
    /\ out' = Silent
    /\ UNCHANGED <<config_vars, deflate_ext, frame, close_message, frame_count, message,
                   suggested_close_code, utf8_pending, fragments, connections>>

\* Mutant: the limit itself is too long.
TooLongAtLimit(length, f) ==
    cfg.max_message_size # 0 /\ length + PayloadLength(f) >= cfg.max_message_size

\* Message::add_frame: is the message, with this frame, longer than allowed?
\* The frame counts with the length it had on the wire.
TooLong(length, f) ==
    cfg.max_message_size # 0 /\ length + PayloadLength(f) > cfg.max_message_size

\* The frame at the head of the buffer is complete, with this verdict.
MessageFrame(chunk) == Head(Fed(chunk)).frame
MessageVerdict(chunk) ==
    LET i == Head(Fed(chunk)) IN Verdict(i.frame, Passed(i, message_frame), close_message)

\* Mutant: a control frame joins the message it interrupts.
PassesThroughNever(f, e) == FALSE

\* A control frame in the middle of a message is handed over as a message of its own.
PassesThrough(f, e) == e = NoError /\ IsControl(f.op) /\ message.frames # <<>>

MessageFrameDone(chunk, e) ==
    LET f == MessageFrame(chunk) IN
    /\ MayGetMessage(chunk)
    /\ Completes(Head(Fed(chunk)))
    /\ e = MessageVerdict(chunk)
    /\ message_frame' = NoFrame
    /\ close_message' = IF e \in {NoError, "invalid_utf8", "close_frame_invalid_data"}
                        THEN CloseMessage(f, close_message) ELSE close_message
    /\ buffer' = BufferAfter(f, e, Tail(Fed(chunk)))
    /\ Parsed(f, e, close_message)
    /\ UNCHANGED frame

MessageControl(chunk) ==
    LET f == MessageFrame(chunk)
        e == MessageVerdict(chunk)
    IN
    /\ MessageFrameDone(chunk, e)
    /\ PassesThrough(f, e)
    /\ flags' = FlagsAfter("RECV_MESSAGE", f, e)
    /\ suggested_close_code' = SuggestedAfter(f, e)
    /\ out' = [kind |-> "message", frames |-> <<f>>,
               error |-> Check(TooLong(0, f), "max_message_size"),
               length |-> PayloadLength(f), reason |-> Reason(f, close_message)]
    /\ looping' = FALSE
    /\ UNCHANGED message

\* The loop of _get_message goes on while anything is buffered.
LoopsOn(rest) == rest # <<>>

\* The frame joins the message, which is not done.
MessageGoesOn(chunk) ==
    LET f == MessageFrame(chunk)
        e == MessageVerdict(chunk)
    IN
    /\ MessageFrameDone(chunk, e)
    /\ ~PassesThrough(f, e)
    /\ e = NoError /\ ~TooLong(message.length, f) /\ ~f.fin
    /\ message' = [frames |-> Append(message.frames, f),
                   length |-> message.length + SizeOf(f)]
    /\ flags' = FlagsAfter("RECV_MESSAGE", f, e)
    /\ suggested_close_code' = SuggestedAfter(f, e)
    /\ looping' = LoopsOn(buffer')
    /\ out' = IF looping' THEN out ELSE Silent

\* The frame ends the message: it is the last one, or an error.
MessageDone(chunk) ==
    LET f == MessageFrame(chunk)
        e == MessageVerdict(chunk)
        error == e ?? Check(TooLong(message.length, f), "max_message_size")
    IN
    /\ MessageFrameDone(chunk, e)
    /\ ~PassesThrough(f, e)
    /\ error # NoError \/ f.fin
    /\ message' = EmptyMessage
    /\ flags' = FlagsAfter("RECV_MESSAGE", f, e) \ {"RECV_MESSAGE", "RECV_INFLATE"}
    /\ suggested_close_code' = IF error = "max_message_size" THEN MAX_SIZE ELSE SuggestedAfter(f, e)
    /\ looping' = FALSE
    /\ out' = [kind |-> "message", frames |-> Append(message.frames, f), error |-> error,
               length |-> message.length + (IF error = NoError THEN SizeOf(f) ELSE 0),
               reason |-> IF e = NoError THEN Reason(f, close_message) ELSE "empty"]

-------------------------------------------------------------------------------
(* The rest of the interface. *)

\* Parser::configure. The deflate configuration is taken only before the handshake.
Configure(c) ==
    /\ ~looping
    /\ cfg' = c
    /\ deflate_cfg' = IF Set("ESTABLISHED") THEN deflate_cfg
                      ELSE [set |-> c.deflate, max_message_size |-> IF c.deflate THEN c.max_message_size ELSE 0]
    /\ UNCHANGED <<parse_vars, buffer, looping, out, connections>>

\* Parser::no_deflate
NoDeflateCall ==
    /\ ~looping
    /\ deflate_cfg' = IF Set("ESTABLISHED") THEN deflate_cfg ELSE NoDeflate
    /\ UNCHANGED <<cfg, parse_vars, buffer, looping, out, connections>>

\* The handshake succeeds: ServerParser::accept_response or ClientParser::connect.
\* Only the client replaces _buffer, by what came after the response.
Establish(negotiated, chunk) ==
    /\ ~looping
    /\ ~Set("ESTABLISHED")
    /\ connections.count < MaxConnections
    /\ negotiated => deflate_cfg.set
    /\ IF MaskRequired
       THEN chunk = <<>> /\ UNCHANGED buffer
       ELSE /\ chunk \in {<<>>} \cup Chunks(NoFrame)
            /\ Len(chunk) <= MaxBuffer
            /\ buffer' = chunk
    /\ flags' = flags \cup {"ESTABLISHED"}
    /\ deflate_ext' = IF negotiated
                      THEN [set |-> TRUE, message_size |-> 0,
                            max_message_size |-> deflate_cfg.max_message_size]
                      ELSE deflate_ext
    /\ connections' = [count |-> connections.count + 1, negotiated |-> negotiated]
    /\ UNCHANGED <<config_vars, frame, message_frame, close_message, frame_count, message,
                   suggested_close_code, utf8_pending, looping, out, fragments>>

\* Parser::reset. _deflate_ext, _utf8_checker and the close message stay.
Reset ==
    /\ ~looping
    /\ buffer' = <<>>
    /\ flags' = {}
    /\ frame' = NoFrame
    /\ frame_count' = 0
    /\ message' = EmptyMessage
    /\ message_frame' = NoFrame
    /\ suggested_close_code' = 0
    /\ fragments' = <<>>
    /\ out' = Silent
    /\ UNCHANGED <<config_vars, deflate_ext, close_message, utf8_pending, looping, connections>>

-------------------------------------------------------------------------------

Init ==
    /\ cfg \in Configs
    /\ deflate_cfg = [set |-> cfg.deflate,
                      max_message_size |-> IF cfg.deflate THEN cfg.max_message_size ELSE 0]
    /\ deflate_ext = NoDeflateExt
    /\ flags = {}
    /\ buffer = <<>>
    /\ frame = NoFrame
    /\ message_frame = NoFrame
    /\ close_message = "empty"
    /\ frame_count = 0
    /\ message = EmptyMessage
    /\ suggested_close_code = 0
    /\ utf8_pending = FALSE
    /\ looping = FALSE
    /\ out = Silent
    /\ fragments = <<>>
    /\ connections = [count |-> 0, negotiated |-> FALSE]

FrameStep(chunk)   == FramePrefix(chunk) \/ FrameDone(chunk)
MessageStep(chunk) == \/ MessagePrefix(chunk)
                      \/ MessageControl(chunk)
                      \/ MessageGoesOn(chunk)
                      \/ MessageDone(chunk)

Next ==
    \/ \E chunk \in Arrivals :
          \/ Refused(chunk)
          \/ ReturnsNothing(chunk)
          \/ FrameStep(chunk)
          \/ MessageStep(chunk)
    \/ \E c \in Configs : Configure(c)
    \/ NoDeflateCall
    \/ \E negotiated \in BOOLEAN, chunk \in {<<>>} \cup Chunks(NoFrame) : Establish(negotiated, chunk)
    \/ Reset

Spec == Init /\ [][Next]_vars
===============================================================================
