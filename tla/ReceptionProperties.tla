-------------------------- MODULE ReceptionProperties --------------------------
(***************************************************************************)
(* What the receive half of Parser is expected to do, and what documents,  *)
(* comments and tests of the repository say of it.                         *)
(***************************************************************************)
EXTENDS Reception

OutType == [kind: {"silent", "refused", "frame", "message"}, frames: Seq(Frames),
            error: FrameErrors \cup {NoError}, length: Nat, reason: TextClasses]

\* The kinds of values the members of Parser hold.
TypeOK ==
    /\ cfg \in Configs
    /\ deflate_cfg \in [set: BOOLEAN, max_message_size: Nat]
    /\ deflate_ext \in [set: BOOLEAN, message_size: Nat, max_message_size: Nat]
    /\ flags \subseteq Flags
    /\ buffer \in Seq([frame: Frames, part: {"whole", "rest", "header", "payload"}])
    /\ frame \in Partial \cup {NoFrame}
    /\ message_frame \in Partial \cup {NoFrame}
    /\ close_message \in TextClasses
    /\ frame_count \in Nat
    /\ message \in [frames: Seq(Frames), length: Nat]
    /\ suggested_close_code \in Nat
    /\ utf8_pending \in BOOLEAN
    /\ looping \in BOOLEAN
    /\ out \in OutType
    /\ fragments \in Seq(Frames)
    /\ connections \in [count: Nat, negotiated: BOOLEAN]

-------------------------------------------------------------------------------
(* Refinement: without a message size limit, Reception is a Reassembly. *)

Mode == IF Set("RECV_FRAME") THEN "frame"
        ELSE IF Set("RECV_MESSAGE") THEN "message"
        ELSE "none"

Assembled == INSTANCE Reassembly WITH
    open   <- fragments,
    mode   <- Mode,
    closed <- Set("RECV_CLOSED"),
    out    <- [kind   |-> out.kind,
               frames |-> IF out.error = NoError THEN out.frames ELSE <<>>,
               error  |-> out.error]

\* Getters hand over the frames the peer sent, in order, one by one or as
\* whole messages, as Reassembly describes (_get_frame, _get_message).
AssembledSpec == Assembled!Spec

\* Parser.cc:151-152: "user can only switch to getting frames after receiving
\* non-control message". So a message is handed over by one getter from its
\* first fragment to its last, and starts at its start.
WholeMessages == Assembled!WholeMessages

-------------------------------------------------------------------------------
(* Bookkeeping: the redundant records of where in a message the parser is. *)

\* _flags, _frame, _message_frame and _message agree on which getter is at work;
\* the two modes are never on together (_get_frame, _get_message).
ModesAgree ==
    /\ ~(Set("RECV_FRAME") /\ Set("RECV_MESSAGE"))
    /\ flags # {} => Set("ESTABLISHED")
    /\ frame # NoFrame => Set("RECV_FRAME")
    /\ message_frame # NoFrame => Set("RECV_MESSAGE")
    /\ message # EmptyMessage => Set("RECV_MESSAGE")
    /\ looping => Set("RECV_MESSAGE") /\ ~Set("RECV_CLOSED") /\ buffer # <<>> /\ message_frame = NoFrame

\* Parser counts the fragments of the message in progress in _frame_count, Message
\* keeps them, RECV_INFLATE says they are compressed: the three agree with what
\* was accepted, and a message in progress holds its getter's mode.
CountsAgree ==
    /\ frame_count = Len(fragments)
    /\ Set("RECV_MESSAGE") => message.frames = fragments
    /\ frame_count > 0 => Set("RECV_FRAME") \/ Set("RECV_MESSAGE")
    /\ Set("RECV_INFLATE") <=> frame_count > 0 /\ fragments[1].rsv1

\* The second half of a frame meets the first half it belongs to, in the
\* getter that took the first half (_frame, _message_frame).
HalvesMeet ==
    buffer # <<>> /\ buffer[1].part = "rest" =>
        \/ /\ frame # NoFrame /\ frame.frame = buffer[1].frame
           /\ ~Set("RECV_MESSAGE")
        \/ /\ message_frame # NoFrame /\ message_frame.frame = buffer[1].frame
           /\ ~Set("RECV_FRAME")

-------------------------------------------------------------------------------
(* Close, control frames, errors. *)

\* Once a CLOSE frame was received nothing more is parsed until reset: buffers are
\* dropped, getters return nothing, and the suggested close code stands.
NothingAfterClose ==
    [][Set("RECV_CLOSED") /\ flags' # {} =>
          /\ UNCHANGED parse_vars
          /\ out' = out \/ out'.kind \in {"silent", "refused"}]_vars

\* A getter that was given chunk completes a PING or PONG and finds nothing wrong with it.
TakesPing(chunk) ==
    /\ Fed(chunk) # <<>>
    /\ MessageFrame(chunk).op \in {PING, PONG}
    /\ Completes(Head(Fed(chunk)))
    /\ \/ FrameDone(chunk) /\ out'.error = NoError
       \/ MessageStep(chunk) /\ MessageVerdict(chunk) = NoError

\* A PING or PONG that is completed in the middle of a message, from whatever bytes and by
\* whichever getter, is handed over by itself and leaves the flags, the message's progress, its
\* inflation and its UTF-8 scan where they were (_parse_frame; _get_message, Parser.cc:154-158).
ControlTransparent ==
    [][frame_count > 0 => \A chunk \in Arrivals : TakesPing(chunk) =>
          /\ out'.frames = <<MessageFrame(chunk)>>
          /\ UNCHANGED <<flags, frame_count, fragments, message, deflate_ext, utf8_pending>>]_vars

\* The code suggested for the answer is one that may be sent, tells an invalid text
\* from a protocol error, and is 1000 when the peer's CLOSE named none
\* (_parse_frame, parse_close_payload, CloseCode::is_sending_forbidden).
SuggestedCode ==
    /\ suggested_close_code # 0 => ~IsSendingForbidden(suggested_close_code)
    /\ out.error = "invalid_utf8" => suggested_close_code = INVALID_TEXT
    /\ out.kind = "message" /\ out.error = "max_message_size" /\ frame_count = 0 =>
          suggested_close_code = MAX_SIZE
    /\ out.frames # <<>> /\ out.frames[1].op = CLOSE /\ out.error = NoError =>
          suggested_close_code = IF out.frames[1].len = 0 THEN DONE ELSE out.frames[1].code

-------------------------------------------------------------------------------
(* UTF-8 *)

\* The scan of a message: whether it is inside a code point after each fragment.
Scans(s, p) ==
    /\ p[0] = FALSE
    /\ \A i \in 1 .. Len(s) :
          /\ TextFits(PayloadText(s[i], s[1].rsv1), p[i - 1])
          /\ p[i] = TextPending(PayloadText(s[i], s[1].rsv1), p[i - 1])

ScansTo(s, pending) == \E p \in [0 .. Len(s) -> BOOLEAN] : Scans(s, p) /\ p[Len(s)] = pending

\* With check_utf8, a TEXT message that is handed over is UTF-8 as a whole, however it
\* was fragmented and whatever control frames and errors came between; and of
\* one in progress nothing invalid was accepted so far (a CLOSE abandons it).
TextSound ==
    cfg.check_utf8 =>
        /\ fragments # <<>> /\ fragments[1].op = TEXT /\ ~Set("RECV_CLOSED") => ScansTo(fragments, utf8_pending)
        /\ /\ out.kind = "message" /\ out.error = NoError
           /\ out.frames[1].op = TEXT
           => ScansTo(out.frames, FALSE)

\* tests/parse/utf8.cc:26-37, "valid utf" is accepted in one frame and in many: a TEXT
\* message is turned down only at a fragment that cannot go on from those before it.
TextComplete ==
    /\ out.kind = "message" /\ out.error = "invalid_utf8"
    /\ out.frames[1].op = TEXT /\ ~IsControl(out.frames[Len(out.frames)].op)
    => \A pending \in BOOLEAN :
          ScansTo(out.frames, pending) => pending /\ out.frames[Len(out.frames)].fin

-------------------------------------------------------------------------------
(* Sizes *)

\* No message longer than max_message_size is handed over: DeflateExt counts what it
\* inflates, Message::add_frame what was on the wire, and between them they suffice.
NeverOversized ==
    out.kind = "message" /\ out.error = NoError /\ cfg.max_message_size # 0 =>
        out.length <= cfg.max_message_size

\* The bytes of payload in the frames of a message.
TotalSize(s) ==
    LET total[i \in 0 .. Len(s)] ==
          IF i = 0 THEN 0 ELSE total[i - 1] + PayloadSize(s[i], s[1].rsv1)
    IN  total[Len(s)]

\* A plain message is turned down for its size only if it is longer than
\* max_message_size, whatever was inflated before it (Message::add_frame).
PlainSizeErrorJustified ==
    out.kind = "message" /\ out.error = "max_message_size" /\ ~out.frames[1].rsv1 =>
        TotalSize(out.frames) > cfg.max_message_size

\* tests/deflate/inflate-frames.cc:266, "exact message size is allowed": a message is
\* turned down for its size only if its payload exceeds max_message_size.
SizeErrorJustified ==
    out.kind = "message" /\ out.error = "max_message_size" =>
        TotalSize(out.frames) > cfg.max_message_size

-------------------------------------------------------------------------------
(* Extensions *)

\* Error.cc:36, "RSV is set but no extension defining RSV meaning has been negotiated":
\* a compressed message is accepted only on a connection that negotiated it. (The
\* code asks for RSV1 where a message begins; a CONTINUE with it passes.)
BeginsCompressed(f) == f.rsv1 /\ ~IsControl(f.op) /\ f.op # CONTINUE

CompressedOnlyIfNegotiated ==
    /\ fragments # <<>> /\ BeginsCompressed(fragments[1]) => connections.negotiated
    /\ out.frames # <<>> /\ out.error = NoError /\ BeginsCompressed(out.frames[1]) => connections.negotiated

-------------------------------------------------------------------------------
(* Liveness *)

\* The user goes on with the iterator while a call is inside its loop: the loop
\* has no other way to be left.
LoopFairness == WF_vars(looping /\ MessageStep(<<>>))

FairSpec == Spec /\ LoopFairness

\* The loop of _get_message ends, whatever is buffered.
LoopEnds == looping ~> ~looping
===============================================================================
