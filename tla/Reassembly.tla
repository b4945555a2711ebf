------------------------------ MODULE Reassembly ------------------------------
(***************************************************************************)
(* What the receive side of a Parser promises its user, without the bytes, *)
(* the flags and the counters: frames are handed over in the order they    *)
(* arrived, one by one in frame mode or gathered into messages in message  *)
(* mode; control frames pass through the middle of a message; the mode is  *)
(* held while a message is in progress; an error drops the message in      *)
(* progress and nothing else; nothing is handed over after a CLOSE.        *)
(***************************************************************************)
EXTENDS WireFrames, Sequences

CONSTANT Frames      \* the frames a peer may send

VARIABLES
    open,            \* the frames, so far, of the message in progress
    mode,            \* which getter may be used: "frame", "message", or "none" decided
    closed,          \* a CLOSE was handed over
    out              \* what the last getter call returned

vars == <<open, mode, closed, out>>

Silent  == [kind |-> "silent",  frames |-> <<>>, error |-> NoError]
Refusal == [kind |-> "refused", frames |-> <<>>, error |-> NoError]

Handed(kind, frames, error) == [kind |-> kind, frames |-> frames, error |-> error]

\* A message begins with an opcode of its own and goes on with CONTINUE.
Continues(f) == ~IsControl(f.op) /\ (f.op = CONTINUE <=> open # <<>>)

MayUse(kind) == ~closed /\ mode \in {"none", kind}

Init ==
    /\ open = <<>>
    /\ mode = "none"
    /\ closed = FALSE
    /\ out = Silent

TakeFrame(f) ==
    /\ MayUse("frame")
    /\ Continues(f)
    /\ out' = Handed("frame", <<f>>, NoError)
    /\ open' = IF f.fin THEN <<>> ELSE Append(open, f)
    /\ mode' = IF f.fin THEN "none" ELSE "frame"
    /\ UNCHANGED closed

\* A fragment joins the message in progress; the call may go on to the next.
Collect(f) ==
    /\ MayUse("message")
    /\ Continues(f)
    /\ ~f.fin
    /\ open' = Append(open, f)
    /\ mode' = "message"
    /\ out' \in {out, Silent}
    /\ UNCHANGED closed

TakeMessage(f) ==
    /\ MayUse("message")
    /\ Continues(f)
    /\ f.fin
    /\ out' = Handed("message", Append(open, f), NoError)
    /\ open' = <<>>
    /\ mode' = "none"
    /\ UNCHANGED closed

TakeControl(kind, f) ==
    /\ MayUse(kind)
    /\ IsControl(f.op)
    /\ out' = Handed(kind, <<f>>, NoError)
    /\ mode' = IF open = <<>> THEN "none" ELSE kind
    /\ closed' = (f.op = CLOSE)
    /\ UNCHANGED open

Fail(kind, e) ==
    /\ MayUse(kind)
    /\ out' = Handed(kind, <<>>, e)
    /\ open' = <<>>
    /\ mode' = "none"
    /\ closed' \in BOOLEAN      \* TRUE for a CLOSE whose reason is not UTF-8

\* Part of a frame arrived: the getter that took it has to be used again.
Hold(kind) ==
    /\ MayUse(kind)
    /\ mode' = kind
    /\ out' = Silent
    /\ UNCHANGED <<open, closed>>

NothingNew ==
    /\ out' \in {Silent, Refusal}
    /\ UNCHANGED <<open, mode, closed>>

\* Parser::reset
Restart ==
    /\ open' = <<>>
    /\ mode' = "none"
    /\ closed' = FALSE
    /\ out' = Silent

Next ==
    \/ \E f \in Frames : TakeFrame(f) \/ Collect(f) \/ TakeMessage(f)
    \/ \E kind \in {"frame", "message"} :
          \/ \E f \in Frames : TakeControl(kind, f)
          \/ \E e \in FrameErrors : Fail(kind, e)
          \/ Hold(kind)
    \/ NothingNew
    \/ Restart

Spec == Init /\ [][Next]_vars

\* A sequence of data frames that begins a message.
BeginsMessage(s) ==
    \A i \in 1 .. Len(s) :
        /\ ~IsControl(s[i].op)
        /\ s[i].op = CONTINUE <=> i # 1

\* Every message handed over whole is either one control frame or a run of
\* fragments that starts with an opcode of its own, goes on with CONTINUE
\* and ends, for the first time, with fin; and a message in progress is such a
\* run without its end (Parser::_get_message, Message::add_frame).
WholeMessages ==
    /\ BeginsMessage(open)
    /\ \A i \in 1 .. Len(open) : ~open[i].fin
    /\ out.kind = "message" /\ out.error = NoError =>
          \/ Len(out.frames) = 1 /\ IsControl(out.frames[1].op)
          \/ /\ BeginsMessage(out.frames)
             /\ \A i \in 1 .. Len(out.frames) : out.frames[i].fin <=> i = Len(out.frames)
===============================================================================
