------------------------------ MODULE WireFrames ------------------------------
(***************************************************************************)
(* The vocabulary both halves of Parser share: opcodes and close codes     *)
(* (inc.h), the frame as its receiver sees it (FrameHeader, Frame), and    *)
(* the checks Frame::parse makes on one frame alone.                       *)
(*                                                                         *)
(* A frame is a record:                                                    *)
(*   op, fin, rsv1, masked   the header fields of FrameHeader              *)
(*   rsv23                   rsv2 or rsv3 is set (the code only ever asks  *)
(*                           for their disjunction)                        *)
(*   len                     the payload length on the wire                *)
(*   size                    the number of bytes the payload inflates to   *)
(*   corrupt                 zlib cannot inflate the payload               *)
(*   text                    what the payload (of a CLOSE frame: the       *)
(*                           reason) does to a UTF-8 scan, see TextClasses *)
(*   code                    the 16-bit code a CLOSE payload starts with   *)
(***************************************************************************)
EXTENDS Integers

CONTINUE == 0
TEXT     == 1
BINARY   == 2
CLOSE    == 8
PING     == 9
PONG     == 10

Opcodes == 0 .. 15     \* what the four bits of a header can hold

IsControl(op) == op >= CLOSE

DONE           == 1000
PROTOCOL_ERROR == 1002
UNKNOWN        == 1005
ABNORMALLY     == 1006
INVALID_TEXT   == 1007
MAX_SIZE       == 1009
INTERNAL_ERROR == 1011

\* CloseCode::is_sending_forbidden
IsSendingForbidden(code) ==
    \/ code < DONE
    \/ code \in {1004, UNKNOWN, ABNORMALLY}
    \/ code > INTERNAL_ERROR /\ code < 3000

MAX_CONTROL_PAYLOAD == 125

(***************************************************************************)
(* A payload, scanned as UTF-8 from where the payloads before it left off: *)
(*   "empty"    no bytes                                                   *)
(*   "whole"    complete code points only                                  *)
(*   "opens"    starts at a code point, ends inside one                    *)
(*   "closes"   starts with the rest of a code point, ends complete        *)
(*   "bridges"  starts with the rest of a code point, ends inside one      *)
(*   "bad"      holds a sequence no context makes valid; a payload that    *)
(*              ends right after E0 or F0 is one to Utf8Checker::write     *)
(***************************************************************************)
TextClasses == {"empty", "whole", "opens", "closes", "bridges", "bad"}

FrameType == [op: Opcodes, fin: BOOLEAN, rsv1: BOOLEAN, rsv23: BOOLEAN,
              masked: BOOLEAN, len: Nat, size: Nat, corrupt: BOOLEAN,
              text: TextClasses, code: Nat]

NoError == "none"

FrameErrors == {"invalid_opcode", "control_fragmented", "control_payload_too_big",
                "control_frame_compression", "not_masked", "max_frame_size",
                "close_frame_invalid_data", "initial_continue", "unexpected_rsv",
                "fragment_no_continue", "inflate_error", "max_message_size",
                "invalid_utf8"}

\* The first of two checks that fails.
e1 ?? e2 == IF e1 # NoError THEN e1 ELSE e2

Check(failed, e) == IF failed THEN e ELSE NoError

\* Frame::parse, once the header is complete: the checks on the header alone.
HeaderError(f, maskRequired, maxFrameSize) ==
       Check(f.op > PONG \/ f.op \in 3 .. 7, "invalid_opcode")
    ?? Check(IsControl(f.op) /\ ~f.fin, "control_fragmented")
    ?? Check(IsControl(f.op) /\ f.len > MAX_CONTROL_PAYLOAD, "control_payload_too_big")
    ?? Check(IsControl(f.op) /\ f.rsv1, "control_frame_compression")
    ?? Check(~f.masked /\ maskRequired /\ f.len > 0, "not_masked")
    ?? Check(maxFrameSize # 0 /\ f.len > maxFrameSize, "max_frame_size")

\* Frame::parse and parse_close_payload, once the payload is complete.
CloseError(f) ==
    Check(f.op = CLOSE /\ f.len > 0 /\ (f.len = 1 \/ IsSendingForbidden(f.code)),
          "close_frame_invalid_data")

\* Frame::_close_code after the parse (CLOSE frames only).
CloseCode(f) == IF f.len < 2 THEN UNKNOWN ELSE f.code

\* Frame::_close_message after the parse. An empty CLOSE frame, and one of a
\* single byte, leave the Frame object's previous message in place.
CloseMessage(f, stale) ==
    CASE f.op # CLOSE \/ f.len < 2 -> stale
      [] f.len = 2                 -> "empty"
      [] OTHER                     -> f.text

\* Frame::payload_length: the wire length, for CLOSE frames without the code.
PayloadLength(f) == IF f.op = CLOSE /\ f.len >= 2 THEN f.len - 2 ELSE f.len

\* The bytes in Frame::payload once the frame is parsed (and inflated).
PayloadSize(f, inflated) ==
    IF ~inflated THEN PayloadLength(f)
    ELSE IF f.len = 0 /\ ~f.fin THEN 0
    ELSE f.size

\* What that payload does to a UTF-8 scan.
PayloadText(f, inflated) == IF PayloadSize(f, inflated) = 0 THEN "empty" ELSE f.text

\* Utf8Checker::write: does a payload of this class fit a scan that is
\* (pending) or is not inside a code point, and is the scan inside one after it.
TextFits(text, pending) ==
    CASE text = "empty"                -> TRUE
      [] text \in {"whole", "opens"}    -> ~pending
      [] text \in {"closes", "bridges"} -> pending
      [] text = "bad"                   -> FALSE

TextPending(text, pending) ==
    IF text = "empty" THEN pending ELSE text \in {"opens", "bridges"}
===============================================================================
