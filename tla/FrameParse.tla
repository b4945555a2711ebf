------------------------------ MODULE FrameParse ------------------------------
(***************************************************************************)
(* How a frame is read from bytes that arrive in pieces: FrameHeader::parse *)
(* and compile, parse_binary_number, the payload part of Frame::parse, and *)
(* crypt_mask. Reception takes this for granted: there a frame arrives     *)
(* whole or in two parts.                                                  *)
(*                                                                         *)
(* The sender's bytes are a stream of frames. Header bytes are real ones;  *)
(* of a payload byte only the mask byte it was combined with is kept. A    *)
(* frame of the stream is a record: op, fin, rsv1, mask (four bytes, or    *)
(* none), len, form (the size of its length field, 0, 2 or 8 bytes: not    *)
(* every sender takes the shortest) and starts (where in its payload the   *)
(* pieces start it was given to Frame::compile in).                        *)
(***************************************************************************)
EXTENDS WireFrames, SequencesExt

CONSTANTS
    Streams,        \* the sequences of frames a peer may send
    MaskRequired, MaxFrameSize,
    PayloadCuts     \* the offsets in a payload at which a piece may end

Byte == 0 .. 255

\* The longest payload two bytes can tell of, and the longest here: below 2^31.
MaxShort  == 65535
MaxLength == 2147483647

\* What may be sent.
WireFrame ==
    {f \in [op: Opcodes, fin: BOOLEAN, rsv1: BOOLEAN, mask: {<<>>} \cup [1 .. 4 -> Byte],
            len: Nat, form: {0, 2, 8}, starts: SUBSET Nat] :
        /\ f.len <= MaxLength
        /\ f.form = 0 => f.len < 126
        /\ f.form = 2 => f.len <= MaxShort
        /\ 0 \in f.starts}

ASSUME StreamsAssumption ==
    \A frames \in Streams :
        /\ Len(frames) \in Nat \ {0} /\ DOMAIN frames = 1 .. Len(frames)
        /\ \A k \in DOMAIN frames : frames[k] \in WireFrame
ASSUME CutsAssumption == PayloadCuts \subseteq Nat

VARIABLES
    stream,     \* what the peer sends, all of it
    arrived,    \* how many of its bytes the parser was given
    at,         \* how many it has consumed: _buffer is what lies between
    header,     \* Frame::_header
    frame,      \* the rest of Frame: _state, _payload_bytes_left, payload
    parsed,     \* history: the frames handed over
    failed      \* the error of a frame that was refused, or NoError

vars == <<stream, arrived, at, header, frame, parsed, failed>>

-------------------------------------------------------------------------------
(* parse_binary_number. The number of bytes received so far is kept in the *)
(* last byte of the number itself.                                         *)

Zeros(n) == [i \in 1 .. n |-> 0]

\* Mutant: the bytes that came before are counted as used again.
NumberUsesAll(num, data) ==
    LET n    == Len(num)
        got  == num[n]
        with == [i \in 1 .. n |-> IF i \in got + 1 .. got + Len(data) THEN data[i - got] ELSE num[i]]
    IN  IF got + Len(data) >= n
        THEN [num |-> with, used |-> n, done |-> TRUE]
        ELSE [num |-> [with EXCEPT ![n] = got + Len(data)], used |-> Len(data), done |-> FALSE]

Number(num, data) ==
    LET n    == Len(num)
        got  == num[n]
        with == [i \in 1 .. n |-> IF i \in got + 1 .. got + Len(data) THEN data[i - got] ELSE num[i]]
    IN  IF num = Zeros(n) /\ Len(data) >= n
        THEN [num |-> [i \in 1 .. n |-> data[i]], used |-> n, done |-> TRUE]
        ELSE IF got + Len(data) >= n
        THEN [num |-> with, used |-> n - got, done |-> TRUE]
        ELSE [num |-> [with EXCEPT ![n] = got + Len(data)], used |-> Len(data), done |-> FALSE]

\* be2h16, be2h64 and back. Numbers here stay below 2^31.
BigEndian(bytes) ==
    LET first[i \in 0 .. Len(bytes)] == IF i = 0 THEN 0 ELSE 256 * first[i - 1] + bytes[i]
    IN  first[Len(bytes)]

Digit(n, i) == CASE i = 0 -> n % 256
                 [] i = 1 -> (n \div 256) % 256
                 [] i = 2 -> (n \div 65536) % 256
                 [] i = 3 -> n \div 16777216
                 [] OTHER -> 0
Bytes(n, size) == [i \in 1 .. size |-> Digit(n, size - i)]

-------------------------------------------------------------------------------
(* FrameHeader. *)

\* The shortest form of a length, the one compile takes.
ShortestForm(len) == IF len < 126 THEN 0 ELSE IF len < 65536 THEN 2 ELSE 8

Bit(b) == IF b THEN 1 ELSE 0

\* FrameHeader::compile, in the form the sender chose.
Compile(f) ==
    <<f.op + 64 * Bit(f.rsv1) + 128 * Bit(f.fin),
      128 * Bit(f.mask # <<>>) + (CASE f.form = 0 -> f.len [] f.form = 2 -> 126 [] f.form = 8 -> 127)>>
    \o Bytes(f.len, f.form) \o f.mask

\* A constructed header; reset() leaves the bytes it does not need to clear.
FreshHeader == [state |-> "FIRST", first |-> 0, has_mask |-> FALSE, slen |-> 0,
                len16 |-> Zeros(2), len64 |-> Zeros(8), length |-> 0, mask |-> Zeros(4)]

ResetHeader(h) ==
    [h EXCEPT !.state = "FIRST", !.mask = Zeros(4), !.length = 0, !.len64 = Zeros(8), !.len16 = Zeros(2)]

\* The stages of FrameHeader::parse, on a header and the bytes not yet read.
Stage(h, data) == [h |-> h, data |-> data]

ReadFirst(s) ==
    IF s.h.state # "FIRST" \/ s.data = <<>> THEN s
    ELSE Stage([s.h EXCEPT !.state = "SECOND", !.first = Head(s.data)], Tail(s.data))

\* Mutant: the mask bit is left in the length.
ReadSecondKeepsBit(s) ==
    IF s.h.state # "SECOND" \/ s.data = <<>> THEN s
    ELSE Stage([s.h EXCEPT !.state = "LENGTH", !.has_mask = Head(s.data) >= 128, !.slen = Head(s.data)],
               Tail(s.data))

ReadSecond(s) ==
    IF s.h.state # "SECOND" \/ s.data = <<>> THEN s
    ELSE Stage([s.h EXCEPT !.state = "LENGTH", !.has_mask = Head(s.data) >= 128, !.slen = Head(s.data) % 128],
               Tail(s.data))

ReadLength(s) ==
    LET short == Number(s.h.len16, s.data)
        long  == Number(s.h.len64, s.data)
        next(done) == IF done THEN "MASK" ELSE "LENGTH"
    IN  IF s.h.state # "LENGTH" THEN s
        ELSE IF s.h.slen < 126 THEN Stage([s.h EXCEPT !.state = "MASK", !.length = s.h.slen], s.data)
        ELSE IF s.data = <<>> THEN s
        ELSE IF s.h.slen = 126
        THEN Stage([s.h EXCEPT !.state = next(short.done), !.len16 = short.num,
                               !.length = IF short.done THEN BigEndian(short.num) ELSE @],
                   SubSeq(s.data, short.used + 1, Len(s.data)))
        ELSE Stage([s.h EXCEPT !.state = next(long.done), !.len64 = long.num,
                               !.length = IF long.done THEN BigEndian(long.num) ELSE @],
                   SubSeq(s.data, long.used + 1, Len(s.data)))

ReadMask(s) ==
    LET read == Number(s.h.mask, s.data)
    IN  IF s.h.state # "MASK" THEN s
        ELSE IF ~s.h.has_mask THEN Stage([s.h EXCEPT !.state = "DONE"], s.data)
        ELSE IF s.data = <<>> THEN s
        ELSE Stage([s.h EXCEPT !.state = IF read.done THEN "DONE" ELSE "MASK", !.mask = read.num],
                   SubSeq(s.data, read.used + 1, Len(s.data)))

\* FrameHeader::parse: the values of the stages, one from the other. It returns false
\* exactly if the state is not DONE after it.
ReadHeader(h, data) ==
    {ReadMask(s) : s \in {ReadLength(t) : t \in {ReadSecond(u) : u \in {ReadFirst(Stage(h, data))}}}}

-------------------------------------------------------------------------------
(* The stream and the buffer. *)

\* A stream as it lies on the wire: each frame with its header's bytes, where it starts
\* and where it ends.
Laid(frames) ==
    LET end[k \in 0 .. Len(frames)] ==
          IF k = 0 THEN 0 ELSE end[k - 1] + Len(Compile(frames[k])) + frames[k].len
    IN  [k \in 1 .. Len(frames) |->
            [f |-> frames[k], start |-> end[k - 1], bytes |-> Compile(frames[k]), end |-> end[k]]]

\* A payload byte is never looked at: any value will do.
ByteAt(p) ==
    LET w == CHOOSE x \in Range(stream) : x.start <= p /\ p < x.end
    IN  IF p - w.start < Len(w.bytes) THEN w.bytes[p - w.start + 1] ELSE 0

MAX_SIZE_HEADER == 14

\* As much of the buffer as a header may need.
Peek == LET n == arrived - at
        IN  [i \in 1 .. (IF n < MAX_SIZE_HEADER THEN n ELSE MAX_SIZE_HEADER) |-> ByteAt(at + i - 1)]

\* Where the bytes may be cut: anywhere in a header, at some places in a payload.
CutPoints ==
    UNION {LET body == w.start + Len(w.bytes)
           IN  (w.start .. body) \cup {body + n : n \in {m \in PayloadCuts : m < w.f.len}} \cup {w.end}
           : w \in Range(stream)}

-------------------------------------------------------------------------------
(* Frame. *)

FreshFrame == [state |-> "HEADER", left |-> 0, pieces |-> <<>>]

\* crypt_mask: the i-th byte of a piece (from 0) meets this byte of the mask. The
\* mask is rotated by the bytes received, then eight bytes at a time are combined.
\* Mutant: every piece starts with the mask's first byte.
MaskByteUnrotated(received, i) == (i % 8) % 4
MaskByte(received, i) == ((received % 4) + (i % 8)) % 4

\* Mutant: a frame that has all of its payload waits for one byte more.
CompletesLate(left, available) == left < available
Completes(left, available) == left <= available

\* Mutant: fin is taken from the bit of rsv1.
FieldsShifted(h) == [op |-> h.first % 16, fin |-> (h.first \div 64) % 2 = 1, rsv1 |-> h.first >= 128,
                     masked |-> h.has_mask, len |-> h.length]

Fields(h) == [op |-> h.first % 16, fin |-> h.first >= 128, rsv1 |-> (h.first \div 64) % 2 = 1,
              masked |-> h.has_mask, len |-> h.length]

\* What a call starts from: the header as far as it can be read now, the bytes that are
\* left of the payload and those the buffer has for it.
Reading(s, peek) ==
    LET inHeader == frame.state = "HEADER"
        used     == Len(peek) - Len(s.data)
    IN  [h |-> s.h, used |-> used,
         error     |-> IF inHeader THEN HeaderError(Fields(s.h), MaskRequired, MaxFrameSize) ELSE NoError,
         left      |-> IF inHeader THEN s.h.length ELSE frame.left,
         available |-> arrived - at - used]

\* The payload gathered, with n bytes of this call: their offset, and how far the mask is rotated.
Pieces(r, n) ==
    IF n = 0 THEN frame.pieces
    ELSE Append(frame.pieces, [from |-> r.h.length - r.left, len |-> n, received |-> r.h.length - r.left])

\* Parser::_parse_frame clears the buffer if parse returns false or an error.
HeaderGoesOn(r) ==
    /\ r.h.state # "DONE"
    /\ header' = r.h
    /\ at' = arrived
    /\ UNCHANGED <<stream, arrived, frame, parsed, failed>>

Refuse(r) ==
    /\ r.h.state = "DONE" /\ r.error # NoError
    /\ failed' = r.error
    /\ at' = arrived
    /\ header' = ResetHeader(r.h)
    /\ UNCHANGED <<stream, arrived, frame, parsed>>

PayloadGoesOn(r) ==
    /\ r.h.state = "DONE" /\ r.error = NoError /\ ~Completes(r.left, r.available)
    /\ header' = r.h
    /\ frame' = [state |-> "PAYLOAD", left |-> r.left - r.available, pieces |-> Pieces(r, r.available)]
    /\ at' = arrived
    /\ UNCHANGED <<stream, arrived, parsed, failed>>

\* The frame is handed over; the object is reset, or a new one is made for the next.
FrameDone(r) ==
    /\ r.h.state = "DONE" /\ r.error = NoError /\ Completes(r.left, r.available)
    /\ parsed' = Append(parsed, [header |-> r.h, pieces |-> Pieces(r, r.left)])
    /\ at' = at + r.used + r.left
    /\ header' = ResetHeader(r.h)
    /\ frame' = FreshFrame
    /\ UNCHANGED <<stream, arrived, failed>>

\* A getter's call, or ++: the program stops at an error.
Parse ==
    /\ failed = NoError /\ at < arrived
    /\ \E peek \in {Peek} :
       \E s \in IF frame.state = "HEADER" THEN ReadHeader(header, peek) ELSE {Stage(header, peek)} :
       \E r \in {Reading(s, peek)} : HeaderGoesOn(r) \/ Refuse(r) \/ PayloadGoesOn(r) \/ FrameDone(r)

\* More bytes are appended to the buffer.
Arrive(p) ==
    /\ failed = NoError
    /\ arrived < p
    /\ arrived' = p
    /\ UNCHANGED <<stream, at, header, frame, parsed, failed>>

Init ==
    /\ \E s \in Streams : stream = Laid(s)
    /\ arrived = 0 /\ at = 0
    /\ header = FreshHeader
    /\ frame = FreshFrame
    /\ parsed = <<>>
    /\ failed = NoError

Next == Parse \/ \E p \in CutPoints : Arrive(p)

\* The program goes on iterating while something is buffered.
Spec == Init /\ [][Next]_vars /\ WF_vars(Parse)
===============================================================================
