# Protocol-WebSocket-Fast in TLA+

The library is an I/O-free WebSocket parser: the program reads and writes
sockets itself, hands received bytes to a `ServerParser` or `ClientParser` and
sends the bytes the parser returns. All of its state is in one object that one
thread uses, so nothing here races. What is hard is *sequences of legal calls*:
two ways of receiving (frame by frame, message by message) over one buffer, one
fragment counter and one set of flags; control frames in the middle of
everything; error paths that have to put all of that back; compression
contexts that must stay in step at two ends; text that is cut anywhere; and a
parser object that is reset and used for the next connection.

Paths below are relative to `src/panda/protocol/websocket/` unless they begin
with `tests/`.

## Inventory

| Component | State | Operations | Correct when | Here |
|---|---|---|---|---|
| `Parser`, receiving (`Parser.cc`, `Parser.h`, the iterators) | `_buffer`, `_flags` (ESTABLISHED, RECV_*), `_frame`, `_frame_count`, `_message`, `_message_frame`, `_suggested_close_code`, `_utf8_checker`, the limits | `get_frames`, `get_messages`, `++`, `configure`, `no_deflate`, `reset` | frames come out once, in order, grouped as they were sent; the redundant records agree; errors and CLOSE leave nothing behind | `Reception` |
| `Parser`, sending (`Parser.h`, `Parser-FrameSender.h`, `Parser-MessageBuilder.h`) | SEND_* flags, `_send_opcode`, `_sent_frame_count` | `start_message`, `send_frame` ×3, `send_control`, `send_close`, `MessageBuilder::send`, `send_multiframe` | whatever the order of calls, the peer accepts it and hears what was said | `Sending`, `Conversation` |
| `DeflateExt` | two zlib streams, `message_size`, the reset-after flags | `request`, `select`, `uplift`, `compress`, `uncompress`, `reset` | both ends draw the same conclusion; contexts stay in step; the size limit holds | `DeflateNegotiation`, parts of `Sending`, `Reception`, `Conversation` |
| `Utf8Checker` | `cp_`, `p_`, `need_` | `write`, `finish`, `reset` | the verdict depends on the text, not on its pieces | `Utf8Checker` |
| `Frame`, `Message` | the frame being read, the message being gathered | `parse`, `add_frame`, `compile` | header and close-payload checks, size limit; a payload cut anywhere is unmasked and ended right | `WireFrames`, `FrameParse`, in `Reception` |
| `FrameHeader` | position in a header, the numbers in it half read | `parse`, `compile`, close payload | a header cut anywhere is read the same | `FrameParse`; close payload in `WireFrames` |
| `ServerParser`, `ClientParser`, `ConnectRequest`, `ConnectResponse` | handshake flags, `_connect_request`, the key expected, `_deflate_ext` | `accept`, `accept_response`, `accept_error`, `connect_request`, `connect`, `reset` | established only by a complete exchange over this connection, with one idea of the extension at both ends | `Handshake` |
| `HeaderValueParamsParser` | none | `parse_header_value`, `compile_header_value` | a header means what its grammar says | `HeaderValue`, in `Handshake` |
| `ranges::Joiner`, `KmpFinder` | an iterator over containers; a pattern, its table and how much of it was read | `++`, `set_position`, `find`, `reset` | the first occurrence is found, wherever it is cut | `RangeSearch` |

How they meet: a getter appends to `_buffer` and calls `_parse_frame`, which
calls `Frame::parse`, `DeflateExt::uncompress` and `Utf8Checker::write`;
message mode then calls `Message::add_frame`. Sending goes from a builder or a
sender to `start_message`/`send_frame`, `DeflateExt::compress` and
`Frame::compile`. The handshake classes create the `DeflateExt` and raise
ESTABLISHED; their headers go through `HeaderValueParamsParser`. The two halves share
`_flags`, `_deflate_ext` and nothing else. The `ranges` are used by no other file
and by no test.

## Modules

- **`WireFrames`** – opcodes, close codes, the frame as a record, the checks
  `Frame::parse` makes on one frame, and what a payload does to a UTF-8 scan
  (six classes instead of bytes).
- **`Reassembly`** – the abstract specification of receiving: frames in, frames
  or whole messages out, one mode at a time, nothing after a CLOSE. No flags,
  no counters, no buffer.
- **`Reception`** – the receive half. `FrameStep` is a `get_frames` call or `++`
  (`FramePrefix`: the frame is not complete; `FrameDone`). `MessageStep` is *one
  turn of the loop* in `_get_message`; `looping` is TRUE between turns
  (`MessagePrefix`, `MessageControl`, `MessageGoesOn`, `MessageDone`).
  `Refused` is a getter that throws, `ReturnsNothing` one that returns at once;
  `Configure`, `NoDeflateCall`, `Establish`, `Reset` are the rest. `Verdict` is
  the chain of checks of `_parse_frame` in the code's order; `FlagsAfter`,
  `CountAfter`, `CheckerAfter`, `SuggestedAfter`, `BufferAfter` are what it
  leaves. A frame arrives whole or in two parts, cut in the header or in the
  payload; a chunk holds up to two pieces.
- **`ReceptionProperties`** – its invariants, action properties, the refinement
  mapping to `Reassembly` (`AssembledSpec`) and the fairness.
- **`ReceptionProofs`** – its theorems: modes, order and the refinement first, then
  limits, close codes, compression, text.
- **`Sending`** – the send half; one action per call. A payload is its size.
  Of zlib's deflate stream it keeps the window (the fragments later ones may
  refer to) and whether the last call was a sync flush.
- **`DeflateNegotiation`** – `request`, `select`, `uplift` and the constructor's
  reset flags as operators on offers and configurations.
- **`Conversation`** – composes `Sending` at one end, `DeflateNegotiation` at
  the handshake, an in-order wire, and `Peer == INSTANCE Reception` in message
  mode at the other. The inflate stream is here: a fragment inflates if the
  stream stands at a block boundary and its window ends with what the fragment
  refers back to. `Connect`, `Say`, `Hear`, `Reconnect`.
- **`Utf8Checker`**, **`Utf8Properties`** – the checker on bytes; UTF-8 defined
  by arithmetic (value, shortest form, surrogates), independently of the
  checker's ranges.
- **`FrameParse`**, **`FrameParseProperties`** – what `Reception` takes for granted:
  `FrameHeader::parse` stage by stage (`ReadFirst`, `ReadSecond`, `ReadLength`,
  `ReadMask`) over bytes that come in pieces, with `parse_binary_number`
  (`Number`: the count of the bytes received lies in the last byte of the number
  itself), then `Frame::parse`'s payload and `crypt_mask`. Header bytes are real;
  of a payload byte only the mask byte it meets is kept. `Arrive` gives the
  parser bytes, `Parse` is one call. Numbers stay below 2^31; `length` of an
  eight byte form is `len64` and a number. (For a CLOSE `Frame::parse` takes two
  bytes off `header.length` afterwards; that is in `Reception`.) `WireFrame` says what
  a peer may send: any bits, any opcode, any form of length that holds the length.
- **`HeaderValue`** – the header parser and its inverse on tokens, and, separately,
  what a header means by its grammar (`Meaning`).
- **`Handshake`**, **`HandshakeProperties`** – the two parsers' members, the
  `ConnectRequest` in the program's hands and the two messages on their way. One
  action per call: `ConnectRequest`, `Accept`, `AcceptError`, `Decline`
  (`accept_error(res)`), `AcceptResponse`, `Connect`; `PartArrives` is a call with
  an incomplete message. A peer may be foreign: it sends any of a set of
  messages, with any set of faults. `DeflateNegotiation` decides about the
  extension, `HeaderValue` carries it.
- **`RangeSearch`**, **`RangeSearchProperties`** – a turn of the constructor's loop is an
  action (`Lengthen`, `Shorten`, `GiveUp`: the table grows by one entry or `len` falls back)
  and so is a turn of `find`'s (`Compare`, `FallBack`, `Skip`, `FindNothing`); the program's
  calls between them are the others, with any range and whatever is held. What `find` reads
  outside of the range or the pattern (`Outside`) is no match or is one, and after that
  (`GoAstray`) the model stops. `misused` remembers that find was called so since the last
  `reset()`.
- **`Induction`** – induction over the natural numbers and over sequences with a set in the
  place of a predicate, and what follows from it for recursive functions.
- **`FoldLaws`** – the laws of a fold, for one operation (a constant of the module).
- **`ConversationProofs`**, **`Utf8Proofs`**, **`FrameParseProofs`**,
  **`HandshakeProofs`**, **`RangeSearchProofs`** – theorems about the module they are named for;
  those about `HeaderValue` are in `HandshakeProofs`.
- **`MCReception`**, **`MCConversation`**, **`MCUtf8`**, **`MCFrameParse`**,
  **`MCHandshake`**, **`MCRangeSearch`** – frames, settings, messages and bytes for TLC.

Operators preceded by a comment that starts with "Mutant" are alternatives to
the definition after them, each the way a plausible mistake would look. They
take part in no specification; they are there to see that a property notices.

## Runs that pass

| Run | Asks | Bounds |
|---|---|---|
| `reception_order` | In every order of first fragments, continuations, a PING, a CLOSE, order errors, cut frames and changes of getter: `ModesAgree`, `CountsAgree` (the four records of "where in a message"), `HalvesMeet` (a frame's second half reaches the getter that has its first), `WholeMessages`, `CompressedOnlyIfNegotiated`, `NothingAfterClose`, `ControlTransparent`, and that `Reception` implements `Reassembly` | 7 kinds of frame, 2 pieces buffered, 2 fragments, one connection |
| `reception_text` | A TEXT message is accepted (`TextSound`) exactly if (`TextComplete`) it is UTF-8 as a whole, with PINGs, CLOSEs and failed messages between its fragments; `LoopEnds` | 9 frames, 2 pieces, 3 fragments |
| `reception_limits` | `NeverOversized`, `PlainSizeErrorJustified`, `SuggestedCode` for frames of lengths around both limits, compressed and not, and every sort of CLOSE | limits 3 (message) and 4 (frame), 3 fragments |
| `conversation` | `PeerAccepts`, `HeardAsSaid`, `DealAgrees`: negotiation, then any order of calls, any interleaving of sending and hearing, a second connection | 3 client and 2 server settings, 2 messages and 2 connections, 2 frames to a message and on the wire, windows of 3 fragments |
| `utf8` | `AcceptsOnlyUtf8`, `HoldsTheRemainder`, `RejectsOnlyOthers` | the 14 bytes on either side of every bound in `valid` and `needed`; texts of 4 bytes in pieces of up to 3 |
| `frames` | `FramesAsSent` (fields, the whole payload, every byte unmasked with what it was masked with), `BoundariesKept`, `Prompt`, `RefusedForItself`, `EachComesOut` | streams of one or two frames; every form of length with lengths 0, 1, 125, 126, 256, 65535, 65536; masks that look like counts; cut at every byte of a header and at 1, 3 and 9 in a payload |
| `handshake` | `SameConnection`, `EstablishedByAnswer`, `EndsMirror`, `HeaderUnderstood`, `JudgedRight`, `RefusedForGood`, `HandshakeDecides` | 4 client and 3 server settings, two connections, any order of calls; a foreign client with every header of up to three tokens, and with every fault, alone and beside others; a foreign server that answers unasked, with the key of the request, another one or, if there is none yet, the empty one |
| `search` | `InBounds`, `LongestHeld`, `FindsFirst`, `ReadsConcatenation`, `FindReturns` | patterns of up to 3 letters of two, and two long ones; ranges of up to 4 containers, empty ones included; 7 elements read |

Why the bounds are enough. The receive half looks at one frame at a time and
keeps of a message only a count that is zero or not, a length and three flags:
a first fragment, one in the middle and a last one, with anything between two
of them, meet every branch. Two connections show what survives a reset; two messages what
survives a message. A code point has at most four bytes, so four bytes cover
every cut of every one of them; that a text goes on after a complete code point
is covered by the shorter ones. In `conversation` the client sends
(`Masks = TRUE`): the halves differ by role in the mask and in which reset flag
applies only.

`frames` needs no more than two frames, for `reset()` is all that passes from one to
the next, and nine bytes of payload meet every case of the eight byte loop. In
`handshake` the second connection shows what is left of the first; every check of
a request is met alone and beside another one. A pattern and a half is read in
`search`, and every border of a pattern over two letters is met with three of them;
`aabaaab` has borders within borders.

What the passing runs do not ask: `reception_*` have one connection for each
parser object and one configuration; `conversation` resets between messages only,
sends no empty compressed payload and no bare last compressed frame, and its
servers do not set `client_no_context_takeover` by themselves. `handshake` has no
subprotocols, and its header parser has a buffer as long as is needed. In `search` nothing is
asked of what `find` does with an element it read outside and took for a match. What
happens beyond those restrictions is a run below or is described under "Further divergences".

### Fairness

Each is weak fairness of a loop, never of the network:

- `LoopFairness` of `Reception`: inside `_get_message` the loop's next turn is
  taken. That is a C++ loop running; in particular it is not assumed that the peer or the
  user ever does anything. `LoopEnds` then says that every turn consumes something.
- `WF(Parse)` of `FrameParse`: the program goes through the frames while the
  buffer holds any, as the iterators make it do. No byte need ever arrive:
  `EachComesOut` speaks of frames that have.
- `WF(Exchange)` of `Handshake`: the rest of a message that is on its way arrives
  and the program of either end reacts. `HandshakeDecides` excepts connections
  that are reset.
- `WF(Construct)` and `WF(Turn)` of `RangeSearch`: the loop in the constructor and the
  one in `find`. `FindReturns` speaks of both.

The other properties are safety properties and use no fairness.

Deadlock is checked except in `conversation` and its variant, in `frames`, in `handshake`
and its variant, and in `search`: there the bounds on messages, streams or connections
end the behaviour, and a `find` gone astray does.

## Runs that show a divergence

Each checks one property that a comment, an assertion or a test states.

| Run | What the code does |
|---|---|
| `bug_inflated_size_kept` | `uncompress` zeroes `message_size`, *then* adds the last frame's bytes: they count against the next message. |
| `bug_reset_keeps_count` | `reset()` in the middle of a message keeps `_sent_frame_count`: the next connection's first frame is a CONTINUE. |
| `bug_cut_after_lead` | A piece of text that ends right after E0 or F0 is rejected by `fail_fast`. |
| `bug_stale_deflate` | `connect()` leaves `_deflate_ext` alone when the answer has no extension: a client used again sends compressed frames nobody agreed on. |

### Further divergences

Met while modelling, present in the modules, and not given a run. Where a property
shows one, the constants that do are named.

- A fragment refused by `Message::add_frame` for its size was counted by
  `_parse_frame` before. RECV_MESSAGE is lowered, `_frame_count` is not: the rest is
  handed over as a message that begins with CONTINUE (`WholeMessages`, with
  `Frames <- SplitSizes` and `Configs <- SizeConfigs`).
- An empty compressed payload right after another compressed one: `deflate` has
  nothing to flush, returns `Z_BUF_ERROR`, and `assert(r >= 0)` fails
  (`NeverAborts` of `Sending`, in `conversation` with `CompressedPayloads = {0, 3}`).
- A compressed message ended by a frame without payload leaves the peer's inflate
  inside a block; the next compressed message is an `inflate_error` (`PeerAccepts`, with
  `BareCompressed = TRUE`).
- A server set to `client_no_context_takeover`, not offered by the client, resets its
  reader and does not say so (`DealAgrees` and `EndsMirror`, with such a server).
- An offer the user writes into a `ConnectRequest` need not fit the client's settings: if
  it lacks `client_max_window_bits` and the server is set to fewer client bits, the
  server reads with the smaller window and the client writes with 15 (`DealAgrees`, with
  such an offer in `OwnOffers`).
- `compile_header_value` writes a name or a value as it is. What the program puts into an
  extension with a separator in it is read as something else: a name that contains
  `, permessage-deflate` makes the server agree on what this client did not offer (`EndsMirror`,
  with such a name in `UserRequests`).
- `reset()` keeps `_deflate_ext` (`Parser.cc:34`): `CompressedOnlyIfNegotiated` fails
  with `MaxConnections = 2` in `reception_order`. `bug_stale_deflate` is this at the
  client; a server that agrees on nothing keeps its `_deflate_ext` in the same way.
- `reset()` keeps `_utf8_checker`: after a connection that broke off inside a code point the
  next one's first text is refused (`TextComplete`, with `MaxConnections = 2` in
  `reception_text`).
- rsv1 of a CONTINUE is not looked at, and rsv2 and rsv3 in the first data frame of a
  message only (`Parser.cc:93`), while `tests/parse/rsv.cc:5` speaks of any frame.
- RECV_TEXT outlives a TEXT message that failed (`Parser.cc:51-61`): the BINARY
  message after it is checked as UTF-8.
- `Frame::reset` keeps `_close_message`: in message mode an empty CLOSE shows,
  and is checked against, the reason of an earlier CLOSE with a bad code.
- `add_frame` adds the *wire* length of the frame to the inflated lengths before
  it (`Message.cc:23`): an incompressible message within the limit is refused.
- A control frame refused by `add_frame` in the middle of a message is handed
  over with an error and no suggested code (`Parser.cc:155-158`).
- `connect_request` raises CONNECTION_REQUESTED before `to_string` may throw
  (`ClientParser.cc:17`): the parser then refuses a second try, yet `connect` reads
  what the peer sends. If the request has no key yet, the accept value of the empty key
  establishes a client that sent nothing (`EstablishedOnlyIfSent`, in `handshake`);
  `EstablishedByAnswer` says that nothing else does.
- A `ConnectRequest` used again keeps its key and its deflate offer, even for a
  parser with other settings.
- `accept_error(res)` leaves ACCEPTED as it is: `accept_response` may follow, and two
  responses are written.
- A message started by `start_message` with the opcode of a PING or a PONG is sent by the code for
  control frames, which leaves SEND_FRAME raised: the message never ends, and of all other
  calls only those that send control frames are left (`SendOpcodeControl`). Its payload is not
  cut at 125 bytes, as `send_ping` does (`PeerAccepts`, with `Payloads = {126}`), and if
  compressed it is not marked so.
- The value `9=junk` of a window bits parameter is taken for 9, for `from_chars`
  stops behind the digits.

- `find` compares `*iter` with `pattern[j]` before it looks for an end (`KmpFinder.h:35`). In a
  range without an element it reads what there is not; if that is no match, what was held
  of an occurrence that an earlier range began is given up (`LongestHeld` without its
  `~misused`). Called again after a match, without `reset()`, it reads `pattern[PATTERN_SIZE]`:
  the 0 that ends a literal, or what lies behind an array. If it is taken for a match, `j`
  and the iterator leave their bounds (`astray`).
- `parse_header_value` fills `accstr`, of 8 KB, without a look at its bounds
  (`HeaderValueParamsParser.cc:24`).

## Proofs

The proof modules show, for every set of frames, configurations, cuts and
bounds (assumed only to have their types: `FramesAssumption`,
`ConfigsAssumption`, `CutsAssumption`, `MaskAssumption`, `NoFrameAssumption`,
`BoundsAssumption`):

- **`TypeCorrect`** (`Spec => []TypeOK`). `TypeOK` is inductive by itself: each
  operator of `Reception` gets a lemma that gives its range (what arrives and
  what is buffered, the flags, the count, the message), each action one step.
- **`ModesCorrect`** (`Spec => []ModesAgree`). `ModesAgree` is inductive as it
  stands, because it says of every record of the mode what the others say. The argument: `_parse_frame` never raises or
  lowers ESTABLISHED or RECV_MESSAGE and raises RECV_CLOSED for a CLOSE only
  (`FlagsAfterFrame`); so a turn of the frame getter leaves message mode off, and
  a turn of the message getter leaves frame mode off. The loop goes on only if something
  is buffered, and a CLOSE empties the buffer, so the loop never goes on after
  a CLOSE. No bound is used: `MaxConnections` and `MaxFragments` may be anything.
- **`CloseIsFinal`** (`Spec => NothingAfterClose`), from `ModesCorrect`:
  RECV_CLOSED implies ESTABLISHED, so no handshake can succeed before a
  reset, and every getter's guard excludes RECV_CLOSED.

- **`HalvesCorrect`** (`Spec => []HalvesMeet`), with any limits. `HalvesMeet` speaks
  of the first piece buffered only; the strengthening `HalvesInv` adds that no
  later piece is a second half (`RestsFirst`). `FedShape` is the heart: a second
  half that arrives either finds its first half in the buffer and becomes a
  whole frame, or the buffer is empty and, by `ModesAgree`, exactly one getter holds
  the first half. Whatever a getter leaves of the buffer starts with a frame of
  its own (`TailShape`).
- **`CountsCorrect`** (`Spec => []CountsAgree`), assuming `NoMessageLimit`: no
  configuration has a `max_message_size`. The assumption is needed:
  the first item of "Further divergences" is the counterexample without it. The
  strengthening `HeldChecked` says that a control frame cut in its payload had fin,
  which its header check saw; with `HalvesCorrect` it rules out a control frame
  joining the message it interrupts (`AcceptedControlFin`).
- **`MessagesAreWhole`** (`Spec => []WholeMessages`), under the same assumption, from
  `CountsCorrect`: the fragments in progress are a beginning without an end
  (`OpenRun`), and an accepted frame extends them in its place (`RunGrows`).
- **`ImplementsReassembly`** (`Spec => AssembledSpec`), under the same assumption:
  each turn of a getter is `TakeFrame`, `Collect`, `TakeMessage`, `TakeControl`, `Fail`
  or `Hold`; a call that parses nothing is `NothingNew`; `configure`,
  `no_deflate` and the handshake are stutters; `reset` is `Restart`.

- **`ControlsPassThrough`** (`Spec => ControlTransparent`), under the same assumption.
  In the middle of a message the getter's flag is raised already (`CountsAgree`,
  `ModesAgree`), so a PING or PONG finds every flag as it would set it (`ControlKeeps`).
  The property asks which frame a getter completes from the bytes it is given (`TakesPing`), not
  what becomes of the buffer: a PING that arrives alone, or the rest of one, is meant as well.
- **`SuggestedCodeCorrect`** (`Spec => []SuggestedCode`), with any limits. What is left
  of the counts under a limit is `MessageCounted`: a message in progress was counted and
  begins with a data frame. So a control frame refused in the middle of a message is
  told from a message that ended, and no CLOSE is the first of several frames.
- **`SizesCorrect`** (`Spec => []NeverOversized`), with any number of connections,
  assuming `OneLimit`: no two configurations differ in `max_message_size` (a lower limit set
  afterwards would be judged against what was handed over before). The
  invariant `SizeInv` says that the three copies of the limit agree and that DeflateExt has
  counted *at least* the compressed message in progress: its count never starts low, only
  high (`bug_inflated_size_kept`). A frame that is not inflated is limited by
  `add_frame`, one that is by `uncompress` (`AcceptedSize`).
- **`PlainSizesCorrect`** (`Spec => []PlainSizeErrorJustified`), under `OneLimit` as well: a
  message that began uncompressed is never inflated (`PlainCounted`), so `add_frame` alone
  refuses it, and what that counted is the sum of its frames. One more frame adds
  its length to the sum, a recursive function over the fragments (`TotalGrows`).
- **`CompressionAgreed`** (`Spec => []CompressedOnlyIfNegotiated`), assuming
  `OneConnection`: there is a DeflateExt only if it was negotiated, and nothing was
  received before the first handshake (`ConnectionInv`).
- **`TextIsSound`**, **`TextIsComplete`** (`Spec => []TextSound`, `Spec => []TextComplete`),
  assuming `NoMessageLimit`, `OneConnection` and `OneCheck` (the check is not turned on in the
  middle). `ScanStands` says where the checker is between frames: outside a code
  point when no message is in progress, else where a scan of the fragments ends. A scan
  is a function over the fragments; that it can be carried on by one payload
  (`ScanGoesOn`), only so (`ScanCameFrom`), and to one end (`OneScan`, by `SetInduction`)
  is all the argument needs. Without `OneConnection` they do not hold:
  `reset()` keeps the checker, see the divergences. `NoMessageLimit` is there because the argument uses `CountsCorrect`.

The runs of `Reception` check each of these properties on a small instance; the
theorems hold for every value of the constants and, where `OneConnection` is not
assumed, with any number of connections.

The handshake, in `HandshakeProofs`, for every set of settings, requests, foreign
messages, words and digits and any number of connections (`ConfigsAssumption`;
`MessagesAssumption`: messages have the parts the actions read, and are made of words;
`WordsAssumption`: the separators and the names of the parameters are words, a word of digits is
no separator, and every number a parser may be set to can be written):

- **`HeaderParsed`**: `parse_header_value` adds to its list what the header means. The parser
  keeps an accumulator and a mode, the grammar cuts the whole text, so the
  argument relates what both make of every *beginning* of a header (`Tracks`): the elements before the
  last comma are done, and of the current one the parser holds the name, or the
  key so far, or the key and the value so far, with the parameters before it emplaced.
  `TokenTracks` goes through the tokens inside an element, `StepTracks` adds the commas. The two
  recursions meet in `FoldLaws`; that a parameter given twice counts once is
  `ElementGoesOn`, that the first '=' and no later one ends a key `SplitAtNew` and `SplitGrows`.
  `ExtensionsAre` carries it to all headers of a message.
- **`RoundTrip`**: what `compile_header_value` writes of extensions without separators in them is
  read back as the same extensions, in whatever order the parameters are written
  (`ReadParam`, `ReadParams`, `ReadElement`, `ReadFront`: each says where the parser stands behind what
  was written so far). `OfferBack` adds `to_string` and `from_chars`.
- The invariant is `HandshakeInv`: the properties themselves, `Shape` (what the
  members and the messages on their way are records of, and that headers are made of words)
  and `Causes`, who must have acted before. Without it none of them is inductive: the
  server of the library parses nothing its client did not send on this connection; a
  response between two parsers is a refusal unless the server is established; a
  foreign server's answer to what was never sent has another key or, while the request has none, the
  empty one (the exception in `EstablishedByAnswer`).
- **`SameConnectionCorrect`**, **`EstablishedCorrect`**, **`JudgedCorrect`**,
  **`TypeCorrect`**, **`RefusedCorrect`** and, with `ExtensionsAre`,
  **`HeaderUnderstoodCorrect`** follow. The lemmas that carry them say
  that the first fault of a list of checks is found exactly if there is one
  (`FirstFaultIsFirst`, `NoFirstFault`) and what that makes of a request and of a response.
- **`MirrorCorrect`** (`Spec => []EndsMirror`) assumes `ServersTell` (no server is set to
  `client_no_context_takeover` by itself) and `ReadableRequests` (the program writes no
  separator into an extension). The run's constants satisfy both, and without either the theorem is
  false: see the divergences. The invariant `MirrorInv` follows the offer on its way:
  the request in flight says what the program's request says (`Forth`), so does the one the server
  keeps (`Kept`), and a response in flight without a fault says what the server's parser does
  (`Back`, `Told`). `ServerTakes` is `select` and `uplift` at the server, whatever other
  extensions surround the offer; `ClientTakes` is `select` at the client; `BothEnds` compares
  what comes of it. An extension that a reset has left behind does not count as negotiated, for
  it belongs to an earlier connection (`MirrorReset`).

`Utf8Checker`, in `Utf8Proofs`, for every set of bytes, texts and pieces of any length
(`BytesAssumption`, `LimitsAssumption`), with the arithmetic definition of UTF-8
on the other side:

- `CodePointIs`: `valid` and `needed` together are that definition, by cases on the
  length.
- `BoundaryBefore`: a text divides into code points in one way only. So what
  starts at a boundary decides about all later ones.
- `MayStillBeValidIsSound`, `MayStillBeValidIsComplete`: completing with 81 is right, but
  for a code point cut behind E0 or F0.
- `ScanIs`: from a boundary, a scan comes to the code point the text breaks off in, or to
  one that is broken. The recursion is a function, and the induction is over
  the bytes that are left (`SetInduction`). `OutcomeMoves` and `CompletedIs` carry this
  from a piece to the text it continues.
- The invariant `Utf8Inv` says that much of the text written so far; it gives
  **`OnlyUtf8Accepted`**, **`RemainderHeld`** and **`OnlyOthersRejected`**.

`FrameParse`, in `FrameParseProofs`, for every stream of frames a peer may send and
all cuts (`StreamsAssumption`: the frames are `WireFrame`s; `CutsAssumption`):

- `NumberGoesOn`: `parse_binary_number`, given a number in any pieces, puts its bytes in
  their places, although the count of what came is kept in the last of them: while it
  is needed the last byte has not come. A count of zero is indeed nothing read (`NothingYet`).
- `HeaderRead`: one call of `FrameHeader::parse` with any part of a header, from wherever the
  call before stopped, stops where that part ends, or has read the header as it was
  written and used no byte after it. It has a lemma for each stage (`FirstStage`, `SecondStage`,
  `LengthStage`, `MaskStage`).
- The invariant `FInv` says where the parser stands in the stream: `Standing` (in which
  frame; in its header with that much of it read, or in its payload with that many bytes
  left and the mask turned by the bytes passed), `Refused` (an error belongs to the frame
  it stands at) and `ParsedRight` (what came out so far is what was sent). Each step has a lemma
  (`HeaderGoesOnKeeps`, `RefuseKeeps`, `PayloadGoesOnKeeps`, `FrameDoneKeeps`, `ArriveKeeps`).
- **`TypesKept`**, **`BoundariesCorrect`**, **`PromptCorrect`**, **`RefusedCorrect`** and
  **`FramesCorrect`** follow, the last with `CoversUnmasks`: pieces that cover
  the payload in order, each met by the mask turned by what lies before it, are the payload
  unmasked (arithmetic modulo 4, `MaskByteIs`, `MaskedWithIs`).

`RangeSearch`, in `RangeSearchProofs`, for every pattern, any containers and any
number of calls (`PatternsAssumption`: no pattern is empty; `TextsAssumption`):

- The invariant `KmpInv` adds to `InBounds`: `TableInv` (each entry is the longest border; `len` is a
  border, and no longer one can be lengthened), `SearchInv` (`j` elements are held, more
  cannot go on with the element at hand, and there was no whole occurrence before this one),
  `ResultInv` and `ReadInv`.
- **`StaysInBounds`**, **`LongestIsHeld`**, **`FirstIsFound`** and **`ReadsInOrder`** follow. `find` is
  called with any range and whatever is held. A call that begins outside is told from the
  others by `iter = begin`: once an element was read `find` is inside and stays there. The invariant then
  says less of the search (`misused` in `SearchInv`), and all of it again after `reset()`.

`Conversation`, in `ConversationProofs`, for all settings and offers and any number
of connections (`ConfigsAssumption`, `OffersAssumption`, `StartAssumption`, `SizesAssumption`):

- **`DealCorrect`** (`Spec => []DealAgrees`): the windows and resets the two ends draw from one
  handshake fit each other. It assumes `ServersFit` (no server is set to
  `client_no_context_takeover` by itself, or to more than 15 bits) and `OffersFit` (an offer the user
  writes is one for the settings the client has). Both hold of the run's constants, and
  without either the theorem is false: see the divergences. The argument follows an offer
  through `select`, the answer and `select` again (`Selected`, `OneAnswer`).
- **`PeerAcceptsCorrect`**, **`HeardCorrect`** (`Spec => []PeerAccepts`, `Spec => []HeardAsSaid`).
  They assume `ServersFit` and `OffersFit` as well, and `TalkFits`, what the user of the sender must
  keep to: no compressed message ends with a bare frame, nothing is reset inside a message,
  codes may be sent, and where messages may start with the opcode of a PING or PONG no payload
  is longer than such a frame holds. The run's constants satisfy it, and without any part of it
  the theorems are false: see the divergences. Sizes, windows, the length of the
  wire, the number of messages and of connections are any; the sender's own assertion may fail
  (`aborted`), what it said before is heard all the same.

  The argument is about *views*: what a receiver knows between two frames (the message
  in progress, whether it is compressed, the inflate window, what it handed over).
  `Follows` says that a view takes a frame, `After` what it is then. The invariant
  `ConversationInv` says that there is a line of views along the wire (`InLine`): the
  receiver stands at the first (`Listening`, its flags, counts, message and window), each frame
  on the wire follows the view before it, and the sender stands at the last (`Speaking`, its SEND_*
  flags, count, opcode and deflate window). Neither end's state could be related to
  the other's without it, as any number of frames may lie between them. `HearKeeps` takes
  the first view away: a frame that follows a view is no error to `Reception` and leaves it
  at the next (`TurnTaken`, `SizesGoOn`, `StreamGoesOn`). Each call of the sender adds views at the end
  (`SayKeeps`, with a lemma for each call; `BuildMessageKeeps` adds as many as a message has
  parts). That a fragment inflates is `WindowsMatch`: what the compressor refers back to
  always ends what the reader holds, as `DealCorrect` lets no reader forget before its writer does.

`Induction` proves induction over the naturals from their well-foundedness,
for a set: the library's own theorem takes a predicate, which the provers do not
instantiate. With it, it shows that a recursive function is what its equation says
(`RecursionDefines`) and the only one (`RecursionUnique`). `SequenceInduction` is the same
for sequences, which grow at their end. `FoldLaws` is about `FoldOnce`: its value at a sequence one longer (`FoldGoesOn`), after two sequences (`FoldJoined`),
its type (`FoldType`). The operation is a constant of that module, so each use is an instance of it
and nothing is quantified over.

## Only model-checked

Liveness (`LoopEnds`, `EachComesOut`, `HandshakeDecides`, `FindReturns`), which is out of
the prover's reach. Every other property of a passing run is a theorem as well.

## Not modelled

zlib's memory (`grow`), compression levels and actual bytes; `reset_tx` doing
nothing when `next_in` is null. The HTTP parser (another library): a message is
complete or not, and good or not. Subprotocols and the other headers, which the
parsers copy and never look at. The loops over words of `Utf8Checker::write`, taken to
decide what the loop over code points does. The texts of errors and close codes, and the case-insensitive
comparison of header values. The buffer of `MAX_HEADER_VALUE` bytes of the header parser: a token is
taken to fit into it, in `HeaderParsed` and `HeaderUnderstood` as well. What `find` does behind the end
of a range or of the pattern.
The payload of a frame is a size and a text class.

## What is left

1. `Conversation` in both directions at once, with the CLOSE exchange as
   liveness; reconfiguration in mid-connection.
2. The loops over words of `Utf8Checker::write`, refining `Scan`.
3. Subprotocols and the other headers of the handshake.
