---------------------------- MODULE ReceptionProofs ----------------------------
(***************************************************************************)
(* Theorems about the receive half of Parser, for every set of frames,     *)
(* every set of configurations and every bound: the values it keeps, the   *)
(* order of what it hands over (the halves of a cut frame meet, the counts *)
(* of the message agree), that it implements Reassembly; and the contents  *)
(* of what it hands over: its size and the close code it suggests, also    *)
(* with a max_message_size; TEXT is UTF-8 from end to end; and a message   *)
(* is compressed only if the handshake agreed on it.                       *)
(***************************************************************************)
EXTENDS ReceptionProperties, SequenceTheorems, Induction, TLAPS

Items == [frame: Frames, part: {"whole", "rest", "header", "payload"}]

Errors == FrameErrors \cup {NoError}

-------------------------------------------------------------------------------
(* The operators of the model return what their callers store. *)

LEMMA FirstError ==
    ASSUME NEW a \in Errors, NEW b \in Errors
    PROVE  (a ?? b) \in Errors
BY DEF ??

LEMMA CheckError ==
    ASSUME NEW p \in BOOLEAN, NEW e \in FrameErrors
    PROVE  Check(p, e) \in Errors
BY DEF Check, Errors

LEMMA HeaderErrorType ==
    ASSUME NEW f \in Frames, NEW n
    PROVE  HeaderError(f, MaskRequired, n) \in Errors
BY DEF HeaderError, Check, ??, Errors, FrameErrors

LEMMA VerdictType ==
    ASSUME NEW f \in Frames, NEW passed, NEW stale
    PROVE  Verdict(f, passed, stale) \in Errors
<1>1. ParseError(f, passed) \in Errors
  BY HeaderErrorType DEF ParseError, CloseError, Check, ??, Errors, FrameErrors
<1>2. ReasonError(f, CloseMessage(f, stale)) \in Errors
  BY DEF ReasonError, Check, Errors, FrameErrors
<1>3. OrderError(f) \in Errors
  BY DEF OrderError, Check, ??, Errors, FrameErrors
<1>4. InflateError(f) \in Errors
  BY DEF InflateError, Check, ??, Errors, FrameErrors
<1>5. Utf8Error(f) \in Errors
  BY DEF Utf8Error, Check, ??, Errors, FrameErrors
<1> QED
  BY <1>1, <1>2, <1>3, <1>4, <1>5 DEF Verdict, ??

LEMMA NonEmpty ==
    ASSUME NEW S, NEW s \in Seq(S), s # <<>>
    PROVE  /\ Len(s) \in Nat /\ Len(s) > 0
           /\ s[1] \in S /\ Head(s) \in S /\ Head(s) = s[1] /\ Tail(s) \in Seq(S)
OBVIOUS

LEMMA ReplaceLast ==
    ASSUME NEW S, NEW s \in Seq(S), s # <<>>, NEW e \in S
    PROVE  [s EXCEPT ![Len(s)] = e] \in Seq(S)
OBVIOUS

LEMMA ChunksType ==
    ASSUME NEW cut \in Partial \cup {NoFrame}, NEW chunk \in Chunks(cut)
    PROVE  chunk \in Seq(Items)
<1> DEFINE first == IF cut = NoFrame THEN {Whole(f) : f \in Frames} ELSE {Rest(cut.frame)}
           next  == {Whole(f) : f \in Frames} \cup Heads
<1>1. \A f \in Frames : Whole(f) \in Items /\ Rest(f) \in Items
  BY DEF Whole, Rest, Items
<1>2. \A h \in Heads : h \in Items
  BY CutsAssumption DEF Heads, Items
<1>3. \A i \in first : i \in Items
  <2>1. CASE cut = NoFrame
    BY <1>1, <2>1
  <2>2. CASE cut # NoFrame
    BY <1>1, <2>2 DEF Partial
  <2> QED
    BY <2>1, <2>2
<1>4. \A j \in next : j \in Items
  BY <1>1, <1>2
<1>5. \/ \E i \in first : chunk = <<i>>
      \/ \E i \in first, j \in next : chunk = <<i, j>>
      \/ \E i \in Heads : chunk = <<i>>
  BY DEF Chunks
<1>6. \A i \in Items : <<i>> \in Seq(Items)
  OBVIOUS
<1>7. \A i, j \in Items : <<i, j>> \in Seq(Items)
  OBVIOUS
<1> HIDE DEF first, next
<1> QED
  BY <1>2, <1>3, <1>4, <1>5, <1>6, <1>7, Zenon

LEMMA CutFrameType ==
    ASSUME buffer \in Seq(Items), frame \in Partial \cup {NoFrame},
           message_frame \in Partial \cup {NoFrame}
    PROVE  CutFrame \in Partial \cup {NoFrame}
<1>1. ASSUME buffer # <<>>, IsHead(Last) PROVE Last \in Partial
  <2>1. Last \in Items
    BY <1>1 DEF Last
  <2> QED
    BY <1>1, <2>1 DEF IsHead, Items, Partial
<1> QED
  BY <1>1, Zenon DEF CutFrame

LEMMA FedType ==
    ASSUME buffer \in Seq(Items), frame \in Partial \cup {NoFrame},
           message_frame \in Partial \cup {NoFrame}, NEW chunk \in Arrivals
    PROVE  Fed(chunk) \in Seq(Items)
<1>1. CutFrame \in Partial \cup {NoFrame}
  BY CutFrameType
<1>2. chunk \in Seq(Items)
  <2>1. CASE chunk = <<>>
    BY <2>1
  <2>2. CASE chunk \in Chunks(CutFrame)
    BY <1>1, <2>2, ChunksType, Zenon
  <2> QED
    BY <2>1, <2>2 DEF Arrivals
<1>3. CASE chunk # <<>> /\ chunk[1].part = "rest" /\ buffer # <<>>
  <2>1. chunk[1].frame \in Frames
    <3>1. chunk[1] \in Items
      BY <1>2, <1>3, NonEmpty
    <3> QED
      BY <3>1 DEF Items
  <2>2. [buffer EXCEPT ![Len(buffer)] = Whole(chunk[1].frame)] \in Seq(Items)
    <3>1. Whole(chunk[1].frame) \in Items
      BY <2>1 DEF Whole, Items
    <3> QED
      BY <1>3, <3>1, ReplaceLast
  <2>3. Tail(chunk) \in Seq(Items)
    BY <1>2, <1>3, NonEmpty
  <2> QED
    BY <1>3, <2>2, <2>3 DEF Fed
<1>4. CASE ~(chunk # <<>> /\ chunk[1].part = "rest" /\ buffer # <<>>)
  BY <1>2, <1>4 DEF Fed
<1> QED
  BY <1>3, <1>4

\* What a getter call finds at the head of the buffer.
LEMMA HeadType ==
    ASSUME TypeOK, NEW chunk \in Arrivals, Fed(chunk) # <<>>
    PROVE  /\ Head(Fed(chunk)) \in Items
           /\ Head(Fed(chunk)).frame \in Frames
           /\ Tail(Fed(chunk)) \in Seq(Items)
           /\ ~Completes(Head(Fed(chunk))) => Head(Fed(chunk)) \in Partial
<1>1. Fed(chunk) \in Seq(Items)
  BY FedType DEF TypeOK, Items
<1>2. Head(Fed(chunk)) \in Items /\ Tail(Fed(chunk)) \in Seq(Items)
  BY <1>1, NonEmpty
<1> QED
  BY <1>2 DEF Items, Partial, Completes, IsHead

LEMMA FrameFields ==
    ASSUME NEW f \in Frames
    PROVE  /\ f.op \in Nat /\ f.len \in Nat /\ f.size \in Nat /\ f.code \in Nat
           /\ f.text \in TextClasses
           /\ f.fin \in BOOLEAN /\ f.rsv1 \in BOOLEAN /\ f.rsv23 \in BOOLEAN
BY FramesAssumption DEF FrameType, Opcodes

LEMMA SizeTypes ==
    ASSUME NEW f \in Frames
    PROVE  /\ PayloadLength(f) \in Nat
           /\ \A b \in BOOLEAN : PayloadSize(f, b) \in Nat
           /\ SizeOf(f) \in Nat
<1>0. f.len \in Nat /\ f.size \in Nat
  BY FramesAssumption DEF FrameType
<1>1. PayloadLength(f) \in Nat
  BY <1>0 DEF PayloadLength
<1>2. \A b : PayloadSize(f, b) \in Nat
  BY <1>0, <1>1 DEF PayloadSize
<1> QED
  BY <1>1, <1>2 DEF SizeOf

LEMMA ReasonTypes ==
    ASSUME NEW f \in Frames, NEW stale \in TextClasses
    PROVE  CloseMessage(f, stale) \in TextClasses /\ Reason(f, stale) \in TextClasses
BY FrameFields DEF CloseMessage, Reason, TextClasses

\* What _parse_frame leaves behind has the types of the members it is stored in.
LEMMA ParsedTypes ==
    ASSUME TypeOK, NEW f \in Frames, NEW e \in Errors, NEW stale \in TextClasses
    PROVE  /\ \A getter \in {"RECV_FRAME", "RECV_MESSAGE"} : FlagsAfter(getter, f, e) \subseteq Flags
           /\ CountAfter(f, e) \in Nat
           /\ FragmentsAfter(f, e) \in Seq(Frames)
           /\ CheckerAfter(f, e, stale) \in BOOLEAN
           /\ InflatedSizeAfter(f, e) \in Nat
           /\ SuggestedAfter(f, e) \in Nat
           /\ \A rest \in Seq(Items) : BufferAfter(f, e, rest) \in Seq(Items)
<1>1. \A getter \in {"RECV_FRAME", "RECV_MESSAGE"} : FlagsAfter(getter, f, e) \subseteq Flags
  <2>1. Raised(f, e) \subseteq Flags
    BY DEF Raised, Flags
  <2> QED
    BY <2>1 DEF FlagsAfter, TypeOK, Flags
<1>2. CountAfter(f, e) \in Nat
  BY DEF CountAfter, TypeOK
<1>3. FragmentsAfter(f, e) \in Seq(Frames)
  BY DEF FragmentsAfter, TypeOK
<1>4. CheckerAfter(f, e, stale) \in BOOLEAN
  <2>0. utf8_pending \in BOOLEAN
    BY DEF TypeOK
  <2>1. \A text : TextPending(text, utf8_pending) \in BOOLEAN
    <3>1. SUFFICES ASSUME NEW text PROVE TextPending(text, utf8_pending) \in BOOLEAN
      OBVIOUS
    <3>2. (text \in {"opens", "bridges"}) \in BOOLEAN
      OBVIOUS
    <3> QED
      BY <2>0, <3>2, Zenon DEF TextPending
  <2>2. PendingAfter(f) \in BOOLEAN
    BY <2>0, <2>1, Zenon DEF PendingAfter
  <2> QED
    BY <2>0, <2>2, Zenon DEF CheckerAfter
<1>5. InflatedSizeAfter(f, e) \in Nat
  <2>1. deflate_ext.message_size \in Nat
    BY DEF TypeOK
  <2>2. PayloadSize(f, TRUE) \in Nat
    BY SizeTypes
  <2>3. (IF f.fin THEN 0 ELSE deflate_ext.message_size) \in Nat
    BY <2>1
  <2>4. (IF f.fin THEN 0 ELSE deflate_ext.message_size) + PayloadSize(f, TRUE) \in Nat
    <3>1. \A m, n \in Nat : m + n \in Nat
      OBVIOUS
    <3> QED
      BY <2>2, <2>3, <3>1, Zenon
  <2> QED
    BY <2>1, <2>4, Zenon DEF InflatedSizeAfter
<1>6. SuggestedAfter(f, e) \in Nat
  <2>1. suggested_close_code \in Nat
    BY DEF TypeOK
  <2>2. CloseCode(f) \in Nat
    <3>1. f.code \in Nat
      BY FrameFields
    <3> QED
      BY <3>1 DEF CloseCode, UNKNOWN
  <2> QED
    BY <2>1, <2>2 DEF SuggestedAfter, INVALID_TEXT, MAX_SIZE, PROTOCOL_ERROR, DONE
<1>7. \A rest \in Seq(Items) : BufferAfter(f, e, rest) \in Seq(Items)
  BY DEF BufferAfter
<1> QED
  BY <1>1, <1>2, <1>3, <1>4, <1>5, <1>6, <1>7

LEMMA SilentType == Silent \in OutType /\ Refusal \in OutType
BY DEF Silent, Refusal, OutType, NoError, TextClasses

\* A completed frame parsed by either getter.
LEMMA ParsedStep ==
    ASSUME TypeOK, NEW f \in Frames, NEW e \in Errors, NEW stale \in TextClasses, Parsed(f, e, stale)
    PROVE  /\ frame_count' \in Nat
           /\ fragments' \in Seq(Frames)
           /\ utf8_pending' \in BOOLEAN
           /\ deflate_ext' \in [set: BOOLEAN, message_size: Nat, max_message_size: Nat]
           /\ cfg' \in Configs
           /\ deflate_cfg' \in [set: BOOLEAN, max_message_size: Nat]
           /\ connections' \in [count: Nat, negotiated: BOOLEAN]
<1>1. deflate_ext \in [set: BOOLEAN, message_size: Nat, max_message_size: Nat]
  BY DEF TypeOK
<1>2. deflate_ext' = [deflate_ext EXCEPT !.message_size = InflatedSizeAfter(f, e)]
  BY DEF Parsed
<1>3. InflatedSizeAfter(f, e) \in Nat
  BY ParsedTypes
<1>4. deflate_ext' \in [set: BOOLEAN, message_size: Nat, max_message_size: Nat]
  BY <1>1, <1>2, <1>3
<1>5. frame_count' \in Nat /\ fragments' \in Seq(Frames) /\ utf8_pending' \in BOOLEAN
  BY ParsedTypes, Zenon DEF Parsed
<1> QED
  BY <1>4, <1>5 DEF Parsed, TypeOK, config_vars

LEMMA InitType == Init => TypeOK
<1> SUFFICES ASSUME Init PROVE TypeOK
  OBVIOUS
<1>1. cfg.deflate \in BOOLEAN /\ cfg.max_message_size \in Nat
  BY ConfigsAssumption DEF Init, ConfigType
<1>2. deflate_cfg \in [set: BOOLEAN, max_message_size: Nat]
  BY <1>1 DEF Init
<1>3. deflate_ext \in [set: BOOLEAN, message_size: Nat, max_message_size: Nat]
  BY DEF Init, NoDeflateExt
<1>4. message \in [frames: Seq(Frames), length: Nat]
  BY DEF Init, EmptyMessage
<1>5. connections \in [count: Nat, negotiated: BOOLEAN]
  BY DEF Init
<1>6. utf8_pending \in BOOLEAN /\ looping \in BOOLEAN /\ close_message \in TextClasses
  BY DEF Init, TextClasses
<1>7. frame_count \in Nat /\ suggested_close_code \in Nat /\ flags \subseteq Flags
  BY DEF Init
<1> QED
  BY <1>2, <1>3, <1>4, <1>5, <1>6, <1>7, SilentType DEF Init, TypeOK

LEMMA FrameDoneType ==
    ASSUME TypeOK, NEW chunk \in Arrivals, FrameDone(chunk)
    PROVE  TypeOK'
<1> DEFINE buf == Fed(chunk)
           i == Head(buf)
           f == i.frame
           e == Verdict(f, Passed(i, frame), "empty")
<1>1. f \in Frames /\ Tail(buf) \in Seq(Items)
  BY HeadType DEF FrameDone, MayGetFrame
<1>2. e \in Errors /\ "empty" \in TextClasses
  BY <1>1, VerdictType DEF TextClasses
<1>3. Parsed(f, e, "empty")
  BY DEF FrameDone
<1>4. flags' \subseteq Flags
  BY <1>1, <1>2, ParsedTypes DEF FrameDone
<1>5. suggested_close_code' \in Nat
  BY <1>1, <1>2, ParsedTypes DEF FrameDone
<1>6. buffer' \in Seq(Items)
  BY <1>1, <1>2, ParsedTypes DEF FrameDone
<1>7. out' \in OutType
  <2>1. SizeOf(f) \in Nat /\ Reason(f, "empty") \in TextClasses
    BY <1>1, <1>2, SizeTypes, ReasonTypes
  <2> HIDE DEF f, e
  <2>2. out' = [kind |-> "frame", frames |-> <<f>>, error |-> e,
                length |-> IF e = NoError THEN SizeOf(f) ELSE 0,
                reason |-> IF e = NoError THEN Reason(f, "empty") ELSE "empty"]
    BY DEF FrameDone, f, e
  <2> QED
    BY <1>1, <1>2, <2>1, <2>2 DEF OutType, Errors
<1> HIDE DEF f, e
<1> QED
  BY <1>1, <1>2, <1>3, <1>4, <1>5, <1>6, <1>7, ParsedStep DEF FrameDone, TypeOK, Items

LEMMA MessageFrameDoneType ==
    ASSUME TypeOK, NEW chunk \in Arrivals, MessageFrameDone(chunk, MessageVerdict(chunk))
    PROVE  /\ MessageFrame(chunk) \in Frames
           /\ MessageVerdict(chunk) \in Errors
           /\ frame_count' \in Nat
           /\ fragments' \in Seq(Frames)
           /\ utf8_pending' \in BOOLEAN
           /\ deflate_ext' \in [set: BOOLEAN, message_size: Nat, max_message_size: Nat]
           /\ cfg' \in Configs
           /\ deflate_cfg' \in [set: BOOLEAN, max_message_size: Nat]
           /\ connections' \in [count: Nat, negotiated: BOOLEAN]
           /\ buffer' \in Seq(Items)
           /\ frame' \in Partial \cup {NoFrame}
           /\ message_frame' \in Partial \cup {NoFrame}
           /\ close_message' \in TextClasses
<1> DEFINE f == MessageFrame(chunk)
           e == MessageVerdict(chunk)
<1>1. f \in Frames /\ Tail(Fed(chunk)) \in Seq(Items)
  BY HeadType DEF MessageFrameDone, MayGetMessage, MessageFrame
<1>2. e \in Errors
  BY <1>1, VerdictType DEF MessageVerdict, MessageFrame
<1>3. close_message \in TextClasses
  BY DEF TypeOK
<1>4. Parsed(f, e, close_message)
  BY DEF MessageFrameDone
<1>5. buffer' \in Seq(Items)
  BY <1>1, <1>2, <1>3, ParsedTypes DEF MessageFrameDone
<1>6. close_message' \in TextClasses
  BY <1>1, <1>3, ReasonTypes DEF MessageFrameDone
<1>7. frame' \in Partial \cup {NoFrame} /\ message_frame' \in Partial \cup {NoFrame}
  BY DEF MessageFrameDone, TypeOK
<1> HIDE DEF f, e
<1>8. /\ frame_count' \in Nat
      /\ fragments' \in Seq(Frames)
      /\ utf8_pending' \in BOOLEAN
      /\ deflate_ext' \in [set: BOOLEAN, message_size: Nat, max_message_size: Nat]
      /\ cfg' \in Configs
      /\ deflate_cfg' \in [set: BOOLEAN, max_message_size: Nat]
      /\ connections' \in [count: Nat, negotiated: BOOLEAN]
  BY <1>1, <1>2, <1>3, <1>4, ParsedStep
<1> QED
  BY <1>1, <1>2, <1>5, <1>6, <1>7, <1>8 DEF f, e

LEMMA MessageControlType ==
    ASSUME TypeOK, NEW chunk \in Arrivals, MessageControl(chunk)
    PROVE  TypeOK'
<1> DEFINE f == MessageFrame(chunk)
           e == MessageVerdict(chunk)
<1>1. MessageFrameDone(chunk, e)
  BY DEF MessageControl
<1>2. f \in Frames /\ e \in Errors /\ close_message \in TextClasses
  BY <1>1, MessageFrameDoneType DEF TypeOK
<1>3. flags' \subseteq Flags /\ suggested_close_code' \in Nat
  BY <1>2, ParsedTypes DEF MessageControl
<1>4. out' \in OutType
  <2>1. PayloadLength(f) \in Nat /\ Reason(f, close_message) \in TextClasses
    BY <1>2, SizeTypes, ReasonTypes
  <2>2. Check(TooLong(0, f), "max_message_size") \in FrameErrors \cup {NoError}
    BY DEF Check, FrameErrors
  <2> HIDE DEF f, e
  <2>3. out' = [kind |-> "message", frames |-> <<f>>, error |-> Check(TooLong(0, f), "max_message_size"),
                length |-> PayloadLength(f), reason |-> Reason(f, close_message)]
    BY DEF MessageControl, f, e
  <2> QED
    BY <1>2, <2>1, <2>2, <2>3 DEF OutType
<1>5. looping' \in BOOLEAN /\ message' \in [frames: Seq(Frames), length: Nat]
  BY DEF MessageControl, TypeOK
<1> QED
  BY <1>1, <1>3, <1>4, <1>5, MessageFrameDoneType DEF TypeOK, Items

LEMMA MessageGoesOnType ==
    ASSUME TypeOK, NEW chunk \in Arrivals, MessageGoesOn(chunk)
    PROVE  TypeOK'
<1> DEFINE f == MessageFrame(chunk)
           e == MessageVerdict(chunk)
<1>1. MessageFrameDone(chunk, e)
  BY DEF MessageGoesOn
<1>2. f \in Frames /\ e \in Errors
  BY <1>1, MessageFrameDoneType
<1>3. flags' \subseteq Flags /\ suggested_close_code' \in Nat
  <2>1. "empty" \in TextClasses
    BY DEF TextClasses
  <2> QED
    BY <1>2, <2>1, ParsedTypes DEF MessageGoesOn
<1>4. out' \in OutType /\ looping' \in BOOLEAN
  BY SilentType DEF MessageGoesOn, LoopsOn, TypeOK
<1>5. message' \in [frames: Seq(Frames), length: Nat]
  <2>1. SizeOf(f) \in Nat
    BY <1>2, SizeTypes
  <2>2. message \in [frames: Seq(Frames), length: Nat]
    BY DEF TypeOK
  <2> HIDE DEF f, e
  <2>3. message' = [frames |-> Append(message.frames, f), length |-> message.length + SizeOf(f)]
    BY DEF MessageGoesOn, f, e
  <2> QED
    BY <1>2, <2>1, <2>2, <2>3
<1> QED
  BY <1>1, <1>3, <1>4, <1>5, MessageFrameDoneType DEF TypeOK, Items

LEMMA MessageDoneType ==
    ASSUME TypeOK, NEW chunk \in Arrivals, MessageDone(chunk)
    PROVE  TypeOK'
<1> DEFINE f == MessageFrame(chunk)
           e == MessageVerdict(chunk)
           error == e ?? Check(TooLong(message.length, f), "max_message_size")
<1>1. MessageFrameDone(chunk, e)
  BY DEF MessageDone
<1>2. f \in Frames /\ e \in Errors /\ close_message \in TextClasses
  BY <1>1, MessageFrameDoneType DEF TypeOK
<1>3. flags' \subseteq Flags
  <2>1. FlagsAfter("RECV_MESSAGE", f, e) \subseteq Flags
    BY <1>2, ParsedTypes
  <2> QED
    BY <2>1 DEF MessageDone
<1>4. suggested_close_code' \in Nat
  <2>1. SuggestedAfter(f, e) \in Nat
    BY <1>2, ParsedTypes
  <2>2. suggested_close_code' = IF error = "max_message_size" THEN MAX_SIZE ELSE SuggestedAfter(f, e)
    BY DEF MessageDone
  <2> QED
    BY <2>1, <2>2 DEF MAX_SIZE
<1>5. out' \in OutType
  <2>1. SizeOf(f) \in Nat /\ Reason(f, close_message) \in TextClasses
    BY <1>2, SizeTypes, ReasonTypes
  <2>2. error \in FrameErrors \cup {NoError}
    BY <1>2 DEF Check, FrameErrors, Errors, ??
  <2>3. message.frames \in Seq(Frames) /\ message.length \in Nat /\ "empty" \in TextClasses
    BY DEF TypeOK, TextClasses
  <2> HIDE DEF f, e, error
  <2>4. out' = [kind |-> "message", frames |-> Append(message.frames, f), error |-> error,
                length |-> message.length + (IF error = NoError THEN SizeOf(f) ELSE 0),
                reason |-> IF e = NoError THEN Reason(f, close_message) ELSE "empty"]
    BY DEF MessageDone, f, e, error
  <2>5. message.length + (IF error = NoError THEN SizeOf(f) ELSE 0) \in Nat
    BY <2>1, <2>3
  <2>6. (IF e = NoError THEN Reason(f, close_message) ELSE "empty") \in TextClasses
    BY <2>1, <2>3
  <2>7. Append(message.frames, f) \in Seq(Frames)
    BY <1>2, <2>3
  <2> QED
    BY <2>2, <2>4, <2>5, <2>6, <2>7 DEF OutType
<1>6. looping' \in BOOLEAN /\ message' \in [frames: Seq(Frames), length: Nat]
  <2>1. looping' = FALSE
    BY Zenon DEF MessageDone
  <2>2. looping' \in BOOLEAN
    BY <2>1, Zenon
  <2>3. message' = EmptyMessage
    BY Zenon DEF MessageDone
  <2> QED
    BY <2>2, <2>3 DEF EmptyMessage
<1> QED
  BY <1>1, <1>3, <1>4, <1>5, <1>6, MessageFrameDoneType DEF TypeOK, Items

\* Steps of the interface that parse nothing.
LEMMA OtherStepsType ==
    ASSUME TypeOK, Next,
           ~\E chunk \in Arrivals : FrameDone(chunk) \/ MessageControl(chunk)
                                       \/ MessageGoesOn(chunk) \/ MessageDone(chunk)
    PROVE  TypeOK'
<1>1. ASSUME NEW chunk \in Arrivals, Refused(chunk) PROVE TypeOK'
  <2>1. Fed(chunk) \in Seq(Items)
    BY FedType DEF TypeOK, Items
  <2> QED
    BY <1>1, <2>1, SilentType DEF Refused, TypeOK, Items, config_vars, parse_vars
<1>2. ASSUME NEW chunk \in Arrivals, ReturnsNothing(chunk) PROVE TypeOK'
  BY <1>2, SilentType DEF ReturnsNothing, TypeOK, config_vars, parse_vars
<1>3. ASSUME NEW chunk \in Arrivals, FramePrefix(chunk) PROVE TypeOK'
  <2>1. Head(Fed(chunk)) \in Partial
    BY <1>3, HeadType DEF FramePrefix, MayGetFrame
  <2> QED
    BY <1>3, <2>1, SilentType DEF FramePrefix, TypeOK, Flags, config_vars
<1>4. ASSUME NEW chunk \in Arrivals, MessagePrefix(chunk) PROVE TypeOK'
  <2>1. Head(Fed(chunk)) \in Partial
    BY <1>4, HeadType DEF MessagePrefix, MayGetMessage
  <2> QED
    <3>1. looping' \in BOOLEAN
      BY <1>4 DEF MessagePrefix
    <3>2. flags' \subseteq Flags
      BY <1>4 DEF MessagePrefix, TypeOK, Flags
    <3> QED
      BY <1>4, <2>1, <3>1, <3>2, SilentType DEF MessagePrefix, TypeOK, config_vars
<1>5. ASSUME NEW c \in Configs, Configure(c) PROVE TypeOK'
  <2>1. c.deflate \in BOOLEAN /\ c.max_message_size \in Nat
    BY ConfigsAssumption DEF ConfigType
  <2>2. deflate_cfg' \in [set: BOOLEAN, max_message_size: Nat]
    BY <1>5, <2>1 DEF Configure, TypeOK
  <2> QED
    BY <1>5, <2>2 DEF Configure, TypeOK, parse_vars
<1>6. ASSUME NoDeflateCall PROVE TypeOK'
  <2>1. deflate_cfg' \in [set: BOOLEAN, max_message_size: Nat]
    BY <1>6 DEF NoDeflateCall, NoDeflate, TypeOK
  <2> QED
    BY <1>6, <2>1 DEF NoDeflateCall, TypeOK, parse_vars
<1>7. ASSUME NEW negotiated \in BOOLEAN, NEW chunk \in {<<>>} \cup Chunks(NoFrame),
             Establish(negotiated, chunk)
      PROVE  TypeOK'
  <2>1. buffer' \in Seq(Items)
    <3>1. CASE MaskRequired
      BY <1>7, <3>1 DEF Establish, TypeOK, Items
    <3>2. CASE ~MaskRequired
      <4>1. chunk \in Seq(Items)
        <5>1. CASE chunk = <<>>
          BY <5>1
        <5>2. CASE chunk \in Chunks(NoFrame)
          BY <5>2, ChunksType, Zenon
        <5> QED
          BY <5>1, <5>2
      <4> QED
        BY <1>7, <3>2, <4>1 DEF Establish
    <3> QED
      BY <3>1, <3>2
  <2>2. deflate_ext' \in [set: BOOLEAN, message_size: Nat, max_message_size: Nat]
    BY <1>7 DEF Establish, TypeOK
  <2>3. connections' \in [count: Nat, negotiated: BOOLEAN]
    BY <1>7 DEF Establish, TypeOK
  <2>4. flags' \subseteq Flags
    BY <1>7 DEF Establish, TypeOK, Flags
  <2> QED
    BY <1>7, <2>1, <2>2, <2>3, <2>4 DEF Establish, TypeOK, Items, config_vars
<1>8. ASSUME Reset PROVE TypeOK'
  <2>1. message' \in [frames: Seq(Frames), length: Nat]
    BY <1>8 DEF Reset, EmptyMessage
  <2> QED
    BY <1>8, <2>1, SilentType DEF Reset, TypeOK, config_vars
<1> QED
  BY <1>1, <1>2, <1>3, <1>4, <1>5, <1>6, <1>7, <1>8 DEF Next, FrameStep, MessageStep

\* The members of Parser keep their types (Parser.h:169-193), for any frames a
\* peer sends and any calls the user makes.
THEOREM TypeCorrect == Spec => []TypeOK
<1>1. ASSUME TypeOK, [Next]_vars PROVE TypeOK'
  <2>1. CASE UNCHANGED vars
    BY <1>1, <2>1 DEF vars, config_vars, parse_vars, TypeOK
  <2>2. CASE \E chunk \in Arrivals : FrameDone(chunk) \/ MessageControl(chunk)
                                       \/ MessageGoesOn(chunk) \/ MessageDone(chunk)
    BY <1>1, <2>2, FrameDoneType, MessageControlType, MessageGoesOnType, MessageDoneType
  <2> QED
    BY <1>1, <2>1, <2>2, OtherStepsType
<1> QED
  BY <1>1, InitType, PTL DEF Spec

-------------------------------------------------------------------------------
(* Modes. ModesAgree is inductive as it stands. *)

\* _parse_frame raises and lowers neither ESTABLISHED nor RECV_MESSAGE, lowers
\* RECV_FRAME only, and raises RECV_CLOSED for a CLOSE frame only.
LEMMA FlagsAfterFrame ==
    ASSUME NEW f, NEW e, NEW getter \in {"RECV_FRAME", "RECV_MESSAGE"}
    PROVE  /\ Set("ESTABLISHED") <=> "ESTABLISHED" \in FlagsAfter(getter, f, e)
           /\ Set("RECV_MESSAGE") \/ getter = "RECV_MESSAGE" <=> "RECV_MESSAGE" \in FlagsAfter(getter, f, e)
           /\ "RECV_FRAME" \in FlagsAfter(getter, f, e) => Set("RECV_FRAME") \/ getter = "RECV_FRAME"
           /\ "RECV_CLOSED" \in FlagsAfter(getter, f, e) => Set("RECV_CLOSED") \/ f.op = CLOSE
<1>1. Raised(f, e) \subseteq {"RECV_CLOSED", "RECV_TEXT", "RECV_INFLATE"}
  BY DEF Raised
<1>2. "RECV_CLOSED" \in Raised(f, e) => f.op = CLOSE
  BY DEF Raised
<1>3. Lowered(f, e) \subseteq {"RECV_FRAME", "RECV_TEXT", "RECV_INFLATE"}
  BY DEF Lowered
<1> QED
  BY <1>1, <1>2, <1>3 DEF FlagsAfter, Set

\* A frame parsed in frame mode.
LEMMA FrameStepModes ==
    ASSUME ModesAgree, NEW chunk, FrameStep(chunk)
    PROVE  ModesAgree'
<1>1. CASE FramePrefix(chunk)
  BY <1>1 DEF FramePrefix, MayGetFrame, ModesAgree, Set
<1>2. CASE FrameDone(chunk)
  <2>1. PICK f, e : flags' = FlagsAfter("RECV_FRAME", f, e)
    BY <1>2 DEF FrameDone
  <2>2. /\ ~Set("RECV_MESSAGE") /\ Set("ESTABLISHED") /\ ~looping
        /\ frame' = NoFrame /\ message_frame' = message_frame /\ message' = message /\ looping' = looping
    BY <1>2 DEF FrameDone, MayGetFrame
  <2>3. "RECV_MESSAGE" \notin flags' /\ "ESTABLISHED" \in flags'
    BY <2>1, <2>2, FlagsAfterFrame
  <2> QED
    BY <2>2, <2>3 DEF ModesAgree, Set
<1> QED
  BY <1>1, <1>2 DEF FrameStep

\* A turn of the loop in message mode.
LEMMA MessageStepModes ==
    ASSUME ModesAgree, NEW chunk, MessageStep(chunk)
    PROVE  ModesAgree'
<1> DEFINE f == MessageFrame(chunk)
           e == MessageVerdict(chunk)
<1>1. CASE MessagePrefix(chunk)
  BY <1>1 DEF MessagePrefix, MayGetMessage, ModesAgree, Set
<1>2. CASE MessageFrameDone(chunk, e) /\ flags' = FlagsAfter("RECV_MESSAGE", f, e) /\ looping' \in BOOLEAN
           /\ (looping' => ~(f.op = CLOSE) /\ buffer' # <<>>)
  <2>1. /\ ~Set("RECV_FRAME") /\ ~Set("RECV_CLOSED") /\ Set("ESTABLISHED")
        /\ message_frame' = NoFrame /\ frame' = frame
    BY <1>2 DEF MessageFrameDone, MayGetMessage
  <2>2. /\ "RECV_FRAME" \notin flags' /\ "RECV_MESSAGE" \in flags' /\ "ESTABLISHED" \in flags'
        /\ "RECV_CLOSED" \in flags' => f.op = CLOSE
    BY <1>2, <2>1, FlagsAfterFrame
  <2> HIDE DEF f, e
  <2> QED
    BY <1>2, <2>1, <2>2 DEF ModesAgree, Set
<1>3. CASE MessageControl(chunk)
  BY <1>2, <1>3 DEF MessageControl
<1>4. CASE MessageGoesOn(chunk)
  <2>1. /\ MessageFrameDone(chunk, e) /\ flags' = FlagsAfter("RECV_MESSAGE", f, e)
        /\ looping' = (buffer' # <<>>)
    BY <1>4 DEF MessageGoesOn, LoopsOn
  <2>2. f.op = CLOSE => buffer' = <<>>
    BY <2>1 DEF MessageFrameDone, BufferAfter
  <2> QED
    BY <1>2, <2>1, <2>2
<1>5. CASE MessageDone(chunk)
  <2>1. /\ flags' = FlagsAfter("RECV_MESSAGE", f, e) \ {"RECV_MESSAGE", "RECV_INFLATE"}
        /\ message' = EmptyMessage /\ message_frame' = NoFrame /\ frame' = frame /\ looping' = FALSE
        /\ Set("ESTABLISHED") /\ ~Set("RECV_FRAME")
    BY <1>5 DEF MessageDone, MessageFrameDone, MayGetMessage
  <2>2. "RECV_FRAME" \notin flags' /\ "RECV_MESSAGE" \notin flags' /\ "ESTABLISHED" \in flags'
    BY <2>1, FlagsAfterFrame
  <2> HIDE DEF f, e
  <2> QED
    BY <2>1, <2>2 DEF ModesAgree, Set
<1> QED
  BY <1>1, <1>3, <1>4, <1>5 DEF MessageStep

\* The steps of the interface that parse nothing.
LEMMA OtherStepsModes ==
    ASSUME ModesAgree, Next, ~\E chunk \in Arrivals : FrameStep(chunk) \/ MessageStep(chunk)
    PROVE  ModesAgree'
<1>1. ASSUME NEW chunk, Refused(chunk) \/ ReturnsNothing(chunk) PROVE ModesAgree'
  BY <1>1 DEF Refused, ReturnsNothing, parse_vars, ModesAgree, Set
<1>2. ASSUME NEW c, Configure(c) PROVE ModesAgree'
  BY <1>2 DEF Configure, parse_vars, ModesAgree, Set
<1>3. ASSUME NoDeflateCall PROVE ModesAgree'
  BY <1>3 DEF NoDeflateCall, parse_vars, ModesAgree, Set
<1>4. ASSUME NEW negotiated, NEW chunk, Establish(negotiated, chunk) PROVE ModesAgree'
  <2>1. flags = {}
    BY <1>4 DEF Establish, ModesAgree
  <2> QED
    BY <1>4, <2>1 DEF Establish, ModesAgree, Set
<1>5. ASSUME Reset PROVE ModesAgree'
  BY <1>5 DEF Reset, ModesAgree, Set
<1> QED
  BY <1>1, <1>2, <1>3, <1>4, <1>5 DEF Next

\* The flags, the frames being received and the message being gathered agree on which
\* getter is at work, and never on two (_get_frame, _get_message, _parse_frame).
THEOREM ModesCorrect == Spec => []ModesAgree
<1>1. Init => ModesAgree
  BY DEF Init, ModesAgree, Set
<1>2. ASSUME ModesAgree, [Next]_vars PROVE ModesAgree'
  <2>1. CASE UNCHANGED vars
    BY <1>2, <2>1 DEF vars, parse_vars, ModesAgree, Set
  <2>2. CASE \E chunk \in Arrivals : FrameStep(chunk) \/ MessageStep(chunk)
    BY <1>2, <2>2, FrameStepModes, MessageStepModes
  <2> QED
    BY <1>2, <2>1, <2>2, OtherStepsModes
<1> QED
  BY <1>1, <1>2, PTL DEF Spec

\* After a CLOSE no getter parses anything, hands anything over or changes what the
\* parser knows, until reset (_get_frame, _get_message: the test of RECV_CLOSED).
THEOREM CloseIsFinal == Spec => NothingAfterClose
<1> DEFINE Quiet == Set("RECV_CLOSED") /\ flags' # {} =>
                        /\ UNCHANGED parse_vars
                        /\ out' = out \/ out'.kind \in {"silent", "refused"}
<1>1. ASSUME ModesAgree, Next PROVE Quiet
  <2>1. SUFFICES ASSUME Set("RECV_CLOSED"), flags' # {}
                 PROVE  /\ UNCHANGED parse_vars
                        /\ out' = out \/ out'.kind \in {"silent", "refused"}
    OBVIOUS
  <2>2. Set("ESTABLISHED")
    BY <1>1, <2>1 DEF ModesAgree, Set
  <2>3. ASSUME NEW chunk PROVE ~FrameStep(chunk) /\ ~MessageStep(chunk)
    BY <2>1 DEF FrameStep, FramePrefix, FrameDone, MayGetFrame, MessageStep, MessagePrefix,
                MessageControl, MessageGoesOn, MessageDone, MessageFrameDone, MayGetMessage
  <2>4. ASSUME NEW negotiated, NEW chunk PROVE ~Establish(negotiated, chunk)
    BY <2>2 DEF Establish
  <2>5. ~Reset
    BY <2>1 DEF Reset
  <2>6. ASSUME NEW chunk, Refused(chunk) PROVE UNCHANGED parse_vars /\ out'.kind = "refused"
    BY <2>6 DEF Refused, Refusal
  <2>7. ASSUME NEW chunk, ReturnsNothing(chunk) PROVE UNCHANGED parse_vars /\ out'.kind = "silent"
    BY <2>7 DEF ReturnsNothing, Silent
  <2>8. ASSUME NEW c, Configure(c) PROVE UNCHANGED parse_vars /\ out' = out
    BY <2>8 DEF Configure
  <2>9. NoDeflateCall => UNCHANGED parse_vars /\ out' = out
    BY DEF NoDeflateCall
  <2> QED
    BY <1>1, <2>3, <2>4, <2>5, <2>6, <2>7, <2>8, <2>9 DEF Next
<1>2. ModesAgree /\ [Next]_vars => [Quiet]_vars
  BY <1>1
<1> HIDE DEF Quiet
<1>3. Spec => [][Quiet]_vars
  BY <1>2, ModesCorrect, PTL DEF Spec
<1> QED
  BY <1>3 DEF NothingAfterClose, Quiet

-------------------------------------------------------------------------------
(* The halves of a cut frame. *)

\* A second half is first in _buffer: what came before it was taken by a getter.
RestsFirst == \A k \in 2 .. Len(buffer) : buffer[k].part # "rest"

HalvesInv == RestsFirst /\ HalvesMeet

\* A chunk has a second half only at its start, and only of the frame that was cut.
LEMMA ChunksShape ==
    ASSUME NEW cut \in Partial \cup {NoFrame}, NEW chunk \in Chunks(cut)
    PROVE  /\ chunk # <<>> /\ Len(chunk) \in {1, 2}
           /\ chunk[1].part = "rest" => cut # NoFrame /\ chunk[1].frame = cut.frame
           /\ Len(chunk) = 2 => chunk[2].part # "rest"
<1> DEFINE first == IF cut = NoFrame THEN {Whole(f) : f \in Frames} ELSE {Rest(cut.frame)}
           next  == {Whole(f) : f \in Frames} \cup Heads
<1>1. \A h \in Heads : h.part # "rest"
  BY CutsAssumption DEF Heads
<1>2. \A i \in first : i.part = "rest" => cut # NoFrame /\ i.frame = cut.frame
  BY DEF Whole, Rest
<1>3. \A j \in next : j.part # "rest"
  BY <1>1 DEF Whole
<1>4. \/ \E i \in first : chunk = <<i>>
      \/ \E i \in first, j \in next : chunk = <<i, j>>
      \/ \E i \in Heads : chunk = <<i>>
  BY DEF Chunks
<1> HIDE DEF first, next
<1> QED
  BY <1>1, <1>2, <1>3, <1>4

LEMMA MergedShape ==
    ASSUME NEW s \in Seq(Items), s # <<>>, \A k \in 2 .. Len(s) : s[k].part # "rest",
           NEW w \in Items, w.part = "whole",
           NEW t \in Seq(Items), \A k \in 1 .. Len(t) : t[k].part # "rest"
    PROVE  LET r == [s EXCEPT ![Len(s)] = w] \o t
           IN  /\ r \in Seq(Items)
               /\ \A k \in 2 .. Len(r) : r[k].part # "rest"
               /\ r[1].part = "rest" => r[1] = s[1]
<1> DEFINE u == [s EXCEPT ![Len(s)] = w]
           r == u \o t
<1>1. u \in Seq(Items) /\ Len(u) = Len(s) /\ Len(s) \in Nat /\ Len(s) > 0
  BY ReplaceLast
<1>2. \A k \in 1 .. Len(s) : u[k] = IF k = Len(s) THEN w ELSE s[k]
  OBVIOUS
<1> HIDE DEF u
<1>3. r \in Seq(Items) /\ Len(r) = Len(s) + Len(t) /\ Len(t) \in Nat
  <2>1. /\ u \o t \in Seq(Items) /\ Len(u \o t) = Len(u) + Len(t)
    BY <1>1, ConcatProperties, Zenon
  <2>2. Len(t) \in Nat
    OBVIOUS
  <2> QED
    BY <1>1, <2>1, <2>2
<1>4. \A k \in 1 .. Len(r) : r[k] = IF k <= Len(s) THEN u[k] ELSE t[k - Len(s)]
  <2>1. \A k \in 1 .. Len(u) + Len(t) : (u \o t)[k] = IF k <= Len(u) THEN u[k] ELSE t[k - Len(u)]
    BY <1>1, ConcatProperties, Zenon
  <2> QED
    BY <1>1, <1>3, <2>1
<1>5. ASSUME NEW k \in 2 .. Len(r) PROVE r[k].part # "rest"
  <2>1. CASE k <= Len(s)
    BY <1>1, <1>2, <1>3, <1>4, <2>1
  <2>2. CASE k > Len(s)
    <3>1. k - Len(s) \in 1 .. Len(t)
      BY <1>1, <1>3, <2>2
    <3> QED
      BY <1>1, <1>3, <1>4, <2>2, <3>1
  <2> QED
    BY <1>1, <1>3, <2>1, <2>2
<1>6. r[1].part = "rest" => r[1] = s[1]
  BY <1>1, <1>2, <1>3, <1>4
<1> QED
  BY <1>3, <1>5, <1>6 DEF u

\* What is in _buffer once a chunk is appended, and whose half is first in it.
LEMMA FedShape ==
    ASSUME TypeOK, ModesAgree, HalvesInv, NEW chunk \in Arrivals
    PROVE  /\ Fed(chunk) \in Seq(Items)
           /\ \A k \in 2 .. Len(Fed(chunk)) : Fed(chunk)[k].part # "rest"
           /\ Fed(chunk) # <<>> /\ Fed(chunk)[1].part = "rest" =>
                 \/ frame # NoFrame /\ frame.frame = Fed(chunk)[1].frame /\ ~Set("RECV_MESSAGE")
                 \/ message_frame # NoFrame /\ message_frame.frame = Fed(chunk)[1].frame /\ ~Set("RECV_FRAME")
<1>0. /\ buffer \in Seq(Items) /\ Len(buffer) \in Nat
      /\ frame \in Partial \cup {NoFrame} /\ message_frame \in Partial \cup {NoFrame}
  BY DEF TypeOK, Items
<1>1. CutFrame \in Partial \cup {NoFrame}
  BY <1>0, CutFrameType
<1>2. Fed(chunk) \in Seq(Items)
  BY <1>0, FedType
<1>3. CASE chunk = <<>>
  BY <1>0, <1>2, <1>3 DEF Fed, HalvesInv, RestsFirst, HalvesMeet
<1>4. CASE chunk \in Chunks(CutFrame)
  <2>1. /\ chunk # <<>> /\ Len(chunk) \in {1, 2} /\ chunk \in Seq(Items)
        /\ chunk[1].part = "rest" => CutFrame # NoFrame /\ chunk[1].frame = CutFrame.frame
        /\ Len(chunk) = 2 => chunk[2].part # "rest"
    BY <1>1, <1>4, ChunksShape, ChunksType
  <2>2. CASE chunk[1].part = "rest" /\ buffer # <<>>
    <3>1. Fed(chunk) = [buffer EXCEPT ![Len(buffer)] = Whole(chunk[1].frame)] \o Tail(chunk)
      BY <2>1, <2>2 DEF Fed
    <3>2. Whole(chunk[1].frame) \in Items /\ Whole(chunk[1].frame).part = "whole"
      <4>1. chunk[1] \in Items
        BY <2>1
      <4> QED
        BY <4>1 DEF Items, Whole
    <3>3. Tail(chunk) \in Seq(Items) /\ \A k \in 1 .. Len(Tail(chunk)) : Tail(chunk)[k].part # "rest"
      BY <2>1
    <3>4. /\ \A k \in 2 .. Len(Fed(chunk)) : Fed(chunk)[k].part # "rest"
          /\ Fed(chunk)[1].part = "rest" => Fed(chunk)[1] = buffer[1]
      <4> DEFINE w == Whole(chunk[1].frame)
                 t == Tail(chunk)
      <4>1. \A k \in 2 .. Len(buffer) : buffer[k].part # "rest"
        BY DEF HalvesInv, RestsFirst
      <4>2. w \in Items /\ w.part = "whole" /\ t \in Seq(Items) /\ \A k \in 1 .. Len(t) : t[k].part # "rest"
        BY <3>2, <3>3
      <4>3. Fed(chunk) = [buffer EXCEPT ![Len(buffer)] = w] \o t
        BY <3>1
      <4> HIDE DEF w, t
      <4> QED
        BY <1>0, <2>2, <4>1, <4>2, <4>3, MergedShape
    <3>5. Fed(chunk)[1].part = "rest" =>
             \/ frame # NoFrame /\ frame.frame = Fed(chunk)[1].frame /\ ~Set("RECV_MESSAGE")
             \/ message_frame # NoFrame /\ message_frame.frame = Fed(chunk)[1].frame /\ ~Set("RECV_FRAME")
      BY <2>2, <3>4 DEF HalvesInv, HalvesMeet
    <3> QED
      BY <1>2, <3>4, <3>5
  <2>3. CASE chunk[1].part # "rest" /\ buffer # <<>>
    <3>1. Fed(chunk) = buffer \o chunk
      BY <2>3 DEF Fed
    <3>2. \A k \in 1 .. Len(chunk) : chunk[k].part # "rest"
      BY <2>1, <2>3
    <3>3. /\ Len(Fed(chunk)) = Len(buffer) + Len(chunk) /\ Fed(chunk)[1] = buffer[1]
          /\ \A k \in 1 .. Len(Fed(chunk)) :
                Fed(chunk)[k] = IF k <= Len(buffer) THEN buffer[k] ELSE chunk[k - Len(buffer)]
      <4>1. /\ Len(Fed(chunk)) = Len(buffer) + Len(chunk)
            /\ \A k \in 1 .. Len(Fed(chunk)) :
                  Fed(chunk)[k] = IF k <= Len(buffer) THEN buffer[k] ELSE chunk[k - Len(buffer)]
        BY <1>0, <2>1, <3>1, ConcatProperties
      <4>2. Len(buffer) > 0 /\ Len(chunk) > 0
        BY <1>0, <2>1, <2>3
      <4> QED
        BY <1>0, <2>1, <4>1, <4>2
    <3>4. ASSUME NEW k \in 2 .. Len(Fed(chunk)) PROVE Fed(chunk)[k].part # "rest"
      <4>1. CASE k <= Len(buffer)
        BY <1>0, <3>3, <4>1 DEF HalvesInv, RestsFirst
      <4>2. CASE k > Len(buffer)
        <5>1. k - Len(buffer) \in 1 .. Len(chunk)
          BY <1>0, <2>1, <3>3, <4>2
        <5> QED
          BY <1>0, <2>1, <3>2, <3>3, <4>2, <5>1
      <4> QED
        BY <1>0, <4>1, <4>2
    <3> QED
      BY <1>2, <2>3, <3>3, <3>4 DEF HalvesInv, HalvesMeet
  <2>4. CASE buffer = <<>>
    <3>1. Fed(chunk) = chunk
      BY <2>1, <2>4 DEF Fed
    <3>2. CutFrame = IF frame # NoFrame THEN frame ELSE message_frame
      BY <2>4 DEF CutFrame
    <3>3. \A k \in 2 .. Len(chunk) : chunk[k].part # "rest"
      BY <2>1
    <3>4. chunk[1].part = "rest" =>
             \/ frame # NoFrame /\ frame.frame = chunk[1].frame /\ ~Set("RECV_MESSAGE")
             \/ message_frame # NoFrame /\ message_frame.frame = chunk[1].frame /\ ~Set("RECV_FRAME")
      BY <2>1, <3>2 DEF ModesAgree
    <3> QED
      BY <1>2, <3>1, <3>3, <3>4
  <2> QED
    BY <2>2, <2>3, <2>4
<1> QED
  BY <1>3, <1>4 DEF Arrivals

\* What a getter leaves of the buffer does not start with a second half.
LEMMA TailShape ==
    ASSUME TypeOK, ModesAgree, HalvesInv, NEW chunk \in Arrivals, Fed(chunk) # <<>>,
           buffer' \in {<<>>, Tail(Fed(chunk))}
    PROVE  HalvesInv'
<1>1. \A k \in 1 .. Len(buffer') : buffer'[k].part # "rest"
  <2>1. CASE buffer' = <<>>
    BY <2>1
  <2>2. CASE buffer' = Tail(Fed(chunk))
    <3>1. /\ Fed(chunk) \in Seq(Items)
          /\ \A k \in 2 .. Len(Fed(chunk)) : Fed(chunk)[k].part # "rest"
      BY FedShape
    <3>2. /\ Len(Tail(Fed(chunk))) = Len(Fed(chunk)) - 1
          /\ \A k \in 1 .. Len(Tail(Fed(chunk))) : Tail(Fed(chunk))[k] = Fed(chunk)[k + 1]
      BY <3>1
    <3> QED
      BY <2>2, <3>1, <3>2
  <2> QED
    BY <2>1, <2>2
<1>2. buffer' # <<>> => 1 \in 1 .. Len(buffer')
  <2>1. Fed(chunk) \in Seq(Items)
    BY FedShape
  <2> QED
    BY <2>1
<1> QED
  BY <1>1, <1>2 DEF HalvesInv, RestsFirst, HalvesMeet

LEMMA HalvesStep ==
    ASSUME TypeOK, ModesAgree, HalvesInv, [Next]_vars
    PROVE  HalvesInv'
<1>1. ASSUME NEW chunk \in Arrivals, Refused(chunk) PROVE HalvesInv'
  <2>1. buffer' = Fed(chunk) /\ UNCHANGED <<frame, message_frame, flags>>
    BY <1>1 DEF Refused, parse_vars
  <2> QED
    BY <2>1, FedShape DEF HalvesInv, RestsFirst, HalvesMeet, Set
<1>2. ASSUME NEW chunk \in Arrivals, ReturnsNothing(chunk) PROVE HalvesInv'
  BY <1>2 DEF ReturnsNothing, HalvesInv, RestsFirst, HalvesMeet
<1>3. ASSUME NEW chunk \in Arrivals, FrameStep(chunk) \/ MessageStep(chunk) PROVE HalvesInv'
  <2>1. Fed(chunk) # <<>> /\ buffer' \in {<<>>, Tail(Fed(chunk))}
    BY <1>3 DEF FrameStep, FramePrefix, FrameDone, MayGetFrame, MessageStep, MessagePrefix,
                MessageControl, MessageGoesOn, MessageDone, MessageFrameDone, MayGetMessage, BufferAfter
  <2> QED
    BY <2>1, TailShape
<1>4. ASSUME NEW c, Configure(c) PROVE HalvesInv'
  BY <1>4 DEF Configure, parse_vars, HalvesInv, RestsFirst, HalvesMeet, Set
<1>5. ASSUME NoDeflateCall PROVE HalvesInv'
  BY <1>5 DEF NoDeflateCall, parse_vars, HalvesInv, RestsFirst, HalvesMeet, Set
<1>6. ASSUME NEW negotiated, NEW chunk \in {<<>>} \cup Chunks(NoFrame), Establish(negotiated, chunk)
      PROVE  HalvesInv'
  <2>1. UNCHANGED <<frame, message_frame>> /\ flags = {} /\ flags' = {"ESTABLISHED"}
        /\ frame = NoFrame /\ message_frame = NoFrame
    BY <1>6 DEF Establish, ModesAgree, Set
  <2>2. buffer' = buffer \/ buffer' = <<>> \/ buffer' \in Chunks(NoFrame)
    BY <1>6 DEF Establish
  <2>3. CASE buffer' \in Chunks(NoFrame)
    BY <2>1, <2>3, ChunksShape DEF HalvesInv, RestsFirst, HalvesMeet
  <2>4. CASE buffer' = buffer
    BY <2>1, <2>4 DEF HalvesInv, RestsFirst, HalvesMeet
  <2>5. CASE buffer' = <<>>
    BY <2>5 DEF HalvesInv, RestsFirst, HalvesMeet
  <2> QED
    BY <2>2, <2>3, <2>4, <2>5
<1>7. ASSUME Reset PROVE HalvesInv'
  BY <1>7 DEF Reset, HalvesInv, RestsFirst, HalvesMeet
<1>8. CASE UNCHANGED vars
  BY <1>8 DEF vars, parse_vars, HalvesInv, RestsFirst, HalvesMeet, Set
<1> QED
  BY <1>1, <1>2, <1>3, <1>4, <1>5, <1>6, <1>7, <1>8 DEF Next

LEMMA HalvesInvariant == Spec => []HalvesInv
<1>1. Init => HalvesInv
  BY DEF Init, HalvesInv, RestsFirst, HalvesMeet
<1>2. TypeOK /\ ModesAgree /\ HalvesInv /\ [Next]_vars => HalvesInv'
  BY HalvesStep
<1> QED
  BY <1>1, <1>2, TypeCorrect, ModesCorrect, PTL DEF Spec

\* The second half of a frame always meets its first half, in the getter that took
\* it: no error, close, refusal or change of getter comes between the two
\* (_frame, _message_frame).
THEOREM HalvesCorrect == Spec => []HalvesMeet
<1>1. HalvesInv => HalvesMeet
  BY DEF HalvesInv
<1> QED
  BY <1>1, HalvesInvariant, PTL

-------------------------------------------------------------------------------
(* The counts. A message limit makes them disagree: add_frame refuses a    *)
(* fragment that _parse_frame has counted.                                 *)

NoMessageLimit == \A c \in Configs : c.max_message_size = 0

\* The header of a control frame that was cut in its payload had fin.
HeldChecked ==
    message_frame # NoFrame /\ message_frame.part = "payload" /\ IsControl(message_frame.frame.op)
    => message_frame.frame.fin

CountsInv == CountsAgree /\ HeldChecked

LEMMA HeaderFin ==
    ASSUME NEW f, NEW n, HeaderError(f, MaskRequired, n) = NoError, IsControl(f.op)
    PROVE  f.fin
BY DEF HeaderError, Check, ??, NoError

\* A data frame is accepted only in its place.
LEMMA InOrder ==
    ASSUME NEW f, NEW passed, NEW stale, Verdict(f, passed, stale) = NoError, ~IsControl(f.op)
    PROVE  f.op = CONTINUE <=> frame_count # 0
<1>1. OrderError(f) = NoError
  BY DEF Verdict, ??, NoError
<1> QED
  BY <1>1 DEF OrderError, Check, ??, NoError

\* A complete frame that passes every check and is a control frame has fin.
LEMMA AcceptedControlFin ==
    ASSUME TypeOK, ModesAgree, HalvesInv, HeldChecked, NEW chunk \in Arrivals,
           MayGetMessage(chunk), MessageVerdict(chunk) = NoError, IsControl(MessageFrame(chunk).op)
    PROVE  MessageFrame(chunk).fin
<1> DEFINE i == Head(Fed(chunk))
           f == i.frame
<1>1. Fed(chunk) # <<>> /\ ~Set("RECV_FRAME")
  BY DEF MayGetMessage
<1>2. i = Fed(chunk)[1]
  BY <1>1, FedShape
<1>3. CASE Passed(i, message_frame)
  <2>1. i.part = "rest" /\ message_frame # NoFrame /\ message_frame.part = "payload"
    BY <1>3 DEF Passed
  <2>2. frame = NoFrame
    BY <1>1 DEF ModesAgree
  <2>3. message_frame.frame = f
    <3> HIDE DEF i
    <3> QED
      BY <1>1, <1>2, <2>1, <2>2, FedShape
  <2> QED
    BY <2>1, <2>3 DEF HeldChecked, MessageFrame
<1>4. CASE ~Passed(i, message_frame)
  <2>1. Verdict(f, Passed(i, message_frame), close_message) = NoError
    BY DEF MessageVerdict
  <2> HIDE DEF i
  <2>2. ParseError(f, Passed(i, message_frame)) = NoError
    BY <2>1 DEF Verdict, ??
  <2>3. HeaderError(f, MaskRequired, cfg.max_frame_size) = NoError
    BY <1>4, <2>2 DEF ParseError, ??
  <2> QED
    BY <2>3, HeaderFin DEF MessageFrame, i
<1> QED
  BY <1>3, <1>4

\* RECV_INFLATE and RECV_FRAME after a frame, by the frame's verdict.
LEMMA InflateAfterFrame ==
    ASSUME NEW f \in Frames, NEW e, NEW getter \in {"RECV_FRAME", "RECV_MESSAGE"}
    PROVE  /\ e # NoError => "RECV_INFLATE" \notin FlagsAfter(getter, f, e)
           /\ e = NoError /\ IsControl(f.op) =>
                 ("RECV_INFLATE" \in FlagsAfter(getter, f, e) <=> Set("RECV_INFLATE"))
           /\ e = NoError /\ ~IsControl(f.op) =>
                 ("RECV_INFLATE" \in FlagsAfter(getter, f, e) <=> ~f.fin /\ Inflated(f))
           /\ e = NoError /\ (IF IsControl(f.op) THEN frame_count # 0 ELSE ~f.fin) =>
                 (getter = "RECV_FRAME" => "RECV_FRAME" \in FlagsAfter(getter, f, e))
<1>1. f.op = CLOSE => IsControl(f.op)
  BY DEF IsControl, CLOSE
<1>2. CASE e # NoError
  BY <1>2 DEF FlagsAfter, Lowered
<1>3. CASE e = NoError /\ IsControl(f.op)
  <2>1. Raised(f, e) \subseteq {"RECV_CLOSED"}
    BY <1>3 DEF Raised
  <2>2. Lowered(f, e) = {g \in {"RECV_FRAME"} : frame_count = 0}
    BY <1>3 DEF Lowered
  <2> QED
    BY <1>3, <2>1, <2>2 DEF FlagsAfter, Set
<1>4. CASE e = NoError /\ ~IsControl(f.op)
  <2>1. Raised(f, e) = {g \in {"RECV_TEXT"} : Scanned(f)} \cup {g \in {"RECV_INFLATE"} : Inflated(f)}
    BY <1>1, <1>4 DEF Raised
  <2>2. Lowered(f, e) = IF f.fin
                        THEN {"RECV_FRAME", "RECV_INFLATE"} \cup {g \in {"RECV_TEXT"} : cfg.check_utf8}
                        ELSE {}
    BY <1>4 DEF Lowered
  <2>3. Set("RECV_INFLATE") => Inflated(f)
    BY DEF Inflated
  <2>4. "RECV_INFLATE" \in FlagsAfter(getter, f, e) <=> ~f.fin /\ Inflated(f)
    <3>1. CASE f.fin
      BY <2>2, <3>1 DEF FlagsAfter
    <3>2. CASE ~f.fin
      <4>1. Lowered(f, e) = {}
        BY <2>2, <3>2
      <4>2. "RECV_INFLATE" \in Raised(f, e) <=> Inflated(f)
        BY <2>1
      <4> QED
        BY <2>3, <3>2, <4>1, <4>2 DEF FlagsAfter, Set
    <3> QED
      BY <3>1, <3>2
  <2>5. ~f.fin /\ getter = "RECV_FRAME" => "RECV_FRAME" \in FlagsAfter(getter, f, e)
    BY <2>2 DEF FlagsAfter
  <2> QED
    BY <1>4, <2>4, <2>5
<1> QED
  BY <1>2, <1>3, <1>4

\* After a completed frame the count, the fragments and RECV_INFLATE agree again.
LEMMA CountStep ==
    ASSUME TypeOK, CountsAgree, NEW f \in Frames, NEW e, NEW getter \in {"RECV_FRAME", "RECV_MESSAGE"},
           frame_count' = CountAfter(f, e), fragments' = FragmentsAfter(f, e),
           "RECV_INFLATE" \in flags' <=> "RECV_INFLATE" \in FlagsAfter(getter, f, e)
    PROVE  /\ frame_count' = Len(fragments')
           /\ "RECV_INFLATE" \in flags' <=> frame_count' > 0 /\ fragments'[1].rsv1
<1>0. fragments \in Seq(Frames) /\ frame_count = Len(fragments) /\ frame_count \in Nat
  BY DEF TypeOK, CountsAgree
<1>1. CASE e # NoError
  BY <1>1, InflateAfterFrame DEF CountAfter, FragmentsAfter
<1>2. CASE e = NoError /\ IsControl(f.op)
  BY <1>2, InflateAfterFrame DEF CountAfter, FragmentsAfter, CountsAgree
<1>3. CASE e = NoError /\ ~IsControl(f.op) /\ f.fin
  BY <1>3, InflateAfterFrame DEF CountAfter, FragmentsAfter
<1>4. CASE e = NoError /\ ~IsControl(f.op) /\ ~f.fin
  <2>1. frame_count' = frame_count + 1 /\ fragments' = Append(fragments, f)
    BY <1>4 DEF CountAfter, FragmentsAfter
  <2>2. fragments'[1] = IF frame_count = 0 THEN f ELSE fragments[1]
    BY <1>0, <2>1
  <2>3. "RECV_INFLATE" \in flags' <=> Inflated(f)
    BY <1>4, InflateAfterFrame
  <2>4. Inflated(f) <=> fragments'[1].rsv1
    <3>1. CASE frame_count = 0
      BY <2>2, <3>1 DEF Inflated, CountsAgree
    <3>2. CASE frame_count # 0
      BY <1>0, <2>2, <3>2 DEF Inflated, CountsAgree
    <3> QED
      BY <3>1, <3>2
  <2>5. frame_count' = Len(fragments') /\ frame_count' > 0
    BY <1>0, <2>1
  <2> QED
    BY <2>3, <2>4, <2>5
<1> QED
  BY <1>1, <1>2, <1>3, <1>4

\* In message mode the message holds the fragments accepted.
LEMMA Gathered ==
    ASSUME TypeOK, ModesAgree, CountsAgree, NEW chunk, MayGetMessage(chunk)
    PROVE  message.frames = fragments
<1>1. CASE Set("RECV_MESSAGE")
  BY <1>1 DEF CountsAgree
<1>2. CASE ~Set("RECV_MESSAGE")
  <2>1. message.frames = <<>>
    BY <1>2 DEF ModesAgree, EmptyMessage
  <2>2. frame_count = 0
    BY <1>2 DEF MayGetMessage, CountsAgree, TypeOK
  <2>3. fragments \in Seq(Frames) /\ Len(fragments) = 0
    BY <2>2 DEF CountsAgree, TypeOK
  <2> QED
    BY <2>1, <2>3
<1> QED
  BY <1>1, <1>2

LEMMA FrameStepCounts ==
    ASSUME TypeOK, ModesAgree, CountsInv, NEW chunk \in Arrivals, FrameStep(chunk)
    PROVE  CountsInv'
<1>1. CASE FramePrefix(chunk)
  BY <1>1 DEF FramePrefix, MayGetFrame, CountsInv, CountsAgree, HeldChecked, Set
<1>2. CASE FrameDone(chunk)
  <2> DEFINE f == Head(Fed(chunk)).frame
             e == Verdict(f, Passed(Head(Fed(chunk)), frame), "empty")
  <2>1. f \in Frames
    BY <1>2, HeadType DEF FrameDone, MayGetFrame
  <2>2. /\ flags' = FlagsAfter("RECV_FRAME", f, e)
        /\ frame_count' = CountAfter(f, e) /\ fragments' = FragmentsAfter(f, e)
        /\ message_frame' = message_frame /\ ~Set("RECV_MESSAGE")
    BY <1>2 DEF FrameDone, MayGetFrame, Parsed
  <2> HIDE DEF f, e
  <2>3. /\ frame_count' = Len(fragments')
        /\ "RECV_INFLATE" \in flags' <=> frame_count' > 0 /\ fragments'[1].rsv1
    BY <2>1, <2>2, CountStep DEF CountsInv
  <2>4. "RECV_MESSAGE" \notin flags'
    BY <2>2, FlagsAfterFrame
  <2>5. frame_count' > 0 => "RECV_FRAME" \in flags'
    <3>1. frame_count' > 0 => e = NoError /\ (IF IsControl(f.op) THEN frame_count # 0 ELSE ~f.fin)
      BY <2>2 DEF CountAfter
    <3> QED
      BY <2>1, <2>2, <3>1, InflateAfterFrame
  <2> QED
    BY <2>2, <2>3, <2>4, <2>5 DEF CountsInv, CountsAgree, HeldChecked, Set
<1> QED
  BY <1>1, <1>2 DEF FrameStep

LEMMA MessageStepCounts ==
    ASSUME TypeOK, ModesAgree, HalvesInv, CountsInv, NoMessageLimit, NEW chunk \in Arrivals, MessageStep(chunk)
    PROVE  CountsInv'
<1> DEFINE f == MessageFrame(chunk)
           e == MessageVerdict(chunk)
<1>1. CASE MessagePrefix(chunk)
  <2>1. MayGetMessage(chunk)
    BY <1>1 DEF MessagePrefix
  <2>2. message.frames = fragments
    BY <2>1, Gathered DEF CountsInv
  <2>3. CountsAgree'
    BY <1>1, <2>2 DEF MessagePrefix, CountsInv, CountsAgree, Set
  <2>4. HeldChecked'
    <3> DEFINE i == Head(Fed(chunk))
    <3>1. message_frame' = i /\ ~Completes(i)
      BY <1>1 DEF MessagePrefix
    <3> HIDE DEF i
    <3>2. i.part = "payload" => HeaderError(i.frame, MaskRequired, cfg.max_frame_size) = NoError
      BY <3>1 DEF Completes
    <3> QED
      BY <3>1, <3>2, HeaderFin DEF HeldChecked
  <2> QED
    BY <2>3, <2>4 DEF CountsInv
<1>2. ASSUME MessageFrameDone(chunk, e)
      PROVE  /\ f \in Frames /\ message.frames = fragments /\ fragments \in Seq(Frames)
             /\ frame_count' = CountAfter(f, e) /\ fragments' = FragmentsAfter(f, e)
             /\ message_frame' = NoFrame
             /\ e = NoError /\ IsControl(f.op) => f.fin
  <2>1. MayGetMessage(chunk)
    BY <1>2 DEF MessageFrameDone
  <2>2. f \in Frames
    BY <2>1, HeadType DEF MayGetMessage, MessageFrame
  <2>3. e = NoError /\ IsControl(f.op) => f.fin
    BY <2>1, AcceptedControlFin DEF CountsInv
  <2>4. message.frames = fragments
    BY <2>1, Gathered DEF CountsInv
  <2> QED
    BY <1>2, <2>2, <2>3, <2>4 DEF MessageFrameDone, Parsed, TypeOK
<1>3. CASE MessageControl(chunk)
  <2>1. /\ MessageFrameDone(chunk, e) /\ flags' = FlagsAfter("RECV_MESSAGE", f, e)
        /\ message' = message /\ e = NoError /\ IsControl(f.op)
    BY <1>3 DEF MessageControl, PassesThrough
  <2>2. "RECV_MESSAGE" \in flags'
    BY <2>1, FlagsAfterFrame
  <2>3. fragments' = fragments
    BY <1>2, <2>1 DEF FragmentsAfter
  <2>4. /\ frame_count' = Len(fragments')
        /\ "RECV_INFLATE" \in flags' <=> frame_count' > 0 /\ fragments'[1].rsv1
    <3> HIDE DEF f, e
    <3> QED
      BY <1>2, <2>1, CountStep DEF CountsInv
  <2> HIDE DEF f, e
  <2> QED
    BY <1>2, <2>1, <2>2, <2>3, <2>4 DEF CountsInv, CountsAgree, HeldChecked, Set
<1>4. CASE MessageGoesOn(chunk)
  <2>1. /\ MessageFrameDone(chunk, e) /\ flags' = FlagsAfter("RECV_MESSAGE", f, e)
        /\ message'.frames = Append(message.frames, f) /\ e = NoError /\ ~f.fin
    BY <1>4 DEF MessageGoesOn
  <2>2. "RECV_MESSAGE" \in flags'
    BY <2>1, FlagsAfterFrame
  <2>3. fragments' = Append(fragments, f)
    BY <1>2, <2>1 DEF FragmentsAfter
  <2>4. /\ frame_count' = Len(fragments')
        /\ "RECV_INFLATE" \in flags' <=> frame_count' > 0 /\ fragments'[1].rsv1
    <3> HIDE DEF f, e
    <3> QED
      BY <1>2, <2>1, CountStep DEF CountsInv
  <2> HIDE DEF f, e
  <2> QED
    BY <1>2, <2>1, <2>2, <2>3, <2>4 DEF CountsInv, CountsAgree, HeldChecked, Set
<1>5. CASE MessageDone(chunk)
  <2>1. MessageFrameDone(chunk, e) /\ ~PassesThrough(f, e)
    BY <1>5 DEF MessageDone
  <2>2. flags' = FlagsAfter("RECV_MESSAGE", f, e) \ {"RECV_MESSAGE", "RECV_INFLATE"}
    BY <1>5 DEF MessageDone
  <2>3. e # NoError \/ f.fin
    <3>1. ~TooLong(message.length, f)
      BY DEF TooLong, NoMessageLimit, TypeOK
    <3> QED
      BY <1>5, <3>1 DEF MessageDone, Check, ??
  <2>4. frame_count' = 0 /\ fragments' = <<>>
    <3>1. CASE e # NoError \/ ~IsControl(f.op)
      BY <1>2, <2>1, <2>3, <3>1 DEF CountAfter, FragmentsAfter
    <3>2. CASE e = NoError /\ IsControl(f.op)
      <4>1. message.frames = <<>>
        BY <2>1, <3>2 DEF PassesThrough
      <4> QED
        BY <1>2, <2>1, <3>2, <4>1 DEF CountAfter, FragmentsAfter, CountsInv, CountsAgree
    <3> QED
      BY <3>1, <3>2
  <2> HIDE DEF f, e
  <2> QED
    BY <1>2, <2>1, <2>2, <2>4 DEF CountsInv, CountsAgree, HeldChecked, Set
<1> QED
  BY <1>1, <1>3, <1>4, <1>5 DEF MessageStep

LEMMA CountsStep ==
    ASSUME TypeOK, ModesAgree, HalvesInv, CountsInv, NoMessageLimit, [Next]_vars
    PROVE  CountsInv'
<1>1. ASSUME NEW chunk, Refused(chunk) \/ ReturnsNothing(chunk) PROVE CountsInv'
  BY <1>1 DEF Refused, ReturnsNothing, parse_vars, CountsInv, CountsAgree, HeldChecked, Set
<1>2. ASSUME NEW chunk \in Arrivals, FrameStep(chunk) \/ MessageStep(chunk) PROVE CountsInv'
  BY <1>2, FrameStepCounts, MessageStepCounts
<1>3. ASSUME NEW c, Configure(c) PROVE CountsInv'
  BY <1>3 DEF Configure, parse_vars, CountsInv, CountsAgree, HeldChecked, Set
<1>4. ASSUME NoDeflateCall PROVE CountsInv'
  BY <1>4 DEF NoDeflateCall, parse_vars, CountsInv, CountsAgree, HeldChecked, Set
<1>5. ASSUME NEW negotiated, NEW chunk, Establish(negotiated, chunk) PROVE CountsInv'
  <2>1. flags = {} /\ flags' = {"ESTABLISHED"}
    BY <1>5 DEF Establish, ModesAgree, Set
  <2> QED
    BY <1>5, <2>1 DEF Establish, CountsInv, CountsAgree, HeldChecked, Set
<1>6. ASSUME Reset PROVE CountsInv'
  BY <1>6 DEF Reset, EmptyMessage, CountsInv, CountsAgree, HeldChecked, Set
<1>7. CASE UNCHANGED vars
  BY <1>7 DEF vars, parse_vars, CountsInv, CountsAgree, HeldChecked, Set
<1> QED
  BY <1>1, <1>2, <1>3, <1>4, <1>5, <1>6, <1>7 DEF Next

LEMMA CountsInvariant ==
    ASSUME NoMessageLimit PROVE Spec => []CountsInv
<1>1. Init => CountsInv
  BY DEF Init, CountsInv, CountsAgree, HeldChecked, EmptyMessage, Set
<1>2. TypeOK /\ ModesAgree /\ HalvesInv /\ CountsInv /\ [Next]_vars => CountsInv'
  BY CountsStep
<1> QED
  BY <1>1, <1>2, HalvesInvariant, TypeCorrect, ModesCorrect, PTL DEF Spec

\* Without a message size limit, the count, the message and RECV_INFLATE always agree with
\* the fragments accepted (_frame_count, _message, _parse_frame).
THEOREM CountsCorrect ==
    ASSUME NoMessageLimit PROVE Spec => []CountsAgree
<1>1. CountsInv => CountsAgree
  BY DEF CountsInv
<1> QED
  BY <1>1, CountsInvariant, PTL

-------------------------------------------------------------------------------
(* Whole messages. *)

\* The fragments of the message in progress: a beginning, and no end.
OpenRun ==
    /\ \A k \in 1 .. Len(fragments) : ~IsControl(fragments[k].op) /\ ~fragments[k].fin
    /\ \A k \in 1 .. Len(fragments) : fragments[k].op = CONTINUE <=> k # 1

\* What was handed over last.
OutWhole ==
    out.kind = "message" /\ out.error = NoError =>
       \/ Len(out.frames) = 1 /\ IsControl(out.frames[1].op)
       \/ /\ \A k \in 1 .. Len(out.frames) : ~IsControl(out.frames[k].op)
          /\ \A k \in 1 .. Len(out.frames) : out.frames[k].op = CONTINUE <=> k # 1
          /\ \A k \in 1 .. Len(out.frames) : out.frames[k].fin <=> k = Len(out.frames)

WholeInv == OpenRun /\ OutWhole

\* A frame accepted in its place continues the run.
LEMMA RunGrows ==
    ASSUME TypeOK, CountsAgree, OpenRun, NEW f \in Frames, ~IsControl(f.op),
           f.op = CONTINUE <=> frame_count # 0,
           NEW s, s = Append(fragments, f)
    PROVE  /\ Len(s) \in Nat
           /\ \A k \in 1 .. Len(s) : ~IsControl(s[k].op)
           /\ \A k \in 1 .. Len(s) : s[k].op = CONTINUE <=> k # 1
           /\ \A k \in 1 .. Len(s) : s[k].fin <=> k = Len(s) /\ f.fin
<1>1. fragments \in Seq(Frames) /\ frame_count = Len(fragments) /\ Len(fragments) \in Nat
  BY DEF TypeOK, CountsAgree
<1>2. /\ Len(s) = Len(fragments) + 1
      /\ \A k \in 1 .. Len(s) : s[k] = IF k = Len(s) THEN f ELSE fragments[k]
  BY <1>1
<1>3. ASSUME NEW k \in 1 .. Len(s)
      PROVE  /\ ~IsControl(s[k].op)
             /\ s[k].op = CONTINUE <=> k # 1
             /\ s[k].fin <=> k = Len(s) /\ f.fin
  <2>1. CASE k = Len(s)
    BY <1>1, <1>2, <2>1
  <2>2. CASE k # Len(s)
    <3>1. k \in 1 .. Len(fragments) /\ s[k] = fragments[k]
      BY <1>1, <1>2, <2>2
    <3> QED
      BY <2>2, <3>1 DEF OpenRun
  <2> QED
    BY <2>1, <2>2
<1> QED
  BY <1>1, <1>2, <1>3

\* A completed frame leaves a run without its end.
LEMMA OpenRunStep ==
    ASSUME TypeOK, CountsAgree, OpenRun, NEW f \in Frames, NEW e,
           e = NoError /\ ~IsControl(f.op) => (f.op = CONTINUE <=> frame_count # 0),
           fragments' = FragmentsAfter(f, e)
    PROVE  OpenRun'
<1>1. CASE e # NoError \/ (~IsControl(f.op) /\ f.fin)
  <2>1. fragments' = <<>>
    BY <1>1 DEF FragmentsAfter
  <2> QED
    BY <2>1 DEF OpenRun
<1>2. CASE e = NoError /\ IsControl(f.op)
  BY <1>2 DEF FragmentsAfter, OpenRun
<1>3. CASE e = NoError /\ ~IsControl(f.op) /\ ~f.fin
  <2>1. fragments' = Append(fragments, f)
    BY <1>3 DEF FragmentsAfter
  <2> QED
    BY <1>3, <2>1, RunGrows DEF OpenRun
<1> QED
  BY <1>1, <1>2, <1>3

LEMMA MessageStepWhole ==
    ASSUME TypeOK, ModesAgree, CountsInv, WholeInv, NoMessageLimit, NEW chunk \in Arrivals, MessageStep(chunk)
    PROVE  WholeInv'
<1> DEFINE f == MessageFrame(chunk)
           e == MessageVerdict(chunk)
<1>1. CASE MessagePrefix(chunk)
  BY <1>1 DEF MessagePrefix, Silent, WholeInv, OpenRun, OutWhole
<1>2. ASSUME MessageFrameDone(chunk, e)
      PROVE  /\ f \in Frames /\ message.frames = fragments
             /\ e = NoError /\ ~IsControl(f.op) => (f.op = CONTINUE <=> frame_count # 0)
             /\ OpenRun'
  <2>1. MayGetMessage(chunk) /\ fragments' = FragmentsAfter(f, e)
    BY <1>2 DEF MessageFrameDone, Parsed
  <2>2. f \in Frames
    BY <2>1, HeadType DEF MayGetMessage, MessageFrame
  <2>3. message.frames = fragments
    BY <2>1, Gathered DEF CountsInv
  <2>4. e = NoError /\ ~IsControl(f.op) => (f.op = CONTINUE <=> frame_count # 0)
    BY InOrder DEF MessageVerdict, MessageFrame
  <2> HIDE DEF f, e
  <2> QED
    BY <2>1, <2>2, <2>3, <2>4, OpenRunStep DEF CountsInv, WholeInv
<1>3. CASE MessageControl(chunk)
  <2>1. MessageFrameDone(chunk, e) /\ IsControl(f.op) /\ out'.frames = <<f>>
    BY <1>3 DEF MessageControl, PassesThrough
  <2> HIDE DEF f, e
  <2> QED
    BY <1>2, <2>1 DEF WholeInv, OutWhole
<1>4. CASE MessageGoesOn(chunk)
  <2>1. MessageFrameDone(chunk, e) /\ (out' = out \/ out' = Silent)
    BY <1>4 DEF MessageGoesOn
  <2> QED
    BY <1>2, <2>1 DEF WholeInv, OutWhole, Silent
<1>5. CASE MessageDone(chunk)
  <2>1. MessageFrameDone(chunk, e) /\ ~PassesThrough(f, e) /\ out'.frames = Append(message.frames, f)
    BY <1>5 DEF MessageDone
  <2>2. out'.error = NoError => e = NoError /\ f.fin
    BY <1>5 DEF MessageDone, ??
  <2>3. CASE out'.error # NoError
    BY <1>2, <2>1, <2>3 DEF WholeInv, OutWhole
  <2>4. CASE out'.error = NoError /\ IsControl(f.op)
    <3>1. message.frames = <<>>
      BY <2>1, <2>2, <2>4 DEF PassesThrough
    <3>2. out'.frames = <<f>>
      BY <2>1, <3>1
    <3> QED
      BY <1>2, <2>1, <2>4, <3>2 DEF WholeInv, OutWhole
  <2>5. CASE out'.error = NoError /\ ~IsControl(f.op)
    <3> HIDE DEF f, e
    <3>1. /\ \A k \in 1 .. Len(out'.frames) : ~IsControl(out'.frames[k].op)
          /\ \A k \in 1 .. Len(out'.frames) : out'.frames[k].op = CONTINUE <=> k # 1
          /\ \A k \in 1 .. Len(out'.frames) : out'.frames[k].fin <=> k = Len(out'.frames)
      <4> DEFINE s == Append(fragments, f)
      <4>1. out'.frames = s /\ f.fin
        BY <1>2, <2>1, <2>2, <2>5
      <4>2. f \in Frames /\ ~IsControl(f.op) /\ (f.op = CONTINUE <=> frame_count # 0)
        BY <1>2, <2>1, <2>2, <2>5
      <4>3. /\ \A k \in 1 .. Len(s) : ~IsControl(s[k].op)
            /\ \A k \in 1 .. Len(s) : s[k].op = CONTINUE <=> k # 1
            /\ \A k \in 1 .. Len(s) : s[k].fin <=> k = Len(s) /\ f.fin
        BY <4>2, RunGrows DEF CountsInv, WholeInv
      <4> HIDE DEF s
      <4> QED
        BY <4>1, <4>3
    <3> QED
      BY <1>2, <2>1, <3>1 DEF WholeInv, OutWhole
  <2> QED
    BY <2>3, <2>4, <2>5
<1> QED
  BY <1>1, <1>3, <1>4, <1>5 DEF MessageStep

LEMMA FrameStepWhole ==
    ASSUME TypeOK, CountsInv, WholeInv, NEW chunk \in Arrivals, FrameStep(chunk)
    PROVE  WholeInv'
<1>1. CASE FramePrefix(chunk)
  BY <1>1 DEF FramePrefix, Silent, WholeInv, OpenRun, OutWhole
<1>2. CASE FrameDone(chunk)
  <2> DEFINE f == Head(Fed(chunk)).frame
             e == Verdict(f, Passed(Head(Fed(chunk)), frame), "empty")
  <2>1. f \in Frames
    BY <1>2, HeadType DEF FrameDone, MayGetFrame
  <2>2. fragments' = FragmentsAfter(f, e) /\ out'.kind = "frame"
    BY <1>2 DEF FrameDone, Parsed
  <2>3. e = NoError /\ ~IsControl(f.op) => (f.op = CONTINUE <=> frame_count # 0)
    BY InOrder
  <2> HIDE DEF f, e
  <2> QED
    BY <2>1, <2>2, <2>3, OpenRunStep DEF CountsInv, WholeInv, OutWhole
<1> QED
  BY <1>1, <1>2 DEF FrameStep

LEMMA WholeStep ==
    ASSUME TypeOK, ModesAgree, CountsInv, WholeInv, NoMessageLimit, [Next]_vars
    PROVE  WholeInv'
<1>1. ASSUME NEW chunk, Refused(chunk) \/ ReturnsNothing(chunk) PROVE WholeInv'
  BY <1>1 DEF Refused, ReturnsNothing, Silent, Refusal, parse_vars, WholeInv, OpenRun, OutWhole
<1>2. ASSUME NEW chunk \in Arrivals, FrameStep(chunk) \/ MessageStep(chunk) PROVE WholeInv'
  BY <1>2, FrameStepWhole, MessageStepWhole
<1>3. ASSUME NEW c, Configure(c) PROVE WholeInv'
  BY <1>3 DEF Configure, parse_vars, WholeInv, OpenRun, OutWhole
<1>4. ASSUME NoDeflateCall PROVE WholeInv'
  BY <1>4 DEF NoDeflateCall, parse_vars, WholeInv, OpenRun, OutWhole
<1>5. ASSUME NEW negotiated, NEW chunk, Establish(negotiated, chunk) PROVE WholeInv'
  BY <1>5 DEF Establish, WholeInv, OpenRun, OutWhole
<1>6. ASSUME Reset PROVE WholeInv'
  BY <1>6 DEF Reset, Silent, WholeInv, OpenRun, OutWhole
<1>7. CASE UNCHANGED vars
  BY <1>7 DEF vars, parse_vars, WholeInv, OpenRun, OutWhole
<1> QED
  BY <1>1, <1>2, <1>3, <1>4, <1>5, <1>6, <1>7 DEF Next

\* Without a message size limit, every message handed over whole is one control frame or a
\* run of fragments that begins with an opcode of its own, goes on with CONTINUE and ends
\* with the first fin; so no getter is given half a message (Parser.cc:151-152).
THEOREM MessagesAreWhole ==
    ASSUME NoMessageLimit PROVE Spec => []WholeMessages
<1>1. Init => WholeInv
  BY DEF Init, Silent, WholeInv, OpenRun, OutWhole
<1>2. TypeOK /\ ModesAgree /\ CountsInv /\ WholeInv /\ [Next]_vars => WholeInv'
  BY WholeStep
<1>3. Spec => []WholeInv
  BY <1>1, <1>2, CountsInvariant, TypeCorrect, ModesCorrect, PTL DEF Spec
<1>4. WholeInv => WholeMessages
  <2>1. /\ Assembled!CONTINUE = CONTINUE /\ Assembled!NoError = NoError
        /\ \A op : Assembled!IsControl(op) <=> IsControl(op)
    BY DEF Assembled!CONTINUE, CONTINUE, Assembled!NoError, NoError,
           Assembled!IsControl, IsControl, Assembled!CLOSE, CLOSE
  <2>2. OpenRun => Assembled!BeginsMessage(fragments) /\ \A k \in 1 .. Len(fragments) : ~fragments[k].fin
    BY <2>1 DEF OpenRun, Assembled!BeginsMessage
  <2>3. \A s : (\A k \in 1 .. Len(s) : ~IsControl(s[k].op)) /\ (\A k \in 1 .. Len(s) : s[k].op = CONTINUE <=> k # 1)
            => Assembled!BeginsMessage(s)
    BY <2>1 DEF Assembled!BeginsMessage
  <2> QED
    BY <2>1, <2>2, <2>3 DEF WholeInv, OutWhole, WholeMessages, Assembled!WholeMessages
<1> QED
  BY <1>3, <1>4, PTL

-------------------------------------------------------------------------------
(* Control frames in the middle of a message. *)

\* An accepted PING or PONG in the middle of a message, in either mode.
LEMMA ControlKeeps ==
    ASSUME TypeOK, NEW f \in Frames, f.op \in {PING, PONG}, NEW stale, Parsed(f, NoError, stale),
           frame_count # 0, NEW getter, getter \in flags, getter \in {"RECV_FRAME", "RECV_MESSAGE"}
    PROVE  /\ FlagsAfter(getter, f, NoError) = flags
           /\ UNCHANGED <<frame_count, deflate_ext, utf8_pending, fragments>>
<1>1. IsControl(f.op) /\ f.op # CLOSE
  BY DEF IsControl, CLOSE, PING, PONG
<1>2. Raised(f, NoError) = {} /\ Lowered(f, NoError) = {}
  BY <1>1 DEF Raised, Lowered
<1>3. frame_count' = frame_count /\ fragments' = fragments
  BY <1>1 DEF Parsed, CountAfter, FragmentsAfter
<1>4. deflate_ext' = deflate_ext
  <2>1. InflatedSizeAfter(f, NoError) = deflate_ext.message_size
    BY <1>1 DEF InflatedSizeAfter
  <2> QED
    BY <2>1 DEF Parsed, TypeOK
<1>5. utf8_pending' = utf8_pending
  BY <1>1 DEF Parsed, CheckerAfter, TypeOK
<1> QED
  BY <1>2, <1>3, <1>4, <1>5 DEF FlagsAfter

\* Without a message size limit, a PING or PONG that any getter completes in the middle of a
\* message is handed over by itself and leaves the flags, the count, the message, its inflation
\* and its scan as they were (_parse_frame; _get_message, Parser.cc:154-158).
THEOREM ControlsPassThrough ==
    ASSUME NoMessageLimit PROVE Spec => ControlTransparent
<1> DEFINE Kept(chunk) == /\ out'.frames = <<MessageFrame(chunk)>>
                          /\ UNCHANGED <<flags, frame_count, fragments, message, deflate_ext, utf8_pending>>
           Apart == frame_count > 0 => \A chunk \in Arrivals : TakesPing(chunk) => Kept(chunk)
<1>1. ASSUME TypeOK, ModesAgree, CountsInv PROVE Apart
  <2>1. SUFFICES ASSUME frame_count > 0, NEW chunk \in Arrivals, TakesPing(chunk) PROVE Kept(chunk)
    OBVIOUS
  <2>2. frame_count # 0 /\ MessageFrame(chunk).op \in {PING, PONG}
    BY <1>1, <2>1 DEF TypeOK, TakesPing
  <2>3. IsControl(MessageFrame(chunk).op)
    BY <2>2 DEF IsControl, CLOSE, PING, PONG
  <2>4. CASE FrameDone(chunk) /\ out'.error = NoError
    <3> DEFINE g == Head(Fed(chunk)).frame
               e == Verdict(g, Passed(Head(Fed(chunk)), frame), "empty")
    <3>1. /\ out'.frames = <<g>> /\ out'.error = e /\ flags' = FlagsAfter("RECV_FRAME", g, e)
          /\ Parsed(g, e, "empty") /\ message' = message /\ ~Set("RECV_MESSAGE")
      BY <2>4 DEF FrameDone, MayGetFrame
    <3>2. g \in Frames /\ g = MessageFrame(chunk)
      BY <1>1, <2>4, HeadType DEF FrameDone, MayGetFrame, MessageFrame
    <3> HIDE DEF g, e
    <3>3. e = NoError
      BY <2>4, <3>1
    <3>4. "RECV_FRAME" \in flags
      BY <1>1, <2>2, <3>1 DEF CountsInv, CountsAgree, TypeOK, Set
    <3> QED
      BY <1>1, <2>2, <3>1, <3>2, <3>3, <3>4, ControlKeeps
  <2>5. CASE MessageControl(chunk)
    <3> DEFINE g == MessageFrame(chunk)
               e == MessageVerdict(chunk)
    <3>1. /\ out'.frames = <<g>> /\ e = NoError /\ flags' = FlagsAfter("RECV_MESSAGE", g, e)
          /\ Parsed(g, e, close_message) /\ message' = message /\ message.frames # <<>>
      BY <2>5 DEF MessageControl, PassesThrough, MessageFrameDone
    <3>2. g \in Frames
      BY <1>1, <2>5, HeadType DEF MessageControl, MessageFrameDone, MayGetMessage, MessageFrame
    <3> HIDE DEF g, e
    <3>3. "RECV_MESSAGE" \in flags
      BY <1>1, <3>1 DEF ModesAgree, EmptyMessage, Set
    <3>4. g.op \in {PING, PONG}
      BY <2>2 DEF g
    <3>5. /\ out'.frames = <<g>> /\ message' = message /\ flags' = flags
          /\ UNCHANGED <<frame_count, deflate_ext, utf8_pending, fragments>>
      BY <1>1, <2>2, <3>1, <3>2, <3>3, <3>4, ControlKeeps
    <3> QED
      BY <3>5 DEF g
  <2>6. CASE MessagePrefix(chunk) /\ Completes(Head(Fed(chunk)))
    BY <2>6 DEF MessagePrefix
  <2>7. CASE (MessageGoesOn(chunk) \/ MessageDone(chunk)) /\ MessageVerdict(chunk) = NoError
    <3>1. ~PassesThrough(MessageFrame(chunk), NoError) /\ MayGetMessage(chunk)
      BY <2>7 DEF MessageGoesOn, MessageDone, MessageFrameDone
    <3>2. message.frames = <<>>
      BY <2>3, <3>1 DEF PassesThrough
    <3>3. message.frames = fragments /\ frame_count = Len(fragments)
      BY <1>1, <3>1, Gathered DEF CountsInv, CountsAgree
    <3> QED
      BY <2>2, <3>2, <3>3
  <2> QED
    BY <2>1, <2>4, <2>5, <2>6, <2>7 DEF MessageStep, TakesPing
<1>2. TypeOK /\ ModesAgree /\ CountsInv /\ [Next]_vars => [Apart]_vars
  BY <1>1
<1> HIDE DEF Apart
<1>3. Spec => [][Apart]_vars
  BY <1>2, CountsInvariant, TypeCorrect, ModesCorrect, PTL DEF Spec
<1> QED
  BY <1>3 DEF ControlTransparent, Apart

-------------------------------------------------------------------------------
(* The receive half of Parser implements Reassembly: each of its steps is a step of  *)
(* Reassembly or changes nothing there.                                              *)

\* Reassembly has its own copy of the constants of WireFrames.
LEMMA SameVocabulary ==
    /\ Assembled!CONTINUE = CONTINUE /\ Assembled!CLOSE = CLOSE /\ Assembled!NoError = NoError
    /\ Assembled!FrameErrors = FrameErrors
    /\ \A op : Assembled!IsControl(op) <=> IsControl(op)
BY DEF Assembled!CONTINUE, CONTINUE, Assembled!NoError, NoError, Assembled!IsControl, IsControl,
       Assembled!CLOSE, CLOSE, Assembled!FrameErrors, FrameErrors

\* The flags after a frame, as Reassembly sees them.
LEMMA ModeAfterFrame ==
    ASSUME ModesAgree, ~Set("RECV_CLOSED"), NEW f \in Frames, NEW e,
           NEW getter \in {"RECV_FRAME", "RECV_MESSAGE"}
    PROVE  /\ e # NoError => "RECV_FRAME" \notin FlagsAfter(getter, f, e)
           /\ e = NoError /\ IsControl(f.op) /\ frame_count = 0 => "RECV_FRAME" \notin FlagsAfter(getter, f, e)
           /\ e = NoError /\ ~IsControl(f.op) /\ f.fin => "RECV_FRAME" \notin FlagsAfter(getter, f, e)
           /\ e = NoError => ("RECV_CLOSED" \in FlagsAfter(getter, f, e) <=> f.op = CLOSE)
<1>1. e # NoError => "RECV_FRAME" \in Lowered(f, e)
  BY DEF Lowered
<1>2. e = NoError /\ IsControl(f.op) /\ frame_count = 0 => "RECV_FRAME" \in Lowered(f, e)
  BY DEF Lowered
<1>3. e = NoError /\ ~IsControl(f.op) /\ f.fin => "RECV_FRAME" \in Lowered(f, e)
  BY DEF Lowered
<1>4. "RECV_CLOSED" \notin Lowered(f, e)
  BY DEF Lowered
<1>5. e = NoError => ("RECV_CLOSED" \in Raised(f, e) <=> f.op = CLOSE)
  <2>1. f.op = CLOSE => IsControl(f.op)
    BY DEF IsControl, CLOSE
  <2>2. e = NoError /\ f.op = CLOSE => Raised(f, e) = {"RECV_CLOSED"}
    BY <2>1 DEF Raised
  <2>3. f.op # CLOSE => "RECV_CLOSED" \notin Raised(f, e)
    BY DEF Raised
  <2> QED
    BY <2>2, <2>3
<1>6. "RECV_FRAME" \in Lowered(f, e) => "RECV_FRAME" \notin FlagsAfter(getter, f, e)
  BY DEF FlagsAfter
<1>7. "RECV_CLOSED" \in FlagsAfter(getter, f, e) <=> "RECV_CLOSED" \in Raised(f, e)
  BY <1>4 DEF FlagsAfter, Set
<1> QED
  BY <1>1, <1>2, <1>3, <1>5, <1>6, <1>7, Zenon

\* A frame taken in frame mode.
LEMMA FrameDoneRefines ==
    ASSUME TypeOK, ModesAgree, CountsInv, NEW chunk \in Arrivals, FrameDone(chunk)
    PROVE  Assembled!Next
<1> DEFINE f == Head(Fed(chunk)).frame
           e == Verdict(f, Passed(Head(Fed(chunk)), frame), "empty")
<1>1. f \in Frames
  BY HeadType DEF FrameDone, MayGetFrame
<1>2. e \in FrameErrors \cup {NoError}
  BY <1>1, VerdictType DEF Errors
<1>3. /\ flags' = FlagsAfter("RECV_FRAME", f, e)
      /\ fragments' = FragmentsAfter(f, e)
      /\ ~Set("RECV_MESSAGE") /\ ~Set("RECV_CLOSED")
  BY DEF FrameDone, MayGetFrame, Parsed
<1>4. out'.kind = "frame" /\ out'.frames = <<f>> /\ out'.error = e
  BY DEF FrameDone
<1>5. e = NoError /\ ~IsControl(f.op) => (f.op = CONTINUE <=> fragments # <<>>)
  <2>1. fragments \in Seq(Frames) /\ frame_count = Len(fragments)
    BY DEF TypeOK, CountsInv, CountsAgree
  <2> QED
    BY <2>1, InOrder
<1>6. frame_count = 0 <=> fragments = <<>>
  BY DEF TypeOK, CountsInv, CountsAgree
<1> HIDE DEF f, e
<1>7. "RECV_MESSAGE" \notin flags'
  BY <1>3, FlagsAfterFrame
<1>8. Assembled!MayUse("frame")
  BY <1>3 DEF Assembled!MayUse, Mode
<1>9. CASE e # NoError
  <2>1. "RECV_FRAME" \notin flags' /\ fragments' = <<>>
    BY <1>1, <1>3, <1>9, ModeAfterFrame DEF FragmentsAfter
  <2>2. Assembled!Fail("frame", e)
    BY <1>4, <1>7, <1>8, <1>9, <2>1 DEF Assembled!Fail, Assembled!Handed, Mode, Set
  <2> QED
    BY <1>2, <1>9, <2>2, SameVocabulary DEF Assembled!Next
<1>10. CASE e = NoError /\ IsControl(f.op)
  <2>1. fragments' = fragments
    BY <1>3, <1>10 DEF FragmentsAfter
  <2>2. "RECV_FRAME" \in flags' <=> fragments # <<>>
    BY <1>1, <1>3, <1>6, <1>10, ModeAfterFrame, InflateAfterFrame
  <2>3. "RECV_CLOSED" \in flags' <=> f.op = CLOSE
    BY <1>1, <1>3, <1>10, ModeAfterFrame
  <2>4. Assembled!TakeControl("frame", f)
    BY <1>4, <1>7, <1>8, <1>10, <2>1, <2>2, <2>3, SameVocabulary
       DEF Assembled!TakeControl, Assembled!Handed, Mode, Set
  <2> QED
    BY <1>1, <2>4 DEF Assembled!Next
<1>11. CASE e = NoError /\ ~IsControl(f.op)
  <2>1. fragments' = IF f.fin THEN <<>> ELSE Append(fragments, f)
    BY <1>3, <1>11 DEF FragmentsAfter
  <2>2. "RECV_FRAME" \in flags' <=> ~f.fin
    BY <1>1, <1>3, <1>11, ModeAfterFrame, InflateAfterFrame
  <2>3. "RECV_CLOSED" \notin flags'
    <3>1. f.op # CLOSE
      BY <1>11 DEF IsControl, CLOSE
    <3> QED
      BY <1>1, <1>3, <1>11, <3>1, ModeAfterFrame
  <2>4. Assembled!Continues(f)
    BY <1>5, <1>11, SameVocabulary DEF Assembled!Continues
  <2>5. Assembled!TakeFrame(f)
    BY <1>3, <1>4, <1>7, <1>8, <1>11, <2>1, <2>2, <2>3, <2>4, SameVocabulary
       DEF Assembled!TakeFrame, Assembled!Handed, Mode, Set
  <2> QED
    BY <1>1, <2>5 DEF Assembled!Next
<1> QED
  BY <1>9, <1>10, <1>11
\* A turn of the loop in message mode.
LEMMA MessageStepRefines ==
    ASSUME TypeOK, ModesAgree, HalvesInv, CountsInv, NoMessageLimit, NEW chunk \in Arrivals, MessageStep(chunk)
    PROVE  Assembled!Next
<1> DEFINE f == MessageFrame(chunk)
           e == MessageVerdict(chunk)
<1>1. ASSUME MayGetMessage(chunk) PROVE Assembled!MayUse("message") /\ ~Set("RECV_FRAME") /\ ~Set("RECV_CLOSED")
  BY <1>1 DEF MayGetMessage, Assembled!MayUse, Mode
<1>2. CASE MessagePrefix(chunk)
  <2>1. Assembled!MayUse("message") /\ ~Set("RECV_FRAME")
    BY <1>1, <1>2 DEF MessagePrefix
  <2>2. Assembled!Hold("message")
    BY <1>2, <2>1, SameVocabulary DEF MessagePrefix, Silent, Assembled!Hold, Assembled!Silent, Mode, Set
  <2> QED
    BY <2>2 DEF Assembled!Next
<1>3. ASSUME MessageFrameDone(chunk, e)
      PROVE  /\ f \in Frames /\ e \in FrameErrors \cup {NoError}
             /\ message.frames = fragments
             /\ frame_count = 0 <=> fragments = <<>>
             /\ fragments' = FragmentsAfter(f, e)
             /\ e = NoError /\ IsControl(f.op) => f.fin
             /\ e = NoError /\ ~IsControl(f.op) => Assembled!Continues(f)
             /\ Assembled!MayUse("message") /\ ~Set("RECV_FRAME") /\ ~Set("RECV_CLOSED")
             /\ ~TooLong(message.length, f) /\ ~TooLong(0, f)
  <2>1. MayGetMessage(chunk) /\ fragments' = FragmentsAfter(f, e)
    BY <1>3 DEF MessageFrameDone, Parsed
  <2>2. f \in Frames /\ e \in FrameErrors \cup {NoError}
    BY <1>3, MessageFrameDoneType DEF Errors
  <2>3. message.frames = fragments
    BY <2>1, Gathered DEF CountsInv
  <2>4. e = NoError /\ IsControl(f.op) => f.fin
    BY <2>1, AcceptedControlFin DEF CountsInv
  <2>5. frame_count = 0 <=> fragments = <<>>
    BY DEF TypeOK, CountsInv, CountsAgree
  <2>6. e = NoError /\ ~IsControl(f.op) => (f.op = CONTINUE <=> frame_count # 0)
    BY InOrder DEF MessageVerdict, MessageFrame
  <2>7. ~TooLong(message.length, f) /\ ~TooLong(0, f)
    BY DEF TooLong, NoMessageLimit, TypeOK
  <2> HIDE DEF f, e
  <2>8. e = NoError /\ ~IsControl(f.op) => Assembled!Continues(f)
    BY <2>5, <2>6, SameVocabulary DEF Assembled!Continues
  <2> QED
    BY <1>1, <2>1, <2>2, <2>3, <2>4, <2>5, <2>7, <2>8
<1>4. CASE MessageControl(chunk)
  <2>1. /\ MessageFrameDone(chunk, e) /\ e = NoError /\ IsControl(f.op) /\ message.frames # <<>>
        /\ flags' = FlagsAfter("RECV_MESSAGE", f, e)
        /\ out'.kind = "message" /\ out'.frames = <<f>>
        /\ out'.error = Check(TooLong(0, f), "max_message_size")
    BY <1>4 DEF MessageControl, PassesThrough
  <2> HIDE DEF f, e
  <2>2. out'.error = NoError
    BY <1>3, <2>1 DEF Check
  <2>3. fragments' = fragments /\ fragments # <<>>
    BY <1>3, <2>1 DEF FragmentsAfter
  <2>4. "RECV_MESSAGE" \in flags' /\ "RECV_FRAME" \notin flags'
    BY <1>3, <2>1, FlagsAfterFrame
  <2>5. "RECV_CLOSED" \in flags' <=> f.op = CLOSE
    BY <1>3, <2>1, ModeAfterFrame
  <2>6. Assembled!TakeControl("message", f)
    BY <1>3, <2>1, <2>2, <2>3, <2>4, <2>5, SameVocabulary
       DEF Assembled!TakeControl, Assembled!Handed, Mode, Set
  <2> QED
    BY <1>3, <2>1, <2>6 DEF Assembled!Next
<1>5. CASE MessageGoesOn(chunk)
  <2>1. /\ MessageFrameDone(chunk, e) /\ e = NoError /\ ~f.fin
        /\ flags' = FlagsAfter("RECV_MESSAGE", f, e)
        /\ out' = out \/ out' = Silent
    BY <1>5 DEF MessageGoesOn
  <2> HIDE DEF f, e
  <2>2. ~IsControl(f.op) /\ Assembled!Continues(f) /\ fragments' = Append(fragments, f)
    BY <1>3, <2>1 DEF FragmentsAfter
  <2>3. "RECV_MESSAGE" \in flags' /\ "RECV_FRAME" \notin flags'
    BY <1>3, <2>1, FlagsAfterFrame
  <2>4. "RECV_CLOSED" \notin flags'
    <3>1. f.op # CLOSE
      BY <2>2 DEF IsControl, CLOSE
    <3> QED
      BY <1>3, <2>1, <3>1, ModeAfterFrame
  <2>5. Assembled!Collect(f)
    BY <1>3, <2>1, <2>2, <2>3, <2>4, SameVocabulary
       DEF Assembled!Collect, Assembled!Silent, Silent, Mode, Set
  <2> QED
    BY <1>3, <2>1, <2>5 DEF Assembled!Next
<1>6. CASE MessageDone(chunk)
  <2>1. /\ MessageFrameDone(chunk, e) /\ ~PassesThrough(f, e)
        /\ flags' = FlagsAfter("RECV_MESSAGE", f, e) \ {"RECV_MESSAGE", "RECV_INFLATE"}
        /\ out'.kind = "message" /\ out'.frames = Append(message.frames, f)
    BY <1>6 DEF MessageDone
  <2>2. out'.error = e /\ (e # NoError \/ f.fin)
    <3>1. ~TooLong(message.length, f)
      BY <1>3, <2>1
    <3> QED
      BY <1>6, <3>1 DEF MessageDone, Check, ??
  <2>3. /\ e # NoError => out'.error = e
        /\ e = NoError /\ IsControl(f.op) => message.frames = <<>>
    BY <2>1, <2>2 DEF PassesThrough
  <2> HIDE DEF f, e
  <2>4. "RECV_MESSAGE" \notin flags' /\ "RECV_FRAME" \notin flags'
    BY <1>3, <2>1, FlagsAfterFrame
  <2>5. e = NoError => ("RECV_CLOSED" \in flags' <=> f.op = CLOSE)
    BY <1>3, <2>1, ModeAfterFrame
  <2>6. CASE e # NoError
    <3>1. fragments' = <<>>
      BY <1>3, <2>1, <2>6 DEF FragmentsAfter
    <3>2. Assembled!Fail("message", e)
      BY <1>3, <2>1, <2>2, <2>4, <2>6, <3>1 DEF Assembled!Fail, Assembled!Handed, Mode, Set
    <3> QED
      BY <1>3, <2>1, <2>6, <3>2, SameVocabulary DEF Assembled!Next
  <2>7. CASE e = NoError /\ IsControl(f.op)
    <3>1. fragments' = fragments /\ fragments = <<>> /\ out'.frames = <<f>>
      <4>1. fragments' = fragments
        BY <1>3, <2>1, <2>7 DEF FragmentsAfter
      <4>2. message.frames = <<>> /\ fragments = <<>>
        BY <1>3, <2>1, <2>3, <2>7
      <4>3. out'.frames = <<f>>
        BY <2>1, <4>2
      <4> QED
        BY <4>1, <4>2, <4>3
    <3>2. Assembled!TakeControl("message", f)
      BY <1>3, <2>1, <2>2, <2>4, <2>5, <2>7, <3>1, SameVocabulary
         DEF Assembled!TakeControl, Assembled!Handed, Mode, Set
    <3> QED
      BY <1>3, <2>1, <3>2 DEF Assembled!Next
  <2>8. CASE e = NoError /\ ~IsControl(f.op)
    <3>1. fragments' = <<>> /\ f.fin /\ out'.frames = Append(fragments, f)
      BY <1>3, <2>1, <2>2, <2>8 DEF FragmentsAfter
    <3>2. "RECV_CLOSED" \notin flags'
      BY <2>5, <2>8 DEF IsControl, CLOSE
    <3>3. Assembled!TakeMessage(f)
      BY <1>3, <2>1, <2>2, <2>4, <2>8, <3>1, <3>2, SameVocabulary
         DEF Assembled!TakeMessage, Assembled!Handed, Mode, Set
    <3> QED
      BY <1>3, <2>1, <3>3 DEF Assembled!Next
  <2> QED
    BY <2>6, <2>7, <2>8
<1> QED
  BY <1>2, <1>4, <1>5, <1>6 DEF MessageStep

\* Every other step.
LEMMA StepRefines ==
    ASSUME TypeOK, ModesAgree, HalvesInv, CountsInv, NoMessageLimit, [Next]_vars
    PROVE  [Assembled!Next]_Assembled!vars
<1>1. ASSUME NEW chunk, Refused(chunk) \/ ReturnsNothing(chunk) PROVE Assembled!Next
  <2>1. UNCHANGED <<fragments, flags>> /\ (out' = Refusal \/ out' = Silent)
    BY <1>1 DEF Refused, ReturnsNothing, parse_vars
  <2>2. Assembled!NothingNew
    BY <2>1, SameVocabulary
       DEF Assembled!NothingNew, Assembled!Silent, Assembled!Refusal, Silent, Refusal, Mode, Set
  <2> QED
    BY <2>2 DEF Assembled!Next
<1>2. ASSUME NEW chunk, FramePrefix(chunk) PROVE Assembled!Next
  <2>1. /\ flags' = flags \cup {"RECV_FRAME"} /\ out' = Silent /\ fragments' = fragments
        /\ ~Set("RECV_MESSAGE") /\ ~Set("RECV_CLOSED")
    BY <1>2 DEF FramePrefix, MayGetFrame
  <2>2. Assembled!Hold("frame")
    BY <2>1, SameVocabulary DEF Assembled!Hold, Assembled!MayUse, Assembled!Silent, Silent, Mode, Set
  <2> QED
    BY <2>2 DEF Assembled!Next
<1>3. ASSUME NEW chunk \in Arrivals, FrameDone(chunk) \/ MessageStep(chunk) PROVE Assembled!Next
  BY <1>3, FrameDoneRefines, MessageStepRefines
<1>4. ASSUME UNCHANGED <<fragments, flags, out>> PROVE UNCHANGED Assembled!vars
  BY <1>4 DEF Assembled!vars, Mode, Set
<1>5. ASSUME (\E c \in Configs : Configure(c)) \/ NoDeflateCall \/ UNCHANGED vars
      PROVE  UNCHANGED <<fragments, flags, out>>
  BY <1>5 DEF Configure, NoDeflateCall, vars, parse_vars
<1>6. ASSUME NEW negotiated, NEW chunk, Establish(negotiated, chunk) PROVE UNCHANGED Assembled!vars
  <2>1. flags = {} /\ flags' = {"ESTABLISHED"} /\ UNCHANGED <<fragments, out>>
    BY <1>6 DEF Establish, ModesAgree, Set
  <2> QED
    BY <2>1 DEF Assembled!vars, Mode, Set
<1>7. ASSUME Reset PROVE Assembled!Next
  <2>1. flags' = {} /\ fragments' = <<>> /\ out' = Silent
    BY <1>7 DEF Reset
  <2>2. Assembled!Restart
    BY <2>1, SameVocabulary DEF Assembled!Restart, Assembled!Silent, Silent, Mode, Set
  <2> QED
    BY <2>2 DEF Assembled!Next
<1> QED
  BY <1>1, <1>2, <1>3, <1>4, <1>5, <1>6, <1>7 DEF Next, FrameStep

\* Without a message size limit, the receive half of Parser implements Reassembly: whatever the
\* cuts, the getters hand over the frames the peer sent, in order, one by one or as
\* whole messages (_get_frame, _get_message).
THEOREM ImplementsReassembly ==
    ASSUME NoMessageLimit PROVE Spec => AssembledSpec
<1>1. Init => Assembled!Init
  BY SameVocabulary DEF Init, Assembled!Init, Assembled!Silent, Silent, Mode, Set
<1>2. TypeOK /\ ModesAgree /\ HalvesInv /\ CountsInv /\ [Next]_vars => [Assembled!Next]_Assembled!vars
  BY StepRefines
<1> QED
  BY <1>1, <1>2, TypeCorrect, ModesCorrect, HalvesInvariant, CountsInvariant, PTL
     DEF Spec, AssembledSpec, Assembled!Spec

-------------------------------------------------------------------------------
(* What a limit leaves of the bookkeeping. CountsAgree is not among it: a  *)
(* fragment refused for its size stays counted.                            *)

\* A message in progress has been counted and begins with a data frame.
MessageCounted ==
    /\ message.frames # <<>> => frame_count > 0 /\ ~IsControl(message.frames[1].op)
    /\ message.frames = <<>> => message.length = 0

GatheredInv == HeldChecked /\ MessageCounted

LEMMA AppendedFirst ==
    ASSUME NEW S, NEW s \in Seq(S), NEW e \in S
    PROVE  Append(s, e) # <<>> /\ Append(s, e)[1] = IF s = <<>> THEN e ELSE s[1]
<1>1. Len(s) \in Nat /\ Len(Append(s, e)) = Len(s) + 1 /\ (s = <<>> <=> Len(s) = 0)
  OBVIOUS
<1>2. Append(s, e)[1] = IF Len(s) = 0 THEN e ELSE s[1]
  <2>1. \A k \in 1 .. Len(s) + 1 : Append(s, e)[k] = IF k = Len(s) + 1 THEN e ELSE s[k]
    OBVIOUS
  <2> QED
    BY <1>1, <2>1
<1>3. Append(s, e) # <<>>
  BY <1>1
<1> QED
  BY <1>1, <1>2, <1>3

\* What is known of a frame that a turn of the message getter completed.
LEMMA TurnFacts ==
    ASSUME TypeOK, ModesAgree, HalvesInv, GatheredInv, NEW chunk \in Arrivals,
           MessageFrameDone(chunk, MessageVerdict(chunk))
    PROVE  /\ MessageFrame(chunk) \in Frames /\ MessageVerdict(chunk) \in Errors
           /\ message \in [frames: Seq(Frames), length: Nat]
           /\ frame_count \in Nat /\ message_frame' = NoFrame
           /\ frame_count' = CountAfter(MessageFrame(chunk), MessageVerdict(chunk))
           /\ MessageVerdict(chunk) = NoError /\ IsControl(MessageFrame(chunk).op)
              => MessageFrame(chunk).fin
<1>1. MayGetMessage(chunk)
  BY DEF MessageFrameDone
<1>2. MessageFrame(chunk) \in Frames /\ MessageVerdict(chunk) \in Errors
  BY MessageFrameDoneType
<1>3. MessageVerdict(chunk) = NoError /\ IsControl(MessageFrame(chunk).op) => MessageFrame(chunk).fin
  BY <1>1, AcceptedControlFin DEF GatheredInv
<1>4. message_frame' = NoFrame /\ frame_count' = CountAfter(MessageFrame(chunk), MessageVerdict(chunk))
  BY DEF MessageFrameDone, Parsed
<1> QED
  BY <1>2, <1>3, <1>4 DEF TypeOK

LEMMA MessageStepGathered ==
    ASSUME TypeOK, ModesAgree, HalvesInv, GatheredInv, NEW chunk \in Arrivals, MessageStep(chunk)
    PROVE  GatheredInv'
<1> DEFINE f == MessageFrame(chunk)
           e == MessageVerdict(chunk)
<1>1. CASE MessagePrefix(chunk)
  <2> DEFINE i == Head(Fed(chunk))
  <2>1. message_frame' = i /\ ~Completes(i) /\ UNCHANGED <<message, frame_count>>
    BY <1>1 DEF MessagePrefix
  <2> HIDE DEF i
  <2>2. i.part = "payload" => HeaderError(i.frame, MaskRequired, cfg.max_frame_size) = NoError
    BY <2>1 DEF Completes
  <2> QED
    BY <2>1, <2>2, HeaderFin DEF GatheredInv, HeldChecked, MessageCounted
<1>2. CASE MessageControl(chunk)
  <2>1. MessageFrameDone(chunk, e) /\ message' = message /\ e = NoError /\ IsControl(f.op)
    BY <1>2 DEF MessageControl, PassesThrough
  <2>2. frame_count' = frame_count /\ message_frame' = NoFrame
    BY <2>1, TurnFacts DEF CountAfter
  <2> QED
    BY <2>1, <2>2 DEF GatheredInv, HeldChecked, MessageCounted
<1>3. CASE MessageGoesOn(chunk)
  <2>1. /\ MessageFrameDone(chunk, e) /\ e = NoError /\ ~f.fin
        /\ message'.frames = Append(message.frames, f)
    BY <1>3 DEF MessageGoesOn
  <2>2. /\ f \in Frames /\ message.frames \in Seq(Frames) /\ ~IsControl(f.op) /\ frame_count \in Nat
        /\ frame_count' = CountAfter(f, e) /\ message_frame' = NoFrame
    BY <2>1, TurnFacts
  <2>3. frame_count' = frame_count + 1
    BY <2>1, <2>2 DEF CountAfter
  <2> HIDE DEF f, e
  <2>4. message'.frames # <<>> /\ message'.frames[1] = IF message.frames = <<>> THEN f ELSE message.frames[1]
    <3>1. \A s \in Seq(Frames) : Append(s, f) # <<>> /\ Append(s, f)[1] = IF s = <<>> THEN f ELSE s[1]
      BY <2>2, AppendedFirst
    <3> QED
      BY <2>1, <2>2, <3>1
  <2> QED
    BY <2>2, <2>3, <2>4 DEF GatheredInv, HeldChecked, MessageCounted
<1>4. CASE MessageDone(chunk)
  <2>1. message' = EmptyMessage /\ message_frame' = NoFrame
    BY <1>4 DEF MessageDone, MessageFrameDone
  <2> QED
    BY <2>1 DEF EmptyMessage, GatheredInv, HeldChecked, MessageCounted
<1> QED
  BY <1>1, <1>2, <1>3, <1>4 DEF MessageStep

LEMMA GatheredStep ==
    ASSUME TypeOK, ModesAgree, HalvesInv, GatheredInv, [Next]_vars
    PROVE  GatheredInv'
<1>1. ASSUME UNCHANGED <<message, frame_count, message_frame>> PROVE GatheredInv'
  BY <1>1 DEF GatheredInv, HeldChecked, MessageCounted
<1>2. ASSUME NEW chunk, Refused(chunk) \/ ReturnsNothing(chunk) \/ FramePrefix(chunk) PROVE GatheredInv'
  BY <1>1, <1>2 DEF Refused, ReturnsNothing, FramePrefix, parse_vars
<1>3. ASSUME NEW chunk, FrameDone(chunk) PROVE GatheredInv'
  <2>1. message' = message /\ message_frame' = message_frame /\ ~Set("RECV_MESSAGE")
    BY <1>3 DEF FrameDone, MayGetFrame
  <2>2. message = EmptyMessage
    BY <2>1 DEF ModesAgree
  <2> QED
    BY <2>1, <2>2 DEF EmptyMessage, GatheredInv, HeldChecked, MessageCounted
<1>4. ASSUME NEW chunk \in Arrivals, MessageStep(chunk) PROVE GatheredInv'
  BY <1>4, MessageStepGathered
<1>5. ASSUME NEW c, Configure(c) PROVE GatheredInv'
  BY <1>1, <1>5 DEF Configure, parse_vars
<1>6. ASSUME NoDeflateCall PROVE GatheredInv'
  BY <1>1, <1>6 DEF NoDeflateCall, parse_vars
<1>7. ASSUME NEW negotiated, NEW chunk, Establish(negotiated, chunk) PROVE GatheredInv'
  BY <1>1, <1>7 DEF Establish
<1>8. ASSUME Reset PROVE GatheredInv'
  BY <1>8 DEF Reset, EmptyMessage, GatheredInv, HeldChecked, MessageCounted
<1>9. CASE UNCHANGED vars
  BY <1>1, <1>9 DEF vars, parse_vars
<1> QED
  BY <1>2, <1>3, <1>4, <1>5, <1>6, <1>7, <1>8, <1>9 DEF Next, FrameStep

LEMMA GatheredInvariant == Spec => []GatheredInv
<1>1. Init => GatheredInv
  BY DEF Init, EmptyMessage, GatheredInv, HeldChecked, MessageCounted
<1>2. TypeOK /\ ModesAgree /\ HalvesInv /\ GatheredInv /\ [Next]_vars => GatheredInv'
  BY GatheredStep
<1> QED
  BY <1>1, <1>2, HalvesInvariant, TypeCorrect, ModesCorrect, PTL DEF Spec

-------------------------------------------------------------------------------
(* The suggested close code. *)

\* What _parse_frame suggests for a frame may be sent, and fits the verdict.
LEMMA SuggestedAfterFits ==
    ASSUME NEW f \in Frames, NEW passed, NEW stale, NEW e, e = Verdict(f, passed, stale),
           suggested_close_code # 0 => ~IsSendingForbidden(suggested_close_code)
    PROVE  /\ SuggestedAfter(f, e) # 0 => ~IsSendingForbidden(SuggestedAfter(f, e))
           /\ e = "invalid_utf8" => SuggestedAfter(f, e) = INVALID_TEXT
           /\ e = NoError /\ f.op = CLOSE =>
                 SuggestedAfter(f, e) = IF f.len = 0 THEN DONE ELSE f.code
           /\ e = NoError /\ f.op # CLOSE => SuggestedAfter(f, e) = suggested_close_code
<1>1. f.len \in Nat /\ f.code \in Nat
  BY FrameFields
<1>2. ~IsSendingForbidden(DONE) /\ ~IsSendingForbidden(PROTOCOL_ERROR)
      /\ ~IsSendingForbidden(INVALID_TEXT) /\ ~IsSendingForbidden(MAX_SIZE)
  BY DEF IsSendingForbidden, DONE, PROTOCOL_ERROR, INVALID_TEXT, MAX_SIZE, UNKNOWN, ABNORMALLY, INTERNAL_ERROR
<1>3. CASE e # NoError
  BY <1>2, <1>3 DEF SuggestedAfter
<1>4. CASE e = NoError /\ f.op = CLOSE
  <2>1. CloseError(f) = NoError
    BY <1>4 DEF Verdict, ParseError, ??, NoError
  <2>2. f.len = 0 \/ (f.len >= 2 /\ ~IsSendingForbidden(f.code))
    BY <1>1, <1>4, <2>1 DEF CloseError, Check, NoError
  <2>3. SuggestedAfter(f, e) = IF f.len = 0 THEN DONE ELSE f.code
    <3>1. CASE f.len = 0
      BY <1>4, <3>1 DEF SuggestedAfter, CloseCode, NoError
    <3>2. CASE f.len >= 2 /\ ~IsSendingForbidden(f.code)
      <4>1. f.code # UNKNOWN
        BY <3>2 DEF IsSendingForbidden
      <4> QED
        BY <1>1, <1>4, <3>2, <4>1 DEF SuggestedAfter, CloseCode, NoError
    <3> QED
      BY <2>2, <3>1, <3>2
  <2> QED
    BY <1>2, <1>4, <2>2, <2>3 DEF NoError
<1>5. CASE e = NoError /\ f.op # CLOSE
  BY <1>5 DEF SuggestedAfter, NoError
<1> QED
  BY <1>3, <1>4, <1>5

LEMMA FrameStepSuggested ==
    ASSUME TypeOK, SuggestedCode, NEW chunk \in Arrivals, FrameStep(chunk)
    PROVE  SuggestedCode'
<1>1. CASE FramePrefix(chunk)
  BY <1>1 DEF FramePrefix, Silent, SuggestedCode, NoError
<1>2. CASE FrameDone(chunk)
  <2> DEFINE f == Head(Fed(chunk)).frame
             e == Verdict(f, Passed(Head(Fed(chunk)), frame), "empty")
  <2>1. f \in Frames
    BY <1>2, HeadType DEF FrameDone, MayGetFrame
  <2>2. /\ suggested_close_code' = SuggestedAfter(f, e)
        /\ out'.kind = "frame" /\ out'.frames = <<f>> /\ out'.error = e
    BY <1>2 DEF FrameDone
  <2>3. PICK g, w : f = g /\ e = Verdict(g, w, "empty")
    OBVIOUS
  <2> HIDE DEF f, e
  <2> QED
    BY <2>1, <2>2, <2>3, SuggestedAfterFits DEF SuggestedCode
<1> QED
  BY <1>1, <1>2 DEF FrameStep

LEMMA MessageStepSuggested ==
    ASSUME TypeOK, ModesAgree, HalvesInv, GatheredInv, SuggestedCode, NEW chunk \in Arrivals, MessageStep(chunk)
    PROVE  SuggestedCode'
<1> DEFINE f == MessageFrame(chunk)
           e == MessageVerdict(chunk)
<1>1. CASE MessagePrefix(chunk)
  BY <1>1 DEF MessagePrefix, Silent, SuggestedCode, NoError
<1>2. ASSUME MessageFrameDone(chunk, e)
      PROVE  /\ f \in Frames /\ message.frames \in Seq(Frames)
             /\ frame_count \in Nat /\ frame_count' = CountAfter(f, e)
             /\ e = NoError /\ IsControl(f.op) => f.fin
             /\ SuggestedAfter(f, e) # 0 => ~IsSendingForbidden(SuggestedAfter(f, e))
             /\ e = "invalid_utf8" => SuggestedAfter(f, e) = INVALID_TEXT
             /\ e = NoError /\ f.op = CLOSE =>
                   SuggestedAfter(f, e) = IF f.len = 0 THEN DONE ELSE f.code
             /\ e = NoError /\ f.op # CLOSE => SuggestedAfter(f, e) = suggested_close_code
  <2>1. f \in Frames /\ message.frames \in Seq(Frames) /\ frame_count \in Nat
        /\ frame_count' = CountAfter(f, e) /\ (e = NoError /\ IsControl(f.op) => f.fin)
    BY <1>2, TurnFacts
  <2>2. PICK w : e = Verdict(f, w, close_message)
    BY DEF MessageVerdict, MessageFrame
  <2> HIDE DEF f, e
  <2> QED
    BY <2>1, <2>2, SuggestedAfterFits DEF SuggestedCode
<1>3. CASE MessageControl(chunk)
  <2>1. /\ MessageFrameDone(chunk, e) /\ message.frames # <<>> /\ e = NoError /\ IsControl(f.op)
        /\ suggested_close_code' = SuggestedAfter(f, e) /\ out'.frames = <<f>>
        /\ out'.error = Check(TooLong(0, f), "max_message_size")
    BY <1>3 DEF MessageControl, PassesThrough
  <2>2. frame_count' = frame_count /\ frame_count > 0
    BY <1>2, <2>1 DEF CountAfter, GatheredInv, MessageCounted
  <2>3. out'.error # "invalid_utf8"
    BY <2>1 DEF Check, NoError
  <2> HIDE DEF f, e
  <2> QED
    BY <1>2, <2>1, <2>2, <2>3 DEF SuggestedCode
<1>4. CASE MessageGoesOn(chunk)
  <2>1. /\ MessageFrameDone(chunk, e) /\ e = NoError /\ ~f.fin
        /\ suggested_close_code' = SuggestedAfter(f, e) /\ (out' = out \/ out' = Silent)
    BY <1>4 DEF MessageGoesOn
  <2>2. ~IsControl(f.op)
    BY <1>2, <2>1
  <2>3. suggested_close_code' = suggested_close_code /\ frame_count' = frame_count + 1
    BY <1>2, <2>1, <2>2 DEF CountAfter, IsControl, CLOSE
  <2>4. frame_count \in Nat
    BY <1>2, <2>1
  <2> HIDE DEF f, e
  <2> QED
    BY <2>1, <2>3, <2>4 DEF SuggestedCode, Silent, NoError
<1>5. CASE MessageDone(chunk)
  <2> DEFINE error == e ?? Check(TooLong(message.length, f), "max_message_size")
  <2>1. /\ MessageFrameDone(chunk, e) /\ ~PassesThrough(f, e)
        /\ suggested_close_code' = IF error = "max_message_size" THEN MAX_SIZE ELSE SuggestedAfter(f, e)
        /\ out'.frames = Append(message.frames, f) /\ out'.error = error
    BY <1>5 DEF MessageDone
  <2>2. ~IsSendingForbidden(MAX_SIZE)
    BY DEF IsSendingForbidden, DONE, MAX_SIZE, UNKNOWN, ABNORMALLY, INTERNAL_ERROR
  <2>3. /\ error = "invalid_utf8" => e = "invalid_utf8"
        /\ error = NoError => e = NoError
    BY DEF Check, ??, NoError
  <2>4. out'.frames # <<>> /\ out'.frames[1] = IF message.frames = <<>> THEN f ELSE message.frames[1]
    BY <1>2, <2>1, AppendedFirst
  <2>5. out'.frames[1].op = CLOSE => message.frames = <<>>
    BY <2>4 DEF GatheredInv, MessageCounted, IsControl, CLOSE
  <2> HIDE DEF f, e, error
  <2> QED
    BY <1>2, <2>1, <2>2, <2>3, <2>4, <2>5 DEF SuggestedCode, NoError
<1> QED
  BY <1>1, <1>3, <1>4, <1>5 DEF MessageStep

LEMMA SuggestedStep ==
    ASSUME TypeOK, ModesAgree, HalvesInv, GatheredInv, SuggestedCode, [Next]_vars
    PROVE  SuggestedCode'
<1>1. ASSUME UNCHANGED <<suggested_close_code, out, frame_count>> PROVE SuggestedCode'
  BY <1>1 DEF SuggestedCode
<1>2. ASSUME NEW chunk, Refused(chunk) \/ ReturnsNothing(chunk) PROVE SuggestedCode'
  BY <1>2 DEF Refused, ReturnsNothing, Refusal, Silent, parse_vars, SuggestedCode, NoError
<1>3. ASSUME NEW chunk \in Arrivals, FrameStep(chunk) \/ MessageStep(chunk) PROVE SuggestedCode'
  BY <1>3, FrameStepSuggested, MessageStepSuggested
<1>4. ASSUME NEW c, Configure(c) PROVE SuggestedCode'
  BY <1>1, <1>4 DEF Configure, parse_vars
<1>5. ASSUME NoDeflateCall PROVE SuggestedCode'
  BY <1>1, <1>5 DEF NoDeflateCall, parse_vars
<1>6. ASSUME NEW negotiated, NEW chunk, Establish(negotiated, chunk) PROVE SuggestedCode'
  BY <1>1, <1>6 DEF Establish
<1>7. ASSUME Reset PROVE SuggestedCode'
  BY <1>7 DEF Reset, Silent, SuggestedCode, NoError
<1>8. CASE UNCHANGED vars
  BY <1>1, <1>8 DEF vars, parse_vars
<1> QED
  BY <1>2, <1>3, <1>4, <1>5, <1>6, <1>7, <1>8 DEF Next

\* The code the parser suggests may be sent, says what was wrong and, for a CLOSE, is the
\* peer's own or 1000; with any limits, changed at any time, and on every connection
\* of one parser (_parse_frame, _get_message, suggested_close_code).
THEOREM SuggestedCodeCorrect == Spec => []SuggestedCode
<1>1. Init => SuggestedCode
  BY DEF Init, Silent, SuggestedCode, NoError
<1>2. TypeOK /\ ModesAgree /\ HalvesInv /\ GatheredInv /\ SuggestedCode /\ [Next]_vars => SuggestedCode'
  BY SuggestedStep
<1> QED
  BY <1>1, <1>2, GatheredInvariant, HalvesInvariant, TypeCorrect, ModesCorrect, PTL DEF Spec

-------------------------------------------------------------------------------
(* Sizes. The limit is counted twice, by DeflateExt on what it inflates    *)
(* and by Message on what was on the wire; NeverOversized needs both.      *)

\* configure() never changes the limit: a lower one would make what was handed over
\* before it too long.
OneLimit == \A c, d \in Configs : c.max_message_size = d.max_message_size

\* The limit is the same wherever it was copied to.
LimitsAgree ==
    /\ deflate_cfg.set => deflate_cfg.max_message_size = cfg.max_message_size
    /\ deflate_ext.set => deflate_ext.max_message_size = cfg.max_message_size

\* What is gathered is within the limit, and of a compressed message DeflateExt has
\* counted all of it, perhaps more.
WithinLimit ==
    /\ cfg.max_message_size # 0 => message.length <= cfg.max_message_size
    /\ Set("RECV_INFLATE") => deflate_ext.set /\ message.length <= deflate_ext.message_size

SizeInv == LimitsAgree /\ WithinLimit /\ NeverOversized

\* A frame is inflated only if there is a DeflateExt, which has then counted the message.
LEMMA InflatedCounted ==
    ASSUME TypeOK, GatheredInv, LimitsAgree, WithinLimit, NEW f, NEW passed, NEW stale,
           Verdict(f, passed, stale) = NoError, ~IsControl(f.op), Inflated(f)
    PROVE  deflate_ext.set /\ message.length <= deflate_ext.message_size
<1>1. CASE Set("RECV_INFLATE")
  BY <1>1 DEF WithinLimit
<1>2. CASE frame_count = 0 /\ f.rsv1
  <2>1. OrderError(f) = NoError
    BY DEF Verdict, ??, NoError
  <2>2. deflate_ext.set
    BY <1>2, <2>1 DEF OrderError, Check, ??, NoError
  <2>3. message.length = 0
    BY <1>2 DEF GatheredInv, MessageCounted
  <2>4. deflate_ext.message_size \in Nat
    BY DEF TypeOK
  <2> QED
    BY <2>2, <2>3, <2>4
<1> QED
  BY <1>1, <1>2 DEF Inflated

\* uncompress and add_frame between them let no message grow over the limit.
LEMMA AcceptedSize ==
    ASSUME TypeOK, GatheredInv, LimitsAgree, WithinLimit, NEW f \in Frames, NEW passed, NEW stale,
           Verdict(f, passed, stale) = NoError, ~TooLong(message.length, f),
           cfg.max_message_size # 0
    PROVE  message.length + SizeOf(f) <= cfg.max_message_size
<1> DEFINE L == cfg.max_message_size
           m == message.length
           n == deflate_ext.message_size
<1>1. L \in Nat /\ m \in Nat /\ n \in Nat /\ m <= L
  BY ConfigsAssumption DEF TypeOK, ConfigType, WithinLimit
<1>2. PayloadLength(f) \in Nat /\ f.size \in Nat /\ f.len \in Nat
  BY SizeTypes, FrameFields
<1>3. CASE IsControl(f.op) \/ ~Inflated(f)
  <2>1. SizeOf(f) = PayloadLength(f)
    BY <1>3 DEF SizeOf, PayloadSize
  <2>2. ~(m + PayloadLength(f) > L)
    BY DEF TooLong
  <2> HIDE DEF L, m
  <2>3. m + PayloadLength(f) <= L
    BY <1>1, <1>2, <2>2
  <2> QED
    BY <2>1, <2>3 DEF L, m
<1>4. CASE ~IsControl(f.op) /\ Inflated(f)
  <2>1. deflate_ext.set /\ m <= n /\ deflate_ext.max_message_size = L
    BY <1>4, InflatedCounted DEF LimitsAgree
  <2>2. SizeOf(f) = IF f.len = 0 /\ ~f.fin THEN 0 ELSE f.size
    BY <1>4 DEF SizeOf, PayloadSize
  <2>3. CASE f.len = 0 /\ ~f.fin
    <3>1. SizeOf(f) = 0
      BY <2>2, <2>3
    <3> QED
      BY <1>1, <3>1
  <2>4. CASE ~(f.len = 0 /\ ~f.fin)
    <3>1. InflateError(f) = NoError
      BY <1>4 DEF Verdict, ??, NoError
    <3>2. ~(n + f.size > L)
      BY <1>4, <2>1, <2>4, <3>1 DEF InflateError, Check, ??, NoError
    <3>3. SizeOf(f) = f.size
      BY <2>2, <2>4
    <3> HIDE DEF L, m, n
    <3>4. m + f.size <= L
      BY <1>1, <1>2, <2>1, <3>2
    <3> QED
      BY <3>3, <3>4 DEF L, m
  <2> QED
    BY <2>3, <2>4
<1> QED
  BY <1>3, <1>4

\* If inflation goes on after a frame, DeflateExt has counted the message with that frame.
LEMMA InflationGoesOn ==
    ASSUME TypeOK, GatheredInv, LimitsAgree, WithinLimit, NEW f \in Frames, NEW passed, NEW stale,
           NEW e, e = Verdict(f, passed, stale), NEW getter \in {"RECV_FRAME", "RECV_MESSAGE"},
           "RECV_INFLATE" \in FlagsAfter(getter, f, e),
           deflate_ext' = [deflate_ext EXCEPT !.message_size = InflatedSizeAfter(f, e)]
    PROVE  /\ deflate_ext'.set
           /\ message.length <= deflate_ext'.message_size
           /\ ~IsControl(f.op) => message.length + SizeOf(f) <= deflate_ext'.message_size
<1> DEFINE m == message.length
           n == deflate_ext.message_size
<1>1. m \in Nat /\ n \in Nat
  BY DEF TypeOK
<1>2. e = NoError
  BY InflateAfterFrame
<1>3. deflate_ext'.set = deflate_ext.set /\ deflate_ext'.message_size = InflatedSizeAfter(f, e)
  BY DEF TypeOK
<1>4. CASE IsControl(f.op)
  <2>1. Set("RECV_INFLATE")
    BY <1>2, <1>4, InflateAfterFrame
  <2>2. InflatedSizeAfter(f, e) = n
    BY <1>4 DEF InflatedSizeAfter
  <2> QED
    BY <1>3, <1>4, <2>1, <2>2 DEF WithinLimit
<1>5. CASE ~IsControl(f.op)
  <2>1. Inflated(f) /\ ~f.fin
    BY <1>2, <1>5, InflateAfterFrame
  <2>2. deflate_ext.set /\ m <= n
    BY <1>2, <1>5, <2>1, InflatedCounted
  <2>3. InflatedSizeAfter(f, e) = n + PayloadSize(f, TRUE) /\ SizeOf(f) = PayloadSize(f, TRUE)
    BY <1>2, <1>5, <2>1 DEF InflatedSizeAfter, SizeOf
  <2>4. PayloadSize(f, TRUE) \in Nat
    BY SizeTypes
  <2> DEFINE s == PayloadSize(f, TRUE)
  <2>5. m <= n + s /\ m + s <= n + s
    <3>1. \A a, b, c \in Nat : a <= b => a <= b + c /\ a + c <= b + c
      OBVIOUS
    <3> QED
      BY <1>1, <2>2, <2>4, <3>1, Zenon
  <2> QED
    BY <1>3, <2>2, <2>3, <2>5
<1> QED
  BY <1>4, <1>5

\* Every completed frame leaves the copies of the limit alone.
LEMMA LimitsStay ==
    ASSUME TypeOK, LimitsAgree, NEW f, NEW e, NEW stale, Parsed(f, e, stale)
    PROVE  LimitsAgree' /\ cfg' = cfg
<1>1. /\ deflate_ext' = [deflate_ext EXCEPT !.message_size = InflatedSizeAfter(f, e)]
      /\ cfg' = cfg /\ deflate_cfg' = deflate_cfg
  BY DEF Parsed, config_vars
<1>2. deflate_ext'.set = deflate_ext.set /\ deflate_ext'.max_message_size = deflate_ext.max_message_size
  BY <1>1 DEF TypeOK
<1> QED
  BY <1>1, <1>2 DEF LimitsAgree

LEMMA FrameStepSize ==
    ASSUME TypeOK, ModesAgree, GatheredInv, SizeInv, NEW chunk \in Arrivals, FrameStep(chunk)
    PROVE  SizeInv'
<1>1. CASE FramePrefix(chunk)
  BY <1>1 DEF FramePrefix, Silent, config_vars, SizeInv, LimitsAgree, WithinLimit, NeverOversized, Set
<1>2. CASE FrameDone(chunk)
  <2> DEFINE f == Head(Fed(chunk)).frame
             w == Passed(Head(Fed(chunk)), frame)
             e == Verdict(f, w, "empty")
  <2>1. f \in Frames
    BY <1>2, HeadType DEF FrameDone, MayGetFrame
  <2>2. /\ flags' = FlagsAfter("RECV_FRAME", f, e) /\ Parsed(f, e, "empty")
        /\ message' = message /\ out'.kind = "frame"
    BY <1>2 DEF FrameDone
  <2>3. e = Verdict(f, w, "empty")
    OBVIOUS
  <2> HIDE DEF f, e, w
  <2>4. LimitsAgree' /\ cfg' = cfg
    BY <2>2, LimitsStay DEF SizeInv
  <2>5. deflate_ext' = [deflate_ext EXCEPT !.message_size = InflatedSizeAfter(f, e)]
    BY <2>2 DEF Parsed
  <2>6. "RECV_INFLATE" \in flags' => deflate_ext'.set /\ message.length <= deflate_ext'.message_size
    BY <2>1, <2>2, <2>3, <2>5, InflationGoesOn DEF SizeInv
  <2> QED
    BY <2>2, <2>4, <2>6 DEF SizeInv, WithinLimit, NeverOversized, Set
<1> QED
  BY <1>1, <1>2 DEF FrameStep

LEMMA MessageStepSize ==
    ASSUME TypeOK, ModesAgree, HalvesInv, GatheredInv, SizeInv, NEW chunk \in Arrivals, MessageStep(chunk)
    PROVE  SizeInv'
<1> DEFINE f == MessageFrame(chunk)
           w == Passed(Head(Fed(chunk)), message_frame)
           e == MessageVerdict(chunk)
<1>0. e = Verdict(f, w, close_message)
  BY DEF MessageVerdict, MessageFrame
<1>1. CASE MessagePrefix(chunk)
  BY <1>1 DEF MessagePrefix, Silent, config_vars, SizeInv, LimitsAgree, WithinLimit, NeverOversized, Set
<1>2. ASSUME MessageFrameDone(chunk, e)
      PROVE  /\ f \in Frames /\ LimitsAgree' /\ cfg' = cfg
             /\ deflate_ext' = [deflate_ext EXCEPT !.message_size = InflatedSizeAfter(f, e)]
             /\ "RECV_INFLATE" \in FlagsAfter("RECV_MESSAGE", f, e) =>
                   /\ deflate_ext'.set
                   /\ message.length <= deflate_ext'.message_size
                   /\ ~IsControl(f.op) => message.length + SizeOf(f) <= deflate_ext'.message_size
             /\ e = NoError /\ ~TooLong(message.length, f) /\ cfg.max_message_size # 0 =>
                   message.length + SizeOf(f) <= cfg.max_message_size
  <2>1. f \in Frames /\ Parsed(f, e, close_message)
    BY <1>2, TurnFacts DEF MessageFrameDone
  <2> HIDE DEF f, e, w
  <2>2. LimitsAgree' /\ cfg' = cfg
    BY <2>1, LimitsStay DEF SizeInv
  <2>3. deflate_ext' = [deflate_ext EXCEPT !.message_size = InflatedSizeAfter(f, e)]
    BY <2>1 DEF Parsed
  <2>4. "RECV_INFLATE" \in FlagsAfter("RECV_MESSAGE", f, e) =>
           /\ deflate_ext'.set
           /\ message.length <= deflate_ext'.message_size
           /\ ~IsControl(f.op) => message.length + SizeOf(f) <= deflate_ext'.message_size
    BY <1>0, <2>1, <2>3, InflationGoesOn DEF SizeInv
  <2>5. e = NoError /\ ~TooLong(message.length, f) /\ cfg.max_message_size # 0 =>
           message.length + SizeOf(f) <= cfg.max_message_size
    BY <1>0, <2>1, AcceptedSize DEF SizeInv
  <2> QED
    BY <2>1, <2>2, <2>3, <2>4, <2>5
<1>3. CASE MessageControl(chunk)
  <2>1. /\ MessageFrameDone(chunk, e) /\ message' = message
        /\ flags' = FlagsAfter("RECV_MESSAGE", f, e) /\ out'.length = PayloadLength(f)
        /\ out'.error = Check(TooLong(0, f), "max_message_size")
    BY <1>3 DEF MessageControl
  <2> HIDE DEF f, e, w
  <2>2. PayloadLength(f) \in Nat /\ cfg.max_message_size \in Nat
    BY <1>2, <2>1, SizeTypes, ConfigsAssumption DEF TypeOK, ConfigType
  <2>3. out'.error = NoError /\ cfg.max_message_size # 0 => out'.length <= cfg.max_message_size
    <3>1. ASSUME out'.error = NoError, cfg.max_message_size # 0 PROVE ~(0 + PayloadLength(f) > cfg.max_message_size)
      BY <2>1, <3>1 DEF TooLong, Check, NoError
    <3> QED
      BY <2>1, <2>2, <3>1
  <2> QED
    BY <1>2, <2>1, <2>3 DEF SizeInv, WithinLimit, NeverOversized, Set
<1>4. CASE MessageGoesOn(chunk)
  <2>1. /\ MessageFrameDone(chunk, e) /\ e = NoError /\ ~f.fin /\ ~TooLong(message.length, f)
        /\ message'.length = message.length + SizeOf(f)
        /\ flags' = FlagsAfter("RECV_MESSAGE", f, e) /\ (out' = out \/ out' = Silent)
    BY <1>4 DEF MessageGoesOn
  <2>2. ~IsControl(f.op)
    BY <2>1, TurnFacts
  <2> HIDE DEF f, e, w
  <2>3. NeverOversized'
    BY <1>2, <2>1 DEF SizeInv, NeverOversized, Silent
  <2> QED
    BY <1>2, <2>1, <2>2, <2>3 DEF SizeInv, WithinLimit, Set
<1>5. CASE MessageDone(chunk)
  <2> DEFINE error == e ?? Check(TooLong(message.length, f), "max_message_size")
  <2>1. /\ MessageFrameDone(chunk, e) /\ message' = EmptyMessage /\ "RECV_INFLATE" \notin flags'
        /\ out'.length = message.length + (IF error = NoError THEN SizeOf(f) ELSE 0)
        /\ out'.error = error
    BY <1>5 DEF MessageDone
  <2>2. error = NoError => e = NoError /\ ~TooLong(message.length, f)
    BY DEF Check, ??, NoError
  <2>3. cfg.max_message_size \in Nat
    BY ConfigsAssumption DEF TypeOK, ConfigType
  <2> HIDE DEF f, e, w, error
  <2>4. WithinLimit'
    BY <1>2, <2>1, <2>3 DEF WithinLimit, EmptyMessage, Set
  <2>5. NeverOversized'
    BY <1>2, <2>1, <2>2 DEF NeverOversized
  <2> QED
    BY <1>2, <2>1, <2>4, <2>5 DEF SizeInv
<1> QED
  BY <1>1, <1>3, <1>4, <1>5 DEF MessageStep

LEMMA SizeStep ==
    ASSUME TypeOK, ModesAgree, HalvesInv, GatheredInv, SizeInv, OneLimit, [Next]_vars
    PROVE  SizeInv'
<1>1. ASSUME NEW chunk, Refused(chunk) \/ ReturnsNothing(chunk) PROVE SizeInv'
  BY <1>1 DEF Refused, ReturnsNothing, Refusal, Silent, parse_vars, config_vars,
              SizeInv, LimitsAgree, WithinLimit, NeverOversized, Set
<1>2. ASSUME NEW chunk \in Arrivals, FrameStep(chunk) \/ MessageStep(chunk) PROVE SizeInv'
  BY <1>2, FrameStepSize, MessageStepSize
<1>3. ASSUME NEW c \in Configs, Configure(c) PROVE SizeInv'
  <2>1. cfg' = c /\ cfg'.max_message_size = cfg.max_message_size
    BY <1>3 DEF Configure, OneLimit, TypeOK
  <2>2. deflate_cfg'.set => deflate_cfg'.max_message_size = cfg.max_message_size
    <3>1. CASE Set("ESTABLISHED")
      BY <1>3, <3>1 DEF Configure, SizeInv, LimitsAgree
    <3>2. CASE ~Set("ESTABLISHED")
      BY <1>3, <2>1, <3>2 DEF Configure
    <3> QED
      BY <3>1, <3>2
  <2>3. UNCHANGED <<deflate_ext, message, flags, out>>
    BY <1>3 DEF Configure, parse_vars
  <2> QED
    BY <2>1, <2>2, <2>3 DEF SizeInv, LimitsAgree, WithinLimit, NeverOversized, Set
<1>4. ASSUME NoDeflateCall PROVE SizeInv'
  <2>1. deflate_cfg' = deflate_cfg \/ ~deflate_cfg'.set
    BY <1>4 DEF NoDeflateCall, NoDeflate
  <2> QED
    BY <1>4, <2>1 DEF NoDeflateCall, parse_vars, SizeInv, LimitsAgree, WithinLimit, NeverOversized, Set
<1>5. ASSUME NEW negotiated, NEW chunk, Establish(negotiated, chunk) PROVE SizeInv'
  <2>1. flags' = {"ESTABLISHED"}
    BY <1>5 DEF Establish, ModesAgree, Set
  <2>2. \/ deflate_ext' = deflate_ext
        \/ deflate_cfg.set /\ deflate_ext'.max_message_size = deflate_cfg.max_message_size
    BY <1>5 DEF Establish
  <2>3. UNCHANGED <<cfg, deflate_cfg, message, out>>
    BY <1>5 DEF Establish, config_vars
  <2>4. LimitsAgree'
    <3>1. CASE deflate_ext' = deflate_ext
      BY <2>3, <3>1 DEF SizeInv, LimitsAgree
    <3>2. CASE deflate_cfg.set /\ deflate_ext'.max_message_size = deflate_cfg.max_message_size
      BY <2>3, <3>2 DEF SizeInv, LimitsAgree
    <3> QED
      BY <2>2, <3>1, <3>2
  <2>5. WithinLimit'
    BY <2>1, <2>3 DEF SizeInv, WithinLimit, Set
  <2> QED
    BY <2>3, <2>4, <2>5 DEF SizeInv, NeverOversized
<1>6. ASSUME Reset PROVE SizeInv'
  <2>1. cfg.max_message_size \in Nat
    BY ConfigsAssumption DEF TypeOK, ConfigType
  <2> QED
    BY <1>6, <2>1 DEF Reset, Silent, EmptyMessage, config_vars, SizeInv, LimitsAgree, WithinLimit, NeverOversized, Set
<1>7. CASE UNCHANGED vars
  BY <1>7 DEF vars, parse_vars, config_vars, SizeInv, LimitsAgree, WithinLimit, NeverOversized, Set
<1> QED
  BY <1>1, <1>2, <1>3, <1>4, <1>5, <1>6, <1>7 DEF Next

\* With a limit that configure() does not change, no message longer than it is handed over:
\* plain or compressed, in any number of fragments, after any errors, and on every
\* connection of one parser (uncompress, Message::add_frame).
THEOREM SizesCorrect ==
    ASSUME OneLimit PROVE Spec => []NeverOversized
<1>1. Init => SizeInv
  <2>1. Init => cfg.max_message_size \in Nat
    BY ConfigsAssumption DEF Init, ConfigType
  <2> QED
    BY <2>1 DEF Init, NoDeflateExt, EmptyMessage, Silent, SizeInv, LimitsAgree, WithinLimit, NeverOversized, Set
<1>2. TypeOK /\ ModesAgree /\ HalvesInv /\ GatheredInv /\ SizeInv /\ [Next]_vars => SizeInv'
  BY SizeStep
<1>3. SizeInv => NeverOversized
  BY DEF SizeInv
<1> QED
  BY <1>1, <1>2, <1>3, GatheredInvariant, HalvesInvariant, TypeCorrect, ModesCorrect, PTL DEF Spec

-------------------------------------------------------------------------------
(* A plain message is turned down for its size only if it is too long.     *)

Totals(total, s) ==
    total = [i \in 0 .. Len(s) |-> IF i = 0 THEN 0 ELSE total[i - 1] + PayloadSize(s[i], s[1].rsv1)]

\* The recursion in TotalSize defines a function.
LEMMA TotalsAre ==
    ASSUME NEW s \in Seq(Frames)
    PROVE  \E total : /\ Totals(total, s) /\ TotalSize(s) = total[Len(s)]
                      /\ total[0] = 0
                      /\ \A i \in 1 .. Len(s) : total[i] = total[i - 1] + PayloadSize(s[i], s[1].rsv1)
<1> DEFINE n == Len(s)
           w(i) == PayloadSize(s[i], s[1].rsv1)
           next == [iv \in (1 .. n) \X Nat |-> iv[2] + w(iv[1])]
<1>1. n \in Nat
  OBVIOUS
<1>2. \A i \in 1 .. n : w(i) \in Nat
  <2>1. ASSUME NEW i \in 1 .. n PROVE PayloadSize(s[i], s[1].rsv1) \in Nat
    <3>1. s[i] \in Frames /\ s[1] \in Frames
      BY <1>1
    <3>2. s[1].rsv1 \in BOOLEAN
      BY <3>1, FrameFields
    <3> QED BY <3>1, <3>2, SizeTypes
  <2> QED BY <2>1
<1>3. next \in [(1 .. n) \X Nat -> Nat] /\ \A i \in 1 .. n, v \in Nat : next[<<i, v>>] = v + w(i)
  <2> HIDE DEF w, n
  <2>1. \A iv \in (1 .. n) \X Nat : iv[2] + w(iv[1]) \in Nat
    <3>1. \A iv \in (1 .. n) \X Nat : iv[1] \in 1 .. n /\ iv[2] \in Nat
      OBVIOUS
    <3> QED BY <1>2, <3>1
  <2> QED BY <2>1
<1> HIDE DEF w, n, next
<1>4. PICK f : Recursive(f, Nat, 0, n, next)
  <2>1. 0 \in Nat /\ next \in [(1 .. n) \X Nat -> Nat]
    BY <1>3
  <2> QED BY <1>1, <2>1, RecursionDefines, Zenon
<1>5. \A i \in 1 .. n : f[i] = f[i - 1] + w(i)
  <2>1. ASSUME NEW i \in 1 .. n PROVE f[i - 1] \in Nat
    BY <1>1, <1>4 DEF Recursive
  <2> QED BY <1>3, <1>4, <2>1 DEF Recursive
<1>6. f = [i \in 0 .. n |-> IF i = 0 THEN 0 ELSE f[i - 1] + w(i)]
  <2> DEFINE v(i) == IF i = 0 THEN 0 ELSE f[i - 1] + w(i)
  <2>1. ASSUME NEW i \in 0 .. n PROVE f[i] = v(i)
    <3>1. i = 0 \/ i \in 1 .. n
      BY <1>1
    <3> QED BY <1>4, <1>5, <3>1 DEF Recursive
  <2> HIDE DEF v
  <2>2. f = [i \in 0 .. n |-> f[i]]
    BY <1>4 DEF Recursive
  <2>3. f = [i \in 0 .. n |-> v(i)]
    BY <2>1, <2>2, Zenon
  <2> QED BY <2>3 DEF v
<1>7. \E total : Totals(total, s)
  <2>1. Totals(f, s)
    BY <1>6, Zenon DEF Totals, n, w
  <2> QED BY <2>1, Zenon
<1> DEFINE total == CHOOSE t : Totals(t, s)
<1>8. Totals(total, s)
  BY <1>7, Zenon
<1>9. TotalSize(s) = total[Len(s)]
  BY Zenon DEF TotalSize, Totals
<1> HIDE DEF total
<1>10. total[0] = 0 /\ \A i \in 1 .. n : total[i] = total[i - 1] + w(i)
  <2>1. \A i \in 0 .. n : total[i] = IF i = 0 THEN 0 ELSE total[i - 1] + w(i)
    BY <1>8 DEF Totals, n, w
  <2>2. 0 \in 0 .. n /\ \A i \in 1 .. n : i \in 0 .. n /\ i # 0
    BY <1>1
  <2> QED BY <2>1, <2>2
<1> QED BY <1>8, <1>9, <1>10 DEF n, w

\* TotalSize: a fragment adds its payload, inflated if the message began compressed.
LEMMA TotalGrows ==
    ASSUME NEW s \in Seq(Frames), NEW f \in Frames
    PROVE  TotalSize(Append(s, f)) =
              (IF s = <<>> THEN 0 ELSE TotalSize(s)) + PayloadSize(f, Append(s, f)[1].rsv1)
<1> DEFINE t == Append(s, f)
           n == Len(s)
           w(i) == PayloadSize(t[i], t[1].rsv1)
<1>1. t \in Seq(Frames) /\ Len(t) = n + 1 /\ n \in Nat /\ t[n + 1] = f /\ \A i \in 1 .. n : t[i] = s[i]
  OBVIOUS
<1> HIDE DEF t
<1>2. PICK b : /\ TotalSize(t) = b[n + 1] /\ b[0] = 0
               /\ \A i \in 1 .. n + 1 : b[i] = b[i - 1] + w(i)
  BY <1>1, TotalsAre
<1>3. b[n + 1] = b[n] + PayloadSize(f, t[1].rsv1)
  <2>1. n + 1 \in 1 .. n + 1 /\ (n + 1) - 1 = n
    BY <1>1
  <2> QED BY <1>1, <1>2, <2>1
<1>4. CASE n = 0
  <2>1. s = <<>>
    BY <1>4
  <2> QED BY <1>2, <1>3, <1>4, <2>1 DEF t
<1>5. CASE n # 0
  <2>1. PICK a : /\ TotalSize(s) = a[n] /\ a[0] = 0
                 /\ \A i \in 1 .. n : a[i] = a[i - 1] + PayloadSize(s[i], s[1].rsv1)
    BY TotalsAre DEF n
  <2>2. 1 \in 1 .. n /\ s # <<>> /\ n \in 0 .. n
    BY <1>1, <1>5
  <2>3. ASSUME NEW i \in 1 .. n, a[i - 1] = b[i - 1] PROVE a[i] = b[i]
    <3>1. w(i) = PayloadSize(s[i], s[1].rsv1)
      BY <1>1, <2>2
    <3>2. i \in 1 .. n + 1
      BY <1>1
    <3> QED BY <1>2, <2>1, <2>3, <3>1, <3>2
  <2> HIDE DEF n
  <2>4. \A i \in 0 .. n : a[i] = b[i]
    <3>1. InStep(a, b, n)
      BY <1>2, <2>1, <2>3 DEF InStep
    <3>2. n \in Nat
      BY <1>1
    <3> QED BY <3>1, <3>2, RecursionUnique, Zenon
  <2> QED BY <1>2, <1>3, <2>1, <2>2, <2>4 DEF t
<1> QED BY <1>4, <1>5

\* A message in progress is inflated only if it began compressed, and the length of one that
\* did not is what its fragments hold.
PlainCounted ==
    /\ Set("RECV_INFLATE") =>
          /\ frame_count > 0
          /\ Set("RECV_FRAME") \/ (message.frames # <<>> /\ message.frames[1].rsv1)
    /\ message.frames # <<>> /\ ~message.frames[1].rsv1 => message.length = TotalSize(message.frames)

PlainInv == PlainCounted /\ PlainSizeErrorJustified

\* Only inflating finds a message too long for max_message_size while a frame is parsed.
LEMMA TooLongInflated ==
    ASSUME NEW f, NEW passed, NEW stale, Verdict(f, passed, stale) = "max_message_size"
    PROVE  ~IsControl(f.op) /\ Inflated(f)
<1>1. \A c, n : HeaderError(f, c, n) # "max_message_size"
  BY DEF HeaderError, Check, ??, NoError
<1>2. CloseError(f) # "max_message_size"
  BY DEF CloseError, Check, NoError
<1>3. ParseError(f, passed) # "max_message_size"
  BY <1>1, <1>2 DEF ParseError, ??, NoError
<1>4. ReasonError(f, CloseMessage(f, stale)) # "max_message_size"
  BY DEF ReasonError, Check, NoError
<1>5. OrderError(f) # "max_message_size" /\ Utf8Error(f) # "max_message_size"
  BY DEF OrderError, Utf8Error, Check, ??, NoError
<1>6. ~IsControl(f.op) /\ InflateError(f) = "max_message_size"
  BY <1>3, <1>4, <1>5 DEF Verdict, ??
<1> QED BY <1>6 DEF InflateError, NoError

\* A turn of the message getter in which a frame joins a message that began plain, or begins one.
LEMMA PlainTurn ==
    ASSUME TypeOK, GatheredInv, PlainCounted, ~Set("RECV_FRAME"), NEW f \in Frames,
           ~Append(message.frames, f)[1].rsv1
    PROVE  /\ ~(~IsControl(f.op) /\ Inflated(f))
           /\ SizeOf(f) = PayloadLength(f)
           /\ message.length + PayloadLength(f) = TotalSize(Append(message.frames, f))
<1> DEFINE s == message.frames
           first == Append(s, f)[1]
<1>1. s \in Seq(Frames) /\ message.length \in Nat
  BY DEF TypeOK
<1>2. first = IF s = <<>> THEN f ELSE s[1]
  BY <1>1, AppendedFirst
<1>3. f.rsv1 \in BOOLEAN /\ first.rsv1 = FALSE
  <2>1. first \in Frames
    <3>1. s # <<>> => s[1] \in Frames
      BY <1>1
    <3> QED BY <1>2, <3>1
  <2> QED BY <2>1, FrameFields
<1>4. ~Set("RECV_INFLATE")
  BY <1>2 DEF PlainCounted
<1>5. ~Inflated(f)
  BY <1>2, <1>4 DEF Inflated, GatheredInv, MessageCounted
<1>6. SizeOf(f) = PayloadLength(f) /\ PayloadSize(f, first.rsv1) = PayloadLength(f)
  BY <1>3, <1>5 DEF SizeOf, PayloadSize
<1>7. TotalSize(Append(s, f)) = (IF s = <<>> THEN 0 ELSE TotalSize(s)) + PayloadLength(f)
  <2>1. TotalSize(Append(s, f)) = (IF s = <<>> THEN 0 ELSE TotalSize(s)) + PayloadSize(f, first.rsv1)
    BY <1>1, TotalGrows
  <2> QED BY <1>6, <2>1
<1>8. message.length = IF s = <<>> THEN 0 ELSE TotalSize(s)
  BY <1>2 DEF PlainCounted, GatheredInv, MessageCounted
<1> QED BY <1>5, <1>6, <1>7, <1>8, Zenon

LEMMA FrameStepPlain ==
    ASSUME TypeOK, ModesAgree, PlainInv, NEW chunk \in Arrivals, FrameStep(chunk)
    PROVE  PlainInv'
<1>1. message' = message /\ ~Set("RECV_MESSAGE") /\ out'.kind # "message"
  BY DEF FrameStep, FramePrefix, FrameDone, MayGetFrame, Silent
<1>2. message.frames = <<>>
  BY <1>1 DEF ModesAgree, EmptyMessage
<1>3. CASE FramePrefix(chunk)
  BY <1>1, <1>2, <1>3 DEF FramePrefix, PlainInv, PlainCounted, PlainSizeErrorJustified, Set
<1>4. CASE FrameDone(chunk)
  <2> DEFINE f == Head(Fed(chunk)).frame
             e == Verdict(f, Passed(Head(Fed(chunk)), frame), "empty")
  <2>1. f \in Frames
    BY <1>4, HeadType DEF FrameDone, MayGetFrame
  <2>2. flags' = FlagsAfter("RECV_FRAME", f, e) /\ frame_count' = CountAfter(f, e)
    BY <1>4 DEF FrameDone, Parsed
  <2> HIDE DEF f, e
  <2>3. frame_count \in Nat
    BY DEF TypeOK
  <2>4. ASSUME "RECV_INFLATE" \in flags' PROVE frame_count' > 0 /\ "RECV_FRAME" \in flags'
    <3>1. e = NoError
      BY <2>1, <2>2, <2>4, InflateAfterFrame
    <3>2. CASE IsControl(f.op)
      <4>1. Set("RECV_INFLATE")
        BY <2>1, <2>2, <2>4, <3>1, <3>2, InflateAfterFrame
      <4>2. frame_count > 0
        BY <4>1 DEF PlainInv, PlainCounted
      <4>3. frame_count' = frame_count /\ frame_count # 0
        BY <2>2, <2>3, <3>1, <3>2, <4>2 DEF CountAfter
      <4> QED BY <2>1, <2>2, <3>1, <3>2, <4>2, <4>3, InflateAfterFrame
    <3>3. CASE ~IsControl(f.op)
      <4>1. ~f.fin
        BY <2>1, <2>2, <2>4, <3>1, <3>3, InflateAfterFrame
      <4>2. frame_count' = frame_count + 1
        BY <2>2, <3>1, <3>3, <4>1 DEF CountAfter
      <4> QED BY <2>1, <2>2, <2>3, <3>1, <3>3, <4>1, <4>2, InflateAfterFrame
    <3> QED BY <3>2, <3>3
  <2> QED BY <1>1, <1>2, <2>4 DEF PlainInv, PlainCounted, PlainSizeErrorJustified, Set
<1> QED BY <1>3, <1>4 DEF FrameStep

LEMMA MessageStepPlain ==
    ASSUME TypeOK, ModesAgree, HalvesInv, GatheredInv, PlainInv, NEW chunk \in Arrivals, MessageStep(chunk)
    PROVE  PlainInv'
<1> DEFINE f == MessageFrame(chunk)
           e == MessageVerdict(chunk)
           s == message.frames
<1>0. ~Set("RECV_FRAME")
  BY DEF MessageStep, MessagePrefix, MessageControl, MessageGoesOn, MessageDone, MessageFrameDone, MayGetMessage
<1>1. CASE MessagePrefix(chunk)
  BY <1>1 DEF MessagePrefix, Silent, PlainInv, PlainCounted, PlainSizeErrorJustified, Set
<1>2. e = "max_message_size" => ~IsControl(f.op) /\ Inflated(f)
  BY TooLongInflated DEF MessageVerdict, MessageFrame
<1>3. CASE MessageControl(chunk)
  <2>1. /\ MessageFrameDone(chunk, e) /\ message' = message /\ e = NoError /\ IsControl(f.op)
        /\ flags' = FlagsAfter("RECV_MESSAGE", f, e) /\ out'.frames = <<f>> /\ s # <<>>
        /\ out'.error = Check(TooLong(0, f), "max_message_size") /\ cfg' = cfg
    BY <1>3 DEF MessageControl, PassesThrough, MessageFrameDone, Parsed, config_vars
  <2>2. f \in Frames /\ frame_count' = CountAfter(f, e)
    BY <2>1, TurnFacts
  <2> HIDE DEF f, e
  <2>3. "RECV_INFLATE" \in flags' <=> Set("RECV_INFLATE")
    BY <2>1, <2>2, InflateAfterFrame
  <2>4. PlainCounted'
    <3>1. frame_count' = frame_count
      BY <2>1, <2>2 DEF CountAfter
    <3> QED BY <1>0, <2>1, <2>3, <3>1 DEF PlainInv, PlainCounted, Set
  <2>5. ASSUME out'.error = "max_message_size", ~out'.frames[1].rsv1
        PROVE  TotalSize(out'.frames) > cfg'.max_message_size
    <3>1. <<f>> = Append(<<>>, f) /\ <<>> \in Seq(Frames) /\ <<f>>[1] = f
      BY <2>2
    <3>2. f.rsv1 = FALSE
      <4>1. f.rsv1 \in BOOLEAN
        BY <2>2, FrameFields
      <4> QED BY <2>1, <2>5, <3>1, <4>1
    <3>3. TotalSize(<<f>>) = 0 + PayloadSize(f, f.rsv1)
      BY <2>2, <3>1, TotalGrows
    <3>4. TotalSize(<<f>>) = 0 + PayloadLength(f)
      BY <3>2, <3>3 DEF PayloadSize
    <3>5. TooLong(0, f)
      BY <2>1, <2>5 DEF Check, NoError
    <3> QED BY <2>1, <3>4, <3>5 DEF TooLong
  <2> QED BY <2>4, <2>5 DEF PlainInv, PlainSizeErrorJustified
<1>4. CASE MessageGoesOn(chunk)
  <2>1. /\ MessageFrameDone(chunk, e) /\ e = NoError /\ ~f.fin
        /\ message'.frames = Append(s, f) /\ message'.length = message.length + SizeOf(f)
        /\ flags' = FlagsAfter("RECV_MESSAGE", f, e) /\ (out' = out \/ out' = Silent) /\ cfg' = cfg
    BY <1>4 DEF MessageGoesOn, MessageFrameDone, Parsed, config_vars
  <2>2. f \in Frames /\ frame_count' = CountAfter(f, e) /\ ~IsControl(f.op) /\ frame_count \in Nat
    BY <2>1, TurnFacts
  <2> HIDE DEF f, e
  <2>3. s \in Seq(Frames) /\ Append(s, f) # <<>> /\ Append(s, f)[1] = IF s = <<>> THEN f ELSE s[1]
    <3>1. s \in Seq(Frames)
      BY DEF TypeOK
    <3> QED BY <2>2, <3>1, AppendedFirst
  <2>4. frame_count' = frame_count + 1
    BY <2>1, <2>2 DEF CountAfter
  <2>5. ASSUME "RECV_INFLATE" \in flags' PROVE Append(s, f)[1].rsv1
    <3>1. Inflated(f)
      BY <2>1, <2>2, <2>5, InflateAfterFrame
    <3>2. CASE Set("RECV_INFLATE")
      BY <1>0, <2>3, <3>2 DEF PlainInv, PlainCounted
    <3>3. CASE frame_count = 0 /\ f.rsv1
      BY <2>3, <3>3 DEF GatheredInv, MessageCounted
    <3> QED BY <3>1, <3>2, <3>3 DEF Inflated
  <2>6. ~Append(s, f)[1].rsv1 => message.length + SizeOf(f) = TotalSize(Append(s, f))
    BY <1>0, <2>2, PlainTurn DEF PlainInv
  <2>7. PlainCounted'
    BY <2>1, <2>2, <2>3, <2>4, <2>5, <2>6 DEF PlainCounted, Set
  <2>8. PlainSizeErrorJustified'
    BY <2>1 DEF PlainInv, PlainSizeErrorJustified, Silent
  <2> QED BY <2>7, <2>8 DEF PlainInv
<1>5. CASE MessageDone(chunk)
  <2> DEFINE error == e ?? Check(TooLong(message.length, f), "max_message_size")
  <2>1. /\ MessageFrameDone(chunk, e) /\ message' = EmptyMessage /\ "RECV_INFLATE" \notin flags'
        /\ out'.frames = Append(s, f) /\ out'.error = error /\ cfg' = cfg
    BY <1>5 DEF MessageDone, MessageFrameDone, Parsed, config_vars
  <2>2. f \in Frames
    BY <2>1, TurnFacts
  <2>3. error = "max_message_size" => e = "max_message_size" \/ TooLong(message.length, f)
    BY DEF Check, ??, NoError
  <2> HIDE DEF f, e, error
  <2>4. ASSUME out'.error = "max_message_size", ~out'.frames[1].rsv1
        PROVE  TotalSize(out'.frames) > cfg'.max_message_size
    <3>1. /\ ~(~IsControl(f.op) /\ Inflated(f))
          /\ message.length + PayloadLength(f) = TotalSize(Append(s, f))
      BY <1>0, <2>1, <2>2, <2>4, PlainTurn DEF PlainInv
    <3>2. TooLong(message.length, f)
      BY <1>2, <2>1, <2>3, <2>4, <3>1
    <3> QED BY <2>1, <3>1, <3>2 DEF TooLong
  <2> QED BY <2>1, <2>4 DEF PlainInv, PlainCounted, PlainSizeErrorJustified, EmptyMessage, Set
<1> QED BY <1>1, <1>3, <1>4, <1>5 DEF MessageStep

LEMMA PlainStep ==
    ASSUME TypeOK, ModesAgree, HalvesInv, GatheredInv, PlainInv, OneLimit, [Next]_vars
    PROVE  PlainInv'
<1>1. ASSUME UNCHANGED <<flags, frame_count, message, cfg>>, out' = out \/ out'.kind # "message" PROVE PlainInv'
  BY <1>1 DEF PlainInv, PlainCounted, PlainSizeErrorJustified, Set
<1>2. ASSUME NEW chunk, Refused(chunk) \/ ReturnsNothing(chunk) PROVE PlainInv'
  BY <1>1, <1>2 DEF Refused, ReturnsNothing, Refusal, Silent, parse_vars, config_vars
<1>3. ASSUME NEW chunk \in Arrivals, FrameStep(chunk) \/ MessageStep(chunk) PROVE PlainInv'
  BY <1>3, FrameStepPlain, MessageStepPlain
<1>4. ASSUME NEW c \in Configs, Configure(c) PROVE PlainInv'
  <2>1. cfg'.max_message_size = cfg.max_message_size
    BY <1>4 DEF Configure, OneLimit, TypeOK
  <2>2. UNCHANGED <<message, flags, frame_count, out>>
    BY <1>4 DEF Configure, parse_vars
  <2> QED BY <2>1, <2>2 DEF PlainInv, PlainCounted, PlainSizeErrorJustified, Set
<1>5. ASSUME NoDeflateCall PROVE PlainInv'
  BY <1>1, <1>5 DEF NoDeflateCall, parse_vars
<1>6. ASSUME NEW negotiated, NEW chunk, Establish(negotiated, chunk) PROVE PlainInv'
  <2>1. flags' = {"ESTABLISHED"}
    BY <1>6 DEF Establish, ModesAgree, Set
  <2>2. UNCHANGED <<cfg, message, out>>
    BY <1>6 DEF Establish, config_vars
  <2> QED BY <2>1, <2>2 DEF PlainInv, PlainCounted, PlainSizeErrorJustified, Set
<1>7. ASSUME Reset PROVE PlainInv'
  BY <1>7 DEF Reset, Silent, EmptyMessage, PlainInv, PlainCounted, PlainSizeErrorJustified, Set
<1>8. CASE UNCHANGED vars
  BY <1>1, <1>8 DEF vars, parse_vars, config_vars
<1> QED BY <1>2, <1>3, <1>4, <1>5, <1>6, <1>7, <1>8 DEF Next

\* With a limit that configure() does not change, a message that began without compression is
\* turned down for its size only if its payload is longer than the limit, whatever was inflated,
\* refused or passed through before it (Message::add_frame, uncompress).
THEOREM PlainSizesCorrect ==
    ASSUME OneLimit PROVE Spec => []PlainSizeErrorJustified
<1>1. Init => PlainInv
  BY DEF Init, EmptyMessage, Silent, PlainInv, PlainCounted, PlainSizeErrorJustified, Set
<1>2. TypeOK /\ ModesAgree /\ HalvesInv /\ GatheredInv /\ PlainInv /\ [Next]_vars => PlainInv'
  BY PlainStep
<1>3. PlainInv => PlainSizeErrorJustified
  BY DEF PlainInv
<1> QED
  BY <1>1, <1>2, <1>3, GatheredInvariant, HalvesInvariant, TypeCorrect, ModesCorrect, PTL DEF Spec

-------------------------------------------------------------------------------
(* Connections, and what configure() may do to one. *)

\* A Parser object serves one connection: reset() keeps the scan and the extension.
OneConnection == MaxConnections <= 1

\* configure() never turns the check of text on or off.
OneCheck == \A c, d \in Configs : c.check_utf8 = d.check_utf8

-------------------------------------------------------------------------------
(* Scans of a sequence of payloads. *)

\* How the next payload of a message that begins with s reads.
NextText(s, f) == PayloadText(f, Append(s, f)[1].rsv1)

LEMMA AppendFacts ==
    ASSUME NEW s \in Seq(Frames), NEW f \in Frames
    PROVE  /\ Len(s) \in Nat /\ Len(Append(s, f)) = Len(s) + 1
           /\ Append(s, f) \in Seq(Frames) /\ Append(s, f) # <<>>
           /\ Append(s, f)[Len(s) + 1] = f
           /\ \A i \in 1 .. Len(s) : Append(s, f)[i] = s[i]
           /\ Append(s, f)[1] = IF s = <<>> THEN f ELSE s[1]
<1>1. Len(s) \in Nat /\ Len(Append(s, f)) = Len(s) + 1 /\ (s = <<>> <=> Len(s) = 0)
  OBVIOUS
<1>2. \A k \in 1 .. Len(s) + 1 : Append(s, f)[k] = IF k = Len(s) + 1 THEN f ELSE s[k]
  OBVIOUS
<1>3. Append(s, f) \in Seq(Frames) /\ Append(s, f) # <<>>
  BY <1>1
<1> QED
  BY <1>1, <1>2, <1>3

LEMMA PendingType ==
    ASSUME NEW text, NEW q \in BOOLEAN PROVE TextPending(text, q) \in BOOLEAN
<1>1. (text \in {"opens", "bridges"}) \in BOOLEAN
  OBVIOUS
<1> QED
  BY <1>1, Zenon DEF TextPending

LEMMA EmptyScan == ScansTo(<<>>, FALSE)
<1> DEFINE p == [i \in 0 .. 0 |-> FALSE]
<1>1. p \in [0 .. Len(<<>>) -> BOOLEAN] /\ p[0] = FALSE /\ Len(<<>>) = 0
  OBVIOUS
<1>2. Scans(<<>>, p)
  BY <1>1 DEF Scans
<1> QED
  BY <1>1, <1>2 DEF ScansTo

\* A payload that fits where the scan stands carries it on.
LEMMA ScanGoesOn ==
    ASSUME NEW s \in Seq(Frames), NEW f \in Frames, NEW q \in BOOLEAN, ScansTo(s, q),
           TextFits(NextText(s, f), q)
    PROVE  ScansTo(Append(s, f), TextPending(NextText(s, f), q))
<1> DEFINE t == Append(s, f)
           n == Len(s)
           r == TextPending(NextText(s, f), q)
<1>1. PICK p \in [0 .. n -> BOOLEAN] : Scans(s, p) /\ p[n] = q
  BY DEF ScansTo
<1>2. n \in Nat /\ Len(t) = n + 1 /\ t[n + 1] = f /\ \A i \in 1 .. n : t[i] = s[i]
  BY AppendFacts
<1>3. n > 0 => t[1] = s[1]
  BY <1>2
<1>4. r \in BOOLEAN
  BY PendingType
<1> DEFINE u == [i \in 0 .. n + 1 |-> IF i = n + 1 THEN r ELSE p[i]]
<1> HIDE DEF r, n, t
<1>5. u \in [0 .. Len(t) -> BOOLEAN] /\ u[n + 1] = r /\ u[0] = FALSE
  BY <1>1, <1>2, <1>4 DEF Scans
<1>6. ASSUME NEW i \in 1 .. Len(t)
      PROVE  /\ TextFits(PayloadText(t[i], t[1].rsv1), u[i - 1])
             /\ u[i] = TextPending(PayloadText(t[i], t[1].rsv1), u[i - 1])
  <2>1. CASE i = n + 1
    <3>1. u[i - 1] = q /\ u[i] = r
      BY <1>1, <1>2, <2>1
    <3>2. PayloadText(t[i], t[1].rsv1) = NextText(s, f)
      BY <1>2, <2>1 DEF NextText, t
    <3> QED
      BY <3>1, <3>2 DEF r
  <2>2. CASE i # n + 1
    <3>1. i \in 1 .. n /\ i - 1 \in 0 .. n /\ i - 1 # n + 1
      BY <1>2, <2>2
    <3>2. u[i] = p[i] /\ u[i - 1] = p[i - 1] /\ t[i] = s[i] /\ t[1] = s[1]
      BY <1>2, <1>3, <2>2, <3>1
    <3>3. /\ TextFits(PayloadText(s[i], s[1].rsv1), p[i - 1])
          /\ p[i] = TextPending(PayloadText(s[i], s[1].rsv1), p[i - 1])
      BY <1>1, <3>1 DEF Scans, n
    <3> HIDE DEF u
    <3> QED
      BY <3>2, <3>3
  <2> QED
    BY <2>1, <2>2
<1> HIDE DEF u
<1>7. Scans(t, u)
  BY <1>5, <1>6 DEF Scans
<1> QED
  BY <1>2, <1>5, <1>7 DEF ScansTo, t, r

\* And only such a payload does.
LEMMA ScanCameFrom ==
    ASSUME NEW s \in Seq(Frames), NEW f \in Frames, NEW r, ScansTo(Append(s, f), r)
    PROVE  \E q \in BOOLEAN : /\ ScansTo(s, q)
                              /\ TextFits(NextText(s, f), q)
                              /\ r = TextPending(NextText(s, f), q)
<1> DEFINE t == Append(s, f)
           n == Len(s)
<1>1. n \in Nat /\ Len(t) = n + 1 /\ t[n + 1] = f /\ \A i \in 1 .. n : t[i] = s[i]
  BY AppendFacts
<1>2. PICK u \in [0 .. n + 1 -> BOOLEAN] : Scans(t, u) /\ u[n + 1] = r
  BY <1>1 DEF ScansTo
<1> DEFINE p == [i \in 0 .. n |-> u[i]]
<1>3. /\ TextFits(PayloadText(t[n + 1], t[1].rsv1), u[n])
      /\ u[n + 1] = TextPending(PayloadText(t[n + 1], t[1].rsv1), u[n])
  <2>1. n + 1 \in 1 .. Len(t) /\ (n + 1) - 1 = n
    BY <1>1
  <2> HIDE DEF n, t
  <2> QED
    BY <1>2, <2>1 DEF Scans
<1>4. u[n] \in BOOLEAN /\ p[n] = u[n] /\ p[0] = FALSE /\ p \in [0 .. n -> BOOLEAN]
  BY <1>1, <1>2 DEF Scans
<1>5. ASSUME NEW i \in 1 .. n
      PROVE  /\ TextFits(PayloadText(s[i], s[1].rsv1), p[i - 1])
             /\ p[i] = TextPending(PayloadText(s[i], s[1].rsv1), p[i - 1])
  <2>1. i \in 1 .. Len(t) /\ i \in 0 .. n /\ i - 1 \in 0 .. n /\ 1 \in 1 .. n
    BY <1>1
  <2>2. t[i] = s[i] /\ t[1] = s[1] /\ p[i] = u[i] /\ p[i - 1] = u[i - 1]
    BY <1>1, <2>1
  <2>3. /\ TextFits(PayloadText(t[i], t[1].rsv1), u[i - 1])
        /\ u[i] = TextPending(PayloadText(t[i], t[1].rsv1), u[i - 1])
    BY <1>2, <2>1 DEF Scans
  <2> HIDE DEF p, t
  <2> QED
    BY <2>2, <2>3
<1> HIDE DEF p
<1>6. ScansTo(s, u[n])
  BY <1>4, <1>5 DEF Scans, ScansTo
<1> QED
  BY <1>1, <1>2, <1>3, <1>4, <1>6 DEF NextText

\* A scan comes to one end.
LEMMA OneScan ==
    ASSUME NEW s \in Seq(Frames), NEW a, NEW b, ScansTo(s, a), ScansTo(s, b)
    PROVE  a = b
<1>1. PICK p \in [0 .. Len(s) -> BOOLEAN] : Scans(s, p) /\ p[Len(s)] = a
  BY DEF ScansTo
<1>2. PICK u \in [0 .. Len(s) -> BOOLEAN] : Scans(s, u) /\ u[Len(s)] = b
  BY DEF ScansTo
<1>3. Len(s) \in Nat
  OBVIOUS
<1> DEFINE Same == {i \in Nat : i <= Len(s) => p[i] = u[i]}
<1>4. 0 \in Same
  BY <1>1, <1>2 DEF Scans
<1>5. ASSUME NEW i \in Nat, i \in Same PROVE i + 1 \in Same
  <2>1. CASE i + 1 <= Len(s)
    <3>1. i + 1 \in 1 .. Len(s) /\ (i + 1) - 1 = i /\ p[i] = u[i]
      BY <1>3, <1>5, <2>1
    <3>2. p[i + 1] = TextPending(PayloadText(s[i + 1], s[1].rsv1), p[i])
      BY <1>1, <3>1 DEF Scans
    <3>3. u[i + 1] = TextPending(PayloadText(s[i + 1], s[1].rsv1), u[i])
      BY <1>2, <3>1 DEF Scans
    <3> QED
      BY <3>1, <3>2, <3>3
  <2>2. CASE ~(i + 1 <= Len(s))
    BY <2>2
  <2> QED
    BY <2>1, <2>2
<1> HIDE DEF Same
<1>6. Nat \subseteq Same
  BY <1>4, <1>5, SetInduction
<1> QED
  BY <1>1, <1>2, <1>3, <1>6 DEF Same

-------------------------------------------------------------------------------
(* Compression. *)

\* There is a DeflateExt only on a connection that negotiated it, and nothing before
\* the first connection.
ConnectionInv ==
    /\ deflate_ext.set => connections.negotiated
    /\ connections.count = 0 => /\ flags = {} /\ frame_count = 0
                                /\ fragments = <<>> /\ message = EmptyMessage
                                /\ out.frames = <<>> /\ ~deflate_ext.set
    /\ frame_count = Len(fragments)
    /\ message.frames # <<>> /\ BeginsCompressed(message.frames[1]) => connections.negotiated

CompressedInv == ConnectionInv /\ CompressedOnlyIfNegotiated

\* The frame a message begins with is compressed only if there is a DeflateExt.
LEMMA BeginsRight ==
    ASSUME NEW f, NEW passed, NEW stale, Verdict(f, passed, stale) = NoError, BeginsCompressed(f)
    PROVE  deflate_ext.set
<1>1. OrderError(f) = NoError
  BY DEF Verdict, ??, NoError, BeginsCompressed
<1> QED
  BY <1>1 DEF OrderError, Check, ??, NoError, BeginsCompressed

\* What a completed frame does to the connection's records.
LEMMA ParsedConnection ==
    ASSUME TypeOK, CompressedInv, Set("ESTABLISHED"), NEW f \in Frames, NEW passed, NEW stale,
           NEW e, e = Verdict(f, passed, stale), Parsed(f, e, stale)
    PROVE  /\ connections' = connections /\ connections.count # 0
           /\ deflate_ext'.set => connections.negotiated
           /\ frame_count' = Len(fragments')
           /\ fragments' # <<>> /\ BeginsCompressed(fragments'[1]) => connections.negotiated
           /\ e = NoError /\ BeginsCompressed(f) => connections.negotiated
<1>1. connections' = connections /\ connections.count # 0
  BY DEF Parsed, Set, CompressedInv, ConnectionInv
<1>2. deflate_ext'.set = deflate_ext.set
  BY DEF Parsed, TypeOK
<1>3. frame_count' = CountAfter(f, e) /\ fragments' = FragmentsAfter(f, e)
  BY DEF Parsed
<1>4. fragments \in Seq(Frames) /\ frame_count = Len(fragments)
  BY DEF TypeOK, CompressedInv, ConnectionInv
<1>5. e = NoError /\ BeginsCompressed(f) => connections.negotiated
  BY BeginsRight DEF CompressedInv, ConnectionInv
<1>6. frame_count' = Len(fragments')
      /\ (fragments' # <<>> /\ BeginsCompressed(fragments'[1]) => connections.negotiated)
  <2>1. CASE fragments' = <<>> /\ frame_count' = 0
    BY <2>1
  <2>2. CASE fragments' = fragments /\ frame_count' = frame_count
    BY <1>4, <2>2 DEF CompressedInv, CompressedOnlyIfNegotiated
  <2>3. CASE e = NoError /\ fragments' = Append(fragments, f) /\ frame_count' = frame_count + 1
    BY <1>4, <1>5, <2>3, AppendFacts DEF CompressedInv, CompressedOnlyIfNegotiated
  <2> QED
    BY <1>3, <2>1, <2>2, <2>3 DEF CountAfter, FragmentsAfter
<1> QED
  BY <1>1, <1>2, <1>5, <1>6 DEF CompressedInv, ConnectionInv

LEMMA FrameStepCompressed ==
    ASSUME TypeOK, CompressedInv, NEW chunk \in Arrivals, FrameStep(chunk)
    PROVE  CompressedInv'
<1>1. CASE FramePrefix(chunk)
  <2>1. connections.count # 0
    BY <1>1 DEF FramePrefix, MayGetFrame, Set, CompressedInv, ConnectionInv
  <2> QED
    BY <1>1, <2>1 DEF FramePrefix, Silent, CompressedInv, ConnectionInv, CompressedOnlyIfNegotiated
<1>2. CASE FrameDone(chunk)
  <2> DEFINE f == Head(Fed(chunk)).frame
             w == Passed(Head(Fed(chunk)), frame)
             e == Verdict(f, w, "empty")
  <2>1. f \in Frames /\ Set("ESTABLISHED")
    BY <1>2, HeadType DEF FrameDone, MayGetFrame
  <2>2. /\ Parsed(f, e, "empty") /\ message' = message
        /\ out'.frames = <<f>> /\ out'.error = e
    BY <1>2 DEF FrameDone
  <2>3. e = Verdict(f, w, "empty")
    OBVIOUS
  <2> HIDE DEF f, w, e
  <2> QED
    BY <2>1, <2>2, <2>3, ParsedConnection DEF CompressedInv, ConnectionInv, CompressedOnlyIfNegotiated
<1> QED
  BY <1>1, <1>2 DEF FrameStep

LEMMA MessageStepCompressed ==
    ASSUME TypeOK, CompressedInv, NEW chunk \in Arrivals, MessageStep(chunk)
    PROVE  CompressedInv'
<1> DEFINE f == MessageFrame(chunk)
           w == Passed(Head(Fed(chunk)), message_frame)
           e == MessageVerdict(chunk)
           Kept == /\ connections' = connections /\ connections.count # 0
                   /\ deflate_ext'.set => connections.negotiated
                   /\ frame_count' = Len(fragments')
                   /\ fragments' # <<>> /\ BeginsCompressed(fragments'[1]) => connections.negotiated
                   /\ e = NoError /\ BeginsCompressed(f) => connections.negotiated
<1>1. CASE MessagePrefix(chunk)
  <2>1. connections.count # 0
    BY <1>1 DEF MessagePrefix, MayGetMessage, Set, CompressedInv, ConnectionInv
  <2> QED
    BY <1>1, <2>1 DEF MessagePrefix, Silent, CompressedInv, ConnectionInv, CompressedOnlyIfNegotiated
<1>2. ASSUME MessageFrameDone(chunk, e)
      PROVE  f \in Frames /\ message.frames \in Seq(Frames) /\ Kept
  <2>1. f \in Frames /\ Parsed(f, e, close_message) /\ Set("ESTABLISHED")
    BY <1>2, HeadType DEF MessageFrameDone, MayGetMessage, MessageFrame
  <2>2. e = Verdict(f, w, close_message)
    BY DEF MessageVerdict, MessageFrame
  <2> HIDE DEF f, w, e
  <2> QED
    BY <2>1, <2>2, ParsedConnection DEF TypeOK
<1>3. CASE MessageControl(chunk)
  <2>1. MessageFrameDone(chunk, e) /\ message' = message /\ IsControl(f.op) /\ out'.frames = <<f>>
    BY <1>3 DEF MessageControl, PassesThrough
  <2>2. ~BeginsCompressed(f)
    BY <2>1 DEF BeginsCompressed
  <2> HIDE DEF f, w, e
  <2> QED
    BY <1>2, <2>1, <2>2 DEF CompressedInv, ConnectionInv, CompressedOnlyIfNegotiated
<1>4. ASSUME MessageFrameDone(chunk, e), e = NoError
      PROVE  BeginsCompressed(Append(message.frames, f)[1]) => connections.negotiated
  <2> HIDE DEF f, w, e
  <2> QED
    BY <1>2, <1>4, AppendFacts DEF CompressedInv, ConnectionInv
<1>5. CASE MessageGoesOn(chunk)
  <2>1. /\ MessageFrameDone(chunk, e) /\ e = NoError /\ (out' = out \/ out' = Silent)
        /\ message'.frames = Append(message.frames, f)
    BY <1>5 DEF MessageGoesOn
  <2> HIDE DEF f, w, e
  <2> QED
    BY <1>2, <1>4, <2>1 DEF Silent, CompressedInv, ConnectionInv, CompressedOnlyIfNegotiated
<1>6. CASE MessageDone(chunk)
  <2>1. /\ MessageFrameDone(chunk, e) /\ message' = EmptyMessage
        /\ out'.frames = Append(message.frames, f) /\ (out'.error = NoError => e = NoError)
    BY <1>6 DEF MessageDone, ??
  <2> HIDE DEF f, w, e
  <2> QED
    BY <1>2, <1>4, <2>1 DEF EmptyMessage, CompressedInv, ConnectionInv, CompressedOnlyIfNegotiated
<1> QED
  BY <1>1, <1>3, <1>5, <1>6 DEF MessageStep

LEMMA CompressedStep ==
    ASSUME TypeOK, CompressedInv, OneConnection, [Next]_vars
    PROVE  CompressedInv'
<1> USE DEF CompressedInv, ConnectionInv, CompressedOnlyIfNegotiated
<1>1. ASSUME NEW chunk, Refused(chunk) \/ ReturnsNothing(chunk) PROVE CompressedInv'
  BY <1>1 DEF Refused, ReturnsNothing, Refusal, Silent, parse_vars
<1>2. ASSUME NEW chunk \in Arrivals, FrameStep(chunk) \/ MessageStep(chunk) PROVE CompressedInv'
  BY <1>2, FrameStepCompressed, MessageStepCompressed
<1>3. ASSUME NEW c, Configure(c) PROVE CompressedInv'
  BY <1>3 DEF Configure, parse_vars
<1>4. ASSUME NoDeflateCall PROVE CompressedInv'
  BY <1>4 DEF NoDeflateCall, parse_vars
<1>5. ASSUME NEW negotiated \in BOOLEAN, NEW chunk, Establish(negotiated, chunk) PROVE CompressedInv'
  <2>1. connections.count = 0
    BY <1>5, BoundsAssumption DEF Establish, OneConnection, TypeOK
  <2>2. connections'.count # 0 /\ connections'.negotiated = negotiated
    BY <1>5, <2>1 DEF Establish
  <2>3. deflate_ext'.set => negotiated
    BY <1>5, <2>1 DEF Establish
  <2> QED
    BY <1>5, <2>1, <2>2, <2>3 DEF Establish, EmptyMessage
<1>6. ASSUME Reset PROVE CompressedInv'
  BY <1>6 DEF Reset, Silent, EmptyMessage
<1>7. CASE UNCHANGED vars
  BY <1>7 DEF vars, parse_vars
<1> QED
  BY <1>1, <1>2, <1>3, <1>4, <1>5, <1>6, <1>7 DEF Next

LEMMA CompressedInvariant ==
    ASSUME OneConnection PROVE Spec => []CompressedInv
<1>1. Init => CompressedInv
  BY DEF Init, NoDeflateExt, Silent, EmptyMessage, CompressedInv, ConnectionInv, CompressedOnlyIfNegotiated
<1>2. TypeOK /\ CompressedInv /\ [Next]_vars => CompressedInv'
  BY CompressedStep
<1> QED
  BY <1>1, <1>2, TypeCorrect, PTL DEF Spec

\* On a parser's first connection a message that begins compressed is accepted only if the
\* handshake agreed on permessage-deflate, with any limits (_parse_frame, Error.cc:36). On
\* a later one it is not so: _deflate_ext outlives reset().
THEOREM CompressionAgreed ==
    ASSUME OneConnection PROVE Spec => []CompressedOnlyIfNegotiated
<1>1. CompressedInv => CompressedOnlyIfNegotiated
  BY DEF CompressedInv
<1> QED
  BY <1>1, CompressedInvariant, PTL

-------------------------------------------------------------------------------
(* Text. *)

\* Where the scan stands between frames: outside a code point when no message is in
\* progress; a TEXT message in progress is being scanned, as far as it was accepted.
ScanStands ==
    /\ connections.count = 0 => ~utf8_pending
    /\ Set("ESTABLISHED") /\ ~Set("RECV_CLOSED") /\ frame_count = 0 => ~utf8_pending
    /\ frame_count > 0 /\ fragments[1].op = TEXT => Set("RECV_TEXT")
    /\ fragments # <<>> /\ fragments[1].op = TEXT /\ ~Set("RECV_CLOSED") => ScansTo(fragments, utf8_pending)

\* What was handed over last is UTF-8.
OutText ==
    out.kind = "message" /\ out.error = NoError /\ out.frames[1].op = TEXT => ScansTo(out.frames, FALSE)

TextInv == (cfg.check_utf8 => ScanStands /\ OutText) /\ TextComplete

\* RECV_TEXT, RECV_CLOSED and ESTABLISHED after a frame, by the frame's verdict.
LEMMA TextFlags ==
    ASSUME NEW f \in Frames, NEW e, NEW getter \in {"RECV_FRAME", "RECV_MESSAGE"}
    PROVE  /\ e = NoError /\ IsControl(f.op) /\ Set("RECV_TEXT") => "RECV_TEXT" \in FlagsAfter(getter, f, e)
           /\ e = NoError /\ ~IsControl(f.op) /\ ~f.fin /\ (Set("RECV_TEXT") \/ Scanned(f)) =>
                 "RECV_TEXT" \in FlagsAfter(getter, f, e)
           /\ e = NoError /\ f.op = CLOSE => "RECV_CLOSED" \in FlagsAfter(getter, f, e)
<1>1. CASE e = NoError /\ IsControl(f.op)
  <2>1. Lowered(f, e) \subseteq {"RECV_FRAME"}
    BY <1>1 DEF Lowered
  <2>2. f.op = CLOSE => "RECV_CLOSED" \in Raised(f, e)
    BY <1>1 DEF Raised
  <2> QED
    BY <1>1, <2>1, <2>2 DEF FlagsAfter, Set
<1>2. CASE e = NoError /\ ~IsControl(f.op)
  <2>1. ~f.fin => Lowered(f, e) = {}
    BY <1>2 DEF Lowered
  <2>2. Scanned(f) => "RECV_TEXT" \in Raised(f, e)
    BY <1>2 DEF Raised, IsControl, CLOSE
  <2>3. f.op # CLOSE
    BY <1>2 DEF IsControl, CLOSE
  <2> QED
    BY <1>2, <2>1, <2>2, <2>3 DEF FlagsAfter, Set
<1> QED
  BY <1>1, <1>2

\* A data frame that comes where a TEXT message is, or begins one, is scanned from where
\* its message stands, and read as the message is read.
LEMMA ScannedInPlace ==
    ASSUME TypeOK, CountsAgree, ScanStands, cfg.check_utf8, Set("ESTABLISHED"), ~Set("RECV_CLOSED"),
           NEW f \in Frames, Append(fragments, f)[1].op = TEXT
    PROVE  /\ Scanned(f)
           /\ ScansTo(fragments, utf8_pending)
           /\ PayloadText(f, Inflated(f)) = NextText(fragments, f)
           /\ PendingAfter(f) = TextPending(NextText(fragments, f), utf8_pending)
<1>1. fragments \in Seq(Frames) /\ frame_count = Len(fragments) /\ Len(fragments) \in Nat
      /\ utf8_pending \in BOOLEAN
  BY DEF TypeOK, CountsAgree
<1>2. Append(fragments, f)[1] = IF fragments = <<>> THEN f ELSE fragments[1]
  BY <1>1, AppendFacts
<1>3. Scanned(f) /\ ScansTo(fragments, utf8_pending) /\ (Inflated(f) <=> Append(fragments, f)[1].rsv1)
  <2>1. CASE fragments = <<>>
    <3>1. frame_count = 0 /\ f.op = TEXT /\ utf8_pending = FALSE /\ ~Set("RECV_INFLATE")
      BY <1>1, <1>2, <2>1 DEF ScanStands, CountsAgree
    <3> QED
      BY <1>2, <2>1, <3>1, EmptyScan DEF Scanned, Inflated
  <2>2. CASE fragments # <<>>
    <3>1. frame_count > 0
      BY <1>1, <2>2
    <3>2. fragments[1].op = TEXT /\ (Set("RECV_INFLATE") <=> fragments[1].rsv1)
      BY <1>2, <2>2, <3>1 DEF CountsAgree
    <3>3. Set("RECV_TEXT") /\ ScansTo(fragments, utf8_pending)
      BY <2>2, <3>1, <3>2 DEF ScanStands
    <3> QED
      BY <1>2, <2>2, <3>1, <3>2, <3>3 DEF Scanned, Inflated
  <2> QED
    BY <2>1, <2>2
<1>4. Inflated(f) \in BOOLEAN /\ Append(fragments, f)[1].rsv1 \in BOOLEAN
  <2>1. Append(fragments, f)[1] \in Frames
    BY <1>1, <1>2
  <2>2. Append(fragments, f)[1].rsv1 \in BOOLEAN
    BY <2>1, FrameFields
  <2>3. Inflated(f) \in BOOLEAN
    BY FrameFields DEF Inflated, Set
  <2> QED
    BY <2>2, <2>3
<1>5. Inflated(f) = Append(fragments, f)[1].rsv1
  BY <1>3, <1>4
<1> QED
  BY <1>3, <1>5 DEF NextText, PendingAfter

\* What the verdict says of a scanned frame.
LEMMA VerdictOnText ==
    ASSUME NEW f \in Frames, NEW passed, NEW stale, NEW e, e = Verdict(f, passed, stale), ~IsControl(f.op)
    PROVE  /\ e = NoError /\ Scanned(f) => TextFits(PayloadText(f, Inflated(f)), utf8_pending)
           /\ e = NoError /\ cfg.check_utf8 /\ f.fin => ~PendingAfter(f)
           /\ e = "invalid_utf8" =>
                 /\ cfg.check_utf8
                 /\ \/ Scanned(f) /\ ~TextFits(PayloadText(f, Inflated(f)), utf8_pending)
                    \/ f.fin /\ PendingAfter(f)
<1>1. e = NoError => Utf8Error(f) = NoError
  BY DEF Verdict, ??, NoError
<1>2. e = "invalid_utf8" => Utf8Error(f) = "invalid_utf8"
  <2>1. ParseError(f, passed) # "invalid_utf8"
    BY DEF ParseError, HeaderError, CloseError, Check, ??, NoError
  <2>2. OrderError(f) # "invalid_utf8"
    BY DEF OrderError, Check, ??, NoError
  <2>3. InflateError(f) # "invalid_utf8"
    BY DEF InflateError, Check, ??, NoError
  <2> QED
    BY <2>1, <2>2, <2>3 DEF Verdict, ??
<1>3. Utf8Error(f) = NoError =>
         /\ Scanned(f) => TextFits(PayloadText(f, Inflated(f)), utf8_pending)
         /\ ~(cfg.check_utf8 /\ f.fin /\ PendingAfter(f))
  BY DEF Utf8Error, Check, ??, NoError
<1>4. Utf8Error(f) = "invalid_utf8" =>
         \/ Scanned(f) /\ ~TextFits(PayloadText(f, Inflated(f)), utf8_pending)
         \/ cfg.check_utf8 /\ f.fin /\ PendingAfter(f)
  BY DEF Utf8Error, Check, ??, NoError
<1> QED
  BY <1>1, <1>2, <1>3, <1>4 DEF Scanned
\* A completed frame leaves the scan where it belongs.
LEMMA ParsedText ==
    ASSUME TypeOK, CountsAgree, ConnectionInv, ScanStands, cfg.check_utf8,
           Set("ESTABLISHED"), ~Set("RECV_CLOSED"),
           NEW f \in Frames, NEW passed, NEW stale, NEW e, e = Verdict(f, passed, stale),
           Parsed(f, e, stale), NEW getter \in {"RECV_FRAME", "RECV_MESSAGE"},
           "RECV_TEXT" \in FlagsAfter(getter, f, e) => "RECV_TEXT" \in flags',
           "RECV_CLOSED" \in FlagsAfter(getter, f, e) => "RECV_CLOSED" \in flags'
    PROVE  ScanStands'
<1>1. /\ frame_count' = CountAfter(f, e) /\ fragments' = FragmentsAfter(f, e)
      /\ utf8_pending' = CheckerAfter(f, e, stale) /\ connections' = connections
  BY DEF Parsed
<1>2. connections.count # 0
  BY DEF ConnectionInv, Set
<1>3. fragments \in Seq(Frames) /\ frame_count = Len(fragments) /\ frame_count \in Nat /\ utf8_pending \in BOOLEAN
  BY DEF TypeOK, CountsAgree
<1>4. CASE e # NoError \/ (~IsControl(f.op) /\ f.fin)
  <2>1. frame_count' = 0 /\ fragments' = <<>> /\ utf8_pending' = FALSE
    BY <1>1, <1>4 DEF CountAfter, FragmentsAfter, CheckerAfter
  <2> QED
    BY <2>1 DEF ScanStands
<1>5. CASE e = NoError /\ IsControl(f.op)
  <2>1. frame_count' = frame_count /\ fragments' = fragments
    BY <1>1, <1>5 DEF CountAfter, FragmentsAfter
  <2>2. f.op # CLOSE => (utf8_pending' <=> utf8_pending)
    BY <1>1, <1>5 DEF CheckerAfter
  <2>3. f.op = CLOSE => "RECV_CLOSED" \in flags'
    BY <1>5, TextFlags
  <2>4. Set("RECV_TEXT") => "RECV_TEXT" \in flags'
    BY <1>5, TextFlags
  <2>5. utf8_pending' \in BOOLEAN
    BY <1>1, <1>3, <1>5 DEF CheckerAfter
  <2>6. f.op # CLOSE => utf8_pending' = utf8_pending
    BY <1>3, <2>2, <2>5
  <2> QED
    BY <1>1, <1>2, <2>1, <2>3, <2>4, <2>6 DEF ScanStands, Set
<1>6. CASE e = NoError /\ ~IsControl(f.op) /\ ~f.fin
  <2>1. /\ frame_count' = frame_count + 1 /\ fragments' = Append(fragments, f)
        /\ utf8_pending' = PendingAfter(f)
    BY <1>1, <1>6 DEF CountAfter, FragmentsAfter, CheckerAfter
  <2>2. ASSUME fragments'[1].op = TEXT
        PROVE  "RECV_TEXT" \in flags' /\ ScansTo(fragments', utf8_pending')
    <3>1. /\ Scanned(f) /\ ScansTo(fragments, utf8_pending)
          /\ PayloadText(f, Inflated(f)) = NextText(fragments, f)
          /\ PendingAfter(f) = TextPending(NextText(fragments, f), utf8_pending)
      BY <2>1, <2>2, ScannedInPlace
    <3>2. TextFits(NextText(fragments, f), utf8_pending)
      BY <1>6, <3>1, VerdictOnText
    <3>3. "RECV_TEXT" \in flags'
      BY <1>6, <3>1, TextFlags
    <3> QED
      BY <1>3, <2>1, <3>1, <3>2, <3>3, ScanGoesOn
  <2>3. frame_count' # 0
    BY <1>3, <2>1
  <2> QED
    BY <1>1, <1>2, <2>2, <2>3 DEF ScanStands, Set
<1> QED
  BY <1>4, <1>5, <1>6

\* The last frame of a message that is accepted ends its scan.
LEMMA AcceptedText ==
    ASSUME TypeOK, CountsAgree, ScanStands, cfg.check_utf8, Set("ESTABLISHED"), ~Set("RECV_CLOSED"),
           NEW f \in Frames, NEW passed, NEW stale, Verdict(f, passed, stale) = NoError,
           ~IsControl(f.op), f.fin, Append(fragments, f)[1].op = TEXT
    PROVE  ScansTo(Append(fragments, f), FALSE)
<1>1. fragments \in Seq(Frames) /\ utf8_pending \in BOOLEAN
  BY DEF TypeOK
<1>2. /\ Scanned(f) /\ ScansTo(fragments, utf8_pending)
      /\ PayloadText(f, Inflated(f)) = NextText(fragments, f)
      /\ PendingAfter(f) = TextPending(NextText(fragments, f), utf8_pending)
  BY ScannedInPlace
<1>3. TextFits(NextText(fragments, f), utf8_pending) /\ ~PendingAfter(f)
  BY <1>2, VerdictOnText
<1>4. TextPending(NextText(fragments, f), utf8_pending) = FALSE
  BY <1>1, <1>2, <1>3, PendingType
<1> QED
  BY <1>1, <1>2, <1>3, <1>4, ScanGoesOn

\* A frame that is refused as text could not go on from those before it.
LEMMA RefusedText ==
    ASSUME TypeOK, CountsAgree, cfg.check_utf8 => ScanStands, Set("ESTABLISHED"), ~Set("RECV_CLOSED"),
           NEW f \in Frames, NEW passed, NEW stale, Verdict(f, passed, stale) = "invalid_utf8",
           ~IsControl(f.op), Append(fragments, f)[1].op = TEXT,
           NEW pending \in BOOLEAN, ScansTo(Append(fragments, f), pending)
    PROVE  pending /\ f.fin
<1>1. fragments \in Seq(Frames) /\ utf8_pending \in BOOLEAN
  BY DEF TypeOK
<1>2. /\ cfg.check_utf8
      /\ \/ Scanned(f) /\ ~TextFits(PayloadText(f, Inflated(f)), utf8_pending)
         \/ f.fin /\ PendingAfter(f)
  BY VerdictOnText
<1>3. /\ ScansTo(fragments, utf8_pending)
      /\ PayloadText(f, Inflated(f)) = NextText(fragments, f)
      /\ PendingAfter(f) = TextPending(NextText(fragments, f), utf8_pending)
  BY <1>2, ScannedInPlace
<1>4. PICK q \in BOOLEAN : /\ ScansTo(fragments, q)
                           /\ TextFits(NextText(fragments, f), q)
                           /\ pending = TextPending(NextText(fragments, f), q)
  BY <1>1, ScanCameFrom
<1>5. q = utf8_pending
  BY <1>1, <1>3, <1>4, OneScan
<1> QED
  BY <1>2, <1>3, <1>4, <1>5

\* A step that hands over no TEXT message disturbs nothing that was said of one.
LEMMA OutStays ==
    ASSUME out' = out \/ out'.kind # "message" \/ out'.frames[1].op # TEXT
    PROVE  (OutText => OutText') /\ (TextComplete => TextComplete')
<1>1. CASE out' = out
  <2>1. OutText => OutText'
    BY <1>1, Zenon DEF OutText
  <2>2. TextComplete => TextComplete'
    BY <1>1, Zenon DEF TextComplete
  <2> QED
    BY <2>1, <2>2
<1>2. CASE out'.kind # "message" \/ out'.frames[1].op # TEXT
  <2>1. OutText'
    BY <1>2, Zenon DEF OutText
  <2>2. TextComplete'
    BY <1>2, Zenon DEF TextComplete
  <2> QED
    BY <2>1, <2>2
<1> QED
  BY <1>1, <1>2

LEMMA FrameStepText ==
    ASSUME TypeOK, CountsAgree, ConnectionInv, TextInv, NEW chunk \in Arrivals, FrameStep(chunk)
    PROVE  TextInv'
<1>1. CASE FramePrefix(chunk)
  BY <1>1 DEF FramePrefix, Silent, config_vars, TextInv, ScanStands, OutText, TextComplete, Set
<1>2. CASE FrameDone(chunk)
  <2> DEFINE f == Head(Fed(chunk)).frame
             w == Passed(Head(Fed(chunk)), frame)
             e == Verdict(f, w, "empty")
  <2>1. f \in Frames /\ Set("ESTABLISHED") /\ ~Set("RECV_CLOSED")
    BY <1>2, HeadType DEF FrameDone, MayGetFrame
  <2>2. /\ Parsed(f, e, "empty") /\ flags' = FlagsAfter("RECV_FRAME", f, e) /\ out'.kind = "frame"
    BY <1>2 DEF FrameDone
  <2>3. e = Verdict(f, w, "empty")
    OBVIOUS
  <2> HIDE DEF f, w, e
  <2>4. cfg.check_utf8 => ScanStands'
    BY <2>1, <2>2, <2>3, ParsedText DEF TextInv
  <2>5. cfg' = cfg
    BY <2>2 DEF Parsed, config_vars
  <2> QED
    BY <2>2, <2>4, <2>5 DEF TextInv, OutText, TextComplete
<1> QED
  BY <1>1, <1>2 DEF FrameStep

LEMMA MessageStepText ==
    ASSUME TypeOK, ModesAgree, HalvesInv, CountsInv, ConnectionInv, TextInv, NoMessageLimit,
           NEW chunk \in Arrivals, MessageStep(chunk)
    PROVE  TextInv'
<1> DEFINE f == MessageFrame(chunk)
           w == Passed(Head(Fed(chunk)), message_frame)
           e == MessageVerdict(chunk)
<1>1. CASE MessagePrefix(chunk)
  BY <1>1 DEF MessagePrefix, Silent, config_vars, TextInv, ScanStands, OutText, TextComplete, Set
<1>2. ASSUME MessageFrameDone(chunk, e),
             "RECV_TEXT" \in FlagsAfter("RECV_MESSAGE", f, e) => "RECV_TEXT" \in flags',
             "RECV_CLOSED" \in FlagsAfter("RECV_MESSAGE", f, e) => "RECV_CLOSED" \in flags'
      PROVE  /\ f \in Frames /\ Set("ESTABLISHED") /\ ~Set("RECV_CLOSED")
             /\ e = Verdict(f, w, close_message)
             /\ message.frames = fragments /\ fragments \in Seq(Frames)
             /\ cfg.check_utf8 => ScanStands'
             /\ cfg' = cfg
  <2>1. /\ f \in Frames /\ Parsed(f, e, close_message)
        /\ Set("ESTABLISHED") /\ ~Set("RECV_CLOSED") /\ MayGetMessage(chunk)
    BY <1>2, HeadType DEF MessageFrameDone, MayGetMessage, MessageFrame
  <2>2. e = Verdict(f, w, close_message)
    BY DEF MessageVerdict, MessageFrame
  <2>3. message.frames = fragments /\ fragments \in Seq(Frames)
    BY <2>1, Gathered DEF CountsInv, TypeOK
  <2> HIDE DEF f, w, e
  <2>4. cfg.check_utf8 => ScanStands'
    BY <1>2, <2>1, <2>2, ParsedText DEF TextInv, CountsInv
  <2>5. cfg' = cfg
    BY <2>1 DEF Parsed, config_vars
  <2> QED
    BY <2>1, <2>2, <2>3, <2>4, <2>5
<1>3. CASE MessageControl(chunk)
  <2>1. /\ MessageFrameDone(chunk, e) /\ flags' = FlagsAfter("RECV_MESSAGE", f, e)
        /\ IsControl(f.op) /\ out'.frames = <<f>>
    BY <1>3 DEF MessageControl, PassesThrough
  <2>2. f.op # TEXT
    BY <2>1 DEF IsControl, CLOSE, TEXT
  <2> HIDE DEF f, w, e
  <2>3. out'.frames[1].op # TEXT
    BY <2>1, <2>2
  <2> QED
    BY <1>2, <2>1, <2>3, OutStays DEF TextInv
<1>4. CASE MessageGoesOn(chunk)
  <2>1. /\ MessageFrameDone(chunk, e) /\ flags' = FlagsAfter("RECV_MESSAGE", f, e)
        /\ (out' = out \/ out' = Silent)
    BY <1>4 DEF MessageGoesOn
  <2> HIDE DEF f, w, e
  <2> QED
    BY <1>2, <2>1, OutStays DEF Silent, TextInv
<1>5. CASE MessageDone(chunk)
  <2>1. /\ MessageFrameDone(chunk, e) /\ ~PassesThrough(f, e)
        /\ flags' = FlagsAfter("RECV_MESSAGE", f, e) \ {"RECV_MESSAGE", "RECV_INFLATE"}
        /\ out'.frames = Append(message.frames, f)
    BY <1>5 DEF MessageDone
  <2>2. out'.error = e /\ (e = NoError => f.fin)
    <3>1. ~TooLong(message.length, f)
      BY DEF TooLong, NoMessageLimit, TypeOK
    <3> QED
      BY <1>5, <3>1 DEF MessageDone, Check, ??
  <2>3. /\ f \in Frames /\ Set("ESTABLISHED") /\ ~Set("RECV_CLOSED")
        /\ e = Verdict(f, w, close_message)
        /\ out'.frames = Append(fragments, f) /\ fragments \in Seq(Frames)
        /\ cfg.check_utf8 => ScanStands'
        /\ cfg' = cfg
    <3> HIDE DEF f, w, e
    <3> QED
      BY <1>2, <2>1
  <2>4. e = NoError /\ IsControl(f.op) => out'.frames = <<f>>
    <3>1. e = NoError /\ IsControl(f.op) => message.frames = <<>>
      BY <2>1 DEF PassesThrough
    <3>2. \A g \in Frames : Append(<<>>, g) = <<g>>
      OBVIOUS
    <3>3. f \in Frames
      BY <2>3
    <3> HIDE DEF f, w, e
    <3> QED
      BY <2>1, <3>1, <3>2, <3>3
  <2> HIDE DEF f, w, e
  <2>5. cfg.check_utf8 => OutText'
    <3>1. SUFFICES ASSUME cfg.check_utf8, e = NoError, out'.frames[1].op = TEXT
                   PROVE  ScansTo(out'.frames, FALSE)
      BY <2>2 DEF OutText
    <3>2. ~IsControl(f.op)
      BY <2>4, <3>1 DEF IsControl, CLOSE, TEXT
    <3> QED
      BY <2>2, <2>3, <3>1, <3>2, AcceptedText DEF TextInv, CountsInv
  <2>6. TextComplete'
    <3>1. out'.frames[Len(out'.frames)] = f
      BY <2>3, AppendFacts
    <3>2. SUFFICES ASSUME e = "invalid_utf8", out'.frames[1].op = TEXT, ~IsControl(f.op),
                          NEW pending \in BOOLEAN, ScansTo(out'.frames, pending)
                   PROVE  pending /\ f.fin
      BY <2>2, <3>1 DEF TextComplete
    <3> QED
      BY <2>3, <3>2, RefusedText DEF TextInv, CountsInv
  <2> QED
    BY <2>3, <2>5, <2>6 DEF TextInv
<1> QED
  BY <1>1, <1>3, <1>4, <1>5 DEF MessageStep

LEMMA TextStep ==
    ASSUME TypeOK, ModesAgree, HalvesInv, CountsInv, ConnectionInv, TextInv,
           NoMessageLimit, OneConnection, OneCheck, [Next]_vars
    PROVE  TextInv'
<1>1. ASSUME NEW chunk, Refused(chunk) \/ ReturnsNothing(chunk) PROVE TextInv'
  <2>1. /\ out'.kind # "message"
        /\ UNCHANGED <<cfg, connections, utf8_pending, flags, frame_count, fragments>>
    BY <1>1 DEF Refused, ReturnsNothing, Refusal, Silent, parse_vars, config_vars
  <2> QED
    BY <2>1, OutStays DEF TextInv, ScanStands, Set
<1>2. ASSUME NEW chunk \in Arrivals, FrameStep(chunk) \/ MessageStep(chunk) PROVE TextInv'
  BY <1>2, FrameStepText, MessageStepText DEF CountsInv
<1>3. ASSUME NEW c \in Configs, Configure(c) PROVE TextInv'
  <2>1. cfg'.check_utf8 = cfg.check_utf8
    BY <1>3 DEF Configure, OneCheck, TypeOK
  <2> QED
    BY <1>3, <2>1 DEF Configure, parse_vars, TextInv, ScanStands, OutText, TextComplete, Set
<1>4. ASSUME NoDeflateCall PROVE TextInv'
  BY <1>4 DEF NoDeflateCall, parse_vars, TextInv, ScanStands, OutText, TextComplete, Set
<1>5. ASSUME NEW negotiated, NEW chunk, Establish(negotiated, chunk) PROVE TextInv'
  <2>1. connections.count = 0
    BY <1>5, BoundsAssumption DEF Establish, OneConnection, TypeOK
  <2>2. fragments = <<>> /\ frame_count = 0 /\ connections'.count # 0
    BY <1>5, <2>1 DEF Establish, ConnectionInv
  <2>3. UNCHANGED <<cfg, utf8_pending, fragments, frame_count, out>>
    BY <1>5 DEF Establish, config_vars
  <2> QED
    BY <2>1, <2>2, <2>3, OutStays DEF TextInv, ScanStands
<1>6. ASSUME Reset PROVE TextInv'
  <2>1. /\ out'.kind # "message" /\ flags' = {} /\ frame_count' = 0 /\ fragments' = <<>>
        /\ UNCHANGED <<cfg, connections, utf8_pending>>
    BY <1>6 DEF Reset, Silent, config_vars
  <2>2. ScanStands => ScanStands'
    BY <2>1 DEF ScanStands, Set
  <2> QED
    BY <2>1, <2>2, OutStays DEF TextInv
<1>7. CASE UNCHANGED vars
  BY <1>7 DEF vars, parse_vars, config_vars, TextInv, ScanStands, OutText, TextComplete, Set
<1> QED
  BY <1>1, <1>2, <1>3, <1>4, <1>5, <1>6, <1>7 DEF Next

LEMMA TextInvariant ==
    ASSUME NoMessageLimit, OneConnection, OneCheck PROVE Spec => []TextInv
<1>1. Init => TextInv
  BY DEF Init, Silent, TextInv, ScanStands, OutText, TextComplete, Set
<1>2. CompressedInv => ConnectionInv
  BY DEF CompressedInv
<1>3. TypeOK /\ ModesAgree /\ HalvesInv /\ CountsInv /\ ConnectionInv /\ TextInv /\ [Next]_vars => TextInv'
  BY TextStep
<1> QED
  BY <1>1, <1>2, <1>3, CompressedInvariant, CountsInvariant, HalvesInvariant, TypeCorrect, ModesCorrect,
     PTL DEF Spec

\* With check_utf8, a TEXT message that is handed over is UTF-8 as a whole, wherever it was
\* cut and whatever came between its frames, and of one in progress nothing was accepted
\* that is not (_parse_frame, Utf8Checker).
THEOREM TextIsSound ==
    ASSUME NoMessageLimit, OneConnection, OneCheck PROVE Spec => []TextSound
<1>1. TextInv => TextSound
  BY DEF TextInv, ScanStands, OutText, TextSound
<1> QED
  BY <1>1, TextInvariant, PTL

\* A TEXT message is turned down as text only at a frame that cannot go on from those before
\* it, or that ends it inside a code point (tests/parse/utf8.cc:26-37).
THEOREM TextIsComplete ==
    ASSUME NoMessageLimit, OneConnection, OneCheck PROVE Spec => []TextComplete
<1>1. TextInv => TextComplete
  BY DEF TextInv
<1> QED
  BY <1>1, TextInvariant, PTL
===============================================================================
