--------------------------- MODULE ConversationProofs ---------------------------
(***************************************************************************)
(* Theorems about two parsers of the library that talk to each other, for  *)
(* all settings of the two ends, all calls and any number of connections.  *)
(***************************************************************************)
EXTENDS Conversation, Induction, TLAPS

-------------------------------------------------------------------------------
(* What the theorems ask of the settings.                                  *)

\* No server asks of itself what only an offer can ask for (with client_no_context_takeover
\* set on the server alone its reader is reset and the writer is not told), and
\* none has a window larger than zlib has.
ServersFit == \A s \in ServerConfigs : ~s.client_no_takeover /\ s.server_bits <= 15

\* An offer the client's user writes is one for the settings the client then has.
OffersFit ==
    \A offers \in OwnOffers : \A i \in 1 .. Len(offers) :
        /\ ServerWindow \in DOMAIN offers[i] => offers[i][ServerWindow] = Default.server_bits
        /\ ClientWindow \in DOMAIN offers[i]
        /\ offers[i][ClientWindow] \in {NoValue, Default.client_bits}

-------------------------------------------------------------------------------
(* The negotiation.                                                        *)

\* select succeeds with an offer that is correct, and with the settings it makes.
LEMMA Selected ==
    ASSUME NEW offers, Len(offers) \in Nat, NEW own, NEW role,
           Select(offers, own, role).result = "success"
    PROVE  \E i \in 1 .. Len(offers) :
              /\ Correct(offers[i], own, role)
              /\ Select(offers, own, role) =
                    [result |-> "success", params |-> offers[i], cfg |-> Effective(offers[i], own)]
<1> DEFINE fits == {i \in 1 .. Len(offers) : Correct(offers[i], own, role)}
           P(j) == \A k \in fits : j <= k
           i == CHOOSE j \in fits : P(j)
<1>1. /\ Select(offers, own, role) = [result |-> "success", params |-> offers[i], cfg |-> Effective(offers[i], own)]
      /\ fits # {}
  BY DEF Select, NotFound, Failed
<1>2. i \in fits
  <2>1. fits \in SUBSET Nat
    OBVIOUS
  <2>2. \E j \in fits : P(j)
    BY <1>1, <2>1, LeastNatural
  <2> HIDE DEF fits, P
  <2> QED BY <2>2
<1>3. i \in 1 .. Len(offers) /\ Correct(offers[i], own, role)
  BY <1>2
<1> HIDE DEF i
<1> QED BY <1>1, <1>3

\* select on the client, for the one answer a server gives.
LEMMA OneAnswer ==
    ASSUME NEW a, NEW own, Correct(a, own, "client")
    PROVE  Select(<<a>>, own, "client") = [result |-> "success", params |-> a, cfg |-> Effective(a, own)]
<1> DEFINE fits == {i \in 1 .. Len(<<a>>) : Correct(<<a>>[i], own, "client")}
           i == CHOOSE j \in fits : \A k \in fits : j <= k
<1>1. fits = {1}
  <2>1. Len(<<a>>) = 1 /\ <<a>>[1] = a
    OBVIOUS
  <2>2. 1 .. 1 = {1}
    OBVIOUS
  <2>3. fits = {j \in {1} : Correct(<<a>>[j], own, "client")}
    BY <2>1, <2>2, Zenon
  <2> QED BY <2>1, <2>3
<1>2. i = 1
  <2>1. \A j \in {1} : j <= j
    OBVIOUS
  <2> HIDE DEF fits
  <2> QED BY <1>1, <2>1
<1>3. <<a>> # <<>> /\ <<a>>[1] = a
  OBVIOUS
<1>4. Select(<<a>>, own, "client") =
         [result |-> "success", params |-> <<a>>[i], cfg |-> Effective(<<a>>[i], own)]
  <2> HIDE DEF i
  <2> QED BY <1>1, <1>3 DEF Select, i
<1> QED BY <1>2, <1>3, <1>4

\* What an offer must be for the client's settings, so that the client can take its answer.
Offered(p, c, s) ==
    /\ ServerWindow \in DOMAIN p => p[ServerWindow] = c.server_bits
    /\ ServerWindow \notin DOMAIN p => s.server_bits <= c.server_bits
    /\ ClientWindow \in DOMAIN p
    /\ p[ClientWindow] = c.client_bits \/ (p[ClientWindow] = NoValue /\ c.client_bits = 15)
    /\ c.server_no_takeover => ServerNoTakeover \in DOMAIN p

\* The settings in effect at the two ends (DealAgrees).
SettingsAgree(c, s) ==
    /\ s.client_no_takeover => c.client_no_takeover
    /\ c.server_no_takeover => s.server_no_takeover
    /\ c.client_bits <= s.client_bits
    /\ s.server_bits <= c.server_bits

\* The answer is one for the offer: the client takes it, and is then in step with the server.
LEMMA AnswerTaken ==
    ASSUME NEW c \in DeflateConfig, NEW s \in DeflateConfig, ~s.client_no_takeover,
           NEW p, Offered(p, c, s), Correct(p, s, "server"), NEW selected,
           selected = [result |-> "success", params |-> p, cfg |-> Effective(p, s)]
    PROVE  /\ Correct(Answer(selected), c, "client")
           /\ SettingsAgree(Effective(Answer(selected), c), Effective(p, s))
<1> DEFINE a == Answer(selected)
           e == Effective(p, s)
<1>1. /\ DOMAIN a = DOMAIN p
      /\ ServerWindow \in DOMAIN p => a[ServerWindow] = e.server_bits
      /\ ClientWindow \in DOMAIN p => a[ClientWindow] = e.client_bits
  BY DEF Answer, ServerWindow, ClientWindow
<1>2. \A n \in DOMAIN p : n \in {ServerNoTakeover, ClientNoTakeover, ServerWindow, ClientWindow}
  BY DEF Correct, ParamCorrect
<1>3. /\ ServerWindow \in DOMAIN p => p[ServerWindow] \in 9 .. 15
      /\ p[ClientWindow] = NoValue \/ p[ClientWindow] \in 9 .. 15
  BY DEF Correct, ParamCorrect, BitsMatch, ValidBits, ServerWindow, ClientWindow, ServerNoTakeover,
         ClientNoTakeover, Offered
<1>4. /\ e.server_no_takeover = (s.server_no_takeover \/ ServerNoTakeover \in DOMAIN p)
      /\ e.client_no_takeover = (s.client_no_takeover \/ ClientNoTakeover \in DOMAIN p)
      /\ e.server_bits = IF ServerWindow \in DOMAIN p THEN p[ServerWindow] ELSE s.server_bits
      /\ e.client_bits = IF p[ClientWindow] = NoValue THEN 15 ELSE p[ClientWindow]
  BY DEF Effective, Offered
<1>5. e.client_bits = c.client_bits /\ e.client_bits \in 9 .. 15
  <2>1. c.client_bits # NoValue
    BY DEF NoValue, DeflateConfig
  <2>2. 15 \in 9 .. 15
    OBVIOUS
  <2> QED BY <1>3, <1>4, <2>1, <2>2 DEF Offered
<1>6. ServerWindow \in DOMAIN p => e.server_bits = c.server_bits /\ e.server_bits \in 9 .. 15
  BY <1>3, <1>4 DEF Offered
<1> DEFINE f == Effective(a, c)
<1>7. /\ f.server_no_takeover = (c.server_no_takeover \/ ServerNoTakeover \in DOMAIN p)
      /\ f.client_no_takeover = (c.client_no_takeover \/ ClientNoTakeover \in DOMAIN p)
      /\ f.server_bits = IF ServerWindow \in DOMAIN p THEN e.server_bits ELSE c.server_bits
      /\ f.client_bits = IF e.client_bits = NoValue THEN 15 ELSE e.client_bits
  BY <1>1 DEF Effective, Offered
<1> HIDE DEF a, e, f
<1>8. NoValue \notin 9 .. 15
  BY DEF NoValue
<1>9. Correct(a, c, "client")
  <2> SUFFICES ASSUME NEW n \in DOMAIN p PROVE ParamCorrect(n, a[n], c, "client")
    BY <1>1 DEF Correct
  <2>1. CASE n \in {ServerNoTakeover, ClientNoTakeover}
    BY <2>1 DEF ParamCorrect, ServerWindow, ClientWindow, ServerNoTakeover, ClientNoTakeover
  <2>2. CASE n = ServerWindow
    <3>1. BitsMatch(a[n], c.server_bits, "client") => ParamCorrect(n, a[n], c, "client")
      BY <2>2 DEF ParamCorrect, ServerWindow, ClientWindow, ServerNoTakeover, ClientNoTakeover
    <3>2. BitsMatch(a[n], c.server_bits, "client")
      BY <1>1, <1>6, <2>2, Zenon DEF BitsMatch, ValidBits
    <3> QED BY <3>1, <3>2
  <2>3. CASE n = ClientWindow
    <3>1. a[n] # NoValue /\ BitsMatch(a[n], c.client_bits, "client") =>
               ParamCorrect(n, a[n], c, "client")
      BY <2>3 DEF ParamCorrect, ServerWindow, ClientWindow, ServerNoTakeover, ClientNoTakeover
    <3>2. a[n] # NoValue /\ BitsMatch(a[n], c.client_bits, "client")
      BY <1>1, <1>5, <1>8, <2>3, Zenon DEF BitsMatch, ValidBits
    <3> QED BY <3>1, <3>2
  <2> QED BY <1>2, <2>1, <2>2, <2>3
<1>10. SettingsAgree(f, e)
  <2>1. f.client_bits <= e.client_bits
    <3>1. \A k \in 9 .. 15 : k <= k
      OBVIOUS
    <3> QED BY <1>5, <1>7, <1>8, <3>1
  <2>2. e.server_bits <= f.server_bits
    <3>1. \A k \in 9 .. 15 : k <= k
      OBVIOUS
    <3> QED BY <1>4, <1>6, <1>7, <3>1 DEF Offered
  <2>3. e.client_no_takeover => f.client_no_takeover
    BY <1>4, <1>7
  <2>4. f.server_no_takeover => e.server_no_takeover
    BY <1>4, <1>7 DEF Offered
  <2> QED BY <2>1, <2>2, <2>3, <2>4 DEF SettingsAgree
<1> QED BY <1>9, <1>10 DEF a, e, f

\* What DealAgrees says of the outcomes of a handshake.
Agrees(outcome) ==
    /\ outcome["client"].result = outcome["server"].result
    /\ outcome["client"].result = "success" => SettingsAgree(outcome["client"].cfg, outcome["server"].cfg)

\* Two parsers of the library, and an offer for the client's settings.
LEMMA HandshakeAgrees ==
    ASSUME NEW c \in DeflateConfig, NEW s \in DeflateConfig, ~s.client_no_takeover,
           NEW offers, Len(offers) \in Nat, offers # <<>> => c.on,
           \A i \in 1 .. Len(offers) : Offered(offers[i], c, s)
    PROVE  Agrees(Handshake(offers, c, s))
<1> DEFINE selected == ServerSelects(offers, s)
           taken == ClientSelects(ServerAnswers(selected), c)
<1>1. Handshake(offers, c, s) = [server |-> selected, client |-> taken]
  BY DEF Handshake
<1>2. CASE selected.result # "success"
  <2>1. ServerAnswers(selected) = <<>>
    BY <1>2 DEF ServerAnswers
  <2>2. taken = NotFound
    BY <2>1 DEF ClientSelects, Select
  <2>3. selected = NotFound
    BY <1>2 DEF ServerSelects, Select
  <2> HIDE DEF selected, taken
  <2> QED BY <1>1, <2>2, <2>3 DEF Agrees, NotFound
<1>3. CASE selected.result = "success"
  <2>1. s.on /\ selected = Select(offers, s, "server")
    BY <1>3 DEF ServerSelects, NotFound
  <2>2. PICK i \in 1 .. Len(offers) :
           /\ Correct(offers[i], s, "server")
           /\ selected = [result |-> "success", params |-> offers[i], cfg |-> Effective(offers[i], s)]
    BY <1>3, <2>1, Selected
  <2> DEFINE p == offers[i]
             a == Answer(selected)
  <2>3. ServerAnswers(selected) = <<a>>
    BY <1>3 DEF ServerAnswers
  <2> HIDE DEF selected
  <2>4. Correct(a, c, "client") /\ SettingsAgree(Effective(a, c), Effective(p, s))
    BY <2>2, AnswerTaken
  <2>5. Select(<<a>>, c, "client") = [result |-> "success", params |-> a, cfg |-> Effective(a, c)]
    BY <2>4, OneAnswer
  <2>6. offers # <<>>
    BY <2>1, <1>3 DEF Select, NotFound
  <2>7. taken = [result |-> "success", params |-> a, cfg |-> Effective(a, c)]
    BY <2>3, <2>5, <2>6 DEF ClientSelects
  <2> HIDE DEF p, a, taken
  <2> QED BY <1>1, <2>2, <2>4, <2>7 DEF Agrees, p
<1> QED BY <1>2, <1>3

\* The client's own offer is one for its settings.
LEMMA RequestOffered ==
    ASSUME NEW c \in DeflateConfig, NEW s
    PROVE  Offered(Request(c), c, s)
<1>1. /\ ServerWindow \in DOMAIN Request(c) /\ Request(c)[ServerWindow] = c.server_bits
      /\ ClientWindow \in DOMAIN Request(c) /\ Request(c)[ClientWindow] = c.client_bits
      /\ c.server_no_takeover => ServerNoTakeover \in DOMAIN Request(c)
  BY DEF Request, ServerWindow, ClientWindow
<1> QED BY <1>1 DEF Offered

LEMMA InitAgrees == ServersFit /\ OffersFit /\ Init => Agrees(deal)
<1> SUFFICES ASSUME ServersFit, OffersFit, Init PROVE Agrees(deal)
  OBVIOUS
<1>1. PICK c \in ClientConfigs, s \in ServerConfigs :
         \/ deal = Handshake(ClientOffers(c), c, s)
         \/ c = Default /\ \E offers \in OwnOffers : deal = Handshake(offers, c, s)
  BY DEF Init
<1>2. c \in DeflateConfig /\ s \in DeflateConfig /\ ~s.client_no_takeover /\ s.server_bits <= 15
  BY ConfigsAssumption DEF ServersFit
<1>3. ASSUME deal = Handshake(ClientOffers(c), c, s) PROVE Agrees(deal)
  <2>1. CASE c.on
    <3>1. ClientOffers(c) = <<Request(c)>>
      BY <2>1 DEF ClientOffers
    <3>2. Len(<<Request(c)>>) = 1 /\ <<Request(c)>>[1] = Request(c)
      OBVIOUS
    <3>3. \A i \in 1 .. 1 : i = 1
      OBVIOUS
    <3>4. \A i \in 1 .. Len(ClientOffers(c)) : Offered(ClientOffers(c)[i], c, s)
      BY <1>2, <3>1, <3>2, <3>3, RequestOffered, Zenon
    <3>5. Len(ClientOffers(c)) \in Nat
      BY <3>1, <3>2
    <3> QED BY <1>2, <1>3, <2>1, <3>4, <3>5, HandshakeAgrees, Zenon
  <2>2. CASE ~c.on
    <3>1. ClientOffers(c) = <<>>
      BY <2>2 DEF ClientOffers
    <3>2. Len(<<>>) \in Nat /\ \A i \in 1 .. Len(<<>>) : Offered(<<>>[i], c, s)
      OBVIOUS
    <3> QED BY <1>2, <1>3, <3>1, <3>2, HandshakeAgrees, Zenon
  <2> QED BY <2>1, <2>2
<1>4. ASSUME c = Default, NEW offers \in OwnOffers, deal = Handshake(offers, c, s) PROVE Agrees(deal)
  <2>1. c.on /\ c.server_bits = 15 /\ c.client_bits = 15 /\ ~c.server_no_takeover
    BY <1>4 DEF Default
  <2>2. ASSUME NEW i \in 1 .. Len(offers) PROVE Offered(offers[i], c, s)
    BY <1>2, <1>4, <2>1, <2>2 DEF OffersFit, Offered
  <2> QED BY <1>2, <1>4, <2>1, <2>2, OffersAssumption, HandshakeAgrees, Zenon
<1> QED BY <1>1, <1>3, <1>4

\* Whatever the two ends are set to, within ServersFit and OffersFit, they draw the same
\* conclusion from the offer and the answer: both compress or neither, no reader is reset
\* behind its writer's back and no window of a reader is smaller than its writer's, in every
\* state of every conversation (DeflateExt::select, uplift and the constructor).
THEOREM DealCorrect == ASSUME ServersFit, OffersFit PROVE Spec => []DealAgrees
<1>1. Init => Agrees(deal)
  BY InitAgrees
<1>2. Agrees(deal) /\ [Next]_vars => Agrees(deal)'
  <2>1. [Next]_vars => UNCHANGED deal
    BY DEF Next, Connect, Say, Hear, Reconnect, vars
  <2> QED BY <2>1 DEF Agrees, SettingsAgree
<1>3. Agrees(deal) => DealAgrees
  BY DEF Agrees, SettingsAgree, DealAgrees, ResetAfterRx, ResetAfterTx
<1> QED BY <1>1, <1>2, <1>3, PTL DEF Spec

-------------------------------------------------------------------------------
(* What a conversation is about: the receiver's view of it. Between the    *)
(* two ends there is a view behind each frame on the wire.                 *)

\* What the user of the sender must keep to: a compressed message is not ended by a bare
\* frame, nothing is reset in the middle of a message, codes and control payloads are
\* such as the protocol knows.
TalkFits ==
    /\ Masks \in BOOLEAN /\ BareCompressed = FALSE /\ InterruptedReset = FALSE
    /\ ControlLengths \subseteq Nat
    /\ Codes \subseteq Nat /\ \A code \in Codes : ~IsSendingForbidden(code)
    /\ StartOpcodes \cap {PING, PONG} # {} =>
          /\ Payloads \subseteq 0 .. MAX_CONTROL_PAYLOAD
          /\ CompressedPayloads \subseteq 0 .. MAX_CONTROL_PAYLOAD - 1

ItemType == [frame: FrameType, compressed: BOOLEAN, context: Seq(Nat)]
MessageType == [op: Opcodes, sizes: Seq(Nat)]

\* op, deflated and sizes are those of the message in progress, if there is one.
ViewType == [op: Opcodes, deflated: BOOLEAN, sizes: Seq(Nat), window: Seq(Nat),
             closed: BOOLEAN, heard: Seq(MessageType)]

Deflated(v, f) == IF v.sizes = <<>> THEN f.rsv1 ELSE v.deflated
Opcode(v, f)   == IF v.sizes = <<>> THEN f.op ELSE v.op

ControlFits(f) ==
    /\ f.fin /\ ~f.rsv1 /\ f.len <= MAX_CONTROL_PAYLOAD
    /\ IF f.op = CLOSE
       THEN \/ f.len = 0 /\ f.size = 0
            \/ f.len >= 2 /\ f.size = f.len - 2 /\ ~IsSendingForbidden(f.code)
       ELSE f.size = f.len

DataFits(v, item, has) ==
    LET f == item.frame IN
    /\ f.op = CONTINUE <=> v.sizes # <<>>
    /\ f.rsv1 => has /\ f.op # CONTINUE
    /\ IF ~Deflated(v, f)  THEN f.size = f.len
       ELSE IF f.len = 0 THEN f.size = 0 /\ ~f.fin
       ELSE item.compressed /\ IsSuffix(item.context, v.window)

\* The receiver will take this for the next frame; has: it has the extension.
Follows(v, item, has) ==
    LET f == item.frame IN
    /\ ~v.closed
    /\ f.op \in {CONTINUE, TEXT, BINARY, CLOSE, PING, PONG}
    /\ f.masked = Masks /\ ~f.rsv23 /\ ~f.corrupt
    /\ IF IsControl(f.op) THEN ControlFits(f) ELSE DataFits(v, item, has)

WindowAfter(v, f, reset) ==
    IF ~Deflated(v, f)      THEN v.window
    ELSE IF f.fin /\ reset  THEN <<>>
    ELSE IF f.size > 0      THEN Append(v.window, f.size)
    ELSE v.window

AfterControl(v, f) ==
    [v EXCEPT !.closed = (f.op = CLOSE), !.heard = Append(@, Message(f.op, <<f.size>>))]

AfterData(v, f, reset) ==
    LET sizes == Append(v.sizes, f.size) IN
    [op       |-> IF f.fin THEN CONTINUE ELSE Opcode(v, f),
     deflated |-> ~f.fin /\ Deflated(v, f),
     sizes    |-> IF f.fin THEN <<>> ELSE sizes,
     window   |-> WindowAfter(v, f, reset),
     closed   |-> v.closed,
     heard    |-> IF f.fin THEN Append(v.heard, Message(Opcode(v, f), sizes)) ELSE v.heard]

\* What comes of it; reset: the receiver starts every message with an empty window.
After(v, f, reset) == IF IsControl(f.op) THEN AfterControl(v, f) ELSE AfterData(v, f, reset)

\* The views from the first frame of a wire to behind the last.
Line(views, w, has, reset) ==
    /\ \A i \in 0 .. Len(w) : views[i] \in ViewType
    /\ \A i \in 1 .. Len(w) : /\ Follows(views[i - 1], w[i], has)
                              /\ views[i] = After(views[i - 1], w[i].frame, reset)

-------------------------------------------------------------------------------
(* The inductive invariant.                                                *)

\* The receiver stands at v.
Listening(v) ==
    LET frames == message.frames IN
    /\ v.sizes = [i \in 1 .. Len(frames) |-> PayloadSize(frames[i], v.deflated)]
    /\ frames = <<>> => ~v.deflated
    /\ frames # <<>> => v.op = frames[1].op /\ v.deflated = frames[1].rsv1
    /\ v.deflated <=> "RECV_INFLATE" \in flags
    /\ frame_count = Len(frames)
    /\ v.window = rx.window
    /\ v.closed <=> "RECV_CLOSED" \in flags
    /\ v.heard = heard

\* The sender stands at v, unless it failed.
Speaking(v) ==
    /\ v.sizes = saying
    /\ v.closed <=> Sends("SEND_CLOSED")
    /\ sent_frame_count = 0 <=> saying = <<>>
    /\ \/ IsSuffix(tx.window, v.window)
       \/ IsControl(send_opcode) /\ (Sends("SEND_FRAME") \/ Sends("SEND_CLOSED"))
    /\ saying # <<>> =>
          /\ ~IsControl(send_opcode)
          /\ v.op = send_opcode /\ (v.deflated <=> Sends("SEND_DEFLATE"))
          /\ Sends("SEND_FRAME") \/ Sends("SEND_CLOSED")
    /\ Sends("SEND_FRAME") => send_opcode \in StartOpcodes /\ ~Sends("SEND_CLOSED")
    /\ Sends("SEND_DEFLATE") => deflate.set

Typed ==
    /\ wire \in Seq(ItemType) /\ saying \in Seq(Nat) /\ said \in Seq(MessageType)
    /\ tx \in [window: Seq(Nat), flushed: BOOLEAN]
    /\ rx \in [window: Seq(Nat), aligned: BOOLEAN, reset_after: BOOLEAN]
    /\ deflate \in [set: BOOLEAN, reset_after_tx: BOOLEAN]
    /\ established \in BOOLEAN /\ aborted \in BOOLEAN
    /\ sent_frame_count \in Nat
    /\ message \in [frames: Seq(FrameType), length: Nat]
    /\ deflate_ext \in [set: BOOLEAN, message_size: Nat, max_message_size: Nat]

\* Nothing is set that would refuse a frame, nothing is buffered, and nothing was refused.
Open ==
    /\ cfg.max_frame_size = 0 /\ cfg.max_message_size = 0 /\ ~cfg.check_utf8
    /\ deflate_cfg.max_message_size = 0 /\ deflate_ext.max_message_size = 0
    /\ buffer = <<>> /\ looping = FALSE /\ "RECV_FRAME" \notin flags
    /\ rx.aligned = TRUE
    /\ out.error = NoError

\* The ends are connected together, with what they agreed on.
Together ==
    /\ established <=> "ESTABLISHED" \in flags
    /\ deflate.set => deflate_ext.set
    /\ established => (rx.reset_after => deflate.reset_after_tx)

\* Before a handshake there is nothing.
Fresh ==
    ~established =>
        /\ wire = <<>> /\ saying = <<>> /\ said = <<>> /\ heard = <<>>
        /\ send_flags = {} /\ flags = {} /\ aborted = FALSE
        /\ tx.window = <<>> /\ rx.window = <<>>
        /\ message.frames = <<>> /\ frame_count = 0 /\ sent_frame_count = 0

InLine(views) ==
    /\ Line(views, wire, deflate.set, rx.reset_after)
    /\ Listening(views[0])
    /\ views[Len(wire)].heard = said
    /\ ~aborted => Speaking(views[Len(wire)])

ConversationInv == Typed /\ Open /\ Together /\ Fresh /\ \E views : InLine(views)

-------------------------------------------------------------------------------
(* The parts of a message that are not empty.                              *)

Keeps(kept, s) ==
    kept = [i \in 0 .. Len(s) |-> IF i = 0 THEN <<>>
                                  ELSE IF s[i] > 0 THEN Append(kept[i - 1], s[i]) ELSE kept[i - 1]]

\* The recursion in Filled defines a function.
LEMMA KeptAre ==
    ASSUME NEW s \in Seq(Nat)
    PROVE  \E kept : /\ Filled(s) = kept[Len(s)] /\ kept[0] = <<>>
                     /\ \A i \in 1 .. Len(s) :
                           kept[i] = IF s[i] > 0 THEN Append(kept[i - 1], s[i]) ELSE kept[i - 1]
<1> DEFINE n == Len(s)
           V == Seq(Nat \ {0})
           w(v, i) == IF s[i] > 0 THEN Append(v, s[i]) ELSE v
           next == [iv \in (1 .. n) \X V |-> w(iv[2], iv[1])]
<1>1. n \in Nat
  OBVIOUS
<1>2. \A i \in 1 .. n, v \in V : w(v, i) \in V
  <2>1. ASSUME NEW i \in 1 .. n, NEW v \in V PROVE w(v, i) \in V
    <3>1. s[i] \in Nat
      BY <1>1
    <3>2. CASE s[i] > 0
      BY <3>1, <3>2
    <3>3. CASE ~(s[i] > 0)
      BY <3>3
    <3> QED BY <3>2, <3>3
  <2> HIDE DEF w, V, n
  <2> QED BY <2>1
<1> HIDE DEF w, n, V
<1>3. next \in [(1 .. n) \X V -> V] /\ \A i \in 1 .. n, v \in V : next[<<i, v>>] = w(v, i)
  <2>1. \A iv \in (1 .. n) \X V : w(iv[2], iv[1]) \in V
    <3>1. \A iv \in (1 .. n) \X V : iv[1] \in 1 .. n /\ iv[2] \in V
      OBVIOUS
    <3> QED BY <1>2, <3>1
  <2> QED BY <2>1
<1> HIDE DEF next
<1>4. <<>> \in V
  BY DEF V
<1>5. PICK f : Recursive(f, V, <<>>, n, next)
  <2>1. next \in [(1 .. n) \X V -> V]
    BY <1>3
  <2> QED BY <1>1, <1>4, <2>1, RecursionDefines, Zenon
<1>6. \A i \in 1 .. n : f[i] = w(f[i - 1], i)
  <2>1. ASSUME NEW i \in 1 .. n PROVE f[i - 1] \in V
    <3>1. i - 1 \in 0 .. n
      BY <1>1
    <3> QED BY <1>5, <3>1 DEF Recursive
  <2> QED BY <1>3, <1>5, <2>1 DEF Recursive
<1>7. f = [i \in 0 .. n |-> IF i = 0 THEN <<>> ELSE w(f[i - 1], i)]
  <2> DEFINE v(i) == IF i = 0 THEN <<>> ELSE w(f[i - 1], i)
  <2>1. ASSUME NEW i \in 0 .. n PROVE f[i] = v(i)
    <3>1. i = 0 \/ i \in 1 .. n
      BY <1>1
    <3> QED BY <1>5, <1>6, <3>1 DEF Recursive
  <2> HIDE DEF v
  <2>2. f = [i \in 0 .. n |-> f[i]]
    BY <1>5 DEF Recursive
  <2>3. f = [i \in 0 .. n |-> v(i)]
    BY <2>1, <2>2, Zenon
  <2> QED BY <2>3 DEF v
<1>8. Keeps(f, s)
  BY <1>7, Zenon DEF Keeps, n, w
<1> DEFINE kept == CHOOSE k : Keeps(k, s)
<1>9. Keeps(kept, s)
  BY <1>8, Zenon
<1>10. Filled(s) = kept[Len(s)]
  BY Zenon DEF Filled, Keeps
<1> HIDE DEF kept
<1>11. kept[0] = <<>> /\ \A i \in 1 .. n : kept[i] = w(kept[i - 1], i)
  <2>1. \A i \in 0 .. n : kept[i] = IF i = 0 THEN <<>> ELSE w(kept[i - 1], i)
    BY <1>9 DEF Keeps, n, w
  <2>2. 0 \in 0 .. n /\ \A i \in 1 .. n : i \in 0 .. n /\ i # 0
    BY <1>1
  <2> QED BY <2>1, <2>2
<1> QED BY <1>10, <1>11 DEF n, w

\* Only parts that are not empty are left.
LEMMA FilledType ==
    ASSUME NEW s \in Seq(Nat)
    PROVE  Filled(s) \in Seq(Nat \ {0})
<1> DEFINE n == Len(s)
<1>1. PICK kept : /\ Filled(s) = kept[n] /\ kept[0] = <<>>
                  /\ \A i \in 1 .. n :
                        kept[i] = IF s[i] > 0 THEN Append(kept[i - 1], s[i]) ELSE kept[i - 1]
  BY KeptAre
<1> DEFINE S == {i \in 0 .. n : kept[i] \in Seq(Nat \ {0})}
<1>2. n \in Nat /\ \A i \in 1 .. n : s[i] \in Nat
  OBVIOUS
<1> HIDE DEF n
<1>3. 0 \in S
  <2>1. kept[0] = <<>>
    BY <1>1, Zenon
  <2>2. kept[0] \in Seq(Nat \ {0}) /\ 0 \in 0 .. n
    BY <1>2, <2>1
  <2> QED BY <2>2
<1>4. ASSUME NEW i \in 0 .. n - 1, i \in S PROVE i + 1 \in S
  <2>1. i + 1 \in 1 .. n /\ i + 1 \in 0 .. n /\ (i + 1) - 1 = i
    BY <1>2
  <2>2. s[i + 1] \in Nat /\ kept[i + 1] = IF s[i + 1] > 0 THEN Append(kept[i], s[i + 1]) ELSE kept[i]
    BY <1>1, <1>2, <2>1
  <2>3. kept[i] \in Seq(Nat \ {0})
    BY <1>4
  <2>4. kept[i + 1] \in Seq(Nat \ {0})
    <3>1. CASE s[i + 1] > 0
      BY <2>2, <2>3, <3>1
    <3>2. CASE ~(s[i + 1] > 0)
      BY <2>2, <2>3, <3>2
    <3> QED BY <3>1, <3>2
  <2> QED BY <2>1, <2>4
<1> HIDE DEF S
<1>5. n \in S
  <2>1. \A i \in 0 .. n : i \in S
    BY <1>2, <1>3, <1>4, UpTo
  <2> QED BY <1>2, <2>1
<1> QED BY <1>1, <1>5 DEF S

\* Where no part is empty all are left.
LEMMA FilledAll ==
    ASSUME NEW s \in Seq(Nat \ {0})
    PROVE  Filled(s) = s
<1> DEFINE n == Len(s)
<1>0. s \in Seq(Nat)
  OBVIOUS
<1>1. PICK kept : /\ Filled(s) = kept[n] /\ kept[0] = <<>>
                  /\ \A i \in 1 .. n :
                        kept[i] = IF s[i] > 0 THEN Append(kept[i - 1], s[i]) ELSE kept[i - 1]
  BY <1>0, KeptAre
<1> DEFINE S == {i \in 0 .. n : kept[i] = SubSeq(s, 1, i)}
<1>2. n \in Nat /\ \A i \in 1 .. n : s[i] \in Nat /\ s[i] > 0
  OBVIOUS
<1>2a. SubSeq(s, 1, 0) = <<>> /\ SubSeq(s, 1, n) = s
  OBVIOUS
<1>2b. \A i \in 0 .. n - 1 : Append(SubSeq(s, 1, i), s[i + 1]) = SubSeq(s, 1, i + 1)
  OBVIOUS
<1> HIDE DEF n
<1>3. 0 \in S
  <2>1. kept[0] = SubSeq(s, 1, 0)
    BY <1>1, <1>2a, Zenon
  <2>2. 0 \in 0 .. n
    BY <1>2
  <2> QED BY <2>1, <2>2
<1>4. ASSUME NEW i \in 0 .. n - 1, i \in S PROVE i + 1 \in S
  <2>1. i + 1 \in 1 .. n /\ i + 1 \in 0 .. n /\ (i + 1) - 1 = i
    BY <1>2
  <2>2. kept[i + 1] = Append(kept[i], s[i + 1])
    BY <1>1, <1>2, <2>1
  <2> QED BY <1>2b, <1>4, <2>1, <2>2
<1> HIDE DEF S
<1>5. n \in S
  <2>1. \A i \in 0 .. n : i \in S
    BY <1>2, <1>3, <1>4, UpTo
  <2> QED BY <1>2, <2>1
<1> QED BY <1>1, <1>2a, <1>5 DEF S

LEMMA FilledOne ==
    ASSUME NEW a \in Nat
    PROVE  Filled(<<a>>) = IF a > 0 THEN <<a>> ELSE <<>>
<1> DEFINE s == <<a>>
<1>1. s \in Seq(Nat) /\ Len(s) = 1 /\ s[1] = a
  OBVIOUS
<1> HIDE DEF s
<1>2. PICK kept : /\ Filled(s) = kept[1] /\ kept[0] = <<>>
                  /\ \A i \in 1 .. 1 :
                        kept[i] = IF s[i] > 0 THEN Append(kept[i - 1], s[i]) ELSE kept[i - 1]
  BY <1>1, KeptAre
<1>3. kept[1] = IF a > 0 THEN Append(<<>>, a) ELSE <<>>
  <2>1. 1 \in 1 .. 1 /\ 1 - 1 = 0
    OBVIOUS
  <2>2. kept[1] = IF s[1] > 0 THEN Append(kept[0], s[1]) ELSE kept[0]
    BY <1>2, <2>1, Zenon
  <2>3. kept[0] = <<>>
    BY <1>2, Zenon
  <2> QED BY <1>1, <2>2, <2>3, Zenon
<1>4. Append(<<>>, a) = <<a>>
  OBVIOUS
<1> QED BY <1>2, <1>3, <1>4 DEF s

-------------------------------------------------------------------------------
(* Views and lines of them.                                                *)

LEMMA ItemParts ==
    ASSUME NEW item \in ItemType
    PROVE  /\ item.frame \in FrameType /\ item.compressed \in BOOLEAN /\ item.context \in Seq(Nat)
           /\ item.frame.op \in Opcodes /\ item.frame.op \in Nat
           /\ item.frame.fin \in BOOLEAN /\ item.frame.rsv1 \in BOOLEAN
           /\ item.frame.rsv23 \in BOOLEAN /\ item.frame.masked \in BOOLEAN
           /\ item.frame.corrupt \in BOOLEAN
           /\ item.frame.len \in Nat /\ item.frame.size \in Nat /\ item.frame.code \in Nat
BY DEF ItemType, FrameType, Opcodes

LEMMA ViewParts ==
    ASSUME NEW v \in ViewType
    PROVE  /\ v.op \in Opcodes /\ v.deflated \in BOOLEAN /\ v.sizes \in Seq(Nat)
           /\ v.window \in Seq(Nat) /\ v.closed \in BOOLEAN /\ v.heard \in Seq(MessageType)
BY DEF ViewType

LEMMA MessageTyped ==
    ASSUME NEW op \in Opcodes, NEW sizes \in Seq(Nat)
    PROVE  Message(op, sizes) \in MessageType
BY DEF Message, MessageType

LEMMA AfterTyped ==
    ASSUME NEW v \in ViewType, NEW f \in FrameType, NEW reset \in BOOLEAN
    PROVE  After(v, f, reset) \in ViewType
<1>1. f.op \in Opcodes /\ f.fin \in BOOLEAN /\ f.rsv1 \in BOOLEAN /\ f.size \in Nat
  BY DEF FrameType
<1>2. /\ v.op \in Opcodes /\ v.deflated \in BOOLEAN /\ v.sizes \in Seq(Nat)
      /\ v.window \in Seq(Nat) /\ v.closed \in BOOLEAN /\ v.heard \in Seq(MessageType)
  BY ViewParts
<1>3. AfterControl(v, f) \in ViewType
  <2>1. Message(f.op, <<f.size>>) \in MessageType
    <3>1. <<f.size>> \in Seq(Nat)
      BY <1>1
    <3> QED BY <1>1, <3>1, MessageTyped, Zenon
  <2>2. Append(v.heard, Message(f.op, <<f.size>>)) \in Seq(MessageType)
    BY <1>2, <2>1
  <2> DEFINE heard1 == Append(v.heard, Message(f.op, <<f.size>>))
             closed == f.op = CLOSE
  <2>3. AfterControl(v, f) = [op |-> v.op, deflated |-> v.deflated, sizes |-> v.sizes, window |-> v.window,
                              closed |-> closed, heard |-> heard1]
    <3>1. AfterControl(v, f) = [v EXCEPT !.closed = closed, !.heard = heard1]
      BY DEF AfterControl
    <3> HIDE DEF heard1, closed
    <3> QED BY <3>1 DEF ViewType
  <2>4. closed \in BOOLEAN
    OBVIOUS
  <2> HIDE DEF heard1, closed
  <2> QED BY <1>2, <2>2, <2>3, <2>4 DEF ViewType, heard1
<1>4. AfterData(v, f, reset) \in ViewType
  <2> DEFINE sizes == Append(v.sizes, f.size)
             heard1 == IF f.fin THEN Append(v.heard, Message(Opcode(v, f), sizes)) ELSE v.heard
             op == IF f.fin THEN CONTINUE ELSE Opcode(v, f)
             next == IF f.fin THEN <<>> ELSE sizes
             deflated == ~f.fin /\ Deflated(v, f)
  <2>1. Opcode(v, f) \in Opcodes
    BY <1>1, <1>2 DEF Opcode
  <2>2. sizes \in Seq(Nat)
    BY <1>1, <1>2
  <2> HIDE DEF sizes
  <2>3. Message(Opcode(v, f), sizes) \in MessageType
    BY <2>1, <2>2, MessageTyped
  <2>4. heard1 \in Seq(MessageType)
    BY <1>1, <1>2, <2>3
  <2>5. WindowAfter(v, f, reset) \in Seq(Nat)
    <3>1. Append(v.window, f.size) \in Seq(Nat) /\ <<>> \in Seq(Nat)
      BY <1>1, <1>2
    <3> QED BY <1>2, <3>1, Zenon DEF WindowAfter
  <2>6. op \in Opcodes
    BY <2>1 DEF CONTINUE, Opcodes
  <2>7. next \in Seq(Nat)
    BY <1>1, <2>2
  <2>8. deflated \in BOOLEAN
    OBVIOUS
  <2>9. AfterData(v, f, reset) = [op |-> op, deflated |-> deflated, sizes |-> next,
                                  window |-> WindowAfter(v, f, reset), closed |-> v.closed, heard |-> heard1]
    BY Zenon DEF AfterData, sizes
  <2> HIDE DEF op, deflated, next, heard1
  <2> QED BY <1>2, <2>4, <2>5, <2>6, <2>7, <2>8, <2>9 DEF ViewType
<1> QED BY <1>3, <1>4, Zenon DEF After

\* Without the first frame.
LEMMA LineTail ==
    ASSUME NEW w \in Seq(ItemType), w # <<>>, NEW views, NEW has, NEW reset, Line(views, w, has, reset)
    PROVE  Line([i \in 0 .. Len(Tail(w)) |-> views[i + 1]], Tail(w), has, reset)
<1> DEFINE n == Len(w)
           t == Tail(w)
           later == [i \in 0 .. Len(t) |-> views[i + 1]]
<1>1. n \in Nat \ {0} /\ Len(t) = n - 1 /\ \A i \in 1 .. n - 1 : t[i] = w[i + 1]
  OBVIOUS
<1>2. \A i \in 0 .. n - 1 : later[i] = views[i + 1]
  BY <1>1
<1> HIDE DEF n, t, later
<1>3. ASSUME NEW i \in 0 .. n - 1 PROVE later[i] \in ViewType
  <2>1. i + 1 \in 0 .. n
    BY <1>1
  <2> QED BY <1>2, <2>1 DEF Line, n
<1>4. ASSUME NEW i \in 1 .. n - 1
      PROVE  Follows(later[i - 1], t[i], has) /\ later[i] = After(later[i - 1], t[i].frame, reset)
  <2>1. i + 1 \in 1 .. n /\ i \in 0 .. n - 1 /\ i - 1 \in 0 .. n - 1 /\ (i + 1) - 1 = i /\ (i - 1) + 1 = i
    BY <1>1
  <2>2. later[i] = views[i + 1] /\ later[i - 1] = views[i] /\ t[i] = w[i + 1]
    BY <1>1, <1>2, <2>1
  <2>3. Follows(views[i], w[i + 1], has) /\ views[i + 1] = After(views[i], w[i + 1].frame, reset)
    BY <2>1 DEF Line, n
  <2> QED BY <2>2, <2>3
<1>5. Len(t) = n - 1
  BY <1>1
<1>6. Line(later, t, has, reset)
  BY <1>3, <1>4, <1>5 DEF Line
<1> QED BY <1>6 DEF later, t

\* One line behind another.
Joined(views, n, more, m) == [i \in 0 .. n + m |-> IF i <= n THEN views[i] ELSE more[i - n]]

JoinedUp(joined, views, w, more, new, has, reset) ==
    /\ Line(joined, w \o new, has, reset)
    /\ joined[0] = views[0] /\ joined[Len(w \o new)] = more[Len(new)]

LEMMA LineGoesOn ==
    ASSUME NEW w \in Seq(ItemType), NEW new \in Seq(ItemType), NEW views, NEW more, NEW has, NEW reset,
           Line(views, w, has, reset), Line(more, new, has, reset), more[0] = views[Len(w)]
    PROVE  JoinedUp(Joined(views, Len(w), more, Len(new)), views, w, more, new, has, reset)
<1> DEFINE n == Len(w)
           m == Len(new)
           joined == Joined(views, n, more, m)
           all == w \o new
<1>1. /\ n \in Nat /\ m \in Nat /\ Len(all) = n + m
      /\ \A i \in 1 .. n : all[i] = w[i]
      /\ \A i \in n + 1 .. n + m : all[i] = new[i - n]
  OBVIOUS
<1> HIDE DEF all, n, m
<1>2. /\ \A i \in 0 .. n : joined[i] = views[i]
      /\ \A i \in n + 1 .. n + m : joined[i] = more[i - n]
  <2>1. ASSUME NEW i \in 0 .. n PROVE joined[i] = views[i]
    <3>1. i \in 0 .. n + m /\ i <= n
      BY <1>1
    <3> QED BY <3>1 DEF Joined
  <2>2. ASSUME NEW i \in n + 1 .. n + m PROVE joined[i] = more[i - n]
    <3>1. i \in 0 .. n + m /\ ~(i <= n)
      BY <1>1
    <3> QED BY <3>1 DEF Joined
  <2> QED BY <2>1, <2>2
<1>3. \A i \in n .. n + m : joined[i] = more[i - n]
  <2>1. ASSUME NEW i \in n .. n + m PROVE joined[i] = more[i - n]
    <3>1. i = n \/ i \in n + 1 .. n + m
      BY <1>1
    <3>2. n \in 0 .. n /\ n - n = 0
      BY <1>1
    <3> QED BY <1>2, <3>1, <3>2 DEF n
  <2> QED BY <2>1
<1> HIDE DEF joined
<1>4. ASSUME NEW i \in 0 .. n + m PROVE joined[i] \in ViewType
  <2>1. CASE i <= n
    <3>1. i \in 0 .. n
      BY <1>1, <2>1
    <3> QED BY <1>2, <3>1 DEF Line, n
  <2>2. CASE ~(i <= n)
    <3>1. i \in n .. n + m /\ i - n \in 0 .. m
      BY <1>1, <2>2
    <3> QED BY <1>3, <3>1 DEF Line, m
  <2> QED BY <2>1, <2>2
<1>5. ASSUME NEW i \in 1 .. n + m
      PROVE  Follows(joined[i - 1], all[i], has) /\ joined[i] = After(joined[i - 1], all[i].frame, reset)
  <2>1. CASE i <= n
    <3>1. i \in 1 .. n /\ i \in 0 .. n /\ i - 1 \in 0 .. n
      BY <1>1, <2>1
    <3>2. joined[i - 1] = views[i - 1] /\ joined[i] = views[i] /\ all[i] = w[i]
      BY <1>1, <1>2, <3>1
    <3>3. Follows(views[i - 1], w[i], has) /\ views[i] = After(views[i - 1], w[i].frame, reset)
      BY <3>1 DEF Line, n
    <3> QED BY <3>2, <3>3
  <2>2. CASE ~(i <= n)
    <3> DEFINE k == i - n
    <3>1. /\ k \in 1 .. m /\ i \in n + 1 .. n + m /\ i \in n .. n + m /\ i - 1 \in n .. n + m
          /\ (i - 1) - n = k - 1
      BY <1>1, <2>2
    <3>2. joined[i - 1] = more[k - 1] /\ joined[i] = more[k] /\ all[i] = new[k]
      BY <1>1, <1>3, <3>1
    <3>3. Follows(more[k - 1], new[k], has) /\ more[k] = After(more[k - 1], new[k].frame, reset)
      BY <3>1 DEF Line, m
    <3> QED BY <3>2, <3>3
  <2> QED BY <2>1, <2>2
<1>6. Line(joined, all, has, reset)
  BY <1>1, <1>4, <1>5 DEF Line
<1>7. joined[0] = views[0] /\ joined[n + m] = more[m]
  <2>1. 0 \in 0 .. n /\ n + m \in n .. n + m /\ (n + m) - n = m
    BY <1>1
  <2> QED BY <1>2, <1>3, <2>1
<1> QED BY <1>1, <1>6, <1>7 DEF JoinedUp, joined, all, n, m

\* A line of one frame.
LEMMA LineOfOne ==
    ASSUME NEW v \in ViewType, NEW item \in ItemType, NEW has, NEW reset \in BOOLEAN, Follows(v, item, has)
    PROVE  LET more == [i \in 0 .. 1 |-> IF i = 0 THEN v ELSE After(v, item.frame, reset)] IN
           Line(more, <<item>>, has, reset) /\ more[0] = v /\ more[1] = After(v, item.frame, reset)
<1> DEFINE more == [i \in 0 .. 1 |-> IF i = 0 THEN v ELSE After(v, item.frame, reset)]
<1>1. Len(<<item>>) = 1 /\ <<item>>[1] = item /\ \A i \in 1 .. 1 : i = 1 /\ i - 1 = 0
  OBVIOUS
<1>2. more[0] = v /\ more[1] = After(v, item.frame, reset)
  OBVIOUS
<1>3. After(v, item.frame, reset) \in ViewType
  BY AfterTyped, ItemParts
<1> HIDE DEF more
<1>4. \A i \in 0 .. 1 : more[i] \in ViewType
  <2>1. \A i \in 0 .. 1 : i = 0 \/ i = 1
    OBVIOUS
  <2> QED BY <1>2, <1>3, <2>1
<1>5. Line(more, <<item>>, has, reset)
  BY <1>1, <1>2, <1>4 DEF Line
<1> QED BY <1>2, <1>5 DEF more

\* What is heard at one place in a line begins what is heard at every later one.
Begins(s, t) == Len(s) <= Len(t) /\ s = SubSeq(t, 1, Len(s))

LEMMA HeardOn ==
    ASSUME NEW v \in ViewType, NEW f \in FrameType, NEW reset \in BOOLEAN, NEW s \in Seq(MessageType),
           Begins(s, v.heard)
    PROVE  Begins(s, After(v, f, reset).heard)
<1>1. \E x : After(v, f, reset).heard = Append(v.heard, x) \/ After(v, f, reset).heard = v.heard
  <2>1. AfterControl(v, f).heard = Append(v.heard, Message(f.op, <<f.size>>))
    BY DEF AfterControl, ViewType
  <2>2. \/ AfterData(v, f, reset).heard = Append(v.heard, Message(Opcode(v, f), Append(v.sizes, f.size)))
        \/ AfterData(v, f, reset).heard = v.heard
    BY DEF AfterData
  <2> QED BY <2>1, <2>2, Zenon DEF After
<1>2. ASSUME NEW t \in Seq(MessageType), NEW x \in MessageType, Begins(s, t) PROVE Begins(s, Append(t, x))
  <2>1. Len(s) \in Nat /\ Len(t) \in Nat /\ Len(Append(t, x)) = Len(t) + 1
    OBVIOUS
  <2>2. Len(s) <= Len(t) /\ s = SubSeq(t, 1, Len(s))
    BY <1>2 DEF Begins
  <2>3. SubSeq(Append(t, x), 1, Len(s)) = SubSeq(t, 1, Len(s))
    BY <2>1, <2>2
  <2> QED BY <2>1, <2>2, <2>3 DEF Begins
<1>3. After(v, f, reset).heard \in Seq(MessageType) /\ v.heard \in Seq(MessageType)
  BY AfterTyped, ViewParts
<1>4. PICK x : After(v, f, reset).heard = Append(v.heard, x) \/ After(v, f, reset).heard = v.heard
  BY <1>1
<1>5. CASE After(v, f, reset).heard = Append(v.heard, x)
  <2>1. x \in MessageType
    <3>1. Append(v.heard, x) \in Seq(MessageType) /\ Len(v.heard) \in Nat
      BY <1>3, <1>5
    <3>2. Append(v.heard, x)[Len(v.heard) + 1] = x /\ Len(Append(v.heard, x)) = Len(v.heard) + 1
      BY <1>3
    <3>3. Len(v.heard) + 1 \in 1 .. Len(v.heard) + 1
      BY <3>1
    <3> QED BY <3>1, <3>2, <3>3
  <2> QED BY <1>2, <1>3, <1>5, <2>1
<1> QED BY <1>4, <1>5

LEMMA HeardGrows ==
    ASSUME NEW w \in Seq(ItemType), NEW views, NEW has, NEW reset \in BOOLEAN, Line(views, w, has, reset)
    PROVE  Begins(views[0].heard, views[Len(w)].heard)
<1> DEFINE n == Len(w)
           s == views[0].heard
           S == {i \in 0 .. n : Begins(s, views[i].heard)}
<1>1. n \in Nat
  OBVIOUS
<1>2. /\ \A i \in 0 .. n : views[i] \in ViewType
      /\ \A i \in 1 .. n : w[i] \in ItemType /\ views[i] = After(views[i - 1], w[i].frame, reset)
  BY DEF Line
<1> HIDE DEF n
<1>3. s \in Seq(MessageType)
  <2>1. 0 \in 0 .. n
    BY <1>1
  <2> QED BY <1>2, <2>1, ViewParts
<1> HIDE DEF s
<1>4. 0 \in S
  <2>1. Len(s) \in Nat /\ s = SubSeq(s, 1, Len(s)) /\ Len(s) <= Len(s)
    BY <1>3
  <2>2. Begins(s, views[0].heard)
    BY <2>1 DEF Begins, s
  <2>3. 0 \in 0 .. n
    BY <1>1
  <2> QED BY <2>2, <2>3
<1>5. ASSUME NEW i \in 0 .. n - 1, i \in S PROVE i + 1 \in S
  <2>1. i + 1 \in 1 .. n /\ i + 1 \in 0 .. n /\ (i + 1) - 1 = i /\ i \in 0 .. n
    BY <1>1
  <2>2. views[i] \in ViewType /\ w[i + 1] \in ItemType /\ views[i + 1] = After(views[i], w[i + 1].frame, reset)
    BY <1>2, <2>1
  <2>3. w[i + 1].frame \in FrameType
    BY <2>2, ItemParts
  <2>4. Begins(s, views[i + 1].heard)
    BY <1>3, <1>5, <2>2, <2>3, HeardOn
  <2> QED BY <2>1, <2>4
<1> HIDE DEF S
<1>6. n \in S
  <2>1. \A i \in 0 .. n : i \in S
    BY <1>1, <1>4, <1>5, UpTo
  <2> QED BY <1>1, <2>1
<1> QED BY <1>6 DEF S, s, n

-------------------------------------------------------------------------------
(* The receiver.                                                           *)

\* Reception's own vocabulary is that of the sender.
LEMMA SameWords ==
    /\ Peer!NoError = NoError /\ Peer!CLOSE = CLOSE /\ Peer!CONTINUE = CONTINUE
    /\ \A op : Peer!IsControl(op) = IsControl(op)
    /\ \A f : Peer!CloseError(f) = CloseError(f) /\ Peer!PayloadLength(f) = PayloadLength(f)
    /\ \A f, inflated : Peer!PayloadSize(f, inflated) = PayloadSize(f, inflated)
    /\ \A f, required, limit : Peer!HeaderError(f, required, limit) = HeaderError(f, required, limit)
<1>1. Peer!NoError = NoError /\ Peer!CLOSE = CLOSE /\ Peer!CONTINUE = CONTINUE
  BY DEF Peer!NoError, NoError, Peer!CLOSE, CLOSE, Peer!CONTINUE, CONTINUE
<1>2. \A op : Peer!IsControl(op) = IsControl(op)
  BY DEF Peer!IsControl, IsControl, Peer!CLOSE, CLOSE
<1>3. \A f : Peer!CloseError(f) = CloseError(f)
  BY DEF Peer!CloseError, CloseError, Peer!Check, Check, Peer!IsSendingForbidden, IsSendingForbidden,
         Peer!CLOSE, CLOSE, Peer!NoError, NoError, Peer!DONE, DONE, Peer!UNKNOWN, UNKNOWN,
         Peer!ABNORMALLY, ABNORMALLY, Peer!INTERNAL_ERROR, INTERNAL_ERROR
<1>4. \A f : Peer!PayloadLength(f) = PayloadLength(f)
  BY DEF Peer!PayloadLength, PayloadLength, Peer!CLOSE, CLOSE
<1>5. \A f, inflated : Peer!PayloadSize(f, inflated) = PayloadSize(f, inflated)
  BY <1>4 DEF Peer!PayloadSize, PayloadSize
<1>6. \A f, required, limit : Peer!HeaderError(f, required, limit) = HeaderError(f, required, limit)
  BY DEF Peer!HeaderError, HeaderError, Peer!??, ??, Peer!Check, Check, Peer!NoError, NoError,
         Peer!IsControl, IsControl, Peer!CLOSE, CLOSE, Peer!PONG, PONG,
         Peer!MAX_CONTROL_PAYLOAD, MAX_CONTROL_PAYLOAD
<1> QED BY <1>1, <1>2, <1>3, <1>4, <1>5, <1>6

\* A frame that arrives where it belongs.
Arrives(v, item) ==
    /\ Typed /\ Open /\ Together /\ established
    /\ v \in ViewType /\ item \in ItemType
    /\ Listening(v) /\ Follows(v, item, deflate.set)

LEMMA ListeningCount ==
    ASSUME NEW v, NEW item, Arrives(v, item)
    PROVE  /\ frame_count = Len(message.frames) /\ message.frames \in Seq(FrameType)
           /\ Len(message.frames) \in Nat
           /\ v.sizes = <<>> <=> message.frames = <<>>
           /\ frame_count = 0 <=> message.frames = <<>>
<1> DEFINE frames == message.frames
           n == Len(frames)
<1>1. frames \in Seq(FrameType)
  BY DEF Arrives, Typed
<1>2. n \in Nat /\ (n = 0 <=> frames = <<>>)
  BY <1>1
<1>3. frame_count = n /\ v.sizes = [i \in 1 .. n |-> PayloadSize(frames[i], v.deflated)]
  BY DEF Arrives, Listening
<1>4. v.sizes \in Seq(Nat)
  BY ViewParts DEF Arrives
<1> HIDE DEF frames, n
<1>5. Len(v.sizes) = n
  <2>1. DOMAIN v.sizes = 1 .. n
    BY <1>3
  <2>2. DOMAIN v.sizes = 1 .. Len(v.sizes) /\ Len(v.sizes) \in Nat
    BY <1>4
  <2> QED BY <1>2, <2>1, <2>2
<1>6. v.sizes = <<>> <=> n = 0
  BY <1>4, <1>5
<1> QED BY <1>1, <1>2, <1>3, <1>6 DEF frames, n

\* What the receiver would inflate is what the view calls deflated.
LEMMA InflatedIs ==
    ASSUME NEW v, NEW item, Arrives(v, item), ~IsControl(item.frame.op)
    PROVE  Peer!Inflated(item.frame) <=> Deflated(v, item.frame)
<1>1. v.sizes = <<>> => ~v.deflated
  BY ListeningCount DEF Arrives, Listening
<1>2. v.deflated <=> "RECV_INFLATE" \in flags
  BY DEF Arrives, Listening
<1>3. v.sizes = <<>> <=> frame_count = 0
  BY ListeningCount
<1> QED BY <1>1, <1>2, <1>3 DEF Peer!Inflated, Peer!Set, Deflated

\* zlib finds what the frame refers to.
LEMMA ArrivesWhole ==
    ASSUME NEW v, NEW item, Arrives(v, item)
    PROVE  Arriving(item) = item.frame
<1> DEFINE f == item.frame
           broken == /\ Inflates(item)
                     /\ f.len > 0
                     /\ ~(rx.aligned /\ item.compressed /\ IsSuffix(item.context, rx.window))
<1>1. ~f.corrupt /\ f \in FrameType /\ f.len \in Nat
  BY ItemParts DEF Arrives, Follows
<1>2. rx.aligned = TRUE /\ v.window = rx.window
  BY DEF Arrives, Open, Listening
<1>3. ~broken
  <2>1. SUFFICES ASSUME ~IsControl(f.op), Peer!Inflated(f), f.len > 0
                 PROVE  item.compressed /\ IsSuffix(item.context, rx.window)
    BY <1>2 DEF Inflates
  <2>2. Deflated(v, f)
    BY <2>1, InflatedIs
  <2>3. DataFits(v, item, deflate.set)
    BY <2>1 DEF Arrives, Follows
  <2>4. f.len # 0
    BY <1>1, <2>1
  <2> QED BY <1>2, <2>2, <2>3, <2>4 DEF DataFits
<1>4. Arriving(item) = [f EXCEPT !.corrupt = broken]
  BY DEF Arriving
<1> HIDE DEF broken
<1>5. broken = FALSE
  <2>1. broken \in BOOLEAN
    BY DEF broken
  <2> QED BY <1>3, <2>1
<1>6. f.corrupt = FALSE
  BY <1>1 DEF FrameType
<1>7. [f EXCEPT !.corrupt = FALSE] = f
  <2> HIDE DEF f
  <2> QED BY <1>1, <1>6 DEF FrameType
<1> QED BY <1>4, <1>5, <1>7

\* _parse_frame finds nothing wrong with it.
LEMMA NothingWrong ==
    ASSUME NEW v, NEW item, Arrives(v, item)
    PROVE  Peer!Verdict(item.frame, FALSE, close_message) = NoError
<1> DEFINE f == item.frame
           fits == IF IsControl(f.op) THEN ControlFits(f) ELSE DataFits(v, item, deflate.set)
<1>1. /\ f.op \in {CONTINUE, TEXT, BINARY, CLOSE, PING, PONG} /\ f.masked = Masks
      /\ f.rsv23 = FALSE /\ f.corrupt = FALSE /\ fits
  BY ItemParts DEF Arrives, Follows
<1>2. f.len \in Nat /\ f.size \in Nat /\ f.fin \in BOOLEAN /\ f.rsv1 \in BOOLEAN /\ f.code \in Nat
  BY ItemParts DEF Arrives
<1>3. /\ cfg.max_frame_size = 0 /\ ~cfg.check_utf8 /\ deflate_ext.max_message_size = 0
      /\ deflate.set => deflate_ext.set
  BY DEF Arrives, Open, Together
<1>4. frame_count = 0 <=> v.sizes = <<>>
  BY ListeningCount
<1> HIDE DEF f
<1>5. CloseError(f) = NoError
  <2>1. CASE f.op = CLOSE
    <3>1. f.len = 0 \/ (f.len >= 2 /\ ~IsSendingForbidden(f.code))
      BY <1>1, <2>1 DEF ControlFits, IsControl, CLOSE
    <3> QED BY <1>2, <3>1 DEF CloseError, Check
  <2>2. CASE f.op # CLOSE
    BY <2>2 DEF CloseError, Check
  <2> QED BY <2>1, <2>2
<1>6. HeaderError(f, Masks, cfg.max_frame_size) = NoError
  <2>1. ~(f.op > PONG \/ f.op \in 3 .. 7)
    BY <1>1 DEF CONTINUE, TEXT, BINARY, CLOSE, PING, PONG
  <2>2. IsControl(f.op) => f.fin /\ ~f.rsv1 /\ ~(f.len > MAX_CONTROL_PAYLOAD)
    BY <1>1, <1>2 DEF ControlFits, MAX_CONTROL_PAYLOAD
  <2>3. ~(~f.masked /\ Masks)
    BY <1>1
  <2>4. ~(cfg.max_frame_size # 0 /\ f.len > cfg.max_frame_size)
    BY <1>3
  <2> QED BY <2>1, <2>2, <2>3, <2>4, Zenon DEF HeaderError, ??, Check
<1>7. Peer!ParseError(f, FALSE) = NoError
  BY <1>5, <1>6, SameWords DEF Peer!ParseError, Peer!??
<1>8. Peer!ReasonError(f, Peer!CloseMessage(f, close_message)) = NoError
  BY <1>3, SameWords DEF Peer!ReasonError, Peer!Check
<1>9. ASSUME ~IsControl(f.op) PROVE Peer!OrderError(f) = NoError /\ Peer!InflateError(f) = NoError /\ Peer!Utf8Error(f) = NoError
  <2>1. DataFits(v, item, deflate.set)
    BY <1>1, <1>9
  <2>2. Peer!OrderError(f) = NoError
    <3>1. /\ f.op = CONTINUE <=> v.sizes # <<>>
          /\ f.rsv1 => deflate.set
      BY <2>1 DEF DataFits, f
    <3> QED BY <1>1, <1>3, <1>4, <3>1, SameWords, Zenon DEF Peer!OrderError, Peer!??, Peer!Check
  <2>3. Peer!InflateError(f) = NoError
    BY <1>1, <1>3, SameWords, Zenon DEF Peer!InflateError, Peer!??, Peer!Check
  <2>4. Peer!Utf8Error(f) = NoError
    BY <1>3, SameWords, Zenon DEF Peer!Utf8Error, Peer!Scanned, Peer!??, Peer!Check
  <2> QED BY <2>2, <2>3, <2>4
<1> QED BY <1>7, <1>8, <1>9, SameWords DEF Peer!Verdict, Peer!??, f

\* What a turn of the message getter comes to.
TurnOutcome(f) ==
    LET frames == message.frames IN
    /\ buffer' = <<>> /\ looping' = FALSE /\ out'.error = NoError
    /\ frame_count' = IF IsControl(f.op) THEN frame_count ELSE IF f.fin THEN 0 ELSE frame_count + 1
    /\ message'.frames = IF IsControl(f.op) THEN frames ELSE IF f.fin THEN <<>> ELSE Append(frames, f)
    /\ message' \in [frames: Seq(FrameType), length: Nat]
    /\ out'.kind = "message" <=> IsControl(f.op) \/ f.fin
    /\ out'.kind = "message" => out'.frames = IF IsControl(f.op) THEN <<f>> ELSE Append(frames, f)
    /\ "RECV_FRAME" \notin flags' /\ "ESTABLISHED" \in flags'
    /\ "RECV_CLOSED" \in flags' <=> f.op = CLOSE
    /\ "RECV_INFLATE" \in flags' <=> IF IsControl(f.op) THEN "RECV_INFLATE" \in flags
                                     ELSE ~f.fin /\ Peer!Inflated(f)
    /\ deflate_ext' \in [set: BOOLEAN, message_size: Nat, max_message_size: Nat]
    /\ deflate_ext'.set = deflate_ext.set /\ deflate_ext'.max_message_size = 0
    /\ UNCHANGED <<cfg, deflate_cfg>>

\* The frame is all that is buffered.
LEMMA ChunkIs ==
    ASSUME NEW f, buffer = <<>>
    PROVE  LET chunk == <<Peer!Whole(f)>> IN
           /\ Peer!Fed(chunk) = chunk /\ Head(chunk) = Peer!Whole(f) /\ Tail(chunk) = <<>>
           /\ Peer!MessageFrame(chunk) = f /\ chunk # <<>>
           /\ \A held : Peer!Passed(Peer!Whole(f), held) = FALSE
           /\ Peer!Completes(Peer!Whole(f))
<1> DEFINE i == Peer!Whole(f)
           chunk == <<i>>
<1>1. i.part = "whole" /\ i.frame = f
  BY DEF Peer!Whole
<1> HIDE DEF i
<1>2. chunk # <<>> /\ Head(chunk) = i /\ Tail(chunk) = <<>> /\ chunk[1] = i /\ <<>> \o chunk = chunk
  OBVIOUS
<1>3. Peer!Fed(chunk) = chunk
  <2>1. ~(chunk[1].part = "rest")
    BY <1>1, <1>2
  <2> HIDE DEF chunk
  <2> QED BY <1>2, <2>1, Zenon DEF Peer!Fed
<1>4. Peer!MessageFrame(chunk) = f
  <2> HIDE DEF chunk
  <2> QED BY <1>1, <1>2, <1>3 DEF Peer!MessageFrame
<1>5. \A held : Peer!Passed(i, held) = FALSE
  BY <1>1 DEF Peer!Passed
<1>6. Peer!Completes(i)
  BY <1>1 DEF Peer!Completes, Peer!IsHead
<1> QED BY <1>2, <1>3, <1>4, <1>5, <1>6 DEF i

\* The flags a frame in its place leaves.
LEMMA FlagsLeft ==
    ASSUME NEW v, NEW item, Arrives(v, item)
    PROVE  LET f == item.frame
               left == Peer!FlagsAfter("RECV_MESSAGE", f, NoError)
           IN
           /\ "RECV_FRAME" \notin left /\ "ESTABLISHED" \in left
           /\ "RECV_CLOSED" \in left <=> f.op = CLOSE
           /\ "RECV_INFLATE" \in left <=> IF IsControl(f.op) THEN "RECV_INFLATE" \in flags
                                          ELSE ~f.fin /\ Peer!Inflated(f)
<1> DEFINE f == item.frame
           raised == Peer!Raised(f, NoError)
           lowered == Peer!Lowered(f, NoError)
<1>1. /\ "RECV_FRAME" \notin flags /\ "ESTABLISHED" \in flags /\ "RECV_CLOSED" \notin flags
      /\ ~cfg.check_utf8 /\ f.op \in {CONTINUE, TEXT, BINARY, CLOSE, PING, PONG}
  BY DEF Arrives, Open, Together, Listening, Follows
<1> HIDE DEF f
<1>2. raised = IF f.op = CLOSE THEN {"RECV_CLOSED"}
               ELSE IF ~IsControl(f.op) THEN {g \in {"RECV_INFLATE"} : Peer!Inflated(f)}
               ELSE {}
  <2>1. Peer!Scanned(f) = FALSE
    BY <1>1 DEF Peer!Scanned
  <2>0. Peer!CLOSE = CLOSE /\ Peer!NoError = NoError /\ Peer!IsControl(f.op) = IsControl(f.op)
    BY SameWords
  <2>2. CASE f.op = CLOSE
    <3>1. IsControl(f.op)
      BY <2>2 DEF IsControl, CLOSE
    <3> QED BY <2>0, <2>2, <3>1 DEF Peer!Raised
  <2>3. CASE f.op # CLOSE /\ ~IsControl(f.op)
    <3>1. raised = {g \in {"RECV_TEXT"} : Peer!Scanned(f)} \cup {g \in {"RECV_INFLATE"} : Peer!Inflated(f)}
      BY <2>0, <2>3 DEF Peer!Raised
    <3>2. {g \in {"RECV_TEXT"} : Peer!Scanned(f)} = {}
      BY <2>1
    <3> QED BY <2>3, <3>1, <3>2
  <2>4. CASE f.op # CLOSE /\ IsControl(f.op)
    BY <2>0, <2>4 DEF Peer!Raised
  <2> QED BY <2>2, <2>3, <2>4
<1>3. /\ lowered \subseteq {"RECV_FRAME", "RECV_INFLATE", "RECV_TEXT"}
      /\ "RECV_INFLATE" \in lowered <=> ~IsControl(f.op) /\ f.fin
  BY SameWords DEF Peer!Lowered
<1>4. Peer!FlagsAfter("RECV_MESSAGE", f, NoError) = (flags \cup {"RECV_MESSAGE"} \cup raised) \ lowered
  BY DEF Peer!FlagsAfter
<1>5. "RECV_INFLATE" \in raised <=> ~IsControl(f.op) /\ Peer!Inflated(f)
  <2>1. f.op = CLOSE => IsControl(f.op)
    BY DEF IsControl, CLOSE
  <2> HIDE DEF raised
  <2> QED BY <1>2, <2>1
<1>6. "RECV_CLOSED" \in raised <=> f.op = CLOSE
  BY <1>2
<1>7. "RECV_FRAME" \notin raised
  BY <1>2
<1>8. "RECV_INFLATE" \in flags => Peer!Inflated(f)
  BY DEF Peer!Inflated, Peer!Set
<1> HIDE DEF raised, lowered
<1> QED BY <1>1, <1>3, <1>4, <1>5, <1>6, <1>7, <1>8 DEF f

LEMMA TurnTaken ==
    ASSUME NEW v, NEW item, Arrives(v, item), Peer!MessageStep(<<Peer!Whole(item.frame)>>)
    PROVE  TurnOutcome(item.frame)
<1> DEFINE f == item.frame
           chunk == <<Peer!Whole(f)>>
           frames == message.frames
           left == Peer!FlagsAfter("RECV_MESSAGE", f, NoError)
<1>1. buffer = <<>> /\ cfg.max_message_size = 0 /\ deflate_ext.max_message_size = 0
  BY DEF Arrives, Open
<1>2. /\ Peer!Fed(chunk) = chunk /\ Head(chunk) = Peer!Whole(f) /\ Tail(chunk) = <<>>
      /\ Peer!MessageFrame(chunk) = f
      /\ Peer!Passed(Peer!Whole(f), message_frame) = FALSE
      /\ Peer!Completes(Peer!Whole(f))
  BY <1>1, ChunkIs
<1>3. Peer!MessageVerdict(chunk) = NoError
  <2>1. Peer!Whole(f).frame = f
    BY DEF Peer!Whole
  <2>2. Peer!Verdict(f, FALSE, close_message) = NoError
    BY NothingWrong
  <2> HIDE DEF chunk, f
  <2> QED BY <1>2, <2>1, <2>2 DEF Peer!MessageVerdict
<1>4. /\ f \in FrameType /\ f.size \in Nat /\ f.len \in Nat /\ f.fin \in BOOLEAN
      /\ f.op \in {CONTINUE, TEXT, BINARY, CLOSE, PING, PONG}
      /\ IsControl(f.op) => f.fin
      /\ frames \in Seq(FrameType) /\ message \in [frames: Seq(FrameType), length: Nat]
      /\ frame_count = Len(frames)
  BY ItemParts, ListeningCount DEF Arrives, Typed, Follows, ControlFits
<1>5. \A length : Peer!TooLong(length, f) = FALSE
  BY <1>1 DEF Peer!TooLong
<1>6. Peer!SizeOf(f) \in Nat
  <2>1. Peer!PayloadSize(f, TRUE) \in Nat /\ Peer!PayloadSize(f, FALSE) \in Nat
    BY <1>4 DEF Peer!PayloadSize, Peer!PayloadLength
  <2>2. Peer!SizeOf(f) = Peer!PayloadSize(f, TRUE) \/ Peer!SizeOf(f) = Peer!PayloadSize(f, FALSE)
    BY DEF Peer!SizeOf, Peer!PayloadSize
  <2> QED BY <2>1, <2>2
<1>7. ~Peer!MessagePrefix(chunk)
  <2> HIDE DEF chunk
  <2> QED BY <1>2 DEF Peer!MessagePrefix
<1>8. /\ \A e : e ?? Check(FALSE, "max_message_size") = e
      /\ Peer!IsControl(f.op) = IsControl(f.op) /\ Peer!NoError = NoError
      /\ \A e : Peer!Check(FALSE, e) = NoError
      /\ Peer!??(NoError, NoError) = NoError
  BY SameWords DEF ??, Check, Peer!Check, Peer!??
<1> HIDE DEF chunk, f, frames, left
<1>9. ASSUME Peer!MessageFrameDone(chunk, NoError)
      PROVE  /\ buffer' = <<>> /\ UNCHANGED <<cfg, deflate_cfg>>
             /\ frame_count' = IF IsControl(f.op) THEN frame_count ELSE IF f.fin THEN 0 ELSE frame_count + 1
             /\ deflate_ext' \in [set: BOOLEAN, message_size: Nat, max_message_size: Nat]
             /\ deflate_ext'.set = deflate_ext.set /\ deflate_ext'.max_message_size = 0
  <2>1. buffer' = Peer!BufferAfter(f, NoError, <<>>) /\ Peer!Parsed(f, NoError, close_message)
    BY <1>2, <1>9 DEF Peer!MessageFrameDone
  <2>2. buffer' = <<>>
    BY <2>1, Zenon DEF Peer!BufferAfter
  <2>3. frame_count' = Peer!CountAfter(f, NoError) /\ UNCHANGED <<cfg, deflate_cfg>>
    BY <2>1 DEF Peer!Parsed, Peer!config_vars
  <2>4. frame_count' = IF IsControl(f.op) THEN frame_count ELSE IF f.fin THEN 0 ELSE frame_count + 1
    BY <1>8, <2>3, Zenon DEF Peer!CountAfter
  <2>5. deflate_ext' = [deflate_ext EXCEPT !.message_size = Peer!InflatedSizeAfter(f, NoError)]
    BY <2>1 DEF Peer!Parsed
  <2>6. deflate_ext \in [set: BOOLEAN, message_size: Nat, max_message_size: Nat]
    BY DEF Arrives, Typed
  <2>7. Peer!InflatedSizeAfter(f, NoError) \in Nat
    <3>1. deflate_ext.message_size \in Nat
      BY <2>6
    <3> DEFINE kept == IF f.fin THEN 0 ELSE deflate_ext.message_size
               size == Peer!PayloadSize(f, TRUE)
    <3>2. size \in Nat
      BY <1>4 DEF Peer!PayloadSize, Peer!PayloadLength
    <3>3. kept \in Nat
      BY <3>1
    <3> HIDE DEF kept, size
    <3>4. kept + size \in Nat
      BY <3>2, <3>3
    <3> QED BY <3>1, <3>4, Zenon DEF Peer!InflatedSizeAfter, kept, size
  <2> QED BY <1>1, <2>2, <2>3, <2>4, <2>5, <2>6, <2>7
<1>10. CASE Peer!MessageControl(chunk)
  <2>1. /\ Peer!MessageFrameDone(chunk, NoError) /\ Peer!PassesThrough(f, NoError)
        /\ flags' = left /\ looping' = FALSE /\ message' = message
        /\ out'.kind = "message" /\ out'.frames = <<f>>
        /\ out'.error = Peer!Check(Peer!TooLong(0, f), "max_message_size")
    BY <1>2, <1>3, <1>10 DEF Peer!MessageControl, left
  <2>2. IsControl(f.op) /\ out'.error = NoError
    BY <1>5, <1>8, <2>1 DEF Peer!PassesThrough
  <2> QED BY <1>4, <1>9, <2>1, <2>2, FlagsLeft DEF TurnOutcome, left, f, frames
<1>11. CASE Peer!MessageGoesOn(chunk)
  <2>1. /\ Peer!MessageFrameDone(chunk, NoError) /\ ~f.fin
        /\ message' = [frames |-> Append(frames, f), length |-> message.length + Peer!SizeOf(f)]
        /\ flags' = left /\ looping' = Peer!LoopsOn(buffer')
        /\ out' = IF looping' THEN out ELSE Peer!Silent
    BY <1>2, <1>3, <1>11 DEF Peer!MessageGoesOn, left, frames
  <2>2. ~IsControl(f.op)
    BY <1>4, <2>1
  <2>3. looping' = FALSE
    BY <1>9, <2>1 DEF Peer!LoopsOn
  <2>4. out'.kind = "silent" /\ out'.error = NoError
    BY <1>8, <2>1, <2>3 DEF Peer!Silent
  <2>5. message'.frames = Append(frames, f) /\ message' \in [frames: Seq(FrameType), length: Nat]
    <3>1. Append(frames, f) \in Seq(FrameType)
      BY <1>4
    <3>2. message.length + Peer!SizeOf(f) \in Nat
      BY <1>4, <1>6
    <3> QED BY <2>1, <3>1, <3>2
  <2> QED BY <1>9, <2>1, <2>2, <2>3, <2>4, <2>5, FlagsLeft DEF TurnOutcome, left, f, frames
<1>12. CASE Peer!MessageDone(chunk)
  <2>1. /\ Peer!MessageFrameDone(chunk, NoError) /\ ~Peer!PassesThrough(f, NoError)
        /\ Peer!??(NoError, Peer!Check(Peer!TooLong(message.length, f), "max_message_size")) # Peer!NoError \/ f.fin
        /\ message' = Peer!EmptyMessage
        /\ flags' = left \ {"RECV_MESSAGE", "RECV_INFLATE"} /\ looping' = FALSE
        /\ out'.kind = "message" /\ out'.frames = Append(frames, f)
        /\ out'.error = Peer!??(NoError, Peer!Check(Peer!TooLong(message.length, f), "max_message_size"))
    BY <1>2, <1>3, <1>12 DEF Peer!MessageDone, left, frames
  <2>2. out'.error = NoError /\ f.fin
    BY <1>5, <1>8, <2>1
  <2>3. IsControl(f.op) => frames = <<>>
    BY <1>8, <2>1 DEF Peer!PassesThrough, frames
  <2>4. message'.frames = <<>> /\ message' \in [frames: Seq(FrameType), length: Nat]
    BY <2>1 DEF Peer!EmptyMessage
  <2>5. IsControl(f.op) => "RECV_INFLATE" \notin flags /\ Append(frames, f) = <<f>>
    <3>1. frames = <<>> => "RECV_INFLATE" \notin flags
      BY DEF Arrives, Listening, frames
    <3> QED BY <2>3, <3>1
  <2>6. /\ "RECV_FRAME" \notin flags' /\ "ESTABLISHED" \in flags'
        /\ "RECV_CLOSED" \in flags' <=> f.op = CLOSE
        /\ "RECV_INFLATE" \notin flags'
    BY <2>1, FlagsLeft DEF left, f
  <2>7. /\ "RECV_INFLATE" \in flags' <=> IF IsControl(f.op) THEN "RECV_INFLATE" \in flags
                                         ELSE ~f.fin /\ Peer!Inflated(f)
        /\ message'.frames = IF IsControl(f.op) THEN frames ELSE IF f.fin THEN <<>> ELSE Append(frames, f)
        /\ out'.frames = IF IsControl(f.op) THEN <<f>> ELSE Append(frames, f)
    BY <2>1, <2>2, <2>3, <2>4, <2>5, <2>6
  <2> QED BY <1>9, <2>1, <2>2, <2>4, <2>6, <2>7 DEF TurnOutcome, f, frames
<1> QED BY <1>7, <1>10, <1>11, <1>12 DEF Peer!MessageStep, chunk, f

LEMMA Appended ==
    ASSUME NEW S, NEW s \in Seq(S), NEW x \in S
    PROVE  /\ Append(s, x) \in Seq(S) /\ Append(s, x) # <<>>
           /\ Len(s) \in Nat /\ Len(Append(s, x)) = Len(s) + 1
           /\ Append(s, x)[Len(s) + 1] = x
           /\ \A i \in 1 .. Len(s) : Append(s, x)[i] = s[i]
OBVIOUS

\* The fragments received so far, and this one, make up what the view after it says.
LEMMA SizesGoOn ==
    ASSUME NEW v, NEW item, Arrives(v, item), ~IsControl(item.frame.op)
    PROVE  LET f   == item.frame
               all == Append(message.frames, f)
           IN
           /\ all # <<>> /\ all[1].op = Opcode(v, f) /\ all[1].rsv1 = Deflated(v, f)
           /\ Append(v.sizes, f.size) = [i \in 1 .. Len(all) |-> PayloadSize(all[i], Deflated(v, f))]
<1> DEFINE f == item.frame
           frames == message.frames
           all == Append(frames, f)
           n == Len(frames)
           d == Deflated(v, f)
           sizes == Append(v.sizes, f.size)
           whole == [i \in 1 .. Len(all) |-> PayloadSize(all[i], d)]
<1>1. /\ f \in FrameType /\ f.len \in Nat /\ f.size \in Nat /\ f.fin \in BOOLEAN /\ f.op \in Nat
      /\ v.sizes \in Seq(Nat) /\ frames \in Seq(FrameType) /\ n \in Nat
      /\ DataFits(v, item, deflate.set)
  BY ItemParts, ViewParts, ListeningCount DEF Arrives, Follows
<1>2. /\ v.sizes = [i \in 1 .. n |-> PayloadSize(frames[i], v.deflated)]
      /\ frames # <<>> => v.op = frames[1].op /\ v.deflated = frames[1].rsv1
      /\ v.sizes = <<>> <=> frames = <<>>
  BY ListeningCount DEF Arrives, Listening
<1>3. PayloadSize(f, d) = f.size
  <2>1. PayloadLength(f) = f.len
    BY <1>1 DEF PayloadLength, IsControl, CLOSE
  <2>2. CASE ~d
    BY <1>1, <2>1, <2>2, Zenon DEF DataFits, PayloadSize
  <2>3. CASE d /\ f.len = 0
    BY <1>1, <2>3, Zenon DEF DataFits, PayloadSize
  <2>4. CASE d /\ f.len # 0
    BY <2>4, Zenon DEF PayloadSize
  <2> QED BY <2>2, <2>3, <2>4
<1>4. /\ Len(all) = n + 1 /\ all[n + 1] = f /\ \A i \in 1 .. n : all[i] = frames[i]
      /\ all # <<>>
      /\ n = 0 <=> frames = <<>>
  <2> HIDE DEF f, frames
  <2>1. n = 0 <=> frames = <<>>
    BY <1>1
  <2>2. frames \in Seq(FrameType) /\ f \in FrameType
    BY <1>1
  <2>3. Len(all) = n + 1 /\ all[n + 1] = f /\ all # <<>> /\ \A i \in 1 .. n : all[i] = frames[i]
    BY <2>2, Appended
  <2> QED BY <2>1, <2>3
<1>5. frames # <<>> => d = v.deflated
  BY <1>2 DEF Deflated
<1>6. all[1].op = Opcode(v, f) /\ all[1].rsv1 = d
  <2>1. CASE frames = <<>>
    <3>1. n = 0
      BY <2>1
    <3> QED BY <1>2, <1>4, <2>1, <3>1 DEF Opcode, Deflated
  <2>2. CASE frames # <<>>
    <3>1. 1 \in 1 .. n
      BY <1>1, <2>2
    <3> QED BY <1>2, <1>4, <2>2, <3>1 DEF Opcode, Deflated
  <2> QED BY <2>1, <2>2
<1>7. Len(v.sizes) = n /\ \A i \in 1 .. n : v.sizes[i] = PayloadSize(frames[i], v.deflated)
  <2> HIDE DEF n
  <2>1. DOMAIN v.sizes = 1 .. n /\ \A i \in 1 .. n : v.sizes[i] = PayloadSize(frames[i], v.deflated)
    BY <1>2
  <2>2. DOMAIN v.sizes = 1 .. Len(v.sizes) /\ Len(v.sizes) \in Nat
    BY <1>1
  <2> QED BY <1>1, <2>1, <2>2
<1>8. sizes \in Seq(Nat) /\ Len(sizes) = n + 1 /\ sizes[n + 1] = f.size /\ \A i \in 1 .. n : sizes[i] = v.sizes[i]
  BY <1>1, <1>7
<1> HIDE DEF f, frames, all, n, d, sizes
<1>9. ASSUME NEW i \in 1 .. n + 1 PROVE sizes[i] = PayloadSize(all[i], d)
  <2>1. CASE i = n + 1
    BY <1>3, <1>4, <1>8, <2>1
  <2>2. CASE i # n + 1
    <3>1. i \in 1 .. n
      BY <1>1, <2>2
    <3>2. frames # <<>>
      BY <1>1, <1>4, <3>1
    <3> QED BY <1>4, <1>5, <1>7, <1>8, <3>1, <3>2
  <2> QED BY <2>1, <2>2
<1>10. sizes = [i \in 1 .. n + 1 |-> PayloadSize(all[i], d)]
  <2>1. sizes = [i \in 1 .. Len(sizes) |-> sizes[i]]
    BY <1>8
  <2> QED BY <1>8, <1>9, <2>1
<1> QED BY <1>4, <1>6, <1>10 DEF f, frames, all, n, d, sizes

\* The stream stands where the view after the frame says.
LEMMA StreamGoesOn ==
    ASSUME NEW v, NEW item, Arrives(v, item)
    PROVE  LET next == StreamAfterFrame(item) IN
           /\ next \in [window: Seq(Nat), aligned: BOOLEAN, reset_after: BOOLEAN]
           /\ next.window = After(v, item.frame, rx.reset_after).window
           /\ next.aligned = TRUE /\ next.reset_after = rx.reset_after
<1> DEFINE f == item.frame
           reset == rx.reset_after
           next == StreamAfterFrame(item)
<1>1. /\ rx \in [window: Seq(Nat), aligned: BOOLEAN, reset_after: BOOLEAN]
      /\ rx.aligned = TRUE /\ v.window = rx.window /\ v \in ViewType
      /\ f.size \in Nat /\ f.len \in Nat /\ f.fin \in BOOLEAN
  BY ItemParts DEF Arrives, Typed, Open, Listening
<1>2. CASE IsControl(f.op)
  <2>1. next = rx
    BY <1>2 DEF StreamAfterFrame, Inflates
  <2>2. After(v, f, reset).window = v.window
    <3>1. AfterControl(v, f).window = v.window
      BY <1>1 DEF AfterControl, ViewType
    <3> QED BY <1>2, <3>1 DEF After
  <2> QED BY <1>1, <2>1, <2>2
<1>3. CASE ~IsControl(f.op)
  <2>1. Inflates(item) <=> Deflated(v, f)
    BY <1>3, InflatedIs DEF Inflates
  <2>2. After(v, f, reset).window = WindowAfter(v, f, reset)
    BY <1>3 DEF After, AfterData
  <2>3. DataFits(v, item, deflate.set)
    BY <1>3 DEF Arrives, Follows
  <2>4. CASE ~Deflated(v, f)
    <3>1. next = rx
      BY <2>1, <2>4 DEF StreamAfterFrame
    <3>2. WindowAfter(v, f, reset) = v.window
      BY <2>4 DEF WindowAfter
    <3> QED BY <1>1, <2>2, <3>1, <3>2
  <2>5. CASE Deflated(v, f) /\ f.fin /\ reset
    <3>1. next = Empty(TRUE)
      BY <2>1, <2>5 DEF StreamAfterFrame
    <3>2. WindowAfter(v, f, reset) = <<>>
      BY <2>5 DEF WindowAfter
    <3>3. reset = TRUE
      BY <1>1, <2>5
    <3> HIDE DEF next, f
    <3>4. Empty(TRUE) \in [window: Seq(Nat), aligned: BOOLEAN, reset_after: BOOLEAN]
      BY DEF Empty
    <3>5. Empty(TRUE).window = <<>> /\ Empty(TRUE).aligned = TRUE /\ Empty(TRUE).reset_after = TRUE
      BY DEF Empty
    <3> QED BY <2>2, <3>1, <3>2, <3>3, <3>4, <3>5, Zenon DEF next, f
  <2>6. CASE Deflated(v, f) /\ ~(f.fin /\ reset)
    <3>1. ~(f.fin /\ f.len = 0)
      BY <2>3, <2>6 DEF DataFits
    <3> DEFINE window == IF f.size > 0 THEN Append(rx.window, f.size) ELSE rx.window
               aligned == rx.aligned /\ ~(f.fin /\ f.len = 0)
    <3>2. next = [rx EXCEPT !.window = window, !.aligned = aligned]
      BY <2>1, <2>6 DEF StreamAfterFrame
    <3>3. WindowAfter(v, f, reset) = window
      BY <1>1, <2>6, Zenon DEF WindowAfter
    <3>4. window \in Seq(Nat)
      <4>1. rx.window \in Seq(Nat)
        BY <1>1
      <4>2. Append(rx.window, f.size) \in Seq(Nat)
        BY <1>1, <4>1
      <4> QED BY <4>1, <4>2
    <3>5. aligned = TRUE
      BY <1>1, <3>1
    <3> HIDE DEF window, aligned
    <3> QED BY <1>1, <2>2, <3>2, <3>3, <3>4, <3>5
  <2> QED BY <2>4, <2>5, <2>6
<1> QED BY <1>2, <1>3

\* What is handed over for a frame, out' being what the turn returned.
HeardNow ==
    heard' = IF out'.kind = "message" /\ out'.error = NoError
             THEN Append(heard, Message(out'.frames[1].op,
                     [i \in DOMAIN out'.frames |-> PayloadSize(out'.frames[i], out'.frames[1].rsv1)]))
             ELSE heard

LEMMA HearTurn ==
    ASSUME NEW v, NEW item, Arrives(v, item), Hear, item = Head(wire)
    PROVE  TurnOutcome(item.frame) /\ rx' = StreamAfterFrame(item) /\ HeardNow
<1> DEFINE chunk == <<Peer!Whole(item.frame)>>
<1>1. Arriving(item) = item.frame
  BY ArrivesWhole
<1>2. /\ Peer!MessageStep(chunk) \/ Peer!ReturnsNothing(chunk)
      /\ rx' = IF out'.error = NoError THEN StreamAfterFrame(item) ELSE Empty(rx.reset_after)
      /\ HeardNow
  BY <1>1, Zenon DEF Hear, HeardNow
<1>3. ~Peer!ReturnsNothing(chunk)
  <2>1. Peer!Fed(chunk) # <<>>
    <3>1. buffer = <<>>
      BY DEF Arrives, Open
    <3> QED BY <3>1, ChunkIs
  <2>2. "RECV_CLOSED" \notin flags
    BY DEF Arrives, Listening, Follows
  <2> HIDE DEF chunk
  <2> QED BY <2>1, <2>2 DEF Peer!ReturnsNothing, Peer!Set
<1>4. TurnOutcome(item.frame)
  BY <1>2, <1>3, TurnTaken
<1>5. out'.error = NoError
  BY <1>4 DEF TurnOutcome
<1> QED BY <1>2, <1>4, <1>5

\* The receiver stands where the view after the frame says.
LEMMA ListeningOn ==
    ASSUME NEW v, NEW item, NEW u, Arrives(v, item), u = After(v, item.frame, rx.reset_after),
           TurnOutcome(item.frame), rx' = StreamAfterFrame(item), HeardNow
    PROVE  Listening(u)'
<1> DEFINE f == item.frame
           frames == message.frames
           all == Append(frames, f)
<1>1. /\ f \in FrameType /\ f.len \in Nat /\ f.size \in Nat /\ f.fin \in BOOLEAN /\ f.op \in Nat
      /\ v \in ViewType /\ frames \in Seq(FrameType) /\ frame_count = Len(frames)
  BY ItemParts, ListeningCount DEF Arrives
<1>2. u.window = rx'.window
  BY StreamGoesOn
<1>3. CASE IsControl(f.op)
  <2>1. u = AfterControl(v, f)
    BY <1>3 DEF After
  <2>2. /\ u.sizes = v.sizes /\ u.deflated = v.deflated /\ u.op = v.op
        /\ u.closed <=> f.op = CLOSE
        /\ u.heard = Append(v.heard, Message(f.op, <<f.size>>))
    BY <1>1, <2>1 DEF AfterControl, ViewType
  <2>3. /\ message'.frames = frames /\ frame_count' = frame_count
        /\ out'.kind = "message" /\ out'.error = NoError /\ out'.frames = <<f>>
        /\ "RECV_CLOSED" \in flags' <=> f.op = CLOSE
        /\ "RECV_INFLATE" \in flags' <=> "RECV_INFLATE" \in flags
    BY <1>3 DEF TurnOutcome
  <2>4. heard' = Append(heard, Message(f.op, <<f.size>>))
    <3>1. /\ <<f>>[1] = f
          /\ [i \in DOMAIN <<f>> |-> PayloadSize(<<f>>[i], f.rsv1)] = <<PayloadSize(f, f.rsv1)>>
      <4> HIDE DEF f
      <4> QED OBVIOUS
    <3>2. PayloadSize(f, f.rsv1) = f.size
      <4>1. ControlFits(f)
        BY <1>3 DEF Arrives, Follows
      <4>2. PayloadSize(f, f.rsv1) = PayloadLength(f)
        BY <4>1 DEF ControlFits, PayloadSize
      <4>3. PayloadLength(f) = f.size
        BY <1>1, <4>1 DEF ControlFits, PayloadLength
      <4> QED BY <4>2, <4>3
    <3> HIDE DEF f
    <3> QED BY <2>3, <3>1, <3>2 DEF HeardNow
  <2>5. /\ v.sizes = [i \in 1 .. Len(frames) |-> PayloadSize(frames[i], v.deflated)]
        /\ frames = <<>> => ~v.deflated
        /\ frames # <<>> => v.op = frames[1].op /\ v.deflated = frames[1].rsv1
        /\ v.deflated <=> "RECV_INFLATE" \in flags
        /\ v.heard = heard
    BY DEF Arrives, Listening
  <2> HIDE DEF f, frames
  <2> QED BY <1>1, <1>2, <2>2, <2>3, <2>4, <2>5 DEF Listening
<1>4. CASE ~IsControl(f.op)
  <2>1. u = AfterData(v, f, rx.reset_after)
    BY <1>4 DEF After
  <2>2. /\ all # <<>> /\ all[1].op = Opcode(v, f) /\ all[1].rsv1 = Deflated(v, f)
        /\ Append(v.sizes, f.size) = [i \in 1 .. Len(all) |-> PayloadSize(all[i], Deflated(v, f))]
    BY <1>4, SizesGoOn
  <2>3. /\ v.closed = FALSE /\ v.heard = heard /\ f.op # CLOSE
    <3>1. IsControl(CLOSE)
      BY DEF IsControl, CLOSE
    <3>2. v.closed = FALSE
      BY ViewParts DEF Arrives, Follows
    <3> QED BY <1>4, <3>1, <3>2 DEF Arrives, Listening
  <2>4. u.closed = v.closed
    BY <2>1 DEF AfterData
  <2>5. "RECV_CLOSED" \notin flags'
    BY <2>3 DEF TurnOutcome
  <2>6. Len(all) = Len(frames) + 1 /\ DOMAIN all = 1 .. Len(all)
    <3> HIDE DEF f, frames
    <3>1. Len(all) = Len(frames) + 1 /\ all \in Seq(FrameType)
      BY <1>1, Appended
    <3> HIDE DEF all
    <3> QED BY <3>1
  <2>7. CASE f.fin
    <3>1. /\ u.sizes = <<>> /\ ~u.deflated
          /\ u.heard = Append(v.heard, Message(Opcode(v, f), Append(v.sizes, f.size)))
      <4> DEFINE heard1 == Append(v.heard, Message(Opcode(v, f), Append(v.sizes, f.size)))
                 deflated == ~f.fin /\ Deflated(v, f)
      <4>1. u.sizes = <<>> /\ u.deflated = deflated
        BY <2>1, <2>7 DEF AfterData
      <4>2. u.heard = heard1
        <5> HIDE DEF heard1
        <5> QED BY <2>1, <2>7 DEF AfterData, heard1
      <4>3. ~deflated
        BY <2>7
      <4> HIDE DEF deflated
      <4> QED BY <4>1, <4>2, <4>3
    <3>2. /\ message'.frames = <<>> /\ frame_count' = 0
          /\ out'.kind = "message" /\ out'.error = NoError /\ out'.frames = all
          /\ "RECV_INFLATE" \notin flags'
      BY <1>4, <2>7 DEF TurnOutcome
    <3>3. heard' = Append(heard, Message(Opcode(v, f), Append(v.sizes, f.size)))
      <4> HIDE DEF all, f
      <4> QED BY <2>2, <2>6, <3>2 DEF HeardNow
    <3> QED BY <1>2, <2>3, <2>4, <2>5, <3>1, <3>2, <3>3 DEF Listening
  <2>8. CASE ~f.fin
    <3>1. /\ u.sizes = Append(v.sizes, f.size) /\ u.deflated = Deflated(v, f) /\ u.op = Opcode(v, f)
          /\ u.heard = v.heard
      <4>1. Deflated(v, f) \in BOOLEAN
        BY <1>1, ViewParts DEF Deflated, FrameType
      <4> QED BY <2>1, <2>8, <4>1 DEF AfterData
    <3>2. /\ message'.frames = all /\ frame_count' = frame_count + 1
          /\ out'.kind # "message"
          /\ "RECV_INFLATE" \in flags' <=> Peer!Inflated(f)
      BY <1>4, <2>8 DEF TurnOutcome
    <3>3. heard' = heard
      BY <3>2 DEF HeardNow
    <3>4. Peer!Inflated(f) <=> Deflated(v, f)
      BY <1>4, InflatedIs
    <3> HIDE DEF f, frames, all
    <3> QED BY <1>1, <1>2, <2>2, <2>3, <2>4, <2>5, <2>6, <3>1, <3>2, <3>3, <3>4 DEF Listening
  <2> QED BY <2>7, <2>8
<1> QED BY <1>3, <1>4

\* To be in line in the next state, with the two ends of the line named.
LEMMA NextInLine ==
    ASSUME NEW views, NEW first, NEW last, first = views[0], last = views[Len(wire')],
           Line(views, wire', deflate'.set, rx'.reset_after),
           Listening(first)', last.heard = said', ~aborted' => Speaking(last)'
    PROVE  InLine(views)'
<1>1. Line(views, wire, deflate.set, rx.reset_after)'
  BY DEF Line
<1>2. Listening(views[0])'
  BY DEF Listening
<1>3. ~aborted' => Speaking(views[Len(wire)])'
  BY DEF Speaking
<1> QED BY <1>1, <1>2, <1>3 DEF InLine

LEMMA HearKeeps == ASSUME ConversationInv, Hear PROVE ConversationInv'
<1> PICK views : InLine(views)
  BY DEF ConversationInv
<1> PICK item : item = Head(wire)
  OBVIOUS
<1>1. /\ wire # <<>> /\ wire' = Tail(wire)
      /\ UNCHANGED <<established, deflate, send_flags, send_opcode, sent_frame_count, tx, aborted,
                     deal, saying, said>>
  BY DEF Hear
<1>2. /\ Typed /\ Open /\ Together /\ established
      /\ wire \in Seq(ItemType) /\ Len(wire) \in Nat /\ Len(wire) > 0
      /\ item = wire[1] /\ item \in ItemType
  <2>1. Typed /\ Open /\ Together /\ Fresh
    BY DEF ConversationInv
  <2>2. established
    BY <1>1, <2>1 DEF Fresh
  <2>3. wire \in Seq(ItemType)
    BY <2>1 DEF Typed
  <2>4. Len(wire) \in Nat /\ Len(wire) > 0 /\ item = wire[1] /\ item \in ItemType
    BY <1>1, <2>3
  <2> QED BY <2>1, <2>2, <2>3, <2>4
<1>3. Line(views, wire, deflate.set, rx.reset_after) /\ Listening(views[0])
  BY DEF InLine
<1>4. /\ views[0] \in ViewType /\ Follows(views[0], item, deflate.set)
      /\ views[1] = After(views[0], item.frame, rx.reset_after)
  <2>1. 0 \in 0 .. Len(wire) /\ 1 \in 1 .. Len(wire) /\ 1 - 1 = 0
    BY <1>2
  <2> QED BY <1>2, <1>3, <2>1 DEF Line
<1>5. Arrives(views[0], item)
  BY <1>2, <1>3, <1>4 DEF Arrives
<1>6. TurnOutcome(item.frame) /\ rx' = StreamAfterFrame(item) /\ HeardNow
  BY <1>5, HearTurn
<1>7. Listening(views[1])'
  BY <1>4, <1>5, <1>6, ListeningOn
<1>8. /\ rx' \in [window: Seq(Nat), aligned: BOOLEAN, reset_after: BOOLEAN]
      /\ rx'.aligned = TRUE /\ rx'.reset_after = rx.reset_after
  BY <1>5, <1>6, StreamGoesOn
<1>9. Typed'
  <2>1. wire' \in Seq(ItemType)
    BY <1>1, <1>2
  <2>2. message' \in [frames: Seq(FrameType), length: Nat]
    BY <1>6 DEF TurnOutcome
  <2>3. deflate_ext' \in [set: BOOLEAN, message_size: Nat, max_message_size: Nat]
    BY <1>6 DEF TurnOutcome
  <2> QED BY <1>1, <1>2, <1>8, <2>1, <2>2, <2>3 DEF Typed
<1>10. Open'
  BY <1>2, <1>6, <1>8 DEF TurnOutcome, Open
<1>11. Together'
  BY <1>1, <1>2, <1>6, <1>8 DEF TurnOutcome, Together
<1>12. Fresh'
  BY <1>1, <1>2 DEF Fresh
<1>13. PICK later : later = [i \in 0 .. Len(Tail(wire)) |-> views[i + 1]]
  OBVIOUS
<1>14. InLine(later)'
  <2>1. Line(later, wire', deflate'.set, rx'.reset_after)
    <3>1. Line(later, Tail(wire), deflate.set, rx.reset_after)
      BY <1>1, <1>2, <1>3, <1>13, LineTail
    <3> QED BY <1>1, <1>8, <3>1
  <2>2. Len(wire') \in Nat /\ Len(wire') + 1 = Len(wire)
    BY <1>1, <1>2
  <2>3. later[0] = views[1] /\ later[Len(wire')] = views[Len(wire)]
    <3>1. 0 \in 0 .. Len(wire') /\ Len(wire') \in 0 .. Len(wire') /\ 0 + 1 = 1
      BY <2>2
    <3>2. \A i \in 0 .. Len(wire') : later[i] = views[i + 1]
      BY <1>1, <1>13
    <3> QED BY <2>2, <3>1, <3>2
  <2> PICK first, last : first = views[1] /\ last = views[Len(wire)]
    OBVIOUS
  <2>4. Listening(first)'
    BY <1>7
  <2>5. last.heard = said'
    BY <1>1 DEF InLine
  <2>6. ~aborted' => Speaking(last)'
    <3>1. ~aborted => Speaking(last)
      BY DEF InLine
    <3> QED BY <1>1, <3>1 DEF Speaking, Sends
  <2> QED BY <2>1, <2>3, <2>4, <2>5, <2>6, NextInLine
<1> QED BY <1>9, <1>10, <1>11, <1>12, <1>14 DEF ConversationInv

-------------------------------------------------------------------------------
(* The connection.                                                         *)

\* Nothing is under way.
Blank ==
    /\ wire = <<>> /\ saying = <<>> /\ said = <<>> /\ heard = <<>>
    /\ send_flags = {} /\ "RECV_INFLATE" \notin flags /\ "RECV_CLOSED" \notin flags
    /\ tx.window = <<>> /\ rx.window = <<>>
    /\ message.frames = <<>> /\ frame_count = 0 /\ sent_frame_count = 0

LEMMA BlankLine == Blank => \E views : InLine(views)
<1> DEFINE v == [op |-> CONTINUE, deflated |-> FALSE, sizes |-> <<>>, window |-> <<>>,
                 closed |-> FALSE, heard |-> <<>>]
           views == [i \in 0 .. 0 |-> v]
<1> SUFFICES ASSUME Blank PROVE InLine(views)
  OBVIOUS
<1>1. v \in ViewType
  BY DEF ViewType, Opcodes, CONTINUE
<1>2. views[0] = v /\ \A i \in 0 .. 0 : views[i] = v
  OBVIOUS
<1>3. /\ v.deflated = FALSE /\ v.sizes = <<>> /\ v.window = <<>> /\ v.closed = FALSE /\ v.heard = <<>>
  OBVIOUS
<1> HIDE DEF v, views
<1>4. Len(wire) = 0
  BY DEF Blank
<1>5. Line(views, wire, deflate.set, rx.reset_after)
  <2>1. \A i \in 1 .. 0 : FALSE
    OBVIOUS
  <2> QED BY <1>1, <1>2, <1>4, <2>1 DEF Line
<1>6. Listening(v)
  BY <1>3 DEF Blank, Listening
<1>7. Speaking(v)
  <2>1. IsSuffix(<<>>, <<>>)
    BY DEF IsSuffix
  <2> QED BY <1>3, <2>1 DEF Blank, Speaking, Sends
<1>8. v.heard = said
  BY <1>3 DEF Blank
<1> QED BY <1>2, <1>4, <1>5, <1>6, <1>7, <1>8 DEF InLine

LEMMA BlankNext == (Blank => \E views : InLine(views))'
BY BlankLine, PTL

LEMMA InitKeeps == Init => ConversationInv
<1> SUFFICES ASSUME Init PROVE ConversationInv
  OBVIOUS
<1>1. /\ wire = <<>> /\ saying = <<>> /\ said = <<>> /\ heard = <<>> /\ rx = Empty(FALSE)
      /\ tx = FreshStream /\ deflate = [set |-> FALSE, reset_after_tx |-> FALSE]
      /\ established = FALSE /\ aborted = FALSE /\ sent_frame_count = 0 /\ send_flags = {}
  BY DEF Init, SendInit
<1>2. /\ deflate_ext = Peer!NoDeflateExt /\ flags = {} /\ buffer = <<>> /\ message = Peer!EmptyMessage
      /\ frame_count = 0 /\ looping = FALSE /\ out = Peer!Silent
      /\ cfg \in [max_frame_size: {0}, max_message_size: {0}, check_utf8: {FALSE}, deflate: BOOLEAN]
      /\ deflate_cfg = [set |-> cfg.deflate,
                        max_message_size |-> IF cfg.deflate THEN cfg.max_message_size ELSE 0]
  BY DEF Init, Peer!Init
<1>3. tx.window = <<>> /\ rx.window = <<>> /\ rx.aligned = TRUE /\ message.frames = <<>>
  BY <1>1, <1>2 DEF FreshStream, Empty, Peer!EmptyMessage
<1>4. Typed
  <2>1. tx \in [window: Seq(Nat), flushed: BOOLEAN]
    BY <1>1 DEF FreshStream
  <2>2. rx \in [window: Seq(Nat), aligned: BOOLEAN, reset_after: BOOLEAN]
    BY <1>1 DEF Empty
  <2>3. deflate \in [set: BOOLEAN, reset_after_tx: BOOLEAN]
    BY <1>1
  <2>4. message \in [frames: Seq(FrameType), length: Nat]
    BY <1>2 DEF Peer!EmptyMessage
  <2>5. deflate_ext \in [set: BOOLEAN, message_size: Nat, max_message_size: Nat]
    BY <1>2 DEF Peer!NoDeflateExt
  <2>6. wire \in Seq(ItemType) /\ saying \in Seq(Nat) /\ said \in Seq(MessageType)
    BY <1>1
  <2>7. established \in BOOLEAN /\ aborted \in BOOLEAN /\ sent_frame_count \in Nat
    BY <1>1
  <2> QED BY <2>1, <2>2, <2>3, <2>4, <2>5, <2>6, <2>7, Zenon DEF Typed
<1>5. Open
  <2>1. cfg.max_frame_size = 0 /\ cfg.max_message_size = 0 /\ ~cfg.check_utf8
    BY <1>2
  <2>2. deflate_cfg.max_message_size = 0
    BY <1>2, <2>1
  <2>3. deflate_ext.max_message_size = 0 /\ out.error = NoError
    BY <1>2, SameWords DEF Peer!NoDeflateExt, Peer!Silent
  <2> QED BY <1>2, <1>3, <2>1, <2>2, <2>3 DEF Open
<1>6. Together
  <2>1. deflate.set = FALSE
    BY <1>1
  <2> QED BY <1>1, <1>2, <2>1 DEF Together
<1>7. Fresh
  BY <1>1, <1>2, <1>3 DEF Fresh
<1>8. Blank
  BY <1>1, <1>2, <1>3 DEF Blank
<1> QED BY <1>4, <1>5, <1>6, <1>7, <1>8, BlankLine DEF ConversationInv

LEMMA ConnectKeeps ==
    ASSUME ConversationInv, Masks \in BOOLEAN, DealAgrees, Connect
    PROVE  ConversationInv'
<1> DEFINE mine   == deal[MyEnd].result = "success"
           theirs == deal[TheirEnd].result = "success"
           txreset == mine /\ ResetAfterTx(deal[MyEnd].cfg, MyEnd)
           rxreset == theirs /\ ResetAfterRx(deal[TheirEnd].cfg, TheirEnd)
<1>1. /\ Establish(mine, txreset) /\ Peer!Establish(theirs, <<>>)
      /\ rx' = Empty(rxreset) /\ UNCHANGED <<deal, wire, saying, said, heard>>
  BY DEF Connect
<1>2. mine <=> theirs
  BY DEF DealAgrees, MyEnd, TheirEnd
<1>3. rxreset => txreset
  <2>1. CASE Masks
    <3>1. MyEnd = "client" /\ TheirEnd = "server"
      BY <2>1 DEF MyEnd, TheirEnd
    <3> QED BY <3>1 DEF DealAgrees
  <2>2. CASE ~Masks
    <3>1. MyEnd = "server" /\ TheirEnd = "client"
      BY <2>2 DEF MyEnd, TheirEnd
    <3> QED BY <3>1 DEF DealAgrees
  <2> QED BY <2>1, <2>2
<1>4. mine \in BOOLEAN /\ theirs \in BOOLEAN /\ txreset \in BOOLEAN /\ rxreset \in BOOLEAN
  OBVIOUS
<1> HIDE DEF mine, theirs, txreset, rxreset
<1>5. Typed /\ Open /\ Together /\ Fresh
  BY DEF ConversationInv
<1>6. /\ ~established /\ established' = TRUE
      /\ deflate' = IF mine THEN [set |-> TRUE, reset_after_tx |-> txreset] ELSE deflate
      /\ tx' = IF mine THEN FreshStream ELSE tx
      /\ UNCHANGED <<send_flags, send_opcode, sent_frame_count, aborted>>
  BY <1>1 DEF Establish
<1>7. /\ flags' = flags \cup {"ESTABLISHED"}
      /\ deflate_ext' = IF theirs
                        THEN [set |-> TRUE, message_size |-> 0, max_message_size |-> deflate_cfg.max_message_size]
                        ELSE deflate_ext
      /\ UNCHANGED <<cfg, deflate_cfg, frame_count, message, looping, out>>
  BY <1>1 DEF Peer!Establish, Peer!config_vars
<1>8. buffer' = <<>>
  <2>1. buffer' = <<>> \/ buffer' = buffer
    BY <1>1 DEF Peer!Establish
  <2> QED BY <1>5, <2>1 DEF Open
<1>9. rx' \in [window: Seq(Nat), aligned: BOOLEAN, reset_after: BOOLEAN]
      /\ rx'.window = <<>> /\ rx'.aligned = TRUE /\ rx'.reset_after = rxreset
  BY <1>1, <1>4 DEF Empty
<1>10. tx' \in [window: Seq(Nat), flushed: BOOLEAN] /\ tx'.window = <<>>
  <2>1. FreshStream \in [window: Seq(Nat), flushed: BOOLEAN] /\ FreshStream.window = <<>>
    BY DEF FreshStream
  <2>2. tx \in [window: Seq(Nat), flushed: BOOLEAN] /\ tx.window = <<>>
    BY <1>5, <1>6 DEF Typed, Fresh
  <2> QED BY <1>6, <2>1, <2>2
<1>11. deflate' \in [set: BOOLEAN, reset_after_tx: BOOLEAN]
  <2>1. [set |-> TRUE, reset_after_tx |-> txreset] \in [set: BOOLEAN, reset_after_tx: BOOLEAN]
    BY <1>4
  <2>2. deflate \in [set: BOOLEAN, reset_after_tx: BOOLEAN]
    BY <1>5 DEF Typed
  <2> QED BY <1>6, <2>1, <2>2
<1>12. deflate_ext' \in [set: BOOLEAN, message_size: Nat, max_message_size: Nat]
       /\ deflate_ext'.max_message_size = 0
  <2>1. /\ deflate_ext \in [set: BOOLEAN, message_size: Nat, max_message_size: Nat]
        /\ deflate_ext.max_message_size = 0 /\ deflate_cfg.max_message_size = 0
    BY <1>5 DEF Typed, Open
  <2> QED BY <1>7, <2>1
<1>13. Typed'
  <2>1. /\ wire' \in Seq(ItemType) /\ saying' \in Seq(Nat) /\ said' \in Seq(MessageType)
        /\ established' \in BOOLEAN /\ aborted' \in BOOLEAN /\ sent_frame_count' \in Nat
        /\ message' \in [frames: Seq(FrameType), length: Nat]
    BY <1>1, <1>5, <1>6, <1>7 DEF Typed
  <2> QED BY <1>9, <1>10, <1>11, <1>12, <2>1, Zenon DEF Typed
<1>14. Open'
  BY <1>5, <1>7, <1>8, <1>9, <1>12 DEF Open
<1>15. Together'
  <2>1. established' <=> "ESTABLISHED" \in flags'
    BY <1>6, <1>7
  <2>2. deflate'.set => deflate_ext'.set
    <3>1. deflate.set => deflate_ext.set
      BY <1>5 DEF Together
    <3> QED BY <1>2, <1>6, <1>7, <3>1
  <2>3. rx'.reset_after => deflate'.reset_after_tx
    <3>1. rxreset => mine /\ txreset
      BY <1>3 DEF txreset
    <3> QED BY <1>6, <1>9, <3>1
  <2> QED BY <2>1, <2>2, <2>3 DEF Together
<1>16. Fresh'
  BY <1>6 DEF Fresh
<1>17. Blank'
  BY <1>1, <1>5, <1>6, <1>7, <1>9, <1>10 DEF Fresh, Blank
<1> QED BY <1>13, <1>14, <1>15, <1>16, <1>17, BlankNext DEF ConversationInv

LEMMA ReconnectKeeps ==
    ASSUME ConversationInv, InterruptedReset = FALSE, Reconnect
    PROVE  ConversationInv'
<1>1. /\ Reset /\ Peer!Reset /\ saying = <<>> /\ rx' = Empty(rx.reset_after)
      /\ wire' = <<>> /\ saying' = <<>> /\ said' = <<>> /\ heard' = <<>>
  BY DEF Reconnect
<1>2. Typed /\ Open /\ Together
  BY DEF ConversationInv
<1>3. /\ ~aborted /\ established' = FALSE /\ send_flags' = {} /\ tx' = FreshStream
      /\ UNCHANGED <<deflate, sent_frame_count, aborted>>
  BY <1>1 DEF Reset
<1>4. /\ buffer' = <<>> /\ flags' = {} /\ frame_count' = 0 /\ message' = Peer!EmptyMessage
      /\ out' = Peer!Silent /\ UNCHANGED <<cfg, deflate_cfg, deflate_ext, looping>>
  BY <1>1 DEF Peer!Reset, Peer!config_vars
<1>5. sent_frame_count = 0
  <2>1. PICK views : InLine(views)
    BY DEF ConversationInv
  <2> QED BY <1>1, <1>3, <2>1 DEF InLine, Speaking
<1>6. rx' \in [window: Seq(Nat), aligned: BOOLEAN, reset_after: BOOLEAN]
      /\ rx'.window = <<>> /\ rx'.aligned = TRUE
  <2>1. rx.reset_after \in BOOLEAN
    BY <1>2 DEF Typed
  <2> QED BY <1>1, <2>1 DEF Empty
<1>7. tx' \in [window: Seq(Nat), flushed: BOOLEAN] /\ tx'.window = <<>>
  BY <1>3 DEF FreshStream
<1>8. message' \in [frames: Seq(FrameType), length: Nat] /\ message'.frames = <<>>
  BY <1>4 DEF Peer!EmptyMessage
<1>9. Typed'
  <2>1. wire' \in Seq(ItemType) /\ saying' \in Seq(Nat) /\ said' \in Seq(MessageType)
    BY <1>1
  <2>2. /\ established' \in BOOLEAN /\ aborted' \in BOOLEAN /\ sent_frame_count' \in Nat
        /\ deflate' \in [set: BOOLEAN, reset_after_tx: BOOLEAN]
        /\ deflate_ext' \in [set: BOOLEAN, message_size: Nat, max_message_size: Nat]
    BY <1>2, <1>3, <1>4 DEF Typed
  <2> QED BY <1>6, <1>7, <1>8, <2>1, <2>2, Zenon DEF Typed
<1>10. Open'
  <2>1. out'.error = NoError
    BY <1>4, SameWords DEF Peer!Silent
  <2> QED BY <1>2, <1>4, <1>6, <2>1 DEF Open
<1>11. Together'
  BY <1>2, <1>3, <1>4 DEF Together
<1>12. Fresh'
  <2>1. aborted' = FALSE
    BY <1>2, <1>3 DEF Typed
  <2> QED BY <1>1, <1>3, <1>4, <1>5, <1>6, <1>7, <1>8, <2>1 DEF Fresh
<1>13. Blank'
  BY <1>1, <1>3, <1>4, <1>5, <1>6, <1>7, <1>8 DEF Blank
<1> QED BY <1>9, <1>10, <1>11, <1>12, <1>13, BlankNext DEF ConversationInv

-------------------------------------------------------------------------------
(* The sender.                                                             *)

LEMMA SameElements ==
    ASSUME NEW S, NEW a \in Seq(S), NEW b \in Seq(S), Len(a) = Len(b), \A i \in 1 .. Len(a) : a[i] = b[i]
    PROVE  a = b
OBVIOUS

LEMMA SuffixNone == ASSUME NEW t \in Seq(Nat) PROVE IsSuffix(<<>>, t)
BY DEF IsSuffix

\* What ends a window still ends it when both grow alike.
LEMMA SuffixGrows ==
    ASSUME NEW s \in Seq(Nat), NEW t \in Seq(Nat), NEW r \in Seq(Nat), IsSuffix(s, t)
    PROVE  IsSuffix(s \o r, t \o r)
<1> DEFINE k == Len(s)
           n == Len(t)
           m == Len(r)
           a == s \o r
           b == t \o r
           tail == SubSeq(b, (n + m) - (k + m) + 1, n + m)
<1>1. k \in Nat /\ n \in Nat /\ m \in Nat
  OBVIOUS
<1>2. k <= n /\ SubSeq(t, n - k + 1, n) = s
  BY DEF IsSuffix
<1>3. a \in Seq(Nat) /\ Len(a) = k + m /\ \A i \in 1 .. k + m : a[i] = IF i <= k THEN s[i] ELSE r[i - k]
  OBVIOUS
<1>4. b \in Seq(Nat) /\ Len(b) = n + m /\ \A i \in 1 .. n + m : b[i] = IF i <= n THEN t[i] ELSE r[i - n]
  OBVIOUS
<1>5. \A i \in 1 .. k : s[i] = t[(n - k) + i]
  <2>1. \A i \in 1 .. k : SubSeq(t, n - k + 1, n)[i] = t[(n - k) + i]
    BY <1>1, <1>2, SMTT(30)
  <2> QED BY <1>2, <2>1
<1> HIDE DEF k, n, m, a, b
<1>6. tail \in Seq(Nat) /\ Len(tail) = k + m /\ \A i \in 1 .. k + m : tail[i] = b[(n - k) + i]
  <2>1. (n + m) - (k + m) + 1 = (n - k) + 1 /\ (n - k) + 1 \in 1 .. n + m + 1 /\ n + m <= Len(b)
    BY <1>1, <1>2, <1>4
  <2>2. tail = SubSeq(b, (n - k) + 1, n + m)
    BY <2>1
  <2> QED BY <1>1, <1>2, <1>4, <2>1, <2>2
<1> HIDE DEF tail
<1>7. ASSUME NEW i \in 1 .. k + m PROVE tail[i] = a[i]
  <2>1. CASE i <= k
    <3>1. i \in 1 .. k /\ (n - k) + i \in 1 .. n + m /\ (n - k) + i <= n
      BY <1>1, <1>2, <2>1
    <3> QED BY <1>3, <1>4, <1>5, <1>6, <2>1, <3>1
  <2>2. CASE ~(i <= k)
    <3> PICK j : j = (n - k) + i
      OBVIOUS
    <3>1. j \in 1 .. n + m /\ ~(j <= n) /\ j - n = i - k
      BY <1>1, <1>2, <2>2
    <3>2. tail[i] = b[j]
      BY <1>6
    <3>3. b[j] = r[j - n]
      BY <1>4, <3>1
    <3>4. a[i] = r[i - k]
      BY <1>3, <2>2
    <3> QED BY <3>1, <3>2, <3>3, <3>4
  <2> QED BY <2>1, <2>2
<1>8. tail = a
  BY <1>3, <1>6, <1>7, SameElements
<1>9. k + m <= n + m
  BY <1>1, <1>2
<1> QED BY <1>3, <1>4, <1>8, <1>9 DEF IsSuffix, tail, a, b

\* A frame that was not compressed, as it goes on the wire.
IsPlain(item, op, fin, rsv1, len, size, code) ==
    /\ item \in ItemType /\ item.compressed = FALSE
    /\ item.frame.op = op /\ item.frame.fin = fin /\ item.frame.rsv1 = rsv1
    /\ item.frame.len = len /\ item.frame.size = size /\ item.frame.code = code
    /\ item.frame.masked = Masks /\ item.frame.rsv23 = FALSE /\ item.frame.corrupt = FALSE

LEMMA PlainIs ==
    ASSUME NEW op \in Opcodes, NEW fin \in BOOLEAN, NEW rsv1 \in BOOLEAN,
           NEW len \in Nat, NEW size \in Nat, NEW code \in Nat, Masks \in BOOLEAN
    PROVE  IsPlain(PlainItem(SentFrame(op, fin, rsv1, len, size, code)), op, fin, rsv1, len, size, code)
<1> DEFINE f == SentFrame(op, fin, rsv1, len, size, code)
<1>1. f \in FrameType
  <2> DEFINE text == IF size = 0 THEN "empty" ELSE "whole"
  <2>1. text \in TextClasses
    BY DEF TextClasses
  <2>2. f = [op |-> op, fin |-> fin, rsv1 |-> rsv1, rsv23 |-> FALSE, masked |-> Masks,
             len |-> len, size |-> size, corrupt |-> FALSE, text |-> text, code |-> code]
    BY DEF SentFrame
  <2> HIDE DEF text, f
  <2> QED BY <2>1, <2>2 DEF FrameType
<1>2. /\ f.op = op /\ f.fin = fin /\ f.rsv1 = rsv1 /\ f.len = len /\ f.size = size /\ f.code = code
      /\ f.masked = Masks /\ f.rsv23 = FALSE /\ f.corrupt = FALSE
  BY DEF SentFrame
<1> HIDE DEF f
<1> QED BY <1>1, <1>2 DEF PlainItem, ItemType, IsPlain, f

\* A fragment, as it goes on the wire.
IsFragment(item, parts, i, fin, op, deflated) ==
    LET count == sent_frame_count + i - 1
        last  == fin /\ i = Len(parts)
    IN
    /\ item \in ItemType /\ item.compressed = deflated
    /\ item.context = IF deflated /\ parts[i] > 0 THEN tx.window \o SubSeq(parts, 1, i - 1) ELSE <<>>
    /\ item.frame.op = IF count > 0 THEN CONTINUE ELSE op
    /\ item.frame.rsv1 = (count = 0 /\ deflated)
    /\ item.frame.fin = last /\ item.frame.size = parts[i]
    /\ item.frame.len = IF deflated THEN CompressedLength(parts[i], last) ELSE parts[i]
    /\ item.frame.masked = Masks /\ item.frame.rsv23 = FALSE /\ item.frame.corrupt = FALSE

LEMMA FragmentIs ==
    ASSUME Typed, Masks \in BOOLEAN,
           NEW parts \in Seq(Nat), NEW i \in 1 .. Len(parts), NEW fin \in BOOLEAN,
           NEW op \in Opcodes, NEW deflated \in BOOLEAN
    PROVE  IsFragment(FragmentItem(parts, i, fin, op, deflated), parts, i, fin, op, deflated)
<1> DEFINE item  == FragmentItem(parts, i, fin, op, deflated)
           count == sent_frame_count + i - 1
           last  == fin /\ i = Len(parts)
           o == IF count > 0 THEN CONTINUE ELSE op
           rsv1 == count = 0 /\ deflated
           size == parts[i]
           len == IF deflated THEN CompressedLength(size, last) ELSE size
           context == IF deflated /\ size > 0 THEN tx.window \o SubSeq(parts, 1, i - 1) ELSE <<>>
           plain == PlainItem(SentFrame(o, last, rsv1, len, size, 0))
<1>1. size \in Nat /\ last \in BOOLEAN /\ rsv1 \in BOOLEAN
  OBVIOUS
<1>2. o \in Opcodes
  BY DEF CONTINUE, Opcodes
<1>3. len \in Nat
  BY <1>1 DEF CompressedLength
<1>4. context \in Seq(Nat)
  <2>1. tx.window \in Seq(Nat) /\ SubSeq(parts, 1, i - 1) \in Seq(Nat)
    BY SMTT(30) DEF Typed
  <2> DEFINE w == tx.window
             r == SubSeq(parts, 1, i - 1)
  <2> HIDE DEF w, r
  <2>2. w \o r \in Seq(Nat)
    BY <2>1 DEF w, r
  <2> QED BY <2>2 DEF w, r
<1>5. item = [frame |-> SentFrame(o, last, rsv1, len, size, 0), compressed |-> deflated, context |-> context]
  BY DEF FragmentItem, Header
<1> HIDE DEF item, o, last, rsv1, len, size, context
<1>6. /\ plain \in ItemType /\ plain.frame.op = o /\ plain.frame.fin = last /\ plain.frame.rsv1 = rsv1
      /\ plain.frame.len = len /\ plain.frame.size = size
      /\ plain.frame.masked = Masks /\ plain.frame.rsv23 = FALSE /\ plain.frame.corrupt = FALSE
  <2>1. last \in BOOLEAN
    BY <1>1
  <2>2. rsv1 \in BOOLEAN
    BY <1>1
  <2>3. size \in Nat
    BY <1>1
  <2>4. 0 \in Nat
    OBVIOUS
  <2>5. IsPlain(plain, o, last, rsv1, len, size, 0)
    BY <1>2, <1>3, <2>1, <2>2, <2>3, <2>4, PlainIs, Zenon
  <2> HIDE DEF plain
  <2> QED BY <2>5 DEF IsPlain
<1>7. plain.frame = SentFrame(o, last, rsv1, len, size, 0)
  BY DEF PlainItem
<1>8. item.frame = plain.frame /\ item.compressed = deflated /\ item.context = context
  BY <1>5, <1>7
<1>9. plain.frame \in FrameType
  BY <1>6, ItemParts
<1>10. item \in ItemType
  <2> PICK f : f = SentFrame(o, last, rsv1, len, size, 0)
    OBVIOUS
  <2>1. f \in FrameType
    BY <1>7, <1>9
  <2>2. item = [frame |-> f, compressed |-> deflated, context |-> context]
    BY <1>5
  <2> QED BY <1>4, <2>1, <2>2 DEF ItemType
<1> QED BY <1>6, <1>8, <1>10, ZenonT(30) DEF IsFragment, item, o, last, rsv1, len, size, context

\* The view w takes it, and for a fragment of this message.
FragmentFits(item, w, op, deflated) ==
    /\ item \in ItemType /\ Follows(w, item, deflate.set) /\ ~IsControl(item.frame.op)
    /\ Deflated(w, item.frame) = deflated
    /\ w.sizes = <<>> => Opcode(w, item.frame) = op

\* A fragment continues a view that knows what came before it.
LEMMA FragmentFollows ==
    ASSUME Typed, Masks \in BOOLEAN,
           NEW parts \in Seq(Nat), NEW i \in 1 .. Len(parts), NEW fin \in BOOLEAN,
           NEW op \in {TEXT, BINARY}, NEW deflated \in BOOLEAN,
           NEW w \in ViewType, ~w.closed,
           sent_frame_count + i - 1 = 0 <=> w.sizes = <<>>,
           w.sizes # <<>> => w.deflated = deflated,
           deflated => deflate.set,
           deflated => IsSuffix(tx.window \o SubSeq(parts, 1, i - 1), w.window)
    PROVE  FragmentFits(FragmentItem(parts, i, fin, op, deflated), w, op, deflated)
<1> PICK item : item = FragmentItem(parts, i, fin, op, deflated)
  OBVIOUS
<1> PICK f : f = item.frame
  OBVIOUS
<1> DEFINE count == sent_frame_count + i - 1
           last  == fin /\ i = Len(parts)
<1>1. op \in Opcodes /\ ~IsControl(op) /\ ~IsControl(CONTINUE) /\ op # CONTINUE
  BY DEF Opcodes, TEXT, BINARY, IsControl, CLOSE, CONTINUE
<1>2. /\ item \in ItemType /\ item.compressed = deflated
      /\ item.context = IF deflated /\ parts[i] > 0 THEN tx.window \o SubSeq(parts, 1, i - 1) ELSE <<>>
      /\ f.op = IF count > 0 THEN CONTINUE ELSE op
      /\ f.rsv1 = (count = 0 /\ deflated)
      /\ f.fin = last /\ f.size = parts[i]
      /\ f.len = IF deflated THEN CompressedLength(parts[i], last) ELSE parts[i]
      /\ f.masked = Masks /\ f.rsv23 = FALSE /\ f.corrupt = FALSE
  <2>1. op \in Opcodes
    BY <1>1
  <2>2. IsFragment(item, parts, i, fin, op, deflated)
    BY <2>1, FragmentIs, Zenon
  <2> QED BY <2>2, Zenon DEF IsFragment
<1>3. count \in Nat /\ parts[i] \in Nat /\ last \in BOOLEAN
  <2>1. sent_frame_count \in Nat
    BY DEF Typed
  <2> QED BY <2>1
<1>4. count = 0 <=> w.sizes = <<>>
  OBVIOUS
<1> HIDE DEF count, last
<1>5. ~IsControl(f.op) /\ f.op \in {CONTINUE, TEXT, BINARY}
  BY <1>1, <1>2
<1>6. f.op = CONTINUE <=> w.sizes # <<>>
  <2>1. count > 0 <=> count # 0
    BY <1>3
  <2> QED BY <1>1, <1>2, <1>4, <2>1
<1>7. f.rsv1 => deflate.set /\ f.op # CONTINUE
  BY <1>2, <1>4, <1>6
<1>8. Deflated(w, f) = deflated
  <2>1. CASE w.sizes = <<>>
    <3>1. f.rsv1 = deflated
      BY <1>2, <1>4, <2>1
    <3> QED BY <2>1, <3>1 DEF Deflated
  <2>2. CASE w.sizes # <<>>
    BY <2>2 DEF Deflated
  <2> QED BY <2>1, <2>2
<1>9. w.sizes = <<>> => Opcode(w, f) = op
  <2>1. ASSUME w.sizes = <<>> PROVE f.op = op
    <3>1. ~(count > 0)
      BY <1>4, <2>1
    <3> QED BY <1>2, <3>1
  <2> QED BY <2>1 DEF Opcode
<1>10. DataFits(w, item, deflate.set)
  <2>1. CASE ~deflated
    <3>1. f.size = f.len
      BY <1>2, <2>1
    <3> QED BY <1>6, <1>7, <1>8, <2>1, <3>1, Zenon DEF DataFits
  <2>2. CASE deflated
    <3>1. f.len # 0
      BY <1>2, <1>3, <2>2 DEF CompressedLength
    <3>2. item.compressed
      BY <1>2, <2>2
    <3>3. IsSuffix(item.context, w.window)
      <4>1. w.window \in Seq(Nat)
        BY ViewParts
      <4>2. CASE parts[i] > 0
        BY <1>2, <2>2, <4>2
      <4>3. CASE ~(parts[i] > 0)
        BY <1>2, <4>1, <4>3, SuffixNone
      <4> QED BY <4>2, <4>3
    <3> QED BY <1>6, <1>7, <1>8, <2>2, <3>1, <3>2, <3>3, Zenon DEF DataFits
  <2> QED BY <2>1, <2>2
<1>11. Follows(w, item, deflate.set)
  BY <1>2, <1>5, <1>10 DEF Follows
<1> QED BY <1>2, <1>5, <1>8, <1>9, <1>11 DEF FragmentFits

\* What a call that emits one frame, or none, adds to what was said.
LEMMA SaidNone ==
    ASSUME Typed, Say, emitted' = <<>>
    PROVE  wire' = wire /\ saying' = saying /\ said' = said
<1> DEFINE sizes == saying \o [i \in DOMAIN emitted' |-> emitted'[i].frame.size]
<1>1. wire' = wire \o emitted'
  BY DEF Say
<1>2. wire \o <<>> = wire
  BY DEF Typed
<1>3. /\ saying' = IF FALSE THEN saying ELSE IF FALSE THEN <<>> ELSE sizes
      /\ said' = said
  BY DEF Say
<1>4. sizes = saying
  <2>1. saying \in Seq(Nat)
    BY DEF Typed
  <2>2. [i \in DOMAIN emitted' |-> emitted'[i].frame.size] = <<>>
    OBVIOUS
  <2> QED BY <2>1, <2>2
<1> QED BY <1>1, <1>2, <1>3, <1>4

LEMMA SaidOne ==
    ASSUME Typed, Say, NEW item, emitted' = <<item>>
    PROVE  LET f == item.frame IN
           /\ wire' = wire \o <<item>>
           /\ IsControl(f.op) => saying' = saying /\ said' = Append(said, Message(f.op, <<f.size>>))
           /\ ~IsControl(f.op) => IF f.fin
                 THEN saying' = <<>> /\ said' = Append(said, Message(send_opcode', Append(saying, f.size)))
                 ELSE saying' = Append(saying, f.size) /\ said' = said
<1> PICK f : f = item.frame
  OBVIOUS
<1> DEFINE sizes == saying \o [i \in DOMAIN emitted' |-> emitted'[i].frame.size]
<1>1. emitted' # <<>> /\ emitted'[1] = item /\ Len(emitted') = 1 /\ emitted'[Len(emitted')] = item
  OBVIOUS
<1>2. sizes = Append(saying, f.size)
  <2>1. saying \in Seq(Nat)
    BY DEF Typed
  <2>2. [i \in DOMAIN emitted' |-> emitted'[i].frame.size] = <<f.size>>
    OBVIOUS
  <2> QED BY <2>1, <2>2
<1> HIDE DEF sizes
<1>3. /\ wire' = wire \o emitted'
      /\ saying' = IF IsControl(f.op) THEN saying ELSE IF f.fin THEN <<>> ELSE sizes
      /\ said' = CASE IsControl(f.op) -> Append(said, Message(f.op, <<f.size>>))
                   [] f.fin /\ ~IsControl(f.op) -> Append(said, Message(send_opcode', sizes))
                   [] OTHER -> said
  BY <1>1 DEF Say, sizes
<1> QED BY <1>2, <1>3

\* The view after the frame says so.
LEMMA OneSaid ==
    ASSUME Typed, Say, NEW v \in ViewType, v.sizes = saying, v.heard = said,
           NEW item, emitted' = <<item>>, NEW reset,
           ~IsControl(item.frame.op) => Opcode(v, item.frame) = send_opcode'
    PROVE  LET u == After(v, item.frame, reset) IN u.heard = said' /\ u.sizes = saying'
<1> PICK f : f = item.frame
  OBVIOUS
<1>1. CASE IsControl(f.op)
  <2>1. AfterControl(v, f).heard = Append(v.heard, Message(f.op, <<f.size>>)) /\ AfterControl(v, f).sizes = v.sizes
    BY DEF AfterControl, ViewType
  <2> QED BY <1>1, <2>1, SaidOne DEF After
<1>2. CASE ~IsControl(f.op)
  <2>1. After(v, f, reset) = AfterData(v, f, reset)
    BY <1>2 DEF After
  <2>2. CASE f.fin
    <3>1. saying' = <<>> /\ said' = Append(said, Message(send_opcode', Append(saying, f.size)))
      BY <1>2, <2>2, SaidOne
    <3>2. /\ AfterData(v, f, reset).sizes = <<>>
          /\ AfterData(v, f, reset).heard = Append(v.heard, Message(Opcode(v, f), Append(v.sizes, f.size)))
      BY <2>2 DEF AfterData
    <3> QED BY <1>2, <2>1, <3>1, <3>2
  <2>3. CASE ~f.fin
    <3>1. saying' = Append(saying, f.size) /\ said' = said
      BY <1>2, <2>3, SaidOne
    <3>2. AfterData(v, f, reset).sizes = Append(v.sizes, f.size) /\ AfterData(v, f, reset).heard = v.heard
      BY <2>3 DEF AfterData
    <3> QED BY <2>1, <3>1, <3>2
  <2> QED BY <2>2, <2>3
<1> QED BY <1>1, <1>2

\* The types of what a call changes.
CallTyped ==
    /\ tx' \in [window: Seq(Nat), flushed: BOOLEAN]
    /\ sent_frame_count' \in Nat /\ aborted' \in BOOLEAN
    /\ UNCHANGED <<established, deflate>>

\* After a call whose frames go on from the last view.
LEMMA SayOn ==
    ASSUME ConversationInv, Say, established, CallTyped, saying' \in Seq(Nat), emitted' \in Seq(ItemType),
           NEW views, InLine(views),
           NEW more, Line(more, emitted', deflate.set, rx.reset_after), more[0] = views[Len(wire)],
           NEW last, last = more[Len(emitted')], last.heard = said', ~aborted' => Speaking(last)'
    PROVE  ConversationInv'
<1>1. /\ wire' = wire \o emitted' /\ UNCHANGED <<receive_vars, rx, heard>>
      /\ UNCHANGED <<established, deflate>>
  BY DEF Say, CallTyped
<1>2. Typed /\ Open /\ Together
  BY DEF ConversationInv
<1>3. wire \in Seq(ItemType) /\ wire' \in Seq(ItemType)
  <2>1. wire \in Seq(ItemType)
    BY <1>2 DEF Typed
  <2> QED BY <1>1, <2>1
<1>4. Line(views, wire, deflate.set, rx.reset_after) /\ Listening(views[0])
  BY DEF InLine
<1>5. last \in ViewType
  <2>1. Len(emitted') \in 0 .. Len(emitted')
    OBVIOUS
  <2> QED BY <2>1 DEF Line
<1>6. Typed'
  <2>1. said' \in Seq(MessageType)
    BY <1>5, ViewParts
  <2> QED BY <1>1, <1>2, <1>3, <2>1 DEF Typed, CallTyped, receive_vars
<1>7. Open'
  BY <1>1, <1>2 DEF Open, receive_vars
<1>8. Together'
  BY <1>1, <1>2 DEF Together, receive_vars
<1>9. Fresh'
  BY <1>1 DEF Fresh
<1>10. PICK joined : joined = Joined(views, Len(wire), more, Len(emitted'))
  OBVIOUS
<1>11. /\ Line(joined, wire \o emitted', deflate.set, rx.reset_after)
       /\ joined[0] = views[0] /\ joined[Len(wire \o emitted')] = more[Len(emitted')]
  <2>1. wire \in Seq(ItemType)
    BY <1>3
  <2>2. Line(views, wire, deflate.set, rx.reset_after)
    BY <1>4
  <2>3. JoinedUp(Joined(views, Len(wire), more, Len(emitted')), views, wire, more, emitted',
                 deflate.set, rx.reset_after)
    BY <2>1, <2>2, LineGoesOn, Zenon
  <2> QED BY <1>10, <2>3, Zenon DEF JoinedUp
<1>12. InLine(joined)'
  <2> PICK first : first = views[0]
    OBVIOUS
  <2>1. Listening(first)'
    BY <1>1, <1>4 DEF Listening, receive_vars
  <2>2. Line(joined, wire', deflate'.set, rx'.reset_after)
    BY <1>1, <1>11
  <2>3. first = joined[0] /\ last = joined[Len(wire')]
    BY <1>1, <1>11
  <2> QED BY <2>1, <2>2, <2>3, NextInLine
<1> QED BY <1>6, <1>7, <1>8, <1>9, <1>12 DEF ConversationInv

\* The view behind the wire.
Behind(v) ==
    /\ Typed /\ Together /\ rx.reset_after \in BOOLEAN
    /\ v \in ViewType /\ v.heard = said
    /\ ~aborted => Speaking(v)

LEMMA LastView ==
    ASSUME ConversationInv, NEW views, InLine(views), NEW v, v = views[Len(wire)]
    PROVE  Behind(v)
<1>1. Typed /\ Together
  BY DEF ConversationInv
<1>2. Len(wire) \in 0 .. Len(wire)
  BY <1>1 DEF Typed
<1>3. v \in ViewType
  BY <1>2 DEF InLine, Line
<1>4. rx.reset_after \in BOOLEAN
  BY <1>1 DEF Typed
<1> QED BY <1>1, <1>3, <1>4 DEF InLine, Behind

\* After a call that emits nothing.
LEMMA SayNoFrame ==
    ASSUME ConversationInv, Say, established, CallTyped, emitted' = <<>>,
           NEW views, InLine(views), NEW v, v = views[Len(wire)], ~aborted' => Speaking(v)'
    PROVE  ConversationInv'
<1> DEFINE more == [i \in 0 .. 0 |-> v]
<1>1. Typed /\ v \in ViewType /\ v.heard = said
  <2>1. Behind(v)
    BY LastView, Zenon
  <2> QED BY <2>1 DEF Behind
<1>2. wire' = wire /\ saying' = saying /\ said' = said
  BY <1>1, SaidNone
<1>3. more[0] = v /\ Len(<<>>) = 0 /\ \A i \in 0 .. 0 : i = 0
  OBVIOUS
<1> HIDE DEF more
<1>4. Line(more, emitted', deflate.set, rx.reset_after)
  <2>1. \A i \in 1 .. 0 : FALSE
    OBVIOUS
  <2> QED BY <1>1, <1>3, <2>1 DEF Line
<1>5. saying' \in Seq(Nat) /\ emitted' \in Seq(ItemType)
  BY <1>1, <1>2 DEF Typed
<1> QED BY <1>1, <1>2, <1>3, <1>4, <1>5, SayOn

\* After a call that emits one frame.
LEMMA SayOneFrame ==
    ASSUME ConversationInv, Say, established, CallTyped,
           NEW views, InLine(views), NEW v, v = views[Len(wire)], ~aborted,
           NEW item \in ItemType, emitted' = <<item>>, Follows(v, item, deflate.set),
           ~IsControl(item.frame.op) => Opcode(v, item.frame) = send_opcode',
           NEW u, u = After(v, item.frame, rx.reset_after), u.sizes = saying' => Speaking(u)'
    PROVE  ConversationInv'
<1> DEFINE more == [i \in 0 .. 1 |-> IF i = 0 THEN v ELSE After(v, item.frame, rx.reset_after)]
<1>1. Typed /\ v \in ViewType /\ v.heard = said /\ Speaking(v) /\ rx.reset_after \in BOOLEAN
  <2>1. Behind(v)
    BY LastView, Zenon
  <2> QED BY <2>1 DEF Behind
<1>2. v.sizes = saying
  BY <1>1 DEF Speaking
<1>3. u.heard = said' /\ u.sizes = saying'
  BY <1>1, <1>2, OneSaid
<1>4. Line(more, <<item>>, deflate.set, rx.reset_after) /\ more[0] = v /\ more[1] = u
  BY <1>1, LineOfOne
<1> HIDE DEF more
<1>5. saying' \in Seq(Nat) /\ emitted' \in Seq(ItemType) /\ Len(emitted') = 1
  <2>1. u \in ViewType
    BY <1>1, ItemParts, AfterTyped
  <2> QED BY <1>3, <2>1, ViewParts
<1> QED BY <1>3, <1>4, <1>5, SayOn

\* A sender that did not fail, at its view.
Speaker(views, v) ==
    /\ ConversationInv /\ InLine(views) /\ v = views[Len(wire)]
    /\ Behind(v) /\ Speaking(v) /\ ~aborted /\ established

LEMMA SpeakerKnows ==
    ASSUME NEW views, NEW v, Speaker(views, v)
    PROVE  /\ Typed /\ v \in ViewType /\ v.sizes = saying /\ rx.reset_after \in BOOLEAN
           /\ deflate \in [set: BOOLEAN, reset_after_tx: BOOLEAN]
           /\ rx.reset_after => deflate.reset_after_tx
           /\ tx \in [window: Seq(Nat), flushed: BOOLEAN] /\ tx.window \in Seq(Nat)
           /\ v.window \in Seq(Nat) /\ sent_frame_count \in Nat /\ saying \in Seq(Nat)
           /\ v.closed \in BOOLEAN /\ v.deflated \in BOOLEAN
BY ViewParts DEF Speaker, Behind, Together, Typed, Speaking

\* What a control frame leaves of the view before it.
Interrupted(u, v, op) ==
    /\ u.op = v.op /\ u.deflated = v.deflated /\ u.sizes = v.sizes /\ u.window = v.window
    /\ u.closed = (op = CLOSE)

LEMMA AfterControlIs ==
    ASSUME NEW v \in ViewType, NEW f, NEW reset, IsControl(f.op), NEW u, u = After(v, f, reset)
    PROVE  Interrupted(u, v, f.op)
BY DEF After, AfterControl, ViewType, Interrupted

LEMMA AfterDataIs ==
    ASSUME NEW v \in ViewType, NEW f, NEW reset, ~IsControl(f.op), NEW u, u = After(v, f, reset)
    PROVE  /\ u.closed = v.closed /\ u.window = WindowAfter(v, f, reset)
           /\ f.fin => u.sizes = <<>>
           /\ ~f.fin => /\ u.sizes = Append(v.sizes, f.size) /\ u.op = Opcode(v, f)
                        /\ u.deflated <=> Deflated(v, f)
<1>1. u = AfterData(v, f, reset)
  BY DEF After
<1> DEFINE op == IF f.fin THEN CONTINUE ELSE Opcode(v, f)
           deflated == ~f.fin /\ Deflated(v, f)
           sizes == IF f.fin THEN <<>> ELSE Append(v.sizes, f.size)
           heard1 == IF f.fin THEN Append(v.heard, Message(Opcode(v, f), Append(v.sizes, f.size))) ELSE v.heard
<1>2. u = [op |-> op, deflated |-> deflated, sizes |-> sizes, window |-> WindowAfter(v, f, reset),
           closed |-> v.closed, heard |-> heard1]
  BY <1>1, Zenon DEF AfterData
<1> HIDE DEF op, deflated, sizes, heard1
<1>3. /\ u.closed = v.closed /\ u.window = WindowAfter(v, f, reset)
      /\ u.deflated = deflated /\ u.op = op /\ u.sizes = sizes
  BY <1>2
<1> QED BY <1>3 DEF op, deflated, sizes

LEMMA StartKeeps ==
    ASSUME Say, NEW views, NEW v, Speaker(views, v),
           NEW op \in StartOpcodes, NEW compress \in BOOLEAN, StartMessage(op, compress)
    PROVE  ConversationInv'
<1>1. Speaking(v) /\ sent_frame_count \in Nat /\ aborted \in BOOLEAN
  BY SpeakerKnows DEF Speaker, Typed
<1>2. /\ ~Sends("SEND_CLOSED") /\ ~Sends("SEND_FRAME") /\ send_opcode' = op /\ emitted' = <<>>
      /\ send_flags' = send_flags \cup {"SEND_FRAME"} \cup {g \in {"SEND_DEFLATE"} : compress /\ deflate.set}
      /\ UNCHANGED <<established, deflate, sent_frame_count, tx, aborted>>
  BY DEF StartMessage, MaySend
<1>3. saying = <<>> /\ IsSuffix(tx.window, v.window)
  BY <1>1, <1>2 DEF Speaking
<1>4. saying' = saying
  BY <1>2, SpeakerKnows, SaidNone
<1>5. Speaking(v)'
  BY <1>1, <1>2, <1>3, <1>4 DEF Speaking, Sends
<1>6. CallTyped
  BY <1>1, <1>2, SpeakerKnows DEF CallTyped
<1> QED BY <1>2, <1>5, <1>6, SayNoFrame DEF Speaker

\* Control frames the receiver takes.
LEMMA ControlFollows ==
    ASSUME NEW v, ~v.closed, NEW item, NEW op \in {CLOSE, PING, PONG}, NEW len \in Nat, NEW size \in Nat,
           NEW code \in Nat, IsPlain(item, op, TRUE, FALSE, len, size, code),
           len <= MAX_CONTROL_PAYLOAD,
           IF op = CLOSE
           THEN (len = 0 /\ size = 0) \/ (len >= 2 /\ size = len - 2 /\ ~IsSendingForbidden(code))
           ELSE size = len
    PROVE  Follows(v, item, deflate.set) /\ IsControl(item.frame.op) /\ item \in ItemType /\ item.frame.op = op
<1>1. /\ item.frame.op = op /\ item.frame.fin = TRUE /\ item.frame.rsv1 = FALSE
      /\ item.frame.len = len /\ item.frame.size = size /\ item.frame.code = code
      /\ item.frame.masked = Masks /\ item.frame.rsv23 = FALSE /\ item.frame.corrupt = FALSE
      /\ item \in ItemType
  BY Zenon DEF IsPlain
<1>2. IsControl(op)
  BY DEF IsControl, CLOSE, PING, PONG
<1>3. ControlFits(item.frame)
  BY <1>1, Zenon DEF ControlFits
<1> QED BY <1>1, <1>2, <1>3 DEF Follows

LEMMA ControlKeeps ==
    ASSUME Say, Masks \in BOOLEAN, NEW views, NEW v, Speaker(views, v),
           NEW op \in {CLOSE, PING, PONG}, NEW length \in Nat, NEW code \in Nat,
           op = CLOSE => length = 0 \/ (length >= 2 /\ ~IsSendingForbidden(code)),
           SendControl(op, length, code)
    PROVE  ConversationInv'
<1> DEFINE len == IF length > MAX_CONTROL_PAYLOAD THEN MAX_CONTROL_PAYLOAD ELSE length
           size == IF op = CLOSE /\ len >= 2 THEN len - 2 ELSE len
           sent == IF op = CLOSE /\ len >= 2 THEN code ELSE 0
<1>1. Speaking(v) /\ aborted \in BOOLEAN
  BY SpeakerKnows DEF Speaker, Typed
<1>2. /\ ~Sends("SEND_CLOSED")
      /\ emitted' = <<PlainItem(SentFrame(op, TRUE, FALSE, len, size, sent))>>
      /\ send_flags' = ControlFlags(op)
      /\ UNCHANGED <<established, deflate, send_opcode, sent_frame_count, tx, aborted>>
  BY DEF SendControl, MaySend
<1>3. /\ len \in Nat /\ len <= MAX_CONTROL_PAYLOAD
      /\ len = 0 <=> length = 0
      /\ length >= 2 => len >= 2
  BY DEF MAX_CONTROL_PAYLOAD
<1> HIDE DEF len
<1>4. size \in Nat /\ sent \in Nat
  BY <1>3
<1>5. IF op = CLOSE
      THEN (len = 0 /\ size = 0) \/ (len >= 2 /\ size = len - 2 /\ ~IsSendingForbidden(sent))
      ELSE size = len
  BY <1>3
<1> HIDE DEF size, sent
<1> PICK item : item = PlainItem(SentFrame(op, TRUE, FALSE, len, size, sent))
  OBVIOUS
<1>6. IsPlain(item, op, TRUE, FALSE, len, size, sent)
  <2>1. op \in Opcodes
    BY DEF CLOSE, PING, PONG, Opcodes
  <2> QED BY <1>3, <1>4, <2>1, PlainIs
<1>7. ~v.closed
  BY <1>1, <1>2 DEF Speaking
<1>8. Follows(v, item, deflate.set) /\ IsControl(item.frame.op) /\ item \in ItemType /\ item.frame.op = op
  BY <1>3, <1>4, <1>5, <1>6, <1>7, ControlFollows
<1>9. saying' = saying
  BY <1>2, <1>8, SpeakerKnows, SaidOne
<1> PICK u : u = After(v, item.frame, rx.reset_after)
  OBVIOUS
<1>10. /\ u.op = v.op /\ u.deflated = v.deflated /\ u.sizes = v.sizes /\ u.window = v.window
       /\ u.closed = (op = CLOSE)
  <2>1. v \in ViewType
    BY SpeakerKnows
  <2>2. Interrupted(u, v, item.frame.op)
    BY <1>8, <2>1, AfterControlIs
  <2> QED BY <1>8, <2>2 DEF Interrupted
<1>11. Speaking(u)'
  <2>1. CASE op = CLOSE
    <3>1. send_flags' = (send_flags \cup {"SEND_CLOSED"}) \ {"SEND_FRAME"}
      BY <1>2, <2>1 DEF ControlFlags
    <3>2. \/ IsSuffix(tx.window, v.window)
          \/ IsControl(send_opcode)
      BY <1>1 DEF Speaking
    <3> QED BY <1>1, <1>2, <1>9, <1>10, <2>1, <3>1, <3>2 DEF Speaking, Sends
  <2>2. CASE op # CLOSE
    <3>1. send_flags' = send_flags
      BY <1>2, <2>2 DEF ControlFlags
    <3> QED BY <1>1, <1>2, <1>9, <1>10, <2>2, <3>1 DEF Speaking, Sends
  <2> QED BY <2>1, <2>2
<1>12. CallTyped
  BY <1>1, <1>2, SpeakerKnows DEF CallTyped
<1> QED BY <1>2, <1>8, <1>11, <1>12, SayOneFrame DEF Speaker

LEMMA StreamTyped ==
    ASSUME Typed, NEW parts \in Seq(Nat), NEW fin
    PROVE  StreamAfter(parts, fin) \in [window: Seq(Nat), flushed: BOOLEAN]
<1>1. Filled(parts) \in Seq(Nat) /\ tx.window \in Seq(Nat)
  <2>1. Filled(parts) \in Seq(Nat \ {0})
    BY FilledType
  <2> QED BY <2>1 DEF Typed
<1>2. tx.window \o Filled(parts) \in Seq(Nat)
  <2> PICK a, b : a = tx.window /\ b = Filled(parts)
    OBVIOUS
  <2>1. a \o b \in Seq(Nat)
    BY <1>1
  <2> QED BY <2>1
<1>3. FreshStream \in [window: Seq(Nat), flushed: BOOLEAN]
  BY DEF FreshStream
<1>4. [window |-> tx.window \o Filled(parts), flushed |-> TRUE] \in [window: Seq(Nat), flushed: BOOLEAN]
  BY <1>2
<1> QED BY <1>3, <1>4, Zenon DEF StreamAfter

\* What the compressor may refer back to stays within what the reader holds.
LEMMA WindowsMatch ==
    ASSUME NEW views, NEW v, Speaker(views, v), IsSuffix(tx.window, v.window),
           NEW f, f.size \in Nat, f.fin \in BOOLEAN,
           NEW next, next = IF Deflated(v, f) THEN StreamAfter(<<f.size>>, f.fin) ELSE tx
    PROVE  IsSuffix(next.window, WindowAfter(v, f, rx.reset_after))
<1>1. /\ tx.window \in Seq(Nat) /\ v.window \in Seq(Nat)
      /\ rx.reset_after => deflate.reset_after_tx
  BY SpeakerKnows
<1>2. CASE ~Deflated(v, f)
  BY <1>2 DEF WindowAfter
<1>3. CASE Deflated(v, f) /\ f.fin /\ deflate.reset_after_tx
  <2>1. next.window = <<>>
    BY <1>3 DEF StreamAfter, FreshStream
  <2>2. WindowAfter(v, f, rx.reset_after) \in Seq(Nat)
    <3>1. Append(v.window, f.size) \in Seq(Nat) /\ <<>> \in Seq(Nat)
      BY <1>1
    <3> QED BY <1>1, <3>1, Zenon DEF WindowAfter
  <2> QED BY <2>1, <2>2, SuffixNone
<1>4. CASE Deflated(v, f) /\ ~(f.fin /\ deflate.reset_after_tx)
  <2>1. next.window = tx.window \o Filled(<<f.size>>)
    BY <1>4 DEF StreamAfter
  <2>2. ~(f.fin /\ rx.reset_after)
    BY <1>1, <1>4
  <2>3. CASE f.size > 0
    <3>1. Filled(<<f.size>>) = <<f.size>> /\ <<f.size>> \in Seq(Nat)
      BY <2>3, FilledOne
    <3>2. WindowAfter(v, f, rx.reset_after) = Append(v.window, f.size)
      BY <1>4, <2>2, <2>3 DEF WindowAfter
    <3>3. Append(v.window, f.size) = v.window \o <<f.size>>
      BY <1>1
    <3> QED BY <1>1, <2>1, <3>1, <3>2, <3>3, SuffixGrows
  <2>4. CASE ~(f.size > 0)
    <3>1. Filled(<<f.size>>) = <<>>
      BY <2>4, FilledOne
    <3>2. WindowAfter(v, f, rx.reset_after) = v.window
      BY <1>4, <2>2, <2>4 DEF WindowAfter
    <3>3. tx.window \o <<>> = tx.window
      BY <1>1
    <3> QED BY <2>1, <3>1, <3>2, <3>3
  <2> QED BY <2>3, <2>4
<1> QED BY <1>2, <1>3, <1>4

\* The sender after a data frame in its place.
LEMMA DataSpeaking ==
    ASSUME Say, NEW views, NEW v, Speaker(views, v),
           NEW f, ~IsControl(f.op), f.fin \in BOOLEAN, f.size \in Nat,
           NEW u, u = After(v, f, rx.reset_after), u.sizes = saying',
           SentData(1, f.fin), Opcode(v, f) = send_opcode', ~IsControl(send_opcode'), deflate' = deflate,
           IsSuffix(tx'.window, u.window),
           ~f.fin => /\ Sends("SEND_FRAME") /\ send_opcode' = send_opcode
                     /\ Deflated(v, f) <=> Sends("SEND_DEFLATE")
    PROVE  Speaking(u)'
<1>1. Speaking(v) /\ v \in ViewType /\ v.sizes \in Seq(Nat) /\ sent_frame_count \in Nat
  BY SpeakerKnows DEF Speaker
<1>2. /\ u.closed = v.closed
      /\ f.fin => u.sizes = <<>>
      /\ ~f.fin => /\ u.sizes = Append(v.sizes, f.size) /\ u.op = Opcode(v, f)
                   /\ u.deflated <=> Deflated(v, f)
  BY <1>1, AfterDataIs
<1>3. CASE f.fin
  <2>1. saying' = <<>> /\ sent_frame_count' = 0 /\ send_flags' = send_flags \ {"SEND_FRAME", "SEND_DEFLATE"}
    BY <1>2, <1>3 DEF SentData
  <2> QED BY <1>1, <1>2, <2>1 DEF Speaking, Sends
<1>4. CASE ~f.fin
  <2>1. saying' # <<>>
    <3>1. Append(v.sizes, f.size) # <<>>
      BY <1>1
    <3> QED BY <1>2, <1>4, <3>1
  <2>2. sent_frame_count' = sent_frame_count + 1 /\ send_flags' = send_flags
    BY <1>4 DEF SentData
  <2>3. sent_frame_count' # 0
    BY <1>1, <2>2
  <2> QED BY <1>1, <1>2, <1>4, <2>1, <2>2, <2>3 DEF Speaking, Sends
<1> QED BY <1>3, <1>4

LEMMA CountTyped ==
    ASSUME sent_frame_count \in Nat, NEW n \in Nat, NEW fin, SentData(n, fin)
    PROVE  sent_frame_count' \in Nat
BY DEF SentData

\* One fragment, sent in its place.
LEMMA FragmentKeeps ==
    ASSUME Say, Masks \in BOOLEAN, NEW views, NEW v, Speaker(views, v), IsSuffix(tx.window, v.window),
           NEW size \in Nat, NEW fin \in BOOLEAN, NEW op \in {TEXT, BINARY}, NEW d \in BOOLEAN,
           emitted' = <<FragmentItem(<<size>>, 1, fin, op, d)>>,
           ~v.closed, d => deflate.set, v.sizes # <<>> => v.op = op /\ v.deflated = d,
           SentData(1, fin), send_opcode' = op, tx' = IF d THEN StreamAfter(<<size>>, fin) ELSE tx,
           ~fin => /\ Sends("SEND_FRAME") /\ send_opcode' = send_opcode
                   /\ d <=> Sends("SEND_DEFLATE"),
           UNCHANGED <<established, deflate, aborted>>
    PROVE  ConversationInv'
<1> PICK item : item = FragmentItem(<<size>>, 1, fin, op, d)
  OBVIOUS
<1> PICK f : f = item.frame
  OBVIOUS
<1>1. /\ Typed /\ v \in ViewType /\ v.sizes = saying /\ tx.window \in Seq(Nat) /\ sent_frame_count \in Nat
      /\ Speaking(v) /\ aborted \in BOOLEAN /\ tx \in [window: Seq(Nat), flushed: BOOLEAN]
      /\ rx.reset_after \in BOOLEAN
  BY SpeakerKnows DEF Speaker, Typed
<1>2. /\ <<size>> \in Seq(Nat) /\ 1 \in 1 .. Len(<<size>>) /\ Len(<<size>>) = 1
      /\ <<size>>[1] = size /\ SubSeq(<<size>>, 1, 1 - 1) = <<>>
  OBVIOUS
<1>3. op \in Opcodes /\ ~IsControl(op)
  BY DEF Opcodes, TEXT, BINARY, IsControl, CLOSE
<1>4. item \in ItemType /\ f.size = size /\ f.fin = fin
  <2>1. IsFragment(item, <<size>>, 1, fin, op, d)
    <3>1. 1 \in 1 .. Len(<<size>>)
      OBVIOUS
    <3>2. <<size>> \in Seq(Nat)
      OBVIOUS
    <3> QED BY <1>1, <1>3, <3>1, <3>2, FragmentIs
  <2> QED BY <1>2, <2>1 DEF IsFragment
<1>5. /\ Follows(v, item, deflate.set) /\ ~IsControl(f.op) /\ Deflated(v, f) = d
      /\ v.sizes = <<>> => Opcode(v, f) = op
  <2>1. sent_frame_count + 1 - 1 = 0 <=> v.sizes = <<>>
    <3>1. sent_frame_count = 0 <=> v.sizes = <<>>
      BY <1>1 DEF Speaking
    <3> QED BY <1>1, <3>1
  <2>2. d => IsSuffix(tx.window \o SubSeq(<<size>>, 1, 1 - 1), v.window)
    <3>1. tx.window \o <<>> = tx.window
      BY <1>1
    <3> QED BY <1>2, <3>1
  <2>3. v.sizes # <<>> => v.deflated = d
    OBVIOUS
  <2>4. 1 \in 1 .. Len(<<size>>)
    OBVIOUS
  <2>5. <<size>> \in Seq(Nat)
    OBVIOUS
  <2>6. Typed /\ v \in ViewType /\ ~v.closed
    BY <1>1
  <2>7. FragmentFits(FragmentItem(<<size>>, 1, fin, op, d), v, op, d)
    BY <2>1, <2>2, <2>3, <2>4, <2>5, <2>6, FragmentFollows, Zenon
  <2> QED BY <2>7 DEF FragmentFits
<1>6. Opcode(v, f) = send_opcode'
  BY <1>5 DEF Opcode
<1> PICK u : u = After(v, f, rx.reset_after)
  OBVIOUS
<1>7. IsSuffix(tx'.window, u.window)
  <2>1. u.window = WindowAfter(v, f, rx.reset_after)
    BY <1>1, <1>5, AfterDataIs
  <2>2. tx' = IF Deflated(v, f) THEN StreamAfter(<<f.size>>, f.fin) ELSE tx
    BY <1>4, <1>5
  <2> QED BY <1>4, <2>1, <2>2, WindowsMatch
<1>8. u.sizes = saying' => Speaking(u)'
  BY <1>3, <1>4, <1>5, <1>6, <1>7, DataSpeaking
<1>9. CallTyped
  <2>1. tx' \in [window: Seq(Nat), flushed: BOOLEAN]
    BY <1>1, <1>2, StreamTyped
  <2>2. sent_frame_count' \in Nat
    BY <1>1, CountTyped
  <2> QED BY <1>1, <2>1, <2>2 DEF CallTyped
<1>10. ~IsControl(item.frame.op) => Opcode(v, item.frame) = send_opcode'
  BY <1>6
<1> QED BY <1>4, <1>5, <1>8, <1>9, <1>10, SayOneFrame DEF Speaker

\* What holds of a message of data frames in progress.
LEMMA InDataMessage ==
    ASSUME NEW views, NEW v, Speaker(views, v), InMessage, ~IsControl(send_opcode)
    PROVE  /\ send_opcode \in {TEXT, BINARY} /\ ~v.closed /\ IsSuffix(tx.window, v.window)
           /\ Sends("SEND_DEFLATE") => deflate.set
           /\ v.sizes # <<>> => /\ v.op = send_opcode
                                /\ v.deflated = Sends("SEND_DEFLATE")
<1>1. Speaking(v) /\ v.deflated \in BOOLEAN /\ Sends("SEND_FRAME")
  BY SpeakerKnows DEF Speaker, InMessage
<1>2. send_opcode \in {TEXT, BINARY}
  <2>1. send_opcode \in {TEXT, BINARY, PING, PONG}
    BY <1>1, StartAssumption DEF Speaking
  <2> QED BY <2>1 DEF IsControl, PING, PONG, CLOSE
<1>3. Sends("SEND_DEFLATE") \in BOOLEAN
  BY DEF Sends
<1> QED BY <1>1, <1>2, <1>3 DEF Speaking

LEMMA SendFrameKeeps ==
    ASSUME Say, Masks \in BOOLEAN, NEW views, NEW v, Speaker(views, v),
           NEW size \in Nat, NEW fin \in BOOLEAN, SendFrame(size, fin)
    PROVE  ConversationInv'
<1> DEFINE d == Sends("SEND_DEFLATE")
<1>1. /\ InMessage /\ ~IsControl(send_opcode) /\ SentData(1, fin)
      /\ aborted' = Aborts(size)
      /\ emitted' = IF aborted' THEN <<>> ELSE <<FragmentItem(<<size>>, 1, fin, send_opcode, d)>>
      /\ tx' = IF d /\ ~aborted' THEN StreamAfter(<<size>>, fin) ELSE tx
      /\ UNCHANGED <<established, deflate, send_opcode>>
  BY DEF SendFrame
<1>2. d \in BOOLEAN /\ aborted' \in BOOLEAN
  BY <1>1 DEF Sends, Aborts
<1>3. ~aborted /\ aborted \in BOOLEAN
  BY SpeakerKnows DEF Speaker, Typed
<1>4. CASE aborted'
  <2>1. emitted' = <<>> /\ tx' = tx
    BY <1>1, <1>4
  <2>2. CallTyped
    <3>1. sent_frame_count' \in Nat
      BY <1>1, SpeakerKnows, CountTyped
    <3> QED BY <1>1, <1>2, <2>1, <3>1, SpeakerKnows DEF CallTyped
  <2> QED BY <1>4, <2>1, <2>2, SayNoFrame DEF Speaker
<1>5. CASE ~aborted'
  <2>1. aborted' = aborted
    BY <1>2, <1>3, <1>5
  <2>2. emitted' = <<FragmentItem(<<size>>, 1, fin, send_opcode, d)>>
    BY <1>1, <1>5
  <2>3. tx' = IF d THEN StreamAfter(<<size>>, fin) ELSE tx
    BY <1>1, <1>5
  <2>4. /\ send_opcode \in {TEXT, BINARY} /\ ~v.closed /\ IsSuffix(tx.window, v.window)
        /\ d => deflate.set
        /\ v.sizes # <<>> => v.op = send_opcode /\ v.deflated = d
    BY <1>1, InDataMessage
  <2>5. Sends("SEND_FRAME") /\ send_opcode' = send_opcode /\ (d <=> Sends("SEND_DEFLATE"))
    BY <1>1 DEF InMessage
  <2> HIDE DEF d
  <2> QED BY <1>1, <1>2, <2>1, <2>2, <2>3, <2>4, <2>5, FragmentKeeps
<1> QED BY <1>4, <1>5

\* One data frame that was not compressed and has no payload, sent in its place.
LEMMA BareKeeps ==
    ASSUME Say, Masks \in BOOLEAN, NEW views, NEW v, Speaker(views, v), IsSuffix(tx.window, v.window),
           NEW fin \in BOOLEAN, NEW op \in {TEXT, BINARY}, NEW d \in BOOLEAN,
           emitted' = <<PlainItem(SentFrame(Header(sent_frame_count, op, d).op, fin,
                                            Header(sent_frame_count, op, d).rsv1, 0, 0, 0))>>,
           ~v.closed, d => deflate.set /\ ~fin, v.sizes # <<>> => v.op = op /\ v.deflated = d,
           SentData(1, fin), send_opcode' = op, tx' = tx,
           ~fin => /\ Sends("SEND_FRAME") /\ send_opcode' = send_opcode
                   /\ d <=> Sends("SEND_DEFLATE"),
           UNCHANGED <<established, deflate, aborted>>
    PROVE  ConversationInv'
<1> DEFINE o == IF sent_frame_count > 0 THEN CONTINUE ELSE op
           rsv1 == sent_frame_count = 0 /\ d
<1> PICK item : item = PlainItem(SentFrame(o, fin, rsv1, 0, 0, 0))
  OBVIOUS
<1> PICK f : f = item.frame
  OBVIOUS
<1>1. /\ Typed /\ v \in ViewType /\ v.sizes = saying /\ sent_frame_count \in Nat
      /\ Speaking(v) /\ aborted \in BOOLEAN /\ tx \in [window: Seq(Nat), flushed: BOOLEAN]
  BY SpeakerKnows DEF Speaker, Typed
<1>2. emitted' = <<item>>
  BY DEF Header
<1>3. /\ op \in Opcodes /\ CONTINUE \in Opcodes /\ op # CONTINUE
      /\ ~IsControl(op) /\ ~IsControl(CONTINUE)
  BY DEF Opcodes, TEXT, BINARY, CONTINUE, IsControl, CLOSE
<1>4. /\ item \in ItemType /\ f.op = o /\ f.rsv1 = rsv1 /\ f.fin = fin /\ f.len = 0 /\ f.size = 0
      /\ f.masked = Masks /\ f.rsv23 = FALSE /\ f.corrupt = FALSE
  <2>1. o \in Opcodes /\ rsv1 \in BOOLEAN /\ 0 \in Nat
    BY <1>3
  <2> HIDE DEF o, rsv1
  <2>2. IsPlain(item, o, fin, rsv1, 0, 0, 0)
    BY <2>1, PlainIs
  <2> QED BY <2>2 DEF IsPlain
<1>5. sent_frame_count = 0 <=> v.sizes = <<>>
  BY <1>1 DEF Speaking
<1>6. /\ f.op = CONTINUE <=> v.sizes # <<>>
      /\ ~IsControl(f.op) /\ f.op \in {CONTINUE, TEXT, BINARY}
      /\ v.sizes = <<>> => f.op = op /\ f.rsv1 = d
      /\ f.rsv1 => d /\ f.op # CONTINUE
  BY <1>1, <1>3, <1>4, <1>5
<1> HIDE DEF o, rsv1
<1>7. Deflated(v, f) = d /\ (v.sizes = <<>> => Opcode(v, f) = op)
  BY <1>6 DEF Deflated, Opcode
<1>8. Follows(v, item, deflate.set)
  <2>1. DataFits(v, item, deflate.set)
    BY <1>4, <1>6, <1>7 DEF DataFits
  <2> QED BY <1>4, <1>6, <2>1 DEF Follows
<1>9. Opcode(v, f) = send_opcode'
  BY <1>7 DEF Opcode
<1> PICK u : u = After(v, f, rx.reset_after)
  OBVIOUS
<1>10. IsSuffix(tx'.window, u.window)
  <2>1. u.window = WindowAfter(v, f, rx.reset_after)
    BY <1>1, <1>6, AfterDataIs
  <2>2. WindowAfter(v, f, rx.reset_after) = v.window
    BY <1>4, <1>7 DEF WindowAfter
  <2> QED BY <2>1, <2>2
<1>11. u.sizes = saying' => Speaking(u)'
  <2>1. f.fin \in BOOLEAN /\ f.size \in Nat /\ SentData(1, f.fin) /\ ~IsControl(send_opcode')
    BY <1>3, <1>4
  <2>2. ~f.fin => /\ Sends("SEND_FRAME") /\ send_opcode' = send_opcode
                  /\ Deflated(v, f) <=> Sends("SEND_DEFLATE")
    BY <1>4, <1>7
  <2> QED BY <1>6, <1>9, <1>10, <2>1, <2>2, DataSpeaking
<1>12. CallTyped
  <2>1. sent_frame_count' \in Nat
    BY <1>1, CountTyped
  <2> QED BY <1>1, <2>1 DEF CallTyped
<1>13. ~IsControl(item.frame.op) => Opcode(v, item.frame) = send_opcode'
  BY <1>9
<1> QED BY <1>2, <1>4, <1>8, <1>11, <1>12, <1>13, SayOneFrame DEF Speaker

LEMMA BareFrameKeeps ==
    ASSUME Say, Masks \in BOOLEAN, BareCompressed = FALSE, NEW views, NEW v, Speaker(views, v),
           NEW fin \in BOOLEAN, SendBareFrame(fin)
    PROVE  ConversationInv'
<1> DEFINE d == Sends("SEND_DEFLATE")
<1>1. /\ InMessage /\ ~IsControl(send_opcode) /\ SentData(1, fin) /\ (d => ~fin)
      /\ emitted' = <<PlainItem(SentFrame(Header(sent_frame_count, send_opcode, d).op, fin,
                                          Header(sent_frame_count, send_opcode, d).rsv1, 0, 0, 0))>>
      /\ tx' = tx
      /\ UNCHANGED <<established, deflate, send_opcode, aborted>>
  BY DEF SendBareFrame
<1>2. d \in BOOLEAN
  BY DEF Sends
<1>3. /\ send_opcode \in {TEXT, BINARY} /\ ~v.closed /\ IsSuffix(tx.window, v.window)
      /\ d => deflate.set
      /\ v.sizes # <<>> => v.op = send_opcode /\ v.deflated = d
  BY <1>1, InDataMessage
<1>4. Sends("SEND_FRAME") /\ send_opcode' = send_opcode /\ (d <=> Sends("SEND_DEFLATE"))
  BY <1>1 DEF InMessage
<1> HIDE DEF d
<1> QED BY <1>1, <1>2, <1>3, <1>4, BareKeeps

\* A PING or a PONG of a message that started with its opcode.
LEMMA OpcodeKeeps ==
    ASSUME Say, Masks \in BOOLEAN, NEW views, NEW v, Speaker(views, v),
           InMessage, MaySend, send_opcode \in {PING, PONG}, NEW len \in 0 .. MAX_CONTROL_PAYLOAD,
           emitted' = <<PlainItem(SentFrame(send_opcode, TRUE, FALSE, len, len, 0))>>,
           tx' \in [window: Seq(Nat), flushed: BOOLEAN],
           UNCHANGED <<established, deflate, send_flags, send_opcode, sent_frame_count, aborted>>
    PROVE  ConversationInv'
<1>1. Speaking(v) /\ aborted \in BOOLEAN /\ v \in ViewType /\ sent_frame_count \in Nat
  BY SpeakerKnows DEF Speaker, Typed
<1> PICK op : op = send_opcode
  OBVIOUS
<1>2. op \in {CLOSE, PING, PONG} /\ op \in Opcodes /\ op # CLOSE /\ IsControl(op)
  BY DEF CLOSE, PING, PONG, Opcodes, IsControl
<1>3. Sends("SEND_FRAME") /\ ~v.closed /\ saying = <<>>
  BY <1>1, <1>2 DEF Speaking, MaySend, InMessage
<1> PICK item : item = PlainItem(SentFrame(op, TRUE, FALSE, len, len, 0))
  OBVIOUS
<1>4. Follows(v, item, deflate.set) /\ IsControl(item.frame.op) /\ item \in ItemType /\ item.frame.op = op
  <2>1. len \in Nat /\ len <= MAX_CONTROL_PAYLOAD /\ 0 \in Nat
    BY DEF MAX_CONTROL_PAYLOAD
  <2>2. IsPlain(item, op, TRUE, FALSE, len, len, 0)
    BY <1>2, <2>1, PlainIs
  <2> QED BY <1>2, <1>3, <2>1, <2>2, ControlFollows
<1>5. saying' = saying
  BY <1>4, SpeakerKnows, SaidOne
<1> PICK u : u = After(v, item.frame, rx.reset_after)
  OBVIOUS
<1>6. u.sizes = v.sizes /\ u.closed = FALSE
  <2>1. Interrupted(u, v, item.frame.op)
    BY <1>1, <1>4, AfterControlIs
  <2> QED BY <1>2, <1>4, <2>1 DEF Interrupted
<1>7. Speaking(u)'
  BY <1>1, <1>2, <1>3, <1>5, <1>6 DEF Speaking, Sends
<1>8. CallTyped
  BY <1>1 DEF CallTyped
<1> QED BY <1>4, <1>7, <1>8, SayOneFrame DEF Speaker

LEMMA OpcodeControlKeeps ==
    ASSUME Say, TalkFits, NEW views, NEW v, Speaker(views, v), NEW size \in Nat, SendOpcodeControl(size)
    PROVE  ConversationInv'
<1> DEFINE d == Sends("SEND_DEFLATE")
           len == IF d THEN CompressedLength(size, TRUE) ELSE size
<1>1. /\ InMessage /\ MaySend /\ send_opcode \in {PING, PONG} /\ aborted' = Aborts(size)
      /\ size \in IF d THEN CompressedPayloads ELSE Payloads
      /\ emitted' = IF aborted' THEN <<>> ELSE <<PlainItem(SentFrame(send_opcode, TRUE, FALSE, len, len, 0))>>
      /\ tx' = IF d /\ ~aborted' THEN StreamAfter(<<size>>, TRUE) ELSE tx
      /\ UNCHANGED <<established, deflate, send_flags, send_opcode, sent_frame_count>>
  BY DEF SendOpcodeControl
<1>2. /\ Speaking(v) /\ aborted = FALSE /\ sent_frame_count \in Nat /\ Typed
      /\ tx \in [window: Seq(Nat), flushed: BOOLEAN]
  BY SpeakerKnows DEF Speaker, Typed
<1>3. aborted' \in BOOLEAN /\ Masks \in BOOLEAN
  BY <1>1 DEF Aborts, Sends, TalkFits
<1>4. CASE aborted'
  <2>1. emitted' = <<>> /\ tx' = tx
    BY <1>1, <1>4
  <2>2. CallTyped
    BY <1>1, <1>2, <1>3, <2>1 DEF CallTyped
  <2> QED BY <1>4, <2>1, <2>2, SayNoFrame DEF Speaker
<1>5. CASE ~aborted'
  <2>1. len \in 0 .. MAX_CONTROL_PAYLOAD
    <3>1. send_opcode \in StartOpcodes
      BY <1>1, <1>2 DEF Speaking, InMessage
    <3>2. StartOpcodes \cap {PING, PONG} # {}
      BY <1>1, <3>1
    <3>3. Payloads \subseteq 0 .. MAX_CONTROL_PAYLOAD /\ CompressedPayloads \subseteq 0 .. MAX_CONTROL_PAYLOAD - 1
      BY <3>2 DEF TalkFits
    <3> QED BY <1>1, <3>3 DEF CompressedLength, MAX_CONTROL_PAYLOAD
  <2>2. tx' \in [window: Seq(Nat), flushed: BOOLEAN]
    <3>1. <<size>> \in Seq(Nat)
      OBVIOUS
    <3> QED BY <1>1, <1>2, <3>1, StreamTyped
  <2>3. aborted' = aborted
    BY <1>2, <1>3, <1>5
  <2>4. emitted' = <<PlainItem(SentFrame(send_opcode, TRUE, FALSE, len, len, 0))>>
    BY <1>1, <1>5
  <2> HIDE DEF len
  <2> QED BY <1>1, <1>3, <2>1, <2>2, <2>3, <2>4, OpcodeKeeps
<1> QED BY <1>4, <1>5

LEMMA BareOpcodeControlKeeps ==
    ASSUME Say, Masks \in BOOLEAN, NEW views, NEW v, Speaker(views, v), SendBareOpcodeControl
    PROVE  ConversationInv'
<1>1. tx' \in [window: Seq(Nat), flushed: BOOLEAN]
  <2>1. tx \in [window: Seq(Nat), flushed: BOOLEAN]
    BY SpeakerKnows
  <2>2. FreshStream \in [window: Seq(Nat), flushed: BOOLEAN]
    BY DEF FreshStream
  <2> QED BY <2>1, <2>2 DEF SendBareOpcodeControl
<1>2. 0 \in 0 .. MAX_CONTROL_PAYLOAD
  BY DEF MAX_CONTROL_PAYLOAD
<1> QED BY <1>1, <1>2, OpcodeKeeps DEF SendBareOpcodeControl

LEMMA EmptyMessageKeeps ==
    ASSUME Say, Masks \in BOOLEAN, BareCompressed = FALSE, NEW views, NEW v, Speaker(views, v),
           NEW op \in StartOpcodes, ~IsControl(op), NEW wanted, NEW bare \in BOOLEAN,
           BuildEmptyMessage(op, wanted, bare)
    PROVE  ConversationInv'
<1> DEFINE d == BuilderDeflates(wanted, op, 0)
<1>1. /\ MaySend /\ ~Sends("SEND_FRAME") /\ SentData(1, TRUE) /\ send_opcode' = op
      /\ d => ~bare
      /\ aborted' = (d /\ ~bare /\ CompressFails(0))
      /\ emitted' = IF aborted' THEN <<>>
                    ELSE IF bare THEN <<PlainItem(SentFrame(Header(sent_frame_count, op, d).op, TRUE,
                                                            Header(sent_frame_count, op, d).rsv1, 0, 0, 0))>>
                    ELSE <<FragmentItem(<<0>>, 1, TRUE, op, d)>>
      /\ tx' = IF ~d \/ aborted' THEN tx
               ELSE IF bare THEN FreshStream ELSE StreamAfter(<<0>>, TRUE)
      /\ UNCHANGED <<established, deflate>>
  BY DEF BuildEmptyMessage
<1>2. /\ d \in BOOLEAN
      /\ d => deflate.set
  <2>1. deflate.set \in BOOLEAN
    BY SpeakerKnows
  <2> QED BY <2>1 DEF BuilderDeflates
<1> HIDE DEF d
<1>3. Speaking(v) /\ aborted = FALSE /\ tx \in [window: Seq(Nat), flushed: BOOLEAN] /\ sent_frame_count \in Nat
  BY SpeakerKnows DEF Speaker, Typed
<1>4. op \in {TEXT, BINARY}
  BY StartAssumption DEF IsControl, PING, PONG, CLOSE
<1>5. ~v.closed /\ v.sizes = <<>> /\ IsSuffix(tx.window, v.window)
  BY <1>1, <1>3 DEF Speaking, MaySend
<1>6. CASE aborted'
  <2>1. emitted' = <<>> /\ tx' = tx /\ aborted' \in BOOLEAN
    BY <1>1, <1>2, <1>6 DEF CompressFails
  <2>2. CallTyped
    <3>1. sent_frame_count' \in Nat
      BY <1>1, <1>3, CountTyped
    <3> QED BY <1>1, <1>3, <2>1, <3>1 DEF CallTyped
  <2> QED BY <1>6, <2>1, <2>2, SayNoFrame DEF Speaker
<1>7. CASE ~aborted'
  <2>1. aborted' = aborted
    BY <1>1, <1>3, <1>7
  <2>2. CASE bare
    <3>1. /\ emitted' = <<PlainItem(SentFrame(Header(sent_frame_count, op, d).op, TRUE,
                                              Header(sent_frame_count, op, d).rsv1, 0, 0, 0))>>
          /\ tx' = tx /\ d = FALSE
      BY <1>1, <1>2, <1>7, <2>2
    <3> QED BY <1>1, <1>4, <1>5, <2>1, <3>1, BareKeeps
  <2>3. CASE ~bare
    <3>1. emitted' = <<FragmentItem(<<0>>, 1, TRUE, op, d)>>
      BY <1>1, <1>7, <2>3
    <3>2. tx' = IF d THEN StreamAfter(<<0>>, TRUE) ELSE tx
      BY <1>1, <1>7, <2>3
    <3>3. 0 \in Nat
      OBVIOUS
    <3> QED BY <1>1, <1>2, <1>4, <1>5, <2>1, <3>1, <3>2, <3>3, FragmentKeeps
  <2> QED BY <2>2, <2>3
<1> QED BY <1>6, <1>7

\* The view behind i fragments of a message that is sent whole.
Partway(v, parts, op, d, i) ==
    IF i = 0 THEN v
    ELSE [op |-> op, deflated |-> d, sizes |-> SubSeq(parts, 1, i),
          window |-> IF d THEN v.window \o SubSeq(parts, 1, i) ELSE v.window,
          closed |-> FALSE, heard |-> v.heard]

IsPartway(w, v, parts, op, d, i) ==
    /\ w \in ViewType /\ w.closed = FALSE /\ w.heard = v.heard
    /\ w.sizes = SubSeq(parts, 1, i)
    /\ w.sizes = <<>> <=> i = 0
    /\ i # 0 => w.op = op /\ w.deflated = d
    /\ w.window = IF d THEN v.window \o SubSeq(parts, 1, i) ELSE v.window

LEMMA FirstParts ==
    ASSUME NEW s \in Seq(Nat), NEW i \in 0 .. Len(s)
    PROVE  /\ SubSeq(s, 1, i) \in Seq(Nat) /\ Len(SubSeq(s, 1, i)) = i
           /\ SubSeq(s, 1, i) = <<>> <=> i = 0
<1>1. SubSeq(s, 1, i) \in Seq(Nat) /\ Len(SubSeq(s, 1, i)) = i
  OBVIOUS
<1> QED BY <1>1

LEMMA AppendBehind ==
    ASSUME NEW a \in Seq(Nat), NEW r \in Seq(Nat), NEW n \in Nat
    PROVE  Append(a \o r, n) = a \o Append(r, n)
<1> PICK s, t : s = Append(a \o r, n) /\ t = a \o Append(r, n)
  OBVIOUS
<1>1. /\ s \in Seq(Nat) /\ t \in Seq(Nat)
      /\ Len(s) = Len(a) + Len(r) + 1 /\ Len(t) = Len(a) + Len(r) + 1
  OBVIOUS
<1>2. ASSUME NEW i \in 1 .. Len(s) PROVE s[i] = t[i]
  BY <1>1
<1> QED BY <1>1, <1>2, SameElements

IsView(w, op, d, r, z, h) ==
    /\ w \in ViewType /\ w.closed = FALSE /\ w.heard = h /\ w.sizes = r
    /\ w.op = op /\ w.deflated = d /\ w.window = z

LEMMA ViewIs ==
    ASSUME NEW op \in Opcodes, NEW d \in BOOLEAN, NEW r \in Seq(Nat), NEW z \in Seq(Nat),
           NEW h \in Seq(MessageType), NEW w,
           w = [op |-> op, deflated |-> d, sizes |-> r, window |-> z, closed |-> FALSE, heard |-> h]
    PROVE  IsView(w, op, d, r, z, h)
BY DEF ViewType, IsView

LEMMA PartwayIs ==
    ASSUME NEW v \in ViewType, ~v.closed, v.sizes = <<>>, NEW parts \in Seq(Nat), NEW op \in Opcodes,
           NEW d \in BOOLEAN, NEW i \in 0 .. Len(parts)
    PROVE  IsPartway(Partway(v, parts, op, d, i), v, parts, op, d, i)
<1> PICK w : w = Partway(v, parts, op, d, i)
  OBVIOUS
<1> PICK r : r = SubSeq(parts, 1, i)
  OBVIOUS
<1> DEFINE z == IF d THEN v.window \o r ELSE v.window
<1>1. v.window \in Seq(Nat) /\ v.heard \in Seq(MessageType) /\ v.closed = FALSE
  BY ViewParts
<1>2. r \in Seq(Nat) /\ (r = <<>> <=> i = 0)
  BY FirstParts
<1>3. z \in Seq(Nat)
  <2>1. v.window \o r \in Seq(Nat)
    BY <1>1, <1>2
  <2> QED BY <1>1, <2>1
<1>4. CASE i = 0
  <2>1. w = v /\ r = <<>>
    BY <1>2, <1>4 DEF Partway
  <2>2. z = v.window
    <3>1. v.window \o <<>> = v.window
      BY <1>1
    <3> QED BY <2>1, <3>1
  <2> QED BY <1>1, <1>4, <2>1, <2>2 DEF IsPartway
<1>5. CASE i # 0
  <2>1. w = [op |-> op, deflated |-> d, sizes |-> r, window |-> z, closed |-> FALSE, heard |-> v.heard]
    BY <1>5 DEF Partway
  <2>2. /\ w \in ViewType /\ w.closed = FALSE /\ w.heard = v.heard /\ w.sizes = r
        /\ w.op = op /\ w.deflated = d /\ w.window = z
    <3> HIDE DEF z
    <3>1. r \in Seq(Nat) /\ v.heard \in Seq(MessageType)
      BY <1>1, <1>2
    <3>2. IsView(w, op, d, r, z, v.heard)
      BY <1>3, <2>1, <3>1, ViewIs, Zenon
    <3> QED BY <3>2 DEF IsView
  <2> QED BY <1>2, <1>5, <2>2 DEF IsPartway
<1> QED BY <1>4, <1>5

\* A message that is sent whole, in its place.
Whole(v, parts, op, d) ==
    /\ Typed /\ Masks \in BOOLEAN /\ v \in ViewType /\ ~v.closed /\ v.sizes = <<>>
    /\ parts \in Seq(Nat \ {0}) /\ parts # <<>>
    /\ op \in {TEXT, BINARY} /\ d \in BOOLEAN
    /\ sent_frame_count = 0 /\ (d => deflate.set)
    /\ IsSuffix(tx.window, v.window)

LEMMA WholeHas ==
    ASSUME NEW v, NEW parts, NEW op, NEW d, Whole(v, parts, op, d)
    PROVE  /\ Len(parts) \in Nat \ {0} /\ parts \in Seq(Nat) /\ op \in Opcodes /\ ~IsControl(op)
           /\ \A i \in 1 .. Len(parts) :
                 parts[i] \in Nat /\ parts[i] > 0
                 /\ Append(SubSeq(parts, 1, i - 1), parts[i]) = SubSeq(parts, 1, i)
           /\ SubSeq(parts, 1, Len(parts)) = parts
           /\ v.window \in Seq(Nat) /\ tx.window \in Seq(Nat)
<1>1. parts \in Seq(Nat \ {0}) /\ parts # <<>> /\ op \in {TEXT, BINARY} /\ v \in ViewType
  BY DEF Whole
<1>2. Len(parts) \in Nat \ {0} /\ SubSeq(parts, 1, Len(parts)) = parts /\ parts \in Seq(Nat)
  BY <1>1
<1>3. ASSUME NEW i \in 1 .. Len(parts)
      PROVE  /\ parts[i] \in Nat /\ parts[i] > 0
             /\ Append(SubSeq(parts, 1, i - 1), parts[i]) = SubSeq(parts, 1, i)
  <2>1. parts[i] \in Nat /\ parts[i] > 0
    BY <1>1
  <2>2. Append(SubSeq(parts, 1, i - 1), parts[i]) = SubSeq(parts, 1, i)
    BY <1>1
  <2> QED BY <2>1, <2>2
<1>4. op \in Opcodes /\ ~IsControl(op)
  BY <1>1 DEF Opcodes, TEXT, BINARY, IsControl, CLOSE
<1>5. v.window \in Seq(Nat) /\ tx.window \in Seq(Nat)
  BY ViewParts DEF Whole, Typed
<1> QED BY <1>2, <1>3, <1>4, <1>5

\* Each fragment follows the one before it.
LEMMA PartFollows ==
    ASSUME NEW v, NEW parts, NEW op, NEW d, Whole(v, parts, op, d), NEW i \in 1 .. Len(parts)
    PROVE  /\ IsPartway(Partway(v, parts, op, d, i - 1), v, parts, op, d, i - 1)
           /\ FragmentFits(FragmentItem(parts, i, TRUE, op, d), Partway(v, parts, op, d, i - 1), op, d)
<1> PICK w : w = Partway(v, parts, op, d, i - 1)
  OBVIOUS
<1> PICK r : r = SubSeq(parts, 1, i - 1)
  OBVIOUS
<1>1. /\ Typed /\ Masks \in BOOLEAN /\ v \in ViewType /\ ~v.closed /\ v.sizes = <<>>
      /\ op \in {TEXT, BINARY} /\ d \in BOOLEAN /\ sent_frame_count = 0
      /\ (d => deflate.set) /\ IsSuffix(tx.window, v.window)
  BY DEF Whole
<1>2. parts \in Seq(Nat) /\ op \in Opcodes /\ v.window \in Seq(Nat) /\ tx.window \in Seq(Nat)
  BY WholeHas
<1>3. i - 1 \in 0 .. Len(parts) /\ r \in Seq(Nat)
  BY <1>2
<1>4. IsPartway(w, v, parts, op, d, i - 1)
  BY <1>1, <1>2, <1>3, PartwayIs
<1>5. /\ w \in ViewType /\ ~w.closed
      /\ w.sizes = <<>> <=> i - 1 = 0
      /\ w.sizes # <<>> => w.deflated = d
      /\ d => w.window = v.window \o r
  BY <1>4 DEF IsPartway
<1>6. d => IsSuffix(tx.window \o r, w.window)
  BY <1>1, <1>2, <1>3, <1>5, SuffixGrows
<1>7. sent_frame_count + i - 1 = 0 <=> w.sizes = <<>>
  BY <1>1, <1>5
<1>8. FragmentFits(FragmentItem(parts, i, TRUE, op, d), w, op, d)
  <2>1. TRUE \in BOOLEAN
    OBVIOUS
  <2>2. w \in ViewType
    BY <1>5
  <2>3. ~w.closed
    BY <1>5
  <2>4. w.sizes # <<>> => w.deflated = d
    BY <1>5
  <2>5. parts \in Seq(Nat)
    BY <1>2
  <2>6. d => IsSuffix(tx.window \o SubSeq(parts, 1, i - 1), w.window)
    BY <1>6
  <2> QED BY <1>1, <1>7, <2>1, <2>2, <2>3, <2>4, <2>5, <2>6, FragmentFollows, Zenon
<1> QED BY <1>4, <1>8

\* The frame of a fragment in a whole message.
IsPart(item, parts, i) ==
    /\ item \in ItemType /\ item.frame.size = parts[i] /\ item.frame.fin = (i = Len(parts))
    /\ item.frame \in FrameType /\ ~IsControl(item.frame.op)

LEMMA PartIs ==
    ASSUME NEW v, NEW parts, NEW op, NEW d, Whole(v, parts, op, d), NEW i \in 1 .. Len(parts)
    PROVE  IsPart(FragmentItem(parts, i, TRUE, op, d), parts, i)
<1> PICK item : item = FragmentItem(parts, i, TRUE, op, d)
  OBVIOUS
<1>1. IsFragment(item, parts, i, TRUE, op, d)
  <2>1. Typed /\ Masks \in BOOLEAN /\ d \in BOOLEAN /\ TRUE \in BOOLEAN
    BY DEF Whole
  <2>2. parts \in Seq(Nat) /\ op \in Opcodes
    BY WholeHas
  <2> QED BY <2>1, <2>2, FragmentIs
<1>2. item \in ItemType /\ item.frame.size = parts[i] /\ item.frame.fin = (TRUE /\ i = Len(parts))
  BY <1>1, Zenon DEF IsFragment
<1>3. ~IsControl(item.frame.op)
  BY PartFollows DEF FragmentFits
<1> QED BY <1>2, <1>3, ItemParts DEF IsPart

\* The view behind a fragment that is not the last.
LEMMA PartGoesOn ==
    ASSUME NEW v, NEW parts, NEW op, NEW d, Whole(v, parts, op, d), NEW i \in 1 .. Len(parts) - 1,
           NEW reset
    PROVE  After(Partway(v, parts, op, d, i - 1), FragmentItem(parts, i, TRUE, op, d).frame, reset)
             = Partway(v, parts, op, d, i)
<1> PICK w : w = Partway(v, parts, op, d, i - 1)
  OBVIOUS
<1> PICK item : item = FragmentItem(parts, i, TRUE, op, d)
  OBVIOUS
<1> PICK f : f = item.frame
  OBVIOUS
<1> PICK r : r = SubSeq(parts, 1, i - 1)
  OBVIOUS
<1>1. i \in 1 .. Len(parts) /\ i # Len(parts) /\ i # 0
  BY WholeHas
<1>2. f.size = parts[i] /\ f.fin = FALSE /\ ~IsControl(f.op)
  <2>1. IsPart(item, parts, i)
    BY <1>1, PartIs, Zenon
  <2> QED BY <1>1, <2>1 DEF IsPart
<1>3. /\ parts[i] > 0 /\ Append(r, parts[i]) = SubSeq(parts, 1, i)
      /\ v.window \in Seq(Nat) /\ parts[i] \in Nat
  BY <1>1, WholeHas
<1>4. r \in Seq(Nat)
  BY <1>1, WholeHas
<1>5. IsPartway(w, v, parts, op, d, i - 1) /\ FragmentFits(item, w, op, d)
  BY <1>1, PartFollows
<1>6. /\ w.closed = FALSE /\ w.heard = v.heard /\ w.sizes = r
      /\ i - 1 # 0 => w.op = op
      /\ w.sizes = <<>> <=> i - 1 = 0
      /\ w.window = IF d THEN v.window \o r ELSE v.window
  BY <1>5 DEF IsPartway
<1>7. Deflated(w, f) = d /\ (w.sizes = <<>> => Opcode(w, f) = op)
  BY <1>5 DEF FragmentFits
<1>8. Opcode(w, f) = op
  BY <1>6, <1>7 DEF Opcode
<1>9. WindowAfter(w, f, reset) = IF d THEN v.window \o SubSeq(parts, 1, i) ELSE v.window
  <2>1. CASE d
    <3>1. WindowAfter(w, f, reset) = Append(v.window \o r, parts[i])
      BY <1>2, <1>3, <1>6, <1>7, <2>1 DEF WindowAfter
    <3>2. Append(v.window \o r, parts[i]) = v.window \o Append(r, parts[i])
      BY <1>3, <1>4, AppendBehind
    <3> QED BY <1>3, <2>1, <3>1, <3>2
  <2>2. CASE ~d
    BY <1>6, <1>7, <2>2 DEF WindowAfter
  <2> QED BY <2>1, <2>2
<1>10. After(w, f, reset) = AfterData(w, f, reset)
  BY <1>2 DEF After
<1>11. AfterData(w, f, reset) = [op |-> op, deflated |-> d, sizes |-> SubSeq(parts, 1, i),
                                 window |-> WindowAfter(w, f, reset), closed |-> FALSE, heard |-> v.heard]
  <2>1. AfterData(w, f, reset) = [op |-> Opcode(w, f), deflated |-> TRUE /\ Deflated(w, f),
                                  sizes |-> Append(w.sizes, f.size), window |-> WindowAfter(w, f, reset),
                                  closed |-> w.closed, heard |-> w.heard]
    BY <1>2 DEF AfterData
  <2>2. (TRUE /\ Deflated(w, f)) = d /\ Append(w.sizes, f.size) = SubSeq(parts, 1, i)
    <3>1. d \in BOOLEAN
      BY DEF Whole
    <3> QED BY <1>2, <1>3, <1>6, <1>7, <3>1
  <2> QED BY <1>6, <1>8, <2>1, <2>2
<1>12. Partway(v, parts, op, d, i) = [op |-> op, deflated |-> d, sizes |-> SubSeq(parts, 1, i),
                                      window |-> IF d THEN v.window \o SubSeq(parts, 1, i) ELSE v.window,
                                      closed |-> FALSE, heard |-> v.heard]
  BY <1>1 DEF Partway
<1> QED BY <1>9, <1>10, <1>11, <1>12

\* The view behind the last.
IsEnd(u, v, parts, op, d, reset) ==
    /\ u.sizes = <<>> /\ u.closed = FALSE /\ u.heard = Append(v.heard, Message(op, parts))
    /\ u.window = IF ~d THEN v.window ELSE IF reset THEN <<>> ELSE v.window \o parts

LEMMA PartEnds ==
    ASSUME NEW v, NEW parts, NEW op, NEW d, Whole(v, parts, op, d), NEW n, n = Len(parts), NEW reset,
           NEW u, u = After(Partway(v, parts, op, d, n - 1), FragmentItem(parts, n, TRUE, op, d).frame, reset)
    PROVE  IsEnd(u, v, parts, op, d, reset)
<1> PICK w : w = Partway(v, parts, op, d, n - 1)
  OBVIOUS
<1> PICK item : item = FragmentItem(parts, n, TRUE, op, d)
  OBVIOUS
<1> PICK f : f = item.frame
  OBVIOUS
<1> PICK r : r = SubSeq(parts, 1, n - 1)
  OBVIOUS
<1>1. n \in 1 .. Len(parts) /\ n \in Nat
  BY WholeHas
<1>2. f.size = parts[n] /\ f.fin = TRUE /\ ~IsControl(f.op)
  <2>1. IsPart(item, parts, n)
    BY <1>1, PartIs, Zenon
  <2> QED BY <2>1 DEF IsPart
<1>3. /\ parts[n] > 0 /\ Append(r, parts[n]) = parts
      /\ v.window \in Seq(Nat) /\ parts[n] \in Nat
  BY <1>1, WholeHas
<1>4. r \in Seq(Nat)
  BY <1>1, WholeHas
<1>5. IsPartway(w, v, parts, op, d, n - 1) /\ FragmentFits(item, w, op, d)
  BY <1>1, PartFollows
<1>6. /\ w.closed = FALSE /\ w.heard = v.heard /\ w.sizes = r
      /\ n - 1 # 0 => w.op = op
      /\ w.sizes = <<>> <=> n - 1 = 0
      /\ w.window = IF d THEN v.window \o r ELSE v.window
  BY <1>5 DEF IsPartway
<1>7. Deflated(w, f) = d /\ (w.sizes = <<>> => Opcode(w, f) = op)
  BY <1>5 DEF FragmentFits
<1>8. Opcode(w, f) = op
  BY <1>6, <1>7 DEF Opcode
<1>9. WindowAfter(w, f, reset) = IF ~d THEN v.window ELSE IF reset THEN <<>> ELSE v.window \o parts
  <2>1. CASE d /\ ~reset
    <3>1. WindowAfter(w, f, reset) = Append(v.window \o r, parts[n])
      BY <1>2, <1>3, <1>6, <1>7, <2>1 DEF WindowAfter
    <3>2. Append(v.window \o r, parts[n]) = v.window \o Append(r, parts[n])
      BY <1>3, <1>4, AppendBehind
    <3> QED BY <1>3, <2>1, <3>1, <3>2
  <2>2. CASE ~d
    BY <1>6, <1>7, <2>2 DEF WindowAfter
  <2>3. CASE d /\ reset
    BY <1>2, <1>7, <2>3 DEF WindowAfter
  <2> QED BY <2>1, <2>2, <2>3
<1>10. u = AfterData(w, f, reset)
  BY <1>2 DEF After
<1>11. u.sizes = <<>> /\ u.closed = w.closed /\ u.window = WindowAfter(w, f, reset)
  <2>1. /\ AfterData(w, f, reset).sizes = <<>>
        /\ AfterData(w, f, reset).closed = w.closed
        /\ AfterData(w, f, reset).window = WindowAfter(w, f, reset)
    BY <1>2 DEF AfterData
  <2> QED BY <1>10, <2>1
<1>12. u.heard = Append(v.heard, Message(op, parts))
  <2>1. AfterData(w, f, reset).heard = Append(w.heard, Message(Opcode(w, f), Append(w.sizes, f.size)))
    BY <1>2 DEF AfterData
  <2>2. Append(w.sizes, f.size) = parts
    BY <1>2, <1>3, <1>6
  <2> QED BY <1>6, <1>8, <1>10, <2>1, <2>2
<1>13. u.closed = FALSE
  BY <1>6, <1>11
<1> QED BY <1>9, <1>11, <1>12, <1>13, Zenon DEF IsEnd

LEMMA ElementsMakeSeq ==
    ASSUME NEW S, NEW n \in Nat, NEW e \in [1 .. n -> S]
    PROVE  e \in Seq(S)
OBVIOUS

\* The frames of a message that is sent whole, and what is said by them.
LEMMA WholeSaid ==
    ASSUME Say, NEW v, NEW parts, NEW op, NEW d, Whole(v, parts, op, d), saying = <<>>, send_opcode' = op,
           emitted' = [i \in DOMAIN parts |-> FragmentItem(parts, i, TRUE, op, d)]
    PROVE  /\ emitted' \in Seq(ItemType) /\ Len(emitted') = Len(parts)
           /\ \A i \in 1 .. Len(parts) : emitted'[i] = FragmentItem(parts, i, TRUE, op, d)
           /\ saying' = <<>> /\ said' = Append(said, Message(op, parts))
<1> DEFINE n == Len(parts)
           sent == [i \in DOMAIN emitted' |-> emitted'[i].frame.size]
<1>1. n \in Nat \ {0} /\ parts \in Seq(Nat)
  BY WholeHas
<1>2. emitted' = [i \in 1 .. n |-> FragmentItem(parts, i, TRUE, op, d)]
  <2>1. DOMAIN parts = 1 .. n
    BY <1>1
  <2> QED BY <2>1
<1> HIDE DEF n
<1>3. \A i \in 1 .. n : emitted'[i] = FragmentItem(parts, i, TRUE, op, d)
  BY <1>2
<1>4. ASSUME NEW i \in 1 .. n
      PROVE  /\ emitted'[i] \in ItemType /\ emitted'[i].frame.size = parts[i]
             /\ emitted'[i].frame.fin = (i = n) /\ ~IsControl(emitted'[i].frame.op)
  <2>1. i \in 1 .. Len(parts)
    BY DEF n
  <2>2. IsPart(FragmentItem(parts, i, TRUE, op, d), parts, i)
    BY <2>1, PartIs, Zenon
  <2> QED BY <1>3, <2>2 DEF IsPart, n
<1>5. emitted' \in Seq(ItemType)
  <2> PICK e : e = emitted'
    OBVIOUS
  <2>1. e = [i \in 1 .. n |-> e[i]]
    BY <1>2
  <2>2. \A i \in 1 .. n : e[i] \in ItemType
    BY <1>4
  <2>3. e \in [1 .. n -> ItemType]
    BY <2>1, <2>2
  <2>4. n \in Nat
    BY <1>1
  <2> QED BY <2>3, <2>4, ElementsMakeSeq, Zenon
<1>6. Len(emitted') = n /\ DOMAIN emitted' = 1 .. n /\ emitted' # <<>>
  <2>1. DOMAIN emitted' = 1 .. n
    BY <1>2
  <2>2. Len(emitted') \in Nat /\ DOMAIN emitted' = 1 .. Len(emitted')
    BY <1>5
  <2>3. Len(emitted') = n
    BY <1>1, <2>1, <2>2
  <2> QED BY <1>1, <1>5, <2>1, <2>3
<1>7. sent = parts
  <2>1. sent = [i \in 1 .. n |-> parts[i]]
    BY <1>4, <1>6
  <2>2. parts = [i \in 1 .. n |-> parts[i]]
    BY <1>1 DEF n
  <2> QED BY <2>1, <2>2, Zenon
<1>8. saying \o sent = parts
  <2>1. <<>> \o parts = parts
    BY <1>1
  <2> QED BY <1>7, <2>1
<1>9. 1 \in 1 .. n /\ n \in 1 .. n
  BY <1>1
<1>10. ~IsControl(emitted'[1].frame.op) /\ emitted'[Len(emitted')].frame.fin
  BY <1>4, <1>6, <1>9
<1>11. /\ saying' = IF FALSE THEN saying ELSE IF TRUE THEN <<>> ELSE saying \o sent
       /\ said' = Append(said, Message(send_opcode', saying \o sent))
  BY <1>6, <1>10 DEF Say
<1> QED BY <1>3, <1>5, <1>6, <1>8, <1>11 DEF n

\* The views behind them.
LeadsOn(v, e, n, last, reset) ==
    \E more : Line(more, e, deflate.set, reset) /\ more[0] = v /\ more[n] = last

LEMMA WholeLine ==
    ASSUME NEW v, NEW parts, NEW op, NEW d, Whole(v, parts, op, d), NEW e \in Seq(ItemType),
           Len(e) = Len(parts), \A i \in 1 .. Len(parts) : e[i] = FragmentItem(parts, i, TRUE, op, d),
           NEW reset \in BOOLEAN, NEW n, n = Len(parts),
           NEW last, last = After(Partway(v, parts, op, d, n - 1), FragmentItem(parts, n, TRUE, op, d).frame, reset)
    PROVE  LeadsOn(v, e, n, last, reset)
<1> DEFINE more == [i \in 0 .. n |-> IF i = n THEN last ELSE Partway(v, parts, op, d, i)]
<1>1. n \in Nat \ {0}
  BY WholeHas
<1>2. more[0] = v /\ more[n] = last
  BY <1>1 DEF Partway
<1>3. ASSUME NEW i \in 1 .. n
      PROVE  /\ more[i - 1] = Partway(v, parts, op, d, i - 1) /\ more[i - 1] \in ViewType
             /\ e[i] = FragmentItem(parts, i, TRUE, op, d)
             /\ Follows(more[i - 1], e[i], deflate.set)
             /\ more[i] = After(more[i - 1], e[i].frame, reset)
  <2>1. i - 1 \in 0 .. n /\ i - 1 # n /\ i \in 0 .. n /\ i \in 1 .. Len(parts)
    BY <1>1
  <2>2. more[i - 1] = Partway(v, parts, op, d, i - 1) /\ e[i] = FragmentItem(parts, i, TRUE, op, d)
    BY <2>1
  <2>3. /\ IsPartway(Partway(v, parts, op, d, i - 1), v, parts, op, d, i - 1)
        /\ FragmentFits(FragmentItem(parts, i, TRUE, op, d), Partway(v, parts, op, d, i - 1), op, d)
    BY <2>1, PartFollows, Zenon
  <2>4. more[i - 1] \in ViewType /\ Follows(more[i - 1], e[i], deflate.set)
    BY <2>2, <2>3, Zenon DEF IsPartway, FragmentFits
  <2>5. more[i] = After(more[i - 1], e[i].frame, reset)
    <3>1. CASE i = n
      BY <1>2, <2>2, <3>1
    <3>2. CASE i # n
      <4>1. i \in 1 .. Len(parts) - 1
        BY <1>1, <3>2
      <4>2. After(Partway(v, parts, op, d, i - 1), FragmentItem(parts, i, TRUE, op, d).frame, reset)
              = Partway(v, parts, op, d, i)
        BY <4>1, PartGoesOn, Zenon
      <4>3. more[i] = Partway(v, parts, op, d, i)
        BY <2>1, <3>2
      <4> HIDE DEF more
      <4> QED BY <2>2, <4>2, <4>3, Zenon
    <3> QED BY <3>1, <3>2
  <2> HIDE DEF more
  <2> QED BY <2>2, <2>4, <2>5
<1> HIDE DEF more
<1>4. ASSUME NEW i \in 0 .. n PROVE more[i] \in ViewType
  <2>1. CASE i = n
    <3>1. n \in 1 .. n
      BY <1>1
    <3>2. more[n - 1] \in ViewType /\ more[n] = After(more[n - 1], e[n].frame, reset)
      BY <1>3, <3>1
    <3>3. e[n].frame \in FrameType
      <4>1. e[n] \in ItemType
        BY <3>1
      <4> QED BY <4>1, ItemParts
    <3> QED BY <2>1, <3>2, <3>3, AfterTyped
  <2>2. CASE i # n
    <3> PICK j : j = i + 1
      OBVIOUS
    <3>1. j \in 1 .. n /\ j - 1 = i
      BY <1>1, <2>2
    <3> QED BY <1>3, <3>1
  <2> QED BY <2>1, <2>2
<1>5. Line(more, e, deflate.set, reset)
  BY <1>3, <1>4 DEF Line
<1> QED BY <1>2, <1>5 DEF LeadsOn

LEMMA BuildMessageKeeps ==
    ASSUME Say, Masks \in BOOLEAN, NEW views, NEW v, Speaker(views, v),
           NEW op \in StartOpcodes, ~IsControl(op), NEW wanted, NEW list \in Seq(Nat),
           BuildMessage(op, wanted, list)
    PROVE  ConversationInv'
<1> DEFINE d == BuilderDeflates(wanted, op, TotalLength(list))
           parts == Filled(list)
           n == Len(parts)
<1>1. /\ MaySend /\ ~Sends("SEND_FRAME") /\ SentData(n, TRUE) /\ send_opcode' = op
      /\ parts # <<>>
      /\ emitted' = [i \in DOMAIN parts |-> FragmentItem(parts, i, TRUE, op, d)]
      /\ tx' = IF d THEN StreamAfter(parts, TRUE) ELSE tx
      /\ UNCHANGED <<established, deflate, aborted>>
  BY DEF BuildMessage
<1>2. d \in BOOLEAN /\ (d => deflate.set)
  <2>1. deflate.set \in BOOLEAN
    BY SpeakerKnows
  <2> QED BY <2>1 DEF BuilderDeflates
<1>3. parts \in Seq(Nat \ {0}) /\ Filled(parts) = parts
  BY FilledType, FilledAll
<1> HIDE DEF d, parts
<1>4. /\ Speaking(v) /\ aborted = FALSE /\ Typed /\ v \in ViewType /\ v.heard = said
      /\ tx \in [window: Seq(Nat), flushed: BOOLEAN] /\ rx.reset_after \in BOOLEAN
      /\ rx.reset_after => deflate.reset_after_tx
  BY SpeakerKnows DEF Speaker, Behind, Typed
<1>5. /\ ~v.closed /\ v.sizes = <<>> /\ saying = <<>> /\ sent_frame_count = 0
      /\ IsSuffix(tx.window, v.window)
  BY <1>1, <1>4 DEF Speaking, MaySend
<1>6. op \in {TEXT, BINARY}
  BY StartAssumption DEF IsControl, PING, PONG, CLOSE
<1>7. Whole(v, parts, op, d)
  BY <1>1, <1>2, <1>3, <1>4, <1>5, <1>6 DEF Whole
<1> PICK last : last = After(Partway(v, parts, op, d, n - 1), FragmentItem(parts, n, TRUE, op, d).frame,
                             rx.reset_after)
  OBVIOUS
<1>8. /\ emitted' \in Seq(ItemType) /\ Len(emitted') = n
      /\ \A i \in 1 .. n : emitted'[i] = FragmentItem(parts, i, TRUE, op, d)
      /\ saying' = <<>> /\ said' = Append(said, Message(op, parts))
  BY <1>1, <1>5, <1>7, WholeSaid
<1>9. PICK more : Line(more, emitted', deflate.set, rx.reset_after) /\ more[0] = v /\ more[n] = last
  <2>1. rx.reset_after \in BOOLEAN
    BY <1>4
  <2>2. emitted' \in Seq(ItemType)
    BY <1>8
  <2>3. Len(emitted') = n
    BY <1>8
  <2>4. \A i \in 1 .. n : emitted'[i] = FragmentItem(parts, i, TRUE, op, d)
    BY <1>8
  <2>5. LeadsOn(v, emitted', n, last, rx.reset_after)
    BY <1>7, <2>1, <2>2, <2>3, <2>4, WholeLine, Zenon
  <2> QED BY <2>5 DEF LeadsOn
<1>10. /\ last.sizes = <<>> /\ last.closed = FALSE /\ last.heard = Append(v.heard, Message(op, parts))
       /\ last.window = IF ~d THEN v.window ELSE IF rx.reset_after THEN <<>> ELSE v.window \o parts
  <2>1. IsEnd(last, v, parts, op, d, rx.reset_after)
    BY <1>7, PartEnds, Zenon
  <2> QED BY <2>1 DEF IsEnd
<1>11. v.window \in Seq(Nat) /\ tx.window \in Seq(Nat) /\ parts \in Seq(Nat) /\ n \in Nat
  BY <1>7, WholeHas
<1>12. IsSuffix(tx'.window, last.window)
  <2>1. CASE ~d
    BY <1>1, <1>5, <1>10, <2>1
  <2>2. CASE d /\ deflate.reset_after_tx
    <3>1. tx'.window = <<>>
      BY <1>1, <2>2 DEF StreamAfter, FreshStream
    <3>2. last.window \in Seq(Nat)
      <4>1. v.window \o parts \in Seq(Nat) /\ <<>> \in Seq(Nat)
        BY <1>11
      <4> QED BY <1>10, <1>11, <4>1, Zenon
    <3> QED BY <3>1, <3>2, SuffixNone
  <2>3. CASE d /\ ~deflate.reset_after_tx
    <3>1. tx'.window = tx.window \o parts
      BY <1>1, <1>3, <2>3 DEF StreamAfter
    <3>2. last.window = v.window \o parts
      BY <1>4, <1>10, <2>3
    <3> QED BY <1>5, <1>11, <3>1, <3>2, SuffixGrows
  <2> QED BY <2>1, <2>2, <2>3
<1>13. Speaking(last)'
  <2>1. send_flags' = send_flags \ {"SEND_FRAME", "SEND_DEFLATE"} /\ sent_frame_count' = 0
    BY <1>1 DEF SentData
  <2> QED BY <1>1, <1>8, <1>10, <1>12, <2>1 DEF Speaking, Sends, MaySend
<1>14. CallTyped
  <2>1. tx' \in [window: Seq(Nat), flushed: BOOLEAN]
    BY <1>1, <1>4, <1>11, StreamTyped
  <2>2. sent_frame_count' \in Nat
    BY <1>1 DEF SentData
  <2>3. aborted' \in BOOLEAN
    BY <1>1, <1>4
  <2> QED BY <1>1, <2>1, <2>2, <2>3 DEF CallTyped
<1>15. last.heard = said' /\ saying' \in Seq(Nat)
  <2>1. last.heard = Append(said, Message(op, parts))
    BY <1>4, <1>10
  <2>2. said' = Append(said, Message(op, parts)) /\ saying' = <<>> /\ <<>> \in Seq(Nat)
    BY <1>8
  <2> QED BY <2>1, <2>2, Zenon
<1> QED BY <1>8, <1>9, <1>13, <1>14, <1>15, SayOn DEF Speaker

LEMMA PartListTyped == ASSUME NEW list \in PartLists PROVE list \in Seq(Nat)
<1>1. Payloads \cup {0} \subseteq Nat /\ Payloads \subseteq Nat
  BY SizesAssumption
<1>2. CASE \E a \in Payloads : list = <<a>>
  BY <1>1, <1>2
<1>3. CASE \E a, b \in Payloads \cup {0} : list = <<a, b>>
  BY <1>1, <1>3
<1> QED BY <1>2, <1>3 DEF PartLists

\* Every call leaves the ends in step.
LEMMA SayKeeps == ASSUME ConversationInv, TalkFits, Say PROVE ConversationInv'
<1> PICK views : InLine(views)
  BY DEF ConversationInv
<1> PICK v : v = views[Len(wire)]
  OBVIOUS
<1>1. Behind(v)
  BY LastView, Zenon
<1>2. Call
  BY DEF Say
<1>3. /\ Masks \in BOOLEAN /\ BareCompressed = FALSE /\ ControlLengths \subseteq Nat /\ Codes \subseteq Nat
      /\ \A code \in Codes : ~IsSendingForbidden(code)
      /\ Payloads \cup CompressedPayloads \subseteq Nat
  BY SizesAssumption DEF TalkFits
<1>4. ASSUME MaySend \/ InMessage PROVE Speaker(views, v)
  <2>1. ~aborted
    BY <1>4 DEF MaySend, InMessage
  <2>2. established
    <3>1. Fresh
      BY DEF ConversationInv
    <3>2. ~established => send_flags = {}
      BY <3>1 DEF Fresh
    <3> QED BY <1>4, <3>2 DEF MaySend, InMessage, Sends
  <2> QED BY <1>1, <2>1, <2>2 DEF Speaker, Behind
<1>5. ASSUME NEW op \in StartOpcodes, NEW compress \in BOOLEAN, StartMessage(op, compress)
      PROVE  ConversationInv'
  <2>1. Speaker(views, v)
    BY <1>4, <1>5 DEF StartMessage
  <2> QED BY <1>5, <2>1, StartKeeps
<1>6. ASSUME NEW op \in StartOpcodes, ~IsControl(op), NEW wanted, NEW list \in PartLists,
             BuildMessage(op, wanted, list)
      PROVE  ConversationInv'
  <2>1. Speaker(views, v)
    BY <1>4, <1>6 DEF BuildMessage
  <2>2. list \in Seq(Nat)
    BY PartListTyped
  <2> QED BY <1>3, <1>6, <2>1, <2>2, BuildMessageKeeps
<1>7. ASSUME NEW op \in StartOpcodes, ~IsControl(op), NEW wanted, NEW bare \in BOOLEAN,
             BuildEmptyMessage(op, wanted, bare)
      PROVE  ConversationInv'
  <2>1. Speaker(views, v)
    BY <1>4, <1>7 DEF BuildEmptyMessage
  <2> QED BY <1>3, <1>7, <2>1, EmptyMessageKeeps
<1>8. ASSUME NEW fin \in BOOLEAN, NEW size \in Payloads \cup CompressedPayloads, SendFrame(size, fin)
      PROVE  ConversationInv'
  <2>1. Speaker(views, v)
    BY <1>4, <1>8 DEF SendFrame
  <2>2. size \in Nat
    BY <1>3
  <2> QED BY <1>3, <1>8, <2>1, <2>2, SendFrameKeeps
<1>9. ASSUME NEW fin \in BOOLEAN, SendBareFrame(fin) PROVE ConversationInv'
  <2>1. Speaker(views, v)
    BY <1>4, <1>9 DEF SendBareFrame
  <2> QED BY <1>3, <1>9, <2>1, BareFrameKeeps
<1>10. ASSUME NEW size \in Payloads \cup CompressedPayloads, SendOpcodeControl(size) PROVE ConversationInv'
  <2>1. Speaker(views, v)
    BY <1>4, <1>10 DEF SendOpcodeControl
  <2>2. size \in Nat
    BY <1>3
  <2> QED BY <1>10, <2>1, <2>2, OpcodeControlKeeps
<1>11. ASSUME SendBareOpcodeControl PROVE ConversationInv'
  <2>1. Speaker(views, v)
    BY <1>4, <1>11 DEF SendBareOpcodeControl
  <2> QED BY <1>3, <1>11, <2>1, BareOpcodeControlKeeps
<1>12. ASSUME NEW op \in {CLOSE, PING, PONG}, NEW length \in Nat, NEW code \in Nat,
              op = CLOSE => length = 0 \/ (length >= 2 /\ ~IsSendingForbidden(code)),
              SendControl(op, length, code)
       PROVE  ConversationInv'
  <2>1. Speaker(views, v)
    BY <1>4, <1>12 DEF SendControl
  <2> QED BY <1>3, <1>12, <2>1, ControlKeeps
<1>13. ASSUME NEW op \in {PING, PONG}, NEW length \in ControlLengths, SendControl(op, length, 0)
       PROVE  ConversationInv'
  <2>1. op \in {CLOSE, PING, PONG} /\ op # CLOSE /\ length \in Nat /\ 0 \in Nat
    BY <1>3 DEF CLOSE, PING, PONG
  <2> QED BY <1>12, <1>13, <2>1
<1>14. ASSUME NEW code \in Codes, NEW reason \in ControlLengths, SendClose(code, reason)
       PROVE  ConversationInv'
  <2>1. SendControl(CLOSE, 2 + reason, code)
    BY <1>14 DEF SendClose
  <2>2. /\ 2 + reason \in Nat /\ 2 + reason >= 2 /\ code \in Nat /\ ~IsSendingForbidden(code)
        /\ CLOSE \in {CLOSE, PING, PONG}
    BY <1>3
  <2> QED BY <1>12, <2>1, <2>2
<1>15. ASSUME SendControl(CLOSE, 0, 0) PROVE ConversationInv'
  <2>1. CLOSE \in {CLOSE, PING, PONG} /\ 0 \in Nat
    OBVIOUS
  <2> QED BY <1>12, <1>15, <2>1
<1> QED BY <1>2, <1>5, <1>6, <1>7, <1>8, <1>9, <1>10, <1>11, <1>13, <1>14, <1>15, Zenon DEF Call

LEMMA StandsStill == ASSUME ConversationInv, UNCHANGED vars PROVE ConversationInv'
<1> PICK views : InLine(views)
  BY DEF ConversationInv
<1>1. Typed' /\ Open' /\ Together' /\ Fresh'
  BY DEF ConversationInv, vars, send_vars, receive_vars, Typed, Open, Together, Fresh
<1>2. InLine(views)'
  BY DEF vars, send_vars, receive_vars, InLine, Listening, Speaking, Sends
<1> QED BY <1>1, <1>2 DEF ConversationInv

LEMMA NextKeeps == ASSUME ConversationInv, TalkFits, DealAgrees, [Next]_vars PROVE ConversationInv'
<1>1. Masks \in BOOLEAN /\ InterruptedReset = FALSE
  BY DEF TalkFits
<1> QED BY <1>1, ConnectKeeps, SayKeeps, HearKeeps, ReconnectKeeps, StandsStill DEF Next

\* In every state the views between the two ends form a line.
LEMMA ConversationCorrect == ASSUME ServersFit, OffersFit, TalkFits PROVE Spec => []ConversationInv
<1>1. Init => ConversationInv
  BY InitKeeps
<1>2. ConversationInv /\ DealAgrees /\ [Next]_vars => ConversationInv'
  BY NextKeeps
<1>3. Spec => []DealAgrees
  BY DealCorrect
<1> QED BY <1>1, <1>2, <1>3, PTL DEF Spec

\* Whatever a user of TalkFits sends, in whatever order, over any number of connections, the
\* peer never answers with an error: every frame that _prepare_frame_header, compress and
\* _prepare_control_header put on the wire passes the checks of _parse_frame, of uncompress
\* and of add_frame in the state the frames before it left the receiver in.
THEOREM PeerAcceptsCorrect == ASSUME ServersFit, OffersFit, TalkFits PROVE Spec => []PeerAccepts
<1>1. ConversationInv => PeerAccepts
  BY DEF ConversationInv, Open, PeerAccepts
<1> QED BY <1>1, ConversationCorrect, PTL

LEMMA AllHeard == ASSUME ConversationInv PROVE HeardAsSaid
<1> PICK views : InLine(views)
  BY DEF ConversationInv
<1>1. Typed
  BY DEF ConversationInv
<1>2. /\ Line(views, wire, deflate.set, rx.reset_after)
      /\ views[0].heard = heard /\ views[Len(wire)].heard = said
      /\ wire \in Seq(ItemType) /\ rx.reset_after \in BOOLEAN
  BY <1>1 DEF InLine, Listening, Typed
<1>3. Begins(heard, said)
  <2>1. Begins(views[0].heard, views[Len(wire)].heard)
    BY <1>2, HeardGrows
  <2> QED BY <1>2, <2>1
<1>4. wire = <<>> => heard = said
  BY <1>2
<1> QED BY <1>3, <1>4 DEF Begins, HeardAsSaid

\* The receiver hands over what was said, message for message, with its opcode and the sizes
\* of its fragments, control frames in between at their place: nothing is lost, torn apart
\* or joined by the fragmentation, by the compression or by a reset of the two ends
\* (Parser's receive and send state agree on every frame on the wire).
THEOREM HeardCorrect == ASSUME ServersFit, OffersFit, TalkFits PROVE Spec => []HeardAsSaid
<1>1. ConversationInv => HeardAsSaid
  BY AllHeard
<1> QED BY <1>1, ConversationCorrect, PTL

===============================================================================
