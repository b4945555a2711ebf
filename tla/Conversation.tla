------------------------------ MODULE Conversation ------------------------------
(***************************************************************************)
(* Two parsers of the library talking: a handshake that negotiates         *)
(* permessage-deflate, then one end sends (Sending) and the other receives *)
(* in message mode (Reception). Between them the wire, which loses and     *)
(* reorders nothing. Both ends may be reset and connected again.           *)
(*                                                                         *)
(* The inflate stream of zlib is modelled here, from how uncompress uses   *)
(* it: a fragment inflates if the stream is at a block boundary and holds  *)
(* what the fragment refers back to. uncompress adds the trailer 00 00 ff  *)
(* ff to every last frame: where the frame brought no bytes the stream is  *)
(* left in the middle of a block.                                          *)
(***************************************************************************)
EXTENDS Sending, DeflateNegotiation

CONSTANTS
    ClientConfigs, ServerConfigs,   \* the deflate settings of the two ends
    OwnOffers,                      \* Sec-WebSocket-Extensions the client's user may write itself
    InterruptedReset,               \* may the user reset with a message half sent
    NoFrame,
    MaxConnections, MaxMessages, MaxWire, MaxInflated   \* bounds

ASSUME ConfigsAssumption == ClientConfigs \cup ServerConfigs \subseteq DeflateConfig
ASSUME OffersAssumption == \A offers \in OwnOffers : Len(offers) \in Nat

VARIABLES
    \* the receiving parser
    cfg, deflate_cfg, deflate_ext, flags, buffer, frame, message_frame, close_message,
    frame_count, message, suggested_close_code, utf8_pending, looping, out, fragments, connections,
    \* the conversation
    deal,      \* the outcome of the handshake at both ends
    wire,      \* frames sent, not yet received
    rx,        \* rx_stream: its window, at a block boundary, its reset_after_rx
    saying,    \* history: payload sizes of the message being sent
    said,      \* history: the messages sent over this connection
    heard      \* history: the messages the receiver handed over

Peer == INSTANCE Reception WITH
    Frames <- {},
    Configs <- [max_frame_size: {0}, max_message_size: {0}, check_utf8: {FALSE}, deflate: BOOLEAN],
    MaskRequired <- Masks,
    Cuts <- {},
    MaxBuffer <- 1,
    MaxFragments <- 2 * MaxFrames

receive_vars == <<cfg, deflate_cfg, deflate_ext, flags, buffer, frame, message_frame, close_message,
                  frame_count, message, suggested_close_code, utf8_pending, looping, out,
                  fragments, connections>>
vars == <<send_vars, receive_vars, deal, wire, rx, saying, said, heard>>

MyEnd    == IF Masks THEN "client" ELSE "server"
TheirEnd == IF Masks THEN "server" ELSE "client"

Empty(reset) == [window |-> <<>>, aligned |-> TRUE, reset_after |-> reset]

-------------------------------------------------------------------------------
(* DeflateExt::uncompress and zlib. *)

IsSuffix(s, t) == Len(s) <= Len(t) /\ SubSeq(t, Len(t) - Len(s) + 1, Len(t)) = s

Inflates(item) == ~IsControl(item.frame.op) /\ Peer!Inflated(item.frame)

\* What zlib makes of the payload: corrupt, or not.
Arriving(item) ==
    [item.frame EXCEPT
        !.corrupt = /\ Inflates(item)
                    /\ item.frame.len > 0
                    /\ ~(rx.aligned /\ item.compressed /\ IsSuffix(item.context, rx.window))]

\* The stream after a frame that was accepted.
StreamAfterFrame(item) ==
    IF ~Inflates(item)                          THEN rx
    ELSE IF item.frame.fin /\ rx.reset_after    THEN Empty(TRUE)
    ELSE [rx EXCEPT
            !.window  = IF item.frame.size > 0 THEN Append(@, item.frame.size) ELSE @,
            !.aligned = @ /\ ~(item.frame.fin /\ item.frame.len = 0)]

-------------------------------------------------------------------------------

Connect ==
    /\ deal[TheirEnd].result # "error" /\ deal[MyEnd].result # "error"
    /\ LET negotiated(end) == deal[end].result = "success" IN
       /\ Establish(negotiated(MyEnd), negotiated(MyEnd) /\ ResetAfterTx(deal[MyEnd].cfg, MyEnd))
       /\ Peer!Establish(negotiated(TheirEnd), <<>>)
       /\ rx' = Empty(negotiated(TheirEnd) /\ ResetAfterRx(deal[TheirEnd].cfg, TheirEnd))
    /\ UNCHANGED <<deal, wire, saying, said, heard>>

Message(op, sizes) == [op |-> op, sizes |-> sizes]

\* The user sends: what a call emits goes on the wire.
Say ==
    /\ Len(said) < MaxMessages
    /\ Call
    /\ wire' = wire \o emitted'
    /\ Len(wire') <= MaxWire
    /\ LET sizes   == saying \o [i \in DOMAIN emitted' |-> emitted'[i].frame.size]
           control == emitted' # <<>> /\ IsControl(emitted'[1].frame.op)
           done    == emitted' # <<>> /\ emitted'[Len(emitted')].frame.fin
       IN
       /\ saying' = IF control THEN saying ELSE IF done THEN <<>> ELSE sizes
       /\ said' = CASE control -> Append(said, Message(emitted'[1].frame.op, <<emitted'[1].frame.size>>))
                    [] done /\ ~control -> Append(said, Message(send_opcode', sizes))
                    [] OTHER -> said
    /\ UNCHANGED <<receive_vars, deal, rx, heard>>

\* A frame arrives: the receiver's get_messages.
Hear ==
    /\ wire # <<>>
    /\ LET item  == Head(wire)
           chunk == <<Peer!Whole(Arriving(item))>>
       IN
       /\ Peer!MessageStep(chunk) \/ Peer!ReturnsNothing(chunk)
       /\ rx' = IF out'.error = NoError THEN StreamAfterFrame(item) ELSE Empty(rx.reset_after)
    /\ wire' = Tail(wire)
    /\ heard' = IF out'.kind = "message" /\ out'.error = NoError
                THEN Append(heard, Message(out'.frames[1].op,
                        [i \in DOMAIN out'.frames |-> PayloadSize(out'.frames[i], out'.frames[1].rsv1)]))
                ELSE heard
    /\ emitted' = <<>>
    /\ UNCHANGED <<established, deflate, send_flags, send_opcode, sent_frame_count, tx, aborted,
                   deal, saying, said>>

\* Both ends are reset, for a new connection.
Reconnect ==
    /\ established
    /\ connections.count < MaxConnections
    /\ InterruptedReset \/ saying = <<>>
    /\ Reset
    /\ Peer!Reset
    /\ rx' = Empty(rx.reset_after)
    /\ wire' = <<>> /\ saying' = <<>> /\ said' = <<>> /\ heard' = <<>>
    /\ UNCHANGED deal

Init ==
    /\ SendInit
    /\ Peer!Init
    /\ \E c \in ClientConfigs, s \in ServerConfigs :
          /\ cfg.deflate = IF Masks THEN s.on ELSE c.on
          /\ \/ deal = Handshake(ClientOffers(c), c, s)
             \/ c = Default /\ \E offers \in OwnOffers : deal = Handshake(offers, c, s)
    /\ rx = Empty(FALSE)
    /\ wire = <<>> /\ saying = <<>> /\ said = <<>> /\ heard = <<>>

Next == Connect \/ Say \/ Hear \/ Reconnect

Spec == Init /\ [][Next]_vars

-------------------------------------------------------------------------------

\* Whatever one parser sends, in whatever order the user calls it, its peer accepts:
\* no frame of a legal conversation is an error to _parse_frame or add_frame.
PeerAccepts == out.error = NoError

\* The receiver hands over the messages that were sent, in the order in which they were
\* completed, with their opcodes and payloads, each as soon as it has arrived whole.
HeardAsSaid ==
    /\ Len(heard) <= Len(said)
    /\ heard = SubSeq(said, 1, Len(heard))
    /\ wire = <<>> => heard = said

\* The ends agree on what was negotiated: both have the extension or neither, no stream
\* is reset by its reader that its writer goes on with, and no writer uses a
\* larger window than its reader (select, uplift, DeflateExt's constructor).
DealAgrees ==
    /\ deal["client"].result = deal["server"].result
    /\ deal["client"].result = "success" =>
          LET c == deal["client"].cfg
              s == deal["server"].cfg
          IN  /\ ResetAfterRx(s, "server") => ResetAfterTx(c, "client")
              /\ ResetAfterRx(c, "client") => ResetAfterTx(s, "server")
              /\ c.client_bits <= s.client_bits
              /\ s.server_bits <= c.server_bits

\* DeflateExt.cc:203, assert(r >= 0): deflate never fails.
NeverAborts == ~aborted
===============================================================================
