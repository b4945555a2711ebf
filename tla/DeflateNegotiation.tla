--------------------------- MODULE DeflateNegotiation ---------------------------
(***************************************************************************)
(* How two parsers agree on permessage-deflate: DeflateExt::request writes *)
(* the client's offer, DeflateExt::select judges the offers on the server  *)
(* and the answer on the client, DeflateExt::uplift writes the answer.     *)
(*                                                                         *)
(* The parameters of an offer are a function from the names given to their *)
(* values: a number of window bits, NoValue for a name without "=value",   *)
(* Malformed for one from_chars does not read.                             *)
(***************************************************************************)
EXTENDS Integers, Sequences

NoValue == -2
Malformed == -1

ServerNoTakeover == "server_no_context_takeover"
ClientNoTakeover == "client_no_context_takeover"
ServerWindow     == "server_max_window_bits"
ClientWindow     == "client_max_window_bits"

\* DeflateExt::Config, the negotiated part. On: the parser has one at all.
DeflateConfig == [on: BOOLEAN, server_no_takeover: BOOLEAN, client_no_takeover: BOOLEAN,
                  server_bits: 0 .. 255, client_bits: 0 .. 255]

Default == [on |-> TRUE, server_no_takeover |-> FALSE, client_no_takeover |-> FALSE,
            server_bits |-> 15, client_bits |-> 15]

\* DeflateExt::request
Request(cfg) ==
    [name \in {ServerWindow, ClientWindow}
                \cup {n \in {ServerNoTakeover} : cfg.server_no_takeover}
                \cup {n \in {ClientNoTakeover} : cfg.client_no_takeover} |->
        CASE name = ServerWindow -> cfg.server_bits
          [] name = ClientWindow -> cfg.client_bits
          [] OTHER               -> NoValue]

\* get_window_bits
ValidBits(value) == value \in 9 .. 15

\* The server takes less than it is set to, the client only what it asked for.
BitsMatch(value, own, role) ==
    ValidBits(value) /\ IF role = "client" THEN value = own ELSE value <= own

\* A parameter select understands and accepts.
ParamCorrect(name, value, cfg, role) ==
    CASE name \in {ServerNoTakeover, ClientNoTakeover} -> TRUE
      [] name = ServerWindow -> BitsMatch(value, cfg.server_bits, role)
      [] name = ClientWindow -> IF value = NoValue THEN role = "server"
                                ELSE BitsMatch(value, cfg.client_bits, role)
      [] OTHER -> FALSE

\* Mutant: the window bits of the offer are judged and forgotten.
EffectiveOwnBits(params, cfg) ==
    [cfg EXCEPT
        !.server_no_takeover = @ \/ ServerNoTakeover \in DOMAIN params,
        !.client_no_takeover = @ \/ ClientNoTakeover \in DOMAIN params]

\* The configuration in effect: one's own, overridden by the parameters given.
Effective(params, cfg) ==
    [on |-> cfg.on,
     server_no_takeover |-> cfg.server_no_takeover \/ ServerNoTakeover \in DOMAIN params,
     client_no_takeover |-> cfg.client_no_takeover \/ ClientNoTakeover \in DOMAIN params,
     server_bits |-> IF ServerWindow \in DOMAIN params THEN params[ServerWindow] ELSE cfg.server_bits,
     client_bits |-> IF ClientWindow \notin DOMAIN params THEN cfg.client_bits
                     ELSE IF params[ClientWindow] = NoValue THEN 15
                     ELSE params[ClientWindow]]

Correct(params, cfg, role) == \A name \in DOMAIN params : ParamCorrect(name, params[name], cfg, role)

NotFound == [result |-> "not_found"]
Failed   == [result |-> "error"]

\* DeflateExt::select: the server takes the first offer it can, the client the first.
Select(offers, cfg, role) ==
    LET fits == {i \in 1 .. Len(offers) : Correct(offers[i], cfg, role)}
        i    == CHOOSE j \in fits : \A k \in fits : j <= k
    IN  IF offers = <<>> THEN NotFound
        ELSE IF role = "client" /\ 1 \notin fits THEN Failed
        ELSE IF fits = {} THEN NotFound
        ELSE [result |-> "success", params |-> offers[i], cfg |-> Effective(offers[i], cfg)]

\* DeflateExt::uplift: the parameters that were given, with the values in effect.
Answer(selected) ==
    [name \in DOMAIN selected.params |->
        CASE name = ServerWindow -> selected.cfg.server_bits
          [] name = ClientWindow -> selected.cfg.client_bits
          [] OTHER               -> NoValue]

\* ServerParser::accept_response: the extensions of the request, filtered.
ServerSelects(offers, cfg) == IF cfg.on THEN Select(offers, cfg, "server") ELSE NotFound
ServerAnswers(selected) == IF selected.result = "success" THEN <<Answer(selected)>> ELSE <<>>

\* ClientParser::connect_request and connect.
ClientOffers(cfg) == IF cfg.on THEN <<Request(cfg)>> ELSE <<>>
ClientSelects(answers, cfg) == IF cfg.on THEN Select(answers, cfg, "client") ELSE NotFound

\* DeflateExt's constructor: when each end resets its streams.
ResetAfterTx(cfg, role) ==
    IF role = "client" THEN cfg.client_no_takeover ELSE cfg.server_no_takeover
ResetAfterRx(cfg, role) ==
    IF role = "client" THEN cfg.server_no_takeover ELSE cfg.client_no_takeover

\* The two ends of a handshake between two parsers of this library.
Handshake(offers, client_cfg, server_cfg) ==
    LET server == ServerSelects(offers, server_cfg)
    IN  [server |-> server, client |-> ClientSelects(ServerAnswers(server), client_cfg)]
===============================================================================
