------------------------------- MODULE Handshake -------------------------------
(***************************************************************************)
(* The handshake: ClientParser::connect_request and connect, ServerParser  *)
(* ::accept, accept_error and accept_response, with what ConnectRequest    *)
(* and ConnectResponse check and write. Two parsers of the library face    *)
(* each other, or one of them a foreign peer; either side's program calls  *)
(* what it likes, and both reset for another connection.                   *)
(*                                                                         *)
(* An HTTP message is a record: bad, the things wrong with it (of          *)
(* RequestChecks or ResponseChecks, or "http" for what the HTTP parser     *)
(* itself refuses); key (of a response: the key its Sec-WebSocket-Accept   *)
(* was computed from); headers, its Sec-WebSocket-Extensions; garbage,     *)
(* whether bytes follow it. A call that throws changes nothing and is not  *)
(* an action, with one exception: connect_request.                         *)
(***************************************************************************)
EXTENDS DeflateNegotiation, HeaderValue

CONSTANTS
    ClientConfigs, ServerConfigs,       \* the deflate settings of the two parsers
    UserRequests,                       \* what the client's program asks for: a ConnectRequest
    ForeignRequests, ForeignResponses,  \* what other implementations send
    Words,                              \* the tokens of headers
    Digits,                             \* the numbers from_chars reads and to_string writes, and their values
    MaxConnections                      \* bound

ASSUME ConfigsAssumption == ClientConfigs \cup ServerConfigs \subseteq DeflateConfig

Separators == {Space, Comma, Semicolon}

\* Every number a parser may be set to is written in digits, and every token is a word.
ASSUME WordsAssumption ==
    /\ Separators \cup {Equals, "permessage-deflate", ServerNoTakeover, ClientNoTakeover, ServerWindow, ClientWindow} \subseteq Words
    /\ DOMAIN Digits \subseteq Words \ (Separators \cup {Equals})
    /\ Digits \in [DOMAIN Digits -> Nat]
    /\ \A c \in ClientConfigs \cup ServerConfigs \cup {Default} : {c.server_bits, c.client_bits} \subseteq Range(Digits)

VARIABLES
    client, server,     \* the two parsers
    request,            \* the ConnectRequest in the hands of the client's program
    peer,               \* who is foreign: "nobody", "client" or "server"
    toServer, toClient, \* the message on its way, and whether its beginning has arrived
    connections         \* history: the connections begun

vars == <<client, server, request, peer, toServer, toClient, connections>>

None == <<>>            \* no message, no request, no extension
NoFault == "none"
NoKey == 0
NoRequest == [uri |-> FALSE, version |-> 0, exts |-> <<>>, key |-> NoKey]
WrongKey == -1

-------------------------------------------------------------------------------
(* ConnectRequest and ConnectResponse. *)

\* process_headers, in order. (426 comes first in a response.)
RequestChecks == <<"method_mustbe_get", "http_1_1_required", "body_prohibited", "connection_mustbe_upgrade",
                   "upgrade_mustbe_websocket", "sec_accept_missing", "unsupported_version">>
ResponseChecks == <<"unsupported_version", "response_code_101", "connection_mustbe_upgrade",
                    "upgrade_mustbe_websocket", "sec_accept_missing">>

\* What the program and other implementations write has these parts.
ASSUME MessagesAssumption ==
    /\ \A r \in UserRequests :
          /\ DOMAIN r = DOMAIN NoRequest /\ r.uri \in BOOLEAN /\ r.key \in Nat
          /\ r.exts \in Seq(Range(r.exts)) /\ \A e \in Range(r.exts) : IsElement(e, Words)
    /\ \A m \in ForeignRequests :
          /\ DOMAIN m = {"bad", "key", "headers", "garbage"}
          /\ m.bad \subseteq Range(RequestChecks) \cup {"http"} /\ m.garbage \in BOOLEAN
          /\ m.headers \in Seq(Seq(Words))
    /\ \A m \in ForeignResponses : DOMAIN m = {"bad", "key", "headers", "garbage"}

\* Mutant: the checks after the first that fails go on, and the last one is reported.
LastFault(checks, bad) ==
    IF \A i \in DOMAIN checks : checks[i] \notin bad THEN NoFault
    ELSE checks[CHOOSE i \in DOMAIN checks : checks[i] \in bad
                                             /\ \A j \in DOMAIN checks : checks[j] \in bad => j <= i]

FirstFault(checks, bad) ==
    IF \A i \in DOMAIN checks : checks[i] \notin bad THEN NoFault
    ELSE checks[CHOOSE i \in DOMAIN checks : checks[i] \in bad
                                             /\ \A j \in DOMAIN checks : checks[j] \in bad => i <= j]

\* ... and the extensions, if all went well.
Extensions(headers) == FoldOnce(LAMBDA values, h : ParseHeaderValue(h, values), <<>>, headers)
Headers(exts) == IF exts = <<>> THEN <<>> ELSE <<CompileHeaderValue(exts)>>

\* DeflateExt's view of the extensions: the offers of permessage-deflate, in order, with
\* numbers for their window bits (from_chars), and back (to_string).
Deflate == <<"permessage-deflate">>
\* (from_chars stops behind the digits: what follows an '=' in a value is not looked at.)
FromChars(value) == IF value = <<>> THEN NoValue
                    ELSE IF value[1] \in DOMAIN Digits /\ (Len(value) = 1 \/ value[2] = Equals)
                    THEN Digits[value[1]] ELSE Malformed
ToChars(n) == IF n = NoValue THEN <<>> ELSE <<CHOOSE d \in DOMAIN Digits : Digits[d] = n>>

ParamName(key) == IF Len(key) = 1 THEN key[1] ELSE "unknown"
Offer(e) == [name \in {ParamName(k) : k \in DOMAIN e.params} |->
                FromChars(e.params[CHOOSE k \in DOMAIN e.params : ParamName(k) = name])]
Offers(exts) == FoldOnce(LAMBDA offers, e : IF e.name = Deflate THEN Append(offers, Offer(e)) ELSE offers, <<>>, exts)
AsElement(offer) ==
    Element(Deflate, [key \in {<<name>> : name \in DOMAIN offer} |-> ToChars(offer[key[1]])])

\* ConnectRequest::add_deflate: an offer that is there already stays.
WithOffer(exts, cfg) ==
    IF ~cfg.on \/ \E e \in Range(exts) : e.name = Deflate THEN exts
    ELSE Append(exts, AsElement(Request(cfg)))

\* ConnectRequest::to_string; request.uri stands for the three things it throws for.
RequestMessage(req) ==
    [bad |-> IF req.version = 13 THEN {} ELSE {"unsupported_version"},
     key |-> req.key, headers |-> Headers(req.exts), garbage |-> FALSE]

ResponseMessage(bad, key, exts) == [bad |-> bad, key |-> key, headers |-> Headers(exts), garbage |-> FALSE]

-------------------------------------------------------------------------------
(* The parsers. ext is _deflate_ext: the configuration in effect and, as   *)
(* history, the connection it was negotiated for. Two more histories: a    *)
(* client's sent, whether its request was written, and of a server's       *)
(* request got, the message it was made from.                              *)

FreshClient(cfg, ext) ==
    [requested |-> FALSE, parsed |-> FALSE, established |-> FALSE, error |-> NoFault,
     key |-> NoKey, cfg |-> cfg, ext |-> ext, sent |-> FALSE]

FreshServer(cfg, ext) ==
    [parsed |-> FALSE, accepted |-> FALSE, established |-> FALSE, request |-> None, cfg |-> cfg, ext |-> ext]

Ext(cfg) == [cfg |-> cfg, connection |-> connections]

InFlight(msg) == [msg |-> msg, begun |-> FALSE]

\* ClientParser::connect_request. CONNECTION_REQUESTED is raised first: if to_string throws
\* the request is never sent and the parser refuses another until it is reset.
ConnectRequest ==
    /\ peer # "client" /\ ~client.requested
    /\ \E sent \in {[request EXCEPT !.exts = WithOffer(@, client.cfg),
                                    !.key = IF request.uri /\ @ = NoKey THEN connections ELSE @]} :
           /\ request' = sent
           /\ client' = [client EXCEPT !.requested = TRUE, !.key = sent.key, !.sent = request.uri]
           /\ toServer' = IF request.uri THEN InFlight(RequestMessage(sent)) ELSE None
    /\ UNCHANGED <<server, peer, toClient, connections>>

\* Mutant: requests are taken until one is good.
MayAcceptAgain(s) == ~s.accepted
MayAccept(s) == ~s.parsed
MayConnect(c) == c.requested /\ ~c.parsed

\* A part of an HTTP message: the parser waits for the rest.
PartArrives ==
    \/ /\ toServer # None /\ ~toServer.begun /\ MayAccept(server)
       /\ toServer' = [toServer EXCEPT !.begun = TRUE]
       /\ UNCHANGED <<client, server, request, peer, toClient, connections>>
    \/ /\ toClient # None /\ ~toClient.begun /\ MayConnect(client)
       /\ toClient' = [toClient EXCEPT !.begun = TRUE]
       /\ UNCHANGED <<client, server, request, peer, toServer, connections>>

\* Mutant: accept forgets that what follows the request is an error.
AcceptedWithGarbage(req) == req.error \in {NoFault, "garbage_after_connect"}
AcceptedIf(req) == req.error = NoFault

\* What accept makes of a complete request.
RequestFault(msg) == IF "http" \in msg.bad THEN "http" ELSE FirstFault(RequestChecks, msg.bad)

Judged(msg, fault, exts) ==
    [got |-> msg,
     error |-> IF fault = NoFault /\ msg.garbage THEN "garbage_after_connect" ELSE fault,
     version_ok |-> fault # "unsupported_version",
     key |-> IF fault \in {NoFault, "unsupported_version"} THEN msg.key ELSE NoKey,
     exts |-> exts]

\* ServerParser::accept, with the rest of a request.
Accept ==
    /\ toServer # None /\ peer # "server" /\ MayAccept(server)
    /\ \E fault \in {RequestFault(toServer.msg)} :
       \E exts \in {IF fault = NoFault THEN Extensions(toServer.msg.headers) ELSE <<>>} :
       \E req \in {Judged(toServer.msg, fault, exts)} :
          server' = [server EXCEPT !.parsed = TRUE, !.accepted = AcceptedIf(req), !.request = req]
    /\ toServer' = None
    /\ UNCHANGED <<client, request, peer, toClient, connections>>

\* The response is written; a foreign client is told and not heard of again.
Respond(msg) == toClient' = IF peer = "client" THEN toClient ELSE InFlight(msg)

\* Mutant: an unsupported version is not taken for an error.
MustExplainSupported(req) == req.error # NoFault /\ req.version_ok
MustExplain(req) == req.error # NoFault

\* ServerParser::accept_error(), and accept_error(res) for a request in which it found an error.
AcceptError ==
    /\ server.parsed /\ ~server.established /\ MustExplain(server.request)
    /\ toClient = None
    /\ Respond(ResponseMessage({IF server.request.version_ok THEN "response_code_101"
                                ELSE "unsupported_version"}, NoKey, <<>>))
    /\ UNCHANGED <<client, server, request, peer, toServer, connections>>

\* ServerParser::accept_error(res): the program's own reasons.
Decline ==
    /\ server.parsed /\ ~server.established /\ server.request.error = NoFault
    /\ toClient = None
    /\ Respond(ResponseMessage({"response_code_101"}, NoKey, <<>>))
    /\ UNCHANGED <<client, server, request, peer, toServer, connections>>

\* ServerParser::accept_response, with the extensions of the request or none.
AcceptResponse ==
    /\ server.accepted /\ ~server.established
    /\ toClient = None
    /\ \E exts \in {server.request.exts, <<>>} :
         \E offers \in {Offers(exts)} : \E chosen \in {ServerSelects(offers, server.cfg)} :
         LET agreed == chosen.result = "success"
         IN  /\ server' = [server EXCEPT !.established = TRUE, !.request = None,
                                         !.ext = IF agreed THEN Ext(chosen.cfg) ELSE @]
             /\ Respond(ResponseMessage({}, server.request.key,
                                        IF agreed THEN <<AsElement(Answer(chosen))>> ELSE <<>>))
    /\ UNCHANGED <<client, request, peer, toServer, connections>>

\* Mutant: Sec-WebSocket-Accept is looked for, not looked at.
ResponseFaultsAnyKey(msg, key) == msg.bad
ResponseFaults(msg, key) == msg.bad \cup IF msg.key # key THEN {"sec_accept_missing"} ELSE {}

ResponseFault(msg, key) ==
    IF "http" \in msg.bad THEN "http" ELSE FirstFault(ResponseChecks, ResponseFaults(msg, key))

\* ClientParser::connect, with the rest of a response.
Connect ==
    /\ toClient # None /\ MayConnect(client)
    /\ \E fault \in {ResponseFault(toClient.msg, client.key)} :
       \E answers \in {IF fault = NoFault THEN Offers(Extensions(toClient.msg.headers)) ELSE <<>>} :
       \E chosen \in {ClientSelects(answers, client.cfg)} :
       \E error \in {IF chosen.result = "error" THEN "deflate_negotiation_failed" ELSE fault} :
          client' = [client EXCEPT !.parsed = TRUE, !.established = (error = NoFault), !.error = error,
                                   !.key = NoKey,
                                   !.ext = IF chosen.result = "success" THEN Ext(chosen.cfg) ELSE @]
    /\ toClient' = None
    /\ UNCHANGED <<server, request, peer, toServer, connections>>

-------------------------------------------------------------------------------
(* The rest of the world. *)

\* A foreign client writes a request, and another if it was refused; a foreign server answers, even
\* what it was not asked, and again. The key of a message of ForeignResponses: was
\* Sec-WebSocket-Accept computed from what Sec-WebSocket-Key the server was sent, none being empty.
ForeignRequest ==
    /\ peer = "client" /\ toServer = None /\ ~server.accepted /\ ~server.established
    /\ \E msg \in ForeignRequests : toServer' = InFlight(msg)
    /\ UNCHANGED <<client, server, request, peer, toClient, connections>>

ForeignResponse ==
    /\ peer = "server" /\ toClient = None /\ ~client.established
    /\ \E msg \in ForeignResponses :
          toClient' = InFlight([msg EXCEPT !.key = IF ~@ THEN WrongKey
                                                   ELSE IF toServer = None THEN NoKey ELSE toServer.msg.key])
    /\ UNCHANGED <<client, server, request, peer, toServer, connections>>

\* Mutant: the client's flags outlive the connection.
ResetClientKeepsFlags(c) == [FreshClient(c.cfg, c.ext) EXCEPT !.established = c.established]
ResetClient(c) == FreshClient(c.cfg, c.ext)
ResetServer(s) == FreshServer(s.cfg, s.ext)

\* In the place of a foreign peer stands a parser that is never used.
Requests(who) == IF who = "client" THEN {NoRequest} ELSE UserRequests

\* The connection is given up and both ends reset: flags, request and HTTP parser, not the
\* settings and not _deflate_ext. The program may use its request again, or another.
Reset ==
    /\ client.requested \/ server.parsed
    /\ connections < MaxConnections
    /\ client' = ResetClient(client)
    /\ server' = ResetServer(server)
    /\ request' \in {request} \cup Requests(peer)
    /\ toServer' = None /\ toClient' = None
    /\ connections' = connections + 1
    /\ UNCHANGED peer

Init ==
    /\ peer \in {"nobody", "client", "server"}
    /\ \E c \in IF peer = "client" THEN {Default} ELSE ClientConfigs : client = FreshClient(c, None)
    /\ \E s \in IF peer = "server" THEN {Default} ELSE ServerConfigs : server = FreshServer(s, None)
    /\ request \in Requests(peer)
    /\ toServer = None /\ toClient = None
    /\ connections = 1

Exchange == PartArrives \/ Accept \/ AcceptError \/ Decline \/ AcceptResponse \/ Connect
Next == ConnectRequest \/ Exchange \/ ForeignRequest \/ ForeignResponse \/ Reset

Spec == Init /\ [][Next]_vars
FairSpec == Spec /\ WF_vars(Exchange)
===============================================================================
