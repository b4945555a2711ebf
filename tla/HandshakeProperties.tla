------------------------- MODULE HandshakeProperties -------------------------
(***************************************************************************)
(* What a handshake must come to, between two parsers of the library and   *)
(* with others.                                                            *)
(***************************************************************************)
EXTENDS Handshake

\* The flags follow one another, an error and an established connection exclude each
\* other, and a request is kept from accept to accept_response.
TypeOK ==
    /\ client.cfg \in DeflateConfig /\ server.cfg \in DeflateConfig
    /\ client.established => client.parsed /\ client.error = NoFault
    /\ client.parsed => client.requested
    /\ server.established => server.accepted
    /\ server.accepted => server.parsed
    /\ (server.request # None) = (server.parsed /\ ~server.established)
    /\ server.request # None => server.accepted = (server.request.error = NoFault)
    /\ \A p \in {client, server} : p.ext # None => p.ext.cfg \in DeflateConfig /\ p.ext.connection \in 1 .. connections

\* Between two parsers of the library the client is established only after the server, in
\* answer to its own request: whatever was declined, given up or reset before
\* (the flags, accept_response, the check of Sec-WebSocket-Accept).
SameConnection ==
    peer = "nobody" /\ client.established => server.established /\ client.sent

\* ClientParser.cc:25, "has not requested connection": the client is established only if it sent a
\* request over this connection. The code does not keep to it: connect_request raises
\* CONNECTION_REQUESTED and then it may throw, before there is a key to compare an answer with.
EstablishedOnlyIfSent == client.established => client.sent

\* An answer establishes the client only if it was made for the request sent over this connection.
\* The one exception: a request whose to_string threw before it had a key expects the answer
\* to an empty one. A key of the program's own is enough to rule that out (ConnectResponse.cc:34).
EstablishedByAnswer == client.established => client.sent \/ (peer = "server" /\ request.key = NoKey)

Negotiated(p) == p.ext # None /\ p.ext.connection = connections

\* The client's request carries its parser's own offer and no other.
OwnOffer ==
    \A e \in Range(request.exts) : e.name = Deflate => client.cfg.on /\ e = AsElement(Request(client.cfg))

\* Both ends come out of a handshake with the same idea of the extension, after it went
\* through two headers: both have it or neither, and no end compresses in a way the other
\* was not told of (compile_header_value, parse_header_value, select, uplift).
EndsMirror ==
    peer = "nobody" /\ client.established /\ OwnOffer =>
        /\ Negotiated(client) = Negotiated(server)
        /\ Negotiated(client) =>
              LET c == client.ext.cfg
                  s == server.ext.cfg
              IN  /\ c.client_bits = s.client_bits /\ c.server_bits = s.server_bits
                  /\ ResetAfterRx(s, "server") => ResetAfterTx(c, "client")
                  /\ ResetAfterRx(c, "client") => ResetAfterTx(s, "server")

\* The extensions of a request are those its headers mean by their grammar, one header
\* after the other (parse_header_value, whose buffer, accstr, is taken to be long enough).
HeaderUnderstood ==
    server.request # None /\ server.request.error \in {NoFault, "garbage_after_connect"} =>
        LET headers == server.request.got.headers
        IN  server.request.exts = FlattenSeq([i \in DOMAIN headers |-> Meaning(headers[i])])

\* A request is accepted exactly if nothing is wrong with it, with what precedes it and with what
\* follows it; and 426 is kept for requests with which nothing else is wrong
\* (process_headers' early returns, accept, accept_error).
JudgedRight ==
    server.request # None =>
        LET got == server.request.got IN
        /\ server.accepted = (got.bad = {} /\ ~got.garbage)
        /\ server.request.version_ok = (got.bad # {"unsupported_version"})

\* After a request was refused, or a response was no good, the parser never becomes established
\* before it is reset, whatever comes then (ACCEPT_PARSED, CONNECTION_RESPONSE_PARSED).
RefusedForGood ==
    [][connections' = connections =>
          /\ client.parsed /\ ~client.established => ~client'.established
          /\ server.parsed /\ ~server.accepted => ~server'.accepted]_vars

\* The extension is in use only if this connection's handshake agreed on it:
\* tests/deflate/selection.cc:71 on a handshake without it, CHECK_FALSE(client.is_deflate_active()).
DeflateOnlyIfAgreed == client.established /\ client.ext # None => Negotiated(client)

\* A request that was sent gets an answer the client's parser has an opinion on, if the
\* server's program answers (accept, accept_error, accept_response, connect).
HandshakeDecides ==
    \A k \in 1 .. MaxConnections :
        peer = "nobody" /\ connections = k /\ toServer # None ~> client.parsed \/ connections > k
===============================================================================
