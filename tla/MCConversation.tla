---------------------------- MODULE MCConversation ----------------------------
(* Instances of Conversation for TLC. *)
EXTENDS Conversation

Deflate(server_no, client_no, server_bits, client_bits) ==
    [on |-> TRUE, server_no_takeover |-> server_no, client_no_takeover |-> client_no,
     server_bits |-> server_bits, client_bits |-> client_bits]
NoExtension == [Default EXCEPT !.on = FALSE]

SomeClients == {NoExtension, Default, Deflate(FALSE, TRUE, 12, 10)}
SomeServers == {Default, Deflate(TRUE, FALSE, 12, 10)}
SomeOffers == {<<[n \in {ClientWindow} |-> NoValue]>>}

\* A server that is set to client_no_context_takeover by itself.
StrictServers == {Deflate(FALSE, TRUE, 15, 15)}
OnlyDefault == {Default}
===============================================================================
