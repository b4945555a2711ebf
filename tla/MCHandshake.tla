----------------------------- MODULE MCHandshake -----------------------------
(* Messages and settings of Handshake for TLC. *)
EXTENDS HandshakeProperties

DigitValues == "9" :> 9 @@ "10" :> 10 @@ "15" :> 15 @@ "16" :> 16

Deflating(server_no, client_no, server_bits, client_bits) ==
    [on |-> TRUE, server_no_takeover |-> server_no, client_no_takeover |-> client_no,
     server_bits |-> server_bits, client_bits |-> client_bits]
NoExtension == [Default EXCEPT !.on = FALSE]
SomeConfigs == {NoExtension, Default, Deflating(TRUE, FALSE, 10, 15)}
MoreConfigs == SomeConfigs \cup {Deflating(FALSE, TRUE, 15, 9)}

Ask(uri, version, exts) == [uri |-> uri, version |-> version, exts |-> exts, key |-> NoKey]
Other == Element(<<"x">>, <<"a">> :> <<"b">>)
SomeRequests ==
    {Ask(TRUE, 13, <<>>), Ask(FALSE, 13, <<>>), [Ask(FALSE, 13, <<>>) EXCEPT !.key = 3],
     Ask(TRUE, 12, <<>>), Ask(TRUE, 13, <<Other>>)}
OneRequest == {Ask(TRUE, 13, <<>>)}

Asks(bad, headers, garbage) == [bad |-> bad, key |-> WrongKey, headers |-> headers, garbage |-> garbage]

\* Every header of up to three tokens and some of five and six; the offers a client may make, in one
\* header or two, with a parameter given twice.
Tokens == {",", ";", "=", "a"}
AllWords == Tokens \cup DOMAIN DigitValues \cup {" ", "b", "x", "permessage-deflate",
                ServerNoTakeover, ClientNoTakeover, ServerWindow, ClientWindow}
ShortHeaders == UNION {[1 .. n -> Tokens] : n \in 0 .. 3}
D(bits) == <<"permessage-deflate", ";", "client_max_window_bits", "=", bits>>
Twice == D("9") \o <<";", "client_max_window_bits", "=", "15">>
SomeHeaders ==
    {<<h>> : h \in ShortHeaders \cup {<<"a", " ", ";">> \o h : h \in [1 .. 3 -> Tokens]}
                                \cup {Twice, D("16"), D("x") \o <<",", " ">> \o D("10"), D("9") \o <<"=", "a">>, <<"permessage-deflate">>}}
        \cup {<<D("16"), D("9")>>, <<<<"a", ";", "a">>, D("10")>>}

Faults == Range(RequestChecks) \cup {"http"}
SomeForeignRequests ==
    {Asks({}, headers, FALSE) : headers \in SomeHeaders}
        \cup {Asks({f, g}, <<D("15")>>, FALSE) : f \in Faults, g \in {"http_1_1_required", "unsupported_version"}}
        \cup {Asks({}, <<D("15")>>, TRUE), Asks({"unsupported_version"}, <<>>, TRUE)}

Answers(bad, right, headers) == [bad |-> bad, key |-> right, headers |-> headers, garbage |-> FALSE]
SomeForeignResponses ==
    {Answers({}, right, headers) : right \in BOOLEAN, headers \in {<<>>, <<D("15")>>, <<D("9")>>}}
        \cup {Answers({f}, TRUE, <<>>) : f \in {"http", "response_code_101", "unsupported_version"}}

NoMessages == {}
===============================================================================
