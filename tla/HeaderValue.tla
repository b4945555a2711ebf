------------------------------ MODULE HeaderValue ------------------------------
(***************************************************************************)
(* HeaderValueParamsParser: a Sec-WebSocket-Extensions header and the list *)
(* it stands for. A header is a sequence of tokens: the four characters    *)
(* the parser looks for and words, runs of any others. A name, a key or a  *)
(* value is the sequence of tokens the parser accumulated for it; an       *)
(* element of the list is a name and a function from keys to values.       *)
(***************************************************************************)
EXTENDS SequencesExt, Integers

Space     == " "
Comma     == ","
Semicolon == ";"
Equals    == "="

Element(name, params) == [name |-> name, params |-> params]
IsElement(e, words) ==
    /\ e = Element(e.name, e.params) /\ e.name \in Seq(words)
    /\ DOMAIN e.params \subseteq Seq(words) /\ IsFiniteSet(DOMAIN e.params)
    /\ e.params \in [DOMAIN e.params -> Seq(words)]

NoParams == [k \in {} |-> <<>>]

\* Mutant: a parameter given twice takes its last value.
EmplaceLast(params, key, value) == (key :> value) @@ params

\* unordered_string_map::emplace: what is there stays.
Emplace(params, key, value) ==
    [k \in DOMAIN params \cup {key} |-> IF k \in DOMAIN params THEN params[k] ELSE value]

\* A parameter of the last element.
WithParam(values, key, value) == [values EXCEPT ![Len(values)].params = Emplace(@, key, value)]

\* What ends at a ',' or a ';', or with the header.
Ended(p) == CASE p.mode = "NAME" -> Append(p.values, Element(p.acc, NoParams))
              [] p.mode = "KEY"  -> WithParam(p.values, p.acc, <<>>)
              [] p.mode = "VAL"  -> WithParam(p.values, p.key, p.acc)

\* One character or word. (accstr, of 8 KB and filled without a look at its bounds, is taken to
\* be long enough for what is accumulated.)
Token(p, c) ==
    IF c = Space THEN p
    ELSE IF c \in {Comma, Semicolon}
    THEN [p EXCEPT !.values = Ended(p), !.acc = <<>>, !.mode = IF c = Comma THEN "NAME" ELSE "KEY"]
    ELSE IF c = Equals /\ p.mode = "KEY"
    THEN [p EXCEPT !.key = p.acc, !.acc = <<>>, !.mode = "VAL"]
    ELSE [p EXCEPT !.acc = Append(@, c)]

\* FoldLeft, with each result computed once: TLC evaluates an argument wherever it is used.
FoldOnce(Op(_, _), base, seq) ==
    LET upTo[i \in 0 .. Len(seq)] ==
            IF i = 0 THEN base ELSE CHOOSE result \in {Op(before, seq[i]) : before \in {upTo[i - 1]}} : TRUE
    IN  upTo[Len(seq)]

\* parse_header_value: the elements are added to those of the headers before.
ParseHeaderValue(header, values) ==
    Ended(FoldOnce(Token, [mode |-> "NAME", acc |-> <<>>, key |-> <<>>, values |-> values], header))

\* compile_header_value; the parameters come in the order the map has them in.
\* Mutant: what has no value is not written.
CompileParamValued(key, value) == IF value = <<>> THEN <<>> ELSE <<Semicolon, Space>> \o key \o <<Equals>> \o value
CompileParam(key, value) == <<Semicolon, Space>> \o key \o (IF value = <<>> THEN <<>> ELSE <<Equals>> \o value)

CompileElement(e) ==
    LET keys == SetToSeq(DOMAIN e.params)
    IN  e.name \o FlattenSeq([i \in DOMAIN keys |-> CompileParam(keys[i], e.params[keys[i]])])

CompileHeaderValue(values) ==
    LET text == FlattenSeq([i \in DOMAIN values |-> CompileElement(values[i]) \o <<Comma, Space>>])
    IN  IF text = <<>> THEN <<>> ELSE SubSeq(text, 1, Len(text) - 2)

-------------------------------------------------------------------------------
(* What the grammar of the header says, without a parser: elements between *)
(* commas, their parts between semicolons, a parameter's value after its   *)
(* first '=', spaces nowhere, the first of two parameters of one name.     *)

Divided(parts, c, sep) ==
    IF c = Space THEN parts
    ELSE IF c = sep THEN Append(parts, <<>>)
    ELSE [parts EXCEPT ![Len(parts)] = Append(@, c)]

Split(s, sep) == FoldOnce(LAMBDA parts, c : Divided(parts, c, sep), <<<<>>>>, s)

SplitParam(s) ==
    LET ends == {i \in 1 .. Len(s) : s[i] = Equals}
        i    == CHOOSE j \in ends : \A k \in ends : j <= k
    IN  IF ends = {} THEN [key |-> s, value |-> <<>>]
        ELSE [key |-> SubSeq(s, 1, i - 1), value |-> SubSeq(s, i + 1, Len(s))]

ElementOf(parts) ==
    LET params == [i \in 1 .. Len(parts) - 1 |-> SplitParam(parts[i + 1])]
        first(key) == CHOOSE i \in DOMAIN params :
                        params[i].key = key /\ \A j \in DOMAIN params : params[j].key = key => i <= j
    IN  Element(parts[1], [key \in {params[i].key : i \in DOMAIN params} |-> params[first(key)].value])

Meaning(header) ==
    LET elements == Split(header, Comma)
    IN  [i \in DOMAIN elements |-> ElementOf(Split(elements[i], Semicolon))]
===============================================================================
