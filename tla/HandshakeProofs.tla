---------------------------- MODULE HandshakeProofs ----------------------------
(***************************************************************************)
(* Theorems about the handshake, for all settings, requests and messages   *)
(* of other implementations, and any number of connections: first about    *)
(* headers, read and written, then about the negotiation they carry, then  *)
(* about the two parsers.                                                  *)
(***************************************************************************)
EXTENDS HandshakeProperties, FiniteSetTheorems, SequenceTheorems, Induction, TLAPS

-------------------------------------------------------------------------------
(* Emplace, and the division of a text. *)

AtComma(parts, c) == Divided(parts, c, Comma)
AtSemicolon(parts, c) == Divided(parts, c, Semicolon)
Commas == INSTANCE FoldLaws WITH Op <- AtComma
Semicolons == INSTANCE FoldLaws WITH Op <- AtSemicolon
Reading == INSTANCE FoldLaws WITH Op <- Token

Parts(T) == Seq(Seq(T)) \ {<<>>}

\* Emplace: what is there stays.
LEMMA EmplaceIs ==
    ASSUME NEW S, NEW K \in SUBSET S, NEW params \in [K -> S], NEW key \in S, NEW value \in S
    PROVE  /\ DOMAIN Emplace(params, key, value) = K \cup {key}
           /\ \A k \in K \cup {key} : Emplace(params, key, value)[k] = IF k \in K THEN params[k] ELSE value
           /\ Emplace(params, key, value) \in [K \cup {key} -> S]
BY DEF Emplace

\* Split's parts are sequences, and there is one at least.
LEMMA DividedType ==
    ASSUME NEW T, NEW parts \in Parts(T), NEW c \in T, NEW sep
    PROVE  Divided(parts, c, sep) \in Parts(T)
<1>1. parts \in Seq(Seq(T)) /\ Len(parts) \in Nat /\ Len(parts) # 0
  BY DEF Parts
<1>2. parts[Len(parts)] \in Seq(T)
  BY <1>1
<1>3. Append(parts[Len(parts)], c) \in Seq(T) /\ <<>> \in Seq(T)
  BY <1>2
<1>4. Append(parts, <<>>) \in Seq(Seq(T)) /\ Append(parts, <<>>) # <<>>
  BY <1>1, <1>3
<1>5. [parts EXCEPT ![Len(parts)] = Append(@, c)] \in Seq(Seq(T))
  BY <1>1, <1>3
<1>6. [parts EXCEPT ![Len(parts)] = Append(@, c)] # <<>>
  <2>1. Len([parts EXCEPT ![Len(parts)] = Append(@, c)]) = Len(parts)
    BY <1>1, <1>3
  <2> QED BY <2>1, <1>1
<1> QED BY <1>1, <1>4, <1>5, <1>6 DEF Divided, Parts

\* What Split makes of a text, token by token.
LEMMA SplitLaws ==
    ASSUME NEW T, NEW sep \in {Comma, Semicolon}
    PROVE  /\ Split(<<>>, sep) = <<<<>>>>
           /\ \A s \in Seq(T) : Split(s, sep) \in Parts(T)
           /\ \A s \in Seq(T), c \in T : Split(Append(s, c), sep) = Divided(Split(s, sep), c, sep)
<1>1. <<<<>>>> \in Parts(T)
  BY DEF Parts
<1>2. CASE sep = Comma
  <2>1. Commas!Goes(Parts(T), T)
    BY DividedType DEF Commas!Goes, AtComma
  <2>2. \A s : Split(s, Comma) = Commas!Fold(<<<<>>>>, s)
    BY DEF Split, FoldOnce, Commas!Fold, AtComma
  <2>3. Split(<<>>, Comma) = <<<<>>>>
    BY <1>1, <2>1, <2>2, Commas!FoldNone
  <2>4. \A s \in Seq(T) : Split(s, Comma) \in Parts(T)
    BY <1>1, <2>1, <2>2, Commas!FoldType
  <2>5. \A s \in Seq(T), c \in T : Split(Append(s, c), Comma) = Divided(Split(s, Comma), c, Comma)
    BY <1>1, <2>1, <2>2, Commas!FoldGoesOn DEF AtComma
  <2> QED BY <1>2, <2>3, <2>4, <2>5
<1>3. CASE sep = Semicolon
  <2>1. Semicolons!Goes(Parts(T), T)
    BY DividedType DEF Semicolons!Goes, AtSemicolon
  <2>2. \A s : Split(s, Semicolon) = Semicolons!Fold(<<<<>>>>, s)
    BY DEF Split, FoldOnce, Semicolons!Fold, AtSemicolon
  <2>3. Split(<<>>, Semicolon) = <<<<>>>>
    BY <1>1, <2>1, <2>2, Semicolons!FoldNone
  <2>4. \A s \in Seq(T) : Split(s, Semicolon) \in Parts(T)
    BY <1>1, <2>1, <2>2, Semicolons!FoldType
  <2>5. \A s \in Seq(T), c \in T : Split(Append(s, c), Semicolon) = Divided(Split(s, Semicolon), c, Semicolon)
    BY <1>1, <2>1, <2>2, Semicolons!FoldGoesOn DEF AtSemicolon
  <2> QED BY <1>3, <2>3, <2>4, <2>5
<1> QED BY <1>2, <1>3

-------------------------------------------------------------------------------
(* What HeaderValueParamsParser holds, over the tokens T. *)

Params(T)   == UNION {[K -> Seq(T)] : K \in SUBSET Seq(T)}
Elements(T) == [name: Seq(T), params: Params(T)]
ReaderType(T) == [mode: {"NAME", "KEY", "VAL"}, acc: Seq(T), key: Seq(T), values: Seq(Elements(T))]

\* The types of what the parser keeps: parameters ...
LEMMA EmplaceType ==
    ASSUME NEW T, NEW params \in Params(T), NEW key \in Seq(T), NEW value \in Seq(T)
    PROVE  Emplace(params, key, value) \in Params(T)
<1>1. PICK K \in SUBSET Seq(T) : params \in [K -> Seq(T)]
  BY DEF Params
<1>2. Emplace(params, key, value) \in [K \cup {key} -> Seq(T)] /\ K \cup {key} \in SUBSET Seq(T)
  BY <1>1 DEF Emplace
<1> QED BY <1>2 DEF Params

\* ... the elements, with a parameter more ...
LEMMA WithParamType ==
    ASSUME NEW T, NEW values \in Seq(Elements(T)), NEW key \in Seq(T), NEW value \in Seq(T)
    PROVE  WithParam(values, key, value) \in Seq(Elements(T))
<1> DEFINE n == Len(values)
           last == [values[n] EXCEPT !.params = Emplace(@, key, value)]
<1>1. n \in Nat
  OBVIOUS
<1>2. WithParam(values, key, value) = [values EXCEPT ![n] = last]
  BY DEF WithParam
<1>3. CASE n = 0
  <2>1. n \notin 1 .. n
    BY <1>3
  <2>2. [values EXCEPT ![n] = last] = values
    BY <2>1
  <2> QED BY <1>2, <2>2
<1>4. CASE n # 0
  <2>1. n \in 1 .. n /\ values[n] \in Elements(T)
    BY <1>1, <1>4
  <2>2. values[n].params \in Params(T)
    BY <2>1 DEF Elements
  <2>3. Emplace(values[n].params, key, value) \in Params(T)
    BY <2>2, EmplaceType
  <2>4. last \in Elements(T)
    BY <2>1, <2>3 DEF Elements
  <2> HIDE DEF last
  <2> QED BY <1>2, <2>1, <2>4
<1> QED BY <1>3, <1>4

\* ... an element's first parameters, none ...
LEMMA NoParamsType == ASSUME NEW T PROVE NoParams \in Params(T)
<1>1. NoParams \in [{} -> Seq(T)] /\ {} \in SUBSET Seq(T)
  BY DEF NoParams
<1> QED BY <1>1 DEF Params

\* ... the elements, with what has ended ...
LEMMA EndedType ==
    ASSUME NEW T, NEW p \in ReaderType(T)
    PROVE  Ended(p) \in Seq(Elements(T))
<1>1. /\ p.mode \in {"NAME", "KEY", "VAL"} /\ p.acc \in Seq(T) /\ p.key \in Seq(T)
      /\ p.values \in Seq(Elements(T)) /\ <<>> \in Seq(T)
  BY DEF ReaderType
<1>2. Element(p.acc, NoParams) \in Elements(T)
  BY <1>1, NoParamsType DEF Element, Elements
<1>3. Append(p.values, Element(p.acc, NoParams)) \in Seq(Elements(T))
  BY <1>1, <1>2
<1>4. WithParam(p.values, p.acc, <<>>) \in Seq(Elements(T)) /\ WithParam(p.values, p.key, p.acc) \in Seq(Elements(T))
  BY <1>1, WithParamType
<1> QED BY <1>1, <1>3, <1>4 DEF Ended

\* ... and the whole of it.
LEMMA TokenType ==
    ASSUME NEW T, NEW p \in ReaderType(T), NEW c \in T
    PROVE  Token(p, c) \in ReaderType(T)
<1>1. Ended(p) \in Seq(Elements(T))
  BY EndedType
<1>2. Append(p.acc, c) \in Seq(T) /\ <<>> \in Seq(T) /\ p.acc \in Seq(T)
  BY DEF ReaderType
<1> DEFINE mode == IF c = Comma THEN "NAME" ELSE "KEY"
<1>3. mode \in {"NAME", "KEY", "VAL"}
  OBVIOUS
<1>4. [p EXCEPT !.values = Ended(p), !.acc = <<>>, !.mode = mode] \in ReaderType(T)
  BY <1>1, <1>2, <1>3 DEF ReaderType
<1>5. [p EXCEPT !.key = p.acc, !.acc = <<>>, !.mode = "VAL"] \in ReaderType(T)
  BY <1>2 DEF ReaderType
<1>6. [p EXCEPT !.acc = Append(@, c)] \in ReaderType(T)
  BY <1>2 DEF ReaderType
<1> QED BY <1>4, <1>5, <1>6 DEF Token

\* The laws of the fold in ParseHeaderValue.
Begun(values) == [mode |-> "NAME", acc |-> <<>>, key |-> <<>>, values |-> values]

\* The parser at the beginning of a header.
LEMMA BegunType == ASSUME NEW T, NEW values \in Seq(Elements(T)) PROVE Begun(values) \in ReaderType(T)
BY DEF Begun, ReaderType

\* Token keeps to the types: the fold's laws hold.
LEMMA ReadingGoes == ASSUME NEW T PROVE Reading!Goes(ReaderType(T), T)
BY TokenType DEF Reading!Goes

\* ParseHeaderValue by the fold the laws are about.
LEMMA ParseIs ==
    ASSUME NEW header, NEW values
    PROVE  ParseHeaderValue(header, values) = Ended(Reading!Fold(Begun(values), header))
BY DEF ParseHeaderValue, FoldOnce, Reading!Fold, Begun

-------------------------------------------------------------------------------
(* A parameter: its key and what follows its first '='. *)

HasEquals(s) == \E i \in 1 .. Len(s) : s[i] = Equals

\* If there is an '=', there is a first.
LEMMA FirstEquals ==
    ASSUME NEW T, NEW s \in Seq(T), HasEquals(s)
    PROVE  \E i \in 1 .. Len(s) : s[i] = Equals /\ \A k \in 1 .. Len(s) : s[k] = Equals => i <= k
<1> DEFINE ends == {i \in 1 .. Len(s) : s[i] = Equals}
<1>1. ends \in SUBSET Nat /\ ends # {}
  BY DEF HasEquals
<1>2. PICK i \in ends : \A k \in ends : i <= k
  BY <1>1, LeastNatural
<1> QED BY <1>2

\* SplitParam divides at the first '=' ...
LEMMA SplitAt ==
    ASSUME NEW T, NEW s \in Seq(T), NEW i \in 1 .. Len(s), s[i] = Equals,
           \A k \in 1 .. Len(s) : s[k] = Equals => i <= k
    PROVE  SplitParam(s) = [key |-> SubSeq(s, 1, i - 1), value |-> SubSeq(s, i + 1, Len(s))]
<1> DEFINE ends == {k \in 1 .. Len(s) : s[k] = Equals}
           first == CHOOSE j \in ends : \A k \in ends : j <= k
<1>1. i \in ends /\ \A k \in ends : i <= k
  OBVIOUS
<1>2. \A j \in ends : (\A k \in ends : j <= k) => j = i
  BY <1>1
<1>3. first = i
  BY <1>1, <1>2
<1>4. ends # {}
  BY <1>1
<1>5. SplitParam(s) = IF ends = {} THEN [key |-> s, value |-> <<>>]
                      ELSE [key |-> SubSeq(s, 1, first - 1), value |-> SubSeq(s, first + 1, Len(s))]
  BY Zenon DEF SplitParam
<1> HIDE DEF ends, first
<1> QED BY <1>3, <1>4, <1>5

\* ... and without one all is key.
LEMMA SplitNowhere ==
    ASSUME NEW s, ~HasEquals(s)
    PROVE  SplitParam(s) = [key |-> s, value |-> <<>>]
<1>1. {k \in 1 .. Len(s) : s[k] = Equals} = {}
  BY DEF HasEquals
<1> QED BY <1>1 DEF SplitParam

\* Key and value are sequences of the same tokens.
LEMMA SplitParamType ==
    ASSUME NEW T, NEW s \in Seq(T)
    PROVE  SplitParam(s).key \in Seq(T) /\ SplitParam(s).value \in Seq(T)
<1>1. CASE ~HasEquals(s)
  <2>1. SplitParam(s) = [key |-> s, value |-> <<>>]
    BY <1>1, SplitNowhere
  <2>2. <<>> \in Seq(T)
    OBVIOUS
  <2> QED BY <2>1, <2>2
<1>2. CASE HasEquals(s)
  <2>1. PICK i \in 1 .. Len(s) : s[i] = Equals /\ \A k \in 1 .. Len(s) : s[k] = Equals => i <= k
    BY <1>2, FirstEquals
  <2>2. SplitParam(s) = [key |-> SubSeq(s, 1, i - 1), value |-> SubSeq(s, i + 1, Len(s))]
    BY <2>1, SplitAt
  <2>3. SubSeq(s, 1, i - 1) \in Seq(T) /\ SubSeq(s, i + 1, Len(s)) \in Seq(T)
    OBVIOUS
  <2> QED BY <2>2, <2>3
<1> QED BY <1>1, <1>2

\* An '=' that is the first ends the key ...
LEMMA SplitAtNew ==
    ASSUME NEW T, NEW s \in Seq(T), ~HasEquals(s), Equals \in T
    PROVE  HasEquals(Append(s, Equals)) /\ SplitParam(Append(s, Equals)) = [key |-> s, value |-> <<>>]
<1> DEFINE t == Append(s, Equals)
           n == Len(s)
<1>1. /\ t \in Seq(T) /\ n \in Nat /\ Len(t) = n + 1 /\ t[n + 1] = Equals
      /\ \A k \in 1 .. n : t[k] = s[k]
  BY AppendProperties, LenProperties
<1>2. n + 1 \in 1 .. Len(t) /\ \A k \in 1 .. Len(t) : t[k] = Equals => n + 1 <= k
  <2>1. ASSUME NEW k \in 1 .. Len(t), t[k] = Equals PROVE n + 1 <= k
    <3>1. CASE k \in 1 .. n
      BY <1>1, <2>1, <3>1 DEF HasEquals
    <3> QED BY <1>1, <3>1
  <2> QED BY <1>1, <2>1
<1>3. SubSeq(t, 1, n) = s
  OBVIOUS
<1>4. SubSeq(t, n + 2, n + 1) = <<>>
  BY <1>1
<1> HIDE DEF t, n
<1>5. SplitParam(t) = [key |-> SubSeq(t, 1, (n + 1) - 1), value |-> SubSeq(t, (n + 1) + 1, Len(t))]
  BY <1>1, <1>2, SplitAt
<1>6. (n + 1) - 1 = n /\ (n + 1) + 1 = n + 2
  BY <1>1
<1>7. HasEquals(t)
  BY <1>1, <1>2 DEF HasEquals
<1> QED BY <1>1, <1>3, <1>4, <1>5, <1>6, <1>7 DEF t

\* ... after that all is value ...
LEMMA SplitGrows ==
    ASSUME NEW T, NEW s \in Seq(T), HasEquals(s), NEW c \in T
    PROVE  /\ HasEquals(Append(s, c))
           /\ SplitParam(Append(s, c)) = [key |-> SplitParam(s).key, value |-> Append(SplitParam(s).value, c)]
<1> DEFINE t == Append(s, c)
           n == Len(s)
<1>1. /\ t \in Seq(T) /\ n \in Nat /\ Len(t) = n + 1 /\ t[n + 1] = c
      /\ \A k \in 1 .. n : t[k] = s[k]
  BY AppendProperties, LenProperties
<1>2. PICK i \in 1 .. n : s[i] = Equals /\ \A k \in 1 .. n : s[k] = Equals => i <= k
  BY FirstEquals
<1>3. SplitParam(s) = [key |-> SubSeq(s, 1, i - 1), value |-> SubSeq(s, i + 1, n)]
  BY <1>2, SplitAt
<1>4. i \in 1 .. Len(t) /\ t[i] = Equals /\ \A k \in 1 .. Len(t) : t[k] = Equals => i <= k
  <2>1. ASSUME NEW k \in 1 .. Len(t), t[k] = Equals PROVE i <= k
    <3>1. CASE k \in 1 .. n
      BY <1>1, <1>2, <2>1, <3>1
    <3>2. CASE k = n + 1
      BY <1>1, <3>2
    <3> QED BY <1>1, <3>1, <3>2
  <2> QED BY <1>1, <1>2, <2>1
<1>5. SplitParam(t) = [key |-> SubSeq(t, 1, i - 1), value |-> SubSeq(t, i + 1, n + 1)]
  <2> HIDE DEF t
  <2> QED BY <1>1, <1>4, SplitAt
<1>6. SubSeq(t, 1, i - 1) = SubSeq(s, 1, i - 1)
  OBVIOUS
<1>7. SubSeq(t, i + 1, n + 1) = Append(SubSeq(s, i + 1, n), c)
  <2> DEFINE a == SubSeq(t, i + 1, n + 1)
             b == SubSeq(s, i + 1, n)
             d == Append(b, c)
             m == n - i
  <2>1. b \in Seq(T) /\ Len(b) = m /\ \A k \in 1 .. m : b[k] = s[i + k]
    BY <1>1, <1>2
  <2>2. a \in Seq(T) /\ Len(a) = m + 1 /\ \A k \in 1 .. m + 1 : a[k] = t[i + k]
    <3> HIDE DEF t
    <3> QED BY <1>1, <1>2
  <2>3. m \in Nat /\ i + (m + 1) = n + 1 /\ \A k \in 1 .. m : i + k \in 1 .. n
    BY <1>1, <1>2
  <2> HIDE DEF a, b, m, n, t
  <2>4. d \in Seq(T) /\ Len(d) = Len(b) + 1 /\ d[Len(b) + 1] = c /\ \A k \in 1 .. Len(b) : d[k] = b[k]
    <3>1. b \in Seq(T)
      BY <2>1
    <3> QED BY <3>1, AppendProperties, LenProperties
  <2> HIDE DEF d
  <2>5. ASSUME NEW k \in 1 .. Len(a) PROVE a[k] = d[k]
    <3>1. CASE k = m + 1
      BY <1>1, <2>1, <2>2, <2>3, <2>4, <3>1
    <3>2. CASE k # m + 1
      <4>1. k \in 1 .. m
        BY <2>2, <2>3, <3>2
      <4> QED BY <1>1, <2>1, <2>2, <2>3, <2>4, <4>1
    <3> QED BY <3>1, <3>2
  <2>6. Len(a) = Len(d)
    BY <2>1, <2>2, <2>4
  <2>7. a = d
    BY <2>2, <2>4, <2>5, <2>6, SeqEqual
  <2> QED BY <2>7 DEF a, b, d
<1>8. HasEquals(t)
  BY <1>4 DEF HasEquals
<1>9. SplitParam(s).key = SubSeq(s, 1, i - 1) /\ SplitParam(s).value = SubSeq(s, i + 1, n)
  BY <1>3
<1> HIDE DEF t
<1>10. SplitParam(t) = [key |-> SplitParam(s).key, value |-> Append(SplitParam(s).value, c)]
  BY <1>5, <1>6, <1>7, <1>9
<1> QED BY <1>8, <1>10 DEF t

\* ... and until then key.
LEMMA StillNoEquals ==
    ASSUME NEW T, NEW s \in Seq(T), ~HasEquals(s), NEW c \in T, c # Equals
    PROVE  ~HasEquals(Append(s, c))
<1>1. ASSUME NEW k \in 1 .. Len(s) + 1 PROVE Append(s, c)[k] # Equals
  <2>1. CASE k \in 1 .. Len(s)
    BY <2>1, AppendProperties, LenProperties DEF HasEquals
  <2>2. CASE k = Len(s) + 1
    BY <2>2, AppendProperties, LenProperties
  <2> QED BY <2>1, <2>2
<1> QED BY <1>1, AppendProperties, LenProperties DEF HasEquals

-------------------------------------------------------------------------------
(* An element: its name and, of the parameters of one key, the first. *)

ParamsOf(parts) == [i \in 1 .. Len(parts) - 1 |-> SplitParam(parts[i + 1])]
Keys(params) == {params[i].key : i \in DOMAIN params}
IsFirst(params, key, i) ==
    i \in DOMAIN params /\ params[i].key = key /\ \A j \in DOMAIN params : params[j].key = key => i <= j
FirstValue(params, key) ==
    params[CHOOSE i \in DOMAIN params :
              params[i].key = key /\ \A j \in DOMAIN params : params[j].key = key => i <= j].value

\* A key that is given is given a first time.
LEMMA FirstExists ==
    ASSUME NEW params, DOMAIN params \subseteq Nat, NEW key \in Keys(params)
    PROVE  \E i : IsFirst(params, key, i)
<1> DEFINE S == {i \in DOMAIN params : params[i].key = key}
<1>1. S \in SUBSET Nat /\ S # {}
  BY DEF Keys
<1>2. PICK i \in S : \A j \in S : i <= j
  BY <1>1, LeastNatural
<1> QED BY <1>2 DEF IsFirst

\* Its value is the one it has there.
LEMMA FirstValueIs ==
    ASSUME NEW params, DOMAIN params \subseteq Nat, NEW key, NEW i, IsFirst(params, key, i)
    PROVE  FirstValue(params, key) = params[i].value
<1> DEFINE P(k) == params[k].key = key /\ \A j \in DOMAIN params : params[j].key = key => k <= j
           first == CHOOSE k \in DOMAIN params : P(k)
<1>1. i \in DOMAIN params /\ P(i)
  BY DEF IsFirst
<1>2. \A k \in DOMAIN params : P(k) => k = i
  BY <1>1
<1>3. first = i
  <2> HIDE DEF P
  <2> QED BY <1>1, <1>2
<1>4. FirstValue(params, key) = params[first].value
  BY Zenon DEF FirstValue
<1> HIDE DEF first
<1> QED BY <1>3, <1>4

\* ElementOf in these terms.
LEMMA ElementIs ==
    ASSUME NEW parts
    PROVE  ElementOf(parts) = Element(parts[1], [key \in Keys(ParamsOf(parts)) |-> FirstValue(ParamsOf(parts), key)])
BY Zenon DEF ElementOf, Keys, ParamsOf, FirstValue

\* A name alone.
LEMMA ElementAlone ==
    ASSUME NEW T, NEW parts \in Parts(T), Len(parts) = 1
    PROVE  ElementOf(parts) = Element(parts[1], NoParams)
<1> DEFINE params == ParamsOf(parts)
<1>1. Keys(params) = {}
  BY DEF ParamsOf, Keys
<1> HIDE DEF params
<1>2. [key \in Keys(params) |-> FirstValue(params, key)] = NoParams
  BY <1>1 DEF NoParams
<1> QED BY <1>2, ElementIs DEF params

\* The parameters are the parts but the first, one by one.
LEMMA ParamsOfIs ==
    ASSUME NEW T, NEW parts \in Parts(T)
    PROVE  /\ DOMAIN ParamsOf(parts) = 1 .. Len(parts) - 1 /\ Len(parts) \in Nat \ {0}
           /\ \A i \in 1 .. Len(parts) - 1 :
                 /\ i + 1 \in 1 .. Len(parts) /\ ParamsOf(parts)[i] = SplitParam(parts[i + 1])
                 /\ ParamsOf(parts)[i].key \in Seq(T) /\ ParamsOf(parts)[i].value \in Seq(T)
<1>1. parts \in Seq(Seq(T)) /\ Len(parts) \in Nat /\ Len(parts) # 0
  BY DEF Parts
<1>2. ASSUME NEW i \in 1 .. Len(parts) - 1
      PROVE  /\ i + 1 \in 1 .. Len(parts) /\ ParamsOf(parts)[i] = SplitParam(parts[i + 1])
             /\ ParamsOf(parts)[i].key \in Seq(T) /\ ParamsOf(parts)[i].value \in Seq(T)
  <2>1. i + 1 \in 1 .. Len(parts) /\ parts[i + 1] \in Seq(T)
    BY <1>1
  <2>2. ParamsOf(parts)[i] = SplitParam(parts[i + 1])
    BY DEF ParamsOf
  <2> QED BY <2>1, <2>2, SplitParamType
<1> QED BY <1>1, <1>2 DEF ParamsOf

\* The parts of an element make an element.
LEMMA ElementOfType ==
    ASSUME NEW T, NEW parts \in Parts(T)
    PROVE  ElementOf(parts) \in Elements(T)
<1> DEFINE params == ParamsOf(parts)
           n == Len(parts)
<1>1. /\ DOMAIN params = 1 .. n - 1 /\ n \in Nat \ {0}
      /\ \A i \in 1 .. n - 1 : params[i].key \in Seq(T) /\ params[i].value \in Seq(T)
  BY ParamsOfIs
<1>2. parts[1] \in Seq(T)
  <2>1. parts \in Seq(Seq(T)) /\ 1 \in 1 .. Len(parts)
    BY <1>1 DEF Parts
  <2> QED BY <2>1
<1> HIDE DEF params
<1>3. ASSUME NEW key \in Keys(params) PROVE FirstValue(params, key) \in Seq(T)
  <2>1. DOMAIN params \subseteq Nat
    BY <1>1
  <2>2. PICK i : IsFirst(params, key, i)
    BY <2>1, FirstExists
  <2>3. FirstValue(params, key) = params[i].value
    BY <2>1, <2>2, FirstValueIs
  <2> QED BY <1>1, <2>2, <2>3 DEF IsFirst
<1>4. Keys(params) \in SUBSET Seq(T)
  BY <1>1 DEF Keys
<1>5. [key \in Keys(params) |-> FirstValue(params, key)] \in Params(T)
  <2>1. [key \in Keys(params) |-> FirstValue(params, key)] \in [Keys(params) -> Seq(T)]
    BY <1>3
  <2> QED BY <1>4, <2>1 DEF Params
<1>6. ElementOf(parts) = Element(parts[1], [key \in Keys(params) |-> FirstValue(params, key)])
  BY ElementIs DEF params
<1> QED BY <1>2, <1>5, <1>6 DEF Elements, Element

\* One more part is one more parameter, if its key is new.
LEMMA ElementGoesOn ==
    ASSUME NEW T, NEW parts \in Parts(T), NEW p \in Seq(T)
    PROVE  /\ Append(parts, p) \in Parts(T)
           /\ ElementOf(Append(parts, p)) =
                [ElementOf(parts) EXCEPT !.params = Emplace(@, SplitParam(p).key, SplitParam(p).value)]
<1> DEFINE more == Append(parts, p)
           n == Len(parts)
           old == ParamsOf(parts)
           new == ParamsOf(more)
           key == SplitParam(p).key
           value == SplitParam(p).value
<1>1. /\ more \in Parts(T) /\ n \in Nat \ {0} /\ Len(more) = n + 1 /\ more[n + 1] = p
      /\ \A i \in 1 .. n : more[i] = parts[i]
  <2>1. parts \in Seq(Seq(T)) /\ parts # <<>>
    BY DEF Parts
  <2>2. /\ more \in Seq(Seq(T)) /\ n \in Nat \ {0} /\ Len(more) = n + 1 /\ more[n + 1] = p
        /\ \A i \in 1 .. n : more[i] = parts[i]
    BY <2>1
  <2>3. more # <<>>
    BY <2>2
  <2> QED BY <2>2, <2>3 DEF Parts
<1>2. /\ DOMAIN old = 1 .. n - 1 /\ \A i \in 1 .. n - 1 : old[i] = SplitParam(parts[i + 1])
  BY ParamsOfIs
<1> HIDE DEF more
<1>3. /\ DOMAIN new = 1 .. Len(more) - 1 /\ \A i \in 1 .. Len(more) - 1 : new[i] = SplitParam(more[i + 1])
  BY <1>1, ParamsOfIs
<1>4. /\ DOMAIN new = 1 .. n /\ new[n].key = key /\ new[n].value = value
      /\ \A i \in 1 .. n - 1 : new[i] = old[i]
  <2>1. (n + 1) - 1 = n /\ n \in 1 .. n /\ \A i \in 1 .. n - 1 : i + 1 \in 1 .. n /\ i \in 1 .. n
    BY <1>1
  <2> QED BY <1>1, <1>2, <1>3, <2>1
<1> HIDE DEF old, new, key, value
<1>5. /\ DOMAIN old \subseteq Nat /\ DOMAIN new \subseteq Nat /\ n \in 1 .. n /\ n \notin 1 .. n - 1
      /\ \A i \in 1 .. n : i = n \/ i \in 1 .. n - 1
      /\ \A i \in 1 .. n - 1 : i \in 1 .. n /\ i <= n
  BY <1>1, <1>2, <1>4
<1>6. Keys(new) = Keys(old) \cup {key}
  BY <1>2, <1>4, <1>5, ZenonT(30) DEF Keys
<1>7. ASSUME NEW k \in Keys(new)
      PROVE  FirstValue(new, k) = IF k \in Keys(old) THEN FirstValue(old, k) ELSE value
  <2>1. CASE k \in Keys(old)
    <3>1. PICK i : IsFirst(old, k, i)
      BY <1>5, <2>1, FirstExists
    <3>2. i \in 1 .. n - 1 /\ old[i].key = k /\ \A j \in 1 .. n - 1 : old[j].key = k => i <= j
      BY <1>2, <3>1 DEF IsFirst
    <3>3. IsFirst(new, k, i)
      BY <1>4, <1>5, <3>2 DEF IsFirst
    <3>4. FirstValue(old, k) = old[i].value
      BY <1>5, <3>1, FirstValueIs
    <3>5. FirstValue(new, k) = new[i].value
      BY <1>5, <3>3, FirstValueIs
    <3> QED BY <1>4, <2>1, <3>2, <3>4, <3>5
  <2>2. CASE k \notin Keys(old)
    <3>1. k = key /\ \A j \in 1 .. n - 1 : old[j].key # k
      BY <1>2, <1>6, <2>2 DEF Keys
    <3>2. n <= n
      BY <1>1
    <3>3. IsFirst(new, k, n)
      BY <1>4, <1>5, <3>1, <3>2 DEF IsFirst
    <3>4. FirstValue(new, k) = new[n].value
      BY <1>5, <3>3, FirstValueIs
    <3> QED BY <1>4, <2>2, <3>4
  <2> QED BY <2>1, <2>2
<1> DEFINE given == [k \in Keys(old) |-> FirstValue(old, k)]
           now == [k \in Keys(new) |-> FirstValue(new, k)]
<1>8. now = Emplace(given, key, value)
  BY <1>6, <1>7 DEF Emplace
<1>9. ElementOf(parts) = Element(parts[1], given) /\ ElementOf(more) = Element(more[1], now)
  BY ElementIs DEF old, new
<1>10. more[1] = parts[1]
  BY <1>1
<1> HIDE DEF given, now
<1>11. ElementOf(more) = [ElementOf(parts) EXCEPT !.params = Emplace(@, key, value)]
  BY <1>8, <1>9, <1>10 DEF Element
<1> QED BY <1>1, <1>11 DEF more, key, value

-------------------------------------------------------------------------------
(* The parser against the grammar. *)

Done(h) == LET elements == Split(h, Comma)
           IN  [i \in 1 .. Len(elements) - 1 |-> ElementOf(Split(elements[i], Semicolon))]
Current(h) == Split(Last(Split(h, Comma)), Semicolon)

\* Four characters.
LEMMA SeparatorsDiffer == Space # Comma /\ Space # Semicolon /\ Space # Equals /\ Comma # Semicolon /\ Comma # Equals /\ Semicolon # Equals
BY Zenon DEF Space, Comma, Semicolon, Equals

\* A text that is divided has a last part.
LEMMA LastType ==
    ASSUME NEW T, NEW parts \in Parts(T)
    PROVE  /\ parts \in Seq(Seq(T)) /\ Len(parts) \in Nat \ {0} /\ Len(parts) \in 1 .. Len(parts)
           /\ Last(parts) = parts[Len(parts)] /\ Last(parts) \in Seq(T) /\ parts[1] \in Seq(T)
BY DEF Parts, Last

\* A header means the elements that are done and the current one.
LEMMA DoneType ==
    ASSUME NEW T, NEW h \in Seq(T)
    PROVE  /\ Done(h) \in Seq(Elements(T)) /\ Len(Done(h)) = Len(Split(h, Comma)) - 1
           /\ Current(h) \in Parts(T) /\ ElementOf(Current(h)) \in Elements(T)
           /\ Meaning(h) = Append(Done(h), ElementOf(Current(h)))
<1> DEFINE elements == Split(h, Comma)
           n == Len(elements)
<1>1. elements \in Parts(T)
  BY SplitLaws
<1>2. elements \in Seq(Seq(T)) /\ n \in Nat \ {0} /\ Last(elements) = elements[n] /\ Last(elements) \in Seq(T)
  BY <1>1, LastType
<1> HIDE DEF elements
<1>3. \A i \in 1 .. n : Split(elements[i], Semicolon) \in Parts(T) /\ ElementOf(Split(elements[i], Semicolon)) \in Elements(T)
  BY <1>2, SplitLaws, ElementOfType
<1>4. Current(h) = Split(elements[n], Semicolon) /\ n \in 1 .. n
  BY <1>2 DEF Current, elements
<1>5. Done(h) = [i \in 1 .. n - 1 |-> ElementOf(Split(elements[i], Semicolon))]
  BY DEF Done, elements
<1>6. n - 1 \in Nat /\ \A i \in 1 .. n - 1 : i \in 1 .. n
  BY <1>2
<1>7. Done(h) \in Seq(Elements(T)) /\ Len(Done(h)) = n - 1
  BY <1>3, <1>5, <1>6
<1>8. Meaning(h) = [i \in 1 .. n |-> ElementOf(Split(elements[i], Semicolon))]
  BY <1>2 DEF Meaning, elements
<1>9. Meaning(h) \in Seq(Elements(T)) /\ Len(Meaning(h)) = n
  BY <1>2, <1>3, <1>8
<1> DEFINE e == ElementOf(Current(h))
           all == Append(Done(h), e)
<1>10. e \in Elements(T)
  BY <1>3, <1>4
<1> HIDE DEF e
<1>11. /\ all \in Seq(Elements(T)) /\ Len(all) = Len(Done(h)) + 1 /\ all[Len(Done(h)) + 1] = e
       /\ \A k \in 1 .. Len(Done(h)) : all[k] = Done(h)[k]
  <2>1. Done(h) \in Seq(Elements(T))
    BY <1>7
  <2> QED BY <1>10, <2>1, AppendProperties, LenProperties
<1> HIDE DEF all
<1>12. ASSUME NEW k \in 1 .. n PROVE Meaning(h)[k] = all[k]
  <2>1. CASE k = n
    <3>1. Len(Done(h)) + 1 = n
      BY <1>2, <1>7
    <3> QED BY <1>4, <1>8, <1>11, <2>1, <3>1 DEF e
  <2>2. CASE k # n
    <3>1. k \in 1 .. n - 1
      BY <1>2, <2>2
    <3> QED BY <1>5, <1>7, <1>8, <1>11, <3>1
  <2> QED BY <2>1, <2>2
<1>13. Len(all) = n
  BY <1>2, <1>7, <1>11
<1>14. Meaning(h) = all
  BY <1>9, <1>11, <1>12, <1>13, SeqEqual
<1> QED BY <1>1, <1>3, <1>4, <1>7, <1>14 DEF all, e, elements

\* What one token does to the elements that are done and to the parts of the current one.
LEMMA Moves ==
    ASSUME NEW T, NEW h \in Seq(T), NEW c \in T
    PROVE  /\ c = Space => Done(Append(h, c)) = Done(h) /\ Current(Append(h, c)) = Current(h)
           /\ c = Comma => Done(Append(h, c)) = Meaning(h) /\ Current(Append(h, c)) = <<<<>>>>
           /\ c \notin {Space, Comma} => /\ Done(Append(h, c)) = Done(h)
                                         /\ Current(Append(h, c)) = Divided(Current(h), c, Semicolon)
<1> DEFINE more == Append(h, c)
           old == Split(h, Comma)
           new == Split(more, Comma)
           n == Len(old)
<1>1. new = Divided(old, c, Comma) /\ more \in Seq(T)
  BY SplitLaws
<1>2. old \in Parts(T) /\ new \in Parts(T)
  BY <1>1, SplitLaws
<1>3. old \in Seq(Seq(T)) /\ n \in Nat \ {0} /\ n \in 1 .. n /\ Last(old) = old[n] /\ Last(old) \in Seq(T)
  BY <1>2, LastType
<1>4. /\ Done(h) = [i \in 1 .. n - 1 |-> ElementOf(Split(old[i], Semicolon))]
      /\ Current(h) = Split(Last(old), Semicolon)
      /\ Done(more) = [i \in 1 .. Len(new) - 1 |-> ElementOf(Split(new[i], Semicolon))]
      /\ Current(more) = Split(Last(new), Semicolon)
      /\ Meaning(h) = [i \in 1 .. n |-> ElementOf(Split(old[i], Semicolon))]
  BY <1>3 DEF Done, Current, Meaning
<1> HIDE DEF old, new, more
<1>5. CASE c = Space
  <2>1. new = old
    BY <1>1, <1>5 DEF Divided
  <2> QED BY <1>4, <1>5, <2>1, SeparatorsDiffer DEF more
<1>6. CASE c = Comma
  <2>1. new = Append(old, <<>>)
    BY <1>1, <1>6, SeparatorsDiffer DEF Divided
  <2>2. Len(new) = n + 1 /\ Len(new) - 1 = n /\ new[n + 1] = <<>> /\ \A i \in 1 .. n : new[i] = old[i]
    BY <1>3, <2>1
  <2>3. Last(new) = <<>>
    BY <2>2 DEF Last
  <2>4. Done(more) = Meaning(h)
    BY <1>4, <2>2
  <2>5. Current(more) = <<<<>>>>
    BY <1>4, <2>3, SplitLaws
  <2> QED BY <1>6, <2>4, <2>5, SeparatorsDiffer DEF more
<1>7. CASE c \notin {Space, Comma}
  <2>1. new = [old EXCEPT ![n] = Append(@, c)]
    BY <1>1, <1>7 DEF Divided
  <2>2. /\ Len(new) = n /\ new[n] = Append(Last(old), c)
        /\ \A i \in 1 .. n - 1 : new[i] = old[i]
    <3>1. DOMAIN new = 1 .. n
      BY <1>3, <2>1
    <3>2. new \in Seq(Seq(T))
      BY <1>2 DEF Parts
    <3>3. Len(new) = n
      BY <1>3, <3>1, <3>2
    <3>4. DOMAIN old = 1 .. n /\ n \in 1 .. n /\ \A i \in 1 .. n - 1 : i \in 1 .. n /\ i # n
      BY <1>3
    <3>5. new[n] = Append(old[n], c) /\ \A i \in 1 .. n - 1 : new[i] = old[i]
      <4> HIDE DEF n
      <4> QED BY <2>1, <3>4
    <3> QED BY <1>3, <3>3, <3>5
  <2>3. Last(new) = Append(Last(old), c)
    BY <2>2 DEF Last
  <2>4. Done(more) = Done(h)
    BY <1>4, <2>2
  <2>5. Current(more) = Divided(Current(h), c, Semicolon)
    BY <1>3, <1>4, <2>3, SplitLaws
  <2> QED BY <1>7, <2>4, <2>5 DEF more
<1> QED BY <1>5, <1>6, <1>7

\* What the parser holds when the elements in values are done and the current one has these parts.
InParams(p, parts, values, T) ==
    \E front \in Parts(T), last \in Seq(T) :
        /\ parts = Append(front, last)
        /\ p.values = Append(values, ElementOf(front))
        /\ p.mode = "KEY" => p.acc = last /\ ~HasEquals(last)
        /\ p.mode = "VAL" => HasEquals(last) /\ p.key = SplitParam(last).key /\ p.acc = SplitParam(last).value

Tracks(p, parts, values, T) ==
    /\ p.mode = "NAME" => Len(parts) = 1 /\ p.acc = parts[1] /\ p.values = values
    /\ p.mode # "NAME" => InParams(p, parts, values, T)

\* To replace the last of a sequence.
LEMMA LastReplaced ==
    ASSUME NEW S, NEW s \in Seq(S), NEW e \in S, NEW f \in S
    PROVE  [Append(s, e) EXCEPT ![Len(s) + 1] = f] = Append(s, f)
<1> DEFINE n == Len(s)
           a == Append(s, e)
           b == Append(s, f)
           d == [a EXCEPT ![n + 1] = f]
<1>1. /\ a \in Seq(S) /\ b \in Seq(S) /\ n \in Nat /\ Len(a) = n + 1 /\ Len(b) = n + 1 /\ b[n + 1] = f
      /\ \A k \in 1 .. n : a[k] = s[k] /\ b[k] = s[k]
  BY AppendProperties, LenProperties
<1> HIDE DEF a, b, n
<1>2. d \in Seq(S) /\ Len(d) = n + 1
  BY <1>1
<1>3. ASSUME NEW k \in 1 .. n + 1 PROVE d[k] = b[k]
  <2>1. DOMAIN a = 1 .. n + 1
    BY <1>1
  <2>2. d[k] = IF k = n + 1 THEN f ELSE a[k]
    BY <2>1
  <2>3. k = n + 1 \/ k \in 1 .. n
    BY <1>1
  <2> HIDE DEF d
  <2> QED BY <1>1, <2>2, <2>3
<1> HIDE DEF d
<1>4. d = b
  BY <1>1, <1>2, <1>3, SeqEqual
<1> QED BY <1>4 DEF a, b, d, n

\* WithParam is about the last element.
LEMMA WithParamLast ==
    ASSUME NEW T, NEW values \in Seq(Elements(T)), NEW e \in Elements(T), NEW key \in Seq(T), NEW value \in Seq(T)
    PROVE  WithParam(Append(values, e), key, value) = Append(values, [e EXCEPT !.params = Emplace(@, key, value)])
<1> DEFINE more == Append(values, e)
           f == [e EXCEPT !.params = Emplace(@, key, value)]
           n == Len(values)
<1>1. /\ more \in Seq(Elements(T)) /\ n \in Nat /\ Len(more) = n + 1 /\ more[n + 1] = e
  BY AppendProperties, LenProperties
<1>2. WithParam(more, key, value) = [more EXCEPT ![n + 1] = f]
  <2> HIDE DEF more
  <2>1. WithParam(more, key, value) = [more EXCEPT ![Len(more)].params = Emplace(@, key, value)]
    BY Zenon DEF WithParam
  <2>2. [more EXCEPT ![n + 1].params = Emplace(@, key, value)] = [more EXCEPT ![n + 1] = f]
    BY <1>1
  <2> QED BY <1>1, <2>1, <2>2
<1>3. f \in Elements(T)
  BY EmplaceType DEF Elements
<1> HIDE DEF f
<1>4. [more EXCEPT ![n + 1] = f] = Append(values, f)
  BY <1>3, LastReplaced
<1> QED BY <1>2, <1>4 DEF f

\* What has ended is the current element.
LEMMA EndedIs ==
    ASSUME NEW T, NEW p \in ReaderType(T), NEW parts \in Parts(T), NEW values \in Seq(Elements(T)),
           Tracks(p, parts, values, T)
    PROVE  Ended(p) = Append(values, ElementOf(parts))
<1>1. CASE p.mode = "NAME"
  <2>1. ElementOf(parts) = Element(p.acc, NoParams) /\ p.values = values
    BY <1>1, ElementAlone DEF Tracks
  <2>2. Ended(p) = Append(p.values, Element(p.acc, NoParams))
    BY <1>1 DEF Ended
  <2> QED BY <2>1, <2>2
<1>2. CASE p.mode # "NAME"
  <2>1. PICK front \in Parts(T), last \in Seq(T) :
        /\ parts = Append(front, last)
        /\ p.values = Append(values, ElementOf(front))
        /\ p.mode = "KEY" => p.acc = last /\ ~HasEquals(last)
        /\ p.mode = "VAL" => HasEquals(last) /\ p.key = SplitParam(last).key /\ p.acc = SplitParam(last).value
    BY <1>2 DEF Tracks, InParams
  <2> DEFINE key == SplitParam(last).key
             value == SplitParam(last).value
             e == ElementOf(front)
  <2>2. e \in Elements(T) /\ key \in Seq(T) /\ value \in Seq(T)
    BY ElementOfType, SplitParamType
  <2>3. ElementOf(parts) = [e EXCEPT !.params = Emplace(@, key, value)]
    BY <2>1, ElementGoesOn
  <2>4. Ended(p) = WithParam(p.values, key, value)
    <3>1. p.mode \in {"KEY", "VAL"}
      BY <1>2 DEF ReaderType
    <3>2. CASE p.mode = "KEY"
      <4>1. SplitParam(last) = [key |-> last, value |-> <<>>]
        BY <2>1, <3>2, SplitNowhere
      <4>2. Ended(p) = WithParam(p.values, p.acc, <<>>)
        BY <3>2 DEF Ended
      <4> QED BY <2>1, <3>2, <4>1, <4>2
    <3>3. CASE p.mode = "VAL"
      BY <2>1, <3>3 DEF Ended
    <3> QED BY <3>1, <3>2, <3>3
  <2> HIDE DEF key, value, e
  <2>5. WithParam(Append(values, e), key, value) = Append(values, [e EXCEPT !.params = Emplace(@, key, value)])
    BY <2>2, WithParamLast
  <2> QED BY <2>1, <2>3, <2>4, <2>5 DEF e
<1> QED BY <1>1, <1>2

\* A token more in the last part.
LEMMA LastGrows ==
    ASSUME NEW T, NEW front \in Parts(T), NEW last \in Seq(T), NEW c \in T
    PROVE  LET parts == Append(front, last)
           IN  [parts EXCEPT ![Len(parts)] = Append(@, c)] = Append(front, Append(last, c))
<1> DEFINE longer == Append(last, c)
           parts == Append(front, last)
           n == Len(front)
<1>1. front \in Seq(Seq(T)) /\ longer \in Seq(T) /\ n \in Nat
  BY DEF Parts
<1>2. parts \in Seq(Seq(T)) /\ Len(parts) = n + 1 /\ parts[n + 1] = last
  BY <1>1
<1>3. [parts EXCEPT ![Len(parts)] = Append(@, c)] = [parts EXCEPT ![n + 1] = longer]
  <2> HIDE DEF parts
  <2> QED BY <1>1, <1>2
<1> HIDE DEF longer
<1>4. [parts EXCEPT ![n + 1] = longer] = Append(front, longer)
  BY <1>1, LastReplaced
<1> QED BY <1>3, <1>4 DEF longer

\* Inside an element: Token and the division at semicolons.
LEMMA TokenTracks ==
    ASSUME NEW T, NEW p \in ReaderType(T), NEW parts \in Parts(T), NEW values \in Seq(Elements(T)),
           Tracks(p, parts, values, T), NEW c \in T, c \notin {Space, Comma}
    PROVE  Tracks(Token(p, c), Divided(parts, c, Semicolon), values, T)
<1> DEFINE q == Token(p, c)
           more == Divided(parts, c, Semicolon)
<1>1. CASE c = Semicolon
  <2>1. q = [p EXCEPT !.values = Ended(p), !.acc = <<>>, !.mode = "KEY"]
    BY <1>1, SeparatorsDiffer, Zenon DEF Token
  <2>2. q.values = Ended(p) /\ q.acc = <<>> /\ q.mode = "KEY"
    BY <2>1 DEF ReaderType
  <2>3. more = Append(parts, <<>>)
    BY <1>1, SeparatorsDiffer, Zenon DEF Divided
  <2>4. Ended(p) = Append(values, ElementOf(parts))
    BY EndedIs
  <2>5. <<>> \in Seq(T) /\ ~HasEquals(<<>>)
    BY DEF HasEquals
  <2> HIDE DEF q, more
  <2>6. InParams(q, more, values, T)
    BY <2>2, <2>3, <2>4, <2>5 DEF InParams
  <2>7. q.mode # "NAME"
    BY <2>2
  <2>8. Tracks(q, more, values, T)
    BY <2>6, <2>7 DEF Tracks
  <2> QED BY <2>8 DEF q, more
<1>2. CASE c # Semicolon
  <2>1. more = [parts EXCEPT ![Len(parts)] = Append(@, c)]
    BY <1>2, Zenon DEF Divided
  <2>2. q = IF c = Equals /\ p.mode = "KEY" THEN [p EXCEPT !.key = p.acc, !.acc = <<>>, !.mode = "VAL"]
            ELSE [p EXCEPT !.acc = Append(@, c)]
    BY <1>2, Zenon DEF Token
  <2>3. CASE p.mode = "NAME"
    <3>1. Len(parts) = 1 /\ p.acc = parts[1] /\ p.values = values
      BY <2>3 DEF Tracks
    <3>2. q.mode = "NAME" /\ q.acc = Append(p.acc, c) /\ q.values = p.values
      BY <2>2, <2>3 DEF ReaderType
    <3>3. Len(more) = 1 /\ more[1] = Append(parts[1], c)
      <4>1. parts \in Seq(Seq(T)) /\ DOMAIN parts = 1 .. 1 /\ parts[1] \in Seq(T)
        BY <3>1 DEF Parts
      <4>2. more \in Seq(Seq(T)) /\ DOMAIN more = 1 .. 1
        BY <2>1, <3>1, <4>1, DividedType DEF Parts
      <4>3. more[1] = Append(parts[1], c)
        BY <2>1, <3>1, <4>1
      <4>4. Len(more) = 1
        BY <4>2
      <4> QED BY <4>3, <4>4
    <3> HIDE DEF q, more
    <3>4. Tracks(q, more, values, T)
      BY <3>1, <3>2, <3>3 DEF Tracks
    <3> QED BY <3>4 DEF q, more
  <2>4. CASE p.mode # "NAME"
    <3>1. PICK front \in Parts(T), last \in Seq(T) :
          /\ parts = Append(front, last)
          /\ p.values = Append(values, ElementOf(front))
          /\ p.mode = "KEY" => p.acc = last /\ ~HasEquals(last)
          /\ p.mode = "VAL" => HasEquals(last) /\ p.key = SplitParam(last).key /\ p.acc = SplitParam(last).value
      BY <2>4 DEF Tracks, InParams
    <3> DEFINE longer == Append(last, c)
    <3>2. more = Append(front, longer)
      BY <2>1, <3>1, LastGrows
    <3>3. longer \in Seq(T)
      OBVIOUS
    <3>4. q.values = p.values /\ q.mode # "NAME"
      BY <2>2, <2>4 DEF ReaderType
    <3>5. /\ q.mode = "KEY" => q.acc = longer /\ ~HasEquals(longer)
          /\ q.mode = "VAL" => HasEquals(longer) /\ q.key = SplitParam(longer).key /\ q.acc = SplitParam(longer).value
      <4>1. CASE p.mode = "KEY" /\ c = Equals
        <5>1. q.mode = "VAL" /\ q.key = last /\ q.acc = <<>>
          BY <2>2, <3>1, <4>1 DEF ReaderType
        <5>2. HasEquals(longer) /\ SplitParam(longer) = [key |-> last, value |-> <<>>]
          <6>1. Equals \in T /\ ~HasEquals(last) /\ longer = Append(last, Equals)
            BY <3>1, <4>1
          <6> HIDE DEF longer
          <6> QED BY <6>1, SplitAtNew
        <5> HIDE DEF longer
        <5> QED BY <5>1, <5>2
      <4>2. CASE p.mode = "KEY" /\ c # Equals
        <5>1. q.mode = "KEY" /\ q.acc = longer
          BY <2>2, <3>1, <4>2 DEF ReaderType
        <5>2. ~HasEquals(longer)
          BY <3>1, <4>2, StillNoEquals
        <5> QED BY <5>1, <5>2
      <4>3. CASE p.mode # "KEY"
        <5>1. p.mode = "VAL"
          BY <2>4, <4>3 DEF ReaderType
        <5>2. q.mode = "VAL" /\ q.key = p.key /\ q.acc = Append(p.acc, c)
          BY <2>2, <5>1 DEF ReaderType
        <5>3. HasEquals(last) /\ p.key = SplitParam(last).key /\ p.acc = SplitParam(last).value
          BY <3>1, <5>1
        <5>4. HasEquals(longer)
          BY <5>3, SplitGrows
        <5>5. SplitParam(longer) = [key |-> SplitParam(last).key, value |-> Append(SplitParam(last).value, c)]
          BY <5>3, SplitGrows
        <5> HIDE DEF longer
        <5> QED BY <5>2, <5>3, <5>4, <5>5
      <4> QED BY <4>1, <4>2, <4>3
    <3> HIDE DEF q, more, longer
    <3>6. InParams(q, more, values, T)
      BY <3>1, <3>2, <3>3, <3>4, <3>5 DEF InParams
    <3>7. Tracks(q, more, values, T)
      BY <3>4, <3>6 DEF Tracks
    <3> QED BY <3>7 DEF q, more
  <2> QED BY <2>3, <2>4
<1> QED BY <1>1, <1>2

\* The values before a header, and the elements of it that are done.
Before(values, h) == values \o Done(h)

\* Append on the right of a concatenation.
LEMMA JoinedAppend ==
    ASSUME NEW S, NEW a \in Seq(S), NEW b \in Seq(S), NEW e \in S
    PROVE  a \o Append(b, e) = Append(a \o b, e)
OBVIOUS

\* Token keeps step with the grammar.
LEMMA StepTracks ==
    ASSUME NEW T, NEW values \in Seq(Elements(T)), NEW h \in Seq(T), NEW c \in T, NEW p \in ReaderType(T),
           Tracks(p, Current(h), Before(values, h), T)
    PROVE  Tracks(Token(p, c), Current(Append(h, c)), Before(values, Append(h, c)), T)
<1> DEFINE more == Append(h, c)
           q == Token(p, c)
           parts == Current(h)
           e == ElementOf(parts)
<1>1. /\ Done(h) \in Seq(Elements(T)) /\ parts \in Parts(T) /\ e \in Elements(T)
      /\ Meaning(h) = Append(Done(h), e)
  BY DoneType
<1>2. Before(values, h) \in Seq(Elements(T))
  BY <1>1 DEF Before
<1>3. CASE c = Space
  <2>1. q = p
    BY <1>3, Zenon DEF Token
  <2>2. Done(more) = Done(h) /\ Current(more) = parts
    BY <1>3, Moves
  <2> QED BY <2>1, <2>2 DEF Before
<1>4. CASE c = Comma
  <2>1. q = [p EXCEPT !.values = Ended(p), !.acc = <<>>, !.mode = "NAME"]
    BY <1>4, SeparatorsDiffer, Zenon DEF Token
  <2>2. q.values = Ended(p) /\ q.acc = <<>> /\ q.mode = "NAME"
    BY <2>1 DEF ReaderType
  <2>3. Done(more) = Meaning(h) /\ Current(more) = <<<<>>>>
    BY <1>4, Moves
  <2> HIDE DEF e, parts
  <2>4. Before(values, more) = Append(Before(values, h), e)
    BY <1>1, <2>3, JoinedAppend DEF Before
  <2>5. Ended(p) = Append(Before(values, h), e)
    BY <1>1, <1>2, EndedIs DEF e, parts
  <2>6. Len(<<<<>>>>) = 1 /\ <<<<>>>>[1] = <<>>
    OBVIOUS
  <2> HIDE DEF q, more
  <2>7. Tracks(q, Current(more), Before(values, more), T)
    BY <2>2, <2>3, <2>4, <2>5, <2>6 DEF Tracks
  <2> QED BY <2>7 DEF q, more
<1>5. CASE c \notin {Space, Comma}
  <2>1. Done(more) = Done(h) /\ Current(more) = Divided(parts, c, Semicolon)
    BY <1>5, Moves
  <2>2. Before(values, more) = Before(values, h)
    BY <2>1 DEF Before
  <2> HIDE DEF parts, e
  <2>3. Tracks(q, Divided(parts, c, Semicolon), Before(values, h), T)
    BY <1>1, <1>2, <1>5, TokenTracks DEF parts
  <2> QED BY <2>1, <2>2, <2>3
<1> QED BY <1>3, <1>4, <1>5

\* parse_header_value: what the header means is added to the values. (A token is taken to fit
\* into accstr, which the code fills without a look at its bounds.)
THEOREM HeaderParsed ==
    ASSUME NEW T, NEW values \in Seq(Elements(T)), NEW header \in Seq(T)
    PROVE  /\ ParseHeaderValue(header, values) = values \o Meaning(header)
           /\ Meaning(header) \in Seq(Elements(T))
<1> DEFINE Reader(h) == Reading!Fold(Begun(values), h)
           S == {h \in Seq(T) : Tracks(Reader(h), Current(h), Before(values, h), T)}
<1>1. Begun(values) \in ReaderType(T) /\ Reading!Goes(ReaderType(T), T)
  BY BegunType, ReadingGoes
<1>2. <<>> \in S
  <2>1. Reader(<<>>) = Begun(values)
    BY <1>1, Reading!FoldNone
  <2>2. Split(<<>>, Comma) = <<<<>>>> /\ Split(<<>>, Semicolon) = <<<<>>>>
    BY SplitLaws
  <2>3. Len(<<<<>>>>) = 1 /\ <<<<>>>>[1] = <<>> /\ Last(<<<<>>>>) = <<>>
    BY DEF Last
  <2>4. Current(<<>>) = <<<<>>>>
    BY <2>2, <2>3 DEF Current
  <2>5. Before(values, <<>>) = values
    <3>1. Done(<<>>) \in Seq(Elements(T)) /\ Len(Done(<<>>)) = 0
      <4>1. <<>> \in Seq(T)
        OBVIOUS
      <4>2. Done(<<>>) \in Seq(Elements(T)) /\ Len(Done(<<>>)) = Len(Split(<<>>, Comma)) - 1
        BY <4>1, DoneType
      <4> QED BY <2>2, <2>3, <4>2
    <3>2. Done(<<>>) = <<>>
      BY <3>1
    <3> QED BY <3>2 DEF Before
  <2>6. Tracks(Begun(values), <<<<>>>>, values, T)
    BY <2>3 DEF Tracks, Begun
  <2> QED BY <2>1, <2>4, <2>5, <2>6
<1>3. ASSUME NEW h \in Seq(T), NEW c \in T, h \in S PROVE Append(h, c) \in S
  <2>1. Reader(h) \in ReaderType(T)
    BY <1>1, Reading!FoldType
  <2>2. Reader(Append(h, c)) = Token(Reader(h), c)
    BY <1>1, Reading!FoldGoesOn
  <2>3. Tracks(Reader(h), Current(h), Before(values, h), T)
    BY <1>3
  <2> HIDE DEF Reader
  <2>4. Tracks(Token(Reader(h), c), Current(Append(h, c)), Before(values, Append(h, c)), T)
    BY <2>1, <2>3, StepTracks
  <2>5. Append(h, c) \in Seq(T)
    OBVIOUS
  <2> QED BY <2>2, <2>4, <2>5
<1>4. header \in S
  <2> HIDE DEF S
  <2>1. \A h \in Seq(T), c \in T : h \in S => Append(h, c) \in S
    BY <1>3
  <2>2. Seq(T) \subseteq S
    BY <1>2, <2>1, SequenceInduction
  <2> QED BY <2>2
<1>5. Reader(header) \in ReaderType(T)
  BY <1>1, Reading!FoldType
<1>6. ParseHeaderValue(header, values) = Ended(Reader(header))
  BY ParseIs
<1> HIDE DEF Reader
<1> DEFINE parts == Current(header)
           e == ElementOf(parts)
<1>7. /\ Done(header) \in Seq(Elements(T)) /\ parts \in Parts(T) /\ e \in Elements(T)
      /\ Meaning(header) = Append(Done(header), e)
  BY DoneType
<1>8. Tracks(Reader(header), parts, Before(values, header), T)
  BY <1>4
<1> HIDE DEF S, parts
<1>9. Before(values, header) \in Seq(Elements(T))
  BY <1>7 DEF Before
<1>10. Ended(Reader(header)) = Append(Before(values, header), e)
  BY <1>5, <1>7, <1>8, <1>9, EndedIs
<1> HIDE DEF e
<1>11. values \o Append(Done(header), e) = Append(Before(values, header), e)
  BY <1>7, JoinedAppend DEF Before
<1>12. Append(Done(header), e) \in Seq(Elements(T))
  BY <1>7
<1> QED BY <1>6, <1>7, <1>10, <1>11, <1>12

-------------------------------------------------------------------------------
(* Sequences one after the other. *)

Joined(a, b) == a \o b
Joining == INSTANCE FoldLaws WITH Op <- Joined

\* The function FlattenSeq is defined by.
Flattens(f, s) == f = [i \in 1 .. Len(s) |-> IF i = 1 THEN s[i] ELSE f[i - 1] \o s[i]]

\* FlattenSeq is a fold ...
LEMMA FlattenIs ==
    ASSUME NEW A, NEW s \in Seq(Seq(A))
    PROVE  /\ FlattenSeq(s) = Joining!Fold(<<>>, s)
           /\ Joining!Goes(Seq(A), Seq(A)) /\ <<>> \in Seq(A)
<1> DEFINE n == Len(s)
<1>1. Joining!Goes(Seq(A), Seq(A)) /\ <<>> \in Seq(A)
  BY DEF Joining!Goes, Joined
<1>2. PICK f : Joining!Steps(f, <<>>, s, Seq(A)) /\ Joining!Fold(<<>>, s) = f[n]
  BY <1>1, Joining!FoldSteps
<1>3. f[0] = <<>> /\ (\A i \in 1 .. n : f[i] = f[i - 1] \o s[i]) /\ n \in Nat /\ \A i \in 1 .. n : s[i] \in Seq(A)
  BY <1>2 DEF Joining!Steps, Joined
<1>4. CASE n = 0
  <2>1. FlattenSeq(s) = <<>>
    BY <1>4 DEF FlattenSeq
  <2> QED BY <1>1, <1>2, <1>3, <1>4, <2>1
<1>5. CASE n # 0
  <2> DEFINE g == CHOOSE t : Flattens(t, s)
  <2>1. FlattenSeq(s) = g[n]
    BY <1>5, Zenon DEF FlattenSeq, Flattens
  <2>2. \A i \in 1 .. n : f[i] = IF i = 1 THEN s[i] ELSE f[i - 1] \o s[i]
    <3>1. ASSUME NEW i \in 1 .. n, i = 1 PROVE f[i] = s[i]
      <4>1. i - 1 = 0 /\ s[i] \in Seq(A)
        BY <1>3, <3>1
      <4>2. f[i] = <<>> \o s[i]
        BY <1>3, <4>1
      <4>3. <<>> \o s[i] = s[i]
        BY <4>1
      <4> QED BY <4>2, <4>3
    <3> QED BY <1>3, <3>1
  <2>3. \E t : Flattens(t, s)
    <3> DEFINE t == [i \in 1 .. n |-> f[i]]
    <3>1. \A i \in 1 .. n : i # 1 => i - 1 \in 1 .. n
      BY <1>3
    <3>2. \A i \in 1 .. n : t[i] = IF i = 1 THEN s[i] ELSE t[i - 1] \o s[i]
      BY <2>2, <3>1
    <3>3. Flattens(t, s)
      BY <3>2 DEF Flattens
    <3> QED BY <3>3
  <2>4. Flattens(g, s)
    BY <2>3
  <2> HIDE DEF g
  <2>5. \A i \in 1 .. n : g[i] = IF i = 1 THEN s[i] ELSE g[i - 1] \o s[i]
    BY <2>4 DEF Flattens
  <2> DEFINE h == [i \in 0 .. n |-> IF i = 0 THEN <<>> ELSE g[i]]
  <2>6. h[0] = f[0]
    BY <1>3
  <2>7. ASSUME NEW i \in 1 .. n, h[i - 1] = f[i - 1] PROVE h[i] = f[i]
    <3>1. h[i] = g[i]
      BY <1>3
    <3>2. i # 1 => h[i - 1] = g[i - 1]
      BY <1>3
    <3> HIDE DEF h
    <3> QED BY <2>2, <2>5, <2>7, <3>1, <3>2
  <2>8. h[n] = g[n] /\ n \in 0 .. n
    BY <1>3, <1>5
  <2> HIDE DEF h
  <2>9. InStep(h, f, n)
    BY <2>6, <2>7 DEF InStep
  <2>10. h[n] = f[n]
    BY <1>3, <2>8, <2>9, RecursionUnique
  <2> QED BY <1>1, <1>2, <2>1, <2>8, <2>10
<1> QED BY <1>4, <1>5

\* ... and so it goes sequence by sequence.
LEMMA FlattenLaws ==
    ASSUME NEW A
    PROVE  /\ FlattenSeq(<<>>) = <<>>
           /\ \A s \in Seq(Seq(A)) : FlattenSeq(s) \in Seq(A)
           /\ \A s \in Seq(Seq(A)), t \in Seq(A) : FlattenSeq(Append(s, t)) = FlattenSeq(s) \o t
<1>1. FlattenSeq(<<>>) = <<>>
  BY DEF FlattenSeq
<1>2. Joining!Goes(Seq(A), Seq(A)) /\ <<>> \in Seq(A)
  BY DEF Joining!Goes, Joined
<1>3. ASSUME NEW s \in Seq(Seq(A)) PROVE FlattenSeq(s) \in Seq(A)
  BY <1>2, FlattenIs, Joining!FoldType
<1>4. ASSUME NEW s \in Seq(Seq(A)), NEW t \in Seq(A)
      PROVE  FlattenSeq(Append(s, t)) = FlattenSeq(s) \o t
  <2>1. Append(s, t) \in Seq(Seq(A))
    OBVIOUS
  <2>2. Joining!Fold(<<>>, Append(s, t)) = Joined(Joining!Fold(<<>>, s), t)
    <3> DEFINE V == Seq(A)
    <3>1. Joining!Goes(V, V) /\ <<>> \in V /\ s \in Seq(V) /\ t \in V
      BY <1>2
    <3> HIDE DEF V
    <3> QED BY <3>1, Joining!FoldGoesOn
  <2>3. FlattenSeq(Append(s, t)) = Joining!Fold(<<>>, Append(s, t)) /\ FlattenSeq(s) = Joining!Fold(<<>>, s)
    BY <2>1, FlattenIs
  <2> QED BY <2>2, <2>3 DEF Joined
<1> QED BY <1>1, <1>3, <1>4

-------------------------------------------------------------------------------
(* All headers of a message. *)

Reads(values, h) == ParseHeaderValue(h, values)
ReadingAll == INSTANCE FoldLaws WITH Op <- Reads

Meanings(headers) == [i \in DOMAIN headers |-> Meaning(headers[i])]

\* process_headers: the extensions are what the headers mean, one after the other.
LEMMA ExtensionsAre ==
    ASSUME NEW T, NEW headers \in Seq(Seq(T))
    PROVE  Extensions(headers) = FlattenSeq(Meanings(headers)) /\ Extensions(headers) \in Seq(Elements(T))
<1> DEFINE V == Seq(Elements(T))
           All(hs) == ReadingAll!Fold(<<>>, hs)
           S == {hs \in Seq(Seq(T)) : Meanings(hs) \in Seq(V) /\ All(hs) = FlattenSeq(Meanings(hs))}
<1>1. ReadingAll!Goes(V, Seq(T)) /\ <<>> \in V
  <2>1. ASSUME NEW values \in V, NEW h \in Seq(T) PROVE Reads(values, h) \in V
    <3>1. Reads(values, h) = values \o Meaning(h) /\ Meaning(h) \in V
      BY HeaderParsed DEF Reads
    <3> QED BY <3>1
  <2> HIDE DEF V
  <2>2. ReadingAll!Goes(V, Seq(T))
    BY <2>1 DEF ReadingAll!Goes
  <2> QED BY <2>2 DEF V
<1> HIDE DEF V
<1>2. <<>> \in S
  <2>1. Meanings(<<>>) = <<>>
    BY DEF Meanings
  <2>2. All(<<>>) = <<>>
    BY <1>1, ReadingAll!FoldNone
  <2>3. FlattenSeq(<<>>) = <<>>
    BY FlattenLaws
  <2>4. <<>> \in Seq(Seq(T)) /\ <<>> \in Seq(V)
    OBVIOUS
  <2>5. Meanings(<<>>) \in Seq(V) /\ All(<<>>) = FlattenSeq(Meanings(<<>>))
    BY <2>1, <2>2, <2>3, <2>4, Zenon
  <2> HIDE DEF All
  <2> QED BY <2>4, <2>5
<1>3. ASSUME NEW hs \in Seq(Seq(T)), NEW h \in Seq(T), hs \in S PROVE Append(hs, h) \in S
  <2>1. Append(hs, h) \in Seq(Seq(T))
    OBVIOUS
  <2>2. All(hs) \in V
    BY <1>1, ReadingAll!FoldType
  <2>3. All(Append(hs, h)) = Reads(All(hs), h)
    BY <1>1, ReadingAll!FoldGoesOn
  <2>4. Reads(All(hs), h) = All(hs) \o Meaning(h) /\ Meaning(h) \in V
    BY <2>2, HeaderParsed DEF Reads, V
  <2>5. Meanings(hs) \in Seq(V) /\ All(hs) = FlattenSeq(Meanings(hs))
    BY <1>3
  <2> HIDE DEF All
  <2>6. Meanings(Append(hs, h)) = Append(Meanings(hs), Meaning(h)) /\ Append(Meanings(hs), Meaning(h)) \in Seq(V)
    BY <2>4, <2>5 DEF Meanings
  <2>7. FlattenSeq(Append(Meanings(hs), Meaning(h))) = FlattenSeq(Meanings(hs)) \o Meaning(h)
    BY <2>4, <2>5, FlattenLaws DEF V
  <2> QED BY <2>1, <2>3, <2>4, <2>5, <2>6, <2>7
<1>4. headers \in S
  <2> HIDE DEF S
  <2>1. \A hs \in Seq(Seq(T)), h \in Seq(T) : hs \in S => Append(hs, h) \in S
    BY <1>3
  <2>2. Seq(Seq(T)) \subseteq S
    BY <1>2, <2>1, SequenceInduction
  <2> QED BY <2>2
<1>5. All(headers) \in V
  BY <1>1, ReadingAll!FoldType
<1>6. Extensions(headers) = All(headers)
  BY DEF Extensions, FoldOnce, ReadingAll!Fold, Reads
<1> QED BY <1>4, <1>5, <1>6 DEF V

-------------------------------------------------------------------------------
(* What the library writes. *)

\* Elements a program can build, over the words W.
Written(W) == {e \in Elements(W) : IsFiniteSet(DOMAIN e.params)}

\* The two ways to say it.
LEMMA WrittenIs ==
    ASSUME NEW W, NEW e, IsElement(e, W)
    PROVE  e \in Written(W)
<1>1. /\ e = [name |-> e.name, params |-> e.params] /\ e.name \in Seq(W)
      /\ DOMAIN e.params \in SUBSET Seq(W) /\ IsFiniteSet(DOMAIN e.params)
      /\ e.params \in [DOMAIN e.params -> Seq(W)]
  BY Zenon DEF IsElement, Element
<1>2. e.params \in Params(W)
  BY <1>1 DEF Params
<1>3. e \in Elements(W)
  BY <1>1, <1>2 DEF Elements
<1> QED BY <1>1, <1>3 DEF Written

\* A finite set in some order.
LEMMA SetToSeqIs ==
    ASSUME NEW S, IsFiniteSet(S)
    PROVE  /\ SetToSeq(S) \in Seq(S)
           /\ \A x \in S : \E i \in DOMAIN SetToSeq(S) : SetToSeq(S)[i] = x
<1> DEFINE n == Cardinality(S)
           f == CHOOSE g \in [1 .. n -> S] : IsInjective(g)
<1>1. n \in Nat /\ \E g \in [1 .. n -> S] : IsInjective(g)
  <2>1. n \in Nat /\ ExistsBijection(1 .. n, S)
    BY FS_CardinalityType
  <2> QED BY <2>1 DEF ExistsBijection, Bijection, Injection
<1>2. f \in [1 .. n -> S] /\ IsInjective(f)
  BY <1>1
<1>3. SetToSeq(S) = f
  BY Zenon DEF SetToSeq
<1>4. Cardinality(1 .. n) = n
  <2>1. 1 \in Int /\ n \in Int
    BY <1>1
  <2>2. Cardinality(1 .. n) = IF 1 > n THEN 0 ELSE n - 1 + 1
    BY <2>1, FS_Interval
  <2> QED BY <1>1, <2>2
<1> HIDE DEF f
<1>5. f \in Surjection(1 .. n, S)
  <2>1. f \in Injection(1 .. n, S)
    BY <1>2 DEF Injection
  <2>2. Cardinality(1 .. n) = Cardinality(S) <=> f \in Surjection(1 .. n, S)
    BY <2>1, FS_Injection
  <2> QED BY <1>4, <2>2
<1>6. f \in Seq(S)
  BY <1>1, <1>2
<1> QED BY <1>3, <1>5, <1>6 DEF Surjection

\* The separators and '=' are words.
LEMMA WordsAre ==
    /\ Space \in Words /\ Comma \in Words /\ Semicolon \in Words /\ Equals \in Words
    /\ "permessage-deflate" \in Words
    /\ {ServerNoTakeover, ClientNoTakeover, ServerWindow, ClientWindow} \subseteq Words
BY WordsAssumption, Zenon DEF Separators

Writing(keys, params) == [i \in DOMAIN keys |-> CompileParam(keys[i], params[keys[i]])]

\* What is written are words: of a parameter ...
LEMMA CompileParamType ==
    ASSUME NEW key \in Seq(Words), NEW value \in Seq(Words)
    PROVE  CompileParam(key, value) \in Seq(Words)
<1>1. <<Semicolon, Space>> \in Seq(Words) /\ <<Equals>> \in Seq(Words) /\ <<>> \in Seq(Words)
  BY WordsAre
<1>2. <<Equals>> \o value \in Seq(Words)
  BY <1>1
<1>3. (IF value = <<>> THEN <<>> ELSE <<Equals>> \o value) \in Seq(Words)
  BY <1>1, <1>2, Zenon
<1> DEFINE rest == IF value = <<>> THEN <<>> ELSE <<Equals>> \o value
           sep == <<Semicolon, Space>>
<1>4. CompileParam(key, value) = sep \o key \o rest
  BY Zenon DEF CompileParam
<1> HIDE DEF rest, sep
<1> QED BY <1>1, <1>3, <1>4 DEF rest, sep

\* ... of the parameters ...
LEMMA WritingType ==
    ASSUME NEW e \in Written(Words), NEW keys \in Seq(DOMAIN e.params)
    PROVE  Writing(keys, e.params) \in Seq(Seq(Words)) /\ FlattenSeq(Writing(keys, e.params)) \in Seq(Words)
<1>1. e.params \in Params(Words)
  BY DEF Written, Elements
<1>2. PICK K \in SUBSET Seq(Words) : e.params \in [K -> Seq(Words)]
  BY <1>1 DEF Params
<1>3. ASSUME NEW i \in 1 .. Len(keys) PROVE CompileParam(keys[i], e.params[keys[i]]) \in Seq(Words)
  <2>1. keys[i] \in K
    BY <1>2
  <2>2. keys[i] \in Seq(Words) /\ e.params[keys[i]] \in Seq(Words)
    BY <1>2, <2>1
  <2> QED BY <2>2, CompileParamType
<1>4. DOMAIN keys = 1 .. Len(keys) /\ Len(keys) \in Nat
  OBVIOUS
<1>5. Writing(keys, e.params) = [i \in 1 .. Len(keys) |-> CompileParam(keys[i], e.params[keys[i]])]
  BY <1>4 DEF Writing
<1>6. Writing(keys, e.params) \in [1 .. Len(keys) -> Seq(Words)]
  BY <1>3, <1>5
<1>7. Writing(keys, e.params) \in Seq(Seq(Words))
  BY <1>4, <1>6
<1> QED BY <1>7, FlattenLaws

\* ... of an element ...
LEMMA CompileElementType ==
    ASSUME NEW e \in Written(Words)
    PROVE  CompileElement(e) \in Seq(Words)
<1> DEFINE keys == SetToSeq(DOMAIN e.params)
<1>1. keys \in Seq(DOMAIN e.params)
  BY SetToSeqIs DEF Written
<1>2. FlattenSeq(Writing(keys, e.params)) \in Seq(Words)
  BY <1>1, WritingType
<1>3. CompileElement(e) = e.name \o FlattenSeq(Writing(keys, e.params))
  BY Zenon DEF CompileElement, Writing
<1>4. e.name \in Seq(Words)
  BY DEF Written, Elements
<1> HIDE DEF keys
<1> QED BY <1>2, <1>3, <1>4

\* Elements one after the other, each with what follows it.
Closed(e) == CompileElement(e) \o <<Comma, Space>>
Closing(exts) == [i \in DOMAIN exts |-> Closed(exts[i])]

\* ... with what separates it from the next ...
LEMMA ClosedType ==
    ASSUME NEW e \in Written(Words)
    PROVE  Closed(e) \in Seq(Words)
<1>1. <<Comma, Space>> \in Seq(Words)
  BY WordsAre
<1> QED BY <1>1, CompileElementType DEF Closed

\* ... of many ...
LEMMA ClosingType ==
    ASSUME NEW exts \in Seq(Written(Words))
    PROVE  Closing(exts) \in Seq(Seq(Words)) /\ FlattenSeq(Closing(exts)) \in Seq(Words)
<1>1. \A i \in 1 .. Len(exts) : Closed(exts[i]) \in Seq(Words)
  BY ClosedType
<1>2. Closing(exts) \in Seq(Seq(Words))
  BY <1>1 DEF Closing
<1> QED BY <1>2, FlattenLaws

\* ... (after the last there is no separator) ...
LEMMA CompileIs ==
    ASSUME NEW front \in Seq(Written(Words)), NEW e \in Written(Words)
    PROVE  CompileHeaderValue(Append(front, e)) = FlattenSeq(Closing(front)) \o CompileElement(e)
<1> DEFINE exts == Append(front, e)
           text == FlattenSeq(Closing(exts))
           a == FlattenSeq(Closing(front))
           b == CompileElement(e)
           ab == a \o b
           sep == <<Comma, Space>>
           n == Len(ab)
<1>1. CompileHeaderValue(exts) = IF text = <<>> THEN <<>> ELSE SubSeq(text, 1, Len(text) - 2)
  BY Zenon DEF CompileHeaderValue, Closing, Closed
<1>2. Closing(exts) = Append(Closing(front), Closed(e))
  BY DEF Closing
<1>3. text = a \o Closed(e)
  BY <1>2, ClosingType, ClosedType, FlattenLaws
<1>4. a \in Seq(Words) /\ b \in Seq(Words) /\ sep \in Seq(Words) /\ Len(sep) = 2
  BY WordsAre, ClosingType, CompileElementType
<1>5. Closed(e) = b \o sep
  BY DEF Closed
<1> HIDE DEF text, a, b, sep, exts
<1>6. text = ab \o sep
  <2>1. (a \o b) \o sep = a \o (b \o sep)
    BY <1>4, ConcatAssociative
  <2> QED BY <1>3, <1>5, <2>1
<1>7. ab \in Seq(Words) /\ n \in Nat
  BY <1>4
<1> HIDE DEF ab
<1>8. text \in Seq(Words) /\ Len(text) = n + 2 /\ SubSeq(text, 1, n) = ab
  <2>1. text \in Seq(Words) /\ Len(text) = n + 2 /\ \A i \in 1 .. n : text[i] = ab[i]
    <3>1. /\ text \in Seq(Words) /\ Len(text) = Len(ab) + Len(sep)
          /\ \A i \in 1 .. Len(ab) + Len(sep) : text[i] = IF i <= Len(ab) THEN ab[i] ELSE sep[i - Len(ab)]
      BY <1>4, <1>6, <1>7, ConcatProperties
    <3> QED BY <1>4, <1>7, <3>1
  <2>2. SubSeq(text, 1, n) \in Seq(Words) /\ Len(SubSeq(text, 1, n)) = n
        /\ \A i \in 1 .. n : SubSeq(text, 1, n)[i] = text[i]
    BY <1>7, <2>1
  <2>3. \A i \in 1 .. n : SubSeq(text, 1, n)[i] = ab[i]
    BY <2>1, <2>2
  <2>4. SubSeq(text, 1, n) = ab
    BY <1>7, <2>2, <2>3, SeqEqual
  <2> QED BY <2>1, <2>4
<1>9. text # <<>> /\ Len(text) - 2 = n
  BY <1>7, <1>8
<1> QED BY <1>1, <1>8, <1>9 DEF ab, a, b, exts

\* ... and of all headers.
LEMMA HeadersType ==
    ASSUME NEW exts \in Seq(Written(Words))
    PROVE  Headers(exts) \in Seq(Seq(Words))
<1>1. CASE exts = <<>>
  BY <1>1 DEF Headers
<1>2. CASE exts # <<>>
  <2> DEFINE n == Len(exts)
             front == SubSeq(exts, 1, n - 1)
  <2>1. front \in Seq(Written(Words)) /\ exts[n] \in Written(Words) /\ exts = Append(front, exts[n])
    BY <1>2
  <2>2. FlattenSeq(Closing(front)) \in Seq(Words) /\ CompileElement(exts[n]) \in Seq(Words)
    BY <2>1, ClosingType, CompileElementType
  <2> HIDE DEF front, n
  <2>3. CompileHeaderValue(exts) = FlattenSeq(Closing(front)) \o CompileElement(exts[n])
    BY <2>1, CompileIs
  <2>4. CompileHeaderValue(exts) \in Seq(Words)
    BY <2>2, <2>3
  <2> HIDE DEF n
  <2> QED BY <1>2, <2>4 DEF Headers
<1> QED BY <1>1, <1>2

-------------------------------------------------------------------------------
(* Reading what was written. *)

\* Words that mean nothing to the parser, and elements made of them: no '=' in a key.
Plain == Words \ Separators
Readable(e) ==
    /\ e \in Written(Words) /\ e.name \in Seq(Plain)
    /\ \A k \in DOMAIN e.params : k \in Seq(Plain \ {Equals}) /\ e.params[k] \in Seq(Plain)

Read(p, h) == Reading!Fold(p, h)

\* Read goes on where it was.
LEMMA ReadLaws ==
    ASSUME NEW T, NEW p \in ReaderType(T)
    PROVE  /\ \A h \in Seq(T) : Read(p, h) \in ReaderType(T)
           /\ Read(p, <<>>) = p
           /\ \A h \in Seq(T), c \in T : Read(p, Append(h, c)) = Token(Read(p, h), c)
           /\ \A a \in Seq(T), b \in Seq(T) : Read(p, a \o b) = Read(Read(p, a), b)
<1>1. Reading!Goes(ReaderType(T), T)
  BY ReadingGoes
<1> DEFINE V == ReaderType(T)
<1> HIDE DEF V
<1>2. Reading!Goes(V, T) /\ p \in V
  BY <1>1 DEF V
<1>3. \A h \in Seq(T) : Read(p, h) \in V
  BY <1>2, Reading!FoldType DEF Read
<1>4. Read(p, <<>>) = p
  BY <1>2, Reading!FoldNone DEF Read
<1>5. \A h \in Seq(T), c \in T : Read(p, Append(h, c)) = Token(Read(p, h), c)
  BY <1>2, Reading!FoldGoesOn DEF Read
<1>6. \A a \in Seq(T), b \in Seq(T) : Read(p, a \o b) = Read(Read(p, a), b)
  BY <1>2, Reading!FoldJoined DEF Read
<1> QED BY <1>3, <1>4, <1>5, <1>6 DEF V

\* One token after another.
LEMMA ReadOne ==
    ASSUME NEW T, NEW p \in ReaderType(T), NEW c \in T
    PROVE  Read(p, <<c>>) = Token(p, c)
<1>1. Read(p, <<>>) = p /\ Read(p, Append(<<>>, c)) = Token(Read(p, <<>>), c)
  <2>1. <<>> \in Seq(T)
    OBVIOUS
  <2> QED BY <2>1, ReadLaws, ZenonT(30)
<1>2. Append(<<>>, c) = <<c>>
  OBVIOUS
<1> QED BY <1>1, <1>2

\* Two tokens.
LEMMA ReadTwo ==
    ASSUME NEW T, NEW p \in ReaderType(T), NEW c \in T, NEW d \in T
    PROVE  Read(p, <<c, d>>) = Token(Token(p, c), d)
<1>1. Read(p, Append(<<c>>, d)) = Token(Read(p, <<c>>), d)
  <2>1. <<c>> \in Seq(T)
    OBVIOUS
  <2> QED BY <2>1, ReadLaws, ZenonT(30)
<1>2. Append(<<c>>, d) = <<c, d>>
  <2> DEFINE a == <<c>>
             b == Append(a, d)
             s == <<c, d>>
  <2>1. a \in Seq(T) /\ Len(a) = 1 /\ a[1] = c
    OBVIOUS
  <2> HIDE DEF a
  <2>2. b \in Seq(T) /\ Len(b) = 1 + 1 /\ b[1 + 1] = d /\ b[1] = c
    <3>1. a \in Seq(T)
      BY <2>1
    <3>2. b \in Seq(T) /\ Len(b) = Len(a) + 1 /\ (\A i \in 1 .. Len(a) : b[i] = a[i]) /\ b[Len(a) + 1] = d
      BY <3>1, AppendProperties
    <3> HIDE DEF b
    <3> QED BY <2>1, <3>2
  <2>3. s \in Seq(T) /\ Len(s) = 2 /\ s[1] = c /\ s[2] = d
    OBVIOUS
  <2> HIDE DEF b, s
  <2>4. \A i \in 1 .. 2 : b[i] = s[i]
    BY <2>2, <2>3
  <2>5. b = s
    BY <2>2, <2>3, <2>4, SeqEqual
  <2> QED BY <2>5 DEF a, b, s
<1> QED BY <1>1, <1>2, ReadOne

\* Plain words are collected.
LEMMA ReadPlain ==
    ASSUME NEW p \in ReaderType(Words), NEW W \in SUBSET Plain, p.mode = "KEY" => Equals \notin W, NEW w \in Seq(W)
    PROVE  Read(p, w) = [p EXCEPT !.acc = p.acc \o w]
<1> DEFINE After(s) == [p EXCEPT !.acc = p.acc \o s]
           S == {s \in Seq(W) : Read(p, s) = After(s)}
<1>1. p.acc \in Seq(Words) /\ W \in SUBSET Words /\ \A s \in Seq(W) : s \in Seq(Words)
  BY SeqMonotonic DEF ReaderType, Plain
<1>2. <<>> \in S
  <2>1. Read(p, <<>>) = p
    BY ReadLaws
  <2>2. p.acc \o <<>> = p.acc
    BY <1>1
  <2>3. [p EXCEPT !.acc = p.acc] = p
    BY DEF ReaderType
  <2>4. Read(p, <<>>) = After(<<>>) /\ <<>> \in Seq(W)
    BY <2>1, <2>2, <2>3, Zenon, EmptySeq
  <2> HIDE DEF After
  <2> QED BY <2>4
<1>3. ASSUME NEW s \in Seq(W), NEW c \in W, s \in S PROVE Append(s, c) \in S
  <2> DEFINE q == After(s)
             acc == p.acc
  <2>1. Read(p, Append(s, c)) = Token(q, c)
    <3>1. s \in Seq(Words) /\ c \in Words
      BY <1>1
    <3>2. Read(p, Append(s, c)) = Token(Read(p, s), c)
      BY <3>1, ReadLaws
    <3> QED BY <1>3, <3>2
  <2>2. c \notin Separators /\ q.mode = p.mode /\ q.acc = p.acc \o s
    BY DEF Plain, ReaderType
  <2>3. ~(c = Equals /\ q.mode = "KEY")
    BY <2>2
  <2> HIDE DEF q
  <2>4. Token(q, c) = [q EXCEPT !.acc = Append(@, c)]
    BY <2>2, <2>3, Zenon DEF Token, Separators
  <2>5. Append(p.acc \o s, c) = p.acc \o Append(s, c)
    <3>1. acc \in Seq(Words) /\ s \in Seq(Words) /\ c \in Words
      BY <1>1
    <3> HIDE DEF acc
    <3>2. acc \o Append(s, c) = Append(acc \o s, c)
      BY <3>1, JoinedAppend
    <3> QED BY <3>2 DEF acc
  <2>6. [q EXCEPT !.acc = Append(@, c)] = [p EXCEPT !.acc = p.acc \o Append(s, c)]
    BY <2>2, <2>5 DEF q
  <2>7. Append(s, c) \in Seq(W)
    OBVIOUS
  <2> QED BY <2>1, <2>4, <2>6, <2>7
<1> HIDE DEF S
<1>4. \A s \in Seq(W), c \in W : s \in S => Append(s, c) \in S
  BY <1>3
<1>5. Seq(W) \subseteq S
  BY <1>2, <1>4, SequenceInduction
<1> QED BY <1>5 DEF S

\* A parameter becomes one of the last element, whatever was open before it.
LEMMA ReadParam ==
    ASSUME NEW p \in ReaderType(Words), NEW key \in Seq(Plain \ {Equals}), NEW value \in Seq(Plain)
    PROVE  /\ CompileParam(key, value) \in Seq(Words) /\ Read(p, CompileParam(key, value)) \in ReaderType(Words)
           /\ Ended(Read(p, CompileParam(key, value))) = WithParam(Ended(p), key, value)
<1> DEFINE V == ReaderType(Words)
           sep == <<Semicolon, Space>>
           a == Read(p, sep)
           b == Read(a, key)
           text == sep \o key
<1>1. key \in Seq(Words) /\ value \in Seq(Words) /\ sep \in Seq(Words) /\ <<Equals>> \in Seq(Words)
      /\ Plain \in SUBSET Words /\ Plain \ {Equals} \in SUBSET Plain
  BY SeqMonotonic, WordsAre DEF Plain
<1>2. CompileParam(key, value) \in Seq(Words) /\ Read(p, CompileParam(key, value)) \in V
  BY <1>1, CompileParamType, ReadLaws
<1>3. a = [p EXCEPT !.values = Ended(p), !.acc = <<>>, !.mode = "KEY"]
  <2>1. a = Token(Token(p, Semicolon), Space)
    BY WordsAre, ReadTwo
  <2>2. Token(p, Semicolon) = [p EXCEPT !.values = Ended(p), !.acc = <<>>, !.mode = "KEY"]
    BY SeparatorsDiffer, Zenon DEF Token
  <2>3. \A q : Token(q, Space) = q
    BY Zenon DEF Token
  <2> QED BY <2>1, <2>2, <2>3
<1>4. a \in V /\ a.mode = "KEY" /\ a.acc = <<>> /\ a.values = Ended(p)
  <2>1. a \in V
    BY <1>1, ReadLaws
  <2> QED BY <1>3, <2>1 DEF ReaderType
<1> HIDE DEF a, sep
<1>5. b = [a EXCEPT !.acc = a.acc \o key]
  <2>1. Equals \notin Plain \ {Equals}
    OBVIOUS
  <2> QED BY <1>1, <1>4, <2>1, ReadPlain
<1>6. b \in V /\ b.mode = "KEY" /\ b.acc = key /\ b.values = Ended(p)
  <2>1. b \in V
    BY <1>1, <1>4, ReadLaws
  <2>2. <<>> \o key = key
    BY <1>1
  <2> QED BY <1>4, <1>5, <2>1, <2>2 DEF ReaderType
<1> HIDE DEF b
<1>7. Read(p, text) = b /\ text \in Seq(Words)
  BY <1>1, ReadLaws DEF a, b
<1>8. CASE value = <<>>
  <2>1. CompileParam(key, value) = text \o <<>>
    BY <1>8, Zenon DEF CompileParam, sep
  <2> HIDE DEF text
  <2>2. text \o <<>> = text
    BY <1>7
  <2>3. Ended(b) = WithParam(Ended(p), key, <<>>)
    BY <1>6 DEF Ended
  <2> QED BY <1>2, <1>7, <1>8, <2>1, <2>2, <2>3
<1>9. CASE value # <<>>
  <2> DEFINE eq == <<Equals>>
             rest == eq \o value
             c == Read(b, eq)
             d == Read(c, value)
  <2>1. CompileParam(key, value) = text \o rest
    BY <1>9, Zenon DEF CompileParam, sep
  <2>2. c = [b EXCEPT !.key = b.acc, !.acc = <<>>, !.mode = "VAL"]
    <3>1. c = Token(b, Equals)
      BY <1>6, WordsAre, ReadOne
    <3> QED BY <1>6, <3>1, SeparatorsDiffer, Zenon DEF Token
  <2>3. c \in V /\ c.mode = "VAL" /\ c.acc = <<>> /\ c.key = key /\ c.values = Ended(p)
    <3>1. c \in V
      BY <1>1, <1>6, ReadLaws
    <3> QED BY <1>6, <2>2, <3>1 DEF ReaderType
  <2>4. rest \in Seq(Words) /\ Read(b, rest) = d
    <3>1. eq \in Seq(Words) /\ value \in Seq(Words) /\ b \in V
      BY <1>1, <1>6
    <3> HIDE DEF eq, V
    <3>2. Read(b, eq \o value) = Read(Read(b, eq), value)
      BY <3>1, ReadLaws DEF V
    <3> QED BY <3>1, <3>2
  <2> HIDE DEF c, rest, text
  <2>5. d = [c EXCEPT !.acc = c.acc \o value]
    BY <1>1, <2>3, ReadPlain
  <2>6. d.mode = "VAL" /\ d.acc = value /\ d.key = key /\ d.values = Ended(p)
    <3>1. <<>> \o value = value
      BY <1>1
    <3> QED BY <2>3, <2>5, <3>1 DEF ReaderType
  <2> HIDE DEF d
  <2>7. Read(p, text \o rest) = d
    BY <1>7, <2>4, ReadLaws
  <2>8. Ended(d) = WithParam(Ended(p), key, value)
    BY <2>6 DEF Ended
  <2> QED BY <1>2, <2>1, <2>7, <2>8
<1> QED BY <1>8, <1>9

\* The parameters with these keys.
Given(params, keys) == [k \in {keys[i] : i \in DOMAIN keys} |-> params[k]]

\* One key more.
LEMMA GivenMore ==
    ASSUME NEW K, NEW params, NEW keys \in Seq(K), NEW key \in K
    PROVE  Given(params, Append(keys, key)) = Emplace(Given(params, keys), key, params[key])
<1> DEFINE more == Append(keys, key)
           old == {keys[i] : i \in DOMAIN keys}
           new == {more[i] : i \in DOMAIN more}
<1>1. new = old \cup {key}
  <2>1. /\ DOMAIN keys = 1 .. Len(keys) /\ DOMAIN more = 1 .. Len(keys) + 1 /\ Len(keys) \in Nat
        /\ more[Len(keys) + 1] = key /\ \A i \in 1 .. Len(keys) : more[i] = keys[i]
    BY AppendProperties, LenProperties
  <2>2. Len(keys) + 1 \in DOMAIN more /\ \A i \in 1 .. Len(keys) : i \in DOMAIN more
    BY <2>1
  <2>3. \A i \in DOMAIN more : i = Len(keys) + 1 \/ i \in DOMAIN keys
    BY <2>1
  <2> HIDE DEF more
  <2> QED BY <2>1, <2>2, <2>3
<1>2. Given(params, keys) = [k \in old |-> params[k]] /\ Given(params, more) = [k \in new |-> params[k]]
  BY DEF Given
<1> HIDE DEF old, new, more
<1>3. Given(params, more) = Emplace(Given(params, keys), key, params[key])
  BY <1>1, <1>2 DEF Emplace
<1> QED BY <1>3 DEF more

\* An element that can be read is made of plain words.
LEMMA ElementMade ==
    ASSUME NEW e, Readable(e)
    PROVE  /\ e \in Elements(Words) /\ IsFiniteSet(DOMAIN e.params)
           /\ e.name \in Seq(Plain) /\ e.name \in Seq(Words)
           /\ e.params \in [DOMAIN e.params -> Seq(Plain)] /\ DOMAIN e.params \in SUBSET Seq(Plain \ {Equals})
           /\ DOMAIN e.params \in SUBSET Seq(Words) /\ \A k \in DOMAIN e.params : e.params[k] \in Seq(Words)
           /\ e = Element(e.name, e.params)
<1>1. /\ e \in Elements(Words) /\ IsFiniteSet(DOMAIN e.params) /\ e.name \in Seq(Plain)
      /\ \A k \in DOMAIN e.params : k \in Seq(Plain \ {Equals}) /\ e.params[k] \in Seq(Plain)
  BY DEF Readable, Written
<1>2. e.params \in Params(Words) /\ e.name \in Seq(Words) /\ e = Element(e.name, e.params)
  BY <1>1 DEF Elements, Element
<1>3. PICK K \in SUBSET Seq(Words) : e.params \in [K -> Seq(Words)]
  BY <1>2 DEF Params
<1>4. K = DOMAIN e.params /\ e.params = [k \in K |-> e.params[k]] /\ \A k \in K : e.params[k] \in Seq(Words)
  BY <1>3
<1>5. e.params \in [DOMAIN e.params -> Seq(Plain)] /\ DOMAIN e.params \in SUBSET Seq(Plain \ {Equals})
  BY <1>1, <1>4
<1> QED BY <1>1, <1>2, <1>3, <1>4, <1>5

\* The parameters of an element, one by one.
LEMMA ReadParams ==
    ASSUME NEW e, Readable(e), NEW p \in ReaderType(Words), NEW values \in Seq(Elements(Words)),
           Ended(p) = Append(values, Element(e.name, NoParams)), NEW keys \in Seq(DOMAIN e.params)
    PROVE  LET text == FlattenSeq(Writing(keys, e.params))
           IN  /\ text \in Seq(Words)
               /\ Ended(Read(p, text)) = Append(values, Element(e.name, Given(e.params, keys)))
<1> DEFINE K == DOMAIN e.params
           Text(ks) == FlattenSeq(Writing(ks, e.params))
           Made(ks) == Element(e.name, Given(e.params, ks))
           S == {ks \in Seq(K) : /\ Made(ks) \in Elements(Words)
                                 /\ Ended(Read(p, Text(ks))) = Append(values, Made(ks))}
<1>1. e \in Written(Words)
  BY DEF Readable
<1>2. \A ks \in Seq(K) : Writing(ks, e.params) \in Seq(Seq(Words)) /\ Text(ks) \in Seq(Words)
  BY <1>1, WritingType
<1>3. \A k \in K : /\ k \in Seq(Words) /\ e.params[k] \in Seq(Words)
                   /\ k \in Seq(Plain \ {Equals}) /\ e.params[k] \in Seq(Plain)
  BY ElementMade
<1>4. <<>> \in S
  <2>1. Writing(<<>>, e.params) = <<>> /\ <<>> \in Seq(K)
    BY DEF Writing
  <2>2. Text(<<>>) = <<>>
    BY <2>1, FlattenLaws
  <2>3. Given(e.params, <<>>) = NoParams
    BY DEF Given, NoParams
  <2>4. Made(<<>>) \in Elements(Words)
    BY <2>3, ElementMade, NoParamsType DEF Element, Elements
  <2>5. Ended(Read(p, Text(<<>>))) = Append(values, Made(<<>>))
    BY <2>2, <2>3, ReadLaws
  <2> HIDE DEF Text, Made
  <2> QED BY <2>1, <2>4, <2>5
<1>5. ASSUME NEW ks \in Seq(K), NEW k \in K, ks \in S PROVE Append(ks, k) \in S
  <2> DEFINE more == Append(ks, k)
             param == CompileParam(k, e.params[k])
             q == Read(p, Text(ks))
  <2>1. more \in Seq(K)
    OBVIOUS
  <2>2. Made(ks) \in Elements(Words) /\ Ended(q) = Append(values, Made(ks)) /\ Text(ks) \in Seq(Words)
        /\ Writing(ks, e.params) \in Seq(Seq(Words))
    BY <1>2, <1>5
  <2>3. Writing(more, e.params) = Append(Writing(ks, e.params), param)
    BY DEF Writing
  <2>4. param \in Seq(Words)
    BY <1>3, CompileParamType
  <2>5. Text(more) = Text(ks) \o param
    BY <2>2, <2>3, <2>4, FlattenLaws
  <2> HIDE DEF Text
  <2>6. q \in ReaderType(Words) /\ Read(p, Text(ks) \o param) = Read(q, param)
    BY <2>2, <2>4, ReadLaws
  <2> HIDE DEF q
  <2>7. Ended(Read(q, param)) = WithParam(Ended(q), k, e.params[k])
    BY <1>3, <2>6, ReadParam
  <2>8. [Made(ks) EXCEPT !.params = Emplace(@, k, e.params[k])] = Made(more)
    <3>1. Given(e.params, more) = Emplace(Given(e.params, ks), k, e.params[k])
      BY GivenMore
    <3> HIDE DEF more
    <3> QED BY <3>1 DEF Element
  <2> HIDE DEF more
  <2>9. Made(more) \in Elements(Words)
    <3>1. Emplace(Made(ks).params, k, e.params[k]) \in Params(Words)
      <4>1. Made(ks).params \in Params(Words)
        BY <2>2 DEF Elements
      <4> HIDE DEF Made
      <4> QED BY <1>3, <4>1, EmplaceType
    <3> HIDE DEF Made
    <3> QED BY <2>2, <2>8, <3>1 DEF Elements
  <2>10. WithParam(Append(values, Made(ks)), k, e.params[k]) = Append(values, Made(more))
    <3> HIDE DEF Made
    <3> QED BY <1>3, <2>2, <2>8, WithParamLast
  <2> HIDE DEF Made, param
  <2>11. Ended(Read(p, Text(more))) = Append(values, Made(more))
    BY <2>2, <2>5, <2>6, <2>7, <2>10
  <2>12. more \in S
    BY <2>1, <2>9, <2>11
  <2> QED BY <2>12 DEF more
<1> HIDE DEF S, K
<1>6. \A ks \in Seq(K), k \in K : ks \in S => Append(ks, k) \in S
  BY <1>5
<1>7. Seq(K) \subseteq S
  BY <1>4, <1>6, SequenceInduction
<1>8. keys \in S /\ keys \in Seq(K)
  BY <1>7 DEF K
<1> QED BY <1>2, <1>8 DEF S

\* The parser between two elements.
Ready(p, values) == p \in ReaderType(Words) /\ p.mode = "NAME" /\ p.acc = <<>> /\ p.values = values

\* An element: its name, then its parameters ...
LEMMA ReadElement ==
    ASSUME NEW e, Readable(e), NEW values \in Seq(Elements(Words)), NEW p, Ready(p, values)
    PROVE  Ended(Read(p, CompileElement(e))) = Append(values, e)
<1> DEFINE K == DOMAIN e.params
           keys == SetToSeq(K)
           text == FlattenSeq(Writing(keys, e.params))
           name == e.name
           a == Read(p, name)
<1>1. name \in Seq(Plain) /\ name \in Seq(Words) /\ IsFiniteSet(K)
  BY ElementMade
<1> DEFINE params == e.params
<1>11. params = [k \in K |-> params[k]] /\ e = Element(name, params)
  BY ElementMade
<1>2. keys \in Seq(K) /\ \A x \in K : \E i \in DOMAIN keys : keys[i] = x
  BY <1>1, SetToSeqIs
<1>3. CompileElement(e) = name \o text
  BY Zenon DEF CompileElement, Writing
<1>4. p \in ReaderType(Words) /\ p.mode = "NAME" /\ p.acc = <<>> /\ p.values = values
  BY DEF Ready
<1> HIDE DEF name, keys, K
<1>5. a = [p EXCEPT !.acc = name]
  <2>1. Plain \in SUBSET Plain /\ (p.mode = "KEY" => Equals \notin Plain)
    BY <1>4
  <2>2. a = [p EXCEPT !.acc = p.acc \o name]
    BY <1>1, <1>4, <2>1, ReadPlain
  <2>3. <<>> \o name = name
    BY <1>1
  <2> QED BY <1>4, <2>2, <2>3
<1>6. a \in ReaderType(Words)
  BY <1>1, <1>4, ReadLaws
<1>7. Ended(a) = Append(values, Element(name, NoParams))
  BY <1>4, <1>5 DEF Ended, ReaderType
<1> HIDE DEF a
<1>8. text \in Seq(Words) /\ Ended(Read(a, text)) = Append(values, Element(name, Given(e.params, keys)))
  BY <1>2, <1>6, <1>7, ReadParams DEF K, name
<1>9. Given(params, keys) = params
  <2>1. {keys[i] : i \in DOMAIN keys} = K
    BY <1>2
  <2> HIDE DEF params
  <2> QED BY <1>11, <2>1 DEF Given
<1> HIDE DEF text
<1>10. Read(p, name \o text) = Read(a, text)
  <2>1. text \in Seq(Words)
    BY <1>8
  <2>2. p \in ReaderType(Words)
    BY <1>4
  <2>3. Read(p, name \o text) = Read(Read(p, name), text)
    BY <1>1, <2>1, <2>2, ReadLaws
  <2> QED BY <2>3 DEF a
<1> QED BY <1>3, <1>8, <1>9, <1>10, <1>11, Zenon

\* ... and the comma, after which the next may begin.
LEMMA ReadClosed ==
    ASSUME NEW e, Readable(e), NEW values \in Seq(Elements(Words)), NEW p, Ready(p, values)
    PROVE  Ready(Read(p, Closed(e)), Append(values, e))
<1> DEFINE text == CompileElement(e)
           sep == <<Comma, Space>>
           q == Read(p, text)
           r == Read(q, sep)
<1>1. p \in ReaderType(Words)
  BY DEF Ready
<1>2. text \in Seq(Words) /\ sep \in Seq(Words)
  BY CompileElementType, WordsAre DEF Readable
<1>3. Ended(q) = Append(values, e)
  BY ReadElement
<1>4. q \in ReaderType(Words)
  BY <1>1, <1>2, ReadLaws
<1>5. r \in ReaderType(Words)
  BY <1>2, <1>4, ReadLaws
<1>6. r = [q EXCEPT !.values = Ended(q), !.acc = <<>>, !.mode = "NAME"]
  <2> HIDE DEF q
  <2>1. r = Token(Token(q, Comma), Space)
    BY <1>4, WordsAre, ReadTwo
  <2>2. Token(q, Comma) = [q EXCEPT !.values = Ended(q), !.acc = <<>>, !.mode = "NAME"]
    BY SeparatorsDiffer, Zenon DEF Token
  <2>3. \A t : Token(t, Space) = t
    BY Zenon DEF Token
  <2> QED BY <2>1, <2>2, <2>3
<1> HIDE DEF q, text, sep
<1>7. r.mode = "NAME" /\ r.acc = <<>> /\ r.values = Append(values, e)
  BY <1>3, <1>4, <1>6 DEF ReaderType
<1>8. Read(p, text \o sep) = r
  BY <1>1, <1>2, ReadLaws DEF q
<1> HIDE DEF r
<1> QED BY <1>5, <1>7, <1>8 DEF Ready, Closed, text, sep

ReadableElements == {e \in Written(Words) : Readable(e)}

\* All elements but the last, one by one.
LEMMA ReadFront ==
    ASSUME NEW exts \in Seq(ReadableElements)
    PROVE  /\ FlattenSeq(Closing(exts)) \in Seq(Words)
           /\ Ready(Read(Begun(<<>>), FlattenSeq(Closing(exts))), exts)
<1> DEFINE Text(es) == FlattenSeq(Closing(es))
           start == Begun(<<>>)
           S == {es \in Seq(ReadableElements) : Ready(Read(start, Text(es)), es)}
<1>1. \A es \in Seq(ReadableElements) : es \in Seq(Written(Words)) /\ es \in Seq(Elements(Words))
  BY SeqMonotonic DEF ReadableElements, Written
<1>2. \A es \in Seq(ReadableElements) : Closing(es) \in Seq(Seq(Words)) /\ Text(es) \in Seq(Words)
  BY <1>1, ClosingType
<1>3. start \in ReaderType(Words)
  <2>1. <<>> \in Seq(Elements(Words))
    OBVIOUS
  <2> QED BY <2>1, BegunType
<1>4. <<>> \in S
  <2>1. Closing(<<>>) = <<>> /\ <<>> \in Seq(ReadableElements)
    BY DEF Closing
  <2>2. Text(<<>>) = <<>>
    BY <2>1, FlattenLaws
  <2>3. Read(start, Text(<<>>)) = start
    BY <1>3, <2>2, ReadLaws
  <2>4. Ready(start, <<>>)
    BY <1>3 DEF Ready, Begun
  <2> HIDE DEF Text, start
  <2> QED BY <2>1, <2>3, <2>4
<1>5. ASSUME NEW es \in Seq(ReadableElements), NEW e \in ReadableElements, es \in S PROVE Append(es, e) \in S
  <2> DEFINE more == Append(es, e)
             q == Read(start, Text(es))
  <2>1. more \in Seq(ReadableElements)
    OBVIOUS
  <2>2. Closing(more) = Append(Closing(es), Closed(e))
    BY DEF Closing
  <2>3. Closed(e) \in Seq(Words) /\ Readable(e)
    BY ClosedType DEF ReadableElements
  <2>4. Text(more) = Text(es) \o Closed(e)
    BY <1>2, <2>2, <2>3, FlattenLaws
  <2>5. Ready(q, es) /\ es \in Seq(Elements(Words)) /\ Text(es) \in Seq(Words)
    BY <1>1, <1>2, <1>5
  <2> HIDE DEF Text, start, more
  <2>6. Read(start, Text(es) \o Closed(e)) = Read(q, Closed(e))
    BY <1>3, <2>3, <2>5, ReadLaws
  <2> HIDE DEF q
  <2>7. Ready(Read(q, Closed(e)), Append(es, e))
    BY <2>3, <2>5, ReadClosed
  <2>8. Ready(Read(start, Text(more)), more)
    BY <2>4, <2>6, <2>7 DEF more
  <2> QED BY <2>1, <2>8 DEF more
<1> HIDE DEF S
<1>6. \A es \in Seq(ReadableElements), e \in ReadableElements : es \in S => Append(es, e) \in S
  BY <1>5
<1>7. Seq(ReadableElements) \subseteq S
  BY <1>4, <1>6, SequenceInduction
<1>8. exts \in S
  BY <1>7
<1> QED BY <1>2, <1>8 DEF S

\* One header, none.
LEMMA OneHeader ==
    ASSUME NEW header \in Seq(Words)
    PROVE  Extensions(<<header>>) = ParseHeaderValue(header, <<>>) /\ Extensions(<<>>) = <<>>
<1> DEFINE V == Seq(Elements(Words))
           T == Seq(Words)
<1>1. \A values \in V, h \in T : Reads(values, h) \in V
  <2> SUFFICES ASSUME NEW values \in V, NEW h \in T PROVE Reads(values, h) \in V
    OBVIOUS
  <2>1. Reads(values, h) = values \o Meaning(h) /\ Meaning(h) \in V
    BY HeaderParsed DEF Reads
  <2> QED BY <2>1
<1>2. <<>> \in V /\ header \in T
  OBVIOUS
<1> HIDE DEF V, T
<1>3. ReadingAll!Goes(V, T)
  BY <1>1 DEF ReadingAll!Goes
<1>4. ReadingAll!Fold(<<>>, <<>>) = <<>>
  BY <1>2, <1>3, ReadingAll!FoldNone
<1>5. <<>> \in Seq(T)
  OBVIOUS
<1>6. ReadingAll!Fold(<<>>, Append(<<>>, header)) = Reads(ReadingAll!Fold(<<>>, <<>>), header)
  <2> DEFINE none == <<>>
  <2>1. none \in V /\ none \in Seq(T)
    BY <1>2, <1>5
  <2> HIDE DEF none
  <2>2. ReadingAll!Fold(none, Append(none, header)) = Reads(ReadingAll!Fold(none, none), header)
    BY <1>2, <1>3, <2>1, ReadingAll!FoldGoesOn
  <2> QED BY <2>2 DEF none
<1>7. Append(<<>>, header) = <<header>>
  OBVIOUS
<1>8. \A hs : Extensions(hs) = ReadingAll!Fold(<<>>, hs)
  BY DEF Extensions, FoldOnce, ReadingAll!Fold, Reads
<1> QED BY <1>4, <1>6, <1>7, <1>8 DEF Reads

\* compile_header_value and parse_header_value: what was written is read.
THEOREM RoundTrip ==
    ASSUME NEW exts \in Seq(ReadableElements)
    PROVE  Extensions(Headers(exts)) = exts
<1>1. CASE exts = <<>>
  <2>1. Headers(exts) = <<>>
    BY <1>1 DEF Headers
  <2>2. <<>> \in Seq(Words)
    OBVIOUS
  <2> QED BY <1>1, <2>1, <2>2, OneHeader
<1>2. CASE exts # <<>>
  <2>1. PICK front \in Seq(ReadableElements), e \in ReadableElements : exts = Append(front, e)
    BY <1>2, SequenceEmptyOrAppend
  <2> DEFINE a == FlattenSeq(Closing(front))
             b == CompileElement(e)
             start == Begun(<<>>)
             q == Read(start, a)
  <2>2. e \in Written(Words) /\ Readable(e) /\ front \in Seq(Written(Words)) /\ front \in Seq(Elements(Words))
    BY SeqMonotonic DEF ReadableElements, Written
  <2>3. CompileHeaderValue(exts) = a \o b
    BY <2>1, <2>2, CompileIs
  <2>4. a \in Seq(Words) /\ Ready(q, front)
    BY ReadFront
  <2>5. b \in Seq(Words)
    BY <2>2, CompileElementType
  <2>6. start \in ReaderType(Words)
    <3>1. <<>> \in Seq(Elements(Words))
      OBVIOUS
    <3> QED BY <3>1, BegunType
  <2> HIDE DEF a, b, start
  <2>7. Read(start, a \o b) = Read(q, b)
    BY <2>4, <2>5, <2>6, ReadLaws
  <2> HIDE DEF q
  <2>8. Ended(Read(q, b)) = Append(front, e)
    BY <2>2, <2>4, ReadElement DEF b
  <2>9. ParseHeaderValue(a \o b, <<>>) = Ended(Read(start, a \o b))
    BY ParseIs DEF Read, start
  <2>10. a \o b \in Seq(Words)
    BY <2>4, <2>5
  <2>11. Headers(exts) = <<a \o b>>
    BY <1>2, <2>3 DEF Headers
  <2>12. Extensions(<<a \o b>>) = ParseHeaderValue(a \o b, <<>>)
    BY <2>10, OneHeader
  <2> QED BY <2>1, <2>7, <2>8, <2>9, <2>11, <2>12
<1> QED BY <1>1, <1>2

-------------------------------------------------------------------------------
(* permessage-deflate among the extensions. *)

Names == {ServerNoTakeover, ClientNoTakeover, ServerWindow, ClientWindow}
Values == {NoValue} \cup Range(Digits)
WrittenOffers == UNION {[N -> Values] : N \in SUBSET Names}

\* The names of parameters are plain words.
LEMMA NamesPlain == Names \cup {"permessage-deflate"} \subseteq Plain \ {Equals}
<1>1. Names \cup {"permessage-deflate"} \subseteq Words
  BY WordsAre, Zenon DEF Names
<1>2. \A n \in Names \cup {"permessage-deflate"} : n \notin Separators /\ n # Equals
  <2>1. "permessage-deflate" \notin Separators /\ "permessage-deflate" # Equals
    BY Zenon DEF Separators, Space, Comma, Semicolon, Equals
  <2>2. ServerNoTakeover \notin Separators /\ ServerNoTakeover # Equals
    BY Zenon DEF Separators, Space, Comma, Semicolon, Equals, ServerNoTakeover
  <2>3. ClientNoTakeover \notin Separators /\ ClientNoTakeover # Equals
    BY Zenon DEF Separators, Space, Comma, Semicolon, Equals, ClientNoTakeover
  <2>4. ServerWindow \notin Separators /\ ServerWindow # Equals
    BY Zenon DEF Separators, Space, Comma, Semicolon, Equals, ServerWindow
  <2>5. ClientWindow \notin Separators /\ ClientWindow # Equals
    BY Zenon DEF Separators, Space, Comma, Semicolon, Equals, ClientWindow
  <2> QED BY <2>1, <2>2, <2>3, <2>4, <2>5, Zenon DEF Names
<1> QED BY <1>1, <1>2, Zenon DEF Plain

\* to_string and from_chars.
LEMMA CharsBack ==
    ASSUME NEW v \in Values
    PROVE  ToChars(v) \in Seq(Plain) /\ FromChars(ToChars(v)) = v
<1>1. /\ DOMAIN Digits \subseteq Plain /\ Digits \in [DOMAIN Digits -> Nat]
  BY WordsAssumption, Zenon DEF Plain
<1>2. CASE v = NoValue
  <2>1. ToChars(v) = <<>>
    BY <1>2 DEF ToChars
  <2> QED BY <1>2, <2>1 DEF FromChars
<1>3. CASE v # NoValue
  <2>1. \E d \in DOMAIN Digits : Digits[d] = v
    BY <1>3 DEF Values, Range
  <2> DEFINE d == CHOOSE d \in DOMAIN Digits : Digits[d] = v
  <2>2. d \in DOMAIN Digits /\ Digits[d] = v
    BY <2>1
  <2>3. ToChars(v) = <<d>>
    BY <1>3 DEF ToChars
  <2> HIDE DEF d
  <2>4. <<d>> # <<>> /\ <<d>>[1] = d /\ Len(<<d>>) = 1 /\ <<d>> \in Seq(Plain)
    BY <1>1, <2>2
  <2>5. FromChars(<<d>>) = Digits[d]
    BY <2>2, <2>4 DEF FromChars
  <2> QED BY <2>2, <2>3, <2>4, <2>5
<1> QED BY <1>2, <1>3

\* There are four names.
LEMMA NamesFinite == IsFiniteSet({<<name>> : name \in Names})
<1> DEFINE a == {<<ServerNoTakeover>>}
           b == a \cup {<<ClientNoTakeover>>}
           c == b \cup {<<ServerWindow>>}
           d == c \cup {<<ClientWindow>>}
<1>1. IsFiniteSet(a)
  BY FS_Singleton
<1>2. IsFiniteSet(b)
  <2> HIDE DEF a
  <2> QED BY <1>1, FS_AddElement
<1>3. IsFiniteSet(c)
  <2> HIDE DEF b
  <2> QED BY <1>2, FS_AddElement
<1>4. IsFiniteSet(d)
  <2> HIDE DEF c
  <2> QED BY <1>3, FS_AddElement
<1>5. {<<name>> : name \in Names} = d
  BY DEF Names
<1> QED BY <1>4, <1>5

\* An offer as an element, and back.
LEMMA OfferBack ==
    ASSUME NEW o \in WrittenOffers
    PROVE  AsElement(o) \in ReadableElements /\ AsElement(o).name = Deflate /\ Offer(AsElement(o)) = o
<1> DEFINE N == DOMAIN o
           K == {<<name>> : name \in N}
           params == [key \in K |-> ToChars(o[key[1]])]
           e == AsElement(o)
<1>1. N \in SUBSET Names /\ o \in [N -> Values]
  <2>1. PICK M \in SUBSET Names : o \in [M -> Values]
    BY DEF WrittenOffers
  <2> QED BY <2>1
<1>2. e = Element(Deflate, params) /\ e.name = Deflate /\ e.params = params
  BY DEF AsElement, Element
<1>3. \A name \in N : name \in Plain \ {Equals} /\ name \in Words
  BY <1>1, NamesPlain, Zenon DEF Plain
<1>4. \A k \in K : k[1] \in N /\ k = <<k[1]>> /\ Len(k) = 1
  OBVIOUS
<1>5. \A name \in N : <<name>> \in K /\ <<name>>[1] = name
  OBVIOUS
<1>6. \A k \in K : /\ params[k] \in Seq(Plain) /\ params[k] = ToChars(o[k[1]])
                   /\ FromChars(params[k]) = o[k[1]]
  <2> SUFFICES ASSUME NEW k \in K
               PROVE  /\ params[k] \in Seq(Plain) /\ params[k] = ToChars(o[k[1]])
                      /\ FromChars(params[k]) = o[k[1]]
    OBVIOUS
  <2>1. o[k[1]] \in Values
    BY <1>1, <1>4
  <2>2. params[k] = ToChars(o[k[1]])
    OBVIOUS
  <2> HIDE DEF K, params, N
  <2> QED BY <2>1, <2>2, CharsBack
<1>7. \A k \in K : k \in Seq(Plain \ {Equals}) /\ k \in Seq(Words)
  <2> SUFFICES ASSUME NEW name \in N PROVE <<name>> \in Seq(Plain \ {Equals}) /\ <<name>> \in Seq(Words)
    OBVIOUS
  <2> HIDE DEF N
  <2> QED BY <1>3
<1>8. IsFiniteSet(K)
  <2>1. K \in SUBSET {<<name>> : name \in Names}
    BY <1>1
  <2> HIDE DEF K
  <2> QED BY <2>1, NamesFinite, FS_Subset
<1>9. DOMAIN params = K
  OBVIOUS
<1> HIDE DEF e
<1>10. e \in ReadableElements
  <2>1. Deflate \in Seq(Plain) /\ Deflate \in Seq(Words)
    <3>1. "permessage-deflate" \in Plain /\ "permessage-deflate" \in Words
      BY NamesPlain, Zenon DEF Plain
    <3> DEFINE name == "permessage-deflate"
    <3>2. Deflate = <<name>>
      BY Zenon DEF Deflate
    <3>3. name \in Plain /\ name \in Words
      BY <3>1
    <3> HIDE DEF name
    <3> QED BY <3>2, <3>3
  <2>2. params \in [K -> Seq(Words)]
    <3>1. \A k \in K : params[k] \in Seq(Words)
      BY <1>6, SeqMonotonic, ZenonT(30) DEF Plain
    <3> QED BY <3>1
  <2>3. K \in SUBSET Seq(Words)
    BY <1>7
  <2> HIDE DEF K, params
  <2>4. params \in Params(Words)
    BY <2>2, <2>3 DEF Params
  <2>5. e \in Elements(Words)
    BY <1>2, <2>1, <2>4 DEF Elements, Element
  <2>6. e \in Written(Words)
    BY <1>2, <1>8, <1>9, <2>5 DEF Written
  <2>7. Readable(e)
    BY <1>2, <1>6, <1>7, <1>9, <2>1, <2>6 DEF Readable
  <2> QED BY <2>6, <2>7 DEF ReadableElements
<1>11. Offer(e) = o
  <2>1. \A k \in K : ParamName(k) = k[1]
    BY <1>4 DEF ParamName
  <2>2. {ParamName(k) : k \in K} = N
    BY <1>4, <1>5, <2>1, ZenonT(30)
  <2>3. ASSUME NEW name \in N
        PROVE  FromChars(params[CHOOSE k \in K : ParamName(k) = name]) = o[name]
    <3> DEFINE k == CHOOSE k \in K : ParamName(k) = name
    <3>1. k \in K /\ ParamName(k) = name
      <4>1. <<name>> \in K /\ ParamName(<<name>>) = name
        BY <1>5, <2>1
      <4> HIDE DEF K
      <4> QED BY <4>1
    <3> HIDE DEF k
    <3>2. k[1] = name
      BY <2>1, <3>1
    <3>3. FromChars(params[k]) = o[k[1]]
      BY <1>6, <3>1
    <3> QED BY <3>2, <3>3 DEF k
  <2>4. Offer(e) = [name \in {ParamName(k) : k \in K} |-> FromChars(params[CHOOSE k \in K : ParamName(k) = name])]
    <3> DEFINE Of(ks, ps) == [name \in {ParamName(k) : k \in ks} |-> FromChars(ps[CHOOSE k \in ks : ParamName(k) = name])]
    <3>1. Offer(e) = Of(DOMAIN e.params, e.params)
      BY Zenon DEF Offer
    <3> HIDE DEF Of
    <3>2. Offer(e) = Of(K, params)
      BY <1>2, <1>9, <3>1, Zenon
    <3> QED BY <3>2, Zenon DEF Of
  <2>5. o = [name \in N |-> o[name]]
    BY <1>1
  <2> HIDE DEF K, params, N
  <2>6. Offer(e) = [name \in N |-> o[name]]
    BY <2>2, <2>3, <2>4
  <2> QED BY <2>5, <2>6, Zenon
<1> QED BY <1>2, <1>10, <1>11 DEF e

AddOffer(offers, e) == IF e.name = Deflate THEN Append(offers, Offer(e)) ELSE offers
Offering == INSTANCE FoldLaws WITH Op <- AddOffer

\* The offers of elements, from an element to many.
LEMMA OffersAre ==
    ASSUME NEW S, NEW O, \A e \in S : e.name = Deflate => Offer(e) \in O
    PROVE  /\ \A exts \in Seq(S) : Offers(exts) \in Seq(O)
           /\ Offers(<<>>) = <<>>
           /\ \A e \in S : e.name = Deflate => Offers(<<e>>) = <<Offer(e)>>
<1> DEFINE V == Seq(O)
           none == <<>>
<1>1. \A v \in V, x \in S : AddOffer(v, x) \in V
  BY DEF AddOffer
<1>2. none \in V /\ none \in Seq(S)
  OBVIOUS
<1>3. \A e : Append(none, e) = <<e>>
  OBVIOUS
<1> HIDE DEF V
<1>4. Offering!Goes(V, S)
  BY <1>1 DEF Offering!Goes
<1>5. \A es : Offers(es) = Offering!Fold(none, es)
  BY DEF Offers, FoldOnce, Offering!Fold, AddOffer
<1> HIDE DEF none
<1>6. \A exts \in Seq(S) : Offers(exts) \in V
  BY <1>2, <1>4, <1>5, Offering!FoldType
<1>7. Offers(none) = none
  <2>1. Offering!Fold(none, <<>>) = none
    BY <1>2, <1>4, Offering!FoldNone
  <2> QED BY <1>5, <2>1 DEF none
<1>8. ASSUME NEW e \in S, e.name = Deflate
      PROVE  Offers(<<e>>) = <<Offer(e)>>
  <2>1. Offering!Fold(none, Append(none, e)) = AddOffer(Offering!Fold(none, none), e)
    BY <1>2, <1>4, Offering!FoldGoesOn
  <2>2. Offers(<<e>>) = Append(none, Offer(e))
    BY <1>3, <1>5, <1>7, <1>8, <2>1 DEF AddOffer
  <2> QED BY <1>3, <2>2
<1> QED BY <1>6, <1>7, <1>8 DEF V, none

-------------------------------------------------------------------------------
(* The negotiation between two parsers of the library. *)

\* Four names.
LEMMA NamesDiffer ==
    /\ ServerWindow # ClientWindow /\ ServerWindow # ServerNoTakeover /\ ServerWindow # ClientNoTakeover
    /\ ClientWindow # ServerNoTakeover /\ ClientWindow # ClientNoTakeover /\ ServerNoTakeover # ClientNoTakeover
BY Zenon DEF ServerWindow, ClientWindow, ServerNoTakeover, ClientNoTakeover

\* DeflateExt::request: both window sizes, and what is not to be taken over.
LEMMA RequestIs ==
    ASSUME NEW cfg \in DeflateConfig
    PROVE  /\ ServerWindow \in DOMAIN Request(cfg) /\ Request(cfg)[ServerWindow] = cfg.server_bits
           /\ ClientWindow \in DOMAIN Request(cfg) /\ Request(cfg)[ClientWindow] = cfg.client_bits
           /\ cfg.server_bits \in 0 .. 255 /\ cfg.client_bits \in 0 .. 255
           /\ ServerNoTakeover \in DOMAIN Request(cfg) <=> cfg.server_no_takeover
           /\ ClientNoTakeover \in DOMAIN Request(cfg) <=> cfg.client_no_takeover
           /\ \A name \in DOMAIN Request(cfg) : name \in Names
           /\ \A name \in DOMAIN Request(cfg) : name \notin {ServerWindow, ClientWindow} => Request(cfg)[name] = NoValue
<1> DEFINE N == {ServerWindow, ClientWindow} \cup {n \in {ServerNoTakeover} : cfg.server_no_takeover}
                    \cup {n \in {ClientNoTakeover} : cfg.client_no_takeover}
<1>1. cfg.server_bits \in 0 .. 255 /\ cfg.client_bits \in 0 .. 255
  BY DEF DeflateConfig
<1>2. /\ ServerWindow \in N /\ ClientWindow \in N /\ \A name \in N : name \in Names
      /\ ServerNoTakeover \in N <=> cfg.server_no_takeover
      /\ ClientNoTakeover \in N <=> cfg.client_no_takeover
  BY NamesDiffer, Zenon DEF Names
<1>3. DOMAIN Request(cfg) = N
  BY Zenon DEF Request
<1>4. \A name \in N : Request(cfg)[name] =
          CASE name = ServerWindow -> cfg.server_bits
            [] name = ClientWindow -> cfg.client_bits
            [] OTHER               -> NoValue
  BY Zenon DEF Request
<1> HIDE DEF N
<1>5. Request(cfg)[ServerWindow] = cfg.server_bits
  BY <1>2, <1>4, NamesDiffer
<1>6. Request(cfg)[ClientWindow] = cfg.client_bits
  BY <1>2, <1>4, NamesDiffer
<1>7. \A name \in N : name \notin {ServerWindow, ClientWindow} => Request(cfg)[name] = NoValue
  BY <1>4
<1> QED BY <1>1, <1>2, <1>3, <1>5, <1>6, <1>7

\* What comes of a request: the client's window sizes, and neither end's takeover if one does not want it.
LEMMA EffectiveRequest ==
    ASSUME NEW c \in DeflateConfig, NEW s \in DeflateConfig
    PROVE  LET e == Effective(Request(c), s)
           IN  /\ e.server_bits = c.server_bits /\ e.client_bits = c.client_bits
               /\ e.server_no_takeover <=> s.server_no_takeover \/ c.server_no_takeover
               /\ e.client_no_takeover <=> s.client_no_takeover \/ c.client_no_takeover
<1> DEFINE q == Request(c)
<1>1. /\ ServerWindow \in DOMAIN q /\ q[ServerWindow] = c.server_bits
      /\ ClientWindow \in DOMAIN q /\ q[ClientWindow] = c.client_bits /\ q[ClientWindow] # NoValue
      /\ ServerNoTakeover \in DOMAIN q <=> c.server_no_takeover
      /\ ClientNoTakeover \in DOMAIN q <=> c.client_no_takeover
  BY RequestIs DEF NoValue
<1> HIDE DEF q
<1>2. LET e == Effective(q, s)
      IN  /\ e.server_bits = c.server_bits /\ e.client_bits = c.client_bits
          /\ e.server_no_takeover <=> s.server_no_takeover \/ c.server_no_takeover
          /\ e.client_no_takeover <=> s.client_no_takeover \/ c.client_no_takeover
  BY <1>1 DEF Effective
<1> QED BY <1>2 DEF q

\* select on the server, among the same offer again and again.
LEMMA SelectIs ==
    ASSUME NEW q, NEW offers \in Seq({q}), NEW cfg, Select(offers, cfg, "server").result = "success"
    PROVE  /\ Select(offers, cfg, "server") = [result |-> "success", params |-> q, cfg |-> Effective(q, cfg)]
           /\ Correct(q, cfg, "server")
<1> DEFINE fits == {i \in 1 .. Len(offers) : Correct(offers[i], cfg, "server")}
           P(j) == \A k \in fits : j <= k
           i == CHOOSE j \in fits : P(j)
<1>1. /\ Select(offers, cfg, "server") = [result |-> "success", params |-> offers[i], cfg |-> Effective(offers[i], cfg)]
      /\ fits # {}
  BY DEF Select, NotFound, Failed
<1>2. i \in fits
  <2>1. fits \in SUBSET Nat
    OBVIOUS
  <2>2. \E j \in fits : P(j)
    BY <1>1, <2>1, LeastNatural
  <2> HIDE DEF fits, P
  <2> QED BY <2>2
<1>3. offers[i] = q /\ Correct(offers[i], cfg, "server")
  <2> HIDE DEF i
  <2> QED BY <1>2
<1> HIDE DEF i
<1> QED BY <1>1, <1>3

\* select on the client, of one answer.
LEMMA SelectOne ==
    ASSUME NEW q, NEW cfg, Correct(q, cfg, "client")
    PROVE  Select(<<q>>, cfg, "client") = [result |-> "success", params |-> q, cfg |-> Effective(q, cfg)]
<1> DEFINE offers == <<q>>
           fits == {i \in 1 .. Len(offers) : Correct(offers[i], cfg, "client")}
           i == CHOOSE j \in fits : \A k \in fits : j <= k
<1>1. Len(offers) = 1 /\ offers[1] = q /\ offers # <<>>
  OBVIOUS
<1> HIDE DEF offers
<1>2. fits = {1}
  BY <1>1
<1>3. i = 1
  <2>1. \A k \in {1} : 1 <= k
    OBVIOUS
  <2> HIDE DEF fits
  <2> QED BY <1>2, <2>1
<1>4. Select(offers, cfg, "client") = [result |-> "success", params |-> offers[i], cfg |-> Effective(offers[i], cfg)]
  BY <1>1, <1>2 DEF Select
<1> HIDE DEF i
<1> QED BY <1>1, <1>3, <1>4 DEF offers

\* uplift: to a request's own parameters the answer is the request.
LEMMA AnswerIsRequest ==
    ASSUME NEW c \in DeflateConfig, NEW s \in DeflateConfig
    PROVE  Answer([result |-> "success", params |-> Request(c), cfg |-> Effective(Request(c), s)]) = Request(c)
<1> DEFINE q == Request(c)
           e == Effective(q, s)
           chosen == [result |-> "success", params |-> q, cfg |-> e]
           a == Answer(chosen)
<1>1. a = [name \in DOMAIN q |-> CASE name = ServerWindow -> e.server_bits
                                   [] name = ClientWindow -> e.client_bits
                                   [] OTHER               -> NoValue]
  <2>1. chosen.params = q /\ chosen.cfg = e
    OBVIOUS
  <2> HIDE DEF chosen, q, e
  <2> QED BY <2>1 DEF Answer
<1>2. /\ e.server_bits = q[ServerWindow] /\ e.client_bits = q[ClientWindow]
      /\ \A name \in DOMAIN q : name \notin {ServerWindow, ClientWindow} => q[name] = NoValue
  BY RequestIs, EffectiveRequest
<1>3. \A name \in DOMAIN q : q[name] = CASE name = ServerWindow -> e.server_bits
                                         [] name = ClientWindow -> e.client_bits
                                         [] OTHER               -> NoValue
  <2> HIDE DEF q, e
  <2> QED BY <1>2
<1>4. q = [name \in DOMAIN q |-> q[name]]
  <2> DEFINE N == {ServerWindow, ClientWindow} \cup {n \in {ServerNoTakeover} : c.server_no_takeover}
                     \cup {n \in {ClientNoTakeover} : c.client_no_takeover}
             V == {c.server_bits, c.client_bits, NoValue}
  <2>1. q \in [N -> V]
    BY Zenon DEF Request
  <2> HIDE DEF q, N, V
  <2> QED BY <2>1
<1> HIDE DEF q, e, a, chosen
<1>5. a = q
  BY <1>1, <1>3, <1>4, Zenon
<1> QED BY <1>5 DEF a, chosen, q, e

\* A server that can take a request has windows the client asked for.
LEMMA ClientAgrees ==
    ASSUME NEW c \in DeflateConfig, NEW s \in DeflateConfig, Correct(Request(c), s, "server")
    PROVE  Correct(Request(c), c, "client")
<1> DEFINE q == Request(c)
<1>1. /\ ServerWindow \in DOMAIN q /\ q[ServerWindow] = c.server_bits
      /\ ClientWindow \in DOMAIN q /\ q[ClientWindow] = c.client_bits /\ q[ClientWindow] # NoValue
      /\ \A name \in DOMAIN q : name \in Names
  BY RequestIs DEF NoValue
<1> HIDE DEF q
<1>2. Correct(q, s, "server")
  BY DEF q
<1>3. ValidBits(q[ServerWindow]) /\ ValidBits(q[ClientWindow])
  <2>1. ParamCorrect(ServerWindow, q[ServerWindow], s, "server")
    BY <1>1, <1>2 DEF Correct
  <2>2. ParamCorrect(ClientWindow, q[ClientWindow], s, "server")
    BY <1>1, <1>2 DEF Correct
  <2> QED BY <1>1, <2>1, <2>2, NamesDiffer DEF ParamCorrect, BitsMatch
<1>4. ASSUME NEW name \in DOMAIN q
      PROVE  ParamCorrect(name, q[name], c, "client")
  BY <1>1, <1>3, NamesDiffer DEF ParamCorrect, BitsMatch, Names
<1>5. Correct(q, c, "client")
  BY <1>4 DEF Correct
<1> QED BY <1>5 DEF q

-------------------------------------------------------------------------------
(* The inductive invariant. Shape: what the variables hold.                *)

Extension == {None} \cup [cfg: DeflateConfig, connection: Nat]

ClientErrors == {NoFault, "http", "deflate_negotiation_failed"} \cup {ResponseChecks[i] : i \in 1 .. 5}

ClientType ==
    [requested: BOOLEAN, parsed: BOOLEAN, established: BOOLEAN, error: ClientErrors,
     key: Nat, cfg: DeflateConfig, ext: Extension, sent: BOOLEAN]

ServerType ==
    /\ DOMAIN server = {"parsed", "accepted", "established", "request", "cfg", "ext"}
    /\ server.parsed \in BOOLEAN /\ server.accepted \in BOOLEAN /\ server.established \in BOOLEAN
    /\ server.cfg \in DeflateConfig /\ server.ext \in Extension

RequestType ==
    /\ DOMAIN request = DOMAIN NoRequest /\ request.uri \in BOOLEAN /\ request.key \in Nat
    /\ request.exts \in Seq(Written(Words))

InFlightType(flight) == flight # None => DOMAIN flight = {"msg", "begun"}

Known(msg) ==
    /\ msg.bad \subseteq Range(RequestChecks) \cup {"http"} /\ msg.garbage \in BOOLEAN
    /\ msg.headers \in Seq(Seq(Words))

\* Whose settings the parsers have.
Settings == client.cfg \in ClientConfigs \cup {Default} /\ server.cfg \in ServerConfigs \cup {Default}

Shape ==
    /\ connections \in Nat \ {0}
    /\ client \in ClientType
    /\ ServerType
    /\ RequestType /\ Settings
    /\ InFlightType(toServer) /\ InFlightType(toClient)
    /\ toServer # None => Known(toServer.msg)

Refusal(msg) == \E i \in DOMAIN ResponseChecks : ResponseChecks[i] \in msg.bad

(* Causes: who must have acted before. *)
Causes ==
    /\ peer \in {"nobody", "client", "server"}
    /\ peer = "client" => ~client.requested
    /\ client.sent => client.requested
    /\ peer = "server" => ~server.parsed
    /\ peer # "client" /\ toServer # None => client.sent
    /\ peer = "nobody" /\ server.parsed => client.sent
    /\ peer = "nobody" /\ toClient # None =>
          client.sent /\ (Refusal(toClient.msg) \/ server.established)
    /\ peer = "server" /\ toClient # None /\ ~client.sent => toClient.msg.key \in {WrongKey, NoKey}
    /\ client.requested /\ ~client.parsed => client.key = request.key

HandshakeInv ==
    Shape /\ TypeOK /\ Causes /\ SameConnection /\ EstablishedByAnswer /\ JudgedRight /\ HeaderUnderstood

-------------------------------------------------------------------------------
(* Operators. *)

\* A record is something.
LEMMA Something ==
    ASSUME NEW f, NEW x \in DOMAIN f
    PROVE  f # None
<1>1. DOMAIN <<>> = {}
  OBVIOUS
<1> QED BY <1>1 DEF None

\* The fault reported is the first there is.
LEMMA FirstFaultIsFirst ==
    ASSUME NEW checks, DOMAIN checks \subseteq Nat, NEW bad,
           \E i \in DOMAIN checks : checks[i] \in bad
    PROVE  \E i \in DOMAIN checks :
              /\ FirstFault(checks, bad) = checks[i] /\ checks[i] \in bad
              /\ \A j \in DOMAIN checks : checks[j] \in bad => i <= j
<1> DEFINE T == {i \in DOMAIN checks : checks[i] \in bad}
           P(i) == checks[i] \in bad /\ \A j \in DOMAIN checks : checks[j] \in bad => i <= j
<1>1. \E i \in DOMAIN checks : P(i)
  <2>1. T \in SUBSET Nat /\ T # {}
    OBVIOUS
  <2>2. \E x \in T : \A y \in T : x <= y
    BY <2>1, LeastNatural
  <2> QED BY <2>2
<1>2. (CHOOSE i \in DOMAIN checks : P(i)) \in DOMAIN checks /\ P(CHOOSE i \in DOMAIN checks : P(i))
  BY <1>1
<1>3. FirstFault(checks, bad) = checks[CHOOSE i \in DOMAIN checks : P(i)]
  BY DEF FirstFault
<1> HIDE DEF P
<1> QED BY <1>2, <1>3 DEF P

\* FirstFault: nothing wrong, no fault.
LEMMA NoFirstFault ==
    ASSUME NEW checks, NEW bad, \A i \in DOMAIN checks : checks[i] \notin bad
    PROVE  FirstFault(checks, bad) = NoFault
BY DEF FirstFault

\* ResponseFault: a fault is an error, and its name a string.
LEMMA ResponseFaultIs ==
    ASSUME NEW msg, NEW key
    PROVE  /\ ResponseFault(msg, key) \in ClientErrors
           /\ ResponseFault(msg, key) = NoFault =>
                 /\ msg.key = key
                 /\ \A i \in DOMAIN ResponseChecks : ResponseChecks[i] \notin msg.bad
<1>1. /\ DOMAIN ResponseChecks = 1 .. 5 /\ ResponseChecks[5] = "sec_accept_missing"
      /\ \A i \in 1 .. 5 : ResponseChecks[i] # NoFault
  BY DEF ResponseChecks, NoFault
<1> HIDE DEF ResponseChecks
<1> DEFINE faults == ResponseFaults(msg, key)
<1>2. CASE "http" \in msg.bad
  <2>1. ResponseFault(msg, key) = "http"
    BY <1>2 DEF ResponseFault
  <2>2. "http" # NoFault
    BY DEF NoFault
  <2> QED BY <2>1, <2>2 DEF ClientErrors
<1>3. CASE "http" \notin msg.bad /\ \E i \in DOMAIN ResponseChecks : ResponseChecks[i] \in faults
  <2>1. PICK i \in DOMAIN ResponseChecks : FirstFault(ResponseChecks, faults) = ResponseChecks[i]
    <3>1. DOMAIN ResponseChecks \subseteq Nat
      BY <1>1
    <3> QED BY <1>3, <3>1, FirstFaultIsFirst
  <2>2. ResponseFault(msg, key) = ResponseChecks[i]
    BY <1>3, <2>1 DEF ResponseFault
  <2> QED BY <1>1, <2>2 DEF ClientErrors
<1>4. CASE "http" \notin msg.bad /\ \A i \in DOMAIN ResponseChecks : ResponseChecks[i] \notin faults
  <2>1. ResponseFault(msg, key) = NoFault
    BY <1>4, NoFirstFault DEF ResponseFault
  <2>2. "sec_accept_missing" \notin faults
    BY <1>1, <1>4
  <2>3. msg.key = key /\ msg.bad \subseteq faults
    BY <2>2 DEF ResponseFaults
  <2> QED BY <1>4, <2>1, <2>3 DEF ClientErrors
<1> QED BY <1>2, <1>3, <1>4

\* RequestFault: none exactly for a request with nothing wrong, the version's exactly for one
\* with nothing else wrong, and never what accept finds itself.
LEMMA RequestFaultIs ==
    ASSUME NEW msg, Known(msg)
    PROVE  /\ RequestFault(msg) = NoFault <=> msg.bad = {}
           /\ RequestFault(msg) = "unsupported_version" <=> msg.bad = {"unsupported_version"}
           /\ RequestFault(msg) # "garbage_after_connect"
<1>1. /\ DOMAIN RequestChecks = 1 .. 7 /\ RequestChecks[7] = "unsupported_version"
      /\ \A i \in 1 .. 7 : RequestChecks[i] \notin {NoFault, "http", "garbage_after_connect"}
      /\ \A i \in 1 .. 6 : RequestChecks[i] # "unsupported_version"
  BY DEF RequestChecks, NoFault
<1>2. \A f \in msg.bad : f = "http" \/ \E i \in 1 .. 7 : f = RequestChecks[i]
  BY <1>1 DEF Known, Range
<1> HIDE DEF RequestChecks
<1>3. CASE "http" \in msg.bad
  BY <1>3 DEF RequestFault, NoFault
<1>4. CASE "http" \notin msg.bad /\ \E i \in 1 .. 7 : RequestChecks[i] \in msg.bad
  <2>1. PICK i \in 1 .. 7 : /\ FirstFault(RequestChecks, msg.bad) = RequestChecks[i]
                            /\ RequestChecks[i] \in msg.bad
                            /\ \A j \in 1 .. 7 : RequestChecks[j] \in msg.bad => i <= j
    <3>1. DOMAIN RequestChecks \subseteq Nat
      BY <1>1
    <3> QED BY <1>1, <1>4, <3>1, FirstFaultIsFirst
  <2>2. RequestFault(msg) = RequestChecks[i]
    BY <1>4, <2>1 DEF RequestFault
  <2>3. RequestFault(msg) # NoFault /\ msg.bad # {}
    BY <1>1, <2>1, <2>2
  <2>4. CASE i = 7
    <3>1. \A j \in 1 .. 6 : RequestChecks[j] \notin msg.bad
      BY <2>1, <2>4
    <3>2. \A f \in msg.bad : f = "unsupported_version"
      BY <1>1, <1>2, <1>4, <3>1
    <3> QED BY <1>1, <2>1, <2>2, <2>3, <2>4, <3>2
  <2>5. CASE i # 7
    <3>1. i \in 1 .. 6
      BY <2>5
    <3>2. RequestChecks[i] # "unsupported_version"
      BY <1>1, <3>1
    <3> QED BY <1>1, <2>1, <2>2, <2>3, <3>2
  <2> QED BY <2>4, <2>5
<1>5. CASE "http" \notin msg.bad /\ \A i \in 1 .. 7 : RequestChecks[i] \notin msg.bad
  <2>1. RequestFault(msg) = NoFault
    BY <1>1, <1>5, NoFirstFault DEF RequestFault
  <2>2. msg.bad = {}
    BY <1>2, <1>5
  <2> QED BY <2>1, <2>2 DEF NoFault
<1> QED BY <1>3, <1>4, <1>5

\* What select makes of a configuration and correct parameters is a configuration.
LEMMA EffectiveType ==
    ASSUME NEW p, NEW cfg \in DeflateConfig,
           ServerWindow \in DOMAIN p => p[ServerWindow] \in 9 .. 15,
           ClientWindow \in DOMAIN p => p[ClientWindow] = NoValue \/ p[ClientWindow] \in 9 .. 15
    PROVE  Effective(p, cfg) \in DeflateConfig
<1> DEFINE a == cfg.server_no_takeover \/ ServerNoTakeover \in DOMAIN p
           b == cfg.client_no_takeover \/ ClientNoTakeover \in DOMAIN p
           m == IF ServerWindow \in DOMAIN p THEN p[ServerWindow] ELSE cfg.server_bits
           n == IF ClientWindow \notin DOMAIN p THEN cfg.client_bits
                ELSE IF p[ClientWindow] = NoValue THEN 15 ELSE p[ClientWindow]
<1>1. a \in BOOLEAN /\ b \in BOOLEAN
  OBVIOUS
<1>2. /\ cfg.on \in BOOLEAN
      /\ cfg.server_bits \in 0 .. 255 /\ cfg.client_bits \in 0 .. 255
  BY DEF DeflateConfig
<1>3. m \in 0 .. 255 /\ n \in 0 .. 255
  <2>1. \A k \in 9 .. 15 : k \in 0 .. 255
    OBVIOUS
  <2>2. 15 \in 0 .. 255
    OBVIOUS
  <2> QED BY <1>2, <2>1, <2>2
<1>4. Effective(p, cfg) = [on |-> cfg.on, server_no_takeover |-> a, client_no_takeover |-> b,
                           server_bits |-> m, client_bits |-> n]
  BY DEF Effective
<1> HIDE DEF a, b, m, n
<1> QED BY <1>1, <1>2, <1>3, <1>4 DEF DeflateConfig

\* What select chooses is a configuration.
LEMMA SelectType ==
    ASSUME NEW offers, NEW cfg \in DeflateConfig, NEW role \in {"client", "server"},
           Select(offers, cfg, role).result = "success"
    PROVE  Select(offers, cfg, role).cfg \in DeflateConfig
<1> DEFINE fits == {i \in 1 .. Len(offers) : Correct(offers[i], cfg, role)}
           P(j) == \A k \in fits : j <= k
           i == CHOOSE j \in fits : P(j)
<1>1. /\ Select(offers, cfg, role) = [result |-> "success", params |-> offers[i], cfg |-> Effective(offers[i], cfg)]
      /\ fits # {}
  BY DEF Select, NotFound, Failed
<1>2. i \in fits
  <2>1. fits \in SUBSET Nat
    OBVIOUS
  <2>2. \E j \in fits : P(j)
    BY <1>1, <2>1, LeastNatural
  <2> HIDE DEF fits, P
  <2> QED BY <2>2
<1>3. Correct(offers[i], cfg, role)
  BY <1>2
<1> HIDE DEF i
<1> DEFINE p == offers[i]
<1>4. ServerWindow \in DOMAIN p => p[ServerWindow] \in 9 .. 15
  BY <1>3 DEF Correct, ParamCorrect, BitsMatch, ValidBits, ServerWindow, ClientWindow, ServerNoTakeover, ClientNoTakeover
<1>5. ClientWindow \in DOMAIN p => p[ClientWindow] = NoValue \/ p[ClientWindow] \in 9 .. 15
  BY <1>3 DEF Correct, ParamCorrect, BitsMatch, ValidBits, ServerWindow, ClientWindow, ServerNoTakeover, ClientNoTakeover
<1> HIDE DEF p
<1>6. Effective(p, cfg) \in DeflateConfig
  BY <1>4, <1>5, EffectiveType, Zenon
<1> QED BY <1>1, <1>6 DEF p

\* What either end selects is a configuration.
LEMMA SelectedType ==
    ASSUME NEW offers, NEW cfg \in DeflateConfig
    PROVE  /\ ServerSelects(offers, cfg).result = "success" => ServerSelects(offers, cfg).cfg \in DeflateConfig
           /\ ClientSelects(offers, cfg).result = "success" => ClientSelects(offers, cfg).cfg \in DeflateConfig
BY SelectType DEF ServerSelects, ClientSelects, NotFound

\* A message that is sent is in flight, and is there.
LEMMA InFlightIs ==
    ASSUME NEW msg
    PROVE  /\ InFlight(msg) # None /\ InFlightType(InFlight(msg))
           /\ InFlight(msg).msg = msg
<1>1. DOMAIN InFlight(msg) = {"msg", "begun"} /\ InFlight(msg).msg = msg
  BY DEF InFlight
<1> QED BY <1>1, Something DEF InFlightType

\* What connect_request writes is a request the checks know.
LEMMA RequestMessageKnown ==
    ASSUME NEW req, req.exts \in Seq(Written(Words))
    PROVE  Known(RequestMessage(req))
<1>1. "unsupported_version" \in Range(RequestChecks)
  <2>1. 7 \in DOMAIN RequestChecks /\ RequestChecks[7] = "unsupported_version"
    BY DEF RequestChecks
  <2> QED BY <2>1 DEF Range
<1>2. Headers(req.exts) \in Seq(Seq(Words))
  BY HeadersType
<1> HIDE DEF RequestChecks
<1> QED BY <1>1, <1>2 DEF Known, RequestMessage

\* The offer a parser makes is written in names and digits.
LEMMA RequestWritten ==
    ASSUME NEW cfg \in ClientConfigs \cup ServerConfigs \cup {Default}
    PROVE  Request(cfg) \in WrittenOffers
<1> DEFINE N == {ServerWindow, ClientWindow} \cup {n \in {ServerNoTakeover} : cfg.server_no_takeover}
                    \cup {n \in {ClientNoTakeover} : cfg.client_no_takeover}
<1>1. {cfg.server_bits, cfg.client_bits} \subseteq Values
  BY WordsAssumption DEF Values
<1>2. NoValue \in Values
  BY DEF Values
<1>3. N \in SUBSET Names
  BY DEF Names
<1>4. Request(cfg) \in [N -> Values]
  BY <1>1, <1>2, Zenon DEF Request
<1> QED BY <1>3, <1>4 DEF WrittenOffers

\* add_deflate adds its own offer, if any.
LEMMA WithOfferType ==
    ASSUME NEW cfg \in ClientConfigs \cup {Default}, NEW exts \in Seq(Written(Words))
    PROVE  WithOffer(exts, cfg) \in Seq(Written(Words))
<1>1. AsElement(Request(cfg)) \in Written(Words)
  BY RequestWritten, OfferBack DEF ReadableElements
<1> QED BY <1>1, AppendProperties DEF WithOffer

\* What a program asks for is written in words.
LEMMA UserRequestType ==
    ASSUME NEW r \in UserRequests \cup {NoRequest}
    PROVE  /\ DOMAIN r = DOMAIN NoRequest /\ r.uri \in BOOLEAN /\ r.key \in Nat
           /\ r.exts \in Seq(Written(Words))
<1>1. CASE r = NoRequest
  <2>1. NoRequest.uri \in BOOLEAN /\ NoRequest.key \in Nat /\ NoRequest.exts = <<>>
    BY DEF NoRequest, NoKey
  <2>2. <<>> \in Seq(Written(Words))
    OBVIOUS
  <2> QED BY <1>1, <2>1, <2>2, Zenon
<1>2. CASE r \in UserRequests
  <2>1. r.exts \in Seq(Range(r.exts)) /\ \A e \in Range(r.exts) : IsElement(e, Words)
    BY <1>2, MessagesAssumption
  <2>2. Range(r.exts) \subseteq Written(Words)
    BY <2>1, WrittenIs
  <2>3. r.exts \in Seq(Written(Words))
    BY <2>1, <2>2, SeqMonotonic
  <2> QED BY <1>2, <2>3, MessagesAssumption
<1> QED BY <1>1, <1>2

-------------------------------------------------------------------------------
(* Each action keeps the invariant. *)

\* The parsers as they are constructed.
LEMMA InitKeeps == Init => HandshakeInv
<1> SUFFICES ASSUME Init PROVE HandshakeInv
  OBVIOUS
<1>1. Default \in DeflateConfig
  BY DEF Default, DeflateConfig
<1>2. PICK c \in DeflateConfig, s \in DeflateConfig : client = FreshClient(c, None) /\ server = FreshServer(s, None)
  BY <1>1, ConfigsAssumption DEF Init
<1>3. client \in ClientType /\ ServerType
  <2>1. client \in ClientType
    BY <1>2 DEF FreshClient, ClientType, Extension, ClientErrors, NoKey
  <2>2. ServerType
    BY <1>2 DEF FreshServer, ServerType, Extension
  <2> QED BY <2>1, <2>2
<1>4. RequestType
  <2>1. request \in UserRequests \cup {NoRequest}
    BY DEF Init, Requests
  <2> QED BY <2>1, UserRequestType DEF RequestType
<1>5. Shape
  <2>1. Settings
    BY DEF Init, Settings, FreshClient, FreshServer
  <2> QED BY <1>3, <1>4, <2>1 DEF Shape, Init, InFlightType
<1>6. TypeOK
  BY <1>2, <1>3 DEF TypeOK, FreshClient, FreshServer, ServerType
<1>7. Causes /\ SameConnection /\ EstablishedByAnswer /\ JudgedRight /\ HeaderUnderstood
  BY <1>2 DEF Init, Causes, SameConnection, EstablishedByAnswer, JudgedRight, HeaderUnderstood, FreshClient, FreshServer
<1> QED BY <1>5, <1>6, <1>7 DEF HandshakeInv

\* connect_request, also when to_string throws: the request is kept, and is in flight if it was sent.
LEMMA ConnectRequestKeeps ==
    ASSUME HandshakeInv, ConnectRequest
    PROVE  HandshakeInv'
<1> USE DEF HandshakeInv
<1>1. PICK sent :
        /\ sent = [request EXCEPT !.exts = WithOffer(@, client.cfg),
                                  !.key = IF request.uri /\ @ = NoKey THEN connections ELSE @]
        /\ request' = sent
        /\ client' = [client EXCEPT !.requested = TRUE, !.key = sent.key, !.sent = request.uri]
        /\ toServer' = IF request.uri THEN InFlight(RequestMessage(sent)) ELSE None
  BY DEF ConnectRequest
<1>2. RequestType' /\ sent.exts \in Seq(Written(Words))
  <2>1. WithOffer(request.exts, client.cfg) \in Seq(Written(Words))
    BY WithOfferType DEF Shape, RequestType, Settings
  <2> QED BY <1>1, <2>1 DEF RequestType, NoRequest, Shape
<1>3. client' \in ClientType
  BY <1>1, <1>2 DEF RequestType, ClientType, Shape
<1>4. toServer' # None => request.uri /\ InFlightType(toServer') /\ Known(toServer'.msg)
  BY <1>1, <1>2, InFlightIs, RequestMessageKnown
<1>5. client'.ext = client.ext /\ client'.cfg = client.cfg /\ client'.sent = request.uri
      /\ client'.established = client.established /\ client'.parsed = client.parsed
      /\ client'.error = client.error /\ client'.requested /\ client'.key \in Nat
  BY <1>1, <1>2 DEF ClientType, Shape, RequestType
<1>6. ~client.parsed /\ ~client.established
  BY DEF TypeOK, ConnectRequest
<1>7. Shape'
  BY <1>2, <1>3, <1>4, <1>5 DEF Shape, ServerType, Settings, InFlightType, ConnectRequest
<1>8. TypeOK'
  BY <1>5, <1>6 DEF TypeOK, ConnectRequest
<1>9. Causes'
  BY <1>4, <1>5 DEF Causes, ConnectRequest, TypeOK
<1>10. SameConnection' /\ EstablishedByAnswer' /\ JudgedRight' /\ HeaderUnderstood'
  BY <1>5, <1>6 DEF SameConnection, EstablishedByAnswer, JudgedRight, HeaderUnderstood, ConnectRequest
<1> QED BY <1>7, <1>8, <1>9, <1>10

\* Part of a message: nothing but its beginning is known.
LEMMA PartArrivesIs ==
    ASSUME Shape, PartArrives
    PROVE  /\ UNCHANGED <<client, server, request, peer, connections>>
           /\ (toServer' = None) = (toServer = None) /\ (toServer # None => toServer'.msg = toServer.msg)
           /\ (toClient' = None) = (toClient = None) /\ (toClient # None => toClient'.msg = toClient.msg)
           /\ InFlightType(toServer') /\ InFlightType(toClient')
<1>1. ASSUME NEW flight, flight # None, InFlightType(flight)
      PROVE  LET begun == [flight EXCEPT !.begun = TRUE]
             IN  begun # None /\ begun.msg = flight.msg /\ InFlightType(begun)
  <2> DEFINE begun == [flight EXCEPT !.begun = TRUE]
  <2>1. DOMAIN begun = {"msg", "begun"} /\ begun.msg = flight.msg
    BY <1>1 DEF InFlightType
  <2> HIDE DEF begun
  <2>2. begun # None
    BY <2>1, Something
  <2> QED BY <2>1, <2>2 DEF InFlightType, begun
<1> QED BY <1>1 DEF PartArrives, Shape

\* And that changes nothing else.
LEMMA PartArrivesKeeps ==
    ASSUME HandshakeInv, PartArrives
    PROVE  HandshakeInv'
<1> USE DEF HandshakeInv
<1>1. /\ UNCHANGED <<client, server, request, peer, connections>>
      /\ (toServer' = None) = (toServer = None) /\ (toServer # None => toServer'.msg = toServer.msg)
      /\ (toClient' = None) = (toClient = None) /\ (toClient # None => toClient'.msg = toClient.msg)
      /\ InFlightType(toServer') /\ InFlightType(toClient')
  BY PartArrivesIs
<1>2. Shape'
  BY <1>1 DEF Shape, ServerType, RequestType, Settings
<1>3. TypeOK'
  BY <1>1 DEF TypeOK
<1>4. Causes' /\ SameConnection' /\ EstablishedByAnswer' /\ JudgedRight' /\ HeaderUnderstood'
  BY <1>1 DEF Causes, SameConnection, EstablishedByAnswer, JudgedRight, HeaderUnderstood
<1> QED BY <1>2, <1>3, <1>4

\* accept: judged by what the request says, and what is in flight to the client is not touched.
LEMMA AcceptKeeps ==
    ASSUME HandshakeInv, Accept
    PROVE  HandshakeInv'
<1> USE DEF HandshakeInv
<1> DEFINE msg == toServer.msg
           fault == RequestFault(msg)
<1>1. PICK exts : /\ exts = IF fault = NoFault THEN Extensions(msg.headers) ELSE <<>>
                  /\ server' = [server EXCEPT !.parsed = TRUE, !.accepted = AcceptedIf(Judged(msg, fault, exts)),
                                              !.request = Judged(msg, fault, exts)]
                  /\ toServer' = None
                  /\ UNCHANGED <<client, request, peer, toClient, connections>>
                  /\ toServer # None /\ peer # "server" /\ ~server.parsed
  BY DEF Accept, MayAccept
<1> DEFINE req == Judged(msg, fault, exts)
<1>2. Known(msg)
  BY <1>1 DEF Shape
<1>3. req.error \in {NoFault, "garbage_after_connect"} =>
          req.exts = FlattenSeq(Meanings(msg.headers)) /\ req.got = msg
  <2>1. req.error = (IF fault = NoFault /\ msg.garbage THEN "garbage_after_connect" ELSE fault)
        /\ req.exts = exts /\ req.got = msg
    BY DEF Judged
  <2>2. fault # "garbage_after_connect"
    BY <1>2, RequestFaultIs
  <2>3. Extensions(msg.headers) = FlattenSeq(Meanings(msg.headers))
    BY <1>2, ExtensionsAre DEF Known
  <2> HIDE DEF req, fault, msg
  <2> QED BY <1>1, <2>1, <2>2, <2>3
<1>4. req # None
  <2>1. "got" \in DOMAIN req
    BY DEF Judged
  <2> QED BY <2>1, Something
<1>5. /\ req.got = msg
      /\ req.error = NoFault <=> msg.bad = {} /\ ~msg.garbage
      /\ req.version_ok = (msg.bad # {"unsupported_version"})
  <2>1. req.error = IF fault = NoFault /\ msg.garbage THEN "garbage_after_connect" ELSE fault
    BY DEF Judged
  <2>2. req.version_ok = (fault # "unsupported_version") /\ req.got = msg
    BY DEF Judged
  <2>3. "garbage_after_connect" # NoFault
    BY DEF NoFault
  <2>4. msg.garbage \in BOOLEAN
    BY <1>2 DEF Known
  <2> HIDE DEF req, fault
  <2>5. /\ fault = NoFault <=> msg.bad = {}
        /\ fault = "unsupported_version" <=> msg.bad = {"unsupported_version"}
    BY <1>2, RequestFaultIs DEF fault
  <2> QED BY <2>1, <2>2, <2>3, <2>4, <2>5
<1> HIDE DEF req, msg
<1>6. /\ server'.parsed = TRUE /\ server'.accepted = (req.error = NoFault) /\ server'.request = req
      /\ server'.established = server.established /\ server'.cfg = server.cfg /\ server'.ext = server.ext
      /\ DOMAIN server' = DOMAIN server
  BY <1>1 DEF Shape, ServerType, AcceptedIf, req, msg
<1>7. ~server.established
  BY <1>1 DEF TypeOK
<1>8. Shape'
  BY <1>1, <1>6 DEF Shape, ServerType, RequestType, Settings, InFlightType
<1>9. TypeOK'
  BY <1>1, <1>4, <1>6, <1>7 DEF TypeOK
<1>10. Causes' /\ EstablishedByAnswer'
  BY <1>1, <1>6, <1>7 DEF Causes, EstablishedByAnswer
<1>11. SameConnection'
  BY <1>1, <1>6, <1>7 DEF SameConnection
<1>12. JudgedRight'
  BY <1>5, <1>6 DEF JudgedRight
<1>13. HeaderUnderstood'
  BY <1>3, <1>6 DEF HeaderUnderstood, Meanings
<1> QED BY <1>8, <1>9, <1>10, <1>11, <1>12, <1>13

\* A refusal: what a response with something bad in it leaves.
LEMMA RefusalKeeps ==
    ASSUME HandshakeInv, NEW msg, Refusal(msg), server.parsed, Respond(msg),
           UNCHANGED <<client, server, request, peer, toServer, connections>>
    PROVE  HandshakeInv'
<1> USE DEF HandshakeInv
<1>1. toClient' = toClient \/ (peer # "client" /\ toClient' = InFlight(msg))
  BY DEF Respond
<1>2. peer # "server"
  BY DEF Causes
<1>3. Shape'
  BY <1>1, InFlightIs DEF Shape, ServerType, RequestType, Settings
<1>4. TypeOK' /\ SameConnection' /\ EstablishedByAnswer' /\ JudgedRight' /\ HeaderUnderstood'
  BY DEF TypeOK, SameConnection, EstablishedByAnswer, JudgedRight, HeaderUnderstood
<1>5. Causes'
  BY <1>1, <1>2, InFlightIs DEF Causes
<1> QED BY <1>3, <1>4, <1>5

\* accept_error, both forms: the client is told something bad ...
LEMMA DeclineIs ==
    ASSUME AcceptError \/ Decline
    PROVE  \E msg : Refusal(msg) /\ Respond(msg)
<1>1. /\ 1 \in DOMAIN ResponseChecks /\ ResponseChecks[1] = "unsupported_version"
      /\ 2 \in DOMAIN ResponseChecks /\ ResponseChecks[2] = "response_code_101"
  BY DEF ResponseChecks
<1>2. CASE AcceptError
  <2> DEFINE bad == {IF server.request.version_ok THEN "response_code_101" ELSE "unsupported_version"}
  <2>1. Refusal(ResponseMessage(bad, NoKey, <<>>))
    BY <1>1 DEF ResponseMessage, Refusal
  <2> QED BY <1>2, <2>1 DEF AcceptError
<1>3. CASE Decline
  <2>1. Refusal(ResponseMessage({"response_code_101"}, NoKey, <<>>))
    BY <1>1 DEF ResponseMessage, Refusal
  <2> QED BY <1>3, <2>1 DEF Decline
<1> QED BY <1>2, <1>3

\* ... and nothing else happens.
LEMMA DeclineKeeps ==
    ASSUME HandshakeInv, AcceptError \/ Decline
    PROVE  HandshakeInv'
<1>1. PICK msg : Refusal(msg) /\ Respond(msg)
  BY DeclineIs
<1> QED BY <1>1, RefusalKeeps DEF AcceptError, Decline

\* accept_response: the one message without a fault, from a server then established.
LEMMA AcceptResponseKeeps ==
    ASSUME HandshakeInv, AcceptResponse
    PROVE  HandshakeInv'
<1> USE DEF HandshakeInv
<1>1. PICK offers, chosen :
        /\ chosen = ServerSelects(offers, server.cfg)
        /\ server' = [server EXCEPT !.established = TRUE, !.request = None,
                                    !.ext = IF chosen.result = "success" THEN Ext(chosen.cfg) ELSE @]
        /\ \E exts : Respond(ResponseMessage({}, server.request.key, exts))
  BY DEF AcceptResponse
<1> DEFINE agreed == chosen.result = "success"
           ext == IF agreed THEN Ext(chosen.cfg) ELSE server.ext
<1>2. ext \in Extension /\ (ext # None => ext.cfg \in DeflateConfig /\ ext.connection \in 1 .. connections)
  <2>1. CASE agreed
    <3>1. chosen.cfg \in DeflateConfig
      BY <1>1, <2>1, SelectedType DEF Shape, ServerType
    <3> QED BY <2>1, <3>1 DEF Ext, Extension, Shape
  <2>2. CASE ~agreed
    BY <2>2 DEF TypeOK, Shape, ServerType
  <2> QED BY <2>1, <2>2
<1>3. /\ server'.established = TRUE /\ server'.request = None /\ server'.ext = ext
      /\ server'.parsed = server.parsed /\ server'.accepted = server.accepted /\ server'.cfg = server.cfg
      /\ DOMAIN server' = DOMAIN server
  BY <1>1 DEF Shape, ServerType
<1> HIDE DEF ext
<1>4. /\ server.accepted /\ server.parsed /\ ~server.established /\ peer # "server"
      /\ UNCHANGED <<client, request, peer, toServer, connections>>
  BY DEF AcceptResponse, TypeOK, Causes
<1>5. toClient' = toClient \/ (peer # "client" /\ \E msg : toClient' = InFlight(msg))
  BY <1>1 DEF Respond
<1>6. Shape'
  BY <1>2, <1>3, <1>4, <1>5, InFlightIs DEF Shape, ServerType, RequestType, Settings
<1>7. TypeOK'
  BY <1>2, <1>3, <1>4 DEF TypeOK
<1>8. Causes' /\ SameConnection' /\ EstablishedByAnswer' /\ JudgedRight' /\ HeaderUnderstood'
  BY <1>3, <1>4, <1>5, InFlightIs DEF Causes, SameConnection, EstablishedByAnswer, JudgedRight, HeaderUnderstood
<1> QED BY <1>6, <1>7, <1>8

\* What connect makes of a response.
Result(chosen, error) ==
    [client EXCEPT !.parsed = TRUE, !.established = (error = NoFault), !.error = error, !.key = NoKey,
                   !.ext = IF chosen.result = "success" THEN Ext(chosen.cfg) ELSE @]

\* connect, taken apart.
LEMMA ConnectIs ==
    ASSUME Connect
    PROVE  \E answers, chosen, error :
              LET fault == ResponseFault(toClient.msg, client.key)
              IN  /\ answers = IF fault = NoFault THEN Offers(Extensions(toClient.msg.headers)) ELSE <<>>
                  /\ chosen = ClientSelects(answers, client.cfg)
                  /\ error = IF chosen.result = "error" THEN "deflate_negotiation_failed" ELSE fault
                  /\ client' = Result(chosen, error)
<1> DEFINE msg == toClient.msg
           fault == ResponseFault(msg, client.key)
<1>1. \E f \in {fault} :
      \E answers \in {IF f = NoFault THEN Offers(Extensions(msg.headers)) ELSE <<>>} :
      \E chosen \in {ClientSelects(answers, client.cfg)} :
      \E error \in {IF chosen.result = "error" THEN "deflate_negotiation_failed" ELSE f} :
         client' = Result(chosen, error)
  BY Zenon DEF Connect, Result
<1> HIDE DEF fault, msg
<1>2. PICK answers : /\ answers = IF fault = NoFault THEN Offers(Extensions(msg.headers)) ELSE <<>>
                     /\ \E chosen \in {ClientSelects(answers, client.cfg)} :
                        \E error \in {IF chosen.result = "error" THEN "deflate_negotiation_failed" ELSE fault} :
                           client' = Result(chosen, error)
  BY <1>1
<1> QED BY <1>2 DEF fault, msg

\* connect: established by a message without a fault, with the key of this client's request.
LEMMA ConnectKeeps ==
    ASSUME HandshakeInv, Connect
    PROVE  HandshakeInv'
<1> USE DEF HandshakeInv
<1> DEFINE msg == toClient.msg
           fault == ResponseFault(msg, client.key)
<1>1. PICK answers, chosen, error :
        /\ chosen = ClientSelects(answers, client.cfg)
        /\ error = IF chosen.result = "error" THEN "deflate_negotiation_failed" ELSE fault
        /\ client' = Result(chosen, error)
  BY ConnectIs
<1>2. /\ toClient # None /\ client.requested /\ ~client.parsed /\ ~client.established
      /\ toClient' = None /\ UNCHANGED <<server, request, peer, toServer, connections>>
  BY DEF Connect, MayConnect, TypeOK
<1>3. fault \in ClientErrors /\ (fault = NoFault => msg.key = client.key /\ ~Refusal(msg))
  BY ResponseFaultIs DEF Refusal
<1> HIDE DEF fault
<1>4. error \in ClientErrors /\ (error = NoFault => fault = NoFault)
  BY <1>1, <1>3 DEF ClientErrors, NoFault
<1> DEFINE ext == IF chosen.result = "success" THEN Ext(chosen.cfg) ELSE client.ext
<1>5. ext \in Extension /\ (ext # None => ext.cfg \in DeflateConfig /\ ext.connection \in 1 .. connections)
  <2>1. CASE chosen.result = "success"
    <3>1. chosen.cfg \in DeflateConfig
      BY <1>1, <2>1, SelectedType DEF Shape, ClientType
    <3> QED BY <2>1, <3>1 DEF Ext, Extension, Shape
  <2>2. CASE chosen.result # "success"
    BY <2>2 DEF TypeOK, Shape, ClientType
  <2> QED BY <2>1, <2>2
<1>6. /\ client'.parsed = TRUE /\ client'.established = (error = NoFault) /\ client'.error = error
      /\ client'.key = 0 /\ client'.ext = ext /\ client'.cfg = client.cfg
      /\ client'.requested = client.requested /\ client'.sent = client.sent
  BY <1>1 DEF Shape, ClientType, NoKey, Result
<1>7. client' \in ClientType
  <2>1. (error = NoFault) \in BOOLEAN
    OBVIOUS
  <2> HIDE DEF ext
  <2>2. client' = [client EXCEPT !.parsed = TRUE, !.established = (error = NoFault), !.error = error,
                                 !.key = NoKey, !.ext = ext]
    BY <1>1 DEF ext, Result
  <2> QED BY <1>4, <1>5, <2>1, <2>2 DEF Shape, ClientType, NoKey
<1> HIDE DEF ext
<1>8. Shape'
  BY <1>2, <1>6, <1>7 DEF Shape, ServerType, RequestType, Settings, InFlightType
<1>9. TypeOK'
  BY <1>2, <1>5, <1>6 DEF TypeOK
<1>10. client'.established => msg.key = client.key /\ ~Refusal(msg)
  BY <1>3, <1>4, <1>6
<1>11. EstablishedByAnswer'
  <2>1. CASE peer = "nobody"
    BY <1>2, <1>6, <2>1 DEF Causes, EstablishedByAnswer
  <2>2. CASE peer = "server"
    <3>1. client.key # WrongKey
      BY DEF Shape, ClientType, WrongKey
    <3>2. client'.established => client'.sent \/ request.key = NoKey
      BY <1>2, <1>6, <1>10, <2>2, <3>1 DEF Causes
    <3> QED BY <1>2, <2>2, <3>2 DEF EstablishedByAnswer
  <2>3. CASE peer = "client"
    BY <1>2, <2>3 DEF Causes
  <2> QED BY <2>1, <2>2, <2>3 DEF Causes
<1>12. Causes'
  BY <1>2, <1>6 DEF Causes
<1>13. SameConnection' /\ JudgedRight' /\ HeaderUnderstood'
  BY <1>2, <1>6, <1>10 DEF SameConnection, JudgedRight, HeaderUnderstood, Causes
<1> QED BY <1>8, <1>9, <1>11, <1>12, <1>13

\* Foreign peers write what they like and touch no parser.
LEMMA ForeignKeeps ==
    ASSUME HandshakeInv, ForeignRequest \/ ForeignResponse
    PROVE  HandshakeInv'
<1> USE DEF HandshakeInv
<1>1. UNCHANGED <<client, server, request, peer, connections>>
  BY DEF ForeignRequest, ForeignResponse
<1>2. TypeOK' /\ SameConnection' /\ EstablishedByAnswer' /\ JudgedRight' /\ HeaderUnderstood'
  BY <1>1 DEF TypeOK, SameConnection, EstablishedByAnswer, JudgedRight, HeaderUnderstood
<1>3. CASE ForeignRequest
  <2>1. PICK msg \in ForeignRequests : toServer' = InFlight(msg)
    BY <1>3 DEF ForeignRequest
  <2>2. peer = "client" /\ toClient' = toClient
    BY <1>3 DEF ForeignRequest
  <2>3. Known(msg)
    BY MessagesAssumption DEF Known
  <2>4. Shape'
    BY <1>1, <2>1, <2>2, <2>3, InFlightIs DEF Shape, ServerType, RequestType, Settings
  <2>5. Causes'
    BY <1>1, <2>2 DEF Causes
  <2> QED BY <1>2, <2>4, <2>5
<1>4. CASE ForeignResponse
  <2>1. PICK msg \in ForeignResponses :
          toClient' = InFlight([msg EXCEPT !.key = IF ~@ THEN WrongKey
                                                   ELSE IF toServer = None THEN NoKey ELSE toServer.msg.key])
    BY <1>4 DEF ForeignResponse
  <2>2. peer = "server" /\ toServer' = toServer
    BY <1>4 DEF ForeignResponse
  <2> DEFINE answer == [msg EXCEPT !.key = IF ~@ THEN WrongKey
                                           ELSE IF toServer = None THEN NoKey ELSE toServer.msg.key]
  <2>3. toServer = None => answer.key \in {WrongKey, NoKey}
    BY MessagesAssumption
  <2> HIDE DEF answer
  <2>4. toClient' = InFlight(answer)
    BY <2>1 DEF answer
  <2>5. Shape'
    BY <1>1, <2>2, <2>4, InFlightIs DEF Shape, ServerType, RequestType, Settings
  <2>6. Causes'
    BY <1>1, <2>2, <2>3, <2>4, InFlightIs DEF Causes
  <2> QED BY <1>2, <2>5, <2>6
<1> QED BY <1>3, <1>4

\* reset drops every message, and the flags.
LEMMA ResetKeeps ==
    ASSUME HandshakeInv, Reset
    PROVE  HandshakeInv'
<1> USE DEF HandshakeInv
<1>1. /\ client' = FreshClient(client.cfg, client.ext) /\ server' = FreshServer(server.cfg, server.ext)
      /\ toServer' = None /\ toClient' = None /\ connections' = connections + 1 /\ peer' = peer
      /\ request' \in {request} \cup {NoRequest} \cup UserRequests
  BY DEF Reset, ResetClient, ResetServer, Requests
<1>2. client' \in ClientType
  BY <1>1 DEF Shape, FreshClient, ClientType, ClientErrors, NoKey
<1>3. ServerType'
  BY <1>1 DEF Shape, FreshServer, ServerType
<1>4. RequestType'
  BY <1>1, UserRequestType DEF Shape, RequestType
<1>5. connections' \in Nat \ {0} /\ \A n \in 1 .. connections : n \in 1 .. connections'
  BY <1>1 DEF Shape
<1>6. Shape'
  <2>1. Settings'
    BY <1>1 DEF Shape, Settings, FreshClient, FreshServer
  <2> QED BY <1>1, <1>2, <1>3, <1>4, <1>5, <2>1 DEF Shape, InFlightType
<1>7. TypeOK'
  BY <1>1, <1>5 DEF TypeOK, FreshClient, FreshServer
<1>8. Causes' /\ SameConnection' /\ EstablishedByAnswer' /\ JudgedRight' /\ HeaderUnderstood'
  BY <1>1 DEF Causes, SameConnection, EstablishedByAnswer, JudgedRight, HeaderUnderstood, FreshClient, FreshServer
<1> QED BY <1>6, <1>7, <1>8

\* Every step keeps the invariant.
LEMMA StepKeeps ==
    ASSUME HandshakeInv, [Next]_vars
    PROVE  HandshakeInv'
<1>1. CASE Next
  BY <1>1, ConnectRequestKeeps, PartArrivesKeeps, AcceptKeeps, DeclineKeeps, AcceptResponseKeeps,
     ConnectKeeps, ForeignKeeps, ResetKeeps DEF Next, Exchange
<1>2. CASE UNCHANGED vars
  BY <1>2 DEF vars, HandshakeInv, Shape, ServerType, RequestType, InFlightType, TypeOK, Causes,
              SameConnection, EstablishedByAnswer, JudgedRight, HeaderUnderstood, Settings
<1> QED BY <1>1, <1>2

\* The inductive invariant, for every behaviour.
LEMMA InvariantHolds == Spec => []HandshakeInv
<1>1. Init => HandshakeInv
  BY InitKeeps
<1>2. HandshakeInv /\ [Next]_vars => HandshakeInv'
  BY StepKeeps
<1> QED BY <1>1, <1>2, PTL DEF Spec

-------------------------------------------------------------------------------
(* Between two parsers of the library: what is known on the way.           *)

\* What the theorem about it needs. The program writes its extensions so that they can be read
\* back, and no server asks for client_no_takeover itself (it would not tell the client of it).
ReadableRequests == \A r \in UserRequests : r.exts \in Seq(ReadableElements)
ServersTell == \A s \in ServerConfigs : ~s.client_no_takeover

\* The client's own offer, which the server can take.
Taken ==
    /\ client.cfg.on /\ Correct(Request(client.cfg), server.cfg, "server")
    /\ server.ext.cfg = Effective(Request(client.cfg), server.cfg)

\* A response without a fault says what the server's parser does.
Told(msg) ==
    \/ Negotiated(server) /\ Taken /\ msg.headers = Headers(<<AsElement(Request(client.cfg))>>)
    \/ ~Negotiated(server) /\ msg.headers = <<>>

Forth == toServer # None => toServer.msg.headers = Headers(request.exts)
Kept  == server.request # None /\ server.request.error = NoFault => server.request.exts = request.exts
Back  == OwnOffer /\ toClient # None => Refusal(toClient.msg) \/ Told(toClient.msg)

MirrorInv ==
    /\ request.exts \in Seq(ReadableElements)
    /\ Negotiated(client) => client.parsed
    /\ Negotiated(server) => server.established
    /\ peer = "nobody" => Forth /\ Kept /\ Back
    /\ EndsMirror

\* The beginning.
LEMMA MirrorInit ==
    ASSUME ReadableRequests, Init
    PROVE  MirrorInv
<1>1. request \in UserRequests \cup {NoRequest} /\ <<>> \in Seq(ReadableElements) /\ NoRequest.exts = <<>>
  BY DEF Init, Requests, NoRequest
<1>2. request.exts \in Seq(ReadableElements)
  BY <1>1, Zenon DEF ReadableRequests
<1>3. client.ext = None /\ server.ext = None /\ ~client.established /\ server.request = None
      /\ toServer = None /\ toClient = None
  BY DEF Init, FreshClient, FreshServer
<1> QED BY <1>2, <1>3 DEF MirrorInv, Negotiated, Forth, Kept, Back, EndsMirror

\* connect_request, before anything is in flight.
LEMMA MirrorConnectRequest ==
    ASSUME HandshakeInv, MirrorInv, ConnectRequest
    PROVE  MirrorInv'
<1> USE DEF HandshakeInv
<1>1. PICK sent :
        /\ sent = [request EXCEPT !.exts = WithOffer(@, client.cfg),
                                  !.key = IF request.uri /\ @ = NoKey THEN connections ELSE @]
        /\ request' = sent
        /\ client' = [client EXCEPT !.requested = TRUE, !.key = sent.key, !.sent = request.uri]
        /\ toServer' = IF request.uri THEN InFlight(RequestMessage(sent)) ELSE None
  BY DEF ConnectRequest
<1>2. client' .ext = client.ext /\ client'.parsed = client.parsed /\ client'.established = client.established
  BY <1>1 DEF Shape, ClientType
<1>3. /\ ~client.parsed /\ ~client.established /\ ~client.sent
      /\ UNCHANGED <<server, peer, toClient, connections>>
  BY DEF ConnectRequest, TypeOK, Causes
<1>4. request'.exts \in Seq(ReadableElements)
  <2>1. AsElement(Request(client.cfg)) \in ReadableElements
    BY RequestWritten, OfferBack DEF Shape, Settings
  <2>2. WithOffer(request.exts, client.cfg) \in Seq(ReadableElements)
    BY <2>1, AppendProperties DEF WithOffer, MirrorInv
  <2>3. request'.exts = WithOffer(request.exts, client.cfg)
    BY <1>1 DEF Shape, RequestType, NoRequest
  <2> QED BY <2>2, <2>3
<1>5. Forth'
  <2>1. RequestMessage(sent).headers = Headers(sent.exts)
    BY DEF RequestMessage
  <2> QED BY <1>1, <2>1, InFlightIs DEF Forth
<1>6. peer = "nobody" => server.request = None /\ toClient = None
  BY <1>3 DEF Causes, TypeOK
<1> QED BY <1>2, <1>3, <1>4, <1>5, <1>6 DEF MirrorInv, Negotiated, Kept, Back, EndsMirror

\* Steps that touch neither end's extension nor the request.
LEMMA MirrorQuiet ==
    ASSUME MirrorInv, UNCHANGED <<client, request, peer, connections>>,
           server'.ext = server.ext, server'.cfg = server.cfg, server'.established = server.established,
           peer = "nobody" => Forth' /\ Kept',
           peer = "nobody" /\ toClient' # None =>
              Refusal(toClient'.msg) \/ (toClient # None /\ toClient'.msg = toClient.msg)
    PROVE  MirrorInv'
<1>1. (peer = "nobody" => Back)'
  BY DEF MirrorInv, Back, OwnOffer, Told, Taken, Negotiated
<1>2. EndsMirror'
  BY DEF MirrorInv, EndsMirror, OwnOffer, Negotiated
<1> QED BY <1>1, <1>2 DEF MirrorInv, Negotiated

\* Part of a message.
LEMMA MirrorPartArrives ==
    ASSUME HandshakeInv, MirrorInv, PartArrives
    PROVE  MirrorInv'
<1>1. /\ UNCHANGED <<client, server, request, peer, connections>>
      /\ (toServer' = None) = (toServer = None) /\ (toServer # None => toServer'.msg = toServer.msg)
      /\ (toClient' = None) = (toClient = None) /\ (toClient # None => toClient'.msg = toClient.msg)
  BY PartArrivesIs DEF HandshakeInv
<1>2. peer = "nobody" => Forth' /\ Kept'
  BY <1>1 DEF MirrorInv, Forth, Kept
<1> QED BY <1>1, <1>2, MirrorQuiet

\* accept: what was written is read.
LEMMA MirrorAccept ==
    ASSUME HandshakeInv, MirrorInv, Accept
    PROVE  MirrorInv'
<1> USE DEF HandshakeInv
<1>1. PICK req : /\ server' = [server EXCEPT !.parsed = TRUE, !.accepted = AcceptedIf(req), !.request = req]
                 /\ req.error = NoFault => req.exts = Extensions(toServer.msg.headers)
  <2> DEFINE msg == toServer.msg
             fault == RequestFault(msg)
  <2>1. PICK exts : /\ exts = IF fault = NoFault THEN Extensions(msg.headers) ELSE <<>>
                    /\ server' = [server EXCEPT !.parsed = TRUE, !.accepted = AcceptedIf(Judged(msg, fault, exts)),
                                                !.request = Judged(msg, fault, exts)]
    BY DEF Accept
  <2> DEFINE req == Judged(msg, fault, exts)
  <2>2. req.exts = exts /\ req.error = IF fault = NoFault /\ msg.garbage THEN "garbage_after_connect" ELSE fault
    BY DEF Judged
  <2>3. "garbage_after_connect" # NoFault
    BY DEF NoFault
  <2> HIDE DEF req, fault, msg
  <2>4. req.error = NoFault => req.exts = Extensions(msg.headers)
    BY <2>1, <2>2, <2>3
  <2> QED BY <2>1, <2>4 DEF req, msg
<1>2. /\ toServer # None /\ ~server.parsed /\ toServer' = None
      /\ UNCHANGED <<client, request, peer, toClient, connections>>
  BY DEF Accept, MayAccept
<1>3. /\ server'.request = req /\ server'.ext = server.ext /\ server'.cfg = server.cfg
      /\ server'.established = server.established
  BY <1>1 DEF Shape, ServerType
<1>4. peer = "nobody" => Kept'
  <2>1. peer = "nobody" => Extensions(toServer.msg.headers) = request.exts
    BY <1>2, RoundTrip DEF MirrorInv, Forth
  <2> QED BY <1>1, <1>2, <1>3, <2>1 DEF Kept
<1>5. Forth'
  BY <1>2 DEF Forth
<1> QED BY <1>2, <1>3, <1>4, <1>5, MirrorQuiet

\* A refusal.
LEMMA MirrorRefusal ==
    ASSUME MirrorInv, NEW msg, Refusal(msg), Respond(msg),
           UNCHANGED <<client, server, request, peer, toServer, connections>>
    PROVE  MirrorInv'
<1>1. peer = "nobody" => toClient'.msg = msg
  BY InFlightIs DEF Respond
<1>2. peer = "nobody" => Forth' /\ Kept'
  BY DEF MirrorInv, Forth, Kept
<1> QED BY <1>1, <1>2, MirrorQuiet

\* accept_error, both forms.
LEMMA MirrorDecline ==
    ASSUME MirrorInv, AcceptError \/ Decline
    PROVE  MirrorInv'
<1>1. PICK msg : Refusal(msg) /\ Respond(msg)
  BY DeclineIs
<1> QED BY <1>1, MirrorRefusal DEF AcceptError, Decline

\* What the server makes of a request with its client's own offer, or without extensions.
LEMMA ServerTakes ==
    ASSUME HandshakeInv, MirrorInv, OwnOffer, NEW exts \in {request.exts, <<>>},
           ServerSelects(Offers(exts), server.cfg).result = "success"
    PROVE  LET q == Request(client.cfg)
               chosen == ServerSelects(Offers(exts), server.cfg)
           IN  /\ client.cfg.on /\ Correct(q, server.cfg, "server")
               /\ chosen.cfg = Effective(q, server.cfg) /\ Answer(chosen) = q
<1> DEFINE q == Request(client.cfg)
           chosen == ServerSelects(Offers(exts), server.cfg)
           S == Range(request.exts)
           O == {x \in {q} : client.cfg.on}
<1>1. q \in WrittenOffers /\ client.cfg \in DeflateConfig /\ server.cfg \in DeflateConfig
  BY RequestWritten DEF HandshakeInv, Shape, Settings, TypeOK
<1>2. \A e \in S : e.name = Deflate => Offer(e) \in O
  <2>1. Offer(AsElement(q)) = q
    BY <1>1, OfferBack
  <2> HIDE DEF q
  <2>2. \A e \in S : e.name = Deflate => client.cfg.on /\ e = AsElement(q)
    BY DEF OwnOffer, q
  <2> QED BY <2>1, <2>2
<1>3. request.exts \in Seq(S) /\ exts \in Seq(S)
  <2>1. request.exts \in Seq(ReadableElements)
    BY DEF MirrorInv
  <2>2. request.exts \in Seq(S)
    BY <2>1 DEF Range
  <2>3. <<>> \in Seq(S)
    BY EmptySeq
  <2> QED BY <2>2, <2>3
<1>4. Offers(exts) \in Seq(O)
  <2> HIDE DEF O, S
  <2> QED BY <1>2, <1>3, OffersAre
<1>5. server.cfg.on /\ chosen = Select(Offers(exts), server.cfg, "server")
      /\ Select(Offers(exts), server.cfg, "server").result = "success"
  BY DEF ServerSelects, NotFound
<1>6. Offers(exts) # <<>>
  BY <1>5 DEF Select, NotFound
<1>7. client.cfg.on /\ Offers(exts) \in Seq({q})
  <2> HIDE DEF q
  <2> QED BY <1>4, <1>6
<1> HIDE DEF chosen
<1>8. chosen = [result |-> "success", params |-> q, cfg |-> Effective(q, server.cfg)] /\ Correct(q, server.cfg, "server")
  <2> HIDE DEF q
  <2> QED BY <1>5, <1>7, SelectIs
<1>9. Answer(chosen) = q
  BY <1>1, <1>8, AnswerIsRequest
<1>10. chosen.cfg = Effective(q, server.cfg)
  <2> HIDE DEF q
  <2> QED BY <1>8
<1> QED BY <1>7, <1>8, <1>9, <1>10 DEF chosen

\* accept_response: the client is told what the server does.
LEMMA MirrorAcceptResponse ==
    ASSUME HandshakeInv, MirrorInv, AcceptResponse
    PROVE  MirrorInv'
<1> USE DEF HandshakeInv
<1>1. PICK exts :
        LET chosen == ServerSelects(Offers(exts), server.cfg)
            agreed == chosen.result = "success"
        IN  /\ exts \in {server.request.exts, <<>>}
            /\ server' = [server EXCEPT !.established = TRUE, !.request = None,
                                        !.ext = IF agreed THEN Ext(chosen.cfg) ELSE @]
            /\ Respond(ResponseMessage({}, server.request.key,
                                       IF agreed THEN <<AsElement(Answer(chosen))>> ELSE <<>>))
  BY DEF AcceptResponse
<1> DEFINE chosen == ServerSelects(Offers(exts), server.cfg)
           agreed == chosen.result = "success"
           answer == IF agreed THEN <<AsElement(Answer(chosen))>> ELSE <<>>
<1>2. /\ server.accepted /\ ~server.established /\ toClient = None /\ server.request # None
      /\ server.request.error = NoFault /\ ~Negotiated(server)
      /\ UNCHANGED <<client, request, peer, toServer, connections>>
  BY DEF AcceptResponse, TypeOK, MirrorInv
<1>3. /\ server'.established /\ server'.request = None /\ server'.cfg = server.cfg
      /\ server'.ext = IF agreed THEN Ext(chosen.cfg) ELSE server.ext
  BY <1>1 DEF Shape, ServerType
<1>4. PICK msg : Respond(msg) /\ msg.headers = Headers(answer)
  <2>1. Respond(ResponseMessage({}, server.request.key, answer))
    BY <1>1
  <2>2. ResponseMessage({}, server.request.key, answer).headers = Headers(answer)
    BY DEF ResponseMessage
  <2> QED BY <2>1, <2>2
<1>5. EndsMirror'
  BY <1>2 DEF EndsMirror, SameConnection
<1> HIDE DEF chosen
<1>6. agreed => Ext(chosen.cfg) # None /\ Ext(chosen.cfg).cfg = chosen.cfg /\ Ext(chosen.cfg).connection = connections
  <2>1. "cfg" \in DOMAIN Ext(chosen.cfg) /\ Ext(chosen.cfg).cfg = chosen.cfg /\ Ext(chosen.cfg).connection = connections
    BY DEF Ext
  <2> QED BY <2>1, Something
<1>7. ASSUME peer = "nobody", OwnOffer
      PROVE  Told(msg)'
  <2>1. exts \in {request.exts, <<>>}
    BY <1>1, <1>2, <1>7 DEF MirrorInv, Kept
  <2>2. CASE agreed
    <3>1. /\ client.cfg.on /\ Correct(Request(client.cfg), server.cfg, "server")
          /\ chosen.cfg = Effective(Request(client.cfg), server.cfg) /\ Answer(chosen) = Request(client.cfg)
      BY <1>7, <2>1, <2>2, ServerTakes DEF chosen
    <3>2. Negotiated(server)' /\ Taken'
      BY <1>2, <1>3, <1>6, <2>2, <3>1 DEF Negotiated, Taken
    <3>3. msg.headers = Headers(<<AsElement(Request(client.cfg))>>)
      BY <1>4, <2>2, <3>1
    <3> QED BY <1>2, <3>2, <3>3 DEF Told
  <2>3. CASE ~agreed
    <3>1. ~Negotiated(server)'
      BY <1>2, <1>3, <2>3 DEF Negotiated
    <3>2. msg.headers = <<>>
      BY <1>4, <2>3 DEF Headers
    <3> QED BY <3>1, <3>2 DEF Told
  <2> QED BY <2>2, <2>3
<1>8. peer = "nobody" => Back'
  <2>1. OwnOffer' = OwnOffer
    BY <1>2 DEF OwnOffer
  <2>2. peer = "nobody" => toClient'.msg = msg
    BY <1>4, InFlightIs DEF Respond
  <2> QED BY <1>7, <2>1, <2>2 DEF Back, Told
<1>9. peer = "nobody" => Forth' /\ Kept'
  BY <1>2, <1>3 DEF MirrorInv, Forth, Kept
<1> QED BY <1>2, <1>3, <1>5, <1>8, <1>9 DEF MirrorInv, Negotiated

\* What the client makes of a response that tells what the server does.
LEMMA ClientTakes ==
    ASSUME HandshakeInv, MirrorInv, NEW msg, Told(msg)
    PROVE  LET q == Request(client.cfg)
               chosen == ClientSelects(Offers(Extensions(msg.headers)), client.cfg)
           IN  IF Negotiated(server)
               THEN chosen.result = "success" /\ chosen.cfg = Effective(q, client.cfg)
               ELSE chosen.result = "not_found"
<1> DEFINE q == Request(client.cfg)
           answers == Offers(Extensions(msg.headers))
<1>1. q \in WrittenOffers /\ client.cfg \in DeflateConfig /\ server.cfg \in DeflateConfig
  BY RequestWritten DEF HandshakeInv, Shape, Settings, TypeOK
<1>2. CASE Negotiated(server)
  <2> DEFINE e == AsElement(q)
  <2>1. Taken /\ msg.headers = Headers(<<e>>)
    BY <1>2 DEF Told
  <2>2. e \in ReadableElements /\ e.name = Deflate /\ Offer(e) = q
    BY <1>1, OfferBack
  <2> HIDE DEF e
  <2>3. Extensions(msg.headers) = <<e>>
    <3>1. <<e>> \in Seq(ReadableElements)
      BY <2>2
    <3> QED BY <2>1, <3>1, RoundTrip
  <2>4. answers = <<q>>
    <3> HIDE DEF q
    <3>1. \A x \in {e} : x.name = Deflate => Offer(x) \in {q}
      BY <2>2
    <3>2. \A x \in {e} : x.name = Deflate => Offers(<<x>>) = <<Offer(x)>>
      BY <3>1, OffersAre
    <3> QED BY <2>2, <2>3, <3>2
  <2>5. Correct(q, client.cfg, "client")
    BY <1>1, <2>1, ClientAgrees DEF Taken
  <2> HIDE DEF q, answers
  <2>6. ClientSelects(answers, client.cfg) = [result |-> "success", params |-> q, cfg |-> Effective(q, client.cfg)]
    BY <2>1, <2>4, <2>5, SelectOne DEF ClientSelects, Taken
  <2> QED BY <1>2, <2>6 DEF q, answers
<1>3. CASE ~Negotiated(server)
  <2>1. msg.headers = <<>>
    BY <1>3 DEF Told
  <2>2. Extensions(<<>>) = <<>>
    <3>1. <<>> \in Seq(Words)
      OBVIOUS
    <3> QED BY <3>1, OneHeader
  <2>3. Offers(<<>>) = <<>>
    <3>1. \A x \in {} : x.name = Deflate => Offer(x) \in {}
      OBVIOUS
    <3> QED BY <3>1, OffersAre
  <2>4. ClientSelects(<<>>, client.cfg).result = "not_found"
    BY DEF ClientSelects, Select, NotFound
  <2> QED BY <1>3, <2>1, <2>2, <2>3, <2>4
<1> QED BY <1>2, <1>3

\* Both ends of what was taken, side by side.
LEMMA BothEnds ==
    ASSUME NEW c \in DeflateConfig, NEW s \in DeflateConfig, ~s.client_no_takeover
    PROVE  LET client_end == Effective(Request(c), c)
               server_end == Effective(Request(c), s)
           IN  /\ client_end.client_bits = server_end.client_bits /\ client_end.server_bits = server_end.server_bits
               /\ ResetAfterRx(server_end, "server") => ResetAfterTx(client_end, "client")
               /\ ResetAfterRx(client_end, "client") => ResetAfterTx(server_end, "server")
BY EffectiveRequest DEF ResetAfterRx, ResetAfterTx

\* connect: the client does what it was told.
LEMMA MirrorConnect ==
    ASSUME ServersTell, HandshakeInv, MirrorInv, Connect
    PROVE  MirrorInv'
<1> USE DEF HandshakeInv
<1> DEFINE fault == ResponseFault(toClient.msg, client.key)
           answers == IF fault = NoFault THEN Offers(Extensions(toClient.msg.headers)) ELSE <<>>
           chosen == ClientSelects(answers, client.cfg)
           error == IF chosen.result = "error" THEN "deflate_negotiation_failed" ELSE fault
           ext == IF chosen.result = "success" THEN Ext(chosen.cfg) ELSE client.ext
<1>1. client' = Result(chosen, error)
  BY ConnectIs
<1>2. /\ toClient # None /\ ~client.parsed /\ toClient' = None
      /\ UNCHANGED <<server, request, peer, toServer, connections>>
  BY DEF Connect, MayConnect
<1>3. /\ client'.parsed /\ client'.established = (error = NoFault) /\ client'.ext = ext /\ client'.cfg = client.cfg
  BY <1>1 DEF Shape, ClientType, Result
<1>4. error = NoFault => fault = NoFault /\ ~Refusal(toClient.msg)
  <2>1. "deflate_negotiation_failed" # NoFault
    BY DEF NoFault
  <2>2. fault = NoFault => ~Refusal(toClient.msg)
    BY ResponseFaultIs DEF Refusal
  <2> HIDE DEF fault, chosen
  <2> QED BY <2>1, <2>2
<1> HIDE DEF error
<1>5. EndsMirror'
  <2> SUFFICES ASSUME peer' = "nobody", client'.established, OwnOffer'
               PROVE  /\ Negotiated(client)' = Negotiated(server)'
                      /\ Negotiated(client)' =>
                            LET c == client'.ext.cfg
                                s == server'.ext.cfg
                            IN  /\ c.client_bits = s.client_bits /\ c.server_bits = s.server_bits
                                /\ ResetAfterRx(s, "server") => ResetAfterTx(c, "client")
                                /\ ResetAfterRx(c, "client") => ResetAfterTx(s, "server")
    BY Zenon DEF EndsMirror, ResetAfterRx, ResetAfterTx
  <2>1. peer = "nobody" /\ error = NoFault /\ OwnOffer
    BY <1>2, <1>3 DEF OwnOffer
  <2>2. Negotiated(server)' <=> Negotiated(server)
    BY <1>2 DEF Negotiated
  <2>3. Told(toClient.msg) /\ answers = Offers(Extensions(toClient.msg.headers))
    BY <1>2, <1>4, <2>1 DEF MirrorInv, Back
  <2>4. IF Negotiated(server)
        THEN chosen.result = "success" /\ chosen.cfg = Effective(Request(client.cfg), client.cfg)
        ELSE chosen.result = "not_found"
    BY <2>3, ClientTakes
  <2> HIDE DEF chosen
  <2>5. CASE Negotiated(server)
    <3>1. Taken
      BY <2>3, <2>5 DEF Told
    <3>2. ext = Ext(chosen.cfg)
      BY <2>4, <2>5
    <3>3. Ext(chosen.cfg).cfg = chosen.cfg /\ Ext(chosen.cfg).connection = connections /\ Ext(chosen.cfg) # None
      <4>1. "cfg" \in DOMAIN Ext(chosen.cfg) /\ Ext(chosen.cfg).cfg = chosen.cfg /\ Ext(chosen.cfg).connection = connections
        BY DEF Ext
      <4> QED BY <4>1, Something
    <3>4. Negotiated(client)'
      BY <1>2, <1>3, <3>2, <3>3 DEF Negotiated
    <3>5. client.cfg \in DeflateConfig /\ server.cfg \in DeflateConfig /\ ~server.cfg.client_no_takeover
      BY DEF TypeOK, Shape, Settings, ServersTell, Default
    <3>6. ext.cfg = Effective(Request(client.cfg), client.cfg)
          /\ server.ext.cfg = Effective(Request(client.cfg), server.cfg)
      BY <2>4, <2>5, <3>1, <3>2, <3>3 DEF Taken
    <3>7. client'.ext.cfg = Effective(Request(client.cfg), client.cfg)
          /\ server'.ext.cfg = Effective(Request(client.cfg), server.cfg)
      BY <1>2, <1>3, <3>6
    <3> QED BY <2>5, <2>2, <3>4, <3>5, <3>7, BothEnds
  <2>6. CASE ~Negotiated(server)
    <3>1. client'.ext = client.ext
      BY <1>3, <2>4, <2>6
    <3>2. ~Negotiated(client)'
      BY <1>2, <3>1 DEF MirrorInv, Negotiated
    <3> QED BY <2>6, <2>2, <3>2 DEF Negotiated
  <2> QED BY <2>5, <2>6
<1>6. peer = "nobody" => Forth' /\ Kept' /\ Back'
  BY <1>2 DEF MirrorInv, Forth, Kept, Back
<1> QED BY <1>2, <1>3, <1>5, <1>6 DEF MirrorInv, Negotiated

\* With a foreign peer nothing is promised.
LEMMA MirrorForeign ==
    ASSUME HandshakeInv, MirrorInv, ForeignRequest \/ ForeignResponse
    PROVE  MirrorInv'
BY DEF ForeignRequest, ForeignResponse, MirrorInv, Negotiated, EndsMirror

\* reset: what was negotiated was for another connection.
LEMMA MirrorReset ==
    ASSUME ReadableRequests, HandshakeInv, MirrorInv, Reset
    PROVE  MirrorInv'
<1> USE DEF HandshakeInv
<1>1. /\ client' = FreshClient(client.cfg, client.ext) /\ server' = FreshServer(server.cfg, server.ext)
      /\ toServer' = None /\ toClient' = None /\ connections' = connections + 1 /\ peer' = peer
      /\ request' \in {request} \cup {NoRequest} \cup UserRequests
  BY DEF Reset, ResetClient, ResetServer, Requests
<1>2. request'.exts \in Seq(ReadableElements)
  <2>1. <<>> \in Seq(ReadableElements) /\ NoRequest.exts = <<>>
    BY DEF NoRequest
  <2> QED BY <1>1, <2>1, Zenon DEF ReadableRequests, MirrorInv
<1>3. client'.ext = client.ext /\ server'.ext = server.ext /\ ~client'.established /\ server'.request = None
  BY <1>1 DEF FreshClient, FreshServer
<1>4. ~Negotiated(client)' /\ ~Negotiated(server)'
  <2>1. \A p \in {client, server} : p.ext # None => p.ext.connection # connections + 1
    BY DEF TypeOK, Shape
  <2> QED BY <1>1, <1>3, <2>1 DEF Negotiated
<1> QED BY <1>1, <1>2, <1>3, <1>4 DEF MirrorInv, Forth, Kept, Back, EndsMirror

\* Every step.
LEMMA MirrorStep ==
    ASSUME ReadableRequests, ServersTell, HandshakeInv, MirrorInv, [Next]_vars
    PROVE  MirrorInv'
<1>1. CASE Next
  BY <1>1, MirrorConnectRequest, MirrorPartArrives, MirrorAccept, MirrorDecline, MirrorAcceptResponse,
     MirrorConnect, MirrorForeign, MirrorReset DEF Next, Exchange
<1>2. CASE UNCHANGED vars
  BY <1>2 DEF vars, MirrorInv, Negotiated, Forth, Kept, Back, EndsMirror, OwnOffer, Told, Taken
<1> QED BY <1>1, <1>2

-------------------------------------------------------------------------------
(* Theorems. *)

\* The flags, the errors, the request and the extension of both parsers agree with one another.
THEOREM TypeCorrect == Spec => []TypeOK
<1>1. HandshakeInv => TypeOK
  BY DEF HandshakeInv
<1> QED BY <1>1, InvariantHolds, PTL

\* Between two parsers of the library the client is established in answer to its own request.
THEOREM SameConnectionCorrect == Spec => []SameConnection
<1>1. HandshakeInv => SameConnection
  BY DEF HandshakeInv
<1> QED BY <1>1, InvariantHolds, PTL

\* No client is established but by the answer to the request it sent on this connection, with
\* the one exception the code makes: to_string threw and the request has no key.
THEOREM EstablishedCorrect == Spec => []EstablishedByAnswer
<1>1. HandshakeInv => EstablishedByAnswer
  BY DEF HandshakeInv
<1> QED BY <1>1, InvariantHolds, PTL

\* Requests are accepted, and 426 is kept, for exactly those they are meant for.
THEOREM JudgedCorrect == Spec => []JudgedRight
<1>1. HandshakeInv => JudgedRight
  BY DEF HandshakeInv
<1> QED BY <1>1, InvariantHolds, PTL

\* The extensions of a request are those its headers mean, whatever they say, if each token fits
\* into the buffer of parse_header_value.
THEOREM HeaderUnderstoodCorrect == Spec => []HeaderUnderstood
<1>1. HandshakeInv => HeaderUnderstood
  BY DEF HandshakeInv
<1> QED BY <1>1, InvariantHolds, PTL

\* Two parsers of the library agree on the extension, whatever their settings and the program's
\* own extensions, as long as these can be read back and no server drops the client's context
\* without being asked.
THEOREM MirrorCorrect ==
    ASSUME ReadableRequests, ServersTell
    PROVE  Spec => []EndsMirror
<1>1. Init => MirrorInv
  BY MirrorInit
<1>2. HandshakeInv /\ MirrorInv /\ [Next]_vars => MirrorInv'
  BY MirrorStep
<1>3. MirrorInv => EndsMirror
  BY DEF MirrorInv
<1> QED BY <1>1, <1>2, <1>3, InvariantHolds, PTL DEF Spec

\* What was refused stays refused until the parser is reset.
THEOREM RefusedCorrect == Spec => RefusedForGood
<1> DEFINE Stays == connections' = connections =>
          /\ client.parsed /\ ~client.established => ~client'.established
          /\ server.parsed /\ ~server.accepted => ~server'.accepted
<1>1. HandshakeInv /\ [Next]_vars => [Stays]_vars
  <2> SUFFICES ASSUME HandshakeInv, Next PROVE Stays
    BY DEF HandshakeInv
  <2>1. CASE ConnectRequest
    BY <2>1 DEF ConnectRequest, HandshakeInv, TypeOK
  <2>2. CASE PartArrives
    BY <2>2 DEF PartArrives
  <2>3. CASE Accept
    BY <2>3 DEF Accept, MayAccept
  <2>4. CASE AcceptError \/ Decline \/ ForeignRequest \/ ForeignResponse
    BY <2>4 DEF AcceptError, Decline, ForeignRequest, ForeignResponse
  <2>5. CASE AcceptResponse
    BY <2>5 DEF AcceptResponse
  <2>6. CASE Connect
    BY <2>6 DEF Connect, MayConnect
  <2>7. CASE Reset
    BY <2>7 DEF Reset, HandshakeInv, Shape
  <2> QED BY <2>1, <2>2, <2>3, <2>4, <2>5, <2>6, <2>7 DEF Next, Exchange
<1> QED BY <1>1, InvariantHolds, PTL DEF Spec, RefusedForGood
===============================================================================
