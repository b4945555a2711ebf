------------------------------ MODULE RangeSearch ------------------------------
(***************************************************************************)
(* ranges::KmpFinder searching what ranges::joiner joins: a pattern is     *)
(* looked for in containers that stand for one sequence, and the search    *)
(* goes on in the next range where the last one ended. One action per turn *)
(* of the loops in the constructor and in find, and the calls of the       *)
(* program between them.                                                   *)
(***************************************************************************)
EXTENDS Integers, Sequences, SequencesExt

CONSTANTS
    Alphabet,       \* what containers hold
    Patterns,       \* the patterns: non-empty sequences
    Texts,          \* the ranges: sequences of containers
    MaxRead         \* bound on the elements read between two resets

ASSUME PatternsAssumption == Patterns \subseteq Seq(Alphabet) \ {<<>>}
ASSUME TextsAssumption == Texts \subseteq Seq(Seq(Alphabet))

VARIABLES
    pattern, prefix, j, \* the finder: what it looks for, its table, how much of it was read
    len,            \* the constructor's len
    containers,     \* the range: a sequence of sequences
    begin, iter,    \* find's argument and its iterator
    finding,        \* inside find
    result,         \* what find returned
    astray,         \* what was read outside of the range or the pattern was taken for a match
    read,           \* history: the elements read since the last reset()
    misused         \* history: find was called since then where it reads outside

vars == <<pattern, prefix, j, len, containers, begin, iter, finding, result, astray, read, misused>>

-------------------------------------------------------------------------------
(* JoinerIterator: a container and an element of it. *)

Position(container, element) == [container |-> container, element |-> element]

IsEnd(it) == it.container = Len(containers) + 1

\* Mutant: the element of the container before is kept.
SettleKeepsElement(cs, it) ==
    LET later == {k \in it.container + 1 .. Len(cs) : cs[k] # <<>>}
        next  == CHOOSE k \in later : \A m \in later : k <= m
    IN  IF it.element <= Len(cs[it.container]) THEN it
        ELSE IF later = {} THEN Position(Len(cs) + 1, 1)
        ELSE Position(next, it.element)

\* find_new_begin: from the end of a container to the next one that is not empty. At the
\* end of them all the element means nothing.
Settle(cs, it) ==
    LET later == {k \in it.container + 1 .. Len(cs) : cs[k] # <<>>}
        next  == CHOOSE k \in later : \A m \in later : k <= m
    IN  IF it.element <= Len(cs[it.container]) THEN it
        ELSE IF later = {} THEN Position(Len(cs) + 1, 1)
        ELSE Position(next, 1)

First(cs) == IF cs = <<>> THEN Position(1, 1) ELSE Settle(cs, Position(1, 1))

\* set_position, to an element there is.
Elements(cs) == UNION {{Position(k, e) : e \in 1 .. Len(cs[k])} : k \in 1 .. Len(cs)}

Element(it) == containers[it.container][it.element]

Incremented(it) == Settle(containers, [it EXCEPT !.element = @ + 1])

\* operator==: the ends are equal whatever their elements.
Same(a, b) == a.container = b.container /\ (a.element = b.element \/ IsEnd(a))

-------------------------------------------------------------------------------
(* KmpFinder's constructor: a turn of its loop. prefix[i] is to be the length of the *)
(* longest proper prefix of the first i elements that is also a suffix of them.      *)

Constructing == Len(prefix) < Len(pattern)

\* pattern[i] == pattern[len]
Continues == pattern[Len(prefix) + 1] = pattern[len + 1]

Lengthen ==
    /\ Constructing /\ Continues
    /\ len' = len + 1
    /\ prefix' = Append(prefix, len + 1)
    /\ UNCHANGED <<pattern, j, containers, begin, iter, finding, result, astray, read, misused>>

\* Mutant: after a mismatch the length found so far is given up.
ShortenToNone ==
    /\ Constructing /\ ~Continues /\ len # 0
    /\ len' = 0
    /\ UNCHANGED <<pattern, prefix, j, containers, begin, iter, finding, result, astray, read, misused>>

Shorten ==
    /\ Constructing /\ ~Continues /\ len # 0
    /\ len' = prefix[len]
    /\ UNCHANGED <<pattern, prefix, j, containers, begin, iter, finding, result, astray, read, misused>>

GiveUp ==
    /\ Constructing /\ ~Continues /\ len = 0
    /\ prefix' = Append(prefix, 0)
    /\ UNCHANGED <<pattern, j, len, containers, begin, iter, finding, result, astray, read, misused>>

-------------------------------------------------------------------------------
(* KmpFinder::find: a turn of its loop. *)

\* Mutant: only the end of the pattern ends it.
TakeToTheEnd(length, at) ==
    LET after == Incremented(at) IN
    /\ j' = length
    /\ iter' = after
    /\ read' = Append(read, Element(at))
    /\ IF length = Len(pattern) THEN finding' = FALSE /\ result' = after
       ELSE UNCHANGED <<finding, result>>

\* The element under the iterator is read; find returns at the end of the pattern or of the range.
Take(length, at) ==
    LET after == Incremented(at) IN
    /\ j' = length
    /\ iter' = after
    /\ read' = Append(read, Element(at))
    /\ IF length = Len(pattern) THEN finding' = FALSE /\ result' = after
       ELSE IF IsEnd(after) THEN finding' = FALSE /\ result' = begin
       ELSE UNCHANGED <<finding, result>>

Turning == finding /\ ~astray

\* There is no *iter, or no pattern[j].
Outside == IsEnd(iter) \/ j = Len(pattern)

\* The two are compared all the same, and what is read outside may be anything.
Fits == ~Outside /\ Element(iter) = pattern[j + 1]
Differs == ~Outside => Element(iter) # pattern[j + 1]

Compare ==
    /\ Turning /\ Fits
    /\ Take(j + 1, iter)
    /\ UNCHANGED <<pattern, prefix, len, containers, begin, astray, misused>>

\* It is taken for a match: find goes on behind the end of the one or of the other, and
\* nothing of that is modelled.
GoAstray ==
    /\ Turning /\ Outside
    /\ astray' = TRUE
    /\ UNCHANGED <<pattern, prefix, j, len, containers, begin, iter, finding, result, read, misused>>

\* Mutant: the element that did not fit is passed over.
FallBackAndPass ==
    /\ Turning /\ Differs /\ ~Outside /\ j # 0
    /\ Take(prefix[j], iter)
    /\ UNCHANGED <<pattern, prefix, len, containers, begin, astray, misused>>

\* Mutant: the table is read one place too far.
FallBackOffByOne ==
    /\ Turning /\ Differs /\ ~Outside /\ j # 0
    /\ j' = prefix[j + 1]
    /\ UNCHANGED <<pattern, prefix, len, containers, begin, iter, finding, result, astray, read, misused>>

FallBack ==
    /\ Turning /\ Differs /\ j # 0
    /\ j' = prefix[j]
    /\ UNCHANGED <<pattern, prefix, len, containers, begin, iter, finding, result, astray, read, misused>>

\* std::find passes over an element that cannot begin the pattern (what it stops at, Compare takes).
Skip ==
    /\ Turning /\ Differs /\ j = 0 /\ ~IsEnd(iter)
    /\ Take(0, iter)
    /\ UNCHANGED <<pattern, prefix, len, containers, begin, astray, misused>>

\* It finds nothing at the end.
FindNothing ==
    /\ Turning /\ Differs /\ j = 0 /\ IsEnd(iter)
    /\ finding' = FALSE /\ result' = begin
    /\ UNCHANGED <<pattern, prefix, j, len, containers, begin, iter, astray, read, misused>>

-------------------------------------------------------------------------------
(* The program between two calls of find. *)

Idle == ~Constructing /\ ~finding

\* find looks neither at whether there is an element nor at whether the whole pattern is held.
Call(cs, it) ==
    /\ Len(read) + Len(FlattenSeq(cs)) <= MaxRead
    /\ containers' = cs /\ begin' = it /\ iter' = it /\ result' = it
    /\ finding' = TRUE
    /\ misused' = (misused \/ it.container > Len(cs) \/ j = Len(pattern))
    /\ UNCHANGED <<pattern, prefix, j, len, astray, read>>

\* The next range, from its first element or from one that set_position sets.
FindInNext == Idle /\ \E cs \in Texts : \E it \in {First(cs)} \cup Elements(cs) : Call(cs, it)

\* On from where find returned.
FindOn == Idle /\ Call(containers, result)

Reset ==
    /\ Idle
    /\ j' = 0 /\ read' = <<>> /\ misused' = FALSE
    /\ UNCHANGED <<pattern, prefix, len, containers, begin, iter, finding, result, astray>>

Init ==
    /\ pattern \in Patterns /\ prefix = <<0>> /\ len = 0
    /\ j = 0 /\ finding = FALSE /\ containers = <<>>
    /\ begin = Position(1, 1) /\ iter = begin /\ result = begin
    /\ astray = FALSE /\ read = <<>> /\ misused = FALSE

Construct == Lengthen \/ Shorten \/ GiveUp
Turn == Compare \/ GoAstray \/ FallBack \/ Skip \/ FindNothing
Next == Construct \/ Turn \/ FindInNext \/ FindOn \/ Reset

Spec == Init /\ [][Next]_vars
FairSpec == Spec /\ WF_vars(Construct) /\ WF_vars(Turn)
===============================================================================
