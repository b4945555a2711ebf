------------------------ MODULE RangeSearchProperties ------------------------
(***************************************************************************)
(* What a search must find.                                                *)
(***************************************************************************)
EXTENDS RangeSearch

\* Whatever an earlier range left, and however many containers are empty: iterators stand at
\* elements or at the end, and pattern[len] and prefix[len - 1] exist in the constructor. find
\* compares *iter with pattern[j] without a look at either's bounds (KmpFinder.h:35), so it
\* reads outside if it is called at the end of a range or with the whole pattern held (after
\* a match, without reset); but then in the turns before its first element only: a find that
\* begins inside never comes to read outside, and so none goes astray.
InBounds ==
    /\ \A it \in {begin, iter, result} : it \in Elements(containers) \cup {Position(Len(containers) + 1, 1)}
    /\ Len(prefix) <= Len(pattern)
    /\ \A i \in 1 .. Len(prefix) : prefix[i] \in 0 .. i - 1
    /\ len \in 0 .. Len(prefix) - 1
    /\ j \in 0 .. Len(pattern)
    /\ finding => ~Constructing
    /\ finding /\ Outside => misused /\ iter = begin
    /\ astray => misused

\* The first k elements of the pattern are the last k read.
Holds(k) == k <= Len(read) /\ SubSeq(pattern, 1, k) = SubSeq(read, Len(read) - k + 1, Len(read))

\* The lengths of the proper beginnings of s that s ends with.
Borders(s) == {k \in 0 .. Len(s) - 1 : SubSeq(s, 1, k) = SubSeq(s, Len(s) - k + 1, Len(s))}

\* When find has returned, it holds the longest beginning of the pattern that the rest of
\* an occurrence could still complete: nothing that spans two ranges is lost, and nothing
\* that is no occurrence is kept (the prefix table, j across calls). What it holds the elements
\* read do end with in any case; that it is the longest, if find was not called since the last
\* reset where it reads outside: in an empty range it may give up what it held.
LongestHeld ==
    /\ \A i \in DOMAIN prefix :
          LET borders == Borders(SubSeq(pattern, 1, i)) IN
          prefix[i] \in borders /\ \A k \in borders : k <= prefix[i]
    /\ ~finding => Holds(j)
    /\ ~finding /\ ~misused => \A k \in j + 1 .. Len(pattern) : ~Holds(k)

OccursAt(i) == SubSeq(read, i, i + Len(pattern) - 1) = pattern

\* find answers with the first occurrence since the last reset and leaves the iterator behind it;
\* if there is none it answers with the argument, which an occurrence never does. Not asked
\* after a call that reads outside, as in LongestHeld: a find in an empty range may lose the
\* beginning of an occurrence, and one that is not reset after a match goes on to the next.
FindsFirst ==
    ~finding /\ ~misused /\ read # <<>> =>
        LET places == {i \in 1 .. Len(read) - Len(pattern) + 1 : OccursAt(i)} IN
        /\ places = IF Same(result, begin) THEN {} ELSE {Len(read) - Len(pattern) + 1}
        /\ ~Same(result, begin) => result = iter

\* The elements before a position, in all containers.
Before(it) ==
    FlattenSeq(SubSeq(containers, 1, it.container - 1))
        \o (IF IsEnd(it) THEN <<>> ELSE SubSeq(containers[it.container], 1, it.element - 1))

\* What find passes over is what the containers hold one after the other from where it began:
\* however many of them are empty (find_new_begin).
ReadsConcatenation ==
    LET from == Before(begin)
        to   == Before(iter)
        passed == SubSeq(to, Len(from) + 1, Len(to))
    IN  read # <<>> => IsSuffix(passed, read)

\* The constructor comes to its end, and every call of find comes back, those that read
\* outside included, if what they read there is not taken for a match.
FindReturns == (Constructing ~> ~Constructing) /\ (finding ~> ~finding \/ astray)
===============================================================================
