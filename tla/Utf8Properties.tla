------------------------------ MODULE Utf8Properties ------------------------------
(***************************************************************************)
(* UTF-8 by its arithmetic: a code point is a number of at most 21 bits,   *)
(* not a surrogate, written in as few bytes as it takes, six bits to a     *)
(* continuation byte. Nothing here is taken from the checker's tests.      *)
(***************************************************************************)
EXTENDS Utf8Checker

\* How many bits a first byte contributes, in a sequence of n bytes.
LeadBits(n) == CASE n = 1 -> 128 [] n = 2 -> 32 [] n = 3 -> 16 [] n = 4 -> 8

\* What the first byte holds above those bits.
LeadMark(n) == CASE n = 1 -> 0 [] n = 2 -> 192 [] n = 3 -> 224 [] n = 4 -> 240

\* The number that n bytes spell, if they have the form of a code point.
HasForm(s) ==
    /\ s[1] - (s[1] % LeadBits(Len(s))) = LeadMark(Len(s))
    /\ \A i \in 2 .. Len(s) : s[i] - (s[i] % 64) = 128

Number(s) ==
    LET value[i \in 1 .. Len(s)] ==
            IF i = 1 THEN s[1] % LeadBits(Len(s)) ELSE 64 * value[i - 1] + (s[i] % 64)
    IN  value[Len(s)]

\* The least number that takes n bytes.
Least(n) == CASE n = 1 -> 0 [] n = 2 -> 128 [] n = 3 -> 2048 [] n = 4 -> 65536

CodePoint(s) ==
    /\ Len(s) \in 1 .. 4
    /\ HasForm(s)
    /\ Number(s) >= Least(Len(s))
    /\ Number(s) <= 1114111
    /\ Number(s) \notin 55296 .. 57343

\* A sequence cut short that some bytes complete to a code point: the first and the
\* last of the continuation bytes, and the bounds between, decide.
CodePointPrefix(s) ==
    \E n \in 0 .. 3 : \E t \in [1 .. n -> {128, 143, 144, 159, 160, 191}] : CodePoint(s \o t)

\* The positions at which a code point ends, from the start of the text.
Boundaries(s) ==
    LET at[i \in 0 .. Len(s)] ==
            \/ i = 0
            \/ \E k \in 1 .. 4 : k <= i /\ at[i - k] /\ CodePoint(SubSeq(s, i - k + 1, i))
    IN  {i \in 0 .. Len(s) : at[i]}

IsUtf8(s) == Len(s) \in Boundaries(s)

\* Some text goes on from s.
BeginsUtf8(s) == \E i \in Boundaries(s) : i = Len(s) \/ CodePointPrefix(SubSeq(s, i + 1, Len(s)))

-------------------------------------------------------------------------------

\* However a text is cut into pieces, it is accepted only if it is UTF-8 as a whole, and
\* is rejected no later than the first piece that no text can go on from (write, finish).
AcceptsOnlyUtf8 ==
    /\ verdict = "accepted" => IsUtf8(text)
    /\ verdict = "fits" => BeginsUtf8(text)

\* The checker depends on the text, not on its pieces: what it holds between two of
\* them is exactly the code point the text breaks off in, and how many bytes that lacks.
HoldsTheRemainder ==
    verdict = "fits" =>
        \E i \in Boundaries(text) :
            /\ cp = SubSeq(text, i + 1, Len(text))
            /\ need = IF cp = <<>> THEN 0 ELSE Needed(cp[1]) - Len(cp)

\* A piece ended right after the first byte of E0 A0 .. or F0 90 .., which fail_fast
\* takes for an overlong code point.
CutAfterLead == \E i \in ends \ {0} : text[i] \in {224, 240} /\ i - 1 \in Boundaries(text)

\* A piece is rejected only if no text goes on from there, apart from pieces that end
\* after E0 or F0; and at the end only a text that breaks off is.
RejectsOnlyOthers ==
    /\ verdict = "misfit" /\ ~CutAfterLead => ~BeginsUtf8(text)
    /\ verdict = "unfinished" => ~IsUtf8(text)

\* tests/parse/utf8.cc:33-36, "valid utf", "nframes": what is accepted in one piece is
\* accepted in many. So a piece is rejected only if no text goes on from there.
AcceptsInPieces == verdict = "misfit" => ~BeginsUtf8(text)
===============================================================================
