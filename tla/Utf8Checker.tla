------------------------------- MODULE Utf8Checker -------------------------------
(***************************************************************************)
(* Utf8Checker, the incremental validator of UTF-8 that Parser runs over   *)
(* the payloads of a TEXT message: write takes the next piece of the text, *)
(* finish ends it. Between pieces the checker keeps the bytes of a code    *)
(* point that was cut (cp_ .. p_) and how many it lacks (need_).           *)
(*                                                                         *)
(* The loops of write over words and over groups of four bytes decide      *)
(* nothing that valid and needed do not decide on the bytes they skip:     *)
(* here the text is read one code point at a time. Masks such as           *)
(* (b & 0xe0) == 0xc0 are written as ranges.                               *)
(***************************************************************************)
EXTENDS Integers, Sequences

CONSTANTS
    Bytes,        \* the bytes a text is made of, a subset of 0 .. 255
    MaxPiece,     \* bound: bytes of a piece
    MaxText       \* bound: bytes of a text

ASSUME BytesAssumption == Bytes \subseteq 0 .. 255
ASSUME LimitsAssumption == MaxPiece \in Nat /\ MaxText \in Nat

VARIABLES
    need,     \* need_
    cp,       \* the bytes from cp_ up to p_
    verdict,  \* what the last call returned; none since reset
    text,     \* history: the bytes written since reset
    ends      \* history: the positions in text where a piece ended

vars == <<need, cp, verdict, text, ends>>

-------------------------------------------------------------------------------
(* One code point. *)

Continuation(b) == b \in 128 .. 191

\* Mutant: surrogates are let through.
ValidWithSurrogates(s) ==
    \/ s[1] < 128
    \/ s[1] \in 194 .. 223 /\ Continuation(s[2])
    \/ /\ s[1] \in 224 .. 239 /\ Continuation(s[2]) /\ Continuation(s[3])
       /\ ~(s[1] = 224 /\ s[2] \in 128 .. 159)
    \/ /\ s[1] \in 240 .. 244 /\ \A i \in 2 .. 4 : Continuation(s[i])
       /\ ~(s[1] = 240 /\ s[2] \in 128 .. 143)
       /\ ~(s[1] = 244 /\ s[2] > 143)

\* valid: the bytes at the front of s are a code point. As many are there as needed says.
Valid(s) ==
    \/ s[1] < 128
    \/ s[1] \in 194 .. 223 /\ Continuation(s[2])
    \/ /\ s[1] \in 224 .. 239 /\ Continuation(s[2]) /\ Continuation(s[3])
       /\ ~(s[1] = 224 /\ s[2] \in 128 .. 159)
       /\ ~(s[1] = 237 /\ s[2] \in 160 .. 191)
    \/ /\ s[1] \in 240 .. 244 /\ \A i \in 2 .. 4 : Continuation(s[i])
       /\ ~(s[1] = 240 /\ s[2] \in 128 .. 143)
       /\ ~(s[1] = 244 /\ s[2] > 143)

\* needed: the bytes of a code point that starts with b, 0 if none does.
Needed(b) ==
    CASE b < 128         -> 1
      [] b \in 192 .. 223 -> 2
      [] b \in 224 .. 239 -> 3
      [] b \in 240 .. 247 -> 4
      [] OTHER           -> 0

\* Mutant: the missing bytes are taken to be 0xbf.
MayStillBeValidHigh(s) == Valid(s \o [i \in 1 .. 4 - Len(s) |-> 191])

\* fail_fast, negated: could a code point that was cut here still be valid? The
\* missing bytes are taken to be 0x81.
MayStillBeValid(s) == Valid(s \o [i \in 1 .. 4 - Len(s) |-> 129])

-------------------------------------------------------------------------------
(* A piece. *)

State(ok, lacking, held) == [ok |-> ok, need |-> lacking, cp |-> held]

\* Mutant: the bytes of a code point cut at the end are not kept.
TailStateDropped(rest) ==
    State(MayStillBeValid(rest), 0, <<>>)

\* The end of a piece inside a code point.
TailState(rest) ==
    State(MayStillBeValid(rest), Needed(rest[1]) - Len(rest), rest)

\* The rest of write, from a position where a code point starts.
Scan(s) ==
    LET from[i \in 1 .. Len(s) + 1] ==
            LET rest == SubSeq(s, i, Len(s))
                n    == Needed(s[i])
            IN  CASE i > Len(s)      -> State(TRUE, 0, <<>>)
                  [] i <= Len(s) /\ (n = 0 \/ (n <= Len(rest) /\ ~Valid(rest))) -> State(FALSE, 0, <<>>)
                  [] i <= Len(s) /\ n > Len(rest)                               -> TailState(rest)
                  [] OTHER           -> from[i + n]
    IN  from[1]

\* write, as far as it completes the code point that was cut before this piece.
Completed(s) ==
    LET n    == IF Len(s) < need THEN Len(s) ELSE need
        held == cp \o SubSeq(s, 1, n)
    IN  IF n < need THEN State(MayStillBeValid(held), need - n, held)
        ELSE IF ~Valid(held) THEN State(FALSE, 0, held)
        ELSE Scan(SubSeq(s, n + 1, Len(s)))

Write(s) ==
    LET after == IF need > 0 THEN Completed(s) ELSE Scan(s) IN
    /\ verdict \in {"none", "fits"}
    /\ Len(text) + Len(s) <= MaxText
    /\ need' = after.need
    /\ cp' = after.cp
    /\ verdict' = IF after.ok THEN "fits" ELSE "misfit"
    /\ text' = text \o s
    /\ ends' = ends \cup {Len(text')}

\* Parser calls finish after the last piece, and only if it fitted.
Finish ==
    /\ verdict = "fits"
    /\ verdict' = IF need = 0 THEN "accepted" ELSE "unfinished"
    /\ need' = 0 /\ cp' = <<>>
    /\ UNCHANGED <<text, ends>>

\* The error path of _parse_frame resets the checker; so does finish.
Reset ==
    /\ verdict \in {"accepted", "unfinished", "misfit"}
    /\ need' = 0 /\ cp' = <<>> /\ verdict' = "none"
    /\ text' = <<>> /\ ends' = {}

Init ==
    /\ need = 0 /\ cp = <<>> /\ verdict = "none"
    /\ text = <<>> /\ ends = {}

Next ==
    \/ \E n \in 0 .. MaxPiece : \E s \in [1 .. n -> Bytes] : Write(s)
    \/ Finish
    \/ Reset

Spec == Init /\ [][Next]_vars
===============================================================================
