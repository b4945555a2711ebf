------------------------------ MODULE Utf8Proofs ------------------------------
(***************************************************************************)
(* Theorems about Utf8Checker, for texts and pieces of any length and any  *)
(* set of bytes.                                                           *)
(***************************************************************************)
EXTENDS Utf8Properties, Induction, SequenceTheorems, TLAPS

Byte == 0 .. 255

-------------------------------------------------------------------------------
(* One code point: the ranges of valid and needed are the arithmetic of UTF-8. *)

\* The mark of a byte and the range it is in.
LEMMA Marks ==
    ASSUME NEW b \in Byte
    PROVE  /\ b - (b % 128) = 0 <=> b < 128
           /\ b - (b % 32) = 192 <=> b \in 192 .. 223
           /\ b - (b % 16) = 224 <=> b \in 224 .. 239
           /\ b - (b % 8) = 240 <=> b \in 240 .. 247
           /\ b - (b % 64) = 128 <=> Continuation(b)
BY DEF Byte, Continuation

\* The bits of a byte below its mark.
LEMMA BitsBelow ==
    ASSUME NEW b \in Byte
    PROVE  /\ b < 128 => b % 128 = b
           /\ b \in 192 .. 223 => b % 32 = b - 192
           /\ b \in 224 .. 239 => b % 16 = b - 224
           /\ b \in 240 .. 247 => b % 8 = b - 240
           /\ Continuation(b) => b % 64 = b - 128
BY DEF Byte, Continuation

\* Number's recursion, unfolded: a number of four bytes at most has this value.
LEMMA NumberIs ==
    ASSUME NEW s, NEW n \in 1 .. 4, Len(s) = n
    PROVE  LET lead == s[1] % LeadBits(n) IN
           /\ n = 1 => Number(s) = lead
           /\ n = 2 => Number(s) = 64 * lead + (s[2] % 64)
           /\ n = 3 => Number(s) = 64 * (64 * lead + (s[2] % 64)) + (s[3] % 64)
           /\ n = 4 => Number(s) = 64 * (64 * (64 * lead + (s[2] % 64)) + (s[3] % 64)) + (s[4] % 64)
<1> DEFINE lead == s[1] % LeadBits(n)
           two == 64 * lead + (s[2] % 64)
           three == 64 * two + (s[3] % 64)
           four == 64 * three + (s[4] % 64)
           f == [i \in 1 .. n |-> IF i = 1 THEN lead ELSE IF i = 2 THEN two ELSE IF i = 3 THEN three ELSE four]
           value == CHOOSE v : v = [i \in 1 .. n |->
                                      IF i = 1 THEN s[1] % LeadBits(n) ELSE 64 * v[i - 1] + (s[i] % 64)]
           Eqn(v) == v = [i \in 1 .. n |-> IF i = 1 THEN s[1] % LeadBits(n) ELSE 64 * v[i - 1] + (s[i] % 64)]
<1>1. Eqn(f)
  <2>1. ASSUME NEW i \in 1 .. n
        PROVE  f[i] = IF i = 1 THEN s[1] % LeadBits(n) ELSE 64 * f[i - 1] + (s[i] % 64)
    <3>1. i \in 1 .. 4
      <4> HIDE DEF f, Eqn, value, lead, two, three, four
      <4> QED OBVIOUS
    <3>2. f[1] = lead
      OBVIOUS
    <3>3. i >= 2 => i - 1 \in 1 .. n
      BY <3>1
    <3>4. CASE i = 1
      BY <3>2, <3>4
    <3>5. CASE i = 2
      BY <3>2, <3>5
    <3>6. CASE i = 3
      <4>1. f[2] = two /\ f[3] = three
        BY <3>6
      <4> HIDE DEF f, two
      <4> QED BY <3>6, <4>1
    <3>7. CASE i = 4
      <4>1. f[3] = three /\ f[4] = four
        BY <3>7
      <4> HIDE DEF f, three
      <4> QED BY <3>7, <4>1
    <3> QED BY <3>1, <3>4, <3>5, <3>6, <3>7
  <2> QED BY <2>1
<1>2. Eqn(value)
  <2> HIDE DEF f
  <2> QED BY <1>1
<1>3. Number(s) = value[n]
  BY DEF Number
<1>4. value[1] = lead /\ \A i \in 2 .. n : value[i] = 64 * value[i - 1] + (s[i] % 64)
  <2> HIDE DEF value
  <2> QED BY <1>2
<1> HIDE DEF value, f, lead
<1>5. n \in 2 .. 4 => value[2] = two
  BY <1>4
<1>6. n \in 3 .. 4 => value[3] = three
  <2> HIDE DEF two
  <2> QED BY <1>4, <1>5
<1>7. n = 4 => value[4] = four
  <2> HIDE DEF three
  <2> QED BY <1>4, <1>6
<1> HIDE DEF two, three, four
<1>8. /\ n = 1 => Number(s) = lead
      /\ n = 2 => Number(s) = two
      /\ n = 3 => Number(s) = three
      /\ n = 4 => Number(s) = four
  <2>1. CASE n = 1
    BY <1>3, <1>4, <2>1
  <2>2. CASE n = 2
    BY <1>3, <1>5, <2>2
  <2>3. CASE n = 3
    BY <1>3, <1>6, <2>3
  <2>4. CASE n = 4
    BY <1>3, <1>7, <2>4
  <2> QED BY <2>1, <2>2, <2>3, <2>4
<1> QED BY <1>8 DEF two, three, four, lead

\* What a number of that many bytes must be.
InRange(v, n) == v >= Least(n) /\ v <= 1114111 /\ v \notin 55296 .. 57343

\* By ranges: 1, 2, 3 and 4 bytes that have the form of a code point spell
\* one that is neither too long for its value, nor a surrogate, nor above 10FFFF.
LEMMA OneByte ==
    ASSUME NEW s, Len(s) = 1, s[1] \in Byte
    PROVE  CodePoint(s) <=> s[1] < 128
<1>1. LeadBits(1) = 128 /\ LeadMark(1) = 0 /\ Least(1) = 0
  BY SMT DEF LeadBits, LeadMark, Least
<1>2. Number(s) = s[1] % 128
  BY <1>1, NumberIs
<1>3. HasForm(s) <=> s[1] < 128
  BY <1>1, Marks DEF HasForm
<1>4. s[1] < 128 => s[1] % 128 = s[1]
  BY BitsBelow
<1>5. CodePoint(s) <=> HasForm(s) /\ InRange(Number(s), 1)
  BY <1>1, SMT DEF CodePoint, InRange
<1>6. s[1] < 128 => InRange(s[1], 1)
  <2> DEFINE a == s[1]
  <2>1. a \in Byte
    OBVIOUS
  <2> HIDE DEF a
  <2>2. a < 128 => InRange(a, 1)
    BY <1>1, <2>1, SMTT(30) DEF InRange, Byte
  <2> QED BY <2>2 DEF a
<1> QED BY <1>2, <1>3, <1>4, <1>5, <1>6

\* Two bytes: 80 to 7FF. C0 and C1 would spell what one byte can.
LEMMA TwoBytes ==
    ASSUME NEW s, Len(s) = 2, s[1] \in Byte, s[2] \in Byte
    PROVE  CodePoint(s) <=> s[1] \in 194 .. 223 /\ Continuation(s[2])
<1>1. LeadBits(2) = 32 /\ LeadMark(2) = 192 /\ Least(2) = 128
  BY SMT DEF LeadBits, LeadMark, Least
<1>2. Number(s) = 64 * (s[1] % 32) + (s[2] % 64)
  BY <1>1, NumberIs
<1>3. HasForm(s) <=> s[1] \in 192 .. 223 /\ Continuation(s[2])
  <2>1. HasForm(s) <=> s[1] - (s[1] % 32) = 192 /\ s[2] - (s[2] % 64) = 128
    BY <1>1 DEF HasForm
  <2> QED BY <2>1, Marks
<1>4. HasForm(s) => s[1] % 32 = s[1] - 192 /\ s[2] % 64 = s[2] - 128
  BY <1>3, BitsBelow
<1>5. CodePoint(s) <=> HasForm(s) /\ InRange(Number(s), 2)
  BY <1>1, SMT DEF CodePoint, InRange
<1> DEFINE form == s[1] \in 192 .. 223 /\ Continuation(s[2])
           least == s[1] \in 194 .. 223
<1>6. ASSUME HasForm(s) PROVE InRange(Number(s), 2) <=> least
  <2> DEFINE a == s[1]
             b == s[2]
             value == 64 * (a - 192) + (b - 128)
  <2>1. a \in 192 .. 223 /\ b \in 128 .. 191
    BY <1>3, <1>6 DEF Continuation
  <2>2. Number(s) = value
    BY <1>2, <1>4, <1>6
  <2>3. InRange(value, 2) <=> a \in 194 .. 223
    <3> HIDE DEF a, b
    <3> QED BY <1>1, <2>1, SMT DEF InRange
  <2> HIDE DEF value
  <2> QED BY <2>2, <2>3
<1>7. form /\ least <=> s[1] \in 194 .. 223 /\ Continuation(s[2])
  BY SMT
<1>8. HasForm(s) <=> form
  BY <1>3
<1> HIDE DEF form, least
<1>9. CodePoint(s) <=> form /\ least
  BY <1>5, <1>6, <1>8, Zenon
<1> QED BY <1>7, <1>9, Zenon

\* Three bytes: 800 to FFFF. Behind E0 a low byte would spell what two bytes can, behind
\* ED a high one a surrogate.
LEMMA ThreeBytes ==
    ASSUME NEW s, Len(s) = 3, s[1] \in Byte, s[2] \in Byte, s[3] \in Byte
    PROVE  CodePoint(s) <=> /\ s[1] \in 224 .. 239 /\ Continuation(s[2]) /\ Continuation(s[3])
                            /\ s[1] = 224 => s[2] >= 160
                            /\ s[1] = 237 => s[2] < 160
<1>1. LeadBits(3) = 16 /\ LeadMark(3) = 224 /\ Least(3) = 2048
  BY SMT DEF LeadBits, LeadMark, Least
<1>2. Number(s) = 64 * (64 * (s[1] % 16) + (s[2] % 64)) + (s[3] % 64)
  BY <1>1, NumberIs
<1>3. HasForm(s) <=> s[1] \in 224 .. 239 /\ Continuation(s[2]) /\ Continuation(s[3])
  <2>1. HasForm(s) <=> s[1] - (s[1] % 16) = 224 /\ s[2] - (s[2] % 64) = 128 /\ s[3] - (s[3] % 64) = 128
    BY <1>1 DEF HasForm
  <2> QED BY <2>1, Marks
<1>4. HasForm(s) => s[1] % 16 = s[1] - 224 /\ s[2] % 64 = s[2] - 128 /\ s[3] % 64 = s[3] - 128
  BY <1>3, BitsBelow
<1>5. CodePoint(s) <=> HasForm(s) /\ InRange(Number(s), 3)
  BY <1>1, SMT DEF CodePoint, InRange
<1> DEFINE form == s[1] \in 224 .. 239 /\ Continuation(s[2]) /\ Continuation(s[3])
           least == (s[1] = 224 => s[2] >= 160) /\ (s[1] = 237 => s[2] < 160)
<1>6. ASSUME HasForm(s) PROVE InRange(Number(s), 3) <=> least
  <2> DEFINE a == s[1]
             b == s[2]
             c == s[3]
             value == 64 * (64 * (a - 224) + (b - 128)) + (c - 128)
  <2>1. a \in 224 .. 239 /\ b \in 128 .. 191 /\ c \in 128 .. 191
    BY <1>3, <1>6 DEF Continuation
  <2>2. Number(s) = value
    BY <1>2, <1>4, <1>6, SMTT(30)
  <2>3. InRange(value, 3) <=> (a = 224 => b >= 160) /\ (a = 237 => b < 160)
    <3> HIDE DEF a, b, c
    <3> QED BY <1>1, <2>1, SMT DEF InRange
  <2> HIDE DEF value
  <2> QED BY <2>2, <2>3
<1>7. form /\ least <=> /\ s[1] \in 224 .. 239 /\ Continuation(s[2]) /\ Continuation(s[3])
                        /\ s[1] = 224 => s[2] >= 160
                        /\ s[1] = 237 => s[2] < 160
  OBVIOUS
<1>8. HasForm(s) <=> form
  BY <1>3
<1> HIDE DEF form, least
<1>9. CodePoint(s) <=> form /\ least
  BY <1>5, <1>6, <1>8, Zenon
<1> QED BY <1>7, <1>9, Zenon

\* Four bytes: 10000 to 10FFFF. Behind F0 a low byte would spell what three bytes can.
LEMMA FourBytes ==
    ASSUME NEW s, Len(s) = 4, s[1] \in Byte, s[2] \in Byte, s[3] \in Byte, s[4] \in Byte
    PROVE  CodePoint(s) <=> /\ s[1] \in 240 .. 244
                            /\ Continuation(s[2]) /\ Continuation(s[3]) /\ Continuation(s[4])
                            /\ s[1] = 240 => s[2] >= 144
                            /\ s[1] = 244 => s[2] < 144
<1>1. LeadBits(4) = 8 /\ LeadMark(4) = 240 /\ Least(4) = 65536
  BY SMT DEF LeadBits, LeadMark, Least
<1>2. Number(s) = 64 * (64 * (64 * (s[1] % 8) + (s[2] % 64)) + (s[3] % 64)) + (s[4] % 64)
  BY <1>1, NumberIs
<1>3. HasForm(s) <=> s[1] \in 240 .. 247 /\ Continuation(s[2]) /\ Continuation(s[3]) /\ Continuation(s[4])
  <2>1. HasForm(s) <=> /\ s[1] - (s[1] % 8) = 240 /\ s[2] - (s[2] % 64) = 128
                       /\ s[3] - (s[3] % 64) = 128 /\ s[4] - (s[4] % 64) = 128
    BY <1>1 DEF HasForm
  <2> QED BY <2>1, Marks
<1>4. HasForm(s) => /\ s[1] % 8 = s[1] - 240 /\ s[2] % 64 = s[2] - 128
                    /\ s[3] % 64 = s[3] - 128 /\ s[4] % 64 = s[4] - 128
  BY <1>3, BitsBelow
<1>5. CodePoint(s) <=> HasForm(s) /\ InRange(Number(s), 4)
  BY <1>1, SMT DEF CodePoint, InRange
<1> DEFINE form == s[1] \in 240 .. 247 /\ Continuation(s[2]) /\ Continuation(s[3]) /\ Continuation(s[4])
           least == s[1] \in 240 .. 244 /\ (s[1] = 240 => s[2] >= 144) /\ (s[1] = 244 => s[2] < 144)
<1>6. ASSUME HasForm(s) PROVE InRange(Number(s), 4) <=> least
  <2> DEFINE a == s[1]
             b == s[2]
             c == s[3]
             d == s[4]
             value == 64 * (64 * (64 * (a - 240) + (b - 128)) + (c - 128)) + (d - 128)
  <2>1. a \in 240 .. 247 /\ b \in 128 .. 191 /\ c \in 128 .. 191 /\ d \in 128 .. 191
    BY <1>3, <1>6 DEF Continuation
  <2>2. Number(s) = value
    BY <1>2, <1>4, <1>6, SMTT(30)
  <2>3. InRange(value, 4) <=> a \in 240 .. 244 /\ (a = 240 => b >= 144) /\ (a = 244 => b < 144)
    <3> HIDE DEF a, b, c, d
    <3> QED BY <1>1, <2>1, SMT DEF InRange
  <2> HIDE DEF value
  <2> QED BY <2>2, <2>3
<1>7. form /\ least <=> /\ s[1] \in 240 .. 244
                        /\ Continuation(s[2]) /\ Continuation(s[3]) /\ Continuation(s[4])
                        /\ s[1] = 240 => s[2] >= 144
                        /\ s[1] = 244 => s[2] < 144
  BY SMT
<1>8. HasForm(s) <=> form
  BY <1>3
<1> HIDE DEF form, least
<1>9. CodePoint(s) <=> form /\ least
  BY <1>5, <1>6, <1>8, Zenon
<1> QED BY <1>7, <1>9, Zenon

\* A code point is as long as its first byte says, and its bytes are what valid wants.
LEMMA CodePointIs ==
    ASSUME NEW s, Len(s) \in Nat \ {0}, \A i \in 1 .. Len(s) : s[i] \in Byte
    PROVE  CodePoint(s) <=> Len(s) = Needed(s[1]) /\ Valid(s)
<1>1. CodePoint(s) => Len(s) \in 1 .. 4
  BY SMT DEF CodePoint
<1>2. Needed(s[1]) \in 0 .. 4
  BY DEF Needed
<1>3. s[1] \in Byte
  OBVIOUS
<1>4. CASE Len(s) = 1
  BY <1>3, <1>4, OneByte DEF Needed, Valid, Byte
<1>5. CASE Len(s) = 2
  <2>1. s[2] \in Byte
    BY <1>5
  <2> QED BY <1>3, <1>5, <2>1, TwoBytes DEF Needed, Valid, Byte
<1>6. CASE Len(s) = 3
  <2>1. s[2] \in Byte /\ s[3] \in Byte
    BY <1>6
  <2> QED BY <1>3, <1>6, <2>1, ThreeBytes DEF Needed, Valid, Byte, Continuation
<1>7. CASE Len(s) = 4
  <2>1. s[2] \in Byte /\ s[3] \in Byte /\ s[4] \in Byte
    BY <1>7
  <2> QED BY <1>3, <1>7, <2>1, FourBytes DEF Needed, Valid, Byte, Continuation
<1>8. CASE Len(s) \notin 1 .. 4
  <2>1. Len(s) # Needed(s[1])
    <3> DEFINE n == Len(s)
               m == Needed(s[1])
    <3>1. n \in Nat \ {0} /\ n \notin 1 .. 4 /\ m \in 0 .. 4
      BY <1>2, <1>8
    <3> HIDE DEF n, m
    <3>2. n # m
      BY <3>1
    <3> QED BY <3>2 DEF n, m
  <2> QED BY <1>1, <1>8, <2>1
<1>9. Len(s) \notin 1 .. 4 \/ Len(s) = 1 \/ Len(s) = 2 \/ Len(s) = 3 \/ Len(s) = 4
  BY SMT
<1> QED BY <1>4, <1>5, <1>6, <1>7, <1>8, <1>9, Zenon

-------------------------------------------------------------------------------
(* The boundaries of a text. *)

\* A code point ends at i, k bytes long.
Ends(s, i, k) == CodePoint(SubSeq(s, i - k + 1, i))

Recursion(f, s, n) ==
    f = [i \in 0 .. n |-> \/ i = 0
                          \/ \E k \in 1 .. 4 : k <= i /\ f[i - k] /\ Ends(s, i, k)]

\* The recursion in Boundaries defines a function.
LEMMA RecursionExists ==
    ASSUME NEW s, NEW n \in Nat
    PROVE  \E f : Recursion(f, s, n)
<1> DEFINE S == {m \in Nat : \E f : Recursion(f, s, m)}
<1>1. 0 \in S
  <2> DEFINE f == [i \in 0 .. 0 |-> TRUE]
  <2>1. \A i \in 0 .. 0 : i = 0
    OBVIOUS
  <2>2. Recursion(f, s, 0)
    BY <2>1 DEF Recursion
  <2> QED BY <2>2
<1>2. ASSUME NEW m \in Nat, m \in S PROVE m + 1 \in S
  <2>1. PICK f : Recursion(f, s, m)
    BY <1>2
  <2> DEFINE Ended(g, i) == i = 0 \/ \E k \in 1 .. 4 : k <= i /\ g[i - k] /\ Ends(s, i, k)
             g == [i \in 0 .. m + 1 |-> IF i <= m THEN f[i] ELSE Ended(f, i)]
  <2>2. \A i \in 0 .. m : f[i] = Ended(f, i)
    BY <2>1 DEF Recursion
  <2>3. \A i \in 0 .. m : g[i] = f[i]
    BY SMT
  <2>4. ASSUME NEW i \in 0 .. m + 1 PROVE Ended(g, i) <=> Ended(f, i)
    <3>1. ASSUME NEW k \in 1 .. 4, k <= i PROVE g[i - k] = f[i - k]
      <4>1. i - k \in 0 .. m
        BY <3>1, SMT
      <4> HIDE DEF g
      <4> QED BY <2>3, <4>1
    <3> HIDE DEF g
    <3> QED BY <3>1
  <2>5. ASSUME NEW i \in 0 .. m + 1 PROVE g[i] = Ended(g, i)
    <3>1. CASE i <= m
      <4>1. i \in 0 .. m
        BY <3>1, SMT
      <4>2. g[i] = Ended(f, i)
        BY <2>2, <2>3, <4>1, Zenon
      <4> HIDE DEF g
      <4> QED BY <2>4, <4>2, Zenon
    <3>2. CASE ~(i <= m)
      <4>1. g[i] = Ended(f, i)
        BY <3>2, Zenon
      <4> HIDE DEF g
      <4> QED BY <2>4, <4>1, Zenon
    <3> QED BY <3>1, <3>2
  <2>6. g = [i \in 0 .. m + 1 |-> Ended(g, i)]
    <3> HIDE DEF Ended
    <3>1. g = [i \in 0 .. m + 1 |-> g[i]]
      BY Zenon
    <3> QED BY <2>5, <3>1, Zenon
  <2>7. Recursion(g, s, m + 1)
    BY <2>6, Zenon DEF Recursion
  <2> HIDE DEF g, Ended
  <2> QED BY <2>7
<1> HIDE DEF S
<1>3. n \in S
  BY <1>1, <1>2, SetInduction
<1> QED BY <1>3 DEF S

\* A boundary is the start, or the end of a code point that begins at a boundary.
LEMMA BoundariesAre ==
    ASSUME NEW s, Len(s) \in Nat
    PROVE  /\ Boundaries(s) \subseteq 0 .. Len(s)
           /\ 0 \in Boundaries(s)
           /\ \A i \in 0 .. Len(s) :
                 i \in Boundaries(s)
                    <=> i = 0 \/ \E k \in 1 .. 4 : k <= i /\ i - k \in Boundaries(s) /\ Ends(s, i, k)
<1> DEFINE at == CHOOSE f : Recursion(f, s, Len(s))
<1>1. Recursion(at, s, Len(s))
  BY RecursionExists, Zenon
<1>2. Boundaries(s) = {i \in 0 .. Len(s) : at[i]}
  BY Zenon DEF Boundaries, Recursion, Ends
<1> HIDE DEF at
<1>3. \A i \in 0 .. Len(s) : at[i] = (i = 0 \/ \E k \in 1 .. 4 : k <= i /\ at[i - k] /\ Ends(s, i, k))
  BY <1>1 DEF Recursion
<1>4. \A i \in 0 .. Len(s), k \in 1 .. 4 : k <= i => i - k \in 0 .. Len(s)
  BY SMT
<1>5. \A i \in 0 .. Len(s) : i \in Boundaries(s) <=> at[i]
  BY <1>2
<1>6. 0 \in 0 .. Len(s)
  BY SMT
<1>7. ASSUME NEW i \in 0 .. Len(s)
      PROVE  i \in Boundaries(s)
                <=> i = 0 \/ \E k \in 1 .. 4 : k <= i /\ i - k \in Boundaries(s) /\ Ends(s, i, k)
  BY <1>3, <1>4, <1>5, Zenon
<1>8. 0 \in Boundaries(s)
  BY <1>6, <1>7
<1> QED BY <1>2, <1>7, <1>8

-------------------------------------------------------------------------------
(* Pieces of a text. *)

\* A part of a text, byte by byte.
LEMMA Part ==
    ASSUME NEW s \in Seq(Byte), NEW i \in 0 .. Len(s), NEW j \in i .. Len(s)
    PROVE  /\ SubSeq(s, i + 1, j) \in Seq(Byte)
           /\ Len(SubSeq(s, i + 1, j)) = j - i
           /\ \A m \in 1 .. j - i : SubSeq(s, i + 1, j)[m] = s[i + m]
OBVIOUS

\* A text and the next piece, byte by byte.
LEMMA Joined ==
    ASSUME NEW s \in Seq(Byte), NEW t \in Seq(Byte)
    PROVE  /\ s \o t \in Seq(Byte)
           /\ Len(s \o t) = Len(s) + Len(t)
           /\ \A m \in 1 .. Len(s) : (s \o t)[m] = s[m]
           /\ \A m \in 1 .. Len(t) : (s \o t)[Len(s) + m] = t[m]
OBVIOUS

\* Sequences with the same bytes are the same.
LEMMA SameBytes ==
    ASSUME NEW s \in Seq(Byte), NEW t \in Seq(Byte), Len(s) = Len(t), \A m \in 1 .. Len(s) : s[m] = t[m]
    PROVE  s = t
OBVIOUS

\* valid looks at the bytes needed tells it to.
LEMMA ValidLooksAt ==
    ASSUME NEW s, NEW t, s[1] \in Byte, s[1] = t[1],
           \A m \in 1 .. Needed(s[1]) : s[m] = t[m]
    PROVE  Valid(s) <=> Valid(t)
<1>1. CASE s[1] < 128
  BY <1>1 DEF Valid, Byte
<1>2. CASE s[1] \in 192 .. 223
  <2>1. s[2] = t[2]
    BY <1>2 DEF Needed
  <2> QED BY <1>2, <2>1 DEF Valid, Byte
<1>3. CASE s[1] \in 224 .. 239
  <2>1. s[2] = t[2] /\ s[3] = t[3]
    BY <1>3 DEF Needed
  <2> QED BY <1>3, <2>1 DEF Valid, Byte
<1>4. CASE s[1] \in 240 .. 247
  <2>1. s[2] = t[2] /\ s[3] = t[3] /\ s[4] = t[4]
    BY <1>4 DEF Needed
  <2> QED BY <1>4, <2>1 DEF Valid, Byte
<1>5. CASE ~(s[1] < 128 \/ s[1] \in 192 .. 223 \/ s[1] \in 224 .. 239 \/ s[1] \in 240 .. 247)
  BY <1>5 DEF Valid, Byte
<1> QED BY <1>1, <1>2, <1>3, <1>4, <1>5

Rest(s, i) == SubSeq(s, i + 1, Len(s))

\* The code point that starts at i is as long as the byte there says, and ends within the text.
LEMMA EndsIs ==
    ASSUME NEW s \in Seq(Byte), NEW i \in 0 .. Len(s), NEW k \in 1 .. 4, i + k <= Len(s)
    PROVE  Ends(s, i + k, k) <=> k = Needed(s[i + 1]) /\ Valid(Rest(s, i))
<1> DEFINE q == SubSeq(s, i + 1, i + k)
           r == Rest(s, i)
<1>1. Ends(s, i + k, k) <=> CodePoint(q)
  <2>1. (i + k) - k = i
    BY SMT
  <2> QED BY <2>1, Zenon DEF Ends
<1>2. Len(q) = k /\ \A m \in 1 .. k : q[m] = s[i + m]
  BY Part
<1>3. Len(r) = Len(s) - i /\ \A m \in 1 .. Len(s) - i : r[m] = s[i + m]
  BY Part DEF Rest
<1>4. \A m \in 1 .. k : s[i + m] \in Byte
  OBVIOUS
<1>5. \A m \in 1 .. k : q[m] \in Byte /\ q[m] = r[m]
  BY <1>2, <1>3, <1>4
<1> HIDE DEF q, r
<1>6. CodePoint(q) <=> k = Needed(q[1]) /\ Valid(q)
  BY <1>2, <1>5, CodePointIs
<1>7. k = Needed(q[1]) => (Valid(q) <=> Valid(r))
  BY <1>5, ValidLooksAt
<1>8. q[1] = s[i + 1]
  BY <1>2
<1> QED BY <1>1, <1>6, <1>7, <1>8, Zenon DEF r

-------------------------------------------------------------------------------
(* Boundaries of a text and of what it is made of. *)

\* From a boundary a code point leads to another one.
LEMMA BoundaryAfter ==
    ASSUME NEW s \in Seq(Byte), NEW i \in Boundaries(s), NEW n \in 1 .. 4,
           n = Needed(s[i + 1]), i + n <= Len(s), Valid(Rest(s, i))
    PROVE  i + n \in Boundaries(s)
<1>1. Len(s) \in Nat /\ i \in 0 .. Len(s)
  BY BoundariesAre
<1>2. Ends(s, i + n, n)
  BY <1>1, EndsIs
<1>3. i + n \in 0 .. Len(s) /\ n <= i + n /\ (i + n) - n = i
  BY <1>1
<1> QED BY <1>1, <1>2, <1>3, BoundariesAre

Complete(s, i, j) == Needed(s[i + 1]) >= 1 /\ i + Needed(s[i + 1]) <= j /\ Valid(Rest(s, i))

\* Between two boundaries lies the code point that starts at the first: no text can be
\* divided in two ways.
LEMMA BoundaryBefore ==
    ASSUME NEW s \in Seq(Byte), NEW a \in Boundaries(s), NEW z \in Boundaries(s), a < z
    PROVE  Complete(s, a, z)
<1> DEFINE B == Boundaries(s)
           S == {m \in Nat : \A i, j \in B : j <= m /\ i < j => Complete(s, i, j)}
<1>1. Len(s) \in Nat /\ B \subseteq 0 .. Len(s)
  BY BoundariesAre
<1>2. \A i \in B : Needed(s[i + 1]) \in 0 .. 4
  BY DEF Needed
<1>3. 0 \in S
  BY <1>1
<1>4. ASSUME NEW m \in Nat, m \in S PROVE m + 1 \in S
  <2>1. ASSUME NEW i \in B, NEW j \in B, j <= m + 1, i < j PROVE Complete(s, i, j)
    <3>1. CASE j <= m
      BY <1>4, <2>1, <3>1
    <3>2. CASE j = m + 1
      <4>1. PICK k \in 1 .. 4 : k <= j /\ j - k \in B /\ Ends(s, j, k)
        <5>1. j \in 0 .. Len(s) /\ j # 0
          BY <1>1, <2>1
        <5> QED BY <1>1, <5>1, BoundariesAre
      <4> DEFINE b == j - k
      <4>2. b \in 0 .. Len(s) /\ b + k = j /\ b + k <= Len(s) /\ b <= m /\ b \in B
        BY <1>1, <3>2, <4>1
      <4>3. k = Needed(s[b + 1]) /\ Valid(Rest(s, b))
        <5>1. Ends(s, b + k, k)
          BY <4>1, <4>2
        <5> HIDE DEF b
        <5> QED BY <4>2, <5>1, EndsIs
      <4> HIDE DEF b
      <4>4. CASE b = i
        BY <4>2, <4>3, <4>4 DEF Complete
      <4>5. CASE b > i
        <5>1. Complete(s, i, b)
          BY <1>4, <4>2, <4>5
        <5> QED BY <1>1, <1>2, <4>2, <5>1, SMTT(30) DEF Complete
      <4>6. CASE b < i
        <5>1. i <= m
          BY <1>1, <2>1, <3>2
        <5>2. Complete(s, b, i)
          BY <1>4, <4>2, <4>6, <5>1
        <5>3. b + k <= i
          BY <4>3, <5>2 DEF Complete
        <5> QED BY <1>1, <2>1, <4>2, <5>3
      <4> QED BY <1>1, <4>2, <4>4, <4>5, <4>6
    <3> QED BY <1>1, <2>1, <3>1, <3>2
  <2> QED BY <2>1
<1>5. Nat \subseteq S
  <2> HIDE DEF S
  <2> QED BY <1>3, <1>4, SetInduction
<1> QED BY <1>1, <1>5

\* What follows a text moves none of its boundaries.
LEMMA BoundariesStay ==
    ASSUME NEW s \in Seq(Byte), NEW t \in Seq(Byte), NEW a \in 0 .. Len(s)
    PROVE  a \in Boundaries(s) <=> a \in Boundaries(s \o t)
<1> DEFINE u == s \o t
           S == {m \in Nat : \A i \in 0 .. Len(s) : i <= m => (i \in Boundaries(s) <=> i \in Boundaries(u))}
<1>1. u \in Seq(Byte) /\ Len(u) \in Nat /\ Len(s) \in Nat /\ Len(s) <= Len(u)
  BY Joined
<1>2. \A i \in 1 .. Len(s), k \in 1 .. 4 : k <= i => (Ends(s, i, k) <=> Ends(u, i, k))
  <2> TAKE i \in 1 .. Len(s), k \in 1 .. 4
  <2> HAVE k <= i
  <2>1. SubSeq(s, i - k + 1, i) = SubSeq(u, i - k + 1, i)
    OBVIOUS
  <2> QED BY <2>1 DEF Ends
<1> HIDE DEF u
<1>3. 0 \in S
  BY <1>1, BoundariesAre
<1>4. ASSUME NEW m \in Nat, m \in S PROVE m + 1 \in S
  <2>1. ASSUME NEW i \in 0 .. Len(s), i <= m + 1 PROVE i \in Boundaries(s) <=> i \in Boundaries(u)
    <3>1. CASE i <= m
      BY <1>4, <3>1
    <3>2. CASE i = m + 1
      <4>1. i \in 1 .. Len(s) /\ i \in 0 .. Len(u) /\ i # 0
        BY <1>1, <3>2
      <4>2. \A k \in 1 .. 4 : k <= i => (i - k \in Boundaries(s) <=> i - k \in Boundaries(u))
        <5> TAKE k \in 1 .. 4
        <5> HAVE k <= i
        <5>1. i - k \in 0 .. Len(s) /\ i - k <= m
          BY <1>1, <3>2
        <5> QED BY <1>4, <5>1
      <4>3. i \in Boundaries(s) <=> \E k \in 1 .. 4 : k <= i /\ i - k \in Boundaries(s) /\ Ends(s, i, k)
        BY <1>1, <4>1, BoundariesAre
      <4>4. i \in Boundaries(u) <=> \E k \in 1 .. 4 : k <= i /\ i - k \in Boundaries(u) /\ Ends(u, i, k)
        BY <1>1, <4>1, BoundariesAre
      <4> QED BY <1>2, <4>1, <4>2, <4>3, <4>4, Zenon
    <3> QED BY <2>1, <3>1, <3>2
  <2> QED BY <2>1
<1>5. Nat \subseteq S
  <2> HIDE DEF S
  <2> QED BY <1>3, <1>4, SetInduction
<1>6. a \in Nat /\ a <= a
  BY <1>1
<1> QED BY <1>5, <1>6 DEF u

\* The boundaries of a piece that starts at a boundary are boundaries of the whole.
LEMMA BoundariesMove ==
    ASSUME NEW s \in Seq(Byte), NEW t \in Seq(Byte), Len(s) \in Boundaries(s), NEW z \in Boundaries(t)
    PROVE  Len(s) + z \in Boundaries(s \o t)
<1> DEFINE u == s \o t
           S == {m \in Nat : \A i \in Boundaries(t) : i <= m => Len(s) + i \in Boundaries(u)}
<1>1. u \in Seq(Byte) /\ Len(u) = Len(s) + Len(t) /\ Len(s) \in Nat /\ Len(t) \in Nat
  BY Joined
<1>2. \A i \in 1 .. Len(t), k \in 1 .. 4 : k <= i /\ Ends(t, i, k) => Ends(u, Len(s) + i, k)
  <2> TAKE i \in 1 .. Len(t), k \in 1 .. 4
  <2> HAVE k <= i /\ Ends(t, i, k)
  <2> DEFINE b == i - k
             p == SubSeq(t, b + 1, i)
             q == SubSeq(u, (Len(s) + b) + 1, Len(s) + i)
  <2>2. /\ b \in 0 .. Len(t) /\ i \in b .. Len(t)
        /\ Len(s) + b \in 0 .. Len(u) /\ Len(s) + i \in Len(s) + b .. Len(u)
        /\ (Len(s) + i) - (Len(s) + b) = i - b /\ i - b \in Nat
        /\ (Len(s) + i) - k = Len(s) + b
    BY <1>1
  <2>3. \A m \in 1 .. i - b : b + m \in 1 .. Len(t) /\ (Len(s) + b) + m = Len(s) + (b + m)
    BY <1>1, <2>2
  <2> HIDE DEF b, u
  <2>4. p \in Seq(Byte) /\ Len(p) = i - b /\ \A m \in 1 .. i - b : p[m] = t[b + m]
    BY <2>2, Part
  <2>5. q \in Seq(Byte) /\ Len(q) = i - b /\ \A m \in 1 .. i - b : q[m] = u[(Len(s) + b) + m]
    BY <1>1, <2>2, Part, SMTT(30)
  <2>6. \A m \in 1 .. i - b : u[(Len(s) + b) + m] = t[b + m]
    BY <2>3, Joined DEF u
  <2> HIDE DEF p, q
  <2>7. p = q
    BY <2>4, <2>5, <2>6, SameBytes
  <2>1. SubSeq(t, i - k + 1, i) = SubSeq(u, (Len(s) + i) - k + 1, Len(s) + i)
    BY <2>2, <2>7 DEF p, q, b
  <2> QED BY <2>1 DEF Ends
<1>3. Boundaries(t) \subseteq 0 .. Len(t) /\ 0 \in Boundaries(t)
  BY <1>1, BoundariesAre
<1>4. Len(s) \in Boundaries(u)
  BY <1>1, BoundariesStay
<1> HIDE DEF u
<1>5. 0 \in S
  <2>1. \A i \in Boundaries(t) : i <= 0 => Len(s) + i = Len(s)
    BY <1>1, <1>3
  <2> QED BY <1>4, <2>1
<1>6. ASSUME NEW m \in Nat, m \in S PROVE m + 1 \in S
  <2>1. ASSUME NEW i \in Boundaries(t), i <= m + 1 PROVE Len(s) + i \in Boundaries(u)
    <3>1. CASE i <= m
      BY <1>6, <3>1
    <3>2. CASE i = m + 1
      <4>1. i \in 1 .. Len(t) /\ i # 0 /\ i \in 0 .. Len(t) /\ Len(s) + i \in 0 .. Len(u)
        BY <1>1, <1>3, <3>2
      <4>2. PICK k \in 1 .. 4 : k <= i /\ i - k \in Boundaries(t) /\ Ends(t, i, k)
        BY <1>1, <4>1, BoundariesAre
      <4>3. Len(s) + (i - k) \in Boundaries(u)
        <5>1. i - k <= m
          BY <3>2
        <5> QED BY <1>6, <4>2, <5>1
      <4>4. (Len(s) + i) - k \in Boundaries(u)
        <5>1. Len(s) + (i - k) = (Len(s) + i) - k
          BY <1>1, <4>1
        <5> QED BY <4>3, <5>1
      <4>5. k <= Len(s) + i /\ Ends(u, Len(s) + i, k)
        BY <1>1, <1>2, <4>1, <4>2
      <4> DEFINE c == Len(s) + i
      <4>6. c \in 0 .. Len(u) /\ k <= c /\ c - k \in Boundaries(u) /\ Ends(u, c, k)
        BY <4>1, <4>4, <4>5
      <4> HIDE DEF c
      <4>7. c \in Boundaries(u)
        <5> HIDE DEF S
        <5>1. \A j \in 0 .. Len(u) :
                 j \in Boundaries(u) <=> j = 0 \/ \E l \in 1 .. 4 : l <= j /\ j - l \in Boundaries(u) /\ Ends(u, j, l)
          BY <1>1, BoundariesAre
        <5> QED BY <4>6, <5>1, Zenon
      <4> QED BY <4>7 DEF c
    <3> QED BY <1>3, <2>1, <3>1, <3>2
  <2> QED BY <2>1
<1>7. Nat \subseteq S
  <2> HIDE DEF S
  <2> QED BY <1>5, <1>6, SetInduction
<1>8. z \in Nat /\ z <= z
  BY <1>3
<1> QED BY <1>7, <1>8 DEF u

-------------------------------------------------------------------------------
(* Code points cut short. *)

\* If 81 can follow, so can 80.
LEMMA LowerContinuation ==
    ASSUME NEW p, NEW q, NEW n \in 1 .. 3, p[1] \in Byte, n < Needed(p[1]),
           \A m \in 1 .. n : p[m] = q[m],
           \A m \in n + 1 .. Needed(p[1]) : p[m] = 129 /\ q[m] = 128,
           Valid(p)
    PROVE  Valid(q)
<1>1. p[1] = q[1]
  OBVIOUS
<1>2. CASE p[1] < 128
  BY <1>2 DEF Needed, Byte
<1>3. CASE p[1] \in 192 .. 223
  <2>1. Needed(p[1]) = 2 /\ n = 1
    BY <1>3 DEF Needed
  <2>2. p[2] = 129 /\ q[2] = 128
    BY <2>1
  <2> QED BY <1>1, <1>3, <2>2 DEF Valid, Continuation, Byte
<1>4. CASE p[1] \in 224 .. 239
  <2>1. Needed(p[1]) = 3
    BY <1>4 DEF Needed
  <2>4. \A m \in n + 1 .. 3 : p[m] = 129 /\ q[m] = 128
    BY <2>1
  <2>2. p[3] = 129 /\ q[3] = 128 /\ (p[2] = q[2] \/ (p[2] = 129 /\ q[2] = 128))
    <3>1. CASE n = 1
      BY <2>4, <3>1
    <3>2. CASE n = 2
      BY <2>4, <3>2
    <3>3. CASE n = 3
      BY <2>4, <2>1, <3>3
    <3> QED BY <3>1, <3>2, <3>3
  <2> QED BY <1>1, <1>4, <2>2 DEF Valid, Continuation, Byte
<1>5. CASE p[1] \in 240 .. 247
  <2>1. Needed(p[1]) = 4
    BY <1>5 DEF Needed
  <2>4. \A m \in n + 1 .. 4 : p[m] = 129 /\ q[m] = 128
    BY <2>1
  <2>2. /\ p[4] = 129 /\ q[4] = 128
        /\ p[3] = q[3] \/ (p[3] = 129 /\ q[3] = 128)
        /\ p[2] = q[2] \/ (p[2] = 129 /\ q[2] = 128)
    <3>1. CASE n = 1
      BY <2>4, <3>1
    <3>2. CASE n = 2
      BY <2>4, <3>2
    <3>3. CASE n = 3
      BY <2>4, <2>1, <3>3
    <3> QED BY <3>1, <3>2, <3>3
  <2> QED BY <1>1, <1>5, <2>2 DEF Valid, Continuation, Byte
<1>6. CASE ~(p[1] < 128 \/ p[1] \in 192 .. 223 \/ p[1] \in 224 .. 239 \/ p[1] \in 240 .. 247)
  BY <1>6 DEF Needed, Byte
<1> QED BY <1>2, <1>3, <1>4, <1>5, <1>6

\* If anything can follow, 81 can, unless the code point is cut behind E0 or F0.
LEMMA AnyContinuation ==
    ASSUME NEW p, NEW q, NEW n \in 1 .. 3, p[1] \in Byte, n < Needed(p[1]),
           \A m \in 1 .. n : p[m] = q[m],
           \A m \in n + 1 .. Needed(p[1]) : p[m] = 129,
           ~(n = 1 /\ p[1] \in {224, 240}),
           \A m \in 1 .. Needed(p[1]) : q[m] \in Byte,
           Valid(q)
    PROVE  Valid(p)
<1>1. p[1] = q[1]
  OBVIOUS
<1>2. CASE p[1] < 128
  BY <1>2 DEF Needed, Byte
<1>3. CASE p[1] \in 192 .. 223
  <2>1. Needed(p[1]) = 2 /\ n = 1
    BY <1>3 DEF Needed
  <2>2. p[2] = 129
    BY <2>1
  <2> QED BY <1>1, <1>3, <2>2 DEF Valid, Continuation, Byte
<1>4. CASE p[1] \in 224 .. 239
  <2>1. Needed(p[1]) = 3
    BY <1>4 DEF Needed
  <2>4. \A m \in n + 1 .. 3 : p[m] = 129
    BY <2>1
  <2>5. q[2] \in Byte
    BY <2>1
  <2>6. n = 1 => p[1] # 224 /\ p[1] # 240
    OBVIOUS
  <2>2. p[3] = 129 /\ (p[2] = q[2] \/ (p[2] = 129 /\ p[1] # 224)) /\ q[2] \in Byte
    <3>1. CASE n = 1
      BY <2>4, <2>5, <2>6, <3>1
    <3>2. CASE n = 2
      BY <2>4, <2>5, <2>6, <3>2
    <3>3. CASE n = 3
      BY <2>4, <2>5, <2>6, <2>1, <3>3
    <3> QED BY <3>1, <3>2, <3>3
  <2> QED BY <1>1, <1>4, <2>2, SMTT(30) DEF Valid, Continuation, Byte
<1>5. CASE p[1] \in 240 .. 247
  <2>1. Needed(p[1]) = 4
    BY <1>5 DEF Needed
  <2>4. \A m \in n + 1 .. 4 : p[m] = 129
    BY <2>1
  <2>5. q[2] \in Byte
    BY <2>1
  <2>6. n = 1 => p[1] # 224 /\ p[1] # 240
    OBVIOUS
  <2>2. /\ p[4] = 129 /\ (p[3] = q[3] \/ p[3] = 129) /\ q[2] \in Byte
        /\ p[2] = q[2] \/ (p[2] = 129 /\ p[1] # 240)
    <3>1. CASE n = 1
      BY <2>4, <2>5, <2>6, <3>1
    <3>2. CASE n = 2
      BY <2>4, <2>5, <2>6, <3>2
    <3>3. CASE n = 3
      BY <2>4, <2>5, <2>6, <2>1, <3>3
    <3> QED BY <3>1, <3>2, <3>3
  <2> QED BY <1>1, <1>5, <2>2, SMTT(30) DEF Valid, Continuation, Byte
<1>6. CASE ~(p[1] < 128 \/ p[1] \in 192 .. 223 \/ p[1] \in 224 .. 239 \/ p[1] \in 240 .. 247)
  BY <1>6 DEF Needed, Byte
<1> QED BY <1>2, <1>3, <1>4, <1>5, <1>6

\* What fail_fast completes a cut code point to: k bytes.
LEMMA PaddedTo ==
    ASSUME NEW s \in Seq(Byte), NEW b \in Byte, NEW k \in Len(s) .. 4
    PROVE  LET p == s \o [i \in 1 .. k - Len(s) |-> b] IN
           /\ p \in Seq(Byte) /\ Len(p) = k
           /\ \A m \in 1 .. Len(s) : p[m] = s[m]
           /\ \A m \in Len(s) + 1 .. k : p[m] = b
<1> DEFINE n == k - Len(s)
           t == [i \in 1 .. n |-> b]
<1>1. n \in Nat /\ Len(s) + n = k /\ Len(s) \in Nat
  OBVIOUS
<1>2. t \in Seq(Byte) /\ Len(t) = n /\ \A m \in 1 .. n : t[m] = b
  <2> HIDE DEF n
  <2> QED BY <1>1
<1> HIDE DEF t
<1>3. s \o t \in Seq(Byte) /\ Len(s \o t) = k /\ \A m \in 1 .. Len(s) : (s \o t)[m] = s[m]
  BY <1>1, <1>2, Joined
<1>4. ASSUME NEW m \in Len(s) + 1 .. k PROVE (s \o t)[m] = b
  <2>1. m - Len(s) \in 1 .. n /\ Len(s) + (m - Len(s)) = m
    OBVIOUS
  <2>2. (s \o t)[Len(s) + (m - Len(s))] = t[m - Len(s)]
    BY <1>2, <2>1, Joined
  <2> QED BY <1>2, <2>1, <2>2
<1> QED BY <1>3, <1>4 DEF t

\* fail_fast lets a cut code point pass only if it can be completed.
LEMMA MayStillBeValidIsSound ==
    ASSUME NEW s \in Seq(Byte), Len(s) \in 1 .. 3, Len(s) < Needed(s[1]), MayStillBeValid(s)
    PROVE  CodePointPrefix(s)
<1> DEFINE n == Len(s)
           k == Needed(s[1])
           p == s \o [i \in 1 .. 4 - n |-> 129]
           t == [i \in 1 .. k - n |-> 128]
           q == s \o t
<1>1. k \in 0 .. 4 /\ n \in 1 .. 3 /\ n < k
  BY DEF Needed
<1>2. s[1] \in Byte
  BY <1>1
<1>3. 4 \in n .. 4 /\ k \in n .. 4 /\ k - n \in 0 .. 3
  <2> HIDE DEF n, k
  <2> QED BY <1>1
<1>4. 128 \in Byte /\ 129 \in Byte
  BY DEF Byte
<1>5. p \in Seq(Byte) /\ Len(p) = 4 /\ (\A m \in 1 .. n : p[m] = s[m]) /\ \A m \in n + 1 .. 4 : p[m] = 129
  BY <1>3, <1>4, PaddedTo
<1>6. q \in Seq(Byte) /\ Len(q) = k /\ (\A m \in 1 .. n : q[m] = s[m]) /\ \A m \in n + 1 .. k : q[m] = 128
  <2> HIDE DEF k
  <2> QED BY <1>3, <1>4, PaddedTo
<1>7. Valid(p)
  BY DEF MayStillBeValid
<1>8. t \in [1 .. k - n -> {128, 143, 144, 159, 160, 191}]
  OBVIOUS
<1> HIDE DEF n, k, p, q
<1>9. p[1] = s[1] /\ q[1] = s[1]
  BY <1>1, <1>5, <1>6
<1>10. Valid(q)
  <2>1. Needed(p[1]) = k
    BY <1>9 DEF k
  <2>2. \A m \in 1 .. n : p[m] = q[m]
    BY <1>5, <1>6
  <2>3. \A m \in n + 1 .. k : p[m] = 129 /\ q[m] = 128
    BY <1>1, <1>5, <1>6
  <2> QED BY <1>1, <1>2, <1>7, <1>9, <2>1, <2>2, <2>3, LowerContinuation
<1>11. CodePoint(q)
  <2>1. Len(q) = Needed(q[1])
    BY <1>6, <1>9 DEF k
  <2>2. \A i \in 1 .. Len(q) : q[i] \in Byte
    BY <1>6
  <2> QED BY <1>1, <1>6, <1>10, <2>1, <2>2, CodePointIs
<1> QED BY <1>3, <1>8, <1>11, ZenonT(40) DEF CodePointPrefix, q

\* It stops one that can be completed only behind E0 or F0.
LEMMA MayStillBeValidIsComplete ==
    ASSUME NEW s \in Seq(Byte), Len(s) \in 1 .. 3, Len(s) < Needed(s[1]), ~(Len(s) = 1 /\ s[1] \in {224, 240}),
           NEW t \in Seq(Byte), CodePoint(s \o t)
    PROVE  MayStillBeValid(s)
<1> DEFINE n == Len(s)
           k == Needed(s[1])
           p == s \o [i \in 1 .. 4 - n |-> 129]
           q == s \o t
<1>1. k \in 0 .. 4 /\ n \in 1 .. 3 /\ n < k
  BY DEF Needed
<1>2. s[1] \in Byte
  BY <1>1
<1>3. 4 \in n .. 4 /\ 4 \in 1 .. 4 /\ 129 \in Byte
  <2> HIDE DEF n, k
  <2> QED BY <1>1 DEF Byte
<1>4. p \in Seq(Byte) /\ Len(p) = 4 /\ (\A m \in 1 .. n : p[m] = s[m]) /\ \A m \in n + 1 .. 4 : p[m] = 129
  BY <1>3, PaddedTo
<1>5. q \in Seq(Byte) /\ Len(q) = n + Len(t) /\ \A m \in 1 .. n : q[m] = s[m]
  BY Joined
<1>6. Len(t) \in Nat
  OBVIOUS
<1>7. ~(n = 1 /\ s[1] \in {224, 240}) /\ CodePoint(q)
  OBVIOUS
<1> HIDE DEF n, k, p, q
<1>8. p[1] = s[1] /\ q[1] = s[1]
  BY <1>1, <1>4, <1>5
<1>9. Len(q) = k /\ Valid(q)
  <2>1. \A i \in 1 .. Len(q) : q[i] \in Byte
    BY <1>5
  <2>2. Len(q) \in Nat \ {0}
    BY <1>1, <1>5, <1>6
  <2> QED BY <1>7, <1>8, <2>1, <2>2, CodePointIs DEF k
<1>10. Valid(p)
  <2>1. Needed(p[1]) = k
    BY <1>8 DEF k
  <2>2. \A m \in 1 .. n : p[m] = q[m]
    BY <1>4, <1>5
  <2>3. \A m \in n + 1 .. k : p[m] = 129
    BY <1>1, <1>4
  <2>4. \A m \in 1 .. k : q[m] \in Byte
    BY <1>5, <1>9
  <2> QED BY <1>1, <1>2, <1>7, <1>8, <1>9, <2>1, <2>2, <2>3, <2>4, AnyContinuation
<1> QED BY <1>10 DEF MayStillBeValid, p, n

-------------------------------------------------------------------------------
(* What a scan comes to. *)

\* A code point was cut: these bytes of it are held, and so many are lacking.
HeldAt(s, i, lacking, held) ==
    /\ i \in Boundaries(s)
    /\ held = Rest(s, i)
    /\ i = Len(s) => lacking = 0
    /\ i < Len(s) => /\ lacking = Needed(s[i + 1]) - (Len(s) - i)
                     /\ lacking > 0
                     /\ MayStillBeValid(held)

\* What starts at a boundary is no code point, or none that fail_fast lets pass.
Broken(s, i) ==
    /\ i \in Boundaries(s)
    /\ i < Len(s)
    /\ \/ Needed(s[i + 1]) = 0
       \/ i + Needed(s[i + 1]) <= Len(s) /\ ~Valid(Rest(s, i))
       \/ i + Needed(s[i + 1]) > Len(s) /\ ~MayStillBeValid(Rest(s, i))

Outcome(s, r) ==
    /\ r.ok => \E i \in Boundaries(s) : HeldAt(s, i, r.need, r.cp)
    /\ ~r.ok => \E i \in Boundaries(s) : Broken(s, i)

\* What is left of a text.
LEMMA RestIs ==
    ASSUME NEW s \in Seq(Byte), NEW i \in 0 .. Len(s)
    PROVE  /\ Rest(s, i) \in Seq(Byte)
           /\ Len(Rest(s, i)) = Len(s) - i
           /\ \A m \in 1 .. Len(s) - i : Rest(s, i)[m] = s[i + m]
BY Part DEF Rest

\* One turn of the recursion in Scan.
Turn(f, s, i) ==
    LET rest == SubSeq(s, i, Len(s))
        n    == Needed(s[i])
    IN  CASE i > Len(s)      -> State(TRUE, 0, <<>>)
          [] i <= Len(s) /\ (n = 0 \/ (n <= Len(rest) /\ ~Valid(rest))) -> State(FALSE, 0, <<>>)
          [] i <= Len(s) /\ n > Len(rest)                               -> TailState(rest)
          [] OTHER           -> f[i + n]

Turns(f, s, first) == f = [i \in first .. Len(s) + 1 |-> Turn(f, s, i)]

\* What a turn comes to at a position i of the text, by what starts there.
LEMMA TurnIs ==
    ASSUME NEW s \in Seq(Byte), NEW f, NEW i \in 0 .. Len(s)
    PROVE  LET n == Needed(s[i + 1]) IN
           /\ i = Len(s) => Turn(f, s, i + 1) = State(TRUE, 0, <<>>)
           /\ i < Len(s) /\ (n = 0 \/ (i + n <= Len(s) /\ ~Valid(Rest(s, i))))
                => Turn(f, s, i + 1) = State(FALSE, 0, <<>>)
           /\ i < Len(s) /\ i + n > Len(s) => Turn(f, s, i + 1) = TailState(Rest(s, i))
           /\ i < Len(s) /\ n >= 1 /\ i + n <= Len(s) /\ Valid(Rest(s, i))
                => Turn(f, s, i + 1) = f[(i + 1) + n]
<1> DEFINE rest == SubSeq(s, i + 1, Len(s))
           n == Needed(s[i + 1])
           A == i + 1 > Len(s)
           B == i + 1 <= Len(s) /\ (n = 0 \/ (n <= Len(rest) /\ ~Valid(rest)))
           C == i + 1 <= Len(s) /\ n > Len(rest)
<1>1. n \in 0 .. 4 /\ Len(s) \in Nat /\ Len(rest) = Len(s) - i
  BY RestIs DEF Needed, Rest
<1>2. ~(A /\ B) /\ ~(A /\ C) /\ ~(B /\ C)
  <2> HIDE DEF n, rest
  <2> QED BY <1>1
<1>3. /\ A => Turn(f, s, i + 1) = State(TRUE, 0, <<>>)
      /\ B => Turn(f, s, i + 1) = State(FALSE, 0, <<>>)
      /\ C => Turn(f, s, i + 1) = TailState(rest)
      /\ ~A /\ ~B /\ ~C => Turn(f, s, i + 1) = f[(i + 1) + n]
  BY <1>2, Zenon DEF Turn
<1>4. /\ i = Len(s) => A
      /\ i < Len(s) /\ (n = 0 \/ (i + n <= Len(s) /\ ~Valid(rest))) => B
      /\ i < Len(s) /\ i + n > Len(s) => C
      /\ i < Len(s) /\ n >= 1 /\ i + n <= Len(s) /\ Valid(rest) => ~A /\ ~B /\ ~C
  <2> HIDE DEF n, rest
  <2> QED BY <1>1
<1> HIDE DEF A, B, C
<1> QED BY <1>3, <1>4, Zenon DEF Rest

\* A turn depends on later ones only.
LEMMA TurnLooksAhead ==
    ASSUME NEW s \in Seq(Byte), NEW f, NEW g, NEW i \in 0 .. Len(s),
           \A j \in i + 2 .. Len(s) + 1 : f[j] = g[j]
    PROVE  Turn(f, s, i + 1) = Turn(g, s, i + 1)
<1> DEFINE n == Needed(s[i + 1])
           there == Valid(Rest(s, i))
<1>1. n \in 0 .. 4
  BY DEF Needed
<1>2. CASE i = Len(s)
  BY <1>2, TurnIs
<1>3. CASE i < Len(s) /\ (n = 0 \/ (i + n <= Len(s) /\ ~there))
  BY <1>3, TurnIs, Zenon
<1>4. CASE i < Len(s) /\ i + n > Len(s)
  BY <1>4, TurnIs, Zenon
<1>5. CASE i < Len(s) /\ n >= 1 /\ i + n <= Len(s) /\ there
  <2>1. Turn(f, s, i + 1) = f[(i + 1) + n] /\ Turn(g, s, i + 1) = g[(i + 1) + n]
    BY <1>5, TurnIs, Zenon
  <2>2. (i + 1) + n \in i + 2 .. Len(s) + 1
    <3> HIDE DEF n
    <3> QED BY <1>1, <1>5
  <2> QED BY <2>1, <2>2
<1> HIDE DEF n, there
<1> QED BY <1>1, <1>2, <1>3, <1>4, <1>5

\* The recursion in Scan defines a function.
LEMMA TurnsExist ==
    ASSUME NEW s \in Seq(Byte)
    PROVE  \E f : Turns(f, s, 1)
<1> DEFINE L == Len(s)
           S == {m \in Nat : m <= L => \E f : Turns(f, s, (L + 1) - m)}
<1>1. L \in Nat
  OBVIOUS
<1>2. 0 \in S
  <2> DEFINE f == [i \in L + 1 .. L + 1 |-> State(TRUE, 0, <<>>)]
  <2>1. \A i \in L + 1 .. L + 1 : Turn(f, s, i) = State(TRUE, 0, <<>>)
    <3>1. L \in 0 .. Len(s) /\ L = Len(s)
      BY <1>1
    <3>2. Turn(f, s, L + 1) = State(TRUE, 0, <<>>)
      BY <3>1, TurnIs, Zenon
    <3>3. \A i \in L + 1 .. L + 1 : i = L + 1
      BY <1>1
    <3> QED BY <3>2, <3>3
  <2>2. Turns(f, s, L + 1)
    BY <2>1, Zenon DEF Turns
  <2>3. (L + 1) - 0 = L + 1
    BY <1>1
  <2> QED BY <2>2, <2>3
<1>3. ASSUME NEW m \in Nat, m \in S PROVE m + 1 \in S
  <2> SUFFICES ASSUME m + 1 <= L PROVE \E f : Turns(f, s, (L + 1) - (m + 1))
    BY <1>1
  <2> DEFINE a == L - m
  <2>1. a \in 1 .. L /\ (L + 1) - m = a + 1 /\ (L + 1) - (m + 1) = a /\ a \in Nat
    BY <1>1
  <2>2. PICK f : Turns(f, s, a + 1)
    <3>1. \E f : Turns(f, s, (L + 1) - m)
      BY <1>1, <1>3
    <3> QED BY <2>1, <3>1
  <2> DEFINE g == [i \in a .. L + 1 |-> IF i = a THEN Turn(f, s, a) ELSE f[i]]
  <2> HIDE DEF a
  <2>3. \A i \in a + 1 .. L + 1 : g[i] = f[i]
    BY <1>1, <2>1
  <2>4. ASSUME NEW i \in a .. L + 1 PROVE Turn(f, s, i) = Turn(g, s, i)
    <3> DEFINE k == i - 1
    <3>1. k \in 0 .. L /\ i = k + 1 /\ \A j \in k + 2 .. L + 1 : j \in a + 1 .. L + 1
      BY <1>1, <2>1
    <3> HIDE DEF g, k
    <3>2. \A j \in k + 2 .. L + 1 : f[j] = g[j]
      BY <2>3, <3>1
    <3>3. Turn(f, s, k + 1) = Turn(g, s, k + 1)
      BY <3>1, <3>2, TurnLooksAhead, ZenonT(40)
    <3> QED BY <3>1, <3>3
  <2>5. ASSUME NEW i \in a .. L + 1 PROVE g[i] = Turn(f, s, i)
    <3>1. CASE i = a
      BY <3>1
    <3>2. CASE i # a
      <4>1. i \in a + 1 .. L + 1
        BY <1>1, <2>1, <3>2
      <4>2. f[i] = Turn(f, s, i)
        BY <2>2, <4>1, Zenon DEF Turns
      <4> QED BY <2>3, <4>1, <4>2, Zenon
    <3> QED BY <3>1, <3>2
  <2>6. g = [i \in a .. L + 1 |-> g[i]]
    BY Zenon
  <2>7. Turns(g, s, a)
    <3> HIDE DEF g
    <3> QED BY <2>4, <2>5, <2>6, Zenon DEF Turns
  <2> HIDE DEF g
  <2> QED BY <2>1, <2>7
<1>4. L \in S
  <2> HIDE DEF S
  <2> QED BY <1>1, <1>2, <1>3, SetInduction
<1>5. (L + 1) - L = 1
  BY <1>1
<1> QED BY <1>1, <1>4, <1>5

\* What fail_fast answers.
LEMMA MayBeTrueOrFalse ==
    ASSUME NEW r, Len(r) \in 1 .. 3, r \in Seq(Byte)
    PROVE  MayStillBeValid(r) \in BOOLEAN
<1> DEFINE p == r \o [i \in 1 .. 4 - Len(r) |-> 129]
<1>1. 129 \in Byte /\ 4 \in Len(r) .. 4
  <2> DEFINE n == Len(r)
  <2>1. n \in 1 .. 3
    OBVIOUS
  <2> HIDE DEF n
  <2>2. 129 \in Byte /\ 4 \in n .. 4
    BY <2>1 DEF Byte
  <2> QED BY <2>2 DEF n
<1>2. p \in Seq(Byte) /\ Len(p) = 4
  BY <1>1, PaddedTo
<1> HIDE DEF p
<1>3. p[1] \in Byte
  BY <1>2
<1>4. Valid(p) \in BOOLEAN
  BY DEF Valid
<1> QED BY <1>4 DEF MayStillBeValid, p

\* The tail a scan holds, or rejects.
LEMMA TailIs ==
    ASSUME NEW s \in Seq(Byte), NEW i \in Boundaries(s), i < Len(s), i + Needed(s[i + 1]) > Len(s)
    PROVE  Outcome(s, TailState(Rest(s, i)))
<1> DEFINE r == Rest(s, i)
           n == Needed(s[i + 1])
<1>1. Len(s) \in Nat /\ i \in 0 .. Len(s)
  BY BoundariesAre
<1>2. r \in Seq(Byte) /\ Len(r) = Len(s) - i /\ r[1] = s[i + 1] /\ n \in 0 .. 4
  <2>1. r \in Seq(Byte) /\ Len(r) = Len(s) - i /\ \A m \in 1 .. Len(s) - i : r[m] = s[i + m]
    BY <1>1, RestIs
  <2>2. 1 \in 1 .. Len(s) - i
    BY <1>1
  <2>3. n \in 0 .. 4
    BY DEF Needed
  <2> HIDE DEF r, n
  <2> QED BY <2>1, <2>2, <2>3
<1> HIDE DEF r, n
<1>3. Len(r) \in 1 .. 3 /\ n - Len(r) = n - (Len(s) - i) /\ n - Len(r) > 0 /\ ~(i = Len(s))
  <2>1. i + n > Len(s) /\ i < Len(s)
    BY DEF n
  <2> QED BY <1>1, <1>2, <2>1
<1>4. MayStillBeValid(r) \in BOOLEAN
  BY <1>2, <1>3, MayBeTrueOrFalse
<1>5. TailState(r) = [ok |-> MayStillBeValid(r), need |-> n - Len(r), cp |-> r]
  BY <1>2 DEF TailState, State, n
<1>6. ASSUME MayStillBeValid(r) PROVE Outcome(s, TailState(r))
  <2>1. n - Len(r) = Needed(s[i + 1]) - (Len(s) - i)
    BY <1>3 DEF n
  <2>2. HeldAt(s, i, n - Len(r), r)
    BY <1>3, <1>6, <2>1, Zenon DEF HeldAt, r
  <2> QED BY <1>5, <1>6, <2>2 DEF Outcome
<1>7. ASSUME ~MayStillBeValid(r) PROVE Outcome(s, TailState(r))
  <2>1. Broken(s, i)
    BY <1>7 DEF Broken, r
  <2> QED BY <1>4, <1>5, <1>7, <2>1 DEF Outcome
<1> QED BY <1>6, <1>7 DEF r

\* A turn that starts at a boundary decides, or the next one starts at a boundary too.
LEMMA TurnDecides ==
    ASSUME NEW s \in Seq(Byte), NEW f, NEW i \in Boundaries(s)
    PROVE  \/ Outcome(s, Turn(f, s, i + 1))
           \/ \E k \in Boundaries(s) : i < k /\ Turn(f, s, i + 1) = f[k + 1]
<1> DEFINE n == Needed(s[i + 1])
           there == Valid(Rest(s, i))
<1>1. Len(s) \in Nat /\ i \in 0 .. Len(s) /\ n \in 0 .. 4
  BY BoundariesAre DEF Needed
<1>2. CASE i = Len(s)
  <2>1. Turn(f, s, i + 1) = [ok |-> TRUE, need |-> 0, cp |-> <<>>]
    BY <1>1, <1>2, TurnIs, Zenon DEF State
  <2>2. Rest(s, i) = <<>>
    BY <1>1, <1>2, RestIs
  <2>3. HeldAt(s, i, 0, <<>>)
    BY <1>1, <1>2, <2>2 DEF HeldAt
  <2> QED BY <2>1, <2>3 DEF Outcome
<1>3. CASE i < Len(s) /\ (n = 0 \/ (i + n <= Len(s) /\ ~there))
  <2>1. Turn(f, s, i + 1) = [ok |-> FALSE, need |-> 0, cp |-> <<>>]
    BY <1>1, <1>3, TurnIs, Zenon DEF State
  <2>2. Broken(s, i)
    BY <1>3 DEF Broken
  <2> QED BY <2>1, <2>2 DEF Outcome
<1>4. CASE i < Len(s) /\ i + n > Len(s)
  <2>1. Turn(f, s, i + 1) = TailState(Rest(s, i))
    BY <1>1, <1>4, TurnIs, Zenon
  <2> QED BY <1>4, <2>1, TailIs
<1>5. CASE i < Len(s) /\ n >= 1 /\ i + n <= Len(s) /\ there
  <2>1. Turn(f, s, i + 1) = f[(i + 1) + n]
    BY <1>1, <1>5, TurnIs, Zenon
  <2>2. i + n \in Boundaries(s)
    <3>1. n \in 1 .. 4
      <4> HIDE DEF n
      <4> QED BY <1>1, <1>5
    <3> QED BY <1>5, <3>1, BoundaryAfter
  <2>3. i < i + n /\ (i + n) + 1 = (i + 1) + n
    <3> HIDE DEF n
    <3> QED BY <1>1, <1>5
  <2> HIDE DEF n
  <2> QED BY <2>1, <2>2, <2>3
<1> HIDE DEF n, there
<1> QED BY <1>1, <1>2, <1>3, <1>4, <1>5

\* A scan of a text ends holding the code point it breaks off in, or at one that is broken.
LEMMA ScanIs ==
    ASSUME NEW s \in Seq(Byte)
    PROVE  Outcome(s, Scan(s))
<1> DEFINE L == Len(s)
           f == CHOOSE g : Turns(g, s, 1)
           S == {m \in Nat : \A i \in Boundaries(s) : L - i <= m => Outcome(s, f[i + 1])}
<1>1. Turns(f, s, 1)
  BY TurnsExist, Zenon
<1>2. Scan(s) = f[1]
  BY Zenon DEF Scan, Turns, Turn
<1> HIDE DEF f
<1>3. L \in Nat /\ Boundaries(s) \subseteq 0 .. L /\ 0 \in Boundaries(s)
  BY BoundariesAre
<1>4. ASSUME NEW i \in Boundaries(s)
      PROVE  \/ Outcome(s, f[i + 1])
             \/ \E k \in Boundaries(s) : i < k /\ f[i + 1] = f[k + 1]
  <2>1. i + 1 \in 1 .. L + 1
    BY <1>3
  <2>2. f[i + 1] = Turn(f, s, i + 1)
    BY <1>1, <2>1, Zenon DEF Turns
  <2>3. \/ Outcome(s, Turn(f, s, i + 1))
        \/ \E k \in Boundaries(s) : i < k /\ Turn(f, s, i + 1) = f[k + 1]
    BY TurnDecides, Zenon
  <2> QED BY <2>2, <2>3, Zenon
<1>5. 0 \in S
  <2>1. ASSUME NEW i \in Boundaries(s), L - i <= 0 PROVE Outcome(s, f[i + 1])
    <3>1. ~ \E k \in Boundaries(s) : i < k
      BY <1>3, <2>1
    <3> QED BY <1>4, <3>1
  <2> QED BY <2>1
<1>6. ASSUME NEW m \in Nat, m \in S PROVE m + 1 \in S
  <2>1. ASSUME NEW i \in Boundaries(s), L - i <= m + 1 PROVE Outcome(s, f[i + 1])
    <3>1. \A k \in Boundaries(s) : i < k => L - k <= m
      BY <1>3, <2>1
    <3>2. \A k \in Boundaries(s) : i < k => Outcome(s, f[k + 1])
      BY <1>6, <3>1
    <3> QED BY <1>4, <3>2
  <2> QED BY <2>1
<1>7. L \in S
  <2> HIDE DEF S
  <2> QED BY <1>3, <1>5, <1>6, SetInduction
<1>8. Outcome(s, f[0 + 1])
  BY <1>3, <1>7
<1> QED BY <1>2, <1>8

-------------------------------------------------------------------------------
(* From piece to piece. *)

\* What is left of a text that goes on.
LEMMA RestJoined ==
    ASSUME NEW s \in Seq(Byte), NEW t \in Seq(Byte), NEW i \in 0 .. Len(s)
    PROVE  /\ Rest(s \o t, i) = Rest(s, i) \o t
           /\ Len(s \o t) = Len(s) + Len(t)
           /\ i < Len(s) => (s \o t)[i + 1] = s[i + 1]
<1> DEFINE u == s \o t
           a == Rest(u, i)
           r == Rest(s, i)
           b == r \o t
<1>1. /\ u \in Seq(Byte) /\ Len(s) \in Nat /\ Len(t) \in Nat /\ Len(u) = Len(s) + Len(t)
      /\ \A m \in 1 .. Len(s) : u[m] = s[m]
      /\ \A m \in 1 .. Len(t) : u[Len(s) + m] = t[m]
  BY Joined
<1> HIDE DEF u
<1>2. i \in 0 .. Len(u)
  BY <1>1
<1>3. a \in Seq(Byte) /\ Len(a) = Len(u) - i /\ \A m \in 1 .. Len(u) - i : a[m] = u[i + m]
  BY <1>1, <1>2, RestIs
<1>4. r \in Seq(Byte) /\ Len(r) = Len(s) - i /\ \A m \in 1 .. Len(s) - i : r[m] = s[i + m]
  BY RestIs
<1> HIDE DEF a, r
<1>5. /\ b \in Seq(Byte) /\ Len(b) = Len(r) + Len(t)
      /\ \A m \in 1 .. Len(r) : b[m] = r[m]
      /\ \A m \in 1 .. Len(t) : b[Len(r) + m] = t[m]
  BY <1>4, Joined
<1> HIDE DEF b
<1>6. Len(a) = Len(b)
  BY <1>1, <1>3, <1>4, <1>5
<1>7. ASSUME NEW m \in 1 .. Len(a) PROVE a[m] = b[m]
  <2>1. CASE m <= Len(r)
    <3>1. m \in 1 .. Len(s) - i /\ m \in 1 .. Len(r) /\ m \in 1 .. Len(u) - i /\ i + m \in 1 .. Len(s)
      BY <1>1, <1>3, <1>4, <2>1
    <3>2. a[m] = u[i + m] /\ b[m] = r[m] /\ r[m] = s[i + m]
      BY <1>3, <1>4, <1>5, <3>1
    <3>3. u[i + m] = s[i + m]
      BY <1>1, <3>1
    <3> QED BY <3>2, <3>3
  <2>2. CASE m > Len(r)
    <3> DEFINE k == m - Len(r)
    <3>1. k \in 1 .. Len(t) /\ Len(r) + k = m /\ i + m = Len(s) + k /\ m \in 1 .. Len(u) - i
      BY <1>1, <1>3, <1>4, <2>2, SMTT(30)
    <3> HIDE DEF k
    <3>2. a[m] = u[i + m] /\ b[Len(r) + k] = t[k] /\ u[Len(s) + k] = t[k]
      BY <1>1, <1>3, <1>5, <3>1
    <3> QED BY <3>1, <3>2
  <2>3. m \in Int /\ Len(r) \in Int
    BY <1>4
  <2> QED BY <2>1, <2>2, <2>3
<1>8. a = b
  BY <1>3, <1>5, <1>6, <1>7, SameBytes
<1>9. i < Len(s) => i + 1 \in 1 .. Len(s)
  BY <1>1
<1> QED BY <1>1, <1>8, <1>9 DEF a, b, r, u

\* What is left of the piece that follows a text is left of both.
LEMMA RestMoves ==
    ASSUME NEW s \in Seq(Byte), NEW t \in Seq(Byte), NEW i \in 0 .. Len(t)
    PROVE  /\ Rest(s \o t, Len(s) + i) = Rest(t, i)
           /\ Len(s \o t) = Len(s) + Len(t)
           /\ i < Len(t) => (s \o t)[(Len(s) + i) + 1] = t[i + 1]
<1> DEFINE u == s \o t
           j == Len(s) + i
           a == Rest(u, j)
           r == Rest(t, i)
<1>1. /\ u \in Seq(Byte) /\ Len(s) \in Nat /\ Len(t) \in Nat /\ Len(u) = Len(s) + Len(t)
      /\ \A m \in 1 .. Len(t) : u[Len(s) + m] = t[m]
  BY Joined
<1> HIDE DEF u
<1>2. j \in 0 .. Len(u) /\ Len(u) - j = Len(t) - i
  BY <1>1
<1>3. a \in Seq(Byte) /\ Len(a) = Len(u) - j /\ \A m \in 1 .. Len(u) - j : a[m] = u[j + m]
  <2> HIDE DEF j
  <2> QED BY <1>1, <1>2, RestIs
<1>4. r \in Seq(Byte) /\ Len(r) = Len(t) - i /\ \A m \in 1 .. Len(t) - i : r[m] = t[i + m]
  BY RestIs
<1> HIDE DEF a, r
<1>5. ASSUME NEW m \in 1 .. Len(a) PROVE a[m] = r[m]
  <2>1. m \in 1 .. Len(u) - j /\ m \in 1 .. Len(t) - i
    BY <1>2, <1>3
  <2>2. i + m \in 1 .. Len(t) /\ j + m = Len(s) + (i + m)
    BY <1>1, <2>1
  <2>3. a[m] = u[j + m] /\ r[m] = t[i + m]
    BY <1>3, <1>4, <2>1
  <2> HIDE DEF j
  <2>4. u[Len(s) + (i + m)] = t[i + m]
    BY <1>1, <2>2
  <2> QED BY <2>2, <2>3, <2>4
<1>6. a = r
  BY <1>2, <1>3, <1>4, <1>5, SameBytes
<1>7. i < Len(t) => i + 1 \in 1 .. Len(t) /\ (Len(s) + i) + 1 = Len(s) + (i + 1)
  BY <1>1
<1> QED BY <1>1, <1>6, <1>7 DEF a, r, u

\* What a scan of the next piece comes to, when the text before it is complete.
LEMMA OutcomeMoves ==
    ASSUME NEW s \in Seq(Byte), NEW t \in Seq(Byte), Len(s) \in Boundaries(s), NEW r, Outcome(t, r)
    PROVE  Outcome(s \o t, r)
<1> DEFINE u == s \o t
<1>1. Len(s) \in Nat /\ Len(t) \in Nat /\ Boundaries(t) \subseteq 0 .. Len(t)
  BY BoundariesAre
<1>2. ASSUME NEW i \in Boundaries(t)
      PROVE  /\ Len(s) + i \in Boundaries(u)
             /\ Rest(u, Len(s) + i) = Rest(t, i)
             /\ Len(u) - (Len(s) + i) = Len(t) - i
             /\ Len(s) + i = Len(u) <=> i = Len(t)
             /\ Len(s) + i < Len(u) <=> i < Len(t)
             /\ i < Len(t) => u[(Len(s) + i) + 1] = t[i + 1]
  <2>1. i \in 0 .. Len(t)
    BY <1>1
  <2>2. /\ Rest(u, Len(s) + i) = Rest(t, i)
        /\ Len(u) = Len(s) + Len(t)
        /\ i < Len(t) => u[(Len(s) + i) + 1] = t[i + 1]
    BY <2>1, RestMoves, Zenon
  <2>3. Len(s) + i \in Boundaries(u)
    BY BoundariesMove
  <2> HIDE DEF u
  <2>4. /\ Len(u) - (Len(s) + i) = Len(t) - i
        /\ Len(s) + i = Len(u) <=> i = Len(t)
        /\ Len(s) + i < Len(u) <=> i < Len(t)
    BY <1>1, <2>1, <2>2
  <2> QED BY <2>2, <2>3, <2>4
<1> HIDE DEF u
<1>3. ASSUME r.ok PROVE \E k \in Boundaries(u) : HeldAt(u, k, r.need, r.cp)
  <2>1. PICK i \in Boundaries(t) : HeldAt(t, i, r.need, r.cp)
    BY <1>3 DEF Outcome
  <2> DEFINE k == Len(s) + i
  <2>2. HeldAt(u, k, r.need, r.cp)
    BY <1>2, <2>1, Zenon DEF HeldAt
  <2> QED BY <2>2 DEF HeldAt
<1>4. ASSUME ~r.ok PROVE \E k \in Boundaries(u) : Broken(u, k)
  <2>1. PICK i \in Boundaries(t) : Broken(t, i)
    BY <1>4 DEF Outcome
  <2> DEFINE k == Len(s) + i
             n == Needed(t[i + 1])
  <2>2. /\ k \in Boundaries(u) /\ k < Len(u) /\ i < Len(t)
        /\ Needed(u[k + 1]) = n /\ Rest(u, k) = Rest(t, i)
    BY <1>2, <2>1, Zenon DEF Broken
  <2>3. n \in 0 .. 4 /\ i \in 0 .. Len(t) /\ Len(u) - k = Len(t) - i /\ k \in Int
    BY <1>1, <1>2 DEF Needed
  <2>4. Len(u) \in Int
    BY Joined DEF u
  <2> HIDE DEF k, n
  <2>5. (k + n <= Len(u) <=> i + n <= Len(t)) /\ (k + n > Len(u) <=> i + n > Len(t))
    BY <1>1, <2>3, <2>4
  <2>6. Broken(u, k)
    BY <2>1, <2>2, <2>5, Zenon DEF Broken, n
  <2> QED BY <2>2, <2>6
<1> QED BY <1>3, <1>4, Zenon DEF Outcome, u

\* A piece cut in two.
LEMMA CutPiece ==
    ASSUME NEW s \in Seq(Byte), NEW n \in 0 .. Len(s)
    PROVE  LET p == SubSeq(s, 1, n)
               t == SubSeq(s, n + 1, Len(s))
           IN  /\ p \in Seq(Byte) /\ Len(p) = n
               /\ t \in Seq(Byte)
               /\ s = p \o t
<1> DEFINE p == SubSeq(s, 1, n)
           t == SubSeq(s, n + 1, Len(s))
           b == p \o t
<1>1. p \in Seq(Byte) /\ Len(p) = n /\ \A m \in 1 .. n : p[m] = s[m]
  OBVIOUS
<1>2. t \in Seq(Byte) /\ Len(t) = Len(s) - n /\ \A m \in 1 .. Len(s) - n : t[m] = s[n + m]
  BY Part
<1> HIDE DEF p, t
<1>3. /\ b \in Seq(Byte) /\ Len(b) = Len(p) + Len(t)
      /\ \A m \in 1 .. Len(p) : b[m] = p[m]
      /\ \A m \in 1 .. Len(t) : b[Len(p) + m] = t[m]
  BY <1>1, <1>2, Joined
<1> HIDE DEF b
<1>4. Len(s) = Len(b)
  BY <1>1, <1>2, <1>3
<1>5. ASSUME NEW m \in 1 .. Len(s) PROVE s[m] = b[m]
  <2>1. CASE m <= n
    BY <1>1, <1>3, <2>1
  <2>2. CASE m > n
    <3> DEFINE k == m - n
    <3>1. k \in 1 .. Len(t) /\ n + k = m
      BY <1>2, <2>2
    <3> HIDE DEF k
    <3>2. b[n + k] = t[k] /\ t[k] = s[n + k]
      BY <1>1, <1>2, <1>3, <3>1
    <3> QED BY <3>1, <3>2
  <2> QED BY <2>1, <2>2
<1>6. s = b
  BY <1>3, <1>4, <1>5, SameBytes
<1> QED BY <1>1, <1>2, <1>6 DEF p, t, b

\* The piece after a cut code point: it goes on lacking bytes, is broken, or is complete
\* and the rest of the piece is scanned.
LEMMA CompletedIs ==
    ASSUME NEW a \in Seq(Byte), NEW s \in Seq(Byte), NEW i \in 0 .. Len(a),
           HeldAt(a, i, need, cp), need > 0
    PROVE  Outcome(a \o s, Completed(s))
<1> DEFINE lead == a[i + 1]
           N == Needed(lead)
           n == IF Len(s) < need THEN Len(s) ELSE need
           p == SubSeq(s, 1, n)
           t == SubSeq(s, n + 1, Len(s))
           held == cp \o p
           u == a \o p
<1>1. Len(a) \in Nat /\ Len(s) \in Nat /\ N \in 0 .. 4
  BY DEF Needed
<1>2. i < Len(a) /\ i \in Boundaries(a) /\ cp = Rest(a, i) /\ need = N - (Len(a) - i)
  <2>1. i # Len(a)
    BY DEF HeldAt
  <2>2. i < Len(a)
    BY <1>1, <2>1
  <2> QED BY <2>2, Zenon DEF HeldAt
<1> HIDE DEF lead, N
<1>3. n \in 0 .. Len(s) /\ need \in 1 .. 4
  BY <1>1, <1>2
<1> HIDE DEF n
<1>4. p \in Seq(Byte) /\ Len(p) = n /\ t \in Seq(Byte) /\ s = p \o t
  BY <1>3, CutPiece, Zenon
<1> HIDE DEF p, t
<1>5. /\ Rest(u, i) = held /\ Len(u) = Len(a) + n /\ u[i + 1] = lead
      /\ u \in Seq(Byte)
  <2>1. /\ Rest(a \o p, i) = Rest(a, i) \o p /\ Len(a \o p) = Len(a) + Len(p)
        /\ i < Len(a) => (a \o p)[i + 1] = a[i + 1]
    BY <1>4, RestJoined, Zenon
  <2>2. a \o p \in Seq(Byte)
    BY <1>4, Joined, Zenon
  <2> QED BY <1>2, <1>4, <2>1, <2>2, Zenon DEF lead
<1>6. i \in Boundaries(u) /\ i \in 0 .. Len(u) /\ i < Len(u)
  <2>1. i \in Boundaries(a \o p)
    BY <1>2, <1>4, BoundariesStay, Zenon
  <2> HIDE DEF u
  <2>2. i \in 0 .. Len(u) /\ i < Len(u)
    BY <1>1, <1>2, <1>3, <1>5
  <2> QED BY <2>1, <2>2 DEF u
<1>7. a \o s = u \o t
  BY <1>4, SMTT(30)
<1>8. /\ Rest(u \o t, i) = held \o t /\ Len(u \o t) = Len(u) + Len(t)
      /\ (u \o t)[i + 1] = lead
      /\ i \in Boundaries(u \o t)
      /\ u \o t \in Seq(Byte)
  <2> HIDE DEF u
  <2>1. /\ Rest(u \o t, i) = Rest(u, i) \o t /\ Len(u \o t) = Len(u) + Len(t)
        /\ i < Len(u) => (u \o t)[i + 1] = u[i + 1]
    BY <1>4, <1>5, <1>6, RestJoined, Zenon
  <2>2. i \in Boundaries(u \o t)
    BY <1>4, <1>5, <1>6, BoundariesStay, Zenon
  <2>3. u \o t \in Seq(Byte)
    BY <1>4, <1>5, Joined, Zenon
  <2> QED BY <1>5, <1>6, <2>1, <2>2, <2>3, Zenon
<1>9. /\ held \in Seq(Byte) /\ Len(held) = (Len(a) - i) + n /\ held[1] = lead
  <2>1. /\ Rest(u, i) \in Seq(Byte) /\ Len(Rest(u, i)) = Len(u) - i
        /\ \A m \in 1 .. Len(u) - i : Rest(u, i)[m] = u[i + m]
    <3> HIDE DEF u
    <3> QED BY <1>5, <1>6, RestIs, Zenon
  <2> HIDE DEF u, held
  <2>2. 1 \in 1 .. Len(u) - i /\ Len(u) - i = (Len(a) - i) + n
    BY <1>1, <1>3, <1>5, <1>6
  <2> QED BY <1>5, <2>1, <2>2, Zenon
<1> HIDE DEF held
<1>10. CASE n < need
  <2>1. Completed(s) = State(MayStillBeValid(held), need - n, held)
    BY <1>10, Zenon DEF Completed, n, held, p
  <2>2. need - n = Needed(held[1]) - Len(held)
    <3>1. need - n = N - Len(held)
      BY <1>1, <1>2, <1>3, <1>9
    <3> QED BY <1>9, <3>1 DEF N
  <2>3. n = Len(s)
    BY <1>1, <1>3, <1>10 DEF n
  <2>4. a \o s = u
    <3>1. p = s
      BY <2>3 DEF p
    <3> QED BY <3>1
  <2>5. Completed(s) = TailState(Rest(u, i))
    BY <1>5, <2>1, <2>2, Zenon DEF TailState
  <2>6. i + Needed(u[i + 1]) > Len(u)
    <3>1. i + N > Len(u)
      <4> HIDE DEF u
      <4> QED BY <1>1, <1>2, <1>3, <1>5, <1>10
    <3> QED BY <1>5, <3>1 DEF N
  <2>7. Outcome(u, TailState(Rest(u, i)))
    <3> HIDE DEF u
    <3> QED BY <1>5, <1>6, <2>6, TailIs
  <2> QED BY <2>4, <2>5, <2>7
<1>11. CASE ~(n < need)
  <2>1. n = need /\ Len(u) = i + N /\ Len(held) = N /\ N \in 1 .. 4
    <3>1. n = need
      BY <1>1, <1>3, <1>11 DEF n
    <3> HIDE DEF u
    <3> QED BY <1>1, <1>2, <1>3, <1>5, <1>9, <3>1
  <2>2. CASE ~Valid(held)
    <3>1. Completed(s) = [ok |-> FALSE, need |-> 0, cp |-> held]
      BY <1>11, <2>2, Zenon DEF Completed, n, held, p, State
    <3>2. ~Valid(held \o t)
      <4> DEFINE b == held \o t
      <4>1. Len(b) = Len(held) + Len(t) /\ \A m \in 1 .. Len(held) : b[m] = held[m]
        BY <1>4, <1>9, Joined, Zenon
      <4> HIDE DEF b
      <4>2. held[1] \in Byte /\ Needed(held[1]) = Len(held) /\ 1 \in 1 .. Len(held)
        BY <1>9, <2>1 DEF N
      <4>3. Valid(held) <=> Valid(b)
        BY <4>1, <4>2, ValidLooksAt
      <4> QED BY <2>2, <4>3 DEF b
    <3>3. i < Len(u \o t) /\ i + N <= Len(u \o t)
      <4> HIDE DEF u
      <4>1. Len(t) \in Nat /\ Len(u) \in Nat
        BY <1>4, <1>5
      <4> QED BY <1>6, <1>8, <2>1, <4>1
    <3>4. Broken(u \o t, i)
      BY <1>8, <3>2, <3>3, Zenon DEF Broken, N
    <3>5. i \in Boundaries(u \o t)
      BY <1>8
    <3> HIDE DEF u
    <3>6. Outcome(u \o t, Completed(s))
      BY <3>1, <3>4, <3>5 DEF Outcome
    <3> QED BY <1>7, <3>6 DEF u
  <2>3. CASE Valid(held)
    <3>1. Completed(s) = Scan(t)
      BY <1>11, <2>3, Zenon DEF Completed, n, held, p, t
    <3>2. i + N \in Boundaries(u)
      <4> HIDE DEF u
      <4>1. N = Needed(u[i + 1]) /\ Valid(Rest(u, i)) /\ i + N <= Len(u)
        BY <1>5, <1>6, <2>1, <2>3 DEF N
      <4> QED BY <1>5, <1>6, <2>1, <4>1, BoundaryAfter
    <3>3. Len(u) \in Boundaries(u)
      BY <2>1, <3>2
    <3>4. Outcome(t, Scan(t))
      BY <1>4, ScanIs
    <3> HIDE DEF u
    <3>5. Outcome(u \o t, Scan(t))
      BY <1>4, <1>5, <3>3, <3>4, OutcomeMoves
    <3> QED BY <1>7, <3>1, <3>5 DEF u
  <2> QED BY <2>2, <2>3
<1> QED BY <1>10, <1>11

-------------------------------------------------------------------------------
(* What an outcome says of the text. *)

\* No text goes on from one that is broken, but for a code point cut behind E0 or F0.
LEMMA BrokenIsHopeless ==
    ASSUME NEW s \in Seq(Byte), NEW i \in Boundaries(s), Broken(s, i),
           ~(i + 1 = Len(s) /\ s[i + 1] \in {224, 240})
    PROVE  ~BeginsUtf8(s)
<1> DEFINE N == Needed(s[i + 1])
           r == Rest(s, i)
<1>1. Len(s) \in Nat /\ Boundaries(s) \subseteq 0 .. Len(s) /\ i < Len(s) /\ N \in 0 .. 4
  <2>1. Len(s) \in Nat /\ Boundaries(s) \subseteq 0 .. Len(s)
    BY BoundariesAre
  <2>2. i < Len(s)
    BY Zenon DEF Broken
  <2>3. N \in 0 .. 4
    BY DEF Needed
  <2> QED BY <2>1, <2>2, <2>3
<1>6. r \in Seq(Byte) /\ \A m \in 1 .. Len(s) - i : r[m] = s[i + m]
  <2>1. i \in 0 .. Len(s)
    BY <1>1
  <2> HIDE DEF N, r
  <2>2. /\ Rest(s, i) \in Seq(Byte)
        /\ Len(Rest(s, i)) = Len(s) - i
        /\ \A m \in 1 .. Len(s) - i : Rest(s, i)[m] = s[i + m]
    BY <2>1, RestIs
  <2> QED BY <2>2 DEF r
<1> SUFFICES ASSUME NEW j \in Boundaries(s),
                    j = Len(s) \/ CodePointPrefix(Rest(s, j))
             PROVE  FALSE
  BY Zenon DEF BeginsUtf8, Rest
<1>2. ASSUME NEW k \in Boundaries(s), k < Len(s), CodePointPrefix(Rest(s, k))
      PROVE  \E t \in Seq(Byte) :
                /\ CodePoint(Rest(s, k) \o t)
                /\ Len(Rest(s, k)) = Len(s) - k
                /\ Len(Rest(s, k) \o t) = (Len(s) - k) + Len(t)
                /\ (Len(s) - k) + Len(t) = Needed(s[k + 1])
                /\ Valid(Rest(s, k) \o t)
                /\ \A m \in 1 .. Len(s) - k : (Rest(s, k) \o t)[m] = Rest(s, k)[m]
  <2> DEFINE q == Rest(s, k)
  <2>1. PICK n \in 0 .. 3 : \E t \in [1 .. n -> {128, 143, 144, 159, 160, 191}] : CodePoint(q \o t)
    BY <1>2, Zenon DEF CodePointPrefix
  <2>2. PICK t \in [1 .. n -> {128, 143, 144, 159, 160, 191}] : CodePoint(q \o t)
    BY <2>1
  <2>3. t \in Seq(Byte)
    <3>1. {128, 143, 144, 159, 160, 191} \subseteq Byte
      BY DEF Byte
    <3>2. t \in [1 .. n -> Byte] /\ n \in Nat
      BY <2>2, <3>1
    <3> QED BY <3>2, SeqDef
  <2>4. q \in Seq(Byte) /\ Len(q) = Len(s) - k /\ \A m \in 1 .. Len(s) - k : q[m] = s[k + m]
    <3>1. k \in 0 .. Len(s)
      BY <1>1
    <3> QED BY <3>1, RestIs
  <2> HIDE DEF q
  <2> DEFINE b == q \o t
  <2>5. /\ b \in Seq(Byte) /\ Len(b) = Len(q) + Len(t)
        /\ \A m \in 1 .. Len(q) : b[m] = q[m]
    BY <2>3, <2>4, Joined
  <2>6. CodePoint(b)
    BY <2>2
  <2> HIDE DEF b
  <2>7. Len(b) \in Nat \ {0} /\ \A m \in 1 .. Len(b) : b[m] \in Byte
    <3>1. Len(t) \in Nat /\ Len(q) >= 1
      BY <1>1, <1>2, <2>3, <2>4
    <3> QED BY <2>5, <3>1
  <2>8. Len(b) = Needed(b[1]) /\ Valid(b)
    BY <2>6, <2>7, CodePointIs
  <2>9. 1 \in 1 .. Len(q) /\ 1 \in 1 .. Len(s) - k
    BY <1>1, <1>2, <2>4
  <2>10. b[1] = s[k + 1]
    BY <2>4, <2>5, <2>9, ZenonT(40)
  <2> QED BY <2>3, <2>4, <2>5, <2>6, <2>8, <2>10 DEF b, q
<1>3. CASE j > i
  <2>1. Complete(s, i, j)
    BY <1>3, BoundaryBefore
  <2>2. N >= 1 /\ i + N <= j /\ Valid(r)
    BY <2>1, Zenon DEF Complete
  <2>3. N # 0 /\ ~(i + N > Len(s))
    <3> HIDE DEF N
    <3> QED BY <1>1, <2>2
  <2> QED BY <2>2, <2>3, Zenon DEF Broken
<1>4. CASE j < i
  <2> DEFINE M == Needed(s[j + 1])
  <2>1. Complete(s, j, i)
    BY <1>4, BoundaryBefore
  <2>2. j + M <= i
    BY <2>1, Zenon DEF Complete
  <2>3. j < Len(s)
    BY <1>1, <1>4
  <2>6. CodePointPrefix(Rest(s, j))
    BY <2>3
  <2>4. PICK t \in Seq(Byte) : (Len(s) - j) + Len(t) = M
    BY <1>2, <2>3, <2>6, Zenon
  <2>5. M \in 0 .. 4 /\ Len(t) \in Nat
    BY DEF Needed
  <2> HIDE DEF M
  <2> QED BY <1>1, <2>2, <2>4, <2>5
<1>5. CASE j = i
  <2>1. PICK t \in Seq(Byte) :
           /\ CodePoint(r \o t)
           /\ Len(r) = Len(s) - i
           /\ (Len(s) - i) + Len(t) = N
           /\ Valid(r \o t)
           /\ \A m \in 1 .. Len(s) - i : (r \o t)[m] = r[m]
    <3>1. CodePointPrefix(Rest(s, i))
      BY <1>1, <1>5
    <3>2. i \in Boundaries(s) /\ i < Len(s)
      BY <1>1
    <3>3. \E t \in Seq(Byte) :
             /\ CodePoint(Rest(s, i) \o t)
             /\ Len(Rest(s, i)) = Len(s) - i
             /\ Len(Rest(s, i) \o t) = (Len(s) - i) + Len(t)
             /\ (Len(s) - i) + Len(t) = Needed(s[i + 1])
             /\ Valid(Rest(s, i) \o t)
             /\ \A m \in 1 .. Len(s) - i : (Rest(s, i) \o t)[m] = Rest(s, i)[m]
      BY <1>2, <3>1, <3>2
    <3> QED BY <3>3, ZenonT(40)
  <2>2. r \in Seq(Byte) /\ \A m \in 1 .. Len(s) - i : r[m] = s[i + m]
    BY <1>6
  <2> HIDE DEF r, N
  <2>3. Len(t) \in Nat
    OBVIOUS
  <2>4. N >= 1 /\ 1 \in 1 .. Len(s) - i
    BY <1>1, <2>1, <2>3
  <2>5. r[1] = s[i + 1]
    BY <2>2, <2>4, Zenon
  <2>6. CASE i + N <= Len(s)
    <3> DEFINE b == r \o t
    <3>1. N = Len(s) - i
      BY <1>1, <2>1, <2>3, <2>6
    <3>2. b[1] = r[1] /\ r[1] \in Byte
      BY <2>1, <2>2, <2>4
    <3>3. \A m \in 1 .. Needed(r[1]) : r[m] = b[m]
      BY <2>1, <2>5, <3>1 DEF N
    <3>4. Valid(b)
      BY <2>1
    <3> HIDE DEF b
    <3>5. Valid(r)
      BY <3>2, <3>3, <3>4, ValidLooksAt
    <3>6. N # 0 /\ ~(i + N > Len(s))
      BY <1>1, <2>4, <2>6
    <3> QED BY <3>5, <3>6, Zenon DEF Broken, r, N
  <2>7. CASE i + N > Len(s)
    <3>1. Len(r) \in 1 .. 3 /\ Len(r) < N /\ N # 0 /\ ~(i + N <= Len(s))
      BY <1>1, <2>1, <2>7, SMTT(30)
    <3>2. ~(Len(r) = 1 /\ r[1] \in {224, 240})
      BY <1>1, <2>1, <2>5
    <3>3. Len(r) < Needed(r[1])
      BY <2>5, <3>1 DEF N
    <3>4. MayStillBeValid(r)
      BY <2>1, <2>2, <3>1, <3>2, <3>3, MayStillBeValidIsComplete, ZenonT(40)
    <3> QED BY <3>1, <3>4, Zenon DEF Broken, r, N
  <2> QED BY <1>1, <2>6, <2>7
<1> QED BY <1>1, <1>3, <1>4, <1>5

\* A code point that is held is one that some bytes complete.
LEMMA HeldIsHopeful ==
    ASSUME NEW s \in Seq(Byte), NEW i \in Boundaries(s), NEW lacking, NEW held, HeldAt(s, i, lacking, held)
    PROVE  BeginsUtf8(s)
<1> DEFINE r == Rest(s, i)
           n == Needed(s[i + 1])
<1>1. Len(s) \in Nat /\ i \in 0 .. Len(s) /\ n \in 0 .. 4
  BY BoundariesAre DEF Needed
<1>2. CASE i = Len(s)
  BY <1>2, Zenon DEF BeginsUtf8
<1>3. CASE i < Len(s)
  <2>1. lacking = n - (Len(s) - i) /\ lacking > 0 /\ MayStillBeValid(r)
    BY <1>3, Zenon DEF HeldAt
  <2>2. r \in Seq(Byte) /\ Len(r) = Len(s) - i /\ \A m \in 1 .. Len(s) - i : r[m] = s[i + m]
    BY <1>1, RestIs
  <2> HIDE DEF r, n
  <2>3. Len(r) \in 1 .. 3 /\ Len(r) < n /\ 1 \in 1 .. Len(s) - i
    BY <1>1, <1>3, <2>1, <2>2
  <2>4. Len(r) < Needed(r[1])
    BY <2>2, <2>3 DEF n
  <2>5. CodePointPrefix(r)
    BY <2>1, <2>2, <2>3, <2>4, MayStillBeValidIsSound
  <2> QED BY <2>5, Zenon DEF BeginsUtf8, r, Rest
<1> QED BY <1>1, <1>2, <1>3

\* A text is complete if nothing is lacking.
LEMMA HeldDecides ==
    ASSUME NEW s \in Seq(Byte), NEW i \in Boundaries(s), NEW lacking, NEW held, HeldAt(s, i, lacking, held)
    PROVE  IsUtf8(s) <=> lacking = 0
<1> DEFINE n == Needed(s[i + 1])
<1>1. Len(s) \in Nat /\ i \in 0 .. Len(s) /\ n \in 0 .. 4
  BY BoundariesAre DEF Needed
<1>2. CASE i = Len(s)
  BY <1>2, Zenon DEF HeldAt, IsUtf8
<1>3. CASE i < Len(s)
  <2>1. lacking = n - (Len(s) - i) /\ lacking > 0
    BY <1>3, Zenon DEF HeldAt
  <2>2. ASSUME IsUtf8(s) PROVE FALSE
    <3>1. Complete(s, i, Len(s))
      BY <1>3, <2>2, BoundaryBefore DEF IsUtf8
    <3>2. i + n <= Len(s)
      BY <3>1, Zenon DEF Complete
    <3> HIDE DEF n
    <3> QED BY <1>1, <2>1, <3>2
  <2>3. lacking # 0
    BY <2>1
  <2> QED BY <2>2, <2>3
<1> QED BY <1>1, <1>2, <1>3

-------------------------------------------------------------------------------
(* The checker. *)

Verdicts == {"none", "fits", "misfit", "accepted", "unfinished"}

\* Between two pieces the checker is at the code point the text breaks off in; a verdict
\* against the text points to where it is broken.
Utf8Inv ==
    /\ text \in Seq(Byte)
    /\ verdict \in Verdicts
    /\ verdict \in {"none", "fits"} => \E i \in Boundaries(text) : HeldAt(text, i, need, cp)
    /\ verdict = "accepted" => IsUtf8(text)
    /\ verdict = "unfinished" => ~IsUtf8(text)
    /\ verdict = "misfit" => /\ Len(text) \in ends
                             /\ \E i \in Boundaries(text) : Broken(text, i)

\* Nothing is held of no text.
LEMMA EmptyHeld == \E i \in Boundaries(<<>>) : HeldAt(<<>>, i, 0, <<>>)
<1>1. <<>> \in Seq(Byte) /\ Len(<<>>) = 0
  OBVIOUS
<1>2. 0 \in Boundaries(<<>>)
  BY <1>1, BoundariesAre
<1>3. Rest(<<>>, 0) = <<>>
  BY SMT DEF Rest
<1>4. HeldAt(<<>>, 0, 0, <<>>)
  BY <1>1, <1>2, <1>3 DEF HeldAt
<1> QED BY <1>2, <1>4

\* A new checker holds nothing.
LEMMA InitUtf8 == Init => Utf8Inv
<1> SUFFICES ASSUME Init PROVE Utf8Inv
  OBVIOUS
<1>1. text = <<>> /\ need = 0 /\ cp = <<>> /\ verdict = "none"
  BY DEF Init
<1>2. text \in Seq(Byte)
  BY <1>1
<1>3. \E i \in Boundaries(text) : HeldAt(text, i, need, cp)
  BY <1>1, EmptyHeld
<1> QED BY <1>1, <1>2, <1>3 DEF Utf8Inv, Verdicts

\* write, whether or not a code point was cut before this piece.
LEMMA WriteKeeps ==
    ASSUME Utf8Inv, NEW n \in 0 .. MaxPiece, NEW s \in [1 .. n -> Bytes], Write(s)
    PROVE  Utf8Inv'
<1> DEFINE after == IF need > 0 THEN Completed(s) ELSE Scan(s)
<1>1. text \in Seq(Byte) /\ text' = text \o s /\ ends' = ends \cup {Len(text')}
  BY DEF Utf8Inv, Write
<1>2. /\ need' = after.need /\ cp' = after.cp
      /\ verdict' = IF after.ok THEN "fits" ELSE "misfit"
  BY Zenon DEF Write
<1>3. s \in Seq(Byte)
  <2>1. n \in Nat
    BY LimitsAssumption DEF LimitsAssumption
  <2>2. Bytes \subseteq Byte
    BY BytesAssumption DEF BytesAssumption, Byte
  <2>3. s \in [1 .. n -> Byte]
    BY <2>2
  <2> QED BY <2>1, <2>3, SeqDef
<1>4. PICK i \in Boundaries(text) : HeldAt(text, i, need, cp)
  BY DEF Utf8Inv, Write
<1>5. i \in 0 .. Len(text) /\ Len(text) \in Nat
  BY <1>1, BoundariesAre
<1>6. Outcome(text', after)
  <2>1. CASE need > 0
    <3>1. Outcome(text \o s, Completed(s))
      BY <1>1, <1>3, <1>4, <1>5, <2>1, CompletedIs
    <3> QED BY <1>1, <2>1, <3>1, Zenon
  <2>2. CASE ~(need > 0)
    <3>1. i = Len(text)
      BY <1>4, <1>5, <2>2 DEF HeldAt
    <3>2. Outcome(s, Scan(s))
      BY <1>3, ScanIs
    <3>3. Outcome(text \o s, Scan(s))
      BY <1>1, <1>3, <1>4, <3>1, <3>2, OutcomeMoves
    <3> QED BY <1>1, <2>2, <3>3, Zenon
  <2> QED BY <2>1, <2>2
<1> HIDE DEF after
<1>7. text' \in Seq(Byte)
  BY <1>1, <1>3, Joined
<1>8. CASE after.ok
  <2>1. verdict' = "fits"
    BY <1>2, <1>8
  <2>2. \E k \in Boundaries(text') : HeldAt(text', k, need', cp')
    BY <1>2, <1>6, <1>8, Zenon DEF Outcome
  <2> QED BY <1>7, <2>1, <2>2 DEF Utf8Inv, Verdicts
<1>9. CASE ~after.ok
  <2>1. verdict' = "misfit"
    BY <1>2, <1>9
  <2>2. \E k \in Boundaries(text') : Broken(text', k)
    BY <1>6, <1>9, Zenon DEF Outcome
  <2> QED BY <1>1, <1>7, <2>1, <2>2 DEF Utf8Inv, Verdicts
<1> QED BY <1>8, <1>9

\* finish: the text is complete exactly if nothing is lacking.
LEMMA FinishKeeps ==
    ASSUME Utf8Inv, Finish
    PROVE  Utf8Inv'
<1>1. text \in Seq(Byte) /\ text' = text
  BY DEF Utf8Inv, Finish
<1>2. PICK i \in Boundaries(text) : HeldAt(text, i, need, cp)
  BY DEF Utf8Inv, Finish
<1>3. IsUtf8(text) <=> need = 0
  BY <1>1, <1>2, HeldDecides
<1>4. verdict' = IF need = 0 THEN "accepted" ELSE "unfinished"
  BY DEF Finish
<1>5. CASE need = 0
  <2>1. verdict' = "accepted" /\ IsUtf8(text')
    BY <1>1, <1>3, <1>4, <1>5
  <2> QED BY <1>1, <2>1 DEF Utf8Inv, Verdicts
<1>6. CASE need # 0
  <2>1. verdict' = "unfinished" /\ ~IsUtf8(text')
    BY <1>1, <1>3, <1>4, <1>6
  <2> QED BY <1>1, <2>1 DEF Utf8Inv, Verdicts
<1> QED BY <1>5, <1>6

\* Every call keeps the invariant.
LEMMA NextUtf8 == Utf8Inv /\ [Next]_vars => Utf8Inv'
<1> SUFFICES ASSUME Utf8Inv, [Next]_vars PROVE Utf8Inv'
  OBVIOUS
<1>1. ASSUME NEW n \in 0 .. MaxPiece, NEW s \in [1 .. n -> Bytes], Write(s) PROVE Utf8Inv'
  BY <1>1, WriteKeeps
<1>2. CASE Finish
  BY <1>2, FinishKeeps
<1>3. CASE Reset
  <2>1. text' = <<>> /\ need' = 0 /\ cp' = <<>> /\ verdict' = "none"
    BY <1>3 DEF Reset
  <2>2. text' \in Seq(Byte)
    BY <2>1
  <2>3. \E i \in Boundaries(text') : HeldAt(text', i, need', cp')
    BY <2>1, EmptyHeld
  <2> QED BY <2>1, <2>2, <2>3 DEF Utf8Inv, Verdicts
<1>4. CASE UNCHANGED vars
  BY <1>4 DEF Utf8Inv, vars
<1> QED BY <1>1, <1>2, <1>3, <1>4 DEF Next

\* The invariant of the checker.
LEMMA Utf8Invariant == Spec => []Utf8Inv
<1> QED BY InitUtf8, NextUtf8, PTL DEF Spec

\* However a text is cut into pieces, finish accepts it only if it is UTF-8 as a whole, and
\* as long as write returns true some text goes on from what was written.
THEOREM OnlyUtf8Accepted == Spec => []AcceptsOnlyUtf8
<1>1. Utf8Inv => AcceptsOnlyUtf8
  <2> SUFFICES ASSUME Utf8Inv PROVE AcceptsOnlyUtf8
    OBVIOUS
  <2>1. verdict = "accepted" => IsUtf8(text)
    BY DEF Utf8Inv
  <2>2. ASSUME verdict = "fits" PROVE BeginsUtf8(text)
    <3>1. PICK i \in Boundaries(text) : HeldAt(text, i, need, cp)
      BY <2>2 DEF Utf8Inv
    <3>2. text \in Seq(Byte)
      BY DEF Utf8Inv
    <3> QED BY <3>1, <3>2, HeldIsHopeful
  <2> QED BY <2>1, <2>2 DEF AcceptsOnlyUtf8
<1> QED BY <1>1, Utf8Invariant, PTL

\* What the checker holds between two pieces is the code point the text breaks off in and
\* the number of bytes it lacks, whatever the pieces were.
THEOREM RemainderHeld == Spec => []HoldsTheRemainder
<1>1. Utf8Inv => HoldsTheRemainder
  <2> SUFFICES ASSUME Utf8Inv, verdict = "fits"
               PROVE  \E i \in Boundaries(text) :
                         /\ cp = SubSeq(text, i + 1, Len(text))
                         /\ need = IF cp = <<>> THEN 0 ELSE Needed(cp[1]) - Len(cp)
    BY DEF HoldsTheRemainder
  <2>1. PICK i \in Boundaries(text) : HeldAt(text, i, need, cp)
    BY DEF Utf8Inv
  <2>2. text \in Seq(Byte)
    BY DEF Utf8Inv
  <2>3. i \in 0 .. Len(text) /\ Len(text) \in Nat
    BY <2>2, BoundariesAre
  <2>4. cp = Rest(text, i)
    BY <2>1 DEF HeldAt
  <2>5. /\ cp \in Seq(Byte) /\ Len(cp) = Len(text) - i
        /\ \A m \in 1 .. Len(text) - i : cp[m] = text[i + m]
    BY <2>2, <2>3, <2>4, RestIs
  <2>6. need = IF cp = <<>> THEN 0 ELSE Needed(cp[1]) - Len(cp)
    <3>1. CASE i = Len(text)
      BY <2>1, <2>3, <2>5, <3>1 DEF HeldAt
    <3>2. CASE i < Len(text)
      <4>1. need = Needed(text[i + 1]) - (Len(text) - i)
        BY <2>1, <3>2 DEF HeldAt
      <4>2. cp # <<>> /\ cp[1] = text[i + 1]
        <5>1. 1 \in 1 .. Len(text) - i /\ Len(cp) # 0
          BY <2>3, <2>5, <3>2
        <5> QED BY <2>5, <5>1
      <4> QED BY <2>5, <4>1, <4>2
    <3> QED BY <2>3, <3>1, <3>2
  <2> QED BY <2>4, <2>6 DEF Rest
<1> QED BY <1>1, Utf8Invariant, PTL

\* write returns false only where no text goes on, but for a piece that ends behind E0 or
\* F0; and finish returns false only for a text that breaks off.
THEOREM OnlyOthersRejected == Spec => []RejectsOnlyOthers
<1>1. Utf8Inv => RejectsOnlyOthers
  <2> SUFFICES ASSUME Utf8Inv PROVE RejectsOnlyOthers
    OBVIOUS
  <2>1. verdict = "unfinished" => ~IsUtf8(text)
    BY DEF Utf8Inv
  <2>2. ASSUME verdict = "misfit", ~CutAfterLead PROVE ~BeginsUtf8(text)
    <3>1. PICK i \in Boundaries(text) : Broken(text, i)
      BY <2>2 DEF Utf8Inv
    <3>2. text \in Seq(Byte) /\ Len(text) \in ends
      BY <2>2 DEF Utf8Inv
    <3>3. i \in 0 .. Len(text) /\ Len(text) \in Nat
      BY <3>2, BoundariesAre
    <3>4. ~(i + 1 = Len(text) /\ text[i + 1] \in {224, 240})
      <4> SUFFICES ASSUME i + 1 = Len(text), text[i + 1] \in {224, 240} PROVE FALSE
        OBVIOUS
      <4>1. Len(text) \in ends \ {0} /\ Len(text) - 1 = i
        BY <3>2, <3>3
      <4>2. text[Len(text)] \in {224, 240} /\ Len(text) - 1 \in Boundaries(text)
        BY <4>1
      <4> QED BY <2>2, <4>1, <4>2, Zenon DEF CutAfterLead
    <3> QED BY <3>1, <3>2, <3>4, BrokenIsHopeless
  <2> QED BY <2>1, <2>2 DEF RejectsOnlyOthers
<1> QED BY <1>1, Utf8Invariant, PTL
===============================================================================
