------------------------------- MODULE FoldLaws -------------------------------
(***************************************************************************)
(* What holds of every fold, for the one over the operator Op: an INSTANCE *)
(* of this module for each operator a header is read or written with.      *)
(* Going is the set of what Op goes on from, Given that of what it is      *)
(* given.                                                                  *)
(***************************************************************************)
EXTENDS Sequences, Induction

CONSTANT Op(_, _)

\* FoldOnce of HeaderValue, over Op.
Fold(base, seq) ==
    LET upTo[i \in 0 .. Len(seq)] ==
            IF i = 0 THEN base ELSE CHOOSE result \in {Op(before, seq[i]) : before \in {upTo[i - 1]}} : TRUE
    IN  upTo[Len(seq)]

\* The function Fold is defined by.
Folds(upTo, base, seq) ==
    upTo = [i \in 0 .. Len(seq) |->
              IF i = 0 THEN base ELSE CHOOSE result \in {Op(before, seq[i]) : before \in {upTo[i - 1]}} : TRUE]

\* What Op makes of one of Going is one of them.
Goes(Going, Given) == \A v \in Going, c \in Given : Op(v, c) \in Going

\* f has the values the elements of s give one after the other.
Steps(f, base, s, Going) ==
    /\ f \in [0 .. Len(s) -> Going] /\ f[0] = base
    /\ \A i \in 1 .. Len(s) : f[i] = Op(f[i - 1], s[i])

\* There is such a function, and Fold its last value.
LEMMA FoldSteps ==
    ASSUME NEW Going, NEW Given, Goes(Going, Given),
           NEW base \in Going, NEW s \in Seq(Given)
    PROVE  \E f : Steps(f, base, s, Going) /\ Fold(base, s) = f[Len(s)]
<1> DEFINE n == Len(s)
           next == [q \in (1 .. n) \X Going |-> Op(q[2], s[q[1]])]
<1>1. n \in Nat /\ \A i \in 1 .. n : s[i] \in Given
  OBVIOUS
<1>2. next \in [(1 .. n) \X Going -> Going]
  BY <1>1 DEF Goes
<1>3. \A i \in 1 .. n, v \in Going : next[<<i, v>>] = Op(v, s[i])
  OBVIOUS
<1> HIDE DEF next, n
<1>4. PICK f : Recursive(f, Going, base, n, next)
  BY <1>1, <1>2, RecursionDefines, Zenon
<1>5. f \in [0 .. n -> Going] /\ f[0] = base /\ \A i \in 1 .. n : f[i] = next[<<i, f[i - 1]>>]
  BY <1>4 DEF Recursive
<1>6. \A i \in 1 .. n : f[i - 1] \in Going /\ f[i] = Op(f[i - 1], s[i])
  <2>1. \A i \in 1 .. n : i - 1 \in 0 .. n
    BY <1>1
  <2> QED BY <1>3, <1>5, <2>1
<1>7. Folds(f, base, s)
  <2>1. \A i \in 0 .. n : f[i] = IF i = 0 THEN base
                                 ELSE CHOOSE result \in {Op(before, s[i]) : before \in {f[i - 1]}} : TRUE
    <3>1. ASSUME NEW i \in 0 .. n, i # 0
          PROVE  f[i] = CHOOSE result \in {Op(before, s[i]) : before \in {f[i - 1]}} : TRUE
      <4>1. i \in 1 .. n
        BY <1>1, <3>1
      <4>2. {Op(before, s[i]) : before \in {f[i - 1]}} = {f[i]}
        BY <1>6, <4>1
      <4> QED BY <4>2
    <3> QED BY <1>5, <3>1
  <2> QED BY <1>5, <2>1 DEF Folds, n
<1> DEFINE g == CHOOSE t : Folds(t, base, s)
<1>8. Folds(g, base, s)
  BY <1>7
<1>9. Fold(base, s) = g[n]
  BY Zenon DEF Fold, Folds, n
<1> HIDE DEF g
<1>10. \A i \in 0 .. n : g[i] = f[i]
  <2>1. g[0] = base
    BY <1>1, <1>8 DEF Folds, n
  <2>2. ASSUME NEW i \in 1 .. n, g[i - 1] = f[i - 1] PROVE g[i] = f[i]
    <3>1. i \in 0 .. n /\ i # 0
      BY <1>1
    <3>2. g[i] = CHOOSE result \in {Op(before, s[i]) : before \in {g[i - 1]}} : TRUE
      BY <1>8, <3>1 DEF Folds, n
    <3>3. {Op(before, s[i]) : before \in {g[i - 1]}} = {f[i]}
      BY <1>6, <2>2
    <3> QED BY <3>2, <3>3
  <2>3. InStep(g, f, n)
    BY <1>5, <2>1, <2>2 DEF InStep
  <2> QED BY <1>1, <2>3, RecursionUnique, Zenon
<1>11. Fold(base, s) = f[n]
  <2>1. n \in 0 .. n
    BY <1>1
  <2> QED BY <1>9, <1>10, <2>1
<1> QED BY <1>5, <1>6, <1>11 DEF n, Steps

\* It is what the last of such values is.
LEMMA FoldIs ==
    ASSUME NEW Going, NEW Given, Goes(Going, Given),
           NEW base \in Going, NEW s \in Seq(Given),
           NEW g, g[0] = base, \A i \in 1 .. Len(s) : g[i] = Op(g[i - 1], s[i])
    PROVE  Fold(base, s) = g[Len(s)]
<1>1. PICK f : Steps(f, base, s, Going) /\ Fold(base, s) = f[Len(s)]
  BY FoldSteps
<1>2. InStep(g, f, Len(s))
  BY <1>1 DEF InStep, Steps
<1>3. Len(s) \in Nat /\ Len(s) \in 0 .. Len(s)
  OBVIOUS
<1>4. \A i \in 0 .. Len(s) : g[i] = f[i]
  BY <1>2, <1>3, RecursionUnique
<1> QED BY <1>1, <1>3, <1>4

LEMMA FoldType ==
    ASSUME NEW Going, NEW Given, Goes(Going, Given), NEW base \in Going, NEW s \in Seq(Given)
    PROVE  Fold(base, s) \in Going
<1>1. PICK f : Steps(f, base, s, Going) /\ Fold(base, s) = f[Len(s)]
  BY FoldSteps
<1>2. Len(s) \in 0 .. Len(s)
  OBVIOUS
<1> QED BY <1>1, <1>2 DEF Steps

LEMMA FoldNone ==
    ASSUME NEW Going, NEW Given, Goes(Going, Given), NEW base \in Going
    PROVE  Fold(base, <<>>) = base
<1>1. <<>> \in Seq(Given) /\ Len(<<>>) = 0
  OBVIOUS
<1>2. PICK f : Steps(f, base, <<>>, Going) /\ Fold(base, <<>>) = f[Len(<<>>)]
  BY <1>1, FoldSteps
<1> QED BY <1>1, <1>2 DEF Steps

\* One more element is one more step.
LEMMA FoldGoesOn ==
    ASSUME NEW Going, NEW Given, Goes(Going, Given),
           NEW base \in Going, NEW s \in Seq(Given), NEW c \in Given
    PROVE  Fold(base, Append(s, c)) = Op(Fold(base, s), c)
<1> DEFINE t == Append(s, c)
           n == Len(s)
<1>1. t \in Seq(Given) /\ n \in Nat /\ Len(t) = n + 1 /\ t[n + 1] = c /\ \A i \in 1 .. n : t[i] = s[i]
  OBVIOUS
<1> HIDE DEF t
<1>2. PICK f : Steps(f, base, t, Going) /\ Fold(base, t) = f[Len(t)]
  BY <1>1, FoldSteps
<1>3. f[0] = base /\ \A i \in 1 .. n + 1 : f[i] = Op(f[i - 1], t[i])
  BY <1>1, <1>2 DEF Steps
<1>4. Fold(base, s) = f[n]
  <2>1. \A i \in 1 .. Len(s) : f[i] = Op(f[i - 1], s[i])
    BY <1>1, <1>3
  <2> QED BY <1>3, <2>1, FoldIs
<1>5. f[n + 1] = Op(f[n], c)
  <2>1. n + 1 \in 1 .. n + 1 /\ (n + 1) - 1 = n
    BY <1>1
  <2> QED BY <1>1, <1>3, <2>1
<1> QED BY <1>1, <1>2, <1>4, <1>5 DEF t

\* What follows goes on from where what precedes it ends.
LEMMA FoldJoined ==
    ASSUME NEW Going, NEW Given, Goes(Going, Given),
           NEW base \in Going, NEW a \in Seq(Given), NEW b \in Seq(Given)
    PROVE  Fold(base, a \o b) = Fold(Fold(base, a), b)
<1> DEFINE s == a \o b
           n == Len(a)
           m == Len(b)
<1>1. /\ s \in Seq(Given) /\ n \in Nat /\ m \in Nat /\ Len(s) = n + m
      /\ \A i \in 1 .. n : s[i] = a[i]
      /\ \A i \in 1 .. m : s[n + i] = b[i]
  OBVIOUS
<1> HIDE DEF s
<1>2. PICK f : Steps(f, base, s, Going) /\ Fold(base, s) = f[Len(s)]
  BY <1>1, FoldSteps
<1>3. f \in [0 .. n + m -> Going] /\ f[0] = base /\ \A i \in 1 .. n + m : f[i] = Op(f[i - 1], s[i])
  BY <1>1, <1>2 DEF Steps
<1>4. Fold(base, a) = f[n]
  <2>1. \A i \in 1 .. n : i \in 1 .. n + m
    BY <1>1
  <2>2. \A i \in 1 .. Len(a) : f[i] = Op(f[i - 1], a[i])
    BY <1>1, <1>3, <2>1
  <2>3. f[0] = base
    BY <1>3
  <2>4. Fold(base, a) = f[Len(a)]
    BY <2>2, <2>3, FoldIs
  <2> QED BY <2>4
<1> DEFINE g == [i \in 0 .. m |-> f[n + i]]
<1>5. g[0] = f[n] /\ g[m] = f[n + m] /\ f[n] \in Going
  BY <1>1, <1>3
<1>6. ASSUME NEW i \in 1 .. m PROVE g[i] = Op(g[i - 1], b[i])
  <2>1. n + i \in 1 .. n + m /\ (n + i) - 1 = n + (i - 1) /\ i - 1 \in 0 .. m /\ i \in 0 .. m
    BY <1>1
  <2>2. f[n + i] = Op(f[n + (i - 1)], b[i])
    BY <1>1, <1>3, <2>1
  <2> QED BY <2>1, <2>2
<1> HIDE DEF g
<1>7. Fold(f[n], b) = g[m]
  BY <1>5, <1>6, FoldIs
<1> QED BY <1>1, <1>2, <1>4, <1>5, <1>7 DEF s
===============================================================================
