--------------------------- MODULE RangeSearchProofs ---------------------------
(***************************************************************************)
(* Theorems about KmpFinder over joined ranges: for every pattern, every   *)
(* range and any number of calls of find.                                  *)
(***************************************************************************)
EXTENDS RangeSearchProperties, SequenceTheorems, Induction, TLAPS

-------------------------------------------------------------------------------
(* The inductive invariant. Shape: what the variables hold.                *)

Shape ==
    /\ pattern \in Seq(Alphabet) /\ pattern # <<>>
    /\ prefix \in Seq(Nat)
    /\ containers \in Seq(Seq(Alphabet))
    /\ read \in Seq(Alphabet)
    /\ finding \in BOOLEAN /\ astray \in BOOLEAN /\ misused \in BOOLEAN
    /\ astray => finding
    /\ Constructing => ~finding /\ j = 0 /\ read = <<>>

\* The first k elements of p are the last k of the first n of s.
Ends(p, s, n, k) == k \in 0 .. n /\ \A m \in 1 .. k : p[m] = s[n - k + m]

\* They are a proper beginning and the end of the first i of p itself.
Border(p, i, k) == k < i /\ Ends(p, p, i, k)

LongestBorder(p, i, k) == Border(p, i, k) /\ \A l \in 0 .. i - 1 : Border(p, i, l) => l <= k

\* The table so far is right. While it is under construction len is a border from which
\* the next one can be reached, and no longer one can.
TableInv ==
    /\ \A i \in 1 .. Len(prefix) : LongestBorder(pattern, i, prefix[i])
    /\ Constructing =>
          /\ Border(pattern, Len(prefix), len)
          /\ \A k \in 0 .. Len(prefix) : Border(pattern, Len(prefix) + 1, k) => k <= len + 1

\* j elements of the pattern are held, and those who are more cannot go on with the next element;
\* the whole pattern is where find returned with it, and nowhere else. A call that reads outside
\* leaves only that what is held is held.
SearchInv ==
    /\ Ends(pattern, read, Len(read), j)
    /\ misused
       \/ /\ \A k \in j + 1 .. Len(pattern) :
                Ends(pattern, read, Len(read), k) => finding /\ k < Len(pattern) /\ pattern[k + 1] # Element(iter)
          /\ \A n \in 0 .. Len(read) : Ends(pattern, read, n, Len(pattern)) => n = Len(read) /\ j = Len(pattern)

Behind(a, b) == a.container > b.container \/ (a.container = b.container /\ a.element > b.element)

\* What find returns is where it began, or the place behind a match.
ResultInv ==
    /\ finding => /\ result = begin
                  /\ iter = begin \/ (~IsEnd(begin) /\ Behind(iter, begin))
    /\ ~finding /\ read # <<>> => IF j = Len(pattern) THEN result = iter /\ ~Same(result, begin)
                                  ELSE result = begin

\* What was read last is what lies between the two iterators.
ReadInv ==
    finding \/ read # <<>> =>
        \/ iter = begin
        \/ \E p, q \in Seq(Alphabet) : Before(iter) = Before(begin) \o p /\ read = q \o p

KmpInv == Shape /\ InBounds /\ TableInv /\ SearchInv /\ ResultInv /\ ReadInv

-------------------------------------------------------------------------------
(* Beginnings of the pattern at the end of something.                      *)

\* A border of what is held is held.
LEMMA EndsWithin ==
    ASSUME NEW p, NEW s, NEW n \in Nat, NEW k \in Nat, NEW l \in Nat, Ends(p, s, n, k), Ends(p, p, k, l)
    PROVE  Ends(p, s, n, l)
<1>1. l \in 0 .. n
  BY DEF Ends
<1>2. ASSUME NEW m \in 1 .. l PROVE p[m] = s[n - l + m]
  <2>1. p[m] = p[k - l + m]
    BY DEF Ends
  <2>2. k - l + m \in 1 .. k /\ n - k + (k - l + m) = n - l + m
    BY DEF Ends
  <2>3. p[k - l + m] = s[n - k + (k - l + m)]
    BY <2>2 DEF Ends
  <2> QED BY <2>1, <2>2, <2>3
<1> QED BY <1>1, <1>2 DEF Ends

\* Of two that are held the shorter one is a border of the longer.
LEMMA EndsShorter ==
    ASSUME NEW p, NEW s, NEW n \in Nat, NEW k \in Nat, NEW l \in Nat, Ends(p, s, n, k), Ends(p, s, n, l), l <= k
    PROVE  Ends(p, p, k, l)
<1>1. l \in 0 .. k
  OBVIOUS
<1>2. ASSUME NEW m \in 1 .. l PROVE p[m] = p[k - l + m]
  <2>1. p[m] = s[n - l + m]
    BY DEF Ends
  <2>2. k - l + m \in 1 .. k /\ n - k + (k - l + m) = n - l + m
    BY DEF Ends
  <2>3. p[k - l + m] = s[n - k + (k - l + m)]
    BY <2>2 DEF Ends
  <2> QED BY <2>1, <2>2, <2>3
<1> QED BY <1>1, <1>2 DEF Ends

\* What is held after another element was held before it, and goes on with the element.
LEMMA EndsStep ==
    ASSUME NEW p, NEW s, NEW n \in Nat, NEW k \in Nat
    PROVE  Ends(p, s, n + 1, k + 1) <=> Ends(p, s, n, k) /\ p[k + 1] = s[n + 1]
<1>1. \A m \in 1 .. k + 1 : (n + 1) - (k + 1) + m = n - k + m
  OBVIOUS
<1>2. ASSUME Ends(p, s, n + 1, k + 1) PROVE Ends(p, s, n, k) /\ p[k + 1] = s[n + 1]
  <2>1. k \in 0 .. n
    BY <1>2 DEF Ends
  <2>2. ASSUME NEW m \in 1 .. k + 1 PROVE p[m] = s[n - k + m]
    BY <1>1, <1>2, <2>2 DEF Ends
  <2>3. k + 1 \in 1 .. k + 1 /\ n - k + (k + 1) = n + 1 /\ \A m \in 1 .. k : m \in 1 .. k + 1
    BY <2>1
  <2> QED BY <2>1, <2>2, <2>3 DEF Ends
<1>3. ASSUME Ends(p, s, n, k), p[k + 1] = s[n + 1] PROVE Ends(p, s, n + 1, k + 1)
  <2>1. k + 1 \in 0 .. n + 1
    BY <1>3 DEF Ends
  <2>2. ASSUME NEW m \in 1 .. k + 1 PROVE p[m] = s[(n + 1) - (k + 1) + m]
    <3>1. CASE m \in 1 .. k
      BY <1>1, <1>3, <3>1 DEF Ends
    <3>2. CASE m = k + 1
      <4>1. (n + 1) - (k + 1) + m = n + 1
        BY <2>1, <3>2
      <4> QED BY <1>3, <3>2, <4>1
    <3> QED BY <3>1, <3>2
  <2> QED BY <2>1, <2>2 DEF Ends
<1> QED BY <1>2, <1>3

\* Nothing is always held.
LEMMA EndsNone == ASSUME NEW p, NEW s, NEW n \in Nat PROVE Ends(p, s, n, 0)
BY DEF Ends

\* Of s only what is there counts.
LEMMA EndsSame ==
    ASSUME NEW p, NEW s, NEW t, NEW n \in Nat, NEW k \in Nat, \A i \in 1 .. n : s[i] = t[i], Ends(p, s, n, k)
    PROVE  Ends(p, t, n, k)
<1>1. k \in 0 .. n
  BY DEF Ends
<1>2. ASSUME NEW m \in 1 .. k PROVE p[m] = t[n - k + m]
  <2>1. n - k + m \in 1 .. n
    BY <1>1
  <2> QED BY <2>1 DEF Ends
<1> QED BY <1>1, <1>2 DEF Ends

\* The same in terms of subsequences.
Closes(p, s, n, k) == SubSeq(p, 1, k) = SubSeq(s, n - k + 1, n)

LEMMA EndsIs ==
    ASSUME NEW A, NEW p \in Seq(A), NEW s \in Seq(A), NEW n \in 0 .. Len(s), NEW k \in 0 .. Len(p), k <= n
    PROVE  Ends(p, s, n, k) <=> Closes(p, s, n, k)
<1> DEFINE u == SubSeq(p, 1, k)
           v == SubSeq(s, n - k + 1, n)
<1>1. Len(u) = k /\ \A m \in 1 .. k : u[m] = p[m]
  OBVIOUS
<1>2. Len(v) = k /\ \A m \in 1 .. k : v[m] = s[n - k + m]
  OBVIOUS
<1>3. u \in Seq(A) /\ v \in Seq(A)
  OBVIOUS
<1> HIDE DEF u, v
<1>4. u = v <=> \A m \in 1 .. k : u[m] = v[m]
  BY <1>1, <1>2, <1>3, SeqEqual
<1>5. k \in 0 .. n
  OBVIOUS
<1>6. Ends(p, s, n, k) <=> \A m \in 1 .. k : u[m] = v[m]
  BY <1>1, <1>2, <1>5 DEF Ends
<1> QED BY <1>4, <1>6 DEF u, v, Closes

-------------------------------------------------------------------------------
(* The constructor.                                                        *)

\* The table after another entry: it is kept, and the entry added.
LEMMA Extended ==
    ASSUME Shape, NEW k \in Nat, prefix' = Append(prefix, k)
    PROVE  /\ prefix' \in Seq(Nat) /\ Len(prefix') = Len(prefix) + 1 /\ prefix'[Len(prefix) + 1] = k
           /\ \A i \in 1 .. Len(prefix) : prefix'[i] = prefix[i]
BY DEF Shape

\* What an entry must be for the table to be right with it, and the length reached from it.
LEMMA EntryKeeps ==
    ASSUME Shape, InBounds, TableInv, Constructing, NEW k \in Nat,
           prefix' = Append(prefix, k), len' = k, UNCHANGED pattern,
           LongestBorder(pattern, Len(prefix) + 1, k)
    PROVE  TableInv'
<1> DEFINE n == Len(prefix)
<1>1. n \in Nat \ {0}
  BY DEF Shape, InBounds
<1>2. /\ Len(prefix') = n + 1 /\ prefix'[n + 1] = k
      /\ \A i \in 1 .. n : prefix'[i] = prefix[i]
  BY Extended
<1>5. ASSUME NEW i \in 1 .. n + 1 PROVE LongestBorder(pattern, i, prefix'[i])
  <2>1. i \in 1 .. n \/ i = n + 1
    BY <1>1
  <2> QED BY <1>2, <2>1 DEF TableInv
<1>6. ASSUME NEW l \in 0 .. n + 1, Border(pattern, n + 2, l) PROVE l <= k + 1
  <2>1. CASE l = 0
    BY <2>1
  <2>2. CASE l # 0
    <3>1. l - 1 \in 0 .. n /\ l - 1 \in Nat /\ (l - 1) + 1 = l /\ n + 1 \in Nat /\ (n + 1) + 1 = n + 2
      BY <1>1, <2>2
    <3>2. Ends(pattern, pattern, n + 1, l - 1)
      <4>1. Ends(pattern, pattern, (n + 1) + 1, (l - 1) + 1)
        BY <1>6, <3>1 DEF Border
      <4> QED BY <3>1, <4>1, EndsStep, Zenon
    <3>3. Border(pattern, n + 1, l - 1)
      BY <3>1, <3>2 DEF Border
    <3>4. l - 1 <= k
      BY <3>1, <3>3 DEF LongestBorder
    <3> QED BY <3>1, <3>4
  <2> QED BY <2>1, <2>2
<1>7. Border(pattern, n + 1, k)
  BY DEF LongestBorder
<1>8. (n + 1) + 1 = n + 2
  BY <1>1
<1> HIDE DEF n
<1> QED BY <1>2, <1>5, <1>6, <1>7, <1>8 DEF TableInv

\* The same element: len + 1 is the next border, and the longest.
LEMMA LengthenKeeps ==
    ASSUME Shape, InBounds, TableInv, Lengthen
    PROVE  TableInv'
<1> DEFINE n == Len(prefix)
<1>1. n \in Nat \ {0} /\ len \in 0 .. n - 1 /\ len \in Nat /\ n \in Nat /\ len + 1 \in Nat
  BY DEF Shape, InBounds
<1>2. Constructing /\ pattern[n + 1] = pattern[len + 1]
  BY DEF Lengthen, Continues
<1>3. Border(pattern, n, len) /\ \A k \in 0 .. n : Border(pattern, n + 1, k) => k <= len + 1
  BY <1>2 DEF TableInv
<1>4. Ends(pattern, pattern, n + 1, len + 1)
  BY <1>1, <1>2, <1>3, EndsStep DEF Border
<1>5. LongestBorder(pattern, n + 1, len + 1)
  <2>1. len + 1 < n + 1 /\ (n + 1) - 1 = n
    BY <1>1
  <2> QED BY <1>3, <1>4, <2>1 DEF LongestBorder, Border
<1> QED BY <1>1, <1>2, <1>5, EntryKeeps DEF Lengthen

\* Another element: the next shorter border is tried.
LEMMA ShortenKeeps ==
    ASSUME Shape, InBounds, TableInv, Shorten
    PROVE  TableInv'
<1> DEFINE n == Len(prefix)
           l == prefix[len]
<1>1. n \in Nat \ {0} /\ len \in 1 .. n - 1 /\ l \in 0 .. len - 1 /\ len \in Nat /\ n \in Nat /\ l \in Nat
  BY DEF Shape, InBounds, Shorten
<1>2. Constructing /\ pattern[n + 1] # pattern[len + 1]
  BY DEF Shorten, Continues
<1>3. Border(pattern, n, len) /\ \A k \in 0 .. n : Border(pattern, n + 1, k) => k <= len + 1
  BY <1>2 DEF TableInv
<1>4. LongestBorder(pattern, len, l)
  <2>1. len \in 1 .. n
    BY <1>1
  <2> QED BY <2>1 DEF TableInv
<1>5. Border(pattern, n, l)
  <2>1. Ends(pattern, pattern, n, l)
    BY <1>1, <1>3, <1>4, EndsWithin DEF Border, LongestBorder
  <2> QED BY <1>1, <2>1 DEF Border
<1>6. ASSUME NEW k \in 0 .. n, Border(pattern, n + 1, k) PROVE k <= l + 1
  <2>1. CASE k = 0
    BY <1>1, <2>1
  <2>2. CASE k # 0
    <3>1. k - 1 \in Nat /\ (k - 1) + 1 = k /\ k <= len + 1
      BY <1>1, <1>3, <1>6, <2>2
    <3>2. Ends(pattern, pattern, n, k - 1) /\ pattern[k] = pattern[n + 1]
      <4>1. Ends(pattern, pattern, n + 1, (k - 1) + 1)
        BY <1>6, <3>1 DEF Border
      <4>2. Ends(pattern, pattern, n, k - 1) /\ pattern[(k - 1) + 1] = pattern[n + 1]
        <5>1. n \in Nat /\ \E h \in Nat : h = k - 1
          BY <1>1, <3>1
        <5>2. PICK h \in Nat : h = k - 1
          BY <5>1
        <5>3. Ends(pattern, pattern, n + 1, h + 1)
          BY <4>1, <5>2
        <5> HIDE DEF n
        <5>4. Ends(pattern, pattern, n, h) /\ pattern[h + 1] = pattern[n + 1]
          BY <5>1, <5>3, EndsStep
        <5> QED BY <5>2, <5>4
      <4> QED BY <3>1, <4>2
    <3>3. k - 1 <= len /\ k - 1 # len
      BY <1>1, <1>2, <3>1, <3>2
    <3>4. Ends(pattern, pattern, len, k - 1)
      BY <1>1, <1>3, <3>1, <3>2, <3>3, EndsShorter DEF Border
    <3>5. k - 1 \in 0 .. len - 1 /\ k - 1 < len
      BY <1>1, <3>1, <3>3
    <3>6. k - 1 <= l
      BY <1>4, <3>4, <3>5 DEF LongestBorder, Border
    <3> QED BY <1>1, <3>6
  <2> QED BY <2>1, <2>2
<1>7. UNCHANGED <<pattern, prefix>> /\ len' = l
  BY DEF Shorten
<1> HIDE DEF l
<1> QED BY <1>5, <1>6, <1>7 DEF TableInv

\* Another element and no shorter border: there is none.
LEMMA GiveUpKeeps ==
    ASSUME Shape, InBounds, TableInv, GiveUp
    PROVE  TableInv'
<1> DEFINE n == Len(prefix)
<1>1. n \in Nat \ {0} /\ n \in Nat /\ len = 0
  BY DEF Shape, InBounds, GiveUp
<1>2. Constructing /\ pattern[n + 1] # pattern[1]
  BY DEF GiveUp, Continues
<1>3. \A k \in 0 .. n : Border(pattern, n + 1, k) => k <= 1
  BY <1>1, <1>2 DEF TableInv
<1>4. LongestBorder(pattern, n + 1, 0)
  <2>1. Border(pattern, n + 1, 0)
    <3>1. Ends(pattern, pattern, n + 1, 0)
      BY <1>1, EndsNone
    <3> QED BY <1>1, <3>1 DEF Border
  <2>2. ~Border(pattern, n + 1, 1)
    <3>1. Ends(pattern, pattern, n + 1, 0 + 1) => pattern[0 + 1] = pattern[n + 1]
      <4>1. 0 \in Nat
        OBVIOUS
      <4> QED BY <1>1, <4>1, EndsStep
    <3> QED BY <1>2, <3>1 DEF Border
  <2>3. ASSUME NEW k \in 0 .. (n + 1) - 1, Border(pattern, n + 1, k) PROVE k <= 0
    <3>1. k \in 0 .. n /\ k <= 1
      BY <1>1, <1>3, <2>3
    <3>2. k # 1
      BY <2>2, <2>3
    <3> QED BY <3>1, <3>2
  <2> QED BY <2>1, <2>3 DEF LongestBorder
<1> QED BY <1>1, <1>2, <1>4, EntryKeeps DEF GiveUp

\* The constructor's turns leave the rest as it is.
LEMMA ConstructKeeps ==
    ASSUME KmpInv, Construct
    PROVE  KmpInv'
<1> USE DEF KmpInv
<1>1. Constructing /\ UNCHANGED <<pattern, j, containers, begin, iter, finding, result, astray, read, misused>>
  BY DEF Construct, Lengthen, Shorten, GiveUp
<1>2. TableInv'
  BY LengthenKeeps, ShortenKeeps, GiveUpKeeps DEF Construct
<1>3. ~finding /\ j = 0 /\ read = <<>>
  BY <1>1 DEF Shape
<1>4. /\ prefix' \in Seq(Nat) /\ Len(prefix') <= Len(pattern)
      /\ \A i \in 1 .. Len(prefix') : prefix'[i] \in 0 .. i - 1
      /\ len' \in 0 .. Len(prefix') - 1
  <2> DEFINE n == Len(prefix)
  <2>1. n \in Nat \ {0} /\ n + 1 <= Len(pattern) /\ len \in 0 .. n - 1
    BY <1>1 DEF Shape, InBounds, Constructing
  <2>2. ASSUME NEW k \in 0 .. n, prefix' = Append(prefix, k), len' = k
        PROVE  /\ prefix' \in Seq(Nat) /\ Len(prefix') <= Len(pattern)
               /\ \A i \in 1 .. Len(prefix') : prefix'[i] \in 0 .. i - 1
               /\ len' \in 0 .. Len(prefix') - 1
    <3>1. /\ prefix' \in Seq(Nat) /\ Len(prefix') = n + 1 /\ prefix'[n + 1] = k
          /\ \A i \in 1 .. n : prefix'[i] = prefix[i]
      BY <2>2, Extended
    <3>2. ASSUME NEW i \in 1 .. n + 1 PROVE prefix'[i] \in 0 .. i - 1
      <4>1. CASE i = n + 1
        BY <2>1, <3>1, <4>1
      <4>2. CASE i # n + 1
        <5>1. i \in 1 .. n
          BY <2>1, <4>2
        <5> QED BY <3>1, <5>1 DEF InBounds
      <4> QED BY <4>1, <4>2
    <3>3. Len(prefix') <= Len(pattern) /\ len' \in 0 .. Len(prefix') - 1
      BY <2>1, <2>2, <3>1
    <3> HIDE DEF n
    <3> QED BY <3>1, <3>2, <3>3
  <2>3. CASE Lengthen
    <3>1. len + 1 \in 0 .. n
      BY <2>1
    <3> QED BY <2>2, <2>3, <3>1 DEF Lengthen
  <2>4. CASE GiveUp
    <3>1. 0 \in 0 .. n
      BY <2>1
    <3> QED BY <2>2, <2>4, <3>1 DEF GiveUp
  <2>5. CASE Shorten
    <3>1. len \in 1 .. n /\ prefix[len] \in 0 .. len - 1
      BY <2>1, <2>5 DEF Shorten, InBounds
    <3>2. prefix' = prefix /\ len' = prefix[len] /\ prefix[len] \in 0 .. n - 1
      BY <2>1, <2>5, <3>1 DEF Shorten
    <3>3. prefix \in Seq(Nat) /\ n <= Len(pattern)
      BY DEF Shape, InBounds
    <3>4. \A i \in 1 .. n : prefix[i] \in 0 .. i - 1
      BY DEF InBounds
    <3> QED BY <3>2, <3>3, <3>4
  <2> QED BY <2>3, <2>4, <2>5 DEF Construct
<1>5. Shape'
  BY <1>1, <1>3, <1>4 DEF Shape
<1>6. InBounds'
  BY <1>1, <1>3, <1>4, SMTT(30) DEF InBounds, IsEnd, Elements
<1>7. SearchInv'
  BY <1>1, <1>3 DEF SearchInv
<1>8. ResultInv'
  BY <1>1, <1>3 DEF ResultInv
<1>9. ReadInv'
  BY <1>1, <1>3 DEF ReadInv
<1> QED BY <1>2, <1>5, <1>6, <1>7, <1>8, <1>9

-------------------------------------------------------------------------------
(* The joined containers.                                                  *)

\* g[k] is what the first k containers hold, one after the other.
Joins(g, cs, A) ==
    /\ g \in [0 .. Len(cs) -> Seq(A)]
    /\ g[0] = <<>>
    /\ \A i \in 1 .. Len(cs) : g[i] = g[i - 1] \o cs[i]

LEMMA JoinsExists ==
    ASSUME NEW A, NEW cs \in Seq(Seq(A))
    PROVE  \E g : Joins(g, cs, A)
<1> DEFINE n == Len(cs)
           V == Seq(A)
           next == [q \in (1 .. n) \X V |-> q[2] \o cs[q[1]]]
<1>1. n \in Nat /\ <<>> \in V
  OBVIOUS
<1>2. next \in [(1 .. n) \X V -> V]
  <2>1. ASSUME NEW q \in (1 .. n) \X V PROVE q[2] \o cs[q[1]] \in V
    <3>1. q[2] \in Seq(A) /\ cs[q[1]] \in Seq(A)
      OBVIOUS
    <3> QED BY <3>1
  <2> QED BY <2>1
<1>3. \A i \in 1 .. n, v \in V : next[<<i, v>>] = v \o cs[i]
  OBVIOUS
<1> HIDE DEF next, V, n
<1>4. PICK g : Recursive(g, V, <<>>, n, next)
  BY <1>1, <1>2, RecursionDefines, Zenon
<1>5. g \in [0 .. n -> V] /\ g[0] = <<>> /\ \A i \in 1 .. n : g[i] = next[<<i, g[i - 1]>>]
  BY <1>4 DEF Recursive
<1>6. ASSUME NEW i \in 1 .. n PROVE g[i] = g[i - 1] \o cs[i]
  <2>1. i - 1 \in 0 .. n
    BY <1>1
  <2> QED BY <1>3, <1>5, <2>1
<1>7. Joins(g, cs, A)
  BY <1>5, <1>6 DEF Joins, n, V
<1> QED BY <1>7

\* The function FlattenSeq is defined by.
Flattens(f, s) == f = [i \in 1 .. Len(s) |-> IF i = 1 THEN s[i] ELSE f[i - 1] \o s[i]]

\* FlattenSeq of the first k containers.
LEMMA FlattenIs ==
    ASSUME NEW A, NEW cs \in Seq(Seq(A)), NEW g, Joins(g, cs, A), NEW k \in 0 .. Len(cs)
    PROVE  FlattenSeq(SubSeq(cs, 1, k)) = g[k]
<1> DEFINE s == SubSeq(cs, 1, k)
<1>1. Len(s) = k /\ \A i \in 1 .. k : s[i] = cs[i]
  OBVIOUS
<1>2. CASE k = 0
  <2>1. s = <<>> /\ Len(s) = 0
    BY <1>1, <1>2
  <2> HIDE DEF s
  <2>2. FlattenSeq(s) = <<>>
    BY <2>1 DEF FlattenSeq
  <2> QED BY <1>2, <2>2 DEF Joins, s
<1>3. CASE k # 0
  <2> HIDE DEF s
  <2> DEFINE f == CHOOSE t : Flattens(t, s)
  <2>1. FlattenSeq(s) = f[Len(s)]
    <3>1. Len(s) # 0
      BY <1>1, <1>3
    <3> QED BY <3>1, Zenon DEF FlattenSeq, Flattens
  <2>2. \E t : Flattens(t, s)
    <3> DEFINE t == [i \in 1 .. k |-> g[i]]
    <3>1. ASSUME NEW i \in 1 .. k PROVE g[i] = IF i = 1 THEN s[i] ELSE t[i - 1] \o s[i]
      <4>1. g[i] = g[i - 1] \o cs[i] /\ s[i] = cs[i] /\ cs[i] \in Seq(A)
        <5>1. i \in 1 .. Len(cs)
          OBVIOUS
        <5>2. cs[i] \in Seq(A)
          BY <5>1
        <5> QED BY <1>1, <5>1, <5>2 DEF Joins
      <4>2. CASE i = 1
        <5>1. <<>> \o cs[1] = cs[1]
          BY <4>1, <4>2
        <5>2. g[1] = g[0] \o cs[1]
          <6>1. 1 - 1 = 0
            OBVIOUS
          <6> QED BY <4>1, <4>2, <6>1
        <5> QED BY <4>1, <4>2, <5>1, <5>2 DEF Joins
      <4>3. CASE i # 1
        <5>1. i - 1 \in 1 .. k
          BY <4>3
        <5> QED BY <4>1, <4>3, <5>1
      <4> QED BY <4>2, <4>3
    <3>2. t = [i \in 1 .. k |-> IF i = 1 THEN s[i] ELSE t[i - 1] \o s[i]]
      BY <3>1
    <3>3. Flattens(t, s)
      BY <1>1, <3>2 DEF Flattens
    <3> QED BY <3>3
  <2>3. Flattens(f, s)
    BY <2>2
  <2> HIDE DEF f
  <2>4. ASSUME NEW i \in 1 .. k PROVE f[i] = IF i = 1 THEN s[i] ELSE f[i - 1] \o s[i]
    BY <1>1, <2>3 DEF Flattens
  <2> DEFINE S == {i \in Nat : i + 1 <= k => f[i + 1] = g[i + 1]}
  <2>5. 0 \in S
    <3>1. 0 + 1 = 1 /\ 1 \in 1 .. k /\ 1 \in 1 .. Len(cs) /\ 1 - 1 = 0
      BY <1>3
    <3>2. f[1] = cs[1] /\ cs[1] \in Seq(A)
      BY <1>1, <2>4, <3>1
    <3>3. g[1] = <<>> \o cs[1]
      BY <3>1 DEF Joins
    <3>4. <<>> \o cs[1] = cs[1]
      BY <3>2
    <3> QED BY <3>1, <3>2, <3>3, <3>4
  <2>6. ASSUME NEW i \in 0 .. k - 1, i \in S PROVE i + 1 \in S
    <3>1. i + 1 \in Nat
      OBVIOUS
    <3>2. CASE (i + 1) + 1 <= k
      <4>1. /\ (i + 1) + 1 \in 1 .. k /\ (i + 1) + 1 # 1 /\ ((i + 1) + 1) - 1 = i + 1
            /\ i + 1 <= k /\ (i + 1) + 1 \in 1 .. Len(cs)
        BY <3>2
      <4>2. f[(i + 1) + 1] = f[i + 1] \o s[(i + 1) + 1]
        BY <2>4, <4>1
      <4>3. g[(i + 1) + 1] = g[i + 1] \o cs[(i + 1) + 1]
        BY <4>1 DEF Joins
      <4>4. f[i + 1] = g[i + 1]
        BY <2>6, <4>1
      <4> QED BY <1>1, <3>1, <4>1, <4>2, <4>3, <4>4
    <3>3. CASE ~((i + 1) + 1 <= k)
      BY <3>1, <3>3
    <3> QED BY <3>2, <3>3
  <2> HIDE DEF S
  <2>7. \A i \in 0 .. k : i \in S
    <3>1. k \in Nat
      OBVIOUS
    <3> QED BY <2>5, <2>6, <3>1, UpTo
  <2>8. k - 1 \in 0 .. k /\ (k - 1) + 1 = k /\ k <= k
    BY <1>3
  <2>9. f[k] = g[k]
    BY <2>7, <2>8 DEF S
  <2> QED BY <1>1, <2>1, <2>9 DEF s
<1> QED BY <1>2, <1>3

\* The elements of a range, one by one.
LEMMA ElementsAre ==
    ASSUME NEW A, NEW cs \in Seq(Seq(A)), NEW it
    PROVE  it \in Elements(cs) <=>
              \E c \in 1 .. Len(cs) : \E e \in 1 .. Len(cs[c]) : it = Position(c, e)
BY DEF Elements

\* The containers behind the c-th, up to the d-th, are empty.
Empties(cs, c, d) == \A m \in c + 1 .. d : cs[m] = <<>>

\* Where find_new_begin comes to rest.
LEMMA SettleIs ==
    ASSUME NEW A, NEW cs \in Seq(Seq(A)), NEW c \in 1 .. Len(cs), NEW e \in 1 .. Len(cs[c]) + 1
    PROVE  \/ e <= Len(cs[c]) /\ Settle(cs, Position(c, e)) = Position(c, e)
           \/ /\ e = Len(cs[c]) + 1
              /\ \E d \in c + 1 .. Len(cs) :
                    /\ cs[d] # <<>> /\ Empties(cs, c, d - 1)
                    /\ Settle(cs, Position(c, e)) = Position(d, 1)
           \/ /\ e = Len(cs[c]) + 1
              /\ Empties(cs, c, Len(cs))
              /\ Settle(cs, Position(c, e)) = Position(Len(cs) + 1, 1)
<1> DEFINE it == Position(c, e)
           later == {k \in it.container + 1 .. Len(cs) : cs[k] # <<>>}
           next == CHOOSE k \in later : \A m \in later : k <= m
<1>1. it.container = c /\ it.element = e
  BY DEF Position
<1>2. Settle(cs, it) = IF e <= Len(cs[c]) THEN it
                       ELSE IF later = {} THEN Position(Len(cs) + 1, 1) ELSE Position(next, 1)
  <2>1. Settle(cs, it) = IF it.element <= Len(cs[it.container]) THEN it
                         ELSE IF later = {} THEN Position(Len(cs) + 1, 1) ELSE Position(next, 1)
    BY Zenon DEF Settle
  <2> HIDE DEF later, next, it
  <2> QED BY <1>1, <2>1
<1> HIDE DEF it
<1>3. CASE e <= Len(cs[c])
  BY <1>2, <1>3 DEF it
<1>4. CASE ~(e <= Len(cs[c]))
  <2>1. Len(cs[c]) \in Nat
    <3>1. cs[c] \in Seq(A)
      OBVIOUS
    <3> QED BY <3>1
  <2>2. e = Len(cs[c]) + 1
    <3>1. \A l \in Nat : \A x \in 1 .. l + 1 : ~(x <= l) => x = l + 1
      OBVIOUS
    <3> QED BY <1>4, <2>1, <3>1, Zenon
  <2>3. CASE later = {}
    BY <1>1, <1>2, <1>4, <2>2, <2>3 DEF it, Empties
  <2>4. CASE later # {}
    <3>1. later \in SUBSET Nat
      BY <1>1
    <3>2. \E k \in later : \A m \in later : k <= m
      BY <2>4, <3>1, LeastNatural
    <3> HIDE DEF later
    <3>3. next \in later /\ \A m \in later : next <= m
      BY <3>2
    <3> HIDE DEF next
    <3>4. next \in c + 1 .. Len(cs) /\ cs[next] # <<>>
      BY <1>1, <3>3 DEF later
    <3>5. ASSUME NEW m \in c + 1 .. next - 1 PROVE cs[m] = <<>>
      <4>1. m \in c + 1 .. Len(cs) /\ ~(next <= m)
        BY <3>4, SMTT(30)
      <4> QED BY <1>1, <3>3, <4>1 DEF later
    <3>6. Settle(cs, it) = Position(next, 1)
      BY <1>2, <1>4, <2>4
    <3> QED BY <2>2, <3>4, <3>5, <3>6 DEF it, Empties
  <2> QED BY <2>3, <2>4
<1> QED BY <1>3, <1>4

\* What is held before a place does not change over empty containers.
LEMMA EmptyJoinNothing ==
    ASSUME NEW A, NEW cs \in Seq(Seq(A)), NEW g, Joins(g, cs, A),
           NEW c \in 0 .. Len(cs), NEW d \in c .. Len(cs), Empties(cs, c, d)
    PROVE  g[d] = g[c]
<1> DEFINE S == {i \in Nat : i <= d - c => g[c + i] = g[c]}
<1>1. 0 \in S
  OBVIOUS
<1>2. ASSUME NEW i \in 0 .. (d - c) - 1, i \in S PROVE i + 1 \in S
  <2>1. c + (i + 1) \in c + 1 .. d /\ c + (i + 1) \in 1 .. Len(cs) /\ (c + (i + 1)) - 1 = c + i /\ i <= d - c
        /\ c + i \in 0 .. Len(cs) /\ i + 1 \in Nat
    OBVIOUS
  <2>2. g[c + (i + 1)] = g[c + i] \o <<>>
    BY <2>1 DEF Joins, Empties
  <2>3. g[c + i] \in Seq(A)
    BY <2>1 DEF Joins
  <2>4. g[c + i] \o <<>> = g[c + i]
    BY <2>3
  <2>5. g[c + i] = g[c]
    BY <1>2, <2>1
  <2> QED BY <2>1, <2>2, <2>4, <2>5
<1> HIDE DEF S
<1>3. d - c \in Nat /\ d - c \in 0 .. d - c
  OBVIOUS
<1>4. \A i \in 0 .. d - c : i \in S
  BY <1>1, <1>2, <1>3, UpTo
<1>5. d - c \in S
  BY <1>3, <1>4
<1>6. c + (d - c) = d /\ d - c <= d - c
  OBVIOUS
<1> QED BY <1>3, <1>5, <1>6 DEF S

\* What is held before a place: the containers before it, and the elements of its own.
LEMMA BeforeIs ==
    ASSUME Shape, NEW g, Joins(g, containers, Alphabet)
    PROVE  /\ \A c \in 1 .. Len(containers) : \A e \in 1 .. Len(containers[c]) :
                 Before(Position(c, e)) = g[c - 1] \o SubSeq(containers[c], 1, e - 1)
           /\ Before(Position(Len(containers) + 1, 1)) = g[Len(containers)]
<1> DEFINE n == Len(containers)
<1>1. containers \in Seq(Seq(Alphabet)) /\ n \in Nat
  BY DEF Shape
<1>2. \A k \in 0 .. n : FlattenSeq(SubSeq(containers, 1, k)) = g[k] /\ g[k] \in Seq(Alphabet)
  BY <1>1, FlattenIs, ZenonT(30) DEF Joins
<1>3. ASSUME NEW c \in 1 .. n, NEW e \in 1 .. Len(containers[c])
      PROVE  Before(Position(c, e)) = g[c - 1] \o SubSeq(containers[c], 1, e - 1)
  <2>1. Position(c, e).container = c /\ Position(c, e).element = e
    BY DEF Position
  <2>2. c - 1 \in 0 .. n /\ c # n + 1
    BY <1>1
  <2>3. ~IsEnd(Position(c, e))
    BY <2>1, <2>2 DEF IsEnd
  <2>4. FlattenSeq(SubSeq(containers, 1, c - 1)) = g[c - 1]
    BY <1>2, <2>2
  <2> QED BY <2>1, <2>3, <2>4, Zenon DEF Before
<1>4. Before(Position(n + 1, 1)) = g[n]
  <2>1. Position(n + 1, 1).container = n + 1
    BY DEF Position
  <2>2. IsEnd(Position(n + 1, 1))
    BY <2>1 DEF IsEnd
  <2>3. (n + 1) - 1 = n /\ n \in 0 .. n
    BY <1>1
  <2>4. FlattenSeq(SubSeq(containers, 1, n)) = g[n] /\ g[n] \in Seq(Alphabet)
    BY <1>2, <2>3
  <2>5. Before(Position(n + 1, 1)) = g[n] \o <<>>
    BY <2>1, <2>2, <2>3, <2>4, Zenon DEF Before
  <2> HIDE DEF n
  <2>6. g[n] \o <<>> = g[n]
    BY <2>4
  <2> QED BY <2>5, <2>6
<1> QED BY <1>3, <1>4

\* An iterator's places.
Places(cs) == Elements(cs) \cup {Position(Len(cs) + 1, 1)}

\* Step by step an iterator passes over what the containers hold one after the other.
LEMMA IncrementedIs ==
    ASSUME Shape, NEW it \in Elements(containers)
    PROVE  /\ Incremented(it) \in Places(containers) /\ Behind(Incremented(it), it)
           /\ Element(it) \in Alphabet /\ Before(it) \in Seq(Alphabet)
           /\ Before(Incremented(it)) = Append(Before(it), Element(it))
<1> DEFINE cs == containers
           n == Len(cs)
<1>1. cs \in Seq(Seq(Alphabet)) /\ n \in Nat
  BY DEF Shape
<1>2. PICK c \in 1 .. n : \E e \in 1 .. Len(cs[c]) : it = Position(c, e)
  BY <1>1, ElementsAre
<1>3. PICK e \in 1 .. Len(cs[c]) : it = Position(c, e)
  BY <1>2
<1>4. cs[c] \in Seq(Alphabet) /\ Len(cs[c]) \in Nat
  BY <1>1
<1>5. PICK g : Joins(g, cs, Alphabet)
  BY <1>1, JoinsExists
<1>6. /\ it.container = c /\ it.element = e
      /\ Element(it) = cs[c][e]
  BY <1>3 DEF Position, Element
<1>7. Incremented(it) = Settle(cs, Position(c, e + 1))
  <2>1. [it EXCEPT !.element = @ + 1] = Position(c, e + 1)
    BY <1>3 DEF Position
  <2> QED BY <2>1 DEF Incremented
<1>8. cs[c][e] \in Alphabet
  BY <1>4
<1>9. Before(it) = g[c - 1] \o SubSeq(cs[c], 1, e - 1)
  BY <1>3, <1>5, BeforeIs
<1>10. g[c - 1] \in Seq(Alphabet) /\ g[c] = g[c - 1] \o cs[c]
  <2>1. c - 1 \in 0 .. n
    BY <1>1
  <2> QED BY <1>5, <2>1 DEF Joins
<1> DEFINE b == g[c - 1] \o SubSeq(cs[c], 1, e)
<1>11. Before(it) \in Seq(Alphabet) /\ b = Append(Before(it), cs[c][e])
  <2> DEFINE w == cs[c]
             h == g[c - 1]
  <2>1. SubSeq(w, 1, e) = Append(SubSeq(w, 1, e - 1), w[e])
    BY <1>4
  <2>2. SubSeq(w, 1, e - 1) \in Seq(Alphabet)
    BY <1>4
  <2> HIDE DEF w, h
  <2>3. \A u, v \in Seq(Alphabet), x \in Alphabet : u \o Append(v, x) = Append(u \o v, x) /\ u \o v \in Seq(Alphabet)
    OBVIOUS
  <2>4. h \in Seq(Alphabet) /\ w[e] \in Alphabet
    BY <1>8, <1>10 DEF h, w
  <2>5. h \o SubSeq(w, 1, e) = Append(h \o SubSeq(w, 1, e - 1), w[e])
    BY <2>1, <2>2, <2>3, <2>4
  <2>6. h \o SubSeq(w, 1, e - 1) \in Seq(Alphabet)
    BY <2>2, <2>3, <2>4
  <2> QED BY <1>9, <2>5, <2>6 DEF w, h
<1>12. e = Len(cs[c]) => b = g[c]
  <2>1. \A w \in Seq(Alphabet) : SubSeq(w, 1, Len(w)) = w
    OBVIOUS
  <2> QED BY <1>4, <1>10, <2>1, Zenon
<1>13. e + 1 \in 1 .. Len(cs[c]) + 1
  BY <1>4
<1> HIDE DEF b
<1>14. CASE e + 1 <= Len(cs[c])
  <2>1. e + 1 # Len(cs[c]) + 1 /\ e + 1 \in 1 .. Len(cs[c]) /\ (e + 1) - 1 = e
    BY <1>4, <1>14
  <2>2. Incremented(it) = Position(c, e + 1)
    BY <1>1, <1>7, <1>13, <2>1, SettleIs
  <2>3. Position(c, e + 1) \in Places(cs)
    BY <1>1, <2>1, ElementsAre DEF Places
  <2>4. Behind(Position(c, e + 1), it)
    BY <1>6 DEF Behind, Position
  <2>5. Before(Position(c, e + 1)) = b
    BY <1>5, <2>1, BeforeIs DEF b
  <2> QED BY <1>6, <1>8, <1>11, <2>2, <2>3, <2>4, <2>5
<1>15. CASE ~(e + 1 <= Len(cs[c]))
  <2>1. e = Len(cs[c]) /\ b = g[c]
    BY <1>4, <1>12, <1>15
  <2>2. \/ \E d \in c + 1 .. n : /\ cs[d] # <<>> /\ Empties(cs, c, d - 1)
                                  /\ Incremented(it) = Position(d, 1)
        \/ Empties(cs, c, n) /\ Incremented(it) = Position(n + 1, 1)
    BY <1>1, <1>7, <1>13, <1>15, SettleIs
  <2>3. ASSUME NEW d \in c + 1 .. n, cs[d] # <<>>, Empties(cs, c, d - 1),
               Incremented(it) = Position(d, 1)
        PROVE  /\ Incremented(it) \in Places(cs) /\ Behind(Incremented(it), it)
               /\ Before(Incremented(it)) = g[c]
    <3>1. d \in 1 .. n /\ c \in 0 .. n /\ d - 1 \in c .. n /\ d - 1 \in 0 .. n
      BY <1>1
    <3>2. 1 \in 1 .. Len(cs[d])
      <4>1. cs[d] \in Seq(Alphabet)
        BY <1>1, <3>1
      <4> QED BY <2>3, <4>1
    <3>3. Position(d, 1) \in Places(cs)
      BY <1>1, <3>1, <3>2, ElementsAre DEF Places
    <3>4. Behind(Position(d, 1), it)
      BY <1>6 DEF Behind, Position
    <3>5. Before(Position(d, 1)) = g[d - 1] \o SubSeq(cs[d], 1, 1 - 1)
      BY <1>5, <3>1, <3>2, BeforeIs
    <3>6. SubSeq(cs[d], 1, 1 - 1) = <<>>
      OBVIOUS
    <3>7. g[d - 1] = g[c]
      BY <1>1, <1>5, <2>3, <3>1, EmptyJoinNothing, ZenonT(30)
    <3>8. g[d - 1] \in Seq(Alphabet)
      BY <1>5, <3>1 DEF Joins
    <3>9. g[d - 1] \o <<>> = g[d - 1]
      BY <3>8
    <3> QED BY <2>3, <3>3, <3>4, <3>5, <3>6, <3>7, <3>9
  <2>4. ASSUME Empties(cs, c, n), Incremented(it) = Position(n + 1, 1)
        PROVE  /\ Incremented(it) \in Places(cs) /\ Behind(Incremented(it), it)
               /\ Before(Incremented(it)) = g[c]
    <3>1. Position(n + 1, 1) \in Places(cs)
      BY DEF Places
    <3>2. Behind(Position(n + 1, 1), it)
      BY <1>1, <1>6 DEF Behind, Position
    <3>3. Before(Position(n + 1, 1)) = g[n]
      BY <1>5, BeforeIs
    <3>4. c \in 0 .. n /\ n \in c .. n
      BY <1>1
    <3>5. g[n] = g[c]
      BY <1>1, <1>5, <2>4, <3>4, EmptyJoinNothing
    <3> QED BY <2>4, <3>1, <3>2, <3>3, <3>5
  <2>5. /\ Incremented(it) \in Places(cs) /\ Behind(Incremented(it), it)
        /\ Before(Incremented(it)) = g[c]
    <3>1. CASE \E d \in c + 1 .. n : /\ cs[d] # <<>> /\ Empties(cs, c, d - 1)
                                     /\ Incremented(it) = Position(d, 1)
      <4>1. PICK d \in c + 1 .. n : /\ cs[d] # <<>> /\ Empties(cs, c, d - 1)
                                   /\ Incremented(it) = Position(d, 1)
        BY <3>1
      <4> QED BY <2>3, <4>1
    <3>2. CASE Empties(cs, c, n) /\ Incremented(it) = Position(n + 1, 1)
      BY <2>4, <3>2
    <3> QED BY <2>2, <3>1, <3>2
  <2> QED BY <1>6, <1>8, <1>11, <2>1, <2>5
<1> QED BY <1>14, <1>15

\* A place is a pair of numbers; only the end is behind the last container.
LEMMA PlaceIs ==
    ASSUME NEW A, NEW cs \in Seq(Seq(A)), NEW it \in Places(cs)
    PROVE  /\ it.container \in Nat /\ it.element \in Nat
           /\ it \in Elements(cs) <=> it.container # Len(cs) + 1
<1>1. Len(cs) \in Nat
  OBVIOUS
<1>2. CASE it \in Elements(cs)
  <2>1. PICK c \in 1 .. Len(cs) : \E e \in 1 .. Len(cs[c]) : it = Position(c, e)
    BY <1>2, ElementsAre
  <2>2. PICK e \in 1 .. Len(cs[c]) : it = Position(c, e)
    BY <2>1
  <2>3. it.container = c /\ it.element = e
    BY <2>2 DEF Position
  <2> QED BY <1>1, <1>2, <2>3
<1>3. CASE it \notin Elements(cs)
  <2>1. it = Position(Len(cs) + 1, 1)
    BY <1>3 DEF Places
  <2>2. it.container = Len(cs) + 1 /\ it.element = 1
    BY <2>1 DEF Position
  <2> QED BY <1>1, <1>3, <2>2
<1> QED BY <1>2, <1>3

\* A range begins with an element, or it is at its end.
LEMMA FirstIs ==
    ASSUME NEW A, NEW cs \in Seq(Seq(A))
    PROVE  First(cs) \in Places(cs)
<1>1. CASE cs = <<>>
  <2>1. First(cs) = Position(Len(cs) + 1, 1)
    BY <1>1 DEF First
  <2> QED BY <2>1 DEF Places
<1>2. CASE cs # <<>>
  <2>1. 1 \in 1 .. Len(cs) /\ cs[1] \in Seq(A) /\ 1 \in 1 .. Len(cs[1]) + 1 /\ Len(cs[1]) \in Nat
    BY <1>2
  <2>2. First(cs) = Settle(cs, Position(1, 1))
    BY <1>2 DEF First
  <2>3. \/ 1 <= Len(cs[1]) /\ First(cs) = Position(1, 1)
        \/ \E d \in 1 + 1 .. Len(cs) : cs[d] # <<>> /\ First(cs) = Position(d, 1)
        \/ First(cs) = Position(Len(cs) + 1, 1)
    BY <2>1, <2>2, SettleIs
  <2>4. CASE 1 <= Len(cs[1]) /\ First(cs) = Position(1, 1)
    <3>1. 1 \in 1 .. Len(cs[1])
      BY <2>1, <2>4
    <3> QED BY <2>1, <2>4, <3>1, ElementsAre DEF Places
  <2>5. CASE \E d \in 1 + 1 .. Len(cs) : cs[d] # <<>> /\ First(cs) = Position(d, 1)
    <3>1. PICK d \in 1 + 1 .. Len(cs) : cs[d] # <<>> /\ First(cs) = Position(d, 1)
      BY <2>5
    <3>2. d \in 1 .. Len(cs) /\ cs[d] \in Seq(A)
      OBVIOUS
    <3>3. 1 \in 1 .. Len(cs[d])
      BY <3>1, <3>2
    <3> QED BY <3>1, <3>2, <3>3, ElementsAre DEF Places
  <2>6. CASE First(cs) = Position(Len(cs) + 1, 1)
    BY <2>6 DEF Places
  <2> QED BY <2>3, <2>4, <2>5, <2>6
<1> QED BY <1>1, <1>2

-------------------------------------------------------------------------------
(* find.                                                                   *)

\* The same where s goes on as t.
Agree(s, t, n) == \A i \in 1 .. n : s[i] = t[i]

LEMMA EndsStepElsewhere ==
    ASSUME NEW p, NEW s, NEW t, NEW n \in Nat, NEW k \in Nat, Agree(s, t, n), Agree(t, s, n)
    PROVE  Ends(p, t, n + 1, k + 1) <=> Ends(p, s, n, k) /\ p[k + 1] = t[n + 1]
<1>1. ASSUME Ends(p, t, n + 1, k + 1) PROVE Ends(p, t, n, k) /\ p[k + 1] = t[n + 1]
  BY <1>1, EndsStep
<1>0. ASSUME Ends(p, t, n, k), p[k + 1] = t[n + 1] PROVE Ends(p, t, n + 1, k + 1)
  BY <1>0, EndsStep
<1>2. ASSUME Ends(p, s, n, k) PROVE Ends(p, t, n, k)
  BY <1>2, EndsSame DEF Agree
<1>3. ASSUME Ends(p, t, n, k) PROVE Ends(p, s, n, k)
  BY <1>3, EndsSame DEF Agree
<1> QED BY <1>0, <1>1, <1>2, <1>3

\* What is held after another element was read.
Appended(t, s, x) == t = Append(s, x)

LEMMA AfterRead ==
    ASSUME Shape, NEW x, NEW t, Appended(t, read, x), NEW k \in Nat
    PROVE  Ends(pattern, t, Len(read) + 1, k + 1) <=> Ends(pattern, read, Len(read), k) /\ pattern[k + 1] = x
<1> DEFINE n == Len(read)
<1>1. n \in Nat
  BY DEF Shape
<1>2. t[n + 1] = x /\ Agree(t, read, n) /\ Agree(read, t, n)
  BY DEF Shape, Agree, Appended
<1> HIDE DEF n
<1>3. Ends(pattern, t, n + 1, k + 1) <=> Ends(pattern, read, n, k) /\ pattern[k + 1] = t[n + 1]
  <2>1. ASSUME Ends(pattern, t, n + 1, k + 1) PROVE Ends(pattern, read, n, k) /\ pattern[k + 1] = t[n + 1]
    BY <1>1, <1>2, <2>1, EndsStepElsewhere, SMTT(30)
  <2>2. ASSUME Ends(pattern, read, n, k), pattern[k + 1] = t[n + 1] PROVE Ends(pattern, t, n + 1, k + 1)
    BY <1>1, <1>2, <2>2, EndsStepElsewhere
  <2> QED BY <2>1, <2>2
<1> QED BY <1>2, <1>3 DEF n

\* Where find stands while it reads inside.
LEMMA AtElement ==
    ASSUME Shape, InBounds, ~Outside
    PROVE  iter \in Elements(containers)
<1>1. iter \in Places(containers) /\ iter.container # Len(containers) + 1
  BY DEF InBounds, Places, IsEnd, Outside
<1> QED BY <1>1, PlaceIs DEF Shape

\* What an element read leaves behind: the longest beginning of the pattern is k long then.
LEMMA TakeSearches ==
    ASSUME Shape, InBounds, SearchInv, ~Outside, NEW k \in 0 .. Len(pattern), Take(k, iter),
           UNCHANGED <<pattern, misused>>, Ends(pattern, read', Len(read) + 1, k),
           misused \/ \A l \in k + 1 .. Len(pattern) : ~Ends(pattern, read', Len(read) + 1, l)
    PROVE  SearchInv'
<1> DEFINE n == Len(read)
           P == Len(pattern)
<1>1. n \in Nat /\ P \in Nat \ {0} /\ k \in Nat /\ j < P /\ P \in Nat
  BY DEF Shape, InBounds, Outside
<1>2. read' = Append(read, Element(iter)) /\ j' = k
  BY DEF Take
<1>3. Len(read') = n + 1 /\ \A i \in 1 .. n : read'[i] = read[i]
  BY <1>2 DEF Shape
<1>4. ASSUME ~misused, NEW m \in 0 .. n + 1, Ends(pattern, read', m, P) PROVE m = n + 1 /\ k = P
  <2>1. CASE m \in 0 .. n
    <3>1. \A i \in 1 .. m : read'[i] = read[i]
      BY <1>1, <1>3, <2>1
    <3>2. m \in Nat
      OBVIOUS
    <3>3. Ends(pattern, read, m, P)
      BY <1>1, <1>4, <3>1, <3>2, EndsSame
    <3>4. j = P
      BY <1>4, <2>1, <3>3 DEF SearchInv
    <3> QED BY <1>1, <3>4
  <2>2. CASE m = n + 1
    <3>1. P \notin k + 1 .. P
      BY <1>4, <2>2
    <3> QED BY <1>1, <2>2, <3>1
  <2> QED BY <1>1, <2>1, <2>2
<1>5. Ends(pattern', read', Len(read'), j')
  BY <1>2, <1>3
<1>6. misused' \/ \A l \in j' + 1 .. Len(pattern') : ~Ends(pattern', read', Len(read'), l)
  BY <1>2, <1>3
<1>7. misused' \/ \A m \in 0 .. Len(read') : Ends(pattern', read', m, Len(pattern')) => m = Len(read') /\ j' = Len(pattern')
  BY <1>2, <1>3, <1>4
<1> QED BY <1>5, <1>6, <1>7 DEF SearchInv

\* An element read: the rest of the invariant.
LEMMA TakeKeeps ==
    ASSUME KmpInv, Turning, ~Outside, NEW k \in 0 .. Len(pattern), Take(k, iter),
           UNCHANGED <<pattern, prefix, len, containers, begin, astray, misused>>,
           Ends(pattern, read', Len(read) + 1, k),
           misused \/ \A l \in k + 1 .. Len(pattern) : ~Ends(pattern, read', Len(read) + 1, l)
    PROVE  KmpInv'
<1> USE DEF KmpInv
<1> DEFINE after == Incremented(iter)
           x == Element(iter)
<1>1. iter \in Elements(containers)
  BY AtElement
<1>2. /\ after \in Places(containers) /\ Behind(after, iter)
      /\ x \in Alphabet /\ Before(iter) \in Seq(Alphabet)
      /\ Before(after) = Append(Before(iter), x)
  BY <1>1, IncrementedIs
<1>3. j' = k /\ iter' = after /\ read' = Append(read, x)
  BY DEF Take
<1>4. \/ k = Len(pattern) /\ ~finding' /\ result' = after
      \/ k # Len(pattern) /\ IsEnd(after) /\ ~finding' /\ result' = begin
      \/ k # Len(pattern) /\ ~IsEnd(after) /\ finding' /\ result' = result
  BY DEF Take, Turning
<1> HIDE DEF after, x
<1>5. finding /\ ~Constructing /\ result = begin
  BY DEF Turning, InBounds, ResultInv
<1>6. finding' \in BOOLEAN /\ ~astray'
  BY DEF Take, Shape, Turning
<1>7. Shape'
  <2>1. read' \in Seq(Alphabet)
    BY <1>2, <1>3 DEF Shape
  <2>2. ~Constructing'
    BY <1>5 DEF Constructing
  <2> QED BY <1>6, <2>1, <2>2 DEF Shape
<1>8. InBounds'
  <2>1. begin \in Places(containers)
    BY DEF InBounds, Places
  <2>2. iter' \in Places(containers)' /\ begin' \in Places(containers)' /\ result' \in Places(containers)'
    BY <1>2, <1>3, <1>4, <1>5, <2>1, SMTT(30) DEF Places, Elements
  <2>3. ~Constructing' /\ (finding' => ~Outside')
    BY <1>3, <1>4, <1>5 DEF Constructing, Outside, IsEnd
  <2>4. astray' => misused'
    BY DEF InBounds
  <2> QED BY <1>3, <2>2, <2>3, <2>4 DEF InBounds, Places
<1>9. TableInv'
  BY DEF TableInv, Constructing
<1>10. SearchInv'
  BY TakeSearches
<1>11. ResultInv'
  <2>1. Behind(after, begin)
    <3>1. iter \in Places(containers) /\ begin \in Places(containers)
      BY DEF InBounds, Places
    <3>2. /\ iter.container \in Nat /\ iter.element \in Nat
          /\ begin.container \in Nat /\ begin.element \in Nat
          /\ after.container \in Nat /\ after.element \in Nat
      BY <1>2, <3>1, PlaceIs DEF Shape
    <3>3. iter = begin \/ Behind(iter, begin)
      BY <1>5 DEF ResultInv
    <3> QED BY <1>2, <3>2, <3>3 DEF Behind
  <2>2. ~IsEnd(begin)
    BY <1>5 DEF ResultInv, Outside
  <2>3. ~Same(after, begin)
    <3>1. begin \in Places(containers)
      BY DEF InBounds, Places
    <3>2. /\ begin.container \in Nat /\ begin.element \in Nat
          /\ after.container \in Nat /\ after.element \in Nat
      BY <1>2, <3>1, PlaceIs DEF Shape
    <3> QED BY <2>1, <2>2, <3>2 DEF Behind, Same, IsEnd
  <2>4. ~IsEnd(begin)'
    BY <2>2 DEF IsEnd
  <2>5. Same(iter, begin)' <=> Same(after, begin)
    BY <1>3 DEF Same, IsEnd
  <2> QED BY <1>3, <1>4, <1>5, <2>1, <2>3, <2>4, <2>5 DEF ResultInv, Behind
<1>12. ReadInv'
  <2>1. Before(iter)' = Before(after) /\ Before(begin)' = Before(begin)
    BY <1>3, Zenon DEF Before, IsEnd
  <2>2. \E p, q \in Seq(Alphabet) : Before(after) = Before(begin) \o p /\ read' = q \o p
    <3>1. CASE iter = begin
      <4>1. \A s \in Seq(Alphabet) : Append(s, x) = s \o <<x>>
        BY <1>2
      <4>2. read \in Seq(Alphabet) /\ <<x>> \in Seq(Alphabet)
        BY <1>2 DEF Shape
      <4>3. Before(after) = Before(begin) \o <<x>> /\ read' = read \o <<x>>
        BY <1>2, <1>3, <3>1, <4>1, <4>2
      <4> QED BY <4>2, <4>3
    <3>2. CASE iter # begin
      <4>1. PICK p, q \in Seq(Alphabet) : Before(iter) = Before(begin) \o p /\ read = q \o p
        BY <1>5, <3>2 DEF ReadInv
      <4>2. begin \in Elements(containers)
        <5>1. begin \in Places(containers) /\ begin.container # Len(containers) + 1
          BY <1>5, <3>2 DEF InBounds, Places, ResultInv, IsEnd
        <5> QED BY <5>1, PlaceIs DEF Shape
      <4>3. Before(begin) \in Seq(Alphabet)
        BY <4>2, IncrementedIs
      <4>4. \A s \in Seq(Alphabet) : Append(s \o p, x) = s \o Append(p, x)
        <5>1. \A u, v \in Seq(Alphabet), y \in Alphabet : u \o Append(v, y) = Append(u \o v, y)
          OBVIOUS
        <5> QED BY <1>2, <4>1, <5>1
      <4>5. Append(p, x) \in Seq(Alphabet)
        BY <1>2
      <4>6. Before(after) = Append(Before(begin) \o p, x)
        BY <1>2, <4>1
      <4>7. Before(after) = Before(begin) \o Append(p, x)
        BY <4>3, <4>4, <4>6
      <4>8. read' = q \o Append(p, x)
        BY <1>3, <4>1, <4>4
      <4> QED BY <4>1, <4>5, <4>7, <4>8
    <3> QED BY <3>1, <3>2
  <2> QED BY <2>1, <2>2 DEF ReadInv
<1> QED BY <1>7, <1>8, <1>9, <1>10, <1>11, <1>12

\* The next element of the pattern: one more is held.
LEMMA CompareKeeps ==
    ASSUME KmpInv, Compare
    PROVE  KmpInv'
<1> DEFINE n == Len(read)
           x == Element(iter)
<1>1. Shape /\ InBounds /\ SearchInv /\ Turning /\ ~Outside
  BY DEF KmpInv, Compare, Fits
<1>2. /\ Take(j + 1, iter) /\ pattern[j + 1] = x
      /\ UNCHANGED <<pattern, prefix, len, containers, begin, astray, misused>>
  BY DEF Compare, Fits
<1>3. j \in Nat /\ Len(pattern) \in Nat /\ j + 1 \in 0 .. Len(pattern) /\ n \in Nat
  BY <1>1 DEF InBounds, Shape, Outside
<1>4. read' = Append(read, x)
  BY <1>2 DEF Take
<1> HIDE DEF x
<1>5. Ends(pattern, read', n + 1, j + 1)
  BY <1>1, <1>2, <1>3, <1>4, AfterRead DEF SearchInv, Appended
<1>6. ASSUME ~misused, NEW l \in (j + 1) + 1 .. Len(pattern), Ends(pattern, read', n + 1, l) PROVE FALSE
  <2>1. PICK h \in Nat : h + 1 = l
    <3>1. l - 1 \in Nat /\ (l - 1) + 1 = l
      BY <1>3
    <3> QED BY <3>1
  <2>2. h \in j + 1 .. Len(pattern)
    BY <1>3, <2>1
  <2>3. Ends(pattern, read, n, h) /\ pattern[h + 1] = x
    BY <1>1, <1>4, <1>6, <2>1, AfterRead DEF Appended
  <2> QED BY <1>1, <1>6, <2>2, <2>3 DEF SearchInv, x
<1> QED BY <1>1, <1>2, <1>3, <1>5, <1>6, TakeKeeps

\* An element nothing held goes on with, and the pattern does not begin with.
LEMMA SkipKeeps ==
    ASSUME KmpInv, Skip
    PROVE  KmpInv'
<1> DEFINE n == Len(read)
           x == Element(iter)
<1>1. Shape /\ InBounds /\ SearchInv /\ Turning /\ j = 0
  BY DEF KmpInv, Skip
<1>0. ~Outside
  BY <1>1 DEF Skip, Outside, Shape
<1>2. /\ Take(0, iter) /\ pattern[0 + 1] # x
      /\ UNCHANGED <<pattern, prefix, len, containers, begin, astray, misused>>
  BY <1>0, <1>1 DEF Skip, Differs
<1>3. Len(pattern) \in Nat /\ 0 \in 0 .. Len(pattern) /\ n \in Nat /\ n + 1 \in Nat
  BY <1>1 DEF Shape
<1>4. read' = Append(read, x)
  BY <1>2 DEF Take
<1> HIDE DEF x
<1>5. Ends(pattern, read', n + 1, 0)
  BY <1>3, EndsNone
<1>6. ASSUME ~misused, NEW l \in 0 + 1 .. Len(pattern), Ends(pattern, read', n + 1, l) PROVE FALSE
  <2>1. PICK h \in Nat : h + 1 = l
    <3>1. l - 1 \in Nat /\ (l - 1) + 1 = l
      BY <1>3
    <3> QED BY <3>1
  <2>2. Ends(pattern, read, n, h) /\ pattern[h + 1] = x
    BY <1>1, <1>4, <1>6, <2>1, AfterRead DEF Appended
  <2>3. h # 0
    BY <1>2, <2>2
  <2>4. h \in j + 1 .. Len(pattern)
    BY <1>1, <1>3, <2>1, <2>3
  <2> QED BY <1>1, <1>6, <2>2, <2>4 DEF SearchInv, x
<1> QED BY <1>0, <1>1, <1>2, <1>3, <1>5, <1>6, TakeKeeps

\* The element did not fit: the next shorter beginning that is held is as long as the table says.
LEMMA FallBackKeeps ==
    ASSUME KmpInv, FallBack
    PROVE  KmpInv'
<1> USE DEF KmpInv
<1> DEFINE n == Len(read)
           l == prefix[j]
<1>1. /\ finding /\ ~Constructing /\ j # 0 /\ j' = l
      /\ UNCHANGED <<pattern, prefix, len, containers, begin, iter, finding, result, astray, read, misused>>
  BY DEF FallBack, Turning, InBounds
<1>2. j \in 1 .. Len(pattern) /\ j \in Nat /\ n \in Nat /\ Len(pattern) \in Nat
  BY <1>1 DEF InBounds, Shape
<1>3. LongestBorder(pattern, j, l) /\ l \in 0 .. j - 1 /\ l \in Nat
  <2>1. j \in 1 .. Len(prefix)
    BY <1>1, <1>2 DEF Shape, Constructing, InBounds
  <2> QED BY <1>2, <2>1 DEF TableInv, InBounds
<1>4. Ends(pattern, read, n, j)
  BY DEF SearchInv
<1>5. Ends(pattern, read, n, l)
  BY <1>2, <1>3, <1>4, EndsWithin DEF LongestBorder, Border
<1>7. ~misused => j # Len(pattern) /\ pattern[j + 1] # Element(iter)
  <2>1. ~misused => ~Outside
    BY <1>1 DEF InBounds
  <2> QED BY <2>1 DEF FallBack, Differs, Outside
<1>6. ASSUME ~misused, NEW k \in l + 1 .. Len(pattern), Ends(pattern, read, n, k)
      PROVE  k < Len(pattern) /\ pattern[k + 1] # Element(iter)
  <2>1. CASE k > j
    <3>1. k \in j + 1 .. Len(pattern)
      BY <1>2, <1>3, <2>1
    <3> QED BY <1>6, <3>1 DEF SearchInv
  <2>2. CASE k = j
    BY <1>2, <1>6, <1>7, <2>2
  <2>3. CASE k < j
    <3>1. k \in Nat /\ k <= j /\ k \in 0 .. j - 1
      BY <1>2, <1>3, <2>3
    <3>2. Ends(pattern, pattern, j, k)
      BY <1>2, <1>4, <1>6, <3>1, EndsShorter
    <3>3. k <= l
      BY <1>3, <2>3, <3>1, <3>2 DEF LongestBorder, Border
    <3> QED BY <1>3, <3>3
  <2> QED BY <1>2, <1>3, <2>1, <2>2, <2>3
<1>8. misused \/ \A m \in 0 .. n : ~Ends(pattern, read, m, Len(pattern))
  BY <1>7 DEF SearchInv
<1> HIDE DEF l
<1>9. SearchInv'
  <2>1. Element(iter)' = Element(iter)
    BY <1>1 DEF Element
  <2> QED BY <1>1, <1>5, <1>6, <1>8, <2>1 DEF SearchInv
<1>10. Shape'
  BY <1>1 DEF Shape, Constructing
<1>11. InBounds'
  <2>1. j' \in 0 .. Len(pattern) /\ j' # Len(pattern)
    BY <1>1, <1>2, <1>3
  <2>2. Outside' => Outside
    BY <1>1, <2>1 DEF Outside, IsEnd
  <2> QED BY <1>1, <2>1, <2>2 DEF InBounds, Constructing, Elements
<1>12. TableInv'
  BY <1>1 DEF TableInv, Constructing
<1>13. ResultInv'
  BY <1>1 DEF ResultInv, Behind, IsEnd
<1>14. ReadInv'
  <2>1. Before(iter)' = Before(iter) /\ Before(begin)' = Before(begin)
    BY <1>1, Zenon DEF Before, IsEnd
  <2> QED BY <1>1, <2>1 DEF ReadInv
<1> QED BY <1>9, <1>10, <1>11, <1>12, <1>13, <1>14

\* Reading outside, where it is taken for a match and where std::find is at the end at once.
LEMMA OutsideKeeps ==
    ASSUME KmpInv, GoAstray \/ FindNothing
    PROVE  KmpInv'
<1> USE DEF KmpInv
<1>1. /\ UNCHANGED <<pattern, prefix, j, len, containers, begin, iter, read, misused>>
      /\ finding /\ Outside /\ result' = begin
      /\ finding' \in BOOLEAN /\ astray' \in BOOLEAN
      /\ astray' => finding'
      /\ ~finding' => j # Len(pattern)
  <2>1. finding => result = begin
    BY DEF ResultInv
  <2>2. Len(pattern) # 0
    BY DEF Shape
  <2>3. CASE GoAstray
    BY <2>1, <2>3 DEF GoAstray, Turning, Shape
  <2>4. CASE FindNothing
    BY <2>2, <2>4 DEF FindNothing, Turning, Outside, Shape
  <2> QED BY <2>3, <2>4
<1>2. misused /\ ~Constructing
  BY <1>1 DEF InBounds
<1>3. Shape'
  BY <1>1, <1>2 DEF Shape, Constructing
<1>4. InBounds'
  BY <1>1, <1>2 DEF InBounds, Constructing, Outside, IsEnd, Elements
<1>5. TableInv'
  BY <1>1 DEF TableInv, Constructing
<1>6. SearchInv'
  BY <1>1, <1>2 DEF SearchInv
<1>7. ResultInv'
  BY <1>1 DEF ResultInv, Behind, IsEnd
<1>8. ReadInv'
  <2>1. Before(iter)' = Before(iter) /\ Before(begin)' = Before(begin)
    BY <1>1, Zenon DEF Before, IsEnd
  <2> QED BY <1>1, <2>1 DEF ReadInv
<1> QED BY <1>3, <1>4, <1>5, <1>6, <1>7, <1>8

-------------------------------------------------------------------------------
(* The program between two calls.                                          *)

\* A call: it begins inside, or is known not to; and what is held stays held.
LEMMA CallKeeps ==
    ASSUME KmpInv, Idle, NEW cs \in Seq(Seq(Alphabet)), NEW it \in Places(cs), Call(cs, it)
    PROVE  KmpInv'
<1> USE DEF KmpInv
<1>1. /\ ~finding /\ ~Constructing /\ finding' = TRUE
      /\ containers' = cs /\ begin' = it /\ iter' = it /\ result' = it
      /\ UNCHANGED <<pattern, prefix, len, j, astray, read>>
      /\ misused' = (misused \/ it.container > Len(cs) \/ j = Len(pattern))
  BY DEF Idle, Call
<1>2. Shape'
  BY <1>1, Zenon DEF Shape, Constructing
<1>3. InBounds'
  <2>1. Outside' => misused'
    <3>1. Len(cs) + 1 > Len(cs)
      OBVIOUS
    <3> QED BY <1>1, <3>1 DEF Outside, IsEnd
  <2>2. it \in Elements(cs) \cup {Position(Len(cs) + 1, 1)}
    BY DEF Places
  <2>3. astray' => misused'
    BY <1>1 DEF InBounds
  <2> QED BY <1>1, <2>1, <2>2, <2>3 DEF InBounds, Constructing
<1>4. TableInv'
  BY <1>1 DEF TableInv, Constructing
<1>5. SearchInv'
  BY <1>1 DEF SearchInv
<1>6. ResultInv'
  BY <1>1 DEF ResultInv
<1>7. ReadInv'
  BY <1>1 DEF ReadInv
<1> QED BY <1>2, <1>3, <1>4, <1>5, <1>6, <1>7

LEMMA FindInNextKeeps ==
    ASSUME KmpInv, FindInNext
    PROVE  KmpInv'
<1>0. PICK cs \in Texts : \E it \in {First(cs)} \cup Elements(cs) : Idle /\ Call(cs, it)
  BY DEF FindInNext
<1>1. PICK it \in {First(cs)} \cup Elements(cs) : Idle /\ Call(cs, it)
  BY <1>0
<1>2. cs \in Seq(Seq(Alphabet))
  BY TextsAssumption
<1>3. it \in Places(cs)
  BY <1>2, FirstIs DEF Places
<1> QED BY <1>1, <1>2, <1>3, CallKeeps

LEMMA FindOnKeeps ==
    ASSUME KmpInv, FindOn
    PROVE  KmpInv'
<1>1. containers \in Seq(Seq(Alphabet)) /\ result \in Places(containers)
  BY DEF KmpInv, Shape, InBounds, Places
<1> QED BY <1>1, CallKeeps DEF FindOn

\* reset: nothing is held, nothing was read.
LEMMA ResetKeeps ==
    ASSUME KmpInv, Reset
    PROVE  KmpInv'
<1> USE DEF KmpInv
<1>1. /\ ~finding /\ ~Constructing /\ j' = 0 /\ read' = <<>> /\ misused' = FALSE
      /\ UNCHANGED <<pattern, prefix, len, containers, begin, iter, finding, result, astray>>
  BY DEF Reset, Idle
<1>2. Len(pattern) \in Nat \ {0} /\ Len(<<>>) = 0 /\ <<>> \in Seq(Alphabet)
  BY DEF Shape
<1>3. Shape' /\ ~astray
  BY <1>1, <1>2 DEF Shape, Constructing
<1>4. InBounds'
  BY <1>1, <1>2, <1>3 DEF InBounds, Constructing, Elements
<1>5. TableInv'
  BY <1>1 DEF TableInv, Constructing
<1>6. SearchInv'
  BY <1>1, <1>2 DEF SearchInv, Ends
<1>7. ResultInv' /\ ReadInv'
  BY <1>1 DEF ResultInv, ReadInv
<1> QED BY <1>3, <1>4, <1>5, <1>6, <1>7

-------------------------------------------------------------------------------

LEMMA InitKeeps == Init => KmpInv
<1> SUFFICES ASSUME Init PROVE KmpInv
  OBVIOUS
<1>1. /\ pattern \in Seq(Alphabet) /\ pattern # <<>> /\ prefix = <<0>> /\ len = 0 /\ j = 0
      /\ finding = FALSE /\ containers = <<>> /\ read = <<>> /\ astray = FALSE /\ misused = FALSE
      /\ begin = Position(1, 1) /\ iter = begin /\ result = begin
  BY PatternsAssumption DEF Init
<1>2. /\ Len(pattern) \in Nat \ {0} /\ Len(<<0>>) = 1 /\ <<0>>[1] = 0 /\ Len(<<>>) = 0
      /\ <<0>> \in Seq(Nat) /\ <<>> \in Seq(Alphabet) /\ <<>> \in Seq(Seq(Alphabet))
  BY <1>1
<1>3. Shape
  BY <1>1, <1>2 DEF Shape
<1>4. InBounds
  <2>1. Position(1, 1) = Position(Len(containers) + 1, 1)
    BY <1>1, <1>2
  <2> QED BY <1>1, <1>2, <2>1 DEF InBounds
<1>5. TableInv
  <2>1. Border(pattern, 1, 0)
    BY DEF Border, Ends
  <2>2. LongestBorder(pattern, 1, 0)
    BY <2>1 DEF LongestBorder
  <2> QED BY <1>1, <1>2, <2>1, <2>2 DEF TableInv
<1>6. SearchInv
  BY <1>1, <1>2 DEF SearchInv, Ends
<1>7. ResultInv /\ ReadInv
  BY <1>1 DEF ResultInv, ReadInv
<1> QED BY <1>3, <1>4, <1>5, <1>6, <1>7 DEF KmpInv

LEMMA NextKeeps == KmpInv /\ [Next]_vars => KmpInv'
<1> SUFFICES ASSUME KmpInv, [Next]_vars PROVE KmpInv'
  OBVIOUS
<1>1. CASE UNCHANGED vars
  <2>1. UNCHANGED <<pattern, prefix, j, len, containers, begin, iter, finding, result, astray, read, misused>>
    BY <1>1 DEF vars
  <2>2. Shape' /\ TableInv'
    BY <2>1 DEF KmpInv, Shape, TableInv, Constructing
  <2>3. InBounds'
    BY <2>1 DEF KmpInv, InBounds, Constructing, Outside, IsEnd, Elements
  <2>4. SearchInv'
    BY <2>1 DEF KmpInv, SearchInv, Element
  <2>5. ResultInv'
    BY <2>1 DEF KmpInv, ResultInv, Behind, IsEnd, Same
  <2>6. ReadInv'
    <3>1. Before(iter)' = Before(iter) /\ Before(begin)' = Before(begin)
      BY <2>1, Zenon DEF Before, IsEnd
    <3> QED BY <2>1, <3>1 DEF KmpInv, ReadInv
  <2> QED BY <2>2, <2>3, <2>4, <2>5, <2>6 DEF KmpInv
<1>2. CASE Next
  BY <1>2, ConstructKeeps, CompareKeeps, SkipKeeps, FallBackKeeps, OutsideKeeps, FindInNextKeeps, FindOnKeeps, ResetKeeps
     DEF Next, Turn
<1> QED BY <1>1, <1>2

LEMMA Invariant == Spec => []KmpInv
<1> QED BY InitKeeps, NextKeeps, PTL DEF Spec

-------------------------------------------------------------------------------
(* The theorems.                                                           *)

\* For every pattern, every range and any calls, in every turn of the constructor and of find:
\* iterators stand at elements or at the end, and neither the pattern nor the table is read outside
\* its bounds by the constructor; nor does find read outside, if it is called where there is an
\* element and before the whole pattern is held. If it is not, it does so before its first element.
THEOREM StaysInBounds == Spec => []InBounds
<1>1. KmpInv => InBounds
  BY DEF KmpInv
<1> QED BY <1>1, Invariant, PTL

\* Ends, in terms of what the properties say.
LEMMA HoldsIs ==
    ASSUME Shape, NEW k \in 0 .. Len(pattern)
    PROVE  Holds(k) <=> Ends(pattern, read, Len(read), k)
<1>1. Len(read) \in Nat /\ Len(read) \in 0 .. Len(read) /\ read \in Seq(Alphabet) /\ pattern \in Seq(Alphabet)
  BY DEF Shape
<1>2. CASE k <= Len(read)
  <2>1. Ends(pattern, read, Len(read), k) <=> Closes(pattern, read, Len(read), k)
    BY <1>1, <1>2, EndsIs
  <2> QED BY <1>2, <2>1 DEF Holds, Closes
<1>3. CASE ~(k <= Len(read))
  BY <1>1, <1>3 DEF Holds, Ends
<1> QED BY <1>2, <1>3

LEMMA BordersAre ==
    ASSUME Shape, NEW i \in 1 .. Len(pattern), NEW k
    PROVE  k \in Borders(SubSeq(pattern, 1, i)) <=> Border(pattern, i, k)
<1> DEFINE s == SubSeq(pattern, 1, i)
<1>1. pattern \in Seq(Alphabet) /\ Len(pattern) \in Nat /\ i \in 0 .. Len(pattern)
  BY DEF Shape
<1>2. s \in Seq(Alphabet) /\ Len(s) = i
  BY <1>1
<1>3. ASSUME NEW h \in 0 .. i - 1
      PROVE  /\ SubSeq(s, 1, h) = SubSeq(pattern, 1, h)
             /\ SubSeq(s, i - h + 1, i) = SubSeq(pattern, i - h + 1, i)
  BY <1>1
<1>4. ASSUME NEW h \in 0 .. i - 1
      PROVE  Ends(pattern, pattern, i, h) <=> SubSeq(pattern, 1, h) = SubSeq(pattern, i - h + 1, i)
  <2>1. h \in 0 .. Len(pattern) /\ h <= i
    BY <1>1
  <2>2. Ends(pattern, pattern, i, h) <=> Closes(pattern, pattern, i, h)
    BY <1>1, <2>1, EndsIs
  <2> QED BY <2>2 DEF Closes
<1>5. Border(pattern, i, k) <=> k \in 0 .. i - 1 /\ Ends(pattern, pattern, i, k)
  BY DEF Border, Ends
<1>6. k \in Borders(s) <=> k \in 0 .. i - 1 /\ SubSeq(s, 1, k) = SubSeq(s, i - k + 1, i)
  BY <1>2, Zenon DEF Borders
<1> QED BY <1>3, <1>4, <1>5, <1>6

\* The table: every entry is the length of the longest border; and when find has returned it
\* holds the longest beginning of the pattern that what was read ends with.
LEMMA LongestHeldHolds == KmpInv => LongestHeld
<1> SUFFICES ASSUME KmpInv PROVE LongestHeld
  OBVIOUS
<1> USE DEF KmpInv
<1>1. Len(prefix) \in Nat /\ DOMAIN prefix = 1 .. Len(prefix) /\ Len(pattern) \in Nat /\ Len(prefix) <= Len(pattern)
  BY DEF Shape, InBounds
<1>2. ASSUME NEW i \in DOMAIN prefix
      PROVE  LET borders == Borders(SubSeq(pattern, 1, i)) IN
             prefix[i] \in borders /\ \A k \in borders : k <= prefix[i]
  <2>1. i \in 1 .. Len(pattern) /\ i \in 1 .. Len(prefix)
    BY <1>1
  <2>2. LongestBorder(pattern, i, prefix[i])
    BY <2>1 DEF TableInv
  <2>3. prefix[i] \in Borders(SubSeq(pattern, 1, i))
    BY <2>1, <2>2, BordersAre DEF LongestBorder
  <2>4. ASSUME NEW k \in Borders(SubSeq(pattern, 1, i)) PROVE k <= prefix[i]
    <3>1. Border(pattern, i, k)
      BY <2>1, <2>4, BordersAre
    <3>2. k \in 0 .. i - 1
      BY <2>1, <3>1 DEF Border, Ends
    <3> QED BY <2>2, <3>1, <3>2 DEF LongestBorder
  <2> QED BY <2>3, <2>4
<1>3. j \in 0 .. Len(pattern)
  BY DEF InBounds
<1>4. Holds(j)
  BY <1>3, HoldsIs DEF SearchInv
<1>5. ASSUME ~finding, ~misused, NEW k \in j + 1 .. Len(pattern) PROVE ~Holds(k)
  <2>1. k \in 0 .. Len(pattern)
    BY <1>1, <1>3
  <2>2. ~Ends(pattern, read, Len(read), k)
    BY <1>5 DEF SearchInv
  <2> QED BY <2>1, <2>2, HoldsIs
<1> QED BY <1>2, <1>4, <1>5 DEF LongestHeld

\* For every pattern, however the ranges it is looked for in are cut: each entry of the table is
\* the length of the longest border; find returns with the longest beginning of the pattern the
\* elements read end with, so no occurrence that spans two ranges is lost (KmpFinder); with a
\* beginning they end with, if find was called where it reads outside.
THEOREM LongestIsHeld == Spec => []LongestHeld
<1> QED BY LongestHeldHolds, Invariant, PTL

\* What find answers, and where the pattern occurs.
LEMMA FindsFirstHolds == KmpInv => FindsFirst
<1> SUFFICES ASSUME KmpInv, ~finding, ~misused, read # <<>> PROVE
        LET places == {i \in 1 .. Len(read) - Len(pattern) + 1 : OccursAt(i)} IN
        /\ places = IF Same(result, begin) THEN {} ELSE {Len(read) - Len(pattern) + 1}
        /\ ~Same(result, begin) => result = iter
  BY DEF FindsFirst
<1> USE DEF KmpInv
<1> DEFINE n == Len(read)
           P == Len(pattern)
           places == {i \in 1 .. n - P + 1 : OccursAt(i)}
<1>1. n \in Nat /\ P \in Nat \ {0} /\ P \in Nat /\ read \in Seq(Alphabet) /\ pattern \in Seq(Alphabet)
  BY DEF Shape
<1>2. ASSUME NEW i \in 1 .. n - P + 1 PROVE OccursAt(i) <=> Ends(pattern, read, i + P - 1, P)
  <2>1. PICK m \in 0 .. n : m = i + P - 1
    <3>1. i + P - 1 \in 0 .. n
      BY <1>1
    <3> QED BY <3>1
  <2>2. P \in 0 .. P /\ P <= m /\ m - P + 1 = i
    BY <1>1, <2>1
  <2>3. SubSeq(pattern, 1, P) = pattern
    BY <1>1
  <2> HIDE DEF n, P
  <2>4. Ends(pattern, read, m, P) <=> SubSeq(pattern, 1, P) = SubSeq(read, m - P + 1, m)
    <3>1. m \in 0 .. Len(read) /\ P \in 0 .. Len(pattern)
      BY <2>2 DEF n, P
    <3>2. Ends(pattern, read, m, P) <=> Closes(pattern, read, m, P)
      BY <1>1, <2>2, <3>1, EndsIs
    <3> QED BY <3>2 DEF Closes
  <2> QED BY <2>1, <2>2, <2>3, <2>4 DEF OccursAt, P
<1>3. ASSUME NEW i \in 1 .. n - P + 1, OccursAt(i) PROVE i = n - P + 1 /\ j = P
  <2>1. i + P - 1 \in 0 .. n
    BY <1>1
  <2>2. Ends(pattern, read, i + P - 1, P)
    BY <1>2, <1>3
  <2>3. i + P - 1 = n /\ j = P
    BY <2>1, <2>2 DEF SearchInv
  <2> QED BY <1>1, <2>3
<1>4. CASE j = P
  <2>1. result = iter /\ ~Same(result, begin)
    BY <1>4 DEF ResultInv
  <2>2. Ends(pattern, read, n, P)
    BY <1>4 DEF SearchInv
  <2>3. n - P + 1 \in 1 .. n - P + 1 /\ (n - P + 1) + P - 1 = n
    <3>1. P \in 0 .. n
      BY <2>2 DEF Ends
    <3> QED BY <1>1, <3>1
  <2>4. OccursAt(n - P + 1)
    BY <1>2, <2>2, <2>3
  <2>5. places = {n - P + 1}
    BY <1>3, <2>3, <2>4
  <2> QED BY <2>1, <2>5
<1>5. CASE j # P
  <2>1. result = begin
    BY <1>5 DEF ResultInv
  <2>2. Same(result, begin)
    BY <2>1 DEF Same
  <2>3. places = {}
    BY <1>3, <1>5
  <2> QED BY <2>2, <2>3
<1> QED BY <1>4, <1>5

\* For every pattern and every cut of the ranges, find answers with the first occurrence since the
\* last reset and the place behind it, and with its argument if and only if there is none, as long
\* as it is called where there is an element and reset after a match.
THEOREM FirstIsFound == Spec => []FindsFirst
<1> QED BY FindsFirstHolds, Invariant, PTL

\* The end of a sequence.
LEMMA SuffixIs ==
    ASSUME NEW A, NEW p \in Seq(A), NEW q \in Seq(A)
    PROVE  IsSuffix(p, q \o p)
<1> DEFINE t == q \o p
           k == Len(p)
           n == Len(t)
<1>1. t \in Seq(A) /\ k \in Nat /\ n \in Nat /\ n = Len(q) + k /\ k <= n /\ Len(q) \in Nat
  OBVIOUS
<1>2. \A m \in 1 .. k : t[Len(q) + m] = p[m]
  OBVIOUS
<1> HIDE DEF t
<1>3. /\ Reverse(p) \in Seq(A) /\ Len(Reverse(p)) = k
      /\ \A i \in 1 .. k : Reverse(p)[i] = p[(k - i) + 1]
  BY DEF Reverse
<1>4. /\ Reverse(t) \in Seq(A) /\ Len(Reverse(t)) = n
      /\ \A i \in 1 .. n : Reverse(t)[i] = t[(n - i) + 1]
  BY <1>1 DEF Reverse
<1>5. ASSUME NEW i \in 1 .. k PROVE Reverse(p)[i] = Reverse(t)[i]
  <2>1. (n - i) + 1 = Len(q) + ((k - i) + 1) /\ (k - i) + 1 \in 1 .. k /\ i \in 1 .. n
    BY <1>1
  <2> QED BY <1>2, <1>3, <1>4, <2>1
<1>6. SubSeq(Reverse(p), 1, k) = SubSeq(Reverse(t), 1, k)
  <2> DEFINE u == SubSeq(Reverse(p), 1, k)
             v == SubSeq(Reverse(t), 1, k)
  <2>1. u \in Seq(A) /\ Len(u) = k /\ \A i \in 1 .. k : u[i] = Reverse(p)[i]
    BY <1>1, <1>3
  <2>2. v \in Seq(A) /\ Len(v) = k /\ \A i \in 1 .. k : v[i] = Reverse(t)[i]
    BY <1>1, <1>4
  <2> HIDE DEF u, v
  <2>3. u = v
    BY <1>5, <2>1, <2>2, SeqEqual
  <2> QED BY <2>3 DEF u, v
<1>7. IsPrefix(Reverse(p), Reverse(t))
  BY <1>1, <1>3, <1>4, <1>6 DEF IsPrefix
<1> QED BY <1>7 DEF IsSuffix, t

LEMMA ReadsHolds == KmpInv => ReadsConcatenation
<1> DEFINE from == Before(begin)
           to   == Before(iter)
           passed == SubSeq(to, Len(from) + 1, Len(to))
<1> SUFFICES ASSUME KmpInv, read # <<>> PROVE IsSuffix(passed, read)
  BY DEF ReadsConcatenation
<1> USE DEF KmpInv
<1>1. from \in Seq(Alphabet)
  <2>1. begin \in Places(containers) /\ containers \in Seq(Seq(Alphabet))
    BY DEF InBounds, Places, Shape
  <2>2. CASE begin \in Elements(containers)
    BY <2>2, IncrementedIs
  <2>3. CASE begin = Position(Len(containers) + 1, 1)
    <3>1. PICK g : Joins(g, containers, Alphabet)
      BY <2>1, JoinsExists
    <3>2. from = g[Len(containers)]
      BY <2>3, <3>1, BeforeIs
    <3>3. Len(containers) \in 0 .. Len(containers)
      BY <2>1
    <3> QED BY <3>1, <3>2, <3>3 DEF Joins
  <2> QED BY <2>1, <2>2, <2>3 DEF Places
<1>2. PICK p, q \in Seq(Alphabet) : to = from \o p /\ read = q \o p
  <2>1. CASE iter = begin
    <3>1. \A s \in Seq(Alphabet) : s = s \o <<>>
      OBVIOUS
    <3>2. read \in Seq(Alphabet) /\ <<>> \in Seq(Alphabet)
      BY DEF Shape
    <3>3. to = from \o <<>> /\ read = read \o <<>>
      BY <1>1, <2>1, <3>1, <3>2
    <3> QED BY <3>2, <3>3
  <2>2. CASE iter # begin
    BY <2>2 DEF ReadInv
  <2> QED BY <2>1, <2>2
<1> HIDE DEF from, to
<1>3. passed = p
  <2>1. SubSeq(from \o p, Len(from) + 1, Len(from \o p)) = p
    <3>1. \A u, v \in Seq(Alphabet) : SubSeq(u \o v, Len(u) + 1, Len(u \o v)) = v
      OBVIOUS
    <3> QED BY <1>1, <3>1
  <2> QED BY <1>2, <2>1
<1> HIDE DEF passed
<1> QED BY <1>2, <1>3, SuffixIs

\* However many containers are empty and wherever a range is cut, find reads what they hold one
\* after the other, from where it began (JoinerIterator).
THEOREM ReadsInOrder == Spec => []ReadsConcatenation
<1> QED BY ReadsHolds, Invariant, PTL

===============================================================================
