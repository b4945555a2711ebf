---------------------------- MODULE FrameParseProofs ----------------------------
(***************************************************************************)
(* Theorems about FrameParse: whatever is sent, and wherever it is cut,    *)
(* the parser stands where the invariant says, and what comes out is what  *)
(* was sent.                                                               *)
(***************************************************************************)
EXTENDS FrameParseProperties, Induction

-------------------------------------------------------------------------------
(* parse_binary_number. *)

\* The first g of the n bytes of a number, as they are kept until the rest is there.
Partly(bytes, n, g) == [i \in 1 .. n |-> IF i <= g THEN bytes[i] ELSE IF i = n THEN g ELSE 0]

\* data goes on where the first c of some bytes end.
Follows(data, bytes, n, c) == \A i \in 1 .. Len(data) : c + i <= n => data[i] = bytes[c + i]

LEMMA NothingYet ==
    ASSUME NEW bytes, NEW n \in Nat
    PROVE  Partly(bytes, n, 0) = Zeros(n)
BY DEF Partly, Zeros

\* What reading l more bytes makes of a number that has g of its n bytes.
ReadOn(bytes, n, g, l) ==
    IF g + l >= n
    THEN [num |-> bytes, used |-> n - g, done |-> TRUE]
    ELSE [num |-> Partly(bytes, n, g + l), used |-> l, done |-> FALSE]

\* However a number is cut, the bytes come together in their places.
LEMMA NumberGoesOn ==
    ASSUME NEW n \in Nat \ {0}, NEW bytes \in [1 .. n -> Byte], NEW g \in 0 .. n - 1,
           NEW V, NEW data \in Seq(V), Follows(data, bytes, n, g)
    PROVE  Number(Partly(bytes, n, g), data) = ReadOn(bytes, n, g, Len(data))
<1> DEFINE num  == Partly(bytes, n, g)
           got  == num[Len(num)]
           with == [i \in 1 .. Len(num) |-> IF i \in got + 1 .. got + Len(data) THEN data[i - got] ELSE num[i]]
<1>1. Len(num) = n /\ got = g /\ Len(data) \in Nat
  BY DEF Partly
<1>2. \A i \in 1 .. n : i \in g + 1 .. g + Len(data) => data[i - g] = bytes[i]
  BY <1>1 DEF Follows
<1>3. CASE num = Zeros(n) /\ Len(data) >= n
  <2>1. g = 0
    <3>1. num[n] = 0 /\ num[n] = g
      BY <1>1, <1>3 DEF Zeros
    <3> QED BY <3>1
  <2>2. [i \in 1 .. n |-> data[i]] = bytes
    BY <1>1, <1>3, <2>1 DEF Follows
  <2>3. Number(num, data) = [num |-> [i \in 1 .. n |-> data[i]], used |-> n, done |-> TRUE]
    BY <1>1, <1>3 DEF Number
  <2>4. g + Len(data) >= n /\ n - g = n
    BY <1>1, <1>3, <2>1
  <2> HIDE DEF num
  <2> QED BY <2>2, <2>3, <2>4 DEF num, ReadOn
<1>4. CASE ~(num = Zeros(n) /\ Len(data) >= n) /\ g + Len(data) >= n
  <2>1. with = bytes
    BY <1>1, <1>2, <1>4 DEF Partly
  <2>2. Number(num, data) = [num |-> with, used |-> n - g, done |-> TRUE]
    BY <1>1, <1>4 DEF Number
  <2> HIDE DEF num, with
  <2> QED BY <1>4, <2>1, <2>2 DEF num, ReadOn
<1>5. CASE ~(num = Zeros(n) /\ Len(data) >= n) /\ ~(g + Len(data) >= n)
  <2>1. [with EXCEPT ![n] = g + Len(data)] = Partly(bytes, n, g + Len(data))
    <3>1. with \in [1 .. n -> UNION {{with[i]} : i \in 1 .. n}]
      BY <1>1
    <3>2. n \in 1 .. n /\ g + Len(data) \in 0 .. n - 1
      BY <1>1, <1>5
    <3>3. ASSUME NEW i \in 1 .. n, i # n PROVE with[i] = IF i <= g + Len(data) THEN bytes[i] ELSE 0
      BY <1>1, <1>2, <1>5, <3>3 DEF Partly
    <3> HIDE DEF with
    <3> QED BY <1>1, <1>5, <3>1, <3>2, <3>3 DEF Partly
  <2>2. Number(num, data) = [num |-> [with EXCEPT ![n] = g + Len(data)], used |-> Len(data), done |-> FALSE]
    BY <1>1, <1>5 DEF Number
  <2> HIDE DEF num, with
  <2> QED BY <1>5, <2>1, <2>2 DEF num, ReadOn
<1> QED BY <1>3, <1>4, <1>5

\* What is kept of a number fits into its bytes.
LEMMA PartlyType ==
    ASSUME NEW n \in 1 .. 8, NEW bytes \in [1 .. n -> Byte], NEW g \in 0 .. n - 1
    PROVE  Partly(bytes, n, g) \in [1 .. n -> Byte]
BY DEF Partly, Byte

-------------------------------------------------------------------------------
(* The length field. *)

LEMMA DigitType == ASSUME NEW n \in Nat, n <= MaxLength, NEW i \in Nat PROVE Digit(n, i) \in Byte
<1>1. n % 256 \in 0 .. 255 /\ (n \div 256) % 256 \in 0 .. 255 /\ (n \div 65536) % 256 \in 0 .. 255
  OBVIOUS
<1>2. n \div 16777216 \in 0 .. 255
  BY SMT DEF MaxLength
<1>3. CASE i = 0
  BY <1>1, <1>3, SMT DEF Digit, Byte
<1>4. CASE i = 1
  BY <1>1, <1>4, SMT DEF Digit, Byte
<1>5. CASE i = 2
  BY <1>1, <1>5, SMT DEF Digit, Byte
<1>6. CASE i = 3
  BY <1>2, <1>6, SMT DEF Digit, Byte
<1>7. CASE i # 0 /\ i # 1 /\ i # 2 /\ i # 3
  BY <1>7, SMT DEF Digit, Byte
<1> QED BY <1>3, <1>4, <1>5, <1>6, <1>7, Zenon

LEMMA BytesType ==
    ASSUME NEW n \in Nat, n <= MaxLength, NEW size \in Nat
    PROVE  Bytes(n, size) \in [1 .. size -> Byte]
<1>1. \A i \in 1 .. size : Digit(n, size - i) \in Byte
  BY DigitType
<1> QED BY <1>1 DEF Bytes

LEMMA ByteIsNat == Byte \subseteq Nat
BY SMT DEF Byte

\* BigEndian, by its recursion.
BigEndianIs(bytes, f) ==
    f = [i \in 0 .. Len(bytes) |-> IF i = 0 THEN 0 ELSE 256 * f[i - 1] + bytes[i]]

\* It takes one byte after the other.
Horner(f, bytes, size) ==
    /\ f \in [0 .. size -> Nat]
    /\ f[0] = 0
    /\ \A i \in 1 .. size : f[i] = 256 * f[i - 1] + bytes[i]

LEMMA BigEndianRecursion ==
    ASSUME NEW size \in Nat, NEW bytes \in [1 .. size -> Byte]
    PROVE  \E f : Horner(f, bytes, size) /\ BigEndian(bytes) = f[size]
<1> DEFINE next == [a \in (1 .. size) \X Nat |-> 256 * a[2] + bytes[a[1]]]
<1>1. Len(bytes) = size
  OBVIOUS
<1>2. next \in [(1 .. size) \X Nat -> Nat]
  <2>1. \A i \in 1 .. size : bytes[i] \in Nat
    <3> HIDE DEF next
    <3> QED BY ByteIsNat
  <2>2. ASSUME NEW a \in (1 .. size) \X Nat PROVE 256 * a[2] + bytes[a[1]] \in Nat
    <3>1. a[1] \in 1 .. size /\ a[2] \in Nat
      OBVIOUS
    <3>2. bytes[a[1]] \in Nat
      BY <2>1, <3>1
    <3> QED BY <3>1, <3>2
  <2> QED BY <2>2
<1>3. \A i \in 1 .. size, v \in Nat : next[<<i, v>>] = 256 * v + bytes[i]
  OBVIOUS
<1> HIDE DEF next
<1>4. PICK f : Recursive(f, Nat, 0, size, next)
  BY <1>2, RecursionDefines
<1>5. f \in [0 .. size -> Nat] /\ f[0] = 0
  BY <1>4 DEF Recursive
<1>6. ASSUME NEW i \in 1 .. size PROVE f[i] = 256 * f[i - 1] + bytes[i]
  <2>1. f[i] = next[<<i, f[i - 1]>>] /\ f[i - 1] \in Nat
    BY <1>4, <1>5 DEF Recursive
  <2> QED BY <1>3, <2>1
<1>7. BigEndianIs(bytes, f)
  BY <1>1, <1>5, <1>6 DEF BigEndianIs
<1> DEFINE h == CHOOSE x : BigEndianIs(bytes, x)
<1>8. BigEndianIs(bytes, h)
  BY <1>7
<1>9. BigEndian(bytes) = h[Len(bytes)]
  BY Zenon DEF BigEndian, BigEndianIs
<1> HIDE DEF h
<1>10. h[0] = 0 /\ \A i \in 1 .. size : h[i] = 256 * h[i - 1] + bytes[i]
  BY <1>1, <1>8 DEF BigEndianIs
<1>11. \A i \in 0 .. size : h[i] = f[i]
  <2>1. InStep(h, f, size)
    BY <1>5, <1>6, <1>10 DEF InStep
  <2> QED BY <2>1, RecursionUnique
<1>12. Horner(f, bytes, size)
  BY <1>5, <1>6 DEF Horner
<1>13. h[size] = f[size]
  BY <1>11
<1> QED BY <1>1, <1>9, <1>12, <1>13

\* Division by 256, as the arithmetic needs it.
LEMMA Divided ==
    ASSUME NEW m \in Nat
    PROVE  \E q \in Nat, r \in 0 .. 255 :
              q = m \div 256 /\ r = m % 256 /\ m <= 256 * q + r /\ 256 * q + r <= m
OBVIOUS

LEMMA DividedTwice ==
    ASSUME NEW m \in Nat
    PROVE  (m \div 256) \div 256 = m \div 65536 /\ (m \div 65536) \div 256 = m \div 16777216
OBVIOUS

\* A length comes back from its bytes.
LEMMA LengthOfTwo ==
    ASSUME NEW n \in Nat, n <= MaxShort
    PROVE  BigEndian(Bytes(n, 2)) = n
<1>1. PICK q \in Nat, r \in 0 .. 255 :
         q = n \div 256 /\ r = n % 256 /\ n <= 256 * q + r /\ 256 * q + r <= n
  BY Divided
<1>2. q <= 255 /\ q % 256 = q
  BY <1>1, SMT DEF MaxShort
<1> DEFINE b == Bytes(n, 2)
<1>3. b[1] = q /\ b[2] = r
  BY <1>1, <1>2 DEF Bytes, Digit
<1>4. b \in [1 .. 2 -> Byte]
  <2>1. n <= MaxLength
    BY SMT DEF MaxShort, MaxLength
  <2> QED BY <2>1, BytesType
<1> HIDE DEF b
<1>5. PICK f : Horner(f, b, 2) /\ BigEndian(b) = f[2]
  BY <1>4, BigEndianRecursion
<1>6. f[1] = 256 * f[0] + b[1] /\ f[2] = 256 * f[1] + b[2] /\ f[0] = 0
  BY <1>5 DEF Horner
<1>7. f[2] = n
  BY <1>1, <1>3, <1>6
<1>8. BigEndian(b) = n
  BY <1>5, <1>7, Zenon
<1> QED BY <1>8 DEF b

LEMMA LengthOfEight ==
    ASSUME NEW n \in Nat, n <= MaxLength
    PROVE  BigEndian(Bytes(n, 8)) = n
<1>1. PICK q1 \in Nat, r1 \in 0 .. 255 :
         q1 = n \div 256 /\ r1 = n % 256 /\ n <= 256 * q1 + r1 /\ 256 * q1 + r1 <= n
  BY Divided
<1>2. PICK q2 \in Nat, r2 \in 0 .. 255 :
         q2 = q1 \div 256 /\ r2 = q1 % 256 /\ q1 <= 256 * q2 + r2 /\ 256 * q2 + r2 <= q1
  BY Divided
<1>3. PICK q3 \in Nat, r3 \in 0 .. 255 :
         q3 = q2 \div 256 /\ r3 = q2 % 256 /\ q2 <= 256 * q3 + r3 /\ 256 * q3 + r3 <= q2
  BY Divided
<1>4. n \div 65536 = q2 /\ n \div 16777216 = q3
  BY <1>1, <1>2, <1>3, DividedTwice
<1> DEFINE b == Bytes(n, 8)
<1>5. /\ b[1] = 0 /\ b[2] = 0 /\ b[3] = 0 /\ b[4] = 0
      /\ b[5] = n \div 16777216 /\ b[6] = (n \div 65536) % 256
      /\ b[7] = (n \div 256) % 256 /\ b[8] = n % 256
  BY DEF Bytes, Digit
<1>6. b[5] = q3 /\ b[6] = r3 /\ b[7] = r2 /\ b[8] = r1
  BY <1>1, <1>2, <1>3, <1>4, <1>5, SMT
<1>7. b \in [1 .. 8 -> Byte]
  BY BytesType
<1> HIDE DEF b
<1>8. PICK f : Horner(f, b, 8) /\ BigEndian(b) = f[8]
  BY <1>7, BigEndianRecursion
<1>9. /\ f[0] = 0 /\ f[1] = 256 * f[0] + b[1] /\ f[2] = 256 * f[1] + b[2]
      /\ f[3] = 256 * f[2] + b[3] /\ f[4] = 256 * f[3] + b[4]
  BY <1>8 DEF Horner
<1>10. f[4] = 0
  BY <1>5, <1>9
<1>11. /\ f[5] = 256 * f[4] + b[5] /\ f[6] = 256 * f[5] + b[6]
       /\ f[7] = 256 * f[6] + b[7] /\ f[8] = 256 * f[7] + b[8]
  BY <1>8 DEF Horner
<1>12. f[5] = q3 /\ f[6] = 256 * q3 + r3
  BY <1>6, <1>10, <1>11
<1>13. f[6] = q2
  BY <1>3, <1>12
<1>14. f[7] = q1
  BY <1>2, <1>6, <1>11, <1>13
<1>15. f[8] = n
  BY <1>1, <1>6, <1>11, <1>14
<1>16. BigEndian(b) = n
  BY <1>8, <1>15, Zenon
<1> QED BY <1>16 DEF b

-------------------------------------------------------------------------------
(* The bytes of a header. *)

FirstByte(f) == f.op + 64 * Bit(f.rsv1) + 128 * Bit(f.fin)
Slen(f) == CASE f.form = 0 -> f.len [] f.form = 2 -> 126 [] f.form = 8 -> 127
SecondByte(f) == 128 * Bit(f.mask # <<>>) + Slen(f)

LEMMA WireFrameIs ==
    ASSUME NEW f \in WireFrame
    PROVE  /\ f.op \in 0 .. 15 /\ f.fin \in BOOLEAN /\ f.rsv1 \in BOOLEAN
           /\ f.len \in Nat /\ f.len <= MaxLength /\ f.form \in {0, 2, 8} /\ f.starts \in SUBSET Nat
           /\ f.form = 0 => f.len < 126
           /\ f.form = 2 => f.len <= MaxShort
           /\ 0 \in f.starts
           /\ f.mask = <<>> \/ f.mask \in [1 .. 4 -> Byte]
BY DEF WireFrame, Opcodes

LEMMA ArraysAreSequences ==
    ASSUME NEW n \in Nat, NEW S, NEW m \in [1 .. n -> S]
    PROVE  m \in Seq(S) /\ Len(m) = n
OBVIOUS

LEMMA FourBytes == ASSUME NEW m \in [1 .. 4 -> Byte] PROVE m \in Seq(Byte) /\ Len(m) = 4
<1>1. 4 \in Nat
  OBVIOUS
<1> QED BY <1>1, ArraysAreSequences

LEMMA EmptyLength == Len(<<>>) = 0
OBVIOUS

LEMMA JoinIs ==
    ASSUME NEW V, NEW s \in Seq(V), NEW t \in Seq(V)
    PROVE  /\ s \o t \in Seq(V) /\ Len(s \o t) = Len(s) + Len(t)
           /\ \A i \in 1 .. Len(s) : (s \o t)[i] = s[i]
           /\ \A i \in 1 .. Len(t) : (s \o t)[Len(s) + i] = t[i]
OBVIOUS

\* A mask is four bytes, or none.
LEMMA MaskIs ==
    ASSUME NEW f \in WireFrame
    PROVE  /\ f.mask \in Seq(Byte)
           /\ f.mask = <<>> => Len(f.mask) = 0
           /\ f.mask # <<>> => Len(f.mask) = 4 /\ f.mask \in [1 .. 4 -> Byte]
<1>1. CASE f.mask = <<>>
  BY <1>1
<1>2. CASE f.mask \in [1 .. 4 -> Byte]
  <2>1. f.mask \in Seq(Byte) /\ Len(f.mask) = 4
    BY <1>2, FourBytes
  <2>2. ASSUME f.mask = <<>> PROVE FALSE
    <3>1. Len(f.mask) = 0
      BY <2>2, EmptyLength, Zenon
    <3>2. 0 # 4
      OBVIOUS
    <3> QED BY <2>1, <3>1, <3>2, Zenon
  <2> QED BY <1>2, <2>1, <2>2
<1> QED BY <1>1, <1>2, WireFrameIs

\* What the first two bytes say.
LEMMA FirstByteIs ==
    ASSUME NEW f \in WireFrame
    PROVE  /\ FirstByte(f) \in Byte
           /\ FirstByte(f) % 16 = f.op
           /\ FirstByte(f) >= 128 <=> f.fin
           /\ (FirstByte(f) \div 64) % 2 = 1 <=> f.rsv1
<1>1. f.op \in 0 .. 15 /\ f.fin \in BOOLEAN /\ f.rsv1 \in BOOLEAN
  BY WireFrameIs
<1> DEFINE op == f.op
<1>2. op \in 0 .. 15
  BY <1>1
<1> HIDE DEF op
<1>3. CASE f.fin /\ f.rsv1
  <2>1. FirstByte(f) = op + 192
    BY <1>2, <1>3 DEF FirstByte, Bit, op
  <2>2. op + 192 \in 0 .. 255 /\ (op + 192) % 16 = op /\ op + 192 >= 128 /\ ((op + 192) \div 64) % 2 = 1
    BY <1>2
  <2> QED BY <1>3, <2>1, <2>2 DEF Byte, op
<1>4. CASE f.fin /\ ~f.rsv1
  <2>1. FirstByte(f) = op + 128
    BY <1>2, <1>4 DEF FirstByte, Bit, op
  <2>2. op + 128 \in 0 .. 255 /\ (op + 128) % 16 = op /\ op + 128 >= 128 /\ ((op + 128) \div 64) % 2 # 1
    BY <1>2
  <2> QED BY <1>4, <2>1, <2>2 DEF Byte, op
<1>5. CASE ~f.fin /\ f.rsv1
  <2>1. FirstByte(f) = op + 64
    BY <1>2, <1>5 DEF FirstByte, Bit, op
  <2>2. op + 64 \in 0 .. 255 /\ (op + 64) % 16 = op /\ ~(op + 64 >= 128) /\ ((op + 64) \div 64) % 2 = 1
    BY <1>2
  <2> QED BY <1>5, <2>1, <2>2 DEF Byte, op
<1>6. CASE ~f.fin /\ ~f.rsv1
  <2>1. FirstByte(f) = op
    BY <1>2, <1>6 DEF FirstByte, Bit, op
  <2>2. op \in 0 .. 255 /\ op % 16 = op /\ ~(op >= 128) /\ (op \div 64) % 2 # 1
    BY <1>2
  <2> QED BY <1>6, <2>1, <2>2 DEF Byte, op
<1> QED BY <1>3, <1>4, <1>5, <1>6

LEMMA SlenIs ==
    ASSUME NEW f \in WireFrame
    PROVE  /\ Slen(f) \in 0 .. 127
           /\ f.form = 0 => Slen(f) = f.len /\ Slen(f) < 126
           /\ f.form = 2 => Slen(f) = 126
           /\ f.form = 8 => Slen(f) = 127
<1>1. f.form \in {0, 2, 8} /\ f.len \in Nat /\ (f.form = 0 => f.len < 126)
  BY WireFrameIs
<1> QED BY <1>1 DEF Slen

LEMMA SecondByteIs ==
    ASSUME NEW f \in WireFrame
    PROVE  /\ SecondByte(f) \in Byte
           /\ SecondByte(f) % 128 = Slen(f)
           /\ SecondByte(f) >= 128 <=> f.mask # <<>>
<1> DEFINE n == Slen(f)
<1>1. n \in 0 .. 127
  BY SlenIs
<1> HIDE DEF n
<1>2. CASE f.mask # <<>>
  <2>1. SecondByte(f) = 128 + n
    BY <1>1, <1>2 DEF SecondByte, Bit, n
  <2>2. 128 + n \in 0 .. 255 /\ (128 + n) % 128 = n /\ 128 + n >= 128
    BY <1>1
  <2> QED BY <1>2, <2>1, <2>2 DEF Byte, n
<1>3. CASE f.mask = <<>>
  <2>1. Bit(f.mask # <<>>) = 0
    BY <1>3 DEF Bit
  <2>3. SecondByte(f) = n
    <3>1. SecondByte(f) = 128 * Bit(f.mask # <<>>) + n
      BY Zenon DEF SecondByte, n
    <3>2. SecondByte(f) = 128 * 0 + n
      BY <2>1, <3>1, Zenon
    <3> QED BY <1>1, <3>2
  <2>2. n \in 0 .. 255 /\ n % 128 = n /\ ~(n >= 128)
    BY <1>1
  <2> QED BY <1>3, <2>2, <2>3 DEF Byte, n
<1> QED BY <1>2, <1>3

\* Where the parts of a header lie.
HeaderSize(f) == 2 + f.form + Len(f.mask)

LEMMA CompileIs ==
    ASSUME NEW f \in WireFrame
    PROVE  /\ Len(Compile(f)) = HeaderSize(f)
           /\ HeaderSize(f) \in 2 .. 14
           /\ Compile(f)[1] = FirstByte(f) /\ Compile(f)[2] = SecondByte(f)
           /\ \A i \in 1 .. f.form : Compile(f)[2 + i] = Bytes(f.len, f.form)[i]
           /\ \A i \in 1 .. Len(f.mask) : Compile(f)[2 + f.form + i] = f.mask[i]
<1> DEFINE a == <<FirstByte(f), SecondByte(f)>>
           b == Bytes(f.len, f.form)
<1>1. Compile(f) = (a \o b) \o f.mask
  BY Zenon DEF Compile, FirstByte, SecondByte, Slen
<1>2. f.form \in {0, 2, 8} /\ f.len \in Nat /\ f.len <= MaxLength
  BY WireFrameIs
<1>3. a \in Seq(Byte) /\ Len(a) = 2 /\ a[1] = FirstByte(f) /\ a[2] = SecondByte(f)
  BY FirstByteIs, SecondByteIs
<1>4. b \in Seq(Byte) /\ Len(b) = f.form
  <2>1. b \in [1 .. f.form -> Byte] /\ f.form \in Nat
    <3>1. f.form \in Nat
      BY <1>2
    <3> QED BY <1>2, <3>1, BytesType, Zenon
  <2> HIDE DEF b
  <2> QED BY <2>1
<1>5. f.mask \in Seq(Byte) /\ Len(f.mask) \in {0, 4}
  BY MaskIs
<1> DEFINE n == f.form
           m == f.mask
<1> HIDE DEF a, b, n, m
<1>6. n \in {0, 2, 8} /\ m \in Seq(Byte) /\ Len(m) \in {0, 4} /\ Len(b) = n
  BY <1>2, <1>4, <1>5 DEF n, m
<1>7. a \o b \in Seq(Byte) /\ Len(a \o b) = 2 + n /\ (a \o b)[1] = a[1] /\ (a \o b)[2] = a[2]
      /\ \A i \in 1 .. n : (a \o b)[2 + i] = b[i]
  <2>1. 1 \in 1 .. 2 /\ 2 \in 1 .. 2
    OBVIOUS
  <2>2. b \in Seq(Byte)
    BY <1>4
  <2>3. /\ a \o b \in Seq(Byte) /\ Len(a \o b) = Len(a) + Len(b)
        /\ \A i \in 1 .. Len(a) : (a \o b)[i] = a[i]
        /\ \A i \in 1 .. Len(b) : (a \o b)[Len(a) + i] = b[i]
    BY <1>3, <2>2, JoinIs, SMTT(20)
  <2>4. Len(a) = 2 /\ Len(b) = n
    BY <1>3, <1>6
  <2> QED BY <2>1, <2>3, <2>4
<1> DEFINE ab == a \o b
<1>8. ab \in Seq(Byte) /\ Len(ab) = 2 + n
  BY <1>7
<1>9. /\ Len(ab \o m) = 2 + n + Len(m)
      /\ \A i \in 1 .. 2 + n : (ab \o m)[i] = ab[i]
      /\ \A i \in 1 .. Len(m) : (ab \o m)[2 + n + i] = m[i]
  <2> HIDE DEF ab
  <2> QED BY <1>6, <1>8, JoinIs
<1>10. \A i \in 1 .. n : (ab \o m)[2 + i] = b[i]
  BY <1>6, <1>7, <1>9, SMTT(30)
<1>11. (ab \o m)[1] = FirstByte(f) /\ (ab \o m)[2] = SecondByte(f)
  BY <1>3, <1>6, <1>7, <1>9
<1>12. Compile(f) = ab \o m
  BY <1>1 DEF m
<1> HIDE DEF ab
<1>13. Len(Compile(f)) = 2 + n + Len(m) /\ 2 + n + Len(m) \in 2 .. 14
  <2>1. Len(Compile(f)) = 2 + n + Len(m)
    BY <1>9, <1>12, Zenon
  <2>2. \A k \in {0, 2, 8}, l \in {0, 4} : 2 + k + l \in 2 .. 14
    OBVIOUS
  <2> QED BY <1>6, <2>1, <2>2, Zenon
<1>14. /\ \A i \in 1 .. n : Compile(f)[2 + i] = b[i]
       /\ \A i \in 1 .. Len(m) : Compile(f)[2 + n + i] = m[i]
  BY <1>9, <1>10, <1>12
<1>15. Compile(f)[1] = FirstByte(f) /\ Compile(f)[2] = SecondByte(f)
  BY <1>11, <1>12
<1> QED BY <1>13, <1>14, <1>15 DEF HeaderSize, n, m, b

-------------------------------------------------------------------------------
(* What a header holds after c bytes of a frame f.                         *)

HeaderType == [state: HeaderStates, first: Byte, has_mask: BOOLEAN, slen: 0 .. 127,
               len16: [1 .. 2 -> Byte], len64: [1 .. 8 -> Byte], length: Nat,
               mask: [1 .. 4 -> Byte]]

Blank(h) == h.len16 = Zeros(2) /\ h.len64 = Zeros(8) /\ h.mask = Zeros(4)

TwoRead(h, f) ==
    h.first = FirstByte(f) /\ (h.has_mask <=> f.mask # <<>>) /\ h.slen = Slen(f)

\* Of the length field, and of the mask, g bytes are there.
LengthSoFar(h, f, g) ==
    /\ g \in Nat
    /\ f.form = 0 => g = 0
    /\ f.form = 2 => g \in 0 .. 2 - 1 /\ h.len16 = Partly(Bytes(f.len, 2), 2, g)
    /\ f.form = 8 => g \in 0 .. 8 - 1 /\ h.len64 = Partly(Bytes(f.len, 8), 8, g)
MaskSoFar(h, f, g) ==
    /\ g \in Nat
    /\ f.mask = <<>> => g = 0
    /\ f.mask # <<>> => g \in 0 .. 4 - 1 /\ h.mask = Partly(f.mask, 4, g)

InFirst(h, c)     == h.state = "FIRST" /\ c = 0 /\ Blank(h)
InSecond(h, f, c) == h.state = "SECOND" /\ c = 1 /\ Blank(h) /\ h.first = FirstByte(f)
InLength(h, f, c) == h.state = "LENGTH" /\ TwoRead(h, f) /\ h.mask = Zeros(4)
                     /\ \E g \in Nat : c = 2 + g /\ LengthSoFar(h, f, g)
InMask(h, f, c)   == h.state = "MASK" /\ TwoRead(h, f) /\ h.length = f.len
                     /\ \E g \in Nat : c = 2 + f.form + g /\ MaskSoFar(h, f, g)
InDone(h, f, c)   == h.state = "DONE" /\ TwoRead(h, f) /\ h.length = f.len /\ c = HeaderSize(f)
                     /\ (f.mask # <<>> => h.mask = f.mask)

Holds(h, f, c) == InFirst(h, c) \/ InSecond(h, f, c) \/ InLength(h, f, c) \/ InMask(h, f, c) \/ InDone(h, f, c)

\* A stage that has c bytes behind it, and t with those in front of it.
StandsAt(s, f, V, t, c) ==
    /\ s.h \in HeaderType /\ s.data \in Seq(V)
    /\ c + Len(s.data) = t
    /\ Holds(s.h, f, c)
    /\ Follows(s.data, Compile(f), HeaderSize(f), c)
Stands(s, f, V, t) == \E c \in Nat : StandsAt(s, f, V, t, c)

\* The updates the stages make.
IsBoolean(p) == p \in BOOLEAN

WithFirst(h, b) == [h EXCEPT !.state = "SECOND", !.first = b]
WithSecond(h, p, n) == [h EXCEPT !.state = "LENGTH", !.has_mask = p, !.slen = n]
WithLength(h, n) == [h EXCEPT !.state = "MASK", !.length = n]
WithLen16(h, st, num, n) == [h EXCEPT !.state = st, !.len16 = num, !.length = n]
WithLen64(h, st, num, n) == [h EXCEPT !.state = st, !.len64 = num, !.length = n]
WithDone(h) == [h EXCEPT !.state = "DONE"]
WithMask(h, st, num) == [h EXCEPT !.state = st, !.mask = num]

LEMMA UpdateFirst ==
    ASSUME NEW h \in HeaderType, NEW b \in Byte
    PROVE  LET g == WithFirst(h, b) IN
           /\ g \in HeaderType
           /\ g.state = "SECOND" /\ g.first = b /\ g.len16 = h.len16 /\ g.len64 = h.len64
           /\ g.mask = h.mask
BY DEF HeaderType, HeaderStates, WithFirst

LEMMA UpdateSecond ==
    ASSUME NEW h \in HeaderType, NEW p, IsBoolean(p), NEW n \in 0 .. 127
    PROVE  LET g == WithSecond(h, p, n) IN
           /\ g \in HeaderType
           /\ g.state = "LENGTH" /\ g.first = h.first /\ g.has_mask = p /\ g.slen = n
           /\ g.len16 = h.len16 /\ g.len64 = h.len64 /\ g.mask = h.mask
BY DEF HeaderType, HeaderStates, WithSecond, IsBoolean

LEMMA UpdateLength ==
    ASSUME NEW h \in HeaderType, NEW n \in Nat
    PROVE  LET g == WithLength(h, n) IN
           /\ g \in HeaderType
           /\ g.state = "MASK" /\ g.length = n /\ g.first = h.first /\ g.has_mask = h.has_mask
           /\ g.slen = h.slen /\ g.mask = h.mask
BY DEF HeaderType, HeaderStates, WithLength

Len16Set(g, h, st, num, n) ==
    /\ g \in HeaderType
    /\ g.state = st /\ g.len16 = num /\ g.length = n /\ g.first = h.first
    /\ g.has_mask = h.has_mask /\ g.slen = h.slen /\ g.mask = h.mask
LEMMA UpdateLen16 ==
    ASSUME NEW h \in HeaderType, NEW st \in HeaderStates, NEW num \in [1 .. 2 -> Byte], NEW n \in Nat
    PROVE  Len16Set(WithLen16(h, st, num, n), h, st, num, n)
BY DEF HeaderType, WithLen16, Len16Set

Len64Set(g, h, st, num, n) ==
    /\ g \in HeaderType
    /\ g.state = st /\ g.len64 = num /\ g.length = n /\ g.first = h.first
    /\ g.has_mask = h.has_mask /\ g.slen = h.slen /\ g.mask = h.mask
LEMMA UpdateLen64 ==
    ASSUME NEW h \in HeaderType, NEW st \in HeaderStates, NEW num \in [1 .. 8 -> Byte], NEW n \in Nat
    PROVE  Len64Set(WithLen64(h, st, num, n), h, st, num, n)
BY DEF HeaderType, WithLen64, Len64Set

LEMMA UpdateDone ==
    ASSUME NEW h \in HeaderType
    PROVE  LET g == WithDone(h) IN
           /\ g \in HeaderType
           /\ g.state = "DONE" /\ g.length = h.length /\ g.first = h.first /\ g.has_mask = h.has_mask
           /\ g.slen = h.slen /\ g.mask = h.mask
BY DEF HeaderType, HeaderStates, WithDone

MaskSet(g, h, st, num) ==
    /\ g \in HeaderType
    /\ g.state = st /\ g.mask = num /\ g.length = h.length /\ g.first = h.first
    /\ g.has_mask = h.has_mask /\ g.slen = h.slen
LEMMA UpdateMask ==
    ASSUME NEW h \in HeaderType, NEW st \in HeaderStates, NEW num \in [1 .. 4 -> Byte]
    PROVE  MaskSet(WithMask(h, st, num), h, st, num)
BY DEF HeaderType, WithMask, MaskSet

LEMMA ZerosType == Zeros(2) \in [1 .. 2 -> Byte] /\ Zeros(4) \in [1 .. 4 -> Byte] /\ Zeros(8) \in [1 .. 8 -> Byte]
BY DEF Zeros, Byte

LEMMA ResetIs ==
    ASSUME NEW h \in HeaderType
    PROVE  /\ ResetHeader(h) \in HeaderType /\ InFirst(ResetHeader(h), 0) /\ ResetHeader(h).length = 0
BY ZerosType DEF HeaderType, HeaderStates, ResetHeader, InFirst, Blank

LEMMA FreshIs == FreshHeader \in HeaderType /\ InFirst(FreshHeader, 0)
BY ZerosType DEF HeaderType, HeaderStates, FreshHeader, InFirst, Blank, Byte

\* Bytes that were used are gone, and the others follow.
LEMMA Dropped ==
    ASSUME NEW V, NEW data \in Seq(V), NEW u \in 0 .. Len(data), NEW bytes, NEW n, NEW c \in Nat,
           Follows(data, bytes, n, c)
    PROVE  LET rest == SubSeq(data, u + 1, Len(data)) IN
           /\ rest \in Seq(V) /\ Len(rest) = Len(data) - u
           /\ Follows(rest, bytes, n, c + u)
<1> DEFINE rest == SubSeq(data, u + 1, Len(data))
<1>1. rest \in Seq(V) /\ Len(rest) = Len(data) - u
  OBVIOUS
<1>2. \A i \in 1 .. Len(rest) : rest[i] = data[u + i] /\ u + i \in 1 .. Len(data) /\ c + (u + i) = (c + u) + i
  BY <1>1
<1> HIDE DEF rest
<1>3. Follows(rest, bytes, n, c + u)
  BY <1>2 DEF Follows
<1> QED BY <1>1, <1>3 DEF rest

LEMMA HeadDropped ==
    ASSUME NEW V, NEW data \in Seq(V), data # <<>>, NEW bytes, NEW n, NEW c \in Nat,
           Follows(data, bytes, n, c), c < n, n \in Nat
    PROVE  /\ Head(data) = bytes[c + 1]
           /\ Tail(data) \in Seq(V) /\ (c + 1) + Len(Tail(data)) = c + Len(data)
           /\ Follows(Tail(data), bytes, n, c + 1)
<1>1. Len(data) \in Nat \ {0} /\ Head(data) = data[1]
  OBVIOUS
<1>2. Head(data) = bytes[c + 1]
  BY <1>1 DEF Follows
<1>3. Tail(data) \in Seq(V) /\ Len(Tail(data)) = Len(data) - 1
  OBVIOUS
<1>4. \A i \in 1 .. Len(data) - 1 : Tail(data)[i] = data[i + 1]
  OBVIOUS
<1>5. \A i \in 1 .. Len(data) - 1 : i + 1 \in 1 .. Len(data) /\ c + (i + 1) = (c + 1) + i
  BY <1>1
<1>6. Follows(Tail(data), bytes, n, c + 1)
  BY <1>3, <1>4, <1>5 DEF Follows
<1> QED BY <1>1, <1>2, <1>3, <1>6

-------------------------------------------------------------------------------
(* The stages of FrameHeader::parse: each keeps what the header holds in   *)
(* step with the bytes used, and stays in its state only for want of bytes. *)

\* In which of the states a header is decides what it holds.
LEMMA StateDecides ==
    ASSUME NEW h, NEW f, NEW c, Holds(h, f, c)
    PROVE  /\ h.state = "FIRST" => InFirst(h, c)
           /\ h.state = "SECOND" => InSecond(h, f, c)
           /\ h.state = "LENGTH" => InLength(h, f, c)
           /\ h.state = "MASK" => InMask(h, f, c)
           /\ h.state = "DONE" => InDone(h, f, c)
BY DEF Holds, InFirst, InSecond, InLength, InMask, InDone

LEMMA StageIs == ASSUME NEW h, NEW d PROVE Stage(h, d).h = h /\ Stage(h, d).data = d
BY DEF Stage

LEMMA FirstStage ==
    ASSUME NEW f \in WireFrame, NEW V, NEW s, NEW t, Stands(s, f, V, t)
    PROVE  Stands(ReadFirst(s), f, V, t) /\ (ReadFirst(s).h.state = "FIRST" => ReadFirst(s).data = <<>>)
<1> DEFINE r == ReadFirst(s)
<1> HIDE DEF r
<1>1. PICK c \in Nat : StandsAt(s, f, V, t, c)
  BY DEF Stands
<1>2. CASE s.h.state # "FIRST" \/ s.data = <<>>
  <2>1. r = s
    BY <1>2 DEF ReadFirst, r
  <2> QED BY <1>2, <2>1 DEF r
<1>3. CASE ~(s.h.state # "FIRST" \/ s.data = <<>>)
  <2>1. r.h = WithFirst(s.h, Head(s.data)) /\ r.data = Tail(s.data)
    <3>1. r = Stage(WithFirst(s.h, Head(s.data)), Tail(s.data))
      BY <1>3, Zenon DEF ReadFirst, r, WithFirst
    <3> QED BY <3>1, StageIs, Zenon
  <2>2. c = 0 /\ Blank(s.h)
    BY <1>1, <1>3, StateDecides DEF StandsAt, InFirst
  <2>3. /\ HeaderSize(f) \in Nat /\ 0 < HeaderSize(f) /\ Compile(f)[0 + 1] = FirstByte(f) /\ FirstByte(f) \in Byte
    BY CompileIs, FirstByteIs
  <2>4. s.h \in HeaderType /\ s.data \in Seq(V) /\ s.data # <<>> /\ 0 + Len(s.data) = t
        /\ Follows(s.data, Compile(f), HeaderSize(f), 0)
    BY <1>1, <1>3, <2>2 DEF StandsAt
  <2>5. /\ Head(s.data) = FirstByte(f) /\ r.data \in Seq(V) /\ 1 + Len(r.data) = t
        /\ Follows(r.data, Compile(f), HeaderSize(f), 1)
    <3>1. 0 \in Nat /\ 0 + 1 = 1
      OBVIOUS
    <3> QED BY <2>1, <2>3, <2>4, <3>1, HeadDropped
  <2>6. /\ r.h \in HeaderType /\ r.h.state = "SECOND" /\ r.h.first = FirstByte(f)
        /\ r.h.len16 = s.h.len16 /\ r.h.len64 = s.h.len64 /\ r.h.mask = s.h.mask
    <3>1. r.h = WithFirst(s.h, FirstByte(f))
      BY <2>1, <2>5, Zenon
    <3>2. s.h \in HeaderType /\ FirstByte(f) \in Byte
      BY <2>3, <2>4
    <3> QED BY <3>1, <3>2, UpdateFirst
  <2>7. InSecond(r.h, f, 1)
    BY <2>2, <2>6 DEF InSecond, Blank
  <2>8. StandsAt(r, f, V, t, 1)
    BY <2>5, <2>6, <2>7 DEF StandsAt, Holds
  <2>9. r.h.state # "FIRST" /\ 1 \in Nat
    BY <2>6
  <2> QED BY <2>8, <2>9 DEF Stands, r
<1> QED BY <1>2, <1>3 DEF r

LEMMA SecondStage ==
    ASSUME NEW f \in WireFrame, NEW V, NEW s, NEW t, Stands(s, f, V, t), s.h.state = "FIRST" => s.data = <<>>
    PROVE  Stands(ReadSecond(s), f, V, t) /\ (ReadSecond(s).h.state \in {"FIRST", "SECOND"} => ReadSecond(s).data = <<>>)
<1> DEFINE r == ReadSecond(s)
<1> HIDE DEF r
<1>1. PICK c \in Nat : StandsAt(s, f, V, t, c)
  BY DEF Stands
<1>2. CASE s.h.state # "SECOND" \/ s.data = <<>>
  <2>1. r = s
    BY <1>2 DEF ReadSecond, r
  <2> QED BY <1>2, <2>1 DEF r
<1>3. CASE ~(s.h.state # "SECOND" \/ s.data = <<>>)
  <2> DEFINE b == Head(s.data)
             p == b >= 128
             n == b % 128
  <2>1. r.h = WithSecond(s.h, p, n) /\ r.data = Tail(s.data)
    <3>1. r = Stage(WithSecond(s.h, p, n), Tail(s.data))
      BY <1>3, Zenon DEF ReadSecond, r, WithSecond
    <3> HIDE DEF p, n
    <3> QED BY <3>1, StageIs, Zenon
  <2>2. c = 1 /\ Blank(s.h) /\ s.h.first = FirstByte(f)
    BY <1>1, <1>3, StateDecides DEF StandsAt, InSecond
  <2>3. /\ HeaderSize(f) \in Nat /\ 1 < HeaderSize(f) /\ Compile(f)[1 + 1] = SecondByte(f)
    BY CompileIs
  <2>4. s.h \in HeaderType /\ s.data \in Seq(V) /\ s.data # <<>> /\ 1 + Len(s.data) = t
        /\ Follows(s.data, Compile(f), HeaderSize(f), 1)
    BY <1>1, <1>3, <2>2 DEF StandsAt
  <2>5. /\ b = SecondByte(f) /\ r.data \in Seq(V) /\ 2 + Len(r.data) = t
        /\ Follows(r.data, Compile(f), HeaderSize(f), 2)
    <3>1. 1 \in Nat /\ 1 + 1 = 2
      OBVIOUS
    <3> QED BY <2>1, <2>3, <2>4, <3>1, HeadDropped
  <2> HIDE DEF b
  <2>6. (p <=> f.mask # <<>>) /\ n = Slen(f) /\ n \in 0 .. 127 /\ p \in BOOLEAN
    BY <2>5, SecondByteIs, SlenIs
  <2> HIDE DEF p, n
  <2>7. /\ r.h \in HeaderType /\ r.h.state = "LENGTH" /\ r.h.first = s.h.first
        /\ r.h.has_mask = p /\ r.h.slen = n
        /\ r.h.len16 = s.h.len16 /\ r.h.len64 = s.h.len64 /\ r.h.mask = s.h.mask
    <3>1. r.h = WithSecond(s.h, p, n)
      BY <2>1
    <3>2. s.h \in HeaderType /\ IsBoolean(p) /\ n \in 0 .. 127
      BY <2>4, <2>6 DEF IsBoolean
    <3>3. LET g == WithSecond(s.h, p, n) IN
             /\ g \in HeaderType
             /\ g.state = "LENGTH" /\ g.first = s.h.first /\ g.has_mask = p /\ g.slen = n
             /\ g.len16 = s.h.len16 /\ g.len64 = s.h.len64 /\ g.mask = s.h.mask
      BY <3>2 DEF HeaderType, HeaderStates, WithSecond, IsBoolean
    <3> QED BY <3>1, <3>3, Zenon
  <2>8. TwoRead(r.h, f)
    BY <2>2, <2>6, <2>7, Zenon DEF TwoRead
  <2>9. LengthSoFar(r.h, f, 0)
    BY <2>2, <2>7, NothingYet DEF LengthSoFar, Blank
  <2>10. InLength(r.h, f, 2)
    <3>1. 0 \in Nat /\ 2 = 2 + 0
      OBVIOUS
    <3>2. r.h.mask = Zeros(4)
      BY <2>2, <2>7 DEF Blank
    <3> QED BY <2>7, <2>8, <2>9, <3>1, <3>2 DEF InLength
  <2>11. StandsAt(r, f, V, t, 2)
    BY <2>5, <2>7, <2>10 DEF StandsAt, Holds
  <2>12. r.h.state \notin {"FIRST", "SECOND"} /\ 2 \in Nat
    BY <2>7
  <2> QED BY <2>11, <2>12 DEF Stands, r
<1> QED BY <1>2, <1>3 DEF r

\* What follows in the header follows in its length field, and in its mask.
LEMMA LengthFollows ==
    ASSUME NEW f \in WireFrame, NEW V, NEW data \in Seq(V), NEW g \in Nat,
           Follows(data, Compile(f), HeaderSize(f), 2 + g)
    PROVE  Follows(data, Bytes(f.len, f.form), f.form, g)
<1>1. f.form \in {0, 2, 8} /\ Len(f.mask) \in Nat /\ Len(data) \in Nat
  BY WireFrameIs, MaskIs
<1>2. HeaderSize(f) = 2 + f.form + Len(f.mask)
  BY DEF HeaderSize
<1>3. ASSUME NEW i \in 1 .. Len(data), g + i <= f.form PROVE data[i] = Bytes(f.len, f.form)[g + i]
  <2>1. (2 + g) + i <= HeaderSize(f) /\ g + i \in 1 .. f.form /\ (2 + g) + i = 2 + (g + i)
    BY <1>1, <1>2, <1>3, SMTT(20)
  <2>2. data[i] = Compile(f)[(2 + g) + i]
    BY <1>3, <2>1 DEF Follows
  <2>3. Compile(f)[2 + (g + i)] = Bytes(f.len, f.form)[g + i]
    BY <2>1, CompileIs
  <2> QED BY <2>1, <2>2, <2>3
<1> QED BY <1>3 DEF Follows

LEMMA MaskFollows ==
    ASSUME NEW f \in WireFrame, NEW V, NEW data \in Seq(V), NEW g \in Nat,
           Follows(data, Compile(f), HeaderSize(f), 2 + f.form + g)
    PROVE  Follows(data, f.mask, Len(f.mask), g)
<1>1. f.form \in {0, 2, 8} /\ Len(f.mask) \in Nat /\ Len(data) \in Nat
  BY WireFrameIs, MaskIs
<1>2. HeaderSize(f) = 2 + f.form + Len(f.mask)
  BY DEF HeaderSize
<1>3. ASSUME NEW i \in 1 .. Len(data), g + i <= Len(f.mask) PROVE data[i] = f.mask[g + i]
  <2>1. (2 + f.form + g) + i <= HeaderSize(f) /\ g + i \in 1 .. Len(f.mask)
        /\ (2 + f.form + g) + i = 2 + f.form + (g + i)
    BY <1>1, <1>2, <1>3, SMTT(20)
  <2>2. data[i] = Compile(f)[(2 + f.form + g) + i]
    BY <1>3, <2>1 DEF Follows
  <2>3. Compile(f)[2 + f.form + (g + i)] = f.mask[g + i]
    BY <2>1, CompileIs
  <2> QED BY <2>1, <2>2, <2>3
<1> QED BY <1>3 DEF Follows

\* With its length field complete, a header waits for its mask.
LEMMA MaskComesNext ==
    ASSUME NEW f \in WireFrame, NEW V, NEW s, NEW t, NEW c \in Nat, c = 2 + f.form,
           s.h \in HeaderType, s.data \in Seq(V), c + Len(s.data) = t,
           Follows(s.data, Compile(f), HeaderSize(f), c),
           s.h.state = "MASK", TwoRead(s.h, f), s.h.length = f.len, s.h.mask = Zeros(4)
    PROVE  StandsAt(s, f, V, t, c)
<1>1. MaskSoFar(s.h, f, 0)
  <2>1. Partly(f.mask, 4, 0) = Zeros(4) /\ 0 \in 0 .. 4 - 1
    BY NothingYet
  <2> QED BY <2>1 DEF MaskSoFar
<1>2. c = 2 + f.form + 0 /\ 0 \in Nat
  BY WireFrameIs
<1>3. InMask(s.h, f, c)
  BY <1>1, <1>2 DEF InMask
<1> QED BY <1>3 DEF StandsAt, Holds

\* The number is read on from the field of two bytes.
LEMMA ShortLength ==
    ASSUME NEW f \in WireFrame, f.form = 2, NEW V, NEW s, NEW t, NEW c \in Nat, StandsAt(s, f, V, t, c),
           s.h.state = "LENGTH", s.data # <<>>
    PROVE  Stands(ReadLength(s), f, V, t)
           /\ (ReadLength(s).h.state \in {"FIRST", "SECOND", "LENGTH"} => ReadLength(s).data = <<>>)
<1> DEFINE r == ReadLength(s)
           short == Number(s.h.len16, s.data)
           bytes == Bytes(f.len, 2)
<1>1. f.len \in Nat /\ f.len <= MaxShort /\ f.len <= MaxLength
  BY WireFrameIs
<1>2. bytes \in [1 .. 2 -> Byte] /\ BigEndian(bytes) = f.len
  BY <1>1, BytesType, LengthOfTwo
<1>3. s.h \in HeaderType /\ s.data \in Seq(V) /\ c + Len(s.data) = t
      /\ Follows(s.data, Compile(f), HeaderSize(f), c)
  BY DEF StandsAt
<1>4. InLength(s.h, f, c)
  BY StateDecides DEF StandsAt
<1>5. PICK g \in Nat : c = 2 + g /\ LengthSoFar(s.h, f, g)
  BY <1>4 DEF InLength
<1>6. TwoRead(s.h, f) /\ s.h.mask = Zeros(4) /\ s.h.slen = 126
  BY <1>4, SlenIs DEF InLength, TwoRead
<1>7. g \in 0 .. 2 - 1 /\ s.h.len16 = Partly(bytes, 2, g)
  BY <1>5 DEF LengthSoFar
<1>8. Follows(s.data, bytes, 2, g)
  <2>1. Follows(s.data, Compile(f), HeaderSize(f), 2 + g)
    BY <1>3, <1>5
  <2>2. Follows(s.data, Bytes(f.len, f.form), f.form, g)
    BY <1>3, <2>1, LengthFollows
  <2> QED BY <2>2
<1> HIDE DEF bytes
<1>9. short = ReadOn(bytes, 2, g, Len(s.data))
  <2>1. 2 \in Nat \ {0}
    OBVIOUS
  <2>2. Number(Partly(bytes, 2, g), s.data) = ReadOn(bytes, 2, g, Len(s.data))
    BY <1>2, <1>3, <1>7, <1>8, <2>1, NumberGoesOn, Zenon
  <2> QED BY <1>7, <2>2, Zenon
<1> DEFINE st   == IF short.done THEN "MASK" ELSE "LENGTH"
           n    == IF short.done THEN BigEndian(short.num) ELSE s.h.length
           rest == SubSeq(s.data, short.used + 1, Len(s.data))
<1>10. r = Stage(WithLen16(s.h, st, short.num, n), rest)
  <2>1. ~(s.h.slen < 126) /\ s.h.slen = 126
    BY <1>6
  <2> HIDE DEF short
  <2> QED BY <2>1, Zenon DEF ReadLength, WithLen16, short
<1>11. r.h = WithLen16(s.h, st, short.num, n) /\ r.data = rest
  <2> DEFINE h == WithLen16(s.h, st, short.num, n)
  <2>1. r = Stage(h, rest)
    BY <1>10
  <2> HIDE DEF r, h, rest
  <2>2. r.h = h /\ r.data = rest
    BY <2>1, StageIs, Zenon
  <2> QED BY <2>2 DEF h
<1> HIDE DEF r
<1>12. CASE g + Len(s.data) >= 2
  <2>1. short.num = bytes /\ short.used = 2 - g /\ short.done = TRUE
    BY <1>9, <1>12 DEF ReadOn
  <2> HIDE DEF short
  <2>2. r.h = WithLen16(s.h, "MASK", bytes, f.len) /\ r.data = SubSeq(s.data, (2 - g) + 1, Len(s.data))
    BY <1>2, <1>11, <2>1
  <2>3. /\ r.h \in HeaderType /\ r.h.state = "MASK" /\ r.h.length = f.len
        /\ r.h.first = s.h.first /\ r.h.has_mask = s.h.has_mask /\ r.h.slen = s.h.slen /\ r.h.mask = s.h.mask
    <3>1. "MASK" \in HeaderStates
      BY DEF HeaderStates
    <3>2. Len16Set(r.h, s.h, "MASK", bytes, f.len)
      BY <1>1, <1>2, <1>3, <2>2, <3>1, UpdateLen16, Zenon
    <3> QED BY <3>2 DEF Len16Set
  <2>4. 2 - g \in 0 .. Len(s.data) /\ c + (2 - g) = 4
    BY <1>3, <1>5, <1>7, <1>12
  <2>5. /\ r.data \in Seq(V) /\ Len(r.data) = Len(s.data) - (2 - g)
        /\ Follows(r.data, Compile(f), HeaderSize(f), 4)
    <3> DEFINE u == 2 - g
    <3> HIDE DEF u
    <3>1. u \in 0 .. Len(s.data) /\ c + u = 4 /\ r.data = SubSeq(s.data, u + 1, Len(s.data))
      BY <2>2, <2>4 DEF u
    <3>2. r.data \in Seq(V) /\ Len(r.data) = Len(s.data) - u /\ Follows(r.data, Compile(f), HeaderSize(f), c + u)
      BY <1>3, <3>1, Dropped
    <3>3. Follows(r.data, Compile(f), HeaderSize(f), 4)
      BY <3>1, <3>2, Zenon
    <3> QED BY <3>2, <3>3 DEF u
  <2>6. 4 + Len(r.data) = t /\ 4 = 2 + f.form
    <3> DEFINE l == Len(s.data)
               k == Len(r.data)
    <3>1. l \in Nat
      BY <1>3
    <3>2. k = l - (2 - g) /\ c + l = t /\ c = 2 + g
      BY <1>3, <1>5, <2>5, Zenon
    <3> HIDE DEF l, k
    <3>3. 4 + k = t /\ 4 = 2 + f.form
      BY <1>7, <3>1, <3>2
    <3> QED BY <3>3 DEF k
  <2>7. TwoRead(r.h, f) /\ r.h.mask = Zeros(4)
    BY <1>6, <2>3 DEF TwoRead
  <2>8. StandsAt(r, f, V, t, 4)
    BY <2>3, <2>5, <2>6, <2>7, MaskComesNext
  <2> QED BY <2>3, <2>8 DEF Stands, r
<1>13. CASE ~(g + Len(s.data) >= 2)
  <2> DEFINE l == Len(s.data)
  <2>1. short.num = Partly(bytes, 2, g + l) /\ short.used = l /\ short.done = FALSE
    BY <1>9, <1>13 DEF ReadOn
  <2> HIDE DEF short
  <2>2. r.h = WithLen16(s.h, "LENGTH", Partly(bytes, 2, g + l), s.h.length) /\ r.data = SubSeq(s.data, l + 1, l)
    BY <1>11, <2>1
  <2>3. l \in Nat /\ g + l \in 0 .. 2 - 1 /\ l \in 0 .. Len(s.data) /\ c + l = t
    BY <1>3, <1>7, <1>13
  <2> HIDE DEF l
  <2>4. Partly(bytes, 2, g + l) \in [1 .. 2 -> Byte]
    <3>1. 2 \in 1 .. 8
      OBVIOUS
    <3> QED BY <1>2, <2>3, <3>1, PartlyType
  <2>5. /\ r.h \in HeaderType /\ r.h.state = "LENGTH" /\ r.h.len16 = Partly(bytes, 2, g + l)
        /\ r.h.first = s.h.first /\ r.h.has_mask = s.h.has_mask /\ r.h.slen = s.h.slen /\ r.h.mask = s.h.mask
    <3>1. "LENGTH" \in HeaderStates /\ s.h.length \in Nat
      BY <1>3 DEF HeaderStates, HeaderType
    <3>2. Len16Set(r.h, s.h, "LENGTH", Partly(bytes, 2, g + l), s.h.length)
      BY <1>3, <2>2, <2>4, <3>1, UpdateLen16, Zenon
    <3> QED BY <3>2 DEF Len16Set
  <2>6. r.data = <<>> /\ r.data \in Seq(V) /\ Len(r.data) = 0
    BY <1>3, <2>2, <2>3
  <2>7. LengthSoFar(r.h, f, g + l)
    BY <2>3, <2>5 DEF LengthSoFar, bytes
  <2>8. InLength(r.h, f, t)
    <3>1. TwoRead(r.h, f) /\ r.h.mask = Zeros(4)
      BY <1>6, <2>5 DEF TwoRead
    <3>2. g + l \in Nat /\ t = 2 + (g + l)
      BY <1>5, <2>3
    <3> QED BY <2>5, <2>7, <3>1, <3>2 DEF InLength
  <2>9. t \in Nat /\ t + Len(r.data) = t
    BY <2>3, <2>6
  <2>10. Follows(r.data, Compile(f), HeaderSize(f), t)
    BY <2>6 DEF Follows
  <2>11. StandsAt(r, f, V, t, t)
    BY <2>5, <2>6, <2>8, <2>9, <2>10 DEF StandsAt, Holds
  <2> QED BY <2>6, <2>9, <2>11 DEF Stands, r
<1> QED BY <1>12, <1>13
\* The number is read on from the field of eight bytes.
LEMMA LongLength ==
    ASSUME NEW f \in WireFrame, f.form = 8, NEW V, NEW s, NEW t, NEW c \in Nat, StandsAt(s, f, V, t, c),
           s.h.state = "LENGTH", s.data # <<>>
    PROVE  Stands(ReadLength(s), f, V, t)
           /\ (ReadLength(s).h.state \in {"FIRST", "SECOND", "LENGTH"} => ReadLength(s).data = <<>>)
<1> DEFINE r == ReadLength(s)
           long == Number(s.h.len64, s.data)
           bytes == Bytes(f.len, 8)
<1>1. f.len \in Nat /\ f.len <= MaxLength
  BY WireFrameIs
<1>2. bytes \in [1 .. 8 -> Byte] /\ BigEndian(bytes) = f.len
  BY <1>1, BytesType, LengthOfEight
<1>3. s.h \in HeaderType /\ s.data \in Seq(V) /\ c + Len(s.data) = t
      /\ Follows(s.data, Compile(f), HeaderSize(f), c)
  BY DEF StandsAt
<1>4. InLength(s.h, f, c)
  BY StateDecides DEF StandsAt
<1>5. PICK g \in Nat : c = 2 + g /\ LengthSoFar(s.h, f, g)
  BY <1>4 DEF InLength
<1>6. TwoRead(s.h, f) /\ s.h.mask = Zeros(4) /\ s.h.slen = 127
  BY <1>4, SlenIs DEF InLength, TwoRead
<1>7. g \in 0 .. 8 - 1 /\ s.h.len64 = Partly(bytes, 8, g)
  BY <1>5 DEF LengthSoFar
<1>8. Follows(s.data, bytes, 8, g)
  <2>1. Follows(s.data, Compile(f), HeaderSize(f), 2 + g)
    BY <1>3, <1>5
  <2>2. Follows(s.data, Bytes(f.len, f.form), f.form, g)
    BY <1>3, <2>1, LengthFollows
  <2> QED BY <2>2
<1> HIDE DEF bytes
<1>9. long = ReadOn(bytes, 8, g, Len(s.data))
  <2>1. 8 \in Nat \ {0}
    OBVIOUS
  <2>2. Number(Partly(bytes, 8, g), s.data) = ReadOn(bytes, 8, g, Len(s.data))
    BY <1>2, <1>3, <1>7, <1>8, <2>1, NumberGoesOn, Zenon
  <2> QED BY <1>7, <2>2, Zenon
<1> DEFINE st   == IF long.done THEN "MASK" ELSE "LENGTH"
           n    == IF long.done THEN BigEndian(long.num) ELSE s.h.length
           rest == SubSeq(s.data, long.used + 1, Len(s.data))
<1>10. r = Stage(WithLen64(s.h, st, long.num, n), rest)
  <2>1. ~(s.h.slen < 126) /\ s.h.slen # 126
    BY <1>6
  <2> HIDE DEF long
  <2> QED BY <2>1, Zenon DEF ReadLength, WithLen64, long
<1>11. r.h = WithLen64(s.h, st, long.num, n) /\ r.data = rest
  <2> DEFINE h == WithLen64(s.h, st, long.num, n)
  <2>1. r = Stage(h, rest)
    BY <1>10
  <2> HIDE DEF r, h, rest
  <2>2. r.h = h /\ r.data = rest
    BY <2>1, StageIs, ZenonT(30)
  <2> QED BY <2>2 DEF h
<1> HIDE DEF r
<1>12. CASE g + Len(s.data) >= 8
  <2>1. long.num = bytes /\ long.used = 8 - g /\ long.done = TRUE
    BY <1>9, <1>12 DEF ReadOn
  <2> HIDE DEF long
  <2>2. r.h = WithLen64(s.h, "MASK", bytes, f.len) /\ r.data = SubSeq(s.data, (8 - g) + 1, Len(s.data))
    BY <1>2, <1>11, <2>1
  <2>3. /\ r.h \in HeaderType /\ r.h.state = "MASK" /\ r.h.length = f.len
        /\ r.h.first = s.h.first /\ r.h.has_mask = s.h.has_mask /\ r.h.slen = s.h.slen /\ r.h.mask = s.h.mask
    <3>1. "MASK" \in HeaderStates
      BY DEF HeaderStates
    <3>2. Len64Set(r.h, s.h, "MASK", bytes, f.len)
      BY <1>1, <1>2, <1>3, <2>2, <3>1, UpdateLen64, Zenon
    <3> QED BY <3>2 DEF Len64Set
  <2>4. 8 - g \in 0 .. Len(s.data) /\ c + (8 - g) = 10
    BY <1>3, <1>5, <1>7, <1>12
  <2>5. /\ r.data \in Seq(V) /\ Len(r.data) = Len(s.data) - (8 - g)
        /\ Follows(r.data, Compile(f), HeaderSize(f), 10)
    <3> DEFINE u == 8 - g
    <3> HIDE DEF u
    <3>1. u \in 0 .. Len(s.data) /\ c + u = 10 /\ r.data = SubSeq(s.data, u + 1, Len(s.data))
      BY <2>2, <2>4 DEF u
    <3>2. r.data \in Seq(V) /\ Len(r.data) = Len(s.data) - u /\ Follows(r.data, Compile(f), HeaderSize(f), c + u)
      BY <1>3, <3>1, Dropped
    <3>3. Follows(r.data, Compile(f), HeaderSize(f), 10)
      BY <3>1, <3>2, Zenon
    <3> QED BY <3>2, <3>3 DEF u
  <2>6. 10 + Len(r.data) = t /\ 10 = 2 + f.form
    <3> DEFINE l == Len(s.data)
               k == Len(r.data)
    <3>1. l \in Nat
      BY <1>3
    <3>2. k = l - (8 - g) /\ c + l = t /\ c = 2 + g
      BY <1>3, <1>5, <2>5, Zenon
    <3> HIDE DEF l, k
    <3>3. 10 + k = t /\ 10 = 2 + f.form
      BY <1>7, <3>1, <3>2
    <3> QED BY <3>3 DEF k
  <2>7. TwoRead(r.h, f) /\ r.h.mask = Zeros(4)
    BY <1>6, <2>3 DEF TwoRead
  <2>8. StandsAt(r, f, V, t, 10)
    BY <2>3, <2>5, <2>6, <2>7, MaskComesNext
  <2> QED BY <2>3, <2>8 DEF Stands, r
<1>13. CASE ~(g + Len(s.data) >= 8)
  <2> DEFINE l == Len(s.data)
  <2>1. long.num = Partly(bytes, 8, g + l) /\ long.used = l /\ long.done = FALSE
    BY <1>9, <1>13 DEF ReadOn
  <2> HIDE DEF long
  <2>2. r.h = WithLen64(s.h, "LENGTH", Partly(bytes, 8, g + l), s.h.length) /\ r.data = SubSeq(s.data, l + 1, l)
    BY <1>11, <2>1
  <2>3. l \in Nat /\ g + l \in 0 .. 8 - 1 /\ l \in 0 .. Len(s.data) /\ c + l = t
    BY <1>3, <1>7, <1>13, SMTT(20)
  <2> HIDE DEF l
  <2>4. Partly(bytes, 8, g + l) \in [1 .. 8 -> Byte]
    <3>1. 8 \in 1 .. 8
      OBVIOUS
    <3> QED BY <1>2, <2>3, <3>1, PartlyType
  <2>5. /\ r.h \in HeaderType /\ r.h.state = "LENGTH" /\ r.h.len64 = Partly(bytes, 8, g + l)
        /\ r.h.first = s.h.first /\ r.h.has_mask = s.h.has_mask /\ r.h.slen = s.h.slen /\ r.h.mask = s.h.mask
    <3>1. "LENGTH" \in HeaderStates /\ s.h.length \in Nat
      BY <1>3 DEF HeaderStates, HeaderType
    <3>2. Len64Set(r.h, s.h, "LENGTH", Partly(bytes, 8, g + l), s.h.length)
      BY <1>3, <2>2, <2>4, <3>1, UpdateLen64, Zenon
    <3> QED BY <3>2 DEF Len64Set
  <2>6. r.data = <<>> /\ r.data \in Seq(V) /\ Len(r.data) = 0
    BY <1>3, <2>2, <2>3
  <2>7. LengthSoFar(r.h, f, g + l)
    BY <2>3, <2>5 DEF LengthSoFar, bytes
  <2>8. InLength(r.h, f, t)
    <3>1. TwoRead(r.h, f) /\ r.h.mask = Zeros(4)
      BY <1>6, <2>5 DEF TwoRead
    <3>2. g + l \in Nat /\ t = 2 + (g + l)
      BY <1>5, <2>3
    <3> QED BY <2>5, <2>7, <3>1, <3>2 DEF InLength
  <2>9. t \in Nat /\ t + Len(r.data) = t
    BY <2>3, <2>6
  <2>10. Follows(r.data, Compile(f), HeaderSize(f), t)
    BY <2>6 DEF Follows
  <2>11. StandsAt(r, f, V, t, t)
    BY <2>5, <2>6, <2>8, <2>9, <2>10 DEF StandsAt, Holds
  <2> QED BY <2>6, <2>9, <2>11 DEF Stands, r
<1> QED BY <1>12, <1>13

\* A header only waits for a field it has.
Waits(h, f) == (h.state = "LENGTH" => f.form # 0) /\ (h.state = "MASK" => f.mask # <<>>)

LEMMA LengthStage ==
    ASSUME NEW f \in WireFrame, NEW V, NEW s, NEW t, Stands(s, f, V, t),
           s.h.state \in {"FIRST", "SECOND"} => s.data = <<>>
    PROVE  Stands(ReadLength(s), f, V, t)
           /\ (ReadLength(s).h.state \in {"FIRST", "SECOND", "LENGTH"} => ReadLength(s).data = <<>>)
           /\ (ReadLength(s).h.state = "LENGTH" => f.form # 0)
<1> DEFINE r == ReadLength(s)
<1> HIDE DEF r
<1>1. PICK c \in Nat : StandsAt(s, f, V, t, c)
  BY DEF Stands
<1>2. CASE s.h.state # "LENGTH"
  <2>1. r = s
    BY <1>2 DEF ReadLength, r
  <2> QED BY <1>2, <2>1 DEF r
<1>3. CASE s.h.state = "LENGTH" /\ f.form = 0
  <2>1. InLength(s.h, f, c)
    BY <1>1, <1>3, StateDecides DEF StandsAt
  <2>2. s.h \in HeaderType /\ s.data \in Seq(V) /\ c + Len(s.data) = t
        /\ Follows(s.data, Compile(f), HeaderSize(f), c)
    BY <1>1 DEF StandsAt
  <2>3. s.h.slen = f.len /\ s.h.slen < 126
    BY <1>3, <2>1, SlenIs DEF InLength, TwoRead
  <2>4. TwoRead(s.h, f) /\ s.h.mask = Zeros(4)
    BY <2>1 DEF InLength
  <2>5. c = 2 + f.form
    <3>1. PICK g \in Nat : c = 2 + g /\ LengthSoFar(s.h, f, g)
      BY <2>1 DEF InLength
    <3> QED BY <1>3, <3>1 DEF LengthSoFar
  <2> DEFINE h == WithLength(s.h, f.len)
  <2>6. r = Stage(h, s.data)
    <3>1. r = Stage(WithLength(s.h, s.h.slen), s.data)
      BY <1>3, <2>3, Zenon DEF ReadLength, WithLength, r
    <3> QED BY <2>3, <3>1, Zenon
  <2> HIDE DEF h
  <2>7. r.h = h /\ r.data = s.data
    BY <2>6, StageIs, Zenon
  <2>8. /\ r.h \in HeaderType
        /\ r.h.state = "MASK" /\ r.h.length = f.len /\ r.h.first = s.h.first /\ r.h.has_mask = s.h.has_mask
        /\ r.h.slen = s.h.slen /\ r.h.mask = s.h.mask
    <3>1. s.h \in HeaderType /\ f.len \in Nat
      BY <2>2, WireFrameIs
    <3>2. /\ h \in HeaderType
          /\ h.state = "MASK" /\ h.length = f.len /\ h.first = s.h.first /\ h.has_mask = s.h.has_mask
          /\ h.slen = s.h.slen /\ h.mask = s.h.mask
      BY <3>1, UpdateLength DEF h
    <3> QED BY <2>7, <3>2, Zenon
  <2>9. TwoRead(r.h, f) /\ r.h.mask = Zeros(4)
    BY <2>4, <2>8 DEF TwoRead
  <2>10. StandsAt(r, f, V, t, c)
    <3>1. r.data \in Seq(V) /\ c + Len(r.data) = t /\ Follows(r.data, Compile(f), HeaderSize(f), c)
      BY <2>2, <2>7, Zenon
    <3> QED BY <2>5, <2>8, <2>9, <3>1, MaskComesNext, Zenon
  <2>11. r.h.state \notin {"FIRST", "SECOND", "LENGTH"}
    BY <2>8
  <2> QED BY <2>10, <2>11 DEF Stands, r
<1>4. CASE s.h.state = "LENGTH" /\ f.form # 0 /\ s.data = <<>>
  <2>1. InLength(s.h, f, c)
    BY <1>1, <1>4, StateDecides DEF StandsAt
  <2>2. f.form \in {2, 8}
    BY <1>4, WireFrameIs
  <2>3. ~(s.h.slen < 126)
    BY <2>1, <2>2, SlenIs DEF InLength, TwoRead
  <2>4. r = s
    BY <1>4, <2>3, Zenon DEF ReadLength, r
  <2> QED BY <1>4, <2>4 DEF r
<1>5. CASE s.h.state = "LENGTH" /\ f.form = 2 /\ s.data # <<>>
  <2>1. Stands(r, f, V, t) /\ (r.h.state \in {"FIRST", "SECOND", "LENGTH"} => r.data = <<>>)
    BY <1>1, <1>5, ShortLength, Zenon DEF r
  <2> QED BY <1>5, <2>1 DEF r
<1>6. CASE s.h.state = "LENGTH" /\ f.form = 8 /\ s.data # <<>>
  <2>1. Stands(r, f, V, t) /\ (r.h.state \in {"FIRST", "SECOND", "LENGTH"} => r.data = <<>>)
    BY <1>1, <1>6, LongLength, Zenon DEF r
  <2> QED BY <1>6, <2>1 DEF r
<1>7. f.form \in {0, 2, 8}
  BY WireFrameIs
<1> QED BY <1>2, <1>3, <1>4, <1>5, <1>6, <1>7

\* A header is complete with the last byte of its mask.
LEMMA HeaderComplete ==
    ASSUME NEW f \in WireFrame, NEW V, NEW s, NEW t, NEW c \in Nat, c = HeaderSize(f),
           s.h \in HeaderType, s.data \in Seq(V), c + Len(s.data) = t,
           Follows(s.data, Compile(f), HeaderSize(f), c),
           s.h.state = "DONE", TwoRead(s.h, f), s.h.length = f.len, f.mask # <<>> => s.h.mask = f.mask
    PROVE  StandsAt(s, f, V, t, c)
BY DEF StandsAt, Holds, InDone

\* The mask is read on.
LEMMA MaskRead ==
    ASSUME NEW f \in WireFrame, f.mask # <<>>, NEW V, NEW s, NEW t, NEW c \in Nat, StandsAt(s, f, V, t, c),
           s.h.state = "MASK", s.data # <<>>
    PROVE  Stands(ReadMask(s), f, V, t) /\ (ReadMask(s).h.state # "DONE" => ReadMask(s).data = <<>>)
           /\ ReadMask(s).h.state \in {"MASK", "DONE"}
<1> DEFINE r == ReadMask(s)
           read == Number(s.h.mask, s.data)
           bytes == f.mask
<1>1. bytes \in [1 .. 4 -> Byte] /\ Len(bytes) = 4
  BY MaskIs
<1>2. s.h \in HeaderType /\ s.data \in Seq(V) /\ c + Len(s.data) = t
      /\ Follows(s.data, Compile(f), HeaderSize(f), c)
  BY DEF StandsAt
<1>3. InMask(s.h, f, c)
  BY StateDecides DEF StandsAt
<1>4. PICK g \in Nat : c = 2 + f.form + g /\ MaskSoFar(s.h, f, g)
  BY <1>3 DEF InMask
<1>5. TwoRead(s.h, f) /\ s.h.length = f.len /\ s.h.has_mask
  BY <1>3 DEF InMask, TwoRead
<1>6. g \in 0 .. 4 - 1 /\ s.h.mask = Partly(bytes, 4, g)
  BY <1>4 DEF MaskSoFar
<1>7. Follows(s.data, bytes, 4, g)
  <2>1. Follows(s.data, Compile(f), HeaderSize(f), 2 + f.form + g)
    BY <1>2, <1>4
  <2>2. Follows(s.data, f.mask, Len(f.mask), g)
    BY <1>2, <2>1, MaskFollows
  <2> QED BY <1>1, <2>2
<1>8. HeaderSize(f) = 2 + f.form + 4 /\ f.form \in Nat
  BY <1>1, WireFrameIs DEF HeaderSize
<1>9. Len(s.data) \in Nat
  BY <1>2
<1>10. read = ReadOn(bytes, 4, g, Len(s.data))
  <2> HIDE DEF bytes
  <2>1. 4 \in Nat \ {0}
    OBVIOUS
  <2>2. Number(Partly(bytes, 4, g), s.data) = ReadOn(bytes, 4, g, Len(s.data))
    BY <1>1, <1>2, <1>6, <1>7, <2>1, NumberGoesOn, Zenon
  <2> QED BY <1>6, <2>2, Zenon
<1> DEFINE st   == IF read.done THEN "DONE" ELSE "MASK"
           rest == SubSeq(s.data, read.used + 1, Len(s.data))
           h    == WithMask(s.h, st, read.num)
<1>11. r = Stage(h, rest)
  <2> HIDE DEF read
  <2> QED BY <1>5, Zenon DEF ReadMask, WithMask, read
<1>12. r.h = WithMask(s.h, st, read.num) /\ r.data = rest
  <2> HIDE DEF r, h, rest
  <2>1. r.h = h /\ r.data = rest
    BY <1>11, StageIs, Zenon
  <2> QED BY <2>1 DEF h
<1> HIDE DEF r, bytes, h
<1>13. CASE g + Len(s.data) >= 4
  <2>1. read.num = bytes /\ read.used = 4 - g /\ read.done = TRUE
    BY <1>10, <1>13 DEF ReadOn
  <2> HIDE DEF read
  <2>2. r.h = WithMask(s.h, "DONE", bytes) /\ r.data = SubSeq(s.data, (4 - g) + 1, Len(s.data))
    BY <1>12, <2>1
  <2>3. /\ r.h \in HeaderType /\ r.h.state = "DONE" /\ r.h.mask = bytes
        /\ r.h.first = s.h.first /\ r.h.has_mask = s.h.has_mask /\ r.h.slen = s.h.slen /\ r.h.length = s.h.length
    <3>1. "DONE" \in HeaderStates
      BY DEF HeaderStates
    <3>2. MaskSet(r.h, s.h, "DONE", bytes)
      BY <1>1, <1>2, <2>2, <3>1, UpdateMask, Zenon
    <3> QED BY <3>2 DEF MaskSet
  <2> DEFINE u == 4 - g
             e == HeaderSize(f)
  <2> HIDE DEF u, e
  <2>4. u \in 0 .. Len(s.data) /\ c + u = e
    BY <1>4, <1>6, <1>8, <1>9, <1>13 DEF u, e
  <2>5. r.data = SubSeq(s.data, u + 1, Len(s.data))
    BY <2>2 DEF u
  <2>6. r.data \in Seq(V) /\ Len(r.data) = Len(s.data) - u /\ Follows(r.data, Compile(f), HeaderSize(f), c + u)
    BY <1>2, <2>4, <2>5, Dropped
  <2>7. e \in Nat /\ e + Len(r.data) = t
    <3> DEFINE l == Len(s.data)
               k == Len(r.data)
    <3>1. k = l - u /\ c + l = t /\ l \in Nat
      BY <1>2, <1>9, <2>6, Zenon
    <3> HIDE DEF l, k
    <3>2. e + k = t /\ e \in Nat
      BY <2>4, <3>1 DEF l
    <3> QED BY <3>2 DEF k
  <2>8. TwoRead(r.h, f) /\ r.h.length = f.len /\ r.h.mask = f.mask
    BY <1>5, <2>3 DEF TwoRead, bytes
  <2>9. Follows(r.data, Compile(f), HeaderSize(f), e)
    BY <2>4, <2>6, Zenon
  <2>10. StandsAt(r, f, V, t, e)
    <3>1. e = HeaderSize(f)
      BY DEF e
    <3> QED BY <2>3, <2>6, <2>7, <2>8, <2>9, <3>1, HeaderComplete, Zenon
  <2> QED BY <2>3, <2>7, <2>10 DEF Stands, r
<1>14. CASE ~(g + Len(s.data) >= 4)
  <2> DEFINE l == Len(s.data)
  <2>1. read.num = Partly(bytes, 4, g + l) /\ read.used = l /\ read.done = FALSE
    BY <1>10, <1>14 DEF ReadOn
  <2> HIDE DEF read
  <2>2. r.h = WithMask(s.h, "MASK", Partly(bytes, 4, g + l)) /\ r.data = SubSeq(s.data, l + 1, l)
    BY <1>12, <2>1
  <2>3. l \in Nat /\ g + l \in 0 .. 4 - 1 /\ l \in 0 .. Len(s.data) /\ c + l = t
    <3>1. l \in Nat /\ g + l \in 0 .. 4 - 1 /\ l \in 0 .. l
      BY <1>6, <1>9, <1>14
    <3> QED BY <1>2, <3>1, Zenon
  <2> HIDE DEF l
  <2>4. Partly(bytes, 4, g + l) \in [1 .. 4 -> Byte]
    <3>1. 4 \in 1 .. 8
      OBVIOUS
    <3> QED BY <1>1, <2>3, <3>1, PartlyType
  <2>5. /\ r.h \in HeaderType /\ r.h.state = "MASK" /\ r.h.mask = Partly(bytes, 4, g + l)
        /\ r.h.first = s.h.first /\ r.h.has_mask = s.h.has_mask /\ r.h.slen = s.h.slen /\ r.h.length = s.h.length
    <3>1. "MASK" \in HeaderStates
      BY DEF HeaderStates
    <3>2. MaskSet(r.h, s.h, "MASK", Partly(bytes, 4, g + l))
      BY <1>2, <2>2, <2>4, <3>1, UpdateMask, Zenon
    <3> QED BY <3>2 DEF MaskSet
  <2>6. r.data = <<>> /\ r.data \in Seq(V) /\ Len(r.data) = 0
    BY <1>2, <2>2, <2>3
  <2>7. MaskSoFar(r.h, f, g + l)
    BY <2>3, <2>5 DEF MaskSoFar, bytes
  <2>8. InMask(r.h, f, t)
    <3>1. TwoRead(r.h, f) /\ r.h.length = f.len
      BY <1>5, <2>5 DEF TwoRead
    <3>2. g + l \in Nat /\ t = 2 + f.form + (g + l)
      <4>1. \A a, b, d \in Nat : b + d \in Nat /\ (2 + a + b) + d = 2 + a + (b + d)
        OBVIOUS
      <4>2. l \in Nat /\ c + l = t /\ c = 2 + f.form + g /\ g \in Nat /\ f.form \in Nat
        BY <1>4, <1>8, <2>3, Zenon
      <4>3. g + l \in Nat /\ (2 + f.form + g) + l = 2 + f.form + (g + l)
        BY <4>2, SMT
      <4>4. c + l = (2 + f.form + g) + l
        BY <4>2, Zenon
      <4> QED BY <4>2, <4>3, <4>4, Zenon
    <3> QED BY <2>5, <2>7, <3>1, <3>2 DEF InMask
  <2>9. t \in Nat /\ t + Len(r.data) = t
    BY <2>3, <2>6
  <2>10. Follows(r.data, Compile(f), HeaderSize(f), t)
    BY <2>6 DEF Follows
  <2>11. StandsAt(r, f, V, t, t)
    BY <2>5, <2>6, <2>8, <2>9, <2>10 DEF StandsAt, Holds
  <2> QED BY <2>5, <2>6, <2>9, <2>11 DEF Stands, r
<1> QED BY <1>13, <1>14

LEMMA MaskStage ==
    ASSUME NEW f \in WireFrame, NEW V, NEW s, NEW t, Stands(s, f, V, t),
           s.h.state \in {"FIRST", "SECOND", "LENGTH"} => s.data = <<>>,
           s.h.state = "LENGTH" => f.form # 0
    PROVE  Stands(ReadMask(s), f, V, t) /\ (ReadMask(s).h.state # "DONE" => ReadMask(s).data = <<>>)
           /\ Waits(ReadMask(s).h, f)
<1> DEFINE r == ReadMask(s)
<1> HIDE DEF r
<1>1. PICK c \in Nat : StandsAt(s, f, V, t, c)
  BY DEF Stands
<1>2. s.h \in HeaderType
  BY <1>1 DEF StandsAt
<1>3. CASE s.h.state # "MASK"
  <2>1. r = s
    BY <1>3 DEF ReadMask, r
  <2>2. s.h.state # "DONE" => s.h.state \in {"FIRST", "SECOND", "LENGTH"}
    BY <1>2, <1>3 DEF HeaderType, HeaderStates
  <2> QED BY <1>3, <2>1, <2>2 DEF r, Waits
<1>4. CASE s.h.state = "MASK" /\ f.mask = <<>>
  <2>1. InMask(s.h, f, c)
    BY <1>1, <1>4, StateDecides DEF StandsAt
  <2>2. TwoRead(s.h, f) /\ s.h.length = f.len /\ ~s.h.has_mask
    BY <1>4, <2>1 DEF InMask, TwoRead
  <2>3. c = HeaderSize(f)
    <3>1. PICK g \in Nat : c = 2 + f.form + g /\ MaskSoFar(s.h, f, g)
      BY <2>1 DEF InMask
    <3>2. g = 0 /\ Len(f.mask) = 0
      BY <1>4, <3>1 DEF MaskSoFar
    <3> QED BY <3>1, <3>2 DEF HeaderSize
  <2>4. s.data \in Seq(V) /\ c + Len(s.data) = t /\ Follows(s.data, Compile(f), HeaderSize(f), c)
    BY <1>1 DEF StandsAt
  <2> DEFINE h == WithDone(s.h)
  <2>5. r = Stage(h, s.data)
    BY <1>4, <2>2, Zenon DEF ReadMask, WithDone, r
  <2>6. /\ h \in HeaderType
        /\ h.state = "DONE" /\ h.length = s.h.length /\ h.first = s.h.first /\ h.has_mask = s.h.has_mask
        /\ h.slen = s.h.slen /\ h.mask = s.h.mask
    BY <1>2, UpdateDone
  <2> HIDE DEF h
  <2>7. r.h = h /\ r.data = s.data
    BY <2>5, StageIs, Zenon
  <2>8. TwoRead(h, f) /\ h.length = f.len
    BY <2>2, <2>6 DEF TwoRead
  <2>9. StandsAt(r, f, V, t, c)
    BY <1>4, <2>3, <2>4, <2>6, <2>7, <2>8, HeaderComplete, Zenon
  <2> QED BY <2>6, <2>7, <2>9 DEF Stands, r, Waits
<1>5. CASE s.h.state = "MASK" /\ f.mask # <<>> /\ s.data = <<>>
  <2>1. TwoRead(s.h, f)
    BY <1>1, <1>5, StateDecides DEF StandsAt, InMask
  <2>2. s.h.has_mask
    BY <1>5, <2>1 DEF TwoRead
  <2>3. r = s
    BY <1>5, <2>2, Zenon DEF ReadMask, r
  <2> QED BY <1>5, <2>3 DEF r, Waits
<1>6. CASE s.h.state = "MASK" /\ f.mask # <<>> /\ s.data # <<>>
  <2>1. Stands(r, f, V, t) /\ (r.h.state # "DONE" => r.data = <<>>) /\ r.h.state \in {"MASK", "DONE"}
    BY <1>1, <1>6, MaskRead, Zenon DEF r
  <2> QED BY <1>6, <2>1 DEF r, Waits
<1> QED BY <1>3, <1>4, <1>5, <1>6

\* However a header is cut, reading on from what is held of it holds what is there now: all
\* that was given is used, or the header is complete.
LEMMA HeaderRead ==
    ASSUME NEW f \in WireFrame, NEW V, NEW h, NEW data, NEW t, Stands(Stage(h, data), f, V, t),
           NEW s \in ReadHeader(h, data)
    PROVE  Stands(s, f, V, t) /\ (s.h.state # "DONE" => s.data = <<>>) /\ Waits(s.h, f)
<1>1. s = ReadMask(ReadLength(ReadSecond(ReadFirst(Stage(h, data)))))
  BY DEF ReadHeader
<1> DEFINE a == ReadFirst(Stage(h, data))
           b == ReadSecond(a)
           c == ReadLength(b)
<1>2. Stands(a, f, V, t) /\ (a.h.state = "FIRST" => a.data = <<>>)
  BY FirstStage, Zenon
<1> HIDE DEF a
<1>3. Stands(b, f, V, t) /\ (b.h.state \in {"FIRST", "SECOND"} => b.data = <<>>)
  BY <1>2, SecondStage, Zenon
<1> HIDE DEF b
<1>4. Stands(c, f, V, t) /\ (c.h.state \in {"FIRST", "SECOND", "LENGTH"} => c.data = <<>>)
      /\ (c.h.state = "LENGTH" => f.form # 0)
  BY <1>3, LengthStage, Zenon
<1> HIDE DEF c
<1>5. Stands(ReadMask(c), f, V, t) /\ (ReadMask(c).h.state # "DONE" => ReadMask(c).data = <<>>)
      /\ Waits(ReadMask(c).h, f)
  BY <1>4, MaskStage, Zenon
<1>6. s = ReadMask(c)
  BY <1>1 DEF a, b, c
<1> QED BY <1>5, <1>6, Zenon

\* Such a header has not reached its end.
LEMMA HeaderShort ==
    ASSUME NEW f \in WireFrame, NEW h, NEW c \in Nat, Holds(h, f, c), Waits(h, f), h.state # "DONE"
    PROVE  c < HeaderSize(f)
<1>1. HeaderSize(f) = 2 + f.form + Len(f.mask) /\ f.form \in {0, 2, 8} /\ Len(f.mask) \in {0, 4}
  BY WireFrameIs, MaskIs DEF HeaderSize
<1>2. CASE InFirst(h, c)
  BY <1>1, <1>2 DEF InFirst
<1>3. CASE InSecond(h, f, c)
  BY <1>1, <1>3 DEF InSecond
<1>4. CASE InLength(h, f, c)
  <2>1. PICK g \in Nat : c = 2 + g /\ LengthSoFar(h, f, g)
    BY <1>4 DEF InLength
  <2>2. f.form # 0
    BY <1>4 DEF InLength, Waits
  <2>3. f.form = 2 => g <= 1
    BY <2>1 DEF LengthSoFar
  <2>4. f.form = 8 => g <= 7
    BY <2>1 DEF LengthSoFar
  <2> QED BY <1>1, <2>1, <2>2, <2>3, <2>4
<1>5. CASE InMask(h, f, c)
  <2>1. PICK g \in Nat : c = 2 + f.form + g /\ MaskSoFar(h, f, g)
    BY <1>5 DEF InMask
  <2>2. f.mask # <<>> /\ Len(f.mask) = 4
    BY <1>5, MaskIs DEF InMask, Waits
  <2>3. g <= 3
    BY <2>1, <2>2 DEF MaskSoFar
  <2> QED BY <1>1, <2>1, <2>2, <2>3
<1> QED BY <1>2, <1>3, <1>4, <1>5 DEF Holds, InDone

-------------------------------------------------------------------------------
(* The stream. *)

\* A frame as it lies on the wire.
Wire(w) ==
    /\ w.f \in WireFrame /\ w.start \in Nat /\ w.bytes = Compile(w.f)
    /\ w.end = w.start + HeaderSize(w.f) + w.f.len

\* Each frame starts where the one before it ends.
StreamShape(st) ==
    /\ Len(st) \in Nat \ {0} /\ DOMAIN st = 1 .. Len(st)
    /\ \A k \in DOMAIN st : Wire(st[k])
    /\ st[1].start = 0
    /\ \A k \in 1 .. Len(st) - 1 : st[k + 1].start = st[k].end

\* The ends of the frames, by the recursion of Laid.
EndsAre(frames, f) ==
    f = [k \in 0 .. Len(frames) |-> IF k = 0 THEN 0 ELSE f[k - 1] + Len(Compile(frames[k])) + frames[k].len]

\* There are such ends, one after the other.
LEMMA EndsExist ==
    ASSUME NEW frames \in Streams
    PROVE  \E f : /\ EndsAre(frames, f) /\ f \in [0 .. Len(frames) -> Nat] /\ f[0] = 0
                 /\ \A k \in 1 .. Len(frames) : f[k] = f[k - 1] + HeaderSize(frames[k]) + frames[k].len
<1> DEFINE n == Len(frames)
           next == [a \in (1 .. n) \X Nat |-> a[2] + Len(Compile(frames[a[1]])) + frames[a[1]].len]
<1>1. n \in Nat \ {0} /\ \A k \in 1 .. n : frames[k] \in WireFrame
  BY StreamsAssumption
<1> HIDE DEF n
<1>2. ASSUME NEW k \in 1 .. n
      PROVE  Len(Compile(frames[k])) = HeaderSize(frames[k]) /\ HeaderSize(frames[k]) \in Nat /\ frames[k].len \in Nat
  <2>1. frames[k] \in WireFrame
    BY <1>1
  <2> QED BY <2>1, CompileIs, WireFrameIs
<1>3. \A k \in 1 .. n, v \in Nat : next[<<k, v>>] = v + Len(Compile(frames[k])) + frames[k].len
  OBVIOUS
<1>4. next \in [(1 .. n) \X Nat -> Nat]
  <2>1. ASSUME NEW a \in (1 .. n) \X Nat PROVE a[2] + Len(Compile(frames[a[1]])) + frames[a[1]].len \in Nat
    <3>1. a[1] \in 1 .. n /\ a[2] \in Nat
      OBVIOUS
    <3>2. Len(Compile(frames[a[1]])) \in Nat /\ frames[a[1]].len \in Nat
      BY <1>2, <3>1, Zenon
    <3> QED BY <3>1, <3>2
  <2> QED BY <2>1
<1> HIDE DEF next
<1>5. PICK f : Recursive(f, Nat, 0, n, next)
  BY <1>1, <1>4, RecursionDefines
<1>6. f \in [0 .. n -> Nat] /\ f[0] = 0
  BY <1>5 DEF Recursive
<1>7. ASSUME NEW k \in 1 .. n PROVE f[k] = f[k - 1] + Len(Compile(frames[k])) + frames[k].len
  <2>1. f[k] = next[<<k, f[k - 1]>>]
    BY <1>5, Zenon DEF Recursive
  <2>2. k - 1 \in 0 .. n
    BY <1>1
  <2>3. f[k - 1] \in Nat
    BY <1>6, <2>2
  <2> QED BY <1>3, <2>1, <2>3, Zenon
<1>8. EndsAre(frames, f)
  BY <1>6, <1>7 DEF EndsAre, n
<1>9. \A k \in 1 .. n : f[k] = f[k - 1] + HeaderSize(frames[k]) + frames[k].len
  BY <1>2, <1>7, Zenon
<1> QED BY <1>6, <1>8, <1>9 DEF n

\* A stream is laid out as it is sent.
LEMMA LaidShape ==
    ASSUME NEW frames \in Streams
    PROVE  StreamShape(Laid(frames))
<1> DEFINE n == Len(frames)
           e == CHOOSE f : EndsAre(frames, f)
           st == [k \in 1 .. n |->
                    [f |-> frames[k], start |-> e[k - 1], bytes |-> Compile(frames[k]), end |-> e[k]]]
<1>1. n \in Nat \ {0} /\ \A k \in 1 .. n : frames[k] \in WireFrame
  BY StreamsAssumption
<1>2. PICK f : /\ EndsAre(frames, f) /\ f \in [0 .. n -> Nat] /\ f[0] = 0
               /\ \A k \in 1 .. n : f[k] = f[k - 1] + HeaderSize(frames[k]) + frames[k].len
  BY EndsExist
<1>3. EndsAre(frames, e)
  BY <1>2, Zenon
<1>4. Laid(frames) = st
  BY Zenon DEF Laid, EndsAre
<1> HIDE DEF e
<1>5. \A k \in 0 .. n : e[k] = f[k]
  <2> HIDE DEF n
  <2>1. e[0] = 0 /\ \A k \in 1 .. n : e[k] = e[k - 1] + Len(Compile(frames[k])) + frames[k].len
    BY <1>1, <1>3 DEF EndsAre, n
  <2>2. \A k \in 1 .. n : f[k] = f[k - 1] + Len(Compile(frames[k])) + frames[k].len
    BY <1>1, <1>2 DEF EndsAre, n
  <2>3. InStep(e, f, n)
    BY <1>2, <2>1, <2>2 DEF InStep
  <2> QED BY <1>1, <2>3, RecursionUnique
<1> HIDE DEF n
<1>6. Len(st) = n /\ DOMAIN st = 1 .. n
  BY <1>1
<1>7. \A k \in 1 .. n : /\ st[k].f = frames[k] /\ st[k].start = e[k - 1] /\ st[k].bytes = Compile(frames[k])
                        /\ st[k].end = e[k]
  OBVIOUS
<1> HIDE DEF st
<1>8. ASSUME NEW k \in 1 .. n PROVE Wire(st[k])
  <2>1. k - 1 \in 0 .. n /\ k \in 0 .. n
    BY <1>1
  <2>2. e[k - 1] = f[k - 1] /\ e[k] = f[k] /\ f[k - 1] \in Nat
    BY <1>2, <1>5, <2>1
  <2>3. f[k] = f[k - 1] + HeaderSize(frames[k]) + frames[k].len
    BY <1>2
  <2>4. frames[k] \in WireFrame
    BY <1>1
  <2>5. st[k].end = st[k].start + HeaderSize(st[k].f) + st[k].f.len
    BY <1>7, <2>2, <2>3, Zenon
  <2> QED BY <1>7, <2>2, <2>4, <2>5 DEF Wire
<1>9. st[1].start = 0
  <2>1. 1 \in 1 .. n /\ 1 - 1 = 0 /\ 0 \in 0 .. n
    BY <1>1
  <2> QED BY <1>2, <1>5, <1>7, <2>1
<1>10. ASSUME NEW k \in 1 .. n - 1 PROVE st[k + 1].start = st[k].end
  <2>1. k \in 1 .. n /\ k + 1 \in 1 .. n /\ (k + 1) - 1 = k
    BY <1>1
  <2> QED BY <1>7, <2>1
<1>11. StreamShape(st)
  BY <1>1, <1>6, <1>8, <1>9, <1>10 DEF StreamShape
<1> QED BY <1>4, <1>11

\* A frame ends after it starts, and before any later one starts.
LEMMA WireIs ==
    ASSUME NEW st, StreamShape(st), NEW k \in DOMAIN st
    PROVE  /\ st[k].f \in WireFrame /\ st[k].start \in Nat /\ st[k].end \in Nat /\ st[k].f.len \in Nat
           /\ HeaderSize(st[k].f) \in 2 .. 14 /\ st[k].bytes = Compile(st[k].f)
           /\ Len(st[k].bytes) = HeaderSize(st[k].f)
           /\ st[k].end = st[k].start + HeaderSize(st[k].f) + st[k].f.len
           /\ st[k].start < st[k].end
<1>1. Wire(st[k])
  BY DEF StreamShape
<1>2. st[k].f \in WireFrame /\ st[k].start \in Nat /\ st[k].bytes = Compile(st[k].f)
      /\ st[k].end = st[k].start + HeaderSize(st[k].f) + st[k].f.len
  BY <1>1 DEF Wire
<1>3. HeaderSize(st[k].f) \in 2 .. 14 /\ Len(st[k].bytes) = HeaderSize(st[k].f) /\ st[k].f.len \in Nat
  BY <1>2, CompileIs, WireFrameIs
<1> DEFINE a == st[k].start
           b == HeaderSize(st[k].f)
           c == st[k].f.len
           d == st[k].end
<1>4. a \in Nat /\ b \in 2 .. 14 /\ c \in Nat /\ d = a + b + c
  BY <1>2, <1>3
<1> HIDE DEF a, b, c, d
<1>5. d \in Nat /\ a < d
  BY <1>4
<1> QED BY <1>2, <1>3, <1>5 DEF a, d

LEMMA InOrder ==
    ASSUME NEW st, StreamShape(st), NEW i \in DOMAIN st, NEW k \in DOMAIN st, i < k
    PROVE  st[i].end <= st[k].start /\ st[i].end <= st[k].end
<1> DEFINE n == Len(st)
           S == {d \in Nat : i + 1 + d \in 1 .. n => st[i].end <= st[i + 1 + d].start}
<1>1. n \in Nat /\ DOMAIN st = 1 .. n /\ \A j \in 1 .. n - 1 : st[j + 1].start = st[j].end
  BY DEF StreamShape
<1>2. \A j \in 1 .. n : st[j].start \in Nat /\ st[j].end \in Nat /\ st[j].start < st[j].end
  BY <1>1, WireIs
<1> HIDE DEF n
<1>3. i \in 1 .. n /\ k \in 1 .. n
  BY <1>1
<1>4. 0 \in S
  <2>1. ASSUME i + 1 + 0 \in 1 .. n PROVE st[i].end <= st[i + 1 + 0].start
    <3>1. i \in 1 .. n - 1 /\ i + 1 + 0 = i + 1
      BY <1>1, <1>3, <2>1
    <3>2. st[i + 1].start = st[i].end /\ st[i].end \in Nat
      BY <1>1, <1>2, <1>3, <3>1
    <3> QED BY <3>1, <3>2
  <2> QED BY <2>1
<1>5. ASSUME NEW d \in Nat, d \in S PROVE d + 1 \in S
  <2> DEFINE j == i + 1 + d
  <2>1. ASSUME i + 1 + (d + 1) \in 1 .. n PROVE st[i].end <= st[i + 1 + (d + 1)].start
    <3>1. j \in 1 .. n /\ j \in 1 .. n - 1 /\ i + 1 + (d + 1) = j + 1
      BY <1>1, <1>3, <2>1
    <3>2. st[i].end <= st[j].start
      BY <1>5, <3>1
    <3> HIDE DEF j
    <3>3. st[j].start < st[j].end /\ st[j + 1].start = st[j].end
      BY <1>1, <1>2, <3>1
    <3>4. st[i].end \in Nat /\ st[j].start \in Nat /\ st[j].end \in Nat
      BY <1>2, <1>3, <3>1
    <3>5. st[i].end <= st[j + 1].start
      BY <3>2, <3>3, <3>4
    <3> QED BY <3>1, <3>5
  <2> QED BY <2>1
<1> HIDE DEF S
<1>6. Nat \subseteq S
  BY <1>4, <1>5, SetInduction
<1>7. k - i - 1 \in Nat /\ i + 1 + (k - i - 1) = k
  BY <1>3
<1>8. st[i].end <= st[k].start
  <2>1. k - i - 1 \in S
    BY <1>6, <1>7
  <2> QED BY <1>3, <1>7, <2>1 DEF S
<1>9. st[i].end \in Nat /\ st[k].start \in Nat /\ st[k].end \in Nat /\ st[k].start < st[k].end
  BY <1>2, <1>3
<1> QED BY <1>8, <1>9

\* The last frame ends last.
LEMMA LastIs ==
    ASSUME NEW st, StreamShape(st)
    PROVE  /\ Last(st).end \in Nat
           /\ \A k \in DOMAIN st : st[k].end <= Last(st).end
<1> DEFINE n == Len(st)
<1>1. n \in Nat \ {0} /\ DOMAIN st = 1 .. n
  BY DEF StreamShape
<1>2. n \in DOMAIN st
  BY <1>1
<1>3. Last(st) = st[n]
  BY DEF Last
<1>4. st[n].end \in Nat
  BY <1>2, WireIs
<1> HIDE DEF n
<1>5. ASSUME NEW k \in DOMAIN st PROVE st[k].end <= st[n].end
  <2>1. CASE k = n
    BY <1>4, <2>1
  <2>2. CASE k < n
    BY <1>2, <2>2, InOrder
  <2> QED BY <1>1, <2>1, <2>2
<1> QED BY <1>3, <1>4, <1>5

\* A byte of the buffer is a byte of the frame it lies in.
LEMMA ByteAtIs ==
    ASSUME StreamShape(stream), NEW k \in DOMAIN stream, NEW p \in Nat, stream[k].start <= p, p < stream[k].end
    PROVE  ByteAt(p) = IF p - stream[k].start < Len(stream[k].bytes)
                       THEN stream[k].bytes[p - stream[k].start + 1] ELSE 0
<1> DEFINE In(x) == x.start <= p /\ p < x.end
           w == CHOOSE x \in Range(stream) : In(x)
<1>1. stream[k] \in Range(stream) /\ In(stream[k])
  BY DEF Range
<1>2. w \in Range(stream) /\ In(w)
  BY <1>1, Zenon
<1>3. PICK i \in DOMAIN stream : w = stream[i]
  BY <1>2 DEF Range
<1>4. stream[i].start <= p /\ p < stream[i].end
  BY <1>2, <1>3
<1>5. /\ stream[i].start \in Nat /\ stream[i].end \in Nat
      /\ stream[k].start \in Nat /\ stream[k].end \in Nat
  BY WireIs
<1>6. i = k
  <2>1. CASE i < k
    <3>1. stream[i].end <= stream[k].start
      BY <2>1, InOrder
    <3> QED BY <1>4, <1>5, <3>1
  <2>2. CASE k < i
    <3>1. stream[k].end <= stream[i].start
      BY <2>2, InOrder
    <3> QED BY <1>4, <1>5, <3>1
  <2>3. i \in Nat /\ k \in Nat
    BY DEF StreamShape
  <2> QED BY <2>1, <2>2, <2>3
<1>7. w = stream[k]
  BY <1>3, <1>6
<1>8. ByteAt(p) = IF p - w.start < Len(w.bytes) THEN w.bytes[p - w.start + 1] ELSE 0
  BY DEF ByteAt
<1> HIDE DEF w
<1> QED BY <1>7, <1>8

\* Any byte the buffer may hold.
Anything == {ByteAt(p) : p \in Nat}

\* What is looked at goes on where the header was left.
LEMMA PeekIs ==
    ASSUME StreamShape(stream), NEW k \in DOMAIN stream, at \in Nat, arrived \in Nat, at <= arrived,
           stream[k].start <= at
    PROVE  /\ Peek \in Seq(Anything)
           /\ Len(Peek) = IF arrived - at < MAX_SIZE_HEADER THEN arrived - at ELSE MAX_SIZE_HEADER
           /\ Follows(Peek, Compile(stream[k].f), HeaderSize(stream[k].f), at - stream[k].start)
<1> DEFINE m == IF arrived - at < MAX_SIZE_HEADER THEN arrived - at ELSE MAX_SIZE_HEADER
           a == stream[k].start
           l == HeaderSize(stream[k].f)
           bytes == Compile(stream[k].f)
<1>1. m \in Nat
  BY DEF MAX_SIZE_HEADER
<1>2. Peek = [i \in 1 .. m |-> ByteAt(at + i - 1)]
  BY DEF Peek
<1>3. a \in Nat /\ l \in Nat /\ stream[k].end = a + l + stream[k].f.len /\ stream[k].f.len \in Nat
      /\ stream[k].bytes = bytes /\ Len(bytes) = l
  BY WireIs
<1> HIDE DEF m
<1>4. Peek \in [1 .. m -> Anything]
  <2>1. \A i \in 1 .. m : at + i - 1 \in Nat
    BY <1>1
  <2> QED BY <1>2, <2>1 DEF Anything
<1>5. Peek \in Seq(Anything) /\ Len(Peek) = m
  BY <1>1, <1>4, ArraysAreSequences, Zenon
<1>6. ASSUME NEW i \in 1 .. m, (at - a) + i <= l PROVE Peek[i] = bytes[(at - a) + i]
  <2> DEFINE p == at + i - 1
             e == stream[k].end
             r == stream[k].f.len
  <2>1. e = a + l + r /\ a \in Nat /\ l \in Nat /\ r \in Nat
    BY <1>3
  <2> HIDE DEF a, l, e, r
  <2>2. a <= at
    BY DEF a
  <2>3. p \in Nat /\ a <= p /\ p < e /\ p - a < l /\ p - a + 1 = (at - a) + i
    BY <1>1, <1>6, <2>1, <2>2
  <2> HIDE DEF p
  <2>4. ByteAt(p) = IF p - a < Len(stream[k].bytes) THEN stream[k].bytes[p - a + 1] ELSE 0
    BY <2>3, ByteAtIs, Zenon DEF a, e
  <2>5. ByteAt(p) = bytes[(at - a) + i]
    BY <1>3, <2>3, <2>4, Zenon DEF l
  <2>6. Peek[i] = ByteAt(p)
    BY <1>2 DEF p
  <2> QED BY <2>5, <2>6
<1>7. Follows(Peek, bytes, l, at - a)
  BY <1>5, <1>6 DEF Follows
<1> QED BY <1>5, <1>7 DEF m

\* The bytes are cut within the stream.
LEMMA CutsWithin ==
    ASSUME StreamShape(stream), NEW p \in CutPoints
    PROVE  p \in Nat /\ p <= Last(stream).end
<1>1. PICK w \in Range(stream) :
         p \in (w.start .. (w.start + Len(w.bytes)))
                \cup {(w.start + Len(w.bytes)) + n : n \in {m \in PayloadCuts : m < w.f.len}} \cup {w.end}
  BY DEF CutPoints
<1>2. PICK k \in DOMAIN stream : w = stream[k]
  BY DEF Range
<1> DEFINE a == w.start
           l == Len(w.bytes)
           r == w.f.len
           e == w.end
           z == Last(stream).end
<1>3. a \in Nat /\ l \in Nat /\ r \in Nat /\ e = a + l + r
  BY <1>2, WireIs
<1>4. e <= z /\ z \in Nat
  BY <1>2, LastIs
<1>5. p \in a .. (a + l) \/ (\E n \in PayloadCuts : n < r /\ p = (a + l) + n) \/ p = e
  BY <1>1, Zenon
<1> HIDE DEF a, l, r, e, z
<1>6. p \in Nat /\ p <= z
  BY <1>3, <1>4, <1>5, CutsAssumption
<1> QED BY <1>6 DEF z

-------------------------------------------------------------------------------
(* The inductive invariant. *)

Piece  == [from: Nat, len: Nat, received: Nat]
Parsed == [header: HeaderType, pieces: Seq(Piece)]

Typed ==
    /\ arrived \in 0 .. Last(stream).end /\ at \in 0 .. arrived
    /\ header \in HeaderType
    /\ frame \in [state: {"HEADER", "PAYLOAD"}, left: Nat, pieces: Seq(Piece)]
    /\ frame.left <= header.length
    /\ parsed \in Seq(Parsed) /\ Len(parsed) <= Len(stream)
    /\ frame.state = "HEADER" => frame = FreshFrame

\* The pieces cover the first m bytes of a payload, each unmasked from where it starts.
Covers(pieces, m) ==
    /\ \A j \in DOMAIN pieces :
          /\ pieces[j].from = IF j = 1 THEN 0 ELSE pieces[j - 1].from + pieces[j - 1].len
          /\ pieces[j].received = pieces[j].from
    /\ m = IF pieces = <<>> THEN 0 ELSE pieces[Len(pieces)].from + pieces[Len(pieces)].len

SentFields(f) == [op |-> f.op, fin |-> f.fin, rsv1 |-> f.rsv1, masked |-> f.mask # <<>>, len |-> f.len]

\* Where the parser stands in a frame it has not finished.
InHeader(w) ==
    /\ w.start <= at /\ Holds(header, w.f, at - w.start)
    /\ header.state # "DONE" /\ Waits(header, w.f)
InPayload(w) ==
    /\ InDone(header, w.f, HeaderSize(w.f))
    /\ frame.left > 0 /\ at + frame.left = w.end
    /\ Covers(frame.pieces, w.f.len - frame.left)
    /\ HeaderError(SentFields(w.f), MaskRequired, MaxFrameSize) = NoError

Standing ==
    failed = NoError =>
        IF Len(parsed) = Len(stream)
        THEN at = Last(stream).end /\ frame.state = "HEADER" /\ InFirst(header, 0)
        ELSE IF frame.state = "HEADER" THEN InHeader(stream[Len(parsed) + 1])
                                       ELSE InPayload(stream[Len(parsed) + 1])

Refused ==
    failed # NoError =>
        /\ Len(parsed) < Len(stream) /\ frame.state = "HEADER"
        /\ failed = HeaderError(SentFields(stream[Len(parsed) + 1].f), MaskRequired, MaxFrameSize)

ParsedRight ==
    \A k \in DOMAIN parsed :
        SameHeader(stream[k].f, parsed[k].header) /\ Covers(parsed[k].pieces, stream[k].f.len)

FInv == StreamShape(stream) /\ Typed /\ Standing /\ Refused /\ ParsedRight

\* What a complete header says is what the sender wrote.
LEMMA FieldsAre ==
    ASSUME NEW f \in WireFrame, NEW h \in HeaderType, NEW c, InDone(h, f, c)
    PROVE  /\ Fields(h) = SentFields(f) /\ h.length = f.len
           /\ f.mask # <<>> => h.mask = f.mask
<1>1. h.first = FirstByte(f) /\ (h.has_mask <=> f.mask # <<>>) /\ h.length = f.len
      /\ (f.mask # <<>> => h.mask = f.mask)
  BY DEF InDone, TwoRead
<1>2. h.has_mask \in BOOLEAN /\ f.fin \in BOOLEAN /\ f.rsv1 \in BOOLEAN
  BY WireFrameIs DEF HeaderType
<1> DEFINE b == FirstByte(f)
           op == b % 16
           fin == b >= 128
           rsv1 == (b \div 64) % 2 = 1
           masked == f.mask # <<>>
<1>3. op = f.op /\ (fin <=> f.fin) /\ (rsv1 <=> f.rsv1)
  BY FirstByteIs
<1>4. Fields(h) = [op |-> op, fin |-> fin, rsv1 |-> rsv1, masked |-> h.has_mask, len |-> h.length]
  BY <1>1, Zenon DEF Fields
<1>5. SentFields(f) = [op |-> f.op, fin |-> f.fin, rsv1 |-> f.rsv1, masked |-> masked, len |-> f.len]
  BY Zenon DEF SentFields
<1>6. fin \in BOOLEAN /\ rsv1 \in BOOLEAN /\ masked \in BOOLEAN
  OBVIOUS
<1>7. masked <=> h.has_mask
  BY <1>1
<1> HIDE DEF op, fin, rsv1, masked
<1>8. fin = f.fin /\ rsv1 = f.rsv1 /\ masked = h.has_mask
  BY <1>2, <1>3, <1>6, <1>7, Zenon
<1> QED BY <1>1, <1>3, <1>4, <1>5, <1>8, Zenon

\* What a call of parse finds in the frame w.
FindsHeader(r, w) ==
    /\ frame.state = "HEADER"
    /\ w.start <= arrived /\ Holds(r.h, w.f, arrived - w.start) /\ Waits(r.h, w.f)
FindsPayload(r, w) ==
    /\ InDone(r.h, w.f, HeaderSize(w.f))
    /\ r.left \in Nat /\ r.available \in Nat /\ r.used \in Nat
    /\ at + r.used + r.left = w.end /\ at + r.used + r.available = arrived
    /\ r.left <= w.f.len /\ Covers(frame.pieces, w.f.len - r.left)
    /\ r.error = HeaderError(SentFields(w.f), MaskRequired, MaxFrameSize)
    /\ r.error # NoError => frame.state = "HEADER"
Finds(r, w) ==
    /\ r.h \in HeaderType
    /\ r.h.state # "DONE" => FindsHeader(r, w)
    /\ r.h.state = "DONE" => FindsPayload(r, w)

LEMMA ReadingIs ==
    ASSUME NEW s, NEW peek
    PROVE  LET r == Reading(s, peek)
               used == Len(peek) - Len(s.data)
           IN  /\ r.h = s.h /\ r.used = used /\ r.available = arrived - at - used
               /\ r.left = IF frame.state = "HEADER" THEN s.h.length ELSE frame.left
               /\ r.error = IF frame.state = "HEADER"
                            THEN HeaderError(Fields(s.h), MaskRequired, MaxFrameSize) ELSE NoError
BY Zenon DEF Reading

LEMMA NoPieces == Covers(<<>>, 0)
BY DEF Covers

\* In a header.
LEMMA HeaderFound ==
    ASSUME StreamShape(stream), Typed, NEW k \in DOMAIN stream, frame.state = "HEADER", InHeader(stream[k]),
           NEW s \in ReadHeader(header, Peek)
    PROVE  Finds(Reading(s, Peek), stream[k])
<1> DEFINE w == stream[k]
           f == w.f
           c == at - w.start
           l == Len(Peek)
           m == Len(s.data)
           r == Reading(s, Peek)
<1>1. at \in Nat /\ arrived \in Nat /\ at <= arrived /\ header \in HeaderType /\ frame = FreshFrame
  BY LastIs DEF Typed
<1>2. w.start <= at /\ Holds(header, f, c) /\ header.state # "DONE" /\ Waits(header, f)
  BY DEF InHeader
<1>3. f \in WireFrame /\ w.start \in Nat /\ w.end = w.start + HeaderSize(f) + f.len /\ f.len \in Nat
      /\ HeaderSize(f) \in 2 .. 14
  BY WireIs
<1>4. c \in Nat
  BY <1>1, <1>2, <1>3
<1>5. Peek \in Seq(Anything) /\ l = (IF arrived - at < MAX_SIZE_HEADER THEN arrived - at ELSE MAX_SIZE_HEADER)
      /\ Follows(Peek, Compile(f), HeaderSize(f), c)
  BY <1>1, <1>2, PeekIs
<1>6. c < HeaderSize(f)
  BY <1>2, <1>3, <1>4, HeaderShort
<1>7. Stands(Stage(header, Peek), f, Anything, c + l)
  <2>1. Stage(header, Peek).h = header /\ Stage(header, Peek).data = Peek
    BY StageIs
  <2> HIDE DEF c, f
  <2>2. StandsAt(Stage(header, Peek), f, Anything, c + l, c)
    BY <1>1, <1>2, <1>5, <2>1, Zenon DEF StandsAt
  <2> QED BY <1>4, <2>2, Zenon DEF Stands
<1>8. Stands(s, f, Anything, c + l) /\ (s.h.state # "DONE" => s.data = <<>>) /\ Waits(s.h, f)
  <2> HIDE DEF c, f, l
  <2> QED BY <1>3, <1>7, HeaderRead, Zenon
<1>9. PICK d \in Nat : StandsAt(s, f, Anything, c + l, d)
  BY <1>8, Zenon DEF Stands
<1>10. s.h \in HeaderType /\ d + m = c + l /\ Holds(s.h, f, d) /\ m \in Nat
  <2>1. s.data \in Seq(Anything)
    BY <1>9, Zenon DEF StandsAt
  <2>2. m \in Nat
    BY <2>1
  <2> QED BY <1>9, <2>2, Zenon DEF StandsAt
<1>11. r.h = s.h /\ r.used = l - m /\ r.available = arrived - at - (l - m) /\ r.left = s.h.length
       /\ r.error = HeaderError(Fields(s.h), MaskRequired, MaxFrameSize)
  BY ReadingIs, Zenon
<1>12. w.start + c = at
  BY <1>1, <1>3
<1>13. l \in Nat /\ l <= arrived - at /\ (l < 14 => l = arrived - at)
  BY <1>1, <1>5 DEF MAX_SIZE_HEADER
<1> HIDE DEF w, f, c, l, m, r
<1>14. CASE s.h.state # "DONE"
  <2>1. m = 0
    BY <1>8, <1>14, EmptyLength DEF m
  <2>2. d < HeaderSize(f)
    BY <1>3, <1>8, <1>10, <1>14, HeaderShort
  <2>3. d = c + l /\ l < 14
    BY <1>3, <1>4, <1>10, <1>13, <2>1, <2>2
  <2>4. w.start <= arrived /\ d = arrived - w.start
    BY <1>1, <1>3, <1>4, <1>12, <1>13, <2>3
  <2>5. FindsHeader(r, w)
    BY <1>8, <1>10, <1>11, <2>4, Zenon DEF FindsHeader, f
  <2> QED BY <1>10, <1>11, <1>14, <2>5, Zenon DEF Finds, r, w
<1>15. CASE s.h.state = "DONE"
  <2>1. InDone(s.h, f, d) /\ d = HeaderSize(f)
    BY <1>10, <1>15, StateDecides DEF InDone
  <2>2. Fields(s.h) = SentFields(f) /\ s.h.length = f.len
    BY <1>3, <1>10, <2>1, FieldsAre
  <2> DEFINE u == l - m
  <2>3. u \in Nat /\ c + u = d /\ u <= l
    BY <1>3, <1>4, <1>6, <1>10, <1>13, <2>1
  <2> HIDE DEF u
  <2> DEFINE a == w.start
             e == w.end
             n == f.len
             z == HeaderSize(f)
  <2>4. a \in Nat /\ e = a + z + n /\ n \in Nat /\ z \in Nat /\ d = z /\ a + c = at
    BY <1>3, <1>12, <2>1
  <2> HIDE DEF a, e, n, z
  <2>5. at + u + n = e
    BY <1>1, <1>4, <2>3, <2>4
  <2>6. arrived - at - u \in Nat /\ at + u + (arrived - at - u) = arrived
    BY <1>1, <1>13, <2>3
  <2>7. r.left = n /\ r.used = u /\ r.available = arrived - at - u
    BY <1>11, <2>2 DEF u, n
  <2>8. Covers(frame.pieces, w.f.len - r.left)
    <3>1. n - n = 0
      BY <2>4
    <3>2. frame.pieces = <<>>
      BY <1>1 DEF FreshFrame
    <3> QED BY <2>7, <3>1, <3>2, NoPieces DEF n, f
  <2>9. FindsPayload(r, w)
    <3>1. r.left \in Nat /\ r.available \in Nat /\ r.used \in Nat /\ at + r.used + r.left = w.end
          /\ at + r.used + r.available = arrived
      BY <2>3, <2>4, <2>5, <2>6, <2>7, Zenon DEF e
    <3>2. r.left <= w.f.len
      BY <2>4, <2>7 DEF n, f
    <3>3. InDone(r.h, w.f, HeaderSize(w.f))
      BY <1>11, <2>1, Zenon DEF f
    <3>4. r.error = HeaderError(SentFields(w.f), MaskRequired, MaxFrameSize)
      BY <1>11, <2>2, Zenon DEF f
    <3> QED BY <2>8, <3>1, <3>2, <3>3, <3>4, Zenon DEF FindsPayload
  <2> QED BY <1>10, <1>11, <1>15, <2>9, Zenon DEF Finds, r, w
<1> QED BY <1>14, <1>15

\* In a payload.
LEMMA PayloadFound ==
    ASSUME StreamShape(stream), Typed, NEW k \in DOMAIN stream, frame.state # "HEADER", InPayload(stream[k])
    PROVE  Finds(Reading(Stage(header, Peek), Peek), stream[k])
<1> DEFINE w == stream[k]
           f == w.f
           s == Stage(header, Peek)
           r == Reading(s, Peek)
           l == Len(Peek)
<1>1. at \in Nat /\ arrived \in Nat /\ at <= arrived /\ header \in HeaderType
      /\ frame.left \in Nat /\ frame.left <= header.length
  BY LastIs DEF Typed
<1>2. InDone(header, f, HeaderSize(f)) /\ at + frame.left = w.end /\ Covers(frame.pieces, f.len - frame.left)
      /\ HeaderError(SentFields(f), MaskRequired, MaxFrameSize) = NoError
  BY DEF InPayload
<1>3. header.state = "DONE" /\ header.length = f.len
  BY <1>2 DEF InDone
<1>4. f \in WireFrame /\ w.start \in Nat /\ w.end = w.start + HeaderSize(f) + f.len /\ f.len \in Nat
      /\ HeaderSize(f) \in 2 .. 14
  BY WireIs
<1>5. w.start <= at
  <2> DEFINE a == w.start
             n == f.len
             z == HeaderSize(f)
             left == frame.left
  <2>1. a \in Nat /\ n \in Nat /\ z \in Nat /\ left \in Nat /\ left <= n /\ at + left = a + z + n
    BY <1>1, <1>2, <1>3, <1>4
  <2> HIDE DEF a, n, z, left
  <2> QED BY <1>1, <2>1 DEF a
<1>6. Peek \in Seq(Anything)
  BY <1>1, <1>5, PeekIs
<1>7. l \in Nat /\ l - l = 0
  BY <1>6
<1>8. s.h = header /\ s.data = Peek
  BY StageIs
<1> HIDE DEF s
<1>9. r.h = s.h /\ r.used = l - Len(s.data) /\ r.available = arrived - at - (l - Len(s.data))
      /\ r.left = frame.left /\ r.error = NoError
  BY ReadingIs, Zenon
<1> HIDE DEF w, f, r, l
<1>10. r.h = header /\ r.used = 0 /\ r.available = arrived - at - 0 /\ r.left = frame.left
  BY <1>7, <1>8, <1>9, Zenon DEF l
<1>11. r.left \in Nat /\ r.available \in Nat /\ r.used \in Nat /\ at + r.used + r.available = arrived
       /\ at + r.used = at
  BY <1>1, <1>10
<1>12. FindsPayload(r, w)
  <2>1. r.left <= w.f.len
    BY <1>1, <1>3, <1>10, Zenon DEF f
  <2>2. at + r.used + r.left = w.end
    BY <1>2, <1>10, <1>11, Zenon
  <2> QED BY <1>2, <1>9, <1>10, <1>11, <2>1, <2>2, Zenon DEF FindsPayload, f
<1> QED BY <1>1, <1>3, <1>10, <1>12, Zenon DEF Finds, r, w, s

-------------------------------------------------------------------------------
(* The invariant is inductive: one lemma for each of the steps. *)

\* The pieces go on where they were.
LEMMA PiecesGoOn ==
    ASSUME NEW ps \in Seq(Piece), NEW m \in Nat, NEW n \in Nat, Covers(ps, m)
    PROVE  LET qs == Append(ps, [from |-> m, len |-> n, received |-> m]) IN
           qs \in Seq(Piece) /\ Covers(qs, m + n)
<1> DEFINE p == [from |-> m, len |-> n, received |-> m]
           qs == Append(ps, p)
           l == Len(ps)
<1>1. p \in Piece /\ p.from = m /\ p.len = n /\ p.received = m
  BY DEF Piece
<1> HIDE DEF p
<1>2. l \in Nat /\ DOMAIN ps = 1 .. l /\ (ps = <<>> <=> l = 0)
  OBVIOUS
<1>3. qs \in Seq(Piece) /\ Len(qs) = l + 1 /\ DOMAIN qs = 1 .. l + 1 /\ qs[l + 1] = p
      /\ \A j \in 1 .. l : qs[j] = ps[j]
  BY <1>1
<1> HIDE DEF qs
<1>4. /\ \A j \in 1 .. l : ps[j].from = (IF j = 1 THEN 0 ELSE ps[j - 1].from + ps[j - 1].len)
                           /\ ps[j].received = ps[j].from
      /\ m = IF ps = <<>> THEN 0 ELSE ps[l].from + ps[l].len
  BY <1>2 DEF Covers
<1> HIDE DEF l
<1>5. ASSUME NEW j \in 1 .. l + 1
      PROVE  qs[j].from = (IF j = 1 THEN 0 ELSE qs[j - 1].from + qs[j - 1].len) /\ qs[j].received = qs[j].from
  <2>1. CASE j <= l
    <3>1. j \in 1 .. l /\ (j # 1 => j - 1 \in 1 .. l)
      BY <1>2, <2>1
    <3>2. qs[j] = ps[j] /\ (j # 1 => qs[j - 1] = ps[j - 1])
      BY <1>3, <3>1
    <3> QED BY <1>4, <3>1, <3>2
  <2>2. CASE j = l + 1
    <3>1. qs[j].from = m /\ qs[j].received = m
      BY <1>1, <1>3, <2>2
    <3>2. CASE l = 0
      BY <1>2, <1>4, <2>2, <3>1, <3>2
    <3>3. CASE l # 0
      <4>1. j # 1 /\ j - 1 = l /\ l \in 1 .. l
        BY <1>2, <2>2, <3>3
      <4>2. qs[j - 1] = ps[l]
        BY <1>3, <4>1
      <4>3. m = ps[l].from + ps[l].len
        BY <1>2, <1>4, <3>3
      <4> QED BY <3>1, <4>1, <4>2, <4>3
    <3> QED BY <3>2, <3>3
  <2> QED BY <1>2, <2>1, <2>2
<1>6. m + n = IF qs = <<>> THEN 0 ELSE qs[Len(qs)].from + qs[Len(qs)].len
  <2>1. qs # <<>>
    BY <1>2, <1>3
  <2>2. qs[Len(qs)] = p
    BY <1>3
  <2> QED BY <1>1, <2>1, <2>2
<1>7. Covers(qs, m + n)
  BY <1>3, <1>5, <1>6 DEF Covers
<1> QED BY <1>3, <1>7 DEF qs, p

LEMMA PiecesAre ==
    ASSUME NEW r, NEW n \in Nat, NEW m \in Nat, r.h.length - r.left = m, frame.pieces \in Seq(Piece),
           Covers(frame.pieces, m)
    PROVE  Pieces(r, n) \in Seq(Piece) /\ Covers(Pieces(r, n), m + n)
<1>1. CASE n = 0
  <2>1. Pieces(r, n) = frame.pieces /\ m + n = m
    BY <1>1 DEF Pieces
  <2> QED BY <2>1
<1>2. CASE n # 0
  <2>1. Pieces(r, n) = Append(frame.pieces, [from |-> m, len |-> n, received |-> m])
    BY <1>2 DEF Pieces
  <2> QED BY <2>1, PiecesGoOn
<1> QED BY <1>1, <1>2

\* The frame that is being read.
LEMMA CurrentIs ==
    ASSUME FInv, failed = NoError, at < arrived
    PROVE  /\ Len(parsed) \in Nat /\ Len(parsed) < Len(stream) /\ Len(parsed) + 1 \in DOMAIN stream
           /\ frame.state = "HEADER" => InHeader(stream[Len(parsed) + 1])
           /\ frame.state # "HEADER" => InPayload(stream[Len(parsed) + 1])
<1>1. Typed /\ Standing /\ StreamShape(stream)
  BY DEF FInv
<1>2. Len(parsed) \in Nat /\ Len(stream) \in Nat /\ Len(parsed) <= Len(stream) /\ DOMAIN stream = 1 .. Len(stream)
  <2>1. parsed \in Seq(Parsed) /\ Len(parsed) <= Len(stream)
    BY <1>1 DEF Typed
  <2>2. Len(parsed) \in Nat
    BY <2>1
  <2> QED BY <1>1, <2>1, <2>2, Zenon DEF StreamShape
<1>3. Len(parsed) # Len(stream)
  <2>1. ASSUME at = Last(stream).end PROVE FALSE
    BY <1>1, <2>1, LastIs DEF Typed
  <2> QED BY <1>1, <2>1, Zenon DEF Standing
<1>4. Len(parsed) < Len(stream) /\ Len(parsed) + 1 \in 1 .. Len(stream)
  BY <1>2, <1>3
<1> QED BY <1>1, <1>2, <1>3, <1>4, Zenon DEF Standing

LEMMA CallFinds ==
    ASSUME FInv, failed = NoError, at < arrived, NEW s,
           s \in IF frame.state = "HEADER" THEN ReadHeader(header, Peek) ELSE {Stage(header, Peek)}
    PROVE  Finds(Reading(s, Peek), stream[Len(parsed) + 1])
<1> DEFINE k == Len(parsed) + 1
<1>1. StreamShape(stream) /\ Typed
  BY DEF FInv
<1>2. k \in DOMAIN stream /\ (frame.state = "HEADER" => InHeader(stream[k]))
      /\ (frame.state # "HEADER" => InPayload(stream[k]))
  BY CurrentIs
<1> HIDE DEF k
<1>3. CASE frame.state = "HEADER"
  <2>1. s \in ReadHeader(header, Peek)
    BY <1>3
  <2> QED BY <1>1, <1>2, <1>3, <2>1, HeaderFound, Zenon DEF k
<1>4. CASE frame.state # "HEADER"
  <2>1. s = Stage(header, Peek)
    BY <1>4
  <2> QED BY <1>1, <1>2, <1>4, <2>1, PayloadFound, Zenon DEF k
<1> QED BY <1>3, <1>4

\* What most steps leave alone.
LEMMA HistoryKept ==
    ASSUME FInv, UNCHANGED <<stream, parsed>>
    PROVE  StreamShape(stream)' /\ ParsedRight'
BY Zenon DEF FInv, ParsedRight

LEMMA HeaderGoesOnKeeps ==
    ASSUME FInv, failed = NoError, at < arrived, NEW r, Finds(r, stream[Len(parsed) + 1]), HeaderGoesOn(r)
    PROVE  FInv'
<1> DEFINE w == stream[Len(parsed) + 1]
<1>1. Typed
  BY DEF FInv
<1>2. r.h.state # "DONE" /\ header' = r.h /\ at' = arrived /\ UNCHANGED <<stream, arrived, frame, parsed, failed>>
  BY DEF HeaderGoesOn
<1>3. Len(parsed) < Len(stream) /\ Len(parsed) \in Nat
  BY CurrentIs
<1>4. r.h \in HeaderType /\ FindsHeader(r, w)
  BY <1>2 DEF Finds
<1> HIDE DEF w
<1>5. frame.state = "HEADER" /\ w.start <= arrived /\ Holds(r.h, w.f, arrived - w.start) /\ Waits(r.h, w.f)
  BY <1>4 DEF FindsHeader
<1>6. Typed'
  <2>1. frame.left = 0 /\ r.h.length \in Nat
    BY <1>1, <1>4, <1>5 DEF Typed, FreshFrame, HeaderType
  <2>2. arrived \in 0 .. Last(stream).end /\ arrived \in 0 .. arrived
    BY <1>1, LastIs DEF Typed, FInv
  <2>3. frame.left <= r.h.length
    BY <2>1
  <2> QED BY <1>1, <1>2, <1>4, <2>2, <2>3, Zenon DEF Typed
<1>7. InHeader(w)'
  <2>1. w' = w
    BY <1>2 DEF w
  <2> QED BY <1>2, <1>5, <2>1, Zenon DEF InHeader
<1>8. Standing'
  <2>1. Len(parsed)' # Len(stream)'
    BY <1>2, <1>3
  <2>2. frame'.state = "HEADER"
    BY <1>2, <1>5
  <2> QED BY <1>7, <2>1, <2>2, Zenon DEF Standing, w
<1>9. Refused'
  BY <1>2 DEF Refused
<1> QED BY <1>2, <1>6, <1>8, <1>9, HistoryKept, Zenon DEF FInv

LEMMA RefuseKeeps ==
    ASSUME FInv, failed = NoError, at < arrived, NEW r, Finds(r, stream[Len(parsed) + 1]), Refuse(r)
    PROVE  FInv'
<1> DEFINE w == stream[Len(parsed) + 1]
<1>1. Typed
  BY DEF FInv
<1>2. r.h.state = "DONE" /\ r.error # NoError /\ failed' = r.error /\ at' = arrived
      /\ header' = ResetHeader(r.h) /\ UNCHANGED <<stream, arrived, frame, parsed>>
  BY DEF Refuse
<1>3. Len(parsed) < Len(stream) /\ Len(parsed) \in Nat
  BY CurrentIs
<1>4. r.h \in HeaderType /\ FindsPayload(r, w)
  BY <1>2 DEF Finds
<1> HIDE DEF w
<1>5. frame.state = "HEADER" /\ r.error = HeaderError(SentFields(w.f), MaskRequired, MaxFrameSize)
  BY <1>2, <1>4 DEF FindsPayload
<1>6. Typed'
  <2>1. frame.left = 0
    BY <1>1, <1>5 DEF Typed, FreshFrame
  <2>2. arrived \in 0 .. Last(stream).end /\ arrived \in 0 .. arrived
    BY <1>1, LastIs DEF Typed, FInv
  <2>3. ResetHeader(r.h) \in HeaderType /\ ResetHeader(r.h).length = 0
    BY <1>4, ResetIs
  <2>4. frame.left <= ResetHeader(r.h).length
    BY <2>1, <2>3
  <2> QED BY <1>1, <1>2, <2>2, <2>3, <2>4, Zenon DEF Typed
<1>7. Refused'
  <2>1. w' = w
    BY <1>2 DEF w
  <2>2. Len(parsed)' < Len(stream)' /\ frame'.state = "HEADER"
    BY <1>2, <1>3, <1>5
  <2>3. failed' = HeaderError(SentFields(w'.f), MaskRequired, MaxFrameSize)
    BY <1>2, <1>5, <2>1, Zenon
  <2> QED BY <2>2, <2>3, Zenon DEF Refused, w
<1>8. Standing'
  BY <1>2 DEF Standing
<1> QED BY <1>2, <1>6, <1>7, <1>8, HistoryKept, Zenon DEF FInv

LEMMA PayloadGoesOnKeeps ==
    ASSUME FInv, failed = NoError, at < arrived, NEW r, Finds(r, stream[Len(parsed) + 1]), PayloadGoesOn(r)
    PROVE  FInv'
<1> DEFINE w == stream[Len(parsed) + 1]
           left == r.left
           available == r.available
           m == w.f.len - left
<1>1. Typed
  BY DEF FInv
<1>2. r.h.state = "DONE" /\ r.error = NoError /\ ~(left <= available) /\ header' = r.h /\ at' = arrived
      /\ frame' = [state |-> "PAYLOAD", left |-> left - available, pieces |-> Pieces(r, available)]
      /\ UNCHANGED <<stream, arrived, parsed, failed>>
  BY DEF PayloadGoesOn, Completes
<1>3. Len(parsed) < Len(stream) /\ Len(parsed) \in Nat /\ Len(parsed) + 1 \in DOMAIN stream
  BY CurrentIs
<1>4. r.h \in HeaderType /\ FindsPayload(r, w)
  BY <1>2 DEF Finds
<1>5. w.f \in WireFrame /\ w.f.len \in Nat
  BY <1>3, WireIs DEF FInv
<1> HIDE DEF w, left, available, m
<1>6. /\ InDone(r.h, w.f, HeaderSize(w.f))
      /\ left \in Nat /\ available \in Nat /\ r.used \in Nat
      /\ at + r.used + left = w.end /\ at + r.used + available = arrived
      /\ left <= w.f.len /\ Covers(frame.pieces, m)
      /\ HeaderError(SentFields(w.f), MaskRequired, MaxFrameSize) = NoError
  BY <1>2, <1>4, Zenon DEF FindsPayload, left, available, m
<1>7. r.h.length = w.f.len
  BY <1>6 DEF InDone
<1> DEFINE n == w.f.len
<1>8. m \in Nat /\ n - (left - available) = m + available /\ left - available \in Nat
      /\ left - available > 0 /\ left - available <= n
  <2>1. n \in Nat /\ m = n - left /\ left <= n
    BY <1>5, <1>6 DEF m
  <2> HIDE DEF n
  <2> QED BY <1>2, <1>6, <2>1
<1>9. Pieces(r, available) \in Seq(Piece) /\ Covers(Pieces(r, available), m + available)
  <2>1. r.h.length - r.left = m /\ frame.pieces \in Seq(Piece)
    BY <1>1, <1>7 DEF Typed, m, left
  <2> QED BY <1>6, <1>8, <2>1, PiecesAre
<1>10. frame'.state = "PAYLOAD" /\ frame'.left = left - available /\ frame'.pieces = Pieces(r, available)
  BY <1>2, Zenon
<1>11. Typed'
  <2>1. arrived \in 0 .. Last(stream).end /\ arrived \in 0 .. arrived
    BY <1>1, LastIs DEF Typed, FInv
  <2>2. frame' \in [state: {"HEADER", "PAYLOAD"}, left: Nat, pieces: Seq(Piece)]
    BY <1>2, <1>8, <1>9
  <2>3. frame'.left <= header'.length
    BY <1>2, <1>7, <1>8, <1>10
  <2>4. "PAYLOAD" # "HEADER"
    OBVIOUS
  <2> QED BY <1>1, <1>2, <1>4, <1>10, <2>1, <2>2, <2>3, <2>4, Zenon DEF Typed
<1>12. InPayload(w)'
  <2>1. w' = w
    BY <1>2 DEF w
  <2>2. arrived + (left - available) = w.end
    <3> DEFINE b == at + r.used
               e == w.end
    <3>1. b \in Nat /\ b + left = e /\ b + available = arrived
      BY <1>1, <1>6, LastIs, SMTT(30) DEF Typed, FInv
    <3> HIDE DEF b, e
    <3> QED BY <1>6, <3>1 DEF e
  <2>3. Covers(Pieces(r, available), n - (left - available))
    BY <1>8, <1>9, Zenon
  <2> QED BY <1>2, <1>6, <1>8, <1>10, <2>1, <2>2, <2>3, Zenon DEF InPayload
<1>13. Standing'
  <2>1. Len(parsed)' # Len(stream)'
    BY <1>2, <1>3
  <2>2. frame'.state # "HEADER"
    BY <1>10
  <2> QED BY <1>12, <2>1, <2>2, Zenon DEF Standing, w
<1>14. Refused'
  BY <1>2 DEF Refused
<1> QED BY <1>2, <1>11, <1>13, <1>14, HistoryKept, Zenon DEF FInv

LEMMA FrameDoneKeeps ==
    ASSUME FInv, failed = NoError, at < arrived, NEW r, Finds(r, stream[Len(parsed) + 1]), FrameDone(r)
    PROVE  FInv'
<1> DEFINE w == stream[Len(parsed) + 1]
           left == r.left
           m == w.f.len - left
           new == [header |-> r.h, pieces |-> Pieces(r, left)]
           l == Len(parsed)
<1>1. Typed /\ StreamShape(stream) /\ ParsedRight
  BY DEF FInv
<1>2. r.h.state = "DONE" /\ r.error = NoError /\ left <= r.available /\ header' = ResetHeader(r.h)
      /\ at' = at + r.used + left /\ frame' = FreshFrame /\ parsed' = Append(parsed, new)
      /\ UNCHANGED <<stream, arrived, failed>>
  BY DEF FrameDone, Completes
<1>3. l < Len(stream) /\ l \in Nat /\ l + 1 \in DOMAIN stream
  BY CurrentIs
<1>4. r.h \in HeaderType /\ FindsPayload(r, w)
  BY <1>2 DEF Finds
<1>5. w.f \in WireFrame /\ w.f.len \in Nat
  BY <1>3, WireIs DEF FInv
<1>6. l + 1 <= Len(stream) /\ Len(stream) \in Nat
  BY <1>1, <1>3 DEF StreamShape
<1> HIDE DEF w, left, m, new
<1>7. /\ InDone(r.h, w.f, HeaderSize(w.f))
      /\ left \in Nat /\ r.available \in Nat /\ r.used \in Nat
      /\ at + r.used + left = w.end /\ at + r.used + r.available = arrived
      /\ left <= w.f.len /\ Covers(frame.pieces, m)
  BY <1>4, Zenon DEF FindsPayload, left, m
<1>8. r.h.length = w.f.len
  BY <1>7 DEF InDone
<1>9. m \in Nat /\ m + left = w.f.len
  <2> DEFINE n == w.f.len
  <2>1. n \in Nat /\ m = n - left /\ left <= n
    BY <1>5, <1>7 DEF m
  <2> HIDE DEF n
  <2>2. m \in Nat /\ m + left = n
    BY <1>7, <2>1
  <2> QED BY <2>2 DEF n
<1>10. Pieces(r, left) \in Seq(Piece) /\ Covers(Pieces(r, left), w.f.len)
  <2>1. r.h.length - r.left = m /\ frame.pieces \in Seq(Piece)
    BY <1>1, <1>8 DEF Typed, m, left
  <2>2. Covers(Pieces(r, left), m + left) /\ Pieces(r, left) \in Seq(Piece)
    BY <1>7, <1>9, <2>1, PiecesAre
  <2> QED BY <1>9, <2>2, Zenon
<1>11. new \in Parsed /\ new.header = r.h /\ new.pieces = Pieces(r, left)
  BY <1>4, <1>10 DEF new, Parsed
<1>12. parsed \in Seq(Parsed)
  BY <1>1 DEF Typed
<1>13. parsed' \in Seq(Parsed) /\ Len(parsed') = l + 1 /\ DOMAIN parsed' = 1 .. l + 1 /\ DOMAIN parsed = 1 .. l
       /\ parsed'[l + 1] = new /\ \A k \in 1 .. l : parsed'[k] = parsed[k]
  BY <1>2, <1>11, <1>12
<1>14. at' = w.end /\ at' \in 0 .. arrived
  <2> DEFINE b == at + r.used
             e == w.end
             c == r.available
  <2>1. b \in Nat /\ b + left = e /\ b + c = arrived /\ left <= c /\ c \in Nat /\ at' = b + left
    BY <1>1, <1>2, <1>7, LastIs, SMTT(40) DEF Typed
  <2> HIDE DEF b, e, c
  <2> QED BY <1>7, <2>1 DEF e
<1>15. ResetHeader(r.h) \in HeaderType /\ InFirst(ResetHeader(r.h), 0) /\ ResetHeader(r.h).length = 0
  BY <1>4, ResetIs
<1>16. FreshFrame.state = "HEADER" /\ FreshFrame.left = 0
       /\ FreshFrame \in [state: {"HEADER", "PAYLOAD"}, left: Nat, pieces: Seq(Piece)]
  BY DEF FreshFrame
<1> HIDE DEF l
<1>17. Typed'
  <2>1. arrived \in 0 .. Last(stream).end
    BY <1>1 DEF Typed
  <2>2. FreshFrame.left <= ResetHeader(r.h).length
    BY <1>15, <1>16
  <2>3. Len(parsed') <= Len(stream)
    BY <1>6, <1>13
  <2> QED BY <1>2, <1>13, <1>14, <1>15, <1>16, <2>1, <2>2, <2>3, Zenon DEF Typed
<1>18. Standing'
  <2>1. CASE l + 1 = Len(stream)
    <3>1. Last(stream) = w
      BY <2>1 DEF Last, w, l
    <3> QED BY <1>2, <1>13, <1>14, <1>15, <1>16, <2>1, <3>1, Zenon DEF Standing
  <2>2. CASE l + 1 # Len(stream)
    <3> DEFINE v == stream[(l + 1) + 1]
    <3>1. l + 1 \in 1 .. Len(stream) - 1 /\ (l + 1) + 1 \in 1 .. Len(stream)
      BY <1>3, <1>6, <2>2 DEF l
    <3>2. v.start = w.end
      BY <1>1, <3>1 DEF StreamShape, w, l
    <3>3. v.f \in WireFrame /\ v.start \in Nat
      BY <1>1, <3>1, WireIs DEF StreamShape
    <3>4. v.start <= at' /\ at' - v.start = 0
      BY <1>14, <3>2, <3>3
    <3>5. header'.state = "FIRST" /\ InFirst(header', 0)
      BY <1>2, <1>15 DEF InFirst
    <3>6. "FIRST" # "DONE" /\ "FIRST" # "LENGTH" /\ "FIRST" # "MASK"
      OBVIOUS
    <3> HIDE DEF v
    <3>7. Holds(header', v.f, at' - v.start)
      BY <3>4, <3>5, Zenon DEF Holds
    <3>8. Waits(header', v.f)
      BY <3>5, <3>6, Zenon DEF Waits
    <3>9. stream'[Len(parsed)' + 1] = v
      BY <1>2, <1>13, Zenon DEF v
    <3>10. InHeader(stream[Len(parsed) + 1])'
      BY <3>4, <3>5, <3>6, <3>7, <3>8, <3>9, Zenon DEF InHeader
    <3>11. Len(parsed)' # Len(stream)' /\ frame'.state = "HEADER"
      BY <1>2, <1>13, <1>16, <2>2
    <3> QED BY <3>10, <3>11, Zenon DEF Standing
  <2> QED BY <2>1, <2>2
<1>19. Refused'
  BY <1>2 DEF Refused
<1>20. ParsedRight'
  <2>1. \A k \in 1 .. l : SameHeader(stream[k].f, parsed[k].header) /\ Covers(parsed[k].pieces, stream[k].f.len)
    BY <1>1, <1>13 DEF ParsedRight
  <2>2. SameHeader(w.f, r.h)
    BY <1>4, <1>5, <1>7, FieldsAre DEF SameHeader, SentFields
  <2>3. w = stream[l + 1]
    BY DEF w, l
  <2>4. ASSUME NEW k \in 1 .. l + 1
        PROVE  SameHeader(stream[k].f, parsed'[k].header) /\ Covers(parsed'[k].pieces, stream[k].f.len)
    <3>1. k \in 1 .. l \/ k = l + 1
      BY <1>3 DEF l
    <3>2. CASE k \in 1 .. l
      <4>1. parsed'[k] = parsed[k]
        BY <1>13, <3>2
      <4> QED BY <2>1, <3>2, <4>1, Zenon
    <3>3. CASE k = l + 1
      BY <1>10, <1>11, <1>13, <2>2, <2>3, <3>3, Zenon
    <3> QED BY <3>1, <3>2, <3>3
  <2> QED BY <1>2, <1>13, <2>4, Zenon DEF ParsedRight
<1>21. StreamShape(stream)'
  BY <1>1, <1>2, Zenon
<1> QED BY <1>17, <1>18, <1>19, <1>20, <1>21, Zenon DEF FInv

LEMMA ParseKeeps == ASSUME FInv, Parse PROVE FInv'
<1>1. failed = NoError /\ at < arrived
  BY DEF Parse
<1>2. PICK s \in IF frame.state = "HEADER" THEN ReadHeader(header, Peek) ELSE {Stage(header, Peek)} :
         \/ HeaderGoesOn(Reading(s, Peek)) \/ Refuse(Reading(s, Peek))
         \/ PayloadGoesOn(Reading(s, Peek)) \/ FrameDone(Reading(s, Peek))
  BY DEF Parse
<1> DEFINE r == Reading(s, Peek)
<1>3. Finds(r, stream[Len(parsed) + 1])
  BY <1>1, CallFinds, Zenon
<1> HIDE DEF r
<1>4. CASE HeaderGoesOn(r)
  BY <1>1, <1>3, <1>4, HeaderGoesOnKeeps, Zenon
<1>5. CASE Refuse(r)
  BY <1>1, <1>3, <1>5, RefuseKeeps, Zenon
<1>6. CASE PayloadGoesOn(r)
  BY <1>1, <1>3, <1>6, PayloadGoesOnKeeps, Zenon
<1>7. CASE FrameDone(r)
  BY <1>1, <1>3, <1>7, FrameDoneKeeps, Zenon
<1> QED BY <1>2, <1>4, <1>5, <1>6, <1>7, Zenon DEF r

LEMMA ArriveKeeps == ASSUME FInv, NEW p \in CutPoints, Arrive(p) PROVE FInv'
<1>1. Typed /\ StreamShape(stream) /\ Standing /\ Refused
  BY DEF FInv
<1>2. arrived < p /\ arrived' = p /\ UNCHANGED <<stream, at, header, frame, parsed, failed>>
  BY DEF Arrive
<1>3. p \in 0 .. Last(stream).end /\ at \in 0 .. p
  BY <1>1, <1>2, LastIs, CutsWithin DEF Typed
<1>4. Typed'
  BY <1>1, <1>2, <1>3, Zenon DEF Typed
<1>5. Standing'
  BY <1>1, <1>2, Zenon DEF Standing, InHeader, InPayload
<1>6. Refused'
  BY <1>1, <1>2, Zenon DEF Refused
<1> QED BY <1>2, <1>4, <1>5, <1>6, HistoryKept, Zenon DEF FInv

LEMMA FInvInit == Init => FInv
<1> SUFFICES ASSUME Init PROVE FInv
  OBVIOUS
<1>1. PICK s \in Streams : stream = Laid(s)
  BY DEF Init
<1>2. arrived = 0 /\ at = 0 /\ header = FreshHeader /\ frame = FreshFrame /\ parsed = <<>> /\ failed = NoError
  BY DEF Init
<1>3. StreamShape(stream)
  BY <1>1, LaidShape
<1>4. Len(parsed) = 0 /\ DOMAIN parsed = {} /\ parsed \in Seq(Parsed) /\ Len(parsed) + 1 = 1
  BY <1>2
<1>5. Len(stream) \in Nat \ {0} /\ 1 \in DOMAIN stream /\ stream[1].start = 0
  BY <1>3 DEF StreamShape
<1>6. FreshHeader \in HeaderType /\ InFirst(FreshHeader, 0)
  BY FreshIs
<1>7. FreshFrame.state = "HEADER" /\ FreshFrame.left = 0
      /\ FreshFrame \in [state: {"HEADER", "PAYLOAD"}, left: Nat, pieces: Seq(Piece)]
  BY DEF FreshFrame
<1>8. Typed
  <2>1. 0 \in 0 .. Last(stream).end /\ 0 \in 0 .. 0
    BY <1>3, LastIs
  <2>2. FreshFrame.left <= FreshHeader.length
    BY <1>7 DEF FreshHeader
  <2>3. Len(parsed) <= Len(stream)
    BY <1>4, <1>5
  <2> QED BY <1>2, <1>4, <1>6, <1>7, <2>1, <2>2, <2>3, Zenon DEF Typed
<1>9. Standing
  <2>1. 0 <= 0 /\ 0 - 0 = 0 /\ "FIRST" # "DONE" /\ "FIRST" # "LENGTH" /\ "FIRST" # "MASK"
    OBVIOUS
  <2>2. header.state = "FIRST" /\ InFirst(header, 0)
    BY <1>2, <1>6 DEF InFirst
  <2> DEFINE w == stream[1]
  <2>3. w.start <= at /\ at - w.start = 0
    BY <1>2, <1>5, <2>1
  <2> HIDE DEF w
  <2>4. Holds(header, w.f, at - w.start)
    BY <2>2, <2>3, Zenon DEF Holds
  <2>5. Waits(header, w.f)
    BY <2>1, <2>2, Zenon DEF Waits
  <2>6. InHeader(w)
    BY <2>1, <2>2, <2>3, <2>4, <2>5, Zenon DEF InHeader
  <2>7. Len(parsed) # Len(stream)
    BY <1>4, <1>5
  <2>8. frame.state = "HEADER"
    BY <1>2, <1>7
  <2>9. w = stream[Len(parsed) + 1]
    BY <1>4 DEF w
  <2> QED BY <2>6, <2>7, <2>8, <2>9, Zenon DEF Standing
<1>10. Refused
  BY <1>2 DEF Refused
<1>11. ParsedRight
  BY <1>4 DEF ParsedRight
<1> QED BY <1>3, <1>8, <1>9, <1>10, <1>11 DEF FInv

LEMMA FInvNext == FInv /\ [Next]_vars => FInv'
<1> SUFFICES ASSUME FInv, [Next]_vars PROVE FInv'
  OBVIOUS
<1>1. CASE Parse
  BY <1>1, ParseKeeps
<1>2. CASE \E p \in CutPoints : Arrive(p)
  BY <1>2, ArriveKeeps
<1>3. CASE UNCHANGED vars
  <2>1. UNCHANGED <<stream, arrived, at, header, frame, parsed, failed>>
    BY <1>3 DEF vars
  <2> QED BY <2>1, Zenon DEF FInv, Typed, Standing, InHeader, InPayload, Refused, ParsedRight
<1> QED BY <1>1, <1>2, <1>3 DEF Next

LEMMA FInvHolds == Spec => []FInv
BY FInvInit, FInvNext, PTL DEF Spec

-------------------------------------------------------------------------------
(* The mask. *)

\* Eight bytes at a time or one by one, rotated or not: it is the byte of the whole offset.
LEMMA MaskByteIs == ASSUME NEW a \in Nat, NEW i \in Nat PROVE MaskByte(a, i) = (a + i) % 4
<1>1. ((a % 4) + (i % 8)) % 4 = (a + i) % 4
  OBVIOUS
<1> QED BY <1>1 DEF MaskByte

\* Among the starts up to an offset is a greatest one.
LEMMA GreatestStart ==
    ASSUME NEW T \in SUBSET Nat, 0 \in T, NEW o \in Nat
    PROVE  \E s \in T : s <= o /\ \A t \in T : t <= o => t <= s
<1> DEFINE D == {d \in Nat : d <= o /\ o - d \in T}
<1>1. o \in D /\ D \in SUBSET Nat
  OBVIOUS
<1>2. PICK d \in D : \A e \in D : d <= e
  <2> HIDE DEF D
  <2> QED BY <1>1, LeastNatural
<1>3. d \in Nat /\ d <= o /\ o - d \in T
  BY <1>2
<1>4. ASSUME NEW t \in T, t <= o PROVE t <= o - d
  <2>1. o - t \in D
    BY <1>4
  <2>2. d <= o - t
    BY <1>2, <2>1
  <2> QED BY <1>3, <1>4, <2>2
<1>5. o - d <= o
  BY <1>3
<1> QED BY <1>3, <1>4, <1>5

LEMMA MaskedWithIs ==
    ASSUME NEW f \in WireFrame, NEW o \in Nat
    PROVE  MaskedWith(f, o) = o % 4
<1> DEFINE piece == CHOOSE s \in f.starts : s <= o /\ \A t \in f.starts : t <= o => t <= s
<1>1. f.starts \in SUBSET Nat /\ 0 \in f.starts
  BY WireFrameIs
<1>2. \E s \in f.starts : s <= o /\ \A t \in f.starts : t <= o => t <= s
  BY <1>1, GreatestStart
<1>3. piece \in f.starts /\ piece <= o
  BY <1>2, Zenon
<1>4. MaskedWith(f, o) = MaskByte(piece, o - piece)
  BY Zenon DEF MaskedWith
<1> HIDE DEF piece
<1>5. piece \in Nat /\ o - piece \in Nat /\ piece + (o - piece) = o
  BY <1>1, <1>3
<1>6. MaskByte(piece, o - piece) = (piece + (o - piece)) % 4
  BY <1>5, MaskByteIs
<1> QED BY <1>4, <1>5, <1>6, Zenon

LEMMA CoversUnmasks ==
    ASSUME NEW f \in WireFrame, NEW ps \in Seq(Piece), Covers(ps, f.len)
    PROVE  Tiles(f, ps) /\ \A j \in DOMAIN ps : UnmaskedRight(f, ps[j])
<1>1. Tiles(f, ps)
  BY Zenon DEF Tiles, Covers
<1>2. ASSUME NEW j \in DOMAIN ps PROVE UnmaskedRight(f, ps[j])
  <2> DEFINE p == ps[j]
  <2>1. p \in Piece
    OBVIOUS
  <2>2. p.from \in Nat /\ p.len \in Nat /\ p.received = p.from
    BY <2>1 DEF Piece, Covers
  <2> HIDE DEF p
  <2>3. ASSUME NEW i \in 0 .. (IF p.len < 9 THEN p.len ELSE 9) - 1
        PROVE  MaskByte(p.received, i) = MaskedWith(f, p.from + i)
    <3>1. i \in Nat /\ p.from + i \in Nat
      BY <2>2, <2>3
    <3>2. MaskByte(p.from, i) = (p.from + i) % 4
      BY <2>2, <3>1, MaskByteIs
    <3>3. MaskedWith(f, p.from + i) = (p.from + i) % 4
      BY <3>1, MaskedWithIs
    <3> QED BY <2>2, <3>2, <3>3, Zenon
  <2> QED BY <2>3, Zenon DEF UnmaskedRight, p
<1> QED BY <1>1, <1>2

-------------------------------------------------------------------------------
(* What is promised follows from where the parser stands. *)

\* The members keep their kinds of values, for every stream and every cut of it: no count
\* outgrows the number it is kept in, and no payload has more left than its length.
THEOREM TypesKept == Spec => []TypeOK
<1>1. ASSUME FInv PROVE TypeOK
  <2>1. Typed
    BY <1>1 DEF FInv
  <2>2. header \in HeaderType /\ header.length \in Nat
    BY <2>1 DEF Typed, HeaderType
  <2>3. frame.state \in {"HEADER", "PAYLOAD"} /\ frame.left \in 0 .. header.length
    BY <2>1, <2>2 DEF Typed
  <2> QED BY <2>1, <2>2, <2>3, Zenon DEF TypeOK, Typed, HeaderType
<1> QED BY <1>1, FInvHolds, PTL

LEMMA CountsAre ==
    ASSUME StreamShape(stream), Typed
    PROVE  Len(stream) \in Nat \ {0} /\ Len(parsed) \in Nat /\ Len(parsed) <= Len(stream)
<1>1. parsed \in Seq(Parsed) /\ Len(parsed) <= Len(stream)
  BY DEF Typed
<1>2. Len(parsed) \in Nat
  BY <1>1
<1>3. Len(stream) \in Nat \ {0}
  BY DEF StreamShape
<1> QED BY <1>1, <1>2, <1>3, Zenon

\* Between frames the parser stands where the next one starts, however the bytes were cut:
\* FrameHeader::parse and Frame::parse take the bytes of a frame, all of them and no other.
THEOREM BoundariesCorrect == Spec => []BoundariesKept
<1>1. ASSUME FInv, failed = NoError, frame.state = "HEADER", header.state = "FIRST"
      PROVE  at = IF parsed = <<>> THEN 0 ELSE stream[Len(parsed)].end
  <2>1. StreamShape(stream) /\ Typed /\ Standing
    BY <1>1 DEF FInv
  <2> DEFINE l == Len(parsed)
             n == Len(stream)
  <2>2. parsed = <<>> <=> l = 0
    BY <2>1 DEF Typed
  <2>3. n \in Nat \ {0} /\ l \in Nat /\ l <= n
    BY <2>1, CountsAre
  <2>4. DOMAIN stream = 1 .. n
    BY <2>1 DEF StreamShape
  <2>5. CASE l = n
    <3>1. at = Last(stream).end
      BY <1>1, <2>1, <2>5 DEF Standing
    <3>2. Last(stream).end = stream[l].end
      BY <2>5 DEF Last
    <3>3. l # 0
      BY <2>3, <2>5
    <3> QED BY <2>2, <3>1, <3>2, <3>3, Zenon
  <2>6. CASE l # n
    <3> DEFINE w == stream[l + 1]
    <3>1. InHeader(w)
      BY <1>1, <2>1, <2>6 DEF Standing
    <3> HIDE DEF l, n
    <3>2. l + 1 \in 1 .. n
      BY <2>3, <2>6
    <3>3. w.start \in Nat
      BY <2>1, <2>4, <3>2, WireIs, Zenon
    <3>4. at \in Nat
      BY <2>1, LastIs DEF Typed
    <3>5. Holds(header, w.f, at - w.start)
      BY <3>1 DEF InHeader
    <3>6. at - w.start = 0
      BY <1>1, <3>5, StateDecides DEF InFirst
    <3>7. w.start = IF l = 0 THEN 0 ELSE stream[l].end
      <4>1. CASE l = 0
        <5>1. l + 1 = 1
          BY <4>1
        <5> QED BY <2>1, <4>1, <5>1, Zenon DEF StreamShape
      <4>2. CASE l # 0
        <5>1. l \in 1 .. n - 1
          BY <2>3, <2>6, <4>2
        <5> QED BY <2>1, <4>2, <5>1, Zenon DEF StreamShape, n
      <4> QED BY <4>1, <4>2, Zenon
    <3> HIDE DEF w
    <3>8. at = w.start
      BY <3>3, <3>4, <3>6
    <3> QED BY <2>2, <3>7, <3>8, Zenon DEF l
  <2> QED BY <2>5, <2>6
<1>2. FInv => BoundariesKept
  BY <1>1, Zenon DEF BoundariesKept
<1> QED BY <1>2, FInvHolds, PTL

\* In a frame that is not complete, the parser stands before its end.
LEMMA StandsBefore ==
    ASSUME StreamShape(stream), Typed, NEW k \in DOMAIN stream,
           frame.state = "HEADER" => InHeader(stream[k]), frame.state # "HEADER" => InPayload(stream[k])
    PROVE  at < stream[k].end
<1> DEFINE w == stream[k]
<1>1. /\ w.f \in WireFrame /\ w.start \in Nat /\ w.end \in Nat /\ w.f.len \in Nat
      /\ HeaderSize(w.f) \in 2 .. 14 /\ w.end = w.start + HeaderSize(w.f) + w.f.len
  BY WireIs
<1>2. at \in Nat
  BY LastIs DEF Typed
<1> HIDE DEF w
<1>3. CASE frame.state = "HEADER"
  <2>1. w.start <= at /\ Holds(header, w.f, at - w.start) /\ header.state # "DONE" /\ Waits(header, w.f)
    BY <1>3, Zenon DEF InHeader, w
  <2>2. at - w.start \in Nat
    BY <1>1, <1>2, <2>1
  <2>3. at - w.start < HeaderSize(w.f)
    BY <1>1, <2>1, <2>2, HeaderShort
  <2> DEFINE a == w.start
             z == HeaderSize(w.f)
             n == w.f.len
             e == w.end
  <2>4. a \in Nat /\ z \in Nat /\ n \in Nat /\ e = a + z + n /\ at - a < z
    BY <1>1, <2>3
  <2> HIDE DEF a, z, n, e
  <2>5. at < e
    BY <1>2, <2>4
  <2> QED BY <2>5 DEF e, w
<1>4. CASE frame.state # "HEADER"
  <2> DEFINE left == frame.left
             e == w.end
  <2>1. left > 0 /\ at + left = e
    BY <1>4, Zenon DEF InPayload, w
  <2>2. left \in Nat
    BY DEF Typed
  <2> HIDE DEF left, e
  <2>3. at < e
    BY <1>2, <2>1, <2>2
  <2> QED BY <2>3 DEF e, w
<1> QED BY <1>3, <1>4

\* Once the buffer is used up, every frame that has arrived whole has been handed over:
\* none waits for a byte of the next one, those without a payload included.
THEOREM PromptCorrect == Spec => []Prompt
<1>1. ASSUME FInv, at = arrived, failed = NoError, NEW k \in DOMAIN stream, stream[k].end <= arrived
      PROVE  k <= Len(parsed)
  <2>1. StreamShape(stream) /\ Typed /\ Standing
    BY <1>1 DEF FInv
  <2> DEFINE l == Len(parsed)
             n == Len(stream)
  <2>2. n \in Nat \ {0} /\ l \in Nat /\ l <= n
    BY <2>1, CountsAre
  <2>3. k \in 1 .. n
    BY <2>1 DEF StreamShape
  <2>4. CASE l = n
    <3> HIDE DEF l, n
    <3>1. k <= l
      BY <2>2, <2>3, <2>4
    <3> QED BY <3>1 DEF l
  <2>5. CASE l # n
    <3> DEFINE w == stream[l + 1]
    <3>1. (frame.state = "HEADER" => InHeader(w)) /\ (frame.state # "HEADER" => InPayload(w))
      BY <1>1, <2>1, <2>5 DEF Standing
    <3> HIDE DEF l, n
    <3>2. l + 1 \in 1 .. n /\ (l + 1 < k \/ l + 1 = k \/ k <= l)
      BY <2>2, <2>3, <2>5
    <3>3. l + 1 \in DOMAIN stream
      BY <2>1, <3>2, Zenon DEF StreamShape, n
    <3>4. at < w.end
      BY <2>1, <3>1, <3>3, StandsBefore, Zenon
    <3>5. stream[k].end \in Nat /\ w.end \in Nat /\ at \in Nat
      BY <2>1, <3>3, WireIs, LastIs DEF Typed
    <3>6. stream[k].end <= at
      BY <1>1, Zenon
    <3>7. ASSUME l + 1 < k PROVE w.end <= stream[k].end
      BY <2>1, <3>3, <3>7, InOrder, Zenon
    <3>8. ASSUME l + 1 = k PROVE w = stream[k]
      BY <3>8
    <3> DEFINE a == stream[k].end
               b == w.end
    <3>9. a \in Nat /\ b \in Nat /\ at < b /\ a <= at
      BY <3>4, <3>5, <3>6
    <3> HIDE DEF a, b
    <3>10. ~(b <= a) /\ a # b
      BY <3>5, <3>9
    <3>11. k <= l
      BY <3>2, <3>7, <3>8, <3>10, Zenon DEF a, b
    <3> QED BY <3>11 DEF l
  <2> QED BY <2>4, <2>5
<1>2. FInv => Prompt
  BY <1>1, Zenon DEF Prompt
<1> QED BY <1>2, FInvHolds, PTL

\* A frame is refused with the error its own header deserves, whatever came before it and
\* wherever it was cut.
THEOREM RefusedCorrect == Spec => []RefusedForItself
<1>1. FInv => RefusedForItself
  BY Zenon DEF FInv, Refused, RefusedForItself, SentFields
<1> QED BY <1>1, FInvHolds, PTL

\* The frames handed over are the frames that were sent, for every stream and every cut of
\* it: the fields, the payload in its order, and the mask byte of each of its bytes.
THEOREM FramesCorrect == Spec => []FramesAsSent
<1>1. ASSUME FInv, NEW k \in DOMAIN parsed
      PROVE  /\ SameHeader(stream[k].f, parsed[k].header)
             /\ Tiles(stream[k].f, parsed[k].pieces)
             /\ \A j \in DOMAIN parsed[k].pieces : UnmaskedRight(stream[k].f, parsed[k].pieces[j])
  <2>1. SameHeader(stream[k].f, parsed[k].header) /\ Covers(parsed[k].pieces, stream[k].f.len)
    BY <1>1 DEF FInv, ParsedRight
  <2>2. parsed \in Seq(Parsed) /\ Len(parsed) <= Len(stream) /\ StreamShape(stream)
    BY <1>1 DEF FInv, Typed
  <2>3. parsed[k] \in Parsed /\ k \in 1 .. Len(parsed) /\ Len(parsed) \in Nat
    BY <2>2
  <2>4. k \in DOMAIN stream
    BY <2>2, <2>3 DEF StreamShape
  <2>5. stream[k].f \in WireFrame /\ parsed[k].pieces \in Seq(Piece)
    BY <2>2, <2>3, <2>4, WireIs DEF Parsed
  <2> QED BY <2>1, <2>5, CoversUnmasks, Zenon
<1>2. FInv => FramesAsSent
  BY <1>1, Zenon DEF FramesAsSent
<1> QED BY <1>2, FInvHolds, PTL
===============================================================================
