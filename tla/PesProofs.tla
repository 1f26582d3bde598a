------------------------------ MODULE PesProofs -------------------------------
(***************************************************************************)
(* For streams of any bytes, chunks of any sizes and any of the three ways *)
(* to call genindex: as long as hbuff does not overflow, cPES keeps to its *)
(* types and never holds more bytes of a header than the header turns out  *)
(* to have.                                                                *)
(*                                                                         *)
(* hbuff does not overflow if no header in the stream is longer than it,   *)
(* cPES does what PesStream says, nothing is held back at the end, and     *)
(* private packets are stripped as they should be.  With --build this      *)
(* takes a premise, PiecesLong: a packet of private stream 1 with too      *)
(* little payload makes cPES lose its place in the stream.                 *)
(***************************************************************************)
EXTENDS Pes, LeastNumber, SequenceTheorems, TLAPS

-----------------------------------------------------------------------------
(* The size of a header of which n bytes are known.                        *)

\* The byte i of a header v is the first of n that is not stuffing.
IsIndex(v, n, i) ==
  /\ i \in 6..n
  /\ \A k \in 6..(i - 1) : v[k] \div 64 = 3
  /\ i < n => v[i] \div 64 # 3

\* What ElementarySize says if that is so.
SizeAt(v, n, i) ==
  LET buffSize == IF v[i] \div 64 = 1 THEN i + 2 ELSE i
  IN CASE i >= n -> -(i + 1)
       [] i < n /\ v[i] \div 64 = 2 ->
            IF i + 2 >= n THEN -(i + 3) ELSE i + 3 + v[i + 2]
       [] i < n /\ v[i] \div 64 # 2 ->
            IF buffSize >= n THEN -(buffSize + 1) ELSE buffSize + 1 + Stamps(v[buffSize])

\* There is one such byte.
LEMMA ElementaryIs ==
  ASSUME NEW v, NEW n \in Nat, n >= 6
  PROVE  \E i \in 6..n : IsIndex(v, n, i) /\ ElementarySize(v, n) = SizeAt(v, n, i)
<1> DEFINE stuffing == {i \in 6..(n - 1) : \A k \in 6..i : v[k] \div 64 = 3}
           index == CHOOSE i \in 6..n : i \notin stuffing /\ \A k \in 6..(i - 1) : k \in stuffing
<1>1. \E i \in 6..n : i \notin stuffing /\ \A k \in 6..(i - 1) : k \in stuffing
  <2> DEFINE S == {i \in 6..n : i = n \/ v[i] \div 64 # 3}
  <2>1. S \in SUBSET Nat /\ S # {}
    OBVIOUS
  <2>2. PICK i \in S : \A j \in S : i <= j
    BY <2>1, LeastNumber
  <2>3. \A k \in 6..(i - 1) : v[k] \div 64 = 3
    BY <2>2
  <2>4. i \in 6..n /\ i \notin stuffing
    BY <2>2
  <2>5. \A k \in 6..(i - 1) : k \in stuffing
    BY <2>3, <2>4
  <2> QED
    BY <2>4, <2>5
<1>2. index \in 6..n /\ index \notin stuffing /\ \A k \in 6..(index - 1) : k \in stuffing
  BY <1>1
<1>3. ElementarySize(v, n) = SizeAt(v, n, index)
  BY DEF ElementarySize, SizeAt
<1> HIDE DEF index
<1>4. \A k \in 6..(index - 1) : v[k] \div 64 = 3
  BY <1>2
<1>5. index < n => v[index] \div 64 # 3
  <2> SUFFICES ASSUME index < n, v[index] \div 64 = 3
               PROVE  FALSE
    OBVIOUS
  <2>1. \A k \in 6..index : v[k] \div 64 = 3
    BY <1>2, <1>4
  <2> QED
    BY <1>2, <2>1
<1> QED
  BY <1>2, <1>3, <1>4, <1>5 DEF IsIndex

\* A byte of stuffing more or less makes no difference.
LEMMA IndexUnique ==
  ASSUME NEW v, NEW n \in Nat, NEW i, NEW j, IsIndex(v, n, i), IsIndex(v, n, j)
  PROVE  i = j
BY DEF IsIndex

Bytes(v, n) == \A k \in 0..(n - 1) : v[k] \in 0..255

\* The sizes that are possible.
LEMMA SizeAtTypes ==
  ASSUME NEW v, NEW n \in Nat, n >= 7, Bytes(v, n), NEW i \in 6..n
  PROVE  /\ SizeAt(v, n, i) \in Int
         /\ SizeAt(v, n, i) > 0 => SizeAt(v, n, i) >= 7
         /\ SizeAt(v, n, i) < 0 => SizeAt(v, n, i) < -n
         /\ SizeAt(v, n, i) # 0
<1>1. CASE i >= n
  BY <1>1 DEF SizeAt
<1>2. CASE i < n /\ v[i] \div 64 = 2
  <2>1. CASE i + 2 >= n
    BY <1>2, <2>1 DEF SizeAt
  <2>2. CASE i + 2 < n
    <3>1. v[i + 2] \in 0..255
      BY <2>2 DEF Bytes
    <3>2. SizeAt(v, n, i) = i + 3 + v[i + 2]
      BY <1>2, <2>2 DEF SizeAt
    <3> QED
      BY <3>1, <3>2
  <2> QED
    BY <2>1, <2>2
<1>3. CASE i < n /\ v[i] \div 64 # 2
  <2> DEFINE b == IF v[i] \div 64 = 1 THEN i + 2 ELSE i
  <2>1. b \in Nat /\ b >= 6
    OBVIOUS
  <2>2. SizeAt(v, n, i) = IF b >= n THEN -(b + 1) ELSE b + 1 + Stamps(v[b])
    BY <1>3 DEF SizeAt
  <2>3. Stamps(v[b]) \in {0, 4, 9}
    BY DEF Stamps
  <2> HIDE DEF b
  <2> QED
    BY <2>1, <2>2, <2>3
<1> QED
  BY <1>1, <1>2, <1>3

\* The bytes at hand decide: another byte after them changes nothing.
LEMMA SizeAtSame ==
  ASSUME NEW v, NEW w, NEW n \in Nat, NEW i \in 6..n, \A k \in 0..(n - 1) : v[k] = w[k]
  PROVE  /\ IsIndex(v, n, i) => IsIndex(w, n, i)
         /\ SizeAt(v, n, i) = SizeAt(w, n, i)
<1>1. IsIndex(v, n, i) => IsIndex(w, n, i)
  BY DEF IsIndex
<1>2. SizeAt(v, n, i) = SizeAt(w, n, i)
  <2>1. CASE i >= n
    BY <2>1 DEF SizeAt
  <2>2. CASE i < n
    <3>1. v[i] = w[i]
      BY <2>2
    <3>2. i + 2 < n => v[i + 2] = w[i + 2]
      OBVIOUS
    <3> QED
      BY <2>2, <3>1, <3>2 DEF SizeAt
  <2> QED
    BY <2>1, <2>2
<1> QED
  BY <1>1, <1>2

\* More bytes up to the number asked for do not make the header smaller.
LEMMA SizeAtGrows ==
  ASSUME NEW v, NEW m \in Nat, NEW n \in Nat, 7 <= m, m <= n, Bytes(v, n),
         NEW i \in 6..m, NEW j \in 6..n, IsIndex(v, m, i), IsIndex(v, n, j),
         n <= Abs(SizeAt(v, m, i))
  PROVE  n <= Abs(SizeAt(v, n, j))
<1>1. CASE i >= m
  <2>1. Abs(SizeAt(v, m, i)) = m + 1
    BY <1>1 DEF SizeAt, Abs
  <2>2. j >= m
    BY <1>1 DEF IsIndex
  <2>3. SizeAt(v, n, j) \in Int /\ SizeAt(v, n, j) # 0 /\ (SizeAt(v, n, j) < 0 => SizeAt(v, n, j) < -n)
    BY SizeAtTypes
  <2>4. SizeAt(v, n, j) > 0 => SizeAt(v, n, j) >= j + 1
    <3>1. CASE j >= n
      BY <3>1 DEF SizeAt
    <3>2. CASE j < n /\ v[j] \div 64 = 2
      <4>1. j + 2 < n => v[j + 2] \in 0..255
        BY DEF Bytes
      <4> QED
        BY <3>2, <4>1 DEF SizeAt
    <3>3. CASE j < n /\ v[j] \div 64 # 2
      <4> DEFINE b == IF v[j] \div 64 = 1 THEN j + 2 ELSE j
      <4>1. SizeAt(v, n, j) = IF b >= n THEN -(b + 1) ELSE b + 1 + Stamps(v[b])
        BY <3>3 DEF SizeAt
      <4>2. Stamps(v[b]) \in {0, 4, 9} /\ b \in Nat /\ b >= j
        BY DEF Stamps
      <4> HIDE DEF b
      <4> QED
        BY <4>1, <4>2
    <3> QED
      BY <3>1, <3>2, <3>3
  <2> HIDE DEF SizeAt
  <2> QED
    BY <2>1, <2>2, <2>3, <2>4 DEF Abs
<1>2. CASE i < m
  <2>1. j = i
    BY <1>2 DEF IsIndex
  <2>2. CASE v[i] \div 64 = 2
    <3>1. i + 2 < n => v[i + 2] \in 0..255
      BY DEF Bytes
    <3> QED
      BY <1>2, <2>1, <2>2, <3>1 DEF SizeAt, Abs
  <2>3. CASE v[i] \div 64 # 2
    <3> DEFINE b == IF v[i] \div 64 = 1 THEN i + 2 ELSE i
    <3>1. /\ SizeAt(v, m, i) = IF b >= m THEN -(b + 1) ELSE b + 1 + Stamps(v[b])
          /\ SizeAt(v, n, j) = IF b >= n THEN -(b + 1) ELSE b + 1 + Stamps(v[b])
      BY <1>2, <2>1, <2>3 DEF SizeAt
    <3>2. Stamps(v[b]) \in {0, 4, 9} /\ b \in Nat
      BY DEF Stamps
    <3> HIDE DEF b
    <3> QED
      BY <3>1, <3>2 DEF Abs
  <2> QED
    BY <2>2, <2>3
<1> QED
  BY <1>1, <1>2

\* HeaderSize, case by case.
LEMMA HeaderSizeIs ==
  ASSUME NEW v, NEW n \in Nat, n >= 4
  PROVE  /\ v[3] = 186 /\ n < 5 => HeaderSize(v, n) = -5
         /\ v[3] = 186 /\ n >= 5 /\ v[4] \div 64 # 1 => HeaderSize(v, n) = 12
         /\ v[3] = 186 /\ n >= 5 /\ v[4] \div 64 = 1 /\ n < 14 => HeaderSize(v, n) = -14
         /\ v[3] = 186 /\ n >= 14 /\ v[4] \div 64 = 1 => HeaderSize(v, n) = 14 + (v[13] % 8)
         /\ v[3] = 187 /\ n < 6 => HeaderSize(v, n) = -6
         /\ v[3] = 187 /\ n >= 6 => HeaderSize(v, n) = 6 + 256 * v[4] + v[5]
         /\ v[3] \in {190, 191} => HeaderSize(v, n) = 6
         /\ v[3] \in Elementary /\ n < 7 => HeaderSize(v, n) = -7
         /\ v[3] \in Elementary /\ n >= 7 => HeaderSize(v, n) = ElementarySize(v, n)
         /\ v[3] \notin {186, 187, 190, 191} \cup Elementary => HeaderSize(v, n) = 4
BY DEF HeaderSize, Elementary

\* Two of them as alternatives, with what the bytes say.
LEMMA PackSize ==
  ASSUME NEW v, NEW n \in Nat, n >= 4, Bytes(v, n), v[3] = 186
  PROVE  \/ HeaderSize(v, n) = -5 /\ n = 4
         \/ HeaderSize(v, n) = 12 /\ n >= 5 /\ v[4] \div 64 # 1
         \/ HeaderSize(v, n) = -14 /\ n \in 5..13 /\ v[4] \div 64 = 1
         \/ /\ HeaderSize(v, n) = 14 + (v[13] % 8) /\ v[13] % 8 \in 0..7
            /\ n >= 14 /\ v[4] \div 64 = 1
<1>1. n >= 14 => v[13] % 8 \in 0..7
  <2>1. \A b \in 0..255 : b % 8 \in 0..7
    OBVIOUS
  <2>2. n >= 14 => v[13] \in 0..255
    BY DEF Bytes
  <2> QED
    BY <2>1, <2>2
<1>2. n < 5 <=> n = 4
  OBVIOUS
<1> QED
  BY <1>1, <1>2, HeaderSizeIs

LEMMA SystemSize ==
  ASSUME NEW v, NEW n \in Nat, n >= 4, Bytes(v, n), v[3] = 187
  PROVE  \/ HeaderSize(v, n) = -6 /\ n \in 4..5
         \/ /\ HeaderSize(v, n) = 6 + 256 * v[4] + v[5] /\ n >= 6
            /\ HeaderSize(v, n) \in Nat /\ HeaderSize(v, n) >= 6
<1>1. CASE n < 6
  BY <1>1, HeaderSizeIs
<1>2. CASE n >= 6
  <2>1. v[4] \in 0..255 /\ v[5] \in 0..255
    BY <1>2 DEF Bytes
  <2>2. 6 + 256 * v[4] + v[5] \in Nat /\ 6 + 256 * v[4] + v[5] >= 6
    <3> DEFINE a == v[4]
               b == v[5]
    <3>1. a \in 0..255 /\ b \in 0..255
      BY <2>1
    <3> HIDE DEF a, b
    <3>2. 6 + 256 * a + b \in Nat /\ 6 + 256 * a + b >= 6
      BY <3>1
    <3> QED
      BY <3>2 DEF a, b
  <2>3. HeaderSize(v, n) = 6 + 256 * v[4] + v[5]
    BY <1>2, HeaderSizeIs
  <2> QED
    BY <1>2, <2>2, <2>3
<1> QED
  BY <1>1, <1>2

Sized == {190, 191} \cup Elementary

\* A size is at least that of a start code, and of what comes before the payload of a
\* packet that says its own size; a number of bytes asked for is more than there are.
LEMMA HeaderSizeTypes ==
  ASSUME NEW v, NEW n \in Nat, Bytes(v, n)
  PROVE  /\ HeaderSize(v, n) \in Int /\ Abs(HeaderSize(v, n)) \in Nat
         /\ Abs(HeaderSize(v, n)) >= 4
         /\ HeaderSize(v, n) < 0 => Abs(HeaderSize(v, n)) > n
         /\ n >= 4 /\ v[3] \in Sized => Abs(HeaderSize(v, n)) >= 6
<1> DEFINE h == HeaderSize(v, n)
<1> SUFFICES /\ h \in Int /\ h # 0 /\ (h > 0 => h >= 4) /\ (h < 0 => h < -n /\ h <= -4)
             /\ n >= 4 /\ v[3] \in Sized => (h > 0 => h >= 6) /\ (h < 0 => h <= -6)
  BY DEF Abs
<1>1. CASE n < 4
  <2>1. h = -4
    BY <1>1 DEF HeaderSize
  <2> QED
    BY <1>1, <2>1
<1>2. CASE n >= 4
  <2>0. \A k \in 0..(n - 1) : v[k] \in 0..255
    BY DEF Bytes
  <2>1. CASE v[3] = 186
    <3>1. h \in {-5, 12, -14} \/ h \in 14..21
      BY <1>2, <2>1, PackSize
    <3>2. (h = -5 => n = 4) /\ (h = -14 => n < 14)
      BY <1>2, <2>1, PackSize
    <3> HIDE DEF h
    <3> QED
      BY <1>2, <2>1, <3>1, <3>2 DEF Sized, Elementary
  <2>2. CASE v[3] = 187
    <3>1. (h = -6 /\ n < 6) \/ (h \in Nat /\ h >= 6)
      BY <1>2, <2>2, SystemSize
    <3> HIDE DEF h
    <3> QED
      BY <1>2, <2>2, <3>1 DEF Sized, Elementary
  <2>3. CASE v[3] \in {190, 191}
    BY <1>2, <2>3, HeaderSizeIs
  <2>4. CASE v[3] \in Elementary /\ n < 7
    BY <1>2, <2>4, HeaderSizeIs
  <2>5. CASE v[3] \in Elementary /\ n >= 7
    <3>1. h = ElementarySize(v, n)
      BY <1>2, <2>5, HeaderSizeIs
    <3>2. PICK i \in 6..n : ElementarySize(v, n) = SizeAt(v, n, i)
      BY <2>5, ElementaryIs
    <3>3. /\ SizeAt(v, n, i) \in Int
          /\ SizeAt(v, n, i) > 0 => SizeAt(v, n, i) >= 7
          /\ SizeAt(v, n, i) < 0 => SizeAt(v, n, i) < -n
          /\ SizeAt(v, n, i) # 0
      BY <2>5, <3>2, SizeAtTypes
    <3> HIDE DEF h
    <3> QED
      BY <2>5, <3>1, <3>2, <3>3
  <2>6. CASE v[3] \notin {186, 187, 190, 191} \cup Elementary
    <3>1. h = 4
      BY <1>2, <2>6, HeaderSizeIs
    <3> QED
      BY <2>6, <3>1 DEF Sized
  <2> QED
    BY <2>1, <2>2, <2>3, <2>4, <2>5, <2>6
<1> QED
  BY <1>1, <1>2

\* The size depends on the bytes at hand only.
LEMMA HeaderSizeSame ==
  ASSUME NEW v, NEW w, NEW n \in Nat, \A k \in 0..(n - 1) : v[k] = w[k]
  PROVE  HeaderSize(v, n) = HeaderSize(w, n)
<1>1. CASE n < 4
  BY <1>1 DEF HeaderSize
<1>2. CASE n >= 4
  <2>0. v[3] = w[3]
    BY <1>2
  <2>1. CASE v[3] = 186
    <3>1. (n >= 5 => v[4] = w[4]) /\ (n >= 14 => v[13] = w[13])
      OBVIOUS
    <3> QED
      BY <1>2, <2>0, <2>1, <3>1 DEF HeaderSize
  <2>2. CASE v[3] = 187
    <3>1. n >= 6 => v[4] = w[4] /\ v[5] = w[5]
      OBVIOUS
    <3> QED
      BY <1>2, <2>0, <2>2, <3>1 DEF HeaderSize
  <2>3. CASE v[3] \in Elementary /\ n >= 7
    <3>1. HeaderSize(v, n) = ElementarySize(v, n) /\ HeaderSize(w, n) = ElementarySize(w, n)
      BY <1>2, <2>0, <2>3, HeaderSizeIs
    <3>2. PICK i \in 6..n : IsIndex(v, n, i) /\ ElementarySize(v, n) = SizeAt(v, n, i)
      BY <2>3, ElementaryIs
    <3>3. PICK j \in 6..n : IsIndex(w, n, j) /\ ElementarySize(w, n) = SizeAt(w, n, j)
      BY <2>3, ElementaryIs
    <3>4. IsIndex(w, n, i) /\ SizeAt(v, n, i) = SizeAt(w, n, i)
      BY <3>2, SizeAtSame
    <3>5. i = j
      BY <3>3, <3>4, IndexUnique
    <3> QED
      BY <3>1, <3>2, <3>3, <3>4, <3>5
  <2>4. CASE v[3] \in Elementary /\ n < 7
    BY <1>2, <2>0, <2>4, HeaderSizeIs
  <2>5. CASE v[3] \notin {186, 187} \cup Elementary
    BY <1>2, <2>0, <2>5, HeaderSizeIs
  <2> QED
    BY <2>1, <2>2, <2>3, <2>4, <2>5
<1> QED
  BY <1>1, <1>2

\* With more bytes, though not more than were asked for, the header is not found to be
\* smaller than they are: it is never read too far.
LEMMA HeaderSizeGrows ==
  ASSUME NEW v, NEW m \in Nat, NEW n \in Nat, 4 <= m, m <= n, Bytes(v, n),
         n <= Abs(HeaderSize(v, m))
  PROVE  n <= Abs(HeaderSize(v, n))
<1>0. \A k \in 0..(n - 1) : v[k] \in 0..255
  BY DEF Bytes
<1>1. CASE v[3] = 186
  <2>1. Bytes(v, m)
    BY DEF Bytes
  <2> QED
    BY <1>1, <2>1, PackSize DEF Abs
<1>2. CASE v[3] = 187
  <2>1. Bytes(v, m)
    BY DEF Bytes
  <2>2. \/ HeaderSize(v, m) = -6 /\ m < 6
        \/ HeaderSize(v, m) = 6 + 256 * v[4] + v[5] /\ HeaderSize(v, m) \in Nat /\ m >= 6
    BY <1>2, <2>1, SystemSize
  <2>3. \/ HeaderSize(v, n) = -6 /\ n < 6
        \/ /\ HeaderSize(v, n) = 6 + 256 * v[4] + v[5] /\ HeaderSize(v, n) \in Nat
           /\ HeaderSize(v, n) >= 6 /\ n >= 6
    BY <1>2, SystemSize
  <2> QED
    BY <2>2, <2>3 DEF Abs
<1>3. CASE v[3] \in Elementary /\ m >= 7
  <2>1. HeaderSize(v, m) = ElementarySize(v, m) /\ HeaderSize(v, n) = ElementarySize(v, n)
    BY <1>3, HeaderSizeIs
  <2>2. PICK i \in 6..m : IsIndex(v, m, i) /\ ElementarySize(v, m) = SizeAt(v, m, i)
    BY <1>3, ElementaryIs
  <2>3. PICK j \in 6..n : IsIndex(v, n, j) /\ ElementarySize(v, n) = SizeAt(v, n, j)
    BY <1>3, ElementaryIs
  <2> QED
    BY <1>3, <2>1, <2>2, <2>3, SizeAtGrows
<1>4. CASE v[3] \in Elementary /\ m < 7
  <2>1. n <= 7
    BY <1>4, HeaderSizeIs DEF Abs
  <2>2. CASE n < 7
    BY <1>4, <2>2, HeaderSizeIs DEF Abs
  <2>3. CASE n = 7
    <3>1. /\ HeaderSize(v, n) \in Int /\ HeaderSize(v, n) # 0
          /\ HeaderSize(v, n) > 0 => HeaderSize(v, n) >= 7
          /\ HeaderSize(v, n) < 0 => HeaderSize(v, n) < -n
      <4>1. HeaderSize(v, n) = ElementarySize(v, n)
        BY <1>4, <2>3, HeaderSizeIs
      <4>2. PICK i \in 6..n : ElementarySize(v, n) = SizeAt(v, n, i)
        BY <2>3, ElementaryIs
      <4> QED
        BY <2>3, <4>1, <4>2, SizeAtTypes
    <3> QED
      BY <2>3, <3>1 DEF Abs
  <2> QED
    BY <2>1, <2>2, <2>3
<1>5. CASE v[3] \notin {186, 187} \cup Elementary
  <2>1. HeaderSize(v, m) = HeaderSize(v, n)
    BY <1>5, HeaderSizeIs
  <2> QED
    BY <2>1
<1> QED
  BY <1>1, <1>2, <1>3, <1>4, <1>5

-----------------------------------------------------------------------------
(* The size of a header as PesStream has it.                               *)

Byte(p) == Abstract!Byte(p)

\* v[0], ..., v[n - 1] are the bytes of the stream from p on.
Read(v, n, p) == p + n <= Len(stream) /\ \A k \in 0..(n - 1) : v[k] = Byte(p + k)

LEMMA ByteTypes ==
  ASSUME stream \in Seq(0..255), NEW p \in Nat
  PROVE  Byte(p) \in 0..255 /\ (p >= Len(stream) => Byte(p) = 0)
<1>1. CASE p < Len(stream)
  <2>1. p + 1 \in 1..Len(stream)
    BY <1>1
  <2>2. stream[p + 1] \in 0..255
    BY <2>1, ElementOfSeq
  <2> QED
    BY <1>1, <2>2 DEF Byte, Abstract!Byte
<1>2. CASE ~(p < Len(stream))
  BY <1>2 DEF Byte, Abstract!Byte
<1> QED
  BY <1>1, <1>2

LEMMA ReadBytes ==
  ASSUME stream \in Seq(0..255), NEW p \in Nat, NEW n \in Nat, NEW v, Read(v, n, p)
  PROVE  Bytes(v, n)
BY ByteTypes, SMTT(30) DEF Bytes, Read

\* The header of an elementary stream's packet, given its first byte that is no stuffing.
LEMMA ElementaryHeaderIs ==
  ASSUME stream \in Seq(0..255), NEW p \in Nat, NEW i \in Nat, i >= 6, p + i <= Len(stream) + 6,
         \A k \in 6..(i - 1) : Byte(p + k) \div 64 = 3, Byte(p + i) \div 64 # 3,
         NEW j, j = IF Byte(p + i) \div 64 = 1 THEN i + 2 ELSE i
  PROVE  Abstract!ElementaryHeader(p) =
           IF Byte(p + i) \div 64 = 2 THEN i + 3 + Byte(p + i + 2)
           ELSE j + 1 + Stamps(Byte(p + j))
<1>1. Abstract!Flags(p) = p + i
  <2> DEFINE F(q) == /\ Byte(q) \div 64 # 3
                     /\ \A r \in (p + 6)..(q - 1) : Byte(r) \div 64 = 3
  <2>0. Len(stream) \in Nat
    OBVIOUS
  <2>1. p + i \in (p + 6)..(Len(stream) + 6) /\ F(p + i)
    <3>1. ASSUME NEW r \in (p + 6)..(p + i - 1) PROVE Byte(r) \div 64 = 3
      <4>1. r - p \in 6..(i - 1) /\ p + (r - p) = r
        OBVIOUS
      <4> QED
        BY <4>1
    <3> QED
      BY <2>0, <3>1
  <2>2. ASSUME NEW q \in (p + 6)..(Len(stream) + 6), F(q)
        PROVE  q = p + i
    <3>1. CASE q < p + i
      <4>1. q \in (p + 6)..(p + i - 1)
        BY <2>0, <3>1
      <4> QED
        BY <2>1, <2>2, <4>1
    <3>2. CASE q > p + i
      <4>1. p + i \in (p + 6)..(q - 1)
        BY <2>0, <3>2
      <4> QED
        BY <2>1, <2>2, <4>1
    <3> QED
      BY <2>0, <3>1, <3>2
  <2>3. Abstract!Flags(p) = CHOOSE q \in (p + 6)..(Len(stream) + 6) : F(q)
    BY DEF Abstract!Flags, Byte
  <2> HIDE DEF F
  <2> QED
    BY <2>1, <2>2, <2>3
<1>2. p + i + 2 = p + (i + 2) /\ p + i + 3 + Byte(p + i + 2) - p = i + 3 + Byte(p + i + 2)
  <2> DEFINE b == Byte(p + i + 2)
  <2>1. b \in 0..255
    BY ByteTypes
  <2> HIDE DEF b
  <2>2. p + i + 3 + b - p = i + 3 + b
    BY <2>1
  <2> QED
    BY <2>2 DEF b
<1>3. CASE Byte(p + i) \div 64 = 2
  BY <1>1, <1>2, <1>3 DEF Abstract!ElementaryHeader, Byte
<1>4. CASE Byte(p + i) \div 64 # 2
  <2> DEFINE stamps == CASE (Byte(p + j) \div 16) % 4 = 2 -> 5
                         [] (Byte(p + j) \div 16) % 4 = 3 -> 10
                         [] OTHER -> 1
  <2>1. Abstract!ElementaryHeader(p) = (p + j) + stamps - p
    BY <1>1, <1>2, <1>4 DEF Abstract!ElementaryHeader, Byte
  <2>2. stamps = 1 + Stamps(Byte(p + j)) /\ Stamps(Byte(p + j)) \in {0, 4, 9}
    BY DEF Stamps
  <2>3. j \in Nat
    OBVIOUS
  <2> DEFINE more == Stamps(Byte(p + j))
  <2>4. more \in {0, 4, 9} /\ stamps = 1 + more
    BY <2>2
  <2> HIDE DEF stamps, more
  <2>5. (p + j) + stamps - p = j + 1 + more
    BY <2>3, <2>4
  <2> QED
    BY <1>4, <2>1, <2>5 DEF more
<1> QED
  BY <1>3, <1>4

\* PesStream's HeaderSize, case by case.
LEMMA AbstractSizeIs ==
  ASSUME NEW p \in Nat
  PROVE  /\ Byte(p + 3) = 186 => Abstract!HeaderSize(p) =
              IF Byte(p + 4) \div 64 = 1 THEN 14 + (Byte(p + 13) % 8) ELSE 12
         /\ Byte(p + 3) = 187 => Abstract!HeaderSize(p) = 6 + Abstract!Word(p + 4)
         /\ Byte(p + 3) \in {190, 191} => Abstract!HeaderSize(p) = 6
         /\ Byte(p + 3) \in Elementary => Abstract!HeaderSize(p) = Abstract!ElementaryHeader(p)
         /\ Byte(p + 3) \notin {186, 187, 190, 191} \cup Elementary => Abstract!HeaderSize(p) = 4
BY DEF Abstract!HeaderSize, Abstract!StreamId, Abstract!Elementary, Elementary, Byte

\* Such a header is at least as long as its stuffing, and what comes after that.
LEMMA ElementaryAtLeast ==
  ASSUME stream \in Seq(0..255), NEW p \in Nat, NEW i \in Nat, i >= 6, p + i <= Len(stream) + 6,
         \A k \in 6..(i - 1) : Byte(p + k) \div 64 = 3
  PROVE  Abstract!ElementaryHeader(p) \in Nat /\ Abstract!ElementaryHeader(p) >= i + 1
<1> DEFINE S == {j \in Nat : j >= i /\ Byte(p + j) \div 64 # 3}
<1>1. PICK e \in Nat : p + e = Len(stream) + 6 /\ e >= i
  <2>1. Len(stream) \in Nat
    OBVIOUS
  <2>2. Len(stream) + 6 - p \in Nat
    BY <2>1
  <2> QED
    BY <2>1, <2>2
<1>2. e \in S
  <2>1. Byte(p + e) = 0
    BY <1>1, ByteTypes
  <2>2. Byte(p + e) \div 64 = 0
    BY <2>1
  <2> QED
    BY <1>1, <2>2
<1>3. PICK j \in S : \A m \in S : j <= m
  <2>1. S \in SUBSET Nat /\ S # {}
    BY <1>2
  <2> HIDE DEF S
  <2> QED
    BY <2>1, LeastNumber
<1>4. j \in Nat /\ j >= i /\ p + j <= Len(stream) + 6 /\ Byte(p + j) \div 64 # 3
  <2>1. j <= e
    BY <1>2, <1>3
  <2> QED
    BY <1>1, <1>3, <2>1
<1>5. \A k \in 6..(j - 1) : Byte(p + k) \div 64 = 3
  <2> SUFFICES ASSUME NEW k \in 6..(j - 1)
               PROVE  Byte(p + k) \div 64 = 3
    OBVIOUS
  <2>1. CASE k < i
    <3>1. k \in 6..(i - 1)
      BY <1>4, <2>1
    <3> QED
      BY <3>1
  <2>2. CASE k >= i
    BY <1>3, <1>4, <2>2
  <2> QED
    BY <1>4, <2>1, <2>2
<1> DEFINE b == Byte(p + j + 2)
           h == IF Byte(p + j) \div 64 = 1 THEN j + 2 ELSE j
           s == Stamps(Byte(p + h))
<1>6. b \in 0..255 /\ s \in {0, 4, 9} /\ h \in Nat /\ h >= j
  <2>1. b \in 0..255
    BY <1>4, ByteTypes, SMTT(30)
  <2>2. s \in {0, 4, 9}
    BY DEF Stamps
  <2> QED
    BY <1>4, <2>1, <2>2
<1>7. Abstract!ElementaryHeader(p) = IF Byte(p + j) \div 64 = 2 THEN j + 3 + b ELSE h + 1 + s
  <2>1. h = IF Byte(p + j) \div 64 = 1 THEN j + 2 ELSE j
    OBVIOUS
  <2>2. j >= 6
    BY <1>4
  <2> HIDE DEF h
  <2> QED
    BY <1>4, <1>5, <2>1, <2>2, ElementaryHeaderIs, ZenonT(60)
<1> HIDE DEF b, h, s, S
<1> QED
  BY <1>4, <1>6, <1>7

\* The header is at least as long as the bytes at hand say.
LEMMA ElementaryAgrees ==
  ASSUME stream \in Seq(0..255), NEW p \in Nat, NEW n \in Nat, n >= 7, NEW v, Read(v, n, p),
         NEW i \in 6..n, IsIndex(v, n, i)
  PROVE  /\ SizeAt(v, n, i) \in 1..n => Abstract!ElementaryHeader(p) = SizeAt(v, n, i)
         /\ Abstract!ElementaryHeader(p) \in Nat
         /\ Abs(SizeAt(v, n, i)) <= Abstract!ElementaryHeader(p)
<1>0. Len(stream) \in Nat /\ \A k \in 0..(n - 1) : v[k] = Byte(p + k)
  BY DEF Read
<1>1. \A k \in 6..(i - 1) : Byte(p + k) \div 64 = 3
  <2> SUFFICES ASSUME NEW k \in 6..(i - 1)
               PROVE  Byte(p + k) \div 64 = 3
    OBVIOUS
  <2>1. k \in 0..(n - 1) /\ v[k] \div 64 = 3
    BY DEF IsIndex
  <2> QED
    BY <1>0, <2>1
<1>2. p + i <= Len(stream) + 6
  BY <1>0 DEF Read
<1>3. CASE i < n
  <2> DEFINE j == IF Byte(p + i) \div 64 = 1 THEN i + 2 ELSE i
             b == Byte(p + i + 2)
             s == Stamps(Byte(p + j))
  <2>1. v[i] = Byte(p + i) /\ Byte(p + i) \div 64 # 3
    BY <1>0, <1>3 DEF IsIndex
  <2>2. Abstract!ElementaryHeader(p) =
          IF Byte(p + i) \div 64 = 2 THEN i + 3 + b ELSE j + 1 + s
    <3>1. j = IF Byte(p + i) \div 64 = 1 THEN i + 2 ELSE i
      OBVIOUS
    <3>2. i \in Nat /\ i >= 6
      OBVIOUS
    <3> HIDE DEF j
    <3> QED
      BY <1>1, <1>2, <2>1, <3>1, <3>2, ElementaryHeaderIs, ZenonT(60)
  <2>3. CASE v[i] \div 64 = 2
    <3>1. SizeAt(v, n, i) = IF i + 2 >= n THEN -(i + 3) ELSE i + 3 + v[i + 2]
      BY <1>3, <2>3 DEF SizeAt
    <3>2. i + 2 < n => v[i + 2] = Byte(p + (i + 2))
      BY <1>0
    <3>3. p + (i + 2) = p + i + 2 /\ b \in 0..255
      BY ByteTypes
    <3>4. i + 2 < n => v[i + 2] = b
      BY <3>2, <3>3
    <3>5. Abstract!ElementaryHeader(p) = i + 3 + b
      BY <2>1, <2>2, <2>3
    <3> HIDE DEF b
    <3>6. SizeAt(v, n, i) = -(i + 3) \/ SizeAt(v, n, i) = i + 3 + b
      BY <3>1, <3>4
    <3>7. b \in 0..255
      BY <3>3
    <3>8. Abs(-(i + 3)) = i + 3 /\ Abs(i + 3 + b) = i + 3 + b
      BY <3>7 DEF Abs
    <3>9. SizeAt(v, n, i) \in 1..n => SizeAt(v, n, i) = i + 3 + b
      BY <3>6
    <3> QED
      BY <3>5, <3>6, <3>7, <3>8, <3>9
  <2>4. CASE v[i] \div 64 # 2
    <3>1. SizeAt(v, n, i) = IF j >= n THEN -(j + 1) ELSE j + 1 + Stamps(v[j])
      BY <1>3, <2>1, <2>4 DEF SizeAt
    <3>2. j < n => Stamps(v[j]) = s
      BY <1>0
    <3>3. s \in {0, 4, 9} /\ j \in Nat
      BY DEF Stamps
    <3>4. Abstract!ElementaryHeader(p) = j + 1 + s
      BY <2>1, <2>2, <2>4
    <3> HIDE DEF j, s
    <3> QED
      BY <3>1, <3>2, <3>3, <3>4 DEF Abs
  <2> QED
    BY <2>3, <2>4
<1>4. CASE i = n
  <2>1. SizeAt(v, n, i) = -(n + 1)
    BY <1>4 DEF SizeAt
  <2>2. Abstract!ElementaryHeader(p) \in Nat /\ Abstract!ElementaryHeader(p) >= n + 1
    <3>1. i \in Nat /\ i >= 6
      OBVIOUS
    <3>2. Abstract!ElementaryHeader(p) \in Nat /\ Abstract!ElementaryHeader(p) >= i + 1
      BY <1>1, <1>2, <3>1, ElementaryAtLeast
    <3> QED
      BY <1>4, <3>2
  <2> QED
    BY <2>1, <2>2 DEF Abs
<1> QED
  BY <1>3, <1>4

\* A header that lies in the bytes at hand has the size PesStream says.
LEMMA HeaderSizeAgrees ==
  ASSUME stream \in Seq(0..255), NEW p \in Nat, NEW n \in Nat, n >= 4, NEW v, Read(v, n, p),
         HeaderSize(v, n) \in 1..n
  PROVE  Abstract!HeaderSize(p) = HeaderSize(v, n)
<1>0. Bytes(v, n) /\ \A k \in 0..(n - 1) : v[k] = Byte(p + k)
  BY ReadBytes DEF Read
<1>1. v[3] = Byte(p + 3)
  BY <1>0
<1>2. CASE v[3] = 186
  <2>1. v[4] = Byte(p + 4)
    BY <1>0, <1>2, PackSize
  <2>2. n >= 14 => v[13] = Byte(p + 13)
    BY <1>0
  <2> QED
    BY <1>0, <1>1, <1>2, <2>1, <2>2, PackSize, AbstractSizeIs, SMTT(30)
<1>3. CASE v[3] = 187
  <2>1. n >= 6 /\ HeaderSize(v, n) = 6 + 256 * v[4] + v[5]
    BY <1>0, <1>3, SystemSize
  <2>2. v[4] = Byte(p + 4) /\ v[5] = Byte(p + 4 + 1)
    <3>1. v[5] = Byte(p + 5) /\ p + 4 + 1 = p + 5
      BY <1>0, <2>1
    <3> QED
      BY <1>0, <2>1, <3>1
  <2>3. Abstract!HeaderSize(p) = 6 + (256 * Byte(p + 4) + Byte(p + 4 + 1))
    BY <1>1, <1>3, AbstractSizeIs DEF Abstract!Word, Byte
  <2>4. v[4] \in 0..255 /\ v[5] \in 0..255
    BY <1>0, <2>1 DEF Bytes
  <2> DEFINE a == v[4]
             b == v[5]
  <2>5. /\ HeaderSize(v, n) = 6 + 256 * a + b
        /\ Abstract!HeaderSize(p) = 6 + (256 * a + b)
        /\ a \in 0..255 /\ b \in 0..255
    BY <2>1, <2>2, <2>3, <2>4
  <2> HIDE DEF a, b
  <2> QED
    BY <2>5
<1>4. CASE v[3] \in {190, 191}
  BY <1>1, <1>4, HeaderSizeIs, AbstractSizeIs
<1>5. CASE v[3] \in Elementary
  <2>1. n >= 7
    BY <1>5, HeaderSizeIs
  <2>2. PICK i \in 6..n : IsIndex(v, n, i) /\ ElementarySize(v, n) = SizeAt(v, n, i)
    BY <2>1, ElementaryIs
  <2>3. HeaderSize(v, n) = SizeAt(v, n, i)
    BY <1>5, <2>1, <2>2, HeaderSizeIs
  <2>4. Abstract!ElementaryHeader(p) = SizeAt(v, n, i)
    BY <2>1, <2>2, <2>3, ElementaryAgrees
  <2> QED
    BY <1>1, <1>5, <2>3, <2>4, AbstractSizeIs
<1>6. CASE v[3] \notin {186, 187, 190, 191} \cup Elementary
  BY <1>1, <1>6, HeaderSizeIs, AbstractSizeIs
<1> QED
  BY <1>2, <1>3, <1>4, <1>5, <1>6

\* No more bytes are asked for than the header has.
LEMMA HeaderSizeBelow ==
  ASSUME stream \in Seq(0..255), NEW p \in Nat, NEW n \in Nat, n >= 4, NEW v, Read(v, n, p)
  PROVE  Abstract!HeaderSize(p) \in Nat /\ Abs(HeaderSize(v, n)) <= Abstract!HeaderSize(p)
<1>0. Bytes(v, n) /\ \A k \in 0..(n - 1) : v[k] = Byte(p + k)
  BY ReadBytes DEF Read
<1>1. v[3] = Byte(p + 3)
  BY <1>0
<1>2. CASE v[3] = 186
  <2> DEFINE b == Byte(p + 13)
  <2>1. b \in 0..255 /\ (b % 8) \in 0..7
    <3>1. b \in 0..255
      BY ByteTypes
    <3> HIDE DEF b
    <3> QED
      BY <3>1
  <2>2. n >= 5 => v[4] = Byte(p + 4)
    BY <1>0
  <2>3. n >= 14 => v[13] = b
    BY <1>0
  <2>4. Abstract!HeaderSize(p) = IF Byte(p + 4) \div 64 = 1 THEN 14 + (b % 8) ELSE 12
    BY <1>1, <1>2, AbstractSizeIs
  <2> DEFINE m == b % 8
  <2>5. m \in 0..7 /\ (n >= 14 => v[13] % 8 = m)
    BY <2>1, <2>3
  <2>6. Abstract!HeaderSize(p) = IF Byte(p + 4) \div 64 = 1 THEN 14 + m ELSE 12
    BY <2>4
  <2> HIDE DEF b, m
  <2>7. n < 5 => Abstract!HeaderSize(p) \in Nat /\ Abs(HeaderSize(v, n)) <= Abstract!HeaderSize(p)
    BY <1>2, <2>5, <2>6, HeaderSizeIs DEF Abs
  <2>8. n >= 5 => Abstract!HeaderSize(p) \in Nat /\ Abs(HeaderSize(v, n)) <= Abstract!HeaderSize(p)
    <3>1. n >= 5 => \/ HeaderSize(v, n) = 12 /\ v[4] \div 64 # 1
                    \/ HeaderSize(v, n) = -14 /\ n < 14 /\ v[4] \div 64 = 1
                    \/ HeaderSize(v, n) = 14 + m /\ v[4] \div 64 = 1
      BY <1>0, <1>2, <2>5, PackSize
    <3> QED
      BY <2>2, <2>5, <2>6, <3>1 DEF Abs
  <2> QED
    BY <2>7, <2>8
<1>3. CASE v[3] = 187
  <2> DEFINE a == Byte(p + 4)
             b == Byte(p + 4 + 1)
  <2>1. a \in 0..255 /\ b \in 0..255
    BY ByteTypes
  <2>2. Abstract!HeaderSize(p) = 6 + (256 * a + b)
    BY <1>1, <1>3, AbstractSizeIs DEF Abstract!Word, Byte
  <2>3. n >= 6 => v[4] = a /\ v[5] = b
    <3>1. p + 4 + 1 = p + 5
      OBVIOUS
    <3> QED
      BY <1>0, <3>1
  <2> HIDE DEF a, b
  <2>4. 6 + 256 * a + b = 6 + (256 * a + b) /\ 6 + 256 * a + b >= 6
    BY <2>1
  <2>5. CASE n >= 6
    <3>1. HeaderSize(v, n) = 6 + 256 * a + b
      BY <1>0, <1>3, <2>3, <2>5, SystemSize
    <3> QED
      BY <2>1, <2>2, <2>4, <3>1 DEF Abs
  <2>6. CASE n < 6
    <3>1. HeaderSize(v, n) = -6
      BY <1>3, <2>6, HeaderSizeIs
    <3> QED
      BY <2>1, <2>2, <2>4, <3>1 DEF Abs
  <2> QED
    BY <2>5, <2>6
<1>4. CASE v[3] \in {190, 191}
  BY <1>1, <1>4, HeaderSizeIs, AbstractSizeIs DEF Abs
<1>5. CASE v[3] \in Elementary /\ n >= 7
  <2>2. PICK i \in 6..n : IsIndex(v, n, i) /\ ElementarySize(v, n) = SizeAt(v, n, i)
    BY <1>5, ElementaryIs
  <2>3. HeaderSize(v, n) = SizeAt(v, n, i)
    BY <1>5, <2>2, HeaderSizeIs
  <2>4. Abstract!ElementaryHeader(p) \in Nat /\ Abs(SizeAt(v, n, i)) <= Abstract!ElementaryHeader(p)
    BY <1>5, <2>2, ElementaryAgrees
  <2> QED
    BY <1>1, <1>5, <2>3, <2>4, AbstractSizeIs
<1>6. CASE v[3] \in Elementary /\ n < 7
  <2>1. Abs(HeaderSize(v, n)) = 7
    BY <1>6, HeaderSizeIs DEF Abs
  <2>2. p + 6 <= Len(stream) + 6
    BY DEF Read
  <2> PICK i \in Nat : i = 6
    OBVIOUS
  <2>3. Abstract!ElementaryHeader(p) \in Nat /\ Abstract!ElementaryHeader(p) >= i + 1
    <3>1. i >= 6 /\ p + i <= Len(stream) + 6 /\ \A k \in 6..(i - 1) : Byte(p + k) \div 64 = 3
      BY <2>2
    <3> QED
      BY <3>1, ElementaryAtLeast
  <2> QED
    BY <1>1, <1>6, <2>1, <2>3, AbstractSizeIs
<1>7. CASE v[3] \notin {186, 187, 190, 191} \cup Elementary
  BY <1>1, <1>7, HeaderSizeIs, AbstractSizeIs DEF Abs
<1> QED
  BY <1>2, <1>3, <1>4, <1>5, <1>6, <1>7

-----------------------------------------------------------------------------
(* The invariant of all runs.                                              *)

\* hbuff does not overflow, and the header would fit into it.
HeaderFits ==
  /\ mode \in {"Sync", "GetHeader"} => have <= HbuffSize
  /\ headerSize <= HbuffSize

InPacket == mode \in {"Payload", "DataPut", "DataReady"}

\* The chunk is a part of the stream; a header in the chunk lies within it.
Input ==
  /\ base + len <= Len(stream)
  /\ SOP = outputHeader
  /\ header # Hbuff => header + headerSize <= BuffSize

\* While a header is collected in hbuff, no more bytes are there than were needed: at
\* first four, or those left of a chunk that turned out to begin a header; then as many
\* as the size asked for that was computed from fewer of them.
Collecting ==
  /\ mode \in {"FastSync", "Sync", "GetHeader", "HeaderOk"} => SOP
  /\ mode \in {"FastSync", "Sync", "GetHeader"} => ~unsavedHeader
  /\ mode \in {"Sync", "GetHeader"} => used <= len /\ have <= base + used
  /\ mode \in {"FastSync", "Sync"} => need = 0
  /\ mode = "Sync" =>
       /\ old >= 1
       /\ have > 4 => /\ have = old /\ StartCode(Val(hbuff))
                      /\ Abs(HeaderSize(Val(hbuff), have)) >= have
  /\ mode = "GetHeader" =>
       /\ have <= need
       /\ \E n \in 4..have : need = Abs(HeaderSize(Val(hbuff), n))

\* A header that is complete has a type, and a size if its type has one.  It is in the
\* chunk only until Process returns.
HeaderKnown ==
  /\ mode = "HeaderOk" =>
       /\ headerSize >= 4 /\ (Header(3).val \in Sized => headerSize >= 6)
       /\ need > 0 => have = need
       /\ header # Hbuff => unsavedHeader /\ (running \/ failed)
  /\ InPacket /\ type \in Sized => headerSize >= 6
  /\ mode \in {"DataPut", "DataReady"} => ~SOP
  /\ mode = "Payload" => have <= payloadSize
  /\ mode = "DataPut" /\ payloadSize # 0 => need \in 1..rest /\ (running \/ failed)

Inv == TypeOK /\ Input /\ Collecting /\ HeaderKnown /\ HeaderFits

-----------------------------------------------------------------------------
(* What the actions read and write has its type.                           *)

Chunks == [0..(BuffSize - 1) -> CellType]
Hbuffs == [0..(HbuffSize - 1) -> CellType]

LEMMA StreamTypes ==
  ASSUME TypeOK
  PROVE  stream \in Seq(0..255) /\ Len(stream) \in Nat
BY PesAssumption DEF TypeOK

\* A byte in the chunk.
LEMMA ChunkTypes ==
  ASSUME TypeOK, NEW i \in 0..(rest - 1)
  PROVE  c[i] = buff[used + i] /\ c[i] \in CellType /\ Val(c)[i] = c[i].val /\ Val(c)[i] \in 0..255
<1>1. used + i \in 0..(BuffSize - 1) /\ DOMAIN c = 0..(rest - 1)
  BY PesAssumption DEF TypeOK, rest, c
<1>2. c[i] = buff[used + i] /\ c[i] \in CellType
  BY <1>1 DEF c, TypeOK
<1> QED
  BY <1>1, <1>2 DEF Val, CellType

\* A byte in hbuff.
LEMMA HbuffTypes ==
  ASSUME TypeOK, NEW i \in 0..(HbuffSize - 1)
  PROVE  hbuff[i] \in CellType /\ Val(hbuff)[i] = hbuff[i].val /\ Val(hbuff)[i] \in 0..255
BY PesAssumption, ZenonT(60) DEF TypeOK, Val, CellType

\* A byte of the header.
LEMMA HeaderTypes ==
  ASSUME TypeOK, Input, headerSize <= HbuffSize, NEW i \in 0..(headerSize - 1)
  PROVE  Header(i) \in CellType /\ Header(i).val \in 0..255
<1>1. Header(i) \in CellType
  <2>1. CASE header = Hbuff
    <3>1. i \in 0..(HbuffSize - 1)
      BY PesAssumption DEF TypeOK
    <3> QED
      BY <2>1, <3>1, HbuffTypes DEF Header
  <2>2. CASE header # Hbuff
    <3>1. header + i \in 0..(BuffSize - 1)
      BY <2>2, PesAssumption DEF TypeOK, Input, Hbuff
    <3> QED
      BY <2>2, <3>1 DEF Header, TypeOK
  <2> QED
    BY <2>1, <2>2
<1> QED
  BY <1>1 DEF CellType

LEMMA HeaderBytesTypes ==
  ASSUME TypeOK, Input, headerSize <= HbuffSize
  PROVE  HeaderBytes \in Seq(CellType) /\ Len(HeaderBytes) = headerSize
<1>1. headerSize \in Nat
  BY DEF TypeOK
<1>2. \A i \in 1..headerSize : Header(i - 1) \in CellType
  BY <1>1, HeaderTypes
<1>3. HeaderBytes \in [1..headerSize -> CellType]
  BY <1>2 DEF HeaderBytes
<1> QED
  BY <1>1, <1>3

\* What Put hands on, of the header or of the chunk.
LEMMA PutTypes ==
  ASSUME TypeOK, NEW n \in Int, NEW s, NEW head \in Seq(CellType),
         n >= 0 /\ ~outputHeader /\ s # 0 => n <= rest,
         Put(n, s, head)
  PROVE  /\ out' \in Seq(CellType) /\ need' \in Nat /\ need' = Abs(n)
         /\ SOP' = FALSE /\ outputHeader' = FALSE
         /\ mode' = IF n >= 0 /\ outputHeader THEN "DataPut" ELSE "DataReady"
<1>0. out \in Seq(CellType)
  BY DEF TypeOK
<1>1. CASE n >= 0 /\ outputHeader
  <2>1. out' = out \o head
    BY <1>1 DEF Put
  <2> QED
    BY <1>0, <1>1, <2>1, ConcatProperties DEF Put, Abs
<1>2. CASE n >= 0 /\ ~outputHeader /\ s # 0
  <2> DEFINE d == [i \in 1..n |-> c[i - 1]]
  <2>1. out' = out \o d
    BY <1>2 DEF Put
  <2>2. \A i \in 1..n : c[i - 1] \in CellType
    <3> SUFFICES ASSUME NEW i \in 1..n
                 PROVE  c[i - 1] \in CellType
      OBVIOUS
    <3>1. i - 1 \in 0..(rest - 1)
      BY <1>2 DEF TypeOK, rest
    <3> QED
      BY <3>1, ChunkTypes
  <2>3. n \in Nat
    BY <1>2
  <2>4. d \in Seq(CellType)
    BY <2>2, <2>3, IsASeq
  <2> HIDE DEF d
  <2>5. out' \in Seq(CellType)
    BY <1>0, <2>1, <2>4, ConcatProperties
  <2> QED
    BY <1>2, <2>3, <2>5 DEF Put, Abs
<1>3. CASE ~(n >= 0 /\ outputHeader) /\ ~(n >= 0 /\ ~outputHeader /\ s # 0)
  <2>1. out' = out
    BY <1>3 DEF Put
  <2> QED
    BY <1>0, <1>3, <2>1 DEF Put, Abs
<1> QED
  BY <1>1, <1>2, <1>3

LEMMA ModifyTypes ==
  ASSUME NEW N \in Nat, NEW b \in [0..N -> CellType], NEW at \in Int, NEW mod \in Int,
         Header(4).val \in 0..255, Header(5).val \in 0..255
  PROVE  /\ Modify(b, at, mod) \in [0..N -> CellType]
         /\ \A i \in 0..N : i # at + 4 /\ i # at + 5 => Modify(b, at, mod)[i] = b[i]
         /\ \A i \in 0..N : Modify(b, at, mod)[i].at = b[i].at
<1> DEFINE size == 256 * Header(4).val + Header(5).val + mod
           hi == (size \div 256) % 256
           lo == size % 256
           field == [i \in {4, 5} |-> IF i = 4 THEN hi ELSE lo]
           new(i) == [at |-> b[i].at, val |-> field[i - at]]
<1>1. hi \in 0..255 /\ lo \in 0..255
  <2> DEFINE x == Header(4).val
             y == Header(5).val
  <2>1. x \in 0..255 /\ y \in 0..255
    OBVIOUS
  <2> HIDE DEF x, y
  <2>2. 256 * x + y + mod \in Int
    BY <2>1
  <2>3. size \in Int
    BY <2>2 DEF x, y
  <2> HIDE DEF size
  <2> QED
    BY <2>3
<1>2. \A i \in {4, 5} : field[i] \in 0..255
  <2> HIDE DEF hi, lo
  <2> QED
    BY <1>1
<1>3. Modify(b, at, mod) = [i \in 0..N |-> IF i - at \in {4, 5} THEN new(i) ELSE b[i]]
  BY DEF Modify
<1> HIDE DEF field
<1>4. \A i \in 0..N : i - at \in {4, 5} => new(i) \in CellType
  BY <1>2, ZenonT(60) DEF CellType
<1>5. \A i \in 0..N : b[i] \in CellType
  OBVIOUS
<1>6. \A i \in 0..N : new(i).at = b[i].at
  OBVIOUS
<1> HIDE DEF new
<1> QED
  BY <1>3, <1>4, <1>5, <1>6

-----------------------------------------------------------------------------
(* The initial state, and each action.                                     *)

\* The same, of all cells at once.
Elsewhere(new, b, at, N) == \A q \in 0..N : q # at + 4 /\ q # at + 5 => new[q] = b[q]

LEMMA ModifyElsewhere ==
  ASSUME NEW N \in Nat, NEW b \in [0..N -> CellType], NEW at \in Int, NEW mod \in Int,
         Header(4).val \in 0..255, Header(5).val \in 0..255
  PROVE  Elsewhere(Modify(b, at, mod), b, at, N)
BY ModifyTypes DEF Elsewhere

\* In the initial state nothing has been read.
LEMMA InitInv == Init => Inv
<1> SUFFICES ASSUME Init
             PROVE  Inv
  OBVIOUS
<1>0. /\ stream \in Seq(0..255) /\ Len(stream) \in Nat
      /\ BuffSize \in Nat \ {0} /\ HbuffSize \in Nat
  <2>1. stream \in Seq(0..255)
    BY PesAssumption DEF Init
  <2> QED
    BY <2>1, PesAssumption
<1>1. NoCell \in CellType
  BY <1>0, PesAssumption DEF NoCell, CellType
<1>2. buff \in Chunks /\ hbuff \in Hbuffs
  BY <1>1 DEF Init, Chunks, Hbuffs
<1>3. /\ running \in BOOLEAN /\ failed \in BOOLEAN /\ unsavedHeader \in BOOLEAN
      /\ outputHeader \in BOOLEAN /\ SOP \in BOOLEAN /\ short \in BOOLEAN
  BY DEF Init
<1>4. out \in Seq(CellType)
  BY EmptySeq DEF Init
<1>5. TypeOK
  BY <1>0, <1>2, <1>3, <1>4 DEF Init, TypeOK, Chunks, Hbuffs, Hbuff
<1>6. Input
  BY <1>0 DEF Init, Input
<1>7. Collecting /\ HeaderKnown /\ HeaderFits
  BY <1>0 DEF Init, Collecting, HeaderKnown, HeaderFits, InPacket
<1> QED
  BY <1>5, <1>6, <1>7 DEF Inv

\* A chunk is read.
LEMMA ProcessInv ==
  ASSUME Inv, NEW n \in ChunkSizes, Process(n)
  PROVE  TypeOK' /\ Input' /\ Collecting' /\ HeaderKnown'
<1>0. /\ TypeOK /\ Input /\ n \in 1..BuffSize /\ n <= Len(stream) - (base + len)
      /\ stream \in Seq(0..255) /\ Len(stream) \in Nat /\ BuffSize \in Nat \ {0}
      /\ ~running /\ ~failed
  BY StreamTypes, PesAssumption DEF Inv, Process
<1>1. /\ base' = base + len /\ len' = n /\ used' = 0 /\ running' = TRUE
      /\ buff' = [i \in 0..(BuffSize - 1) |->
                    IF i < n THEN [at |-> base + len + i, val |-> stream[base + len + i + 1]]
                    ELSE buff[i]]
      /\ short' = (short \/ n < 4)
      /\ UNCHANGED <<conf, stream, mode, hbuff, have, need, old, header, headerSize,
                     payloadSize, type, start, unsavedHeader, outputHeader, SOP, failed, out>>
  BY DEF Process, buffer, packet, flags, result
<1>2. \A i \in 0..(n - 1) :
        [at |-> base + len + i, val |-> stream[base + len + i + 1]] \in CellType
  <2> SUFFICES ASSUME NEW i \in 0..(n - 1)
               PROVE  [at |-> base + len + i, val |-> stream[base + len + i + 1]] \in CellType
    OBVIOUS
  <2>1. base + len + i + 1 \in 1..Len(stream) /\ base + len + i \in -1..(Len(stream) - 1)
    BY <1>0, SMTT(30) DEF TypeOK
  <2>2. stream[base + len + i + 1] \in 0..255
    BY <1>0, <2>1, ElementOfSeq
  <2> QED
    BY <2>1, <2>2 DEF CellType
<1>3. buff' \in Chunks
  <2>1. \A i \in 0..(BuffSize - 1) : buff[i] \in CellType
    BY <1>0 DEF TypeOK
  <2>2. \A i \in 0..(BuffSize - 1) :
          (IF i < n THEN [at |-> base + len + i, val |-> stream[base + len + i + 1]]
           ELSE buff[i]) \in CellType
    BY <1>0, <1>2, <2>1
  <2> QED
    BY <1>1, <2>2 DEF Chunks
<1>4. base' + len' <= Len(stream) /\ base' \in 0..Len(stream) /\ len' \in 0..BuffSize /\ used' \in Nat
  BY <1>0, <1>1 DEF TypeOK, Input
<1>5. running' \in BOOLEAN /\ short' \in BOOLEAN
  BY <1>1
<1>6. TypeOK'
  <2>1. CellType' = CellType
    BY <1>1 DEF CellType
  <2> QED
    BY <1>0, <1>1, <1>3, <1>4, <1>5, <2>1 DEF TypeOK, Chunks
<1>7. Input'
  BY <1>0, <1>1, <1>4 DEF Input
<1>8. Collecting'
  <2>1. mode \in {"Sync", "GetHeader"} => used' <= len' /\ have <= base' + used'
    <3>1. mode \in {"Sync", "GetHeader"} => used <= len /\ have <= base + used
      BY DEF Inv, Collecting
    <3>2. used \in Nat /\ base \in Nat /\ len \in Nat /\ have \in Nat
      BY <1>0 DEF TypeOK
    <3> QED
      BY <1>0, <1>1, <3>1, <3>2
  <2> QED
    BY <1>1, <2>1 DEF Inv, Collecting, Val
<1>9. HeaderKnown'
  <2>1. mode = "HeaderOk" => header = Hbuff
    BY <1>0 DEF Inv, HeaderKnown
  <2>2. header = Hbuff => Header(3)' = Header(3)
    BY <1>1 DEF Header
  <2>3. ~(mode = "DataPut" /\ payloadSize # 0)
    BY <1>0 DEF Inv, HeaderKnown
  <2> QED
    BY <1>1, <2>1, <2>2, <2>3 DEF Inv, HeaderKnown, InPacket
<1> QED
  BY <1>6, <1>7, <1>8, <1>9

\* Process returns: a header in the chunk goes to hbuff.
LEMMA ReturnInv ==
  ASSUME Inv, Return
  PROVE  TypeOK' /\ Input' /\ Collecting' /\ HeaderKnown'
<1>0. /\ TypeOK /\ Input /\ headerSize <= HbuffSize /\ used >= len /\ used \in Nat /\ len \in Nat
      /\ HbuffSize \in Nat /\ HbuffSize > 14 /\ headerSize \in Nat /\ BuffSize \in Nat \ {0}
  BY PesAssumption DEF Inv, Return, HeaderFits, TypeOK
<1>1. /\ running' = FALSE /\ used' = len
      /\ UNCHANGED <<conf, stream, buff, base, len, short, mode, have, need, old, headerSize,
                     payloadSize, type, start, outputHeader, SOP, failed, out>>
  BY DEF Return, input, result
<1> DEFINE saved == [i \in DOMAIN hbuff |-> IF i < headerSize THEN Header(i) ELSE hbuff[i]]
<1>2. \/ SOP /\ unsavedHeader /\ hbuff' = saved /\ header' = Hbuff /\ unsavedHeader' = FALSE
      \/ ~(SOP /\ unsavedHeader) /\ UNCHANGED <<hbuff, header, unsavedHeader>>
  BY <1>0 DEF Return, SaveHeader
<1>3. saved \in Hbuffs /\ \A i \in 0..(headerSize - 1) : saved[i] = Header(i)
  <2>1. \A i \in 0..(HbuffSize - 1) : (IF i < headerSize THEN Header(i) ELSE hbuff[i]) \in CellType
    BY <1>0, HeaderTypes, HbuffTypes
  <2>2. DOMAIN hbuff = 0..(HbuffSize - 1)
    BY <1>0 DEF TypeOK
  <2> QED
    BY <1>0, <2>1, <2>2 DEF Hbuffs
<1>4. hbuff \in Hbuffs
  BY <1>0 DEF TypeOK, Hbuffs
<1> HIDE DEF saved
<1>5. TypeOK'
  <2>1. CellType' = CellType
    BY <1>1 DEF CellType
  <2>2. hbuff' \in [0..(HbuffSize - 1) -> CellType]
    BY <1>2, <1>3, <1>4 DEF Hbuffs
  <2>3. running' \in BOOLEAN /\ unsavedHeader' \in BOOLEAN
    BY <1>0, <1>1, <1>2 DEF TypeOK
  <2>4. used' \in Nat /\ header' \in -1..(BuffSize - 1)
    BY <1>0, <1>1, <1>2 DEF TypeOK, Hbuff
  <2> QED
    BY <1>0, <1>1, <2>1, <2>2, <2>3, <2>4 DEF TypeOK
<1>6. Input'
  BY <1>0, <1>1, <1>2 DEF Input
<1>7. Collecting'
  <2>1. mode \in {"FastSync", "Sync", "GetHeader"} => UNCHANGED <<hbuff, unsavedHeader>>
    BY <1>2 DEF Inv, Collecting
  <2>2. mode \in {"Sync", "GetHeader"} => used' <= len' /\ have <= base' + used'
    <3>1. mode \in {"Sync", "GetHeader"} => used <= len /\ have <= base + used
      BY DEF Inv, Collecting
    <3> QED
      BY <1>0, <1>1, <3>1
  <2> QED
    BY <1>1, <2>1, <2>2 DEF Inv, Collecting, Val
<1>8. HeaderKnown'
  <2>1. ASSUME mode = "HeaderOk"
        PROVE  header' = Hbuff /\ Header(3)' = Header(3)
    <3>1. headerSize >= 4 /\ SOP /\ (header # Hbuff => unsavedHeader)
      BY <2>1 DEF Inv, Collecting, HeaderKnown
    <3>2. CASE hbuff' = saved /\ header' = Hbuff
      <4>1. Header(3)' = hbuff'[3]
        BY <3>2 DEF Header, Hbuff
      <4> QED
        BY <1>0, <1>3, <3>1, <3>2, <4>1
    <3>3. CASE ~(SOP /\ unsavedHeader) /\ UNCHANGED <<hbuff, header, unsavedHeader>>
      BY <1>1, <3>1, <3>3 DEF Header
    <3> QED
      BY <1>2, <3>2, <3>3
  <2>2. ~(mode = "DataPut" /\ payloadSize # 0)
    BY <1>0 DEF Inv, HeaderKnown, rest
  <2> QED
    BY <1>1, <2>1, <2>2 DEF Inv, HeaderKnown, InPacket
<1> QED
  BY <1>5, <1>6, <1>7, <1>8

\* The numbers an action computes with.
LEMMA Numbers ==
  ASSUME Inv
  PROVE  /\ TypeOK /\ Input /\ BuffSize \in Nat \ {0} /\ HbuffSize \in Nat /\ HbuffSize > 14
         /\ Len(stream) \in Nat /\ base \in Nat /\ len \in 0..BuffSize /\ used \in Nat
         /\ have \in Nat /\ need \in Nat /\ old \in Nat /\ headerSize \in 0..HbuffSize
BY StreamTypes, PesAssumption DEF Inv, HeaderFits, TypeOK

LEMMA BuffTypes ==
  ASSUME Inv
  PROVE  /\ buff \in [0..(BuffSize - 1) -> CellType] /\ BuffSize - 1 \in Nat
         /\ hbuff \in [0..(HbuffSize - 1) -> CellType] /\ HbuffSize - 1 \in Nat
         /\ header \in Int /\ header >= -1 /\ header <= BuffSize - 1
<1>1. TypeOK /\ BuffSize \in Nat \ {0} /\ HbuffSize \in Nat /\ HbuffSize > 14
  BY Numbers
<1>2. header \in -1..(BuffSize - 1)
  BY <1>1 DEF TypeOK
<1>3. buff \in [0..(BuffSize - 1) -> CellType] /\ hbuff \in [0..(HbuffSize - 1) -> CellType]
  BY <1>1 DEF TypeOK
<1> QED
  BY <1>1, <1>2, <1>3

LEMMA ChunkBytes ==
  ASSUME TypeOK
  PROVE  Bytes(Val(c), rest)
BY ChunkTypes DEF Bytes

LEMMA HbuffBytes ==
  ASSUME TypeOK, NEW n \in 0..HbuffSize
  PROVE  Bytes(Val(hbuff), n)
BY HbuffTypes, PesAssumption DEF Bytes

LEMMA NewSyncInv ==
  ASSUME Inv, NewSync
  PROVE  TypeOK' /\ Input' /\ Collecting' /\ HeaderKnown'
<1>0. TypeOK /\ Input
  BY Numbers
<1>1. /\ mode' = "FastSync" /\ have' = 0 /\ old' = 0 /\ need' = 0
      /\ unsavedHeader' = FALSE /\ outputHeader' = TRUE /\ SOP' = TRUE
      /\ UNCHANGED <<conf, stream, buff, base, len, short, used, running, hbuff, header,
                     headerSize, payloadSize, type, start, failed, out>>
  BY DEF NewSync, input, packet, result
<1>2. TypeOK'
  <2>1. CellType' = CellType
    BY <1>1 DEF CellType
  <2>2. unsavedHeader' \in BOOLEAN /\ outputHeader' \in BOOLEAN /\ SOP' \in BOOLEAN
    BY <1>1
  <2> QED
    BY <1>0, <1>1, <2>1, <2>2 DEF TypeOK
<1>3. Input'
  BY <1>0, <1>1 DEF Input
<1>4. Collecting' /\ HeaderKnown'
  BY <1>1 DEF Collecting, HeaderKnown, InPacket
<1> QED
  BY <1>2, <1>3, <1>4

LEMMA FastHitInv ==
  ASSUME Inv, FastHit
  PROVE  TypeOK' /\ Input' /\ Collecting' /\ HeaderKnown'
<1> DEFINE size == HeaderSize(Val(c), rest)
<1>0. /\ TypeOK /\ Input /\ BuffSize \in Nat \ {0} /\ Len(stream) \in Nat
      /\ base \in Nat /\ len \in 0..BuffSize /\ used \in Nat
  BY Numbers
<1>1. /\ running /\ used < len /\ mode = "FastSync" /\ mode' = "HeaderOk"
      /\ rest >= 4 /\ size > 0 /\ rest >= size
      /\ headerSize' = size /\ header' = used /\ unsavedHeader' = TRUE
      /\ used' = used + size /\ start' = base + used
      /\ UNCHANGED <<conf, stream, buff, base, len, short, running, hbuff, have, need, old,
                     payloadSize, type, outputHeader, SOP, failed, out>>
  BY DEF FastHit, In, input, buffer, result
<1>2. rest \in Nat /\ rest = len - used
  BY <1>0, <1>1 DEF rest
<1>3. size \in Nat /\ size >= 4 /\ (Val(c)[3] \in Sized => size >= 6)
  BY <1>0, <1>1, <1>2, ChunkBytes, HeaderSizeTypes DEF Abs
<1> HIDE DEF size
<1>4. Header(3)'.val = Val(c)[3]
  <2>1. Header(3)' = buff[used + 3]
    BY <1>0, <1>1 DEF Header, Hbuff
  <2>2. 3 \in 0..(rest - 1)
    BY <1>1, <1>2
  <2>3. Val(c)[3] = buff[used + 3].val
    BY <1>0, <2>2, ChunkTypes
  <2> QED
    BY <2>1, <2>3
<1>5. TypeOK'
  <2>1. CellType' = CellType
    BY <1>1 DEF CellType
  <2>2. unsavedHeader' \in BOOLEAN
    BY <1>1
  <2>3. header' \in -1..(BuffSize - 1) /\ used' \in Nat /\ start' \in 0..Len(stream)
    BY <1>0, <1>1, <1>2, <1>3 DEF Input
  <2> QED
    BY <1>0, <1>1, <1>3, <2>1, <2>2, <2>3 DEF TypeOK
<1>6. Input'
  BY <1>0, <1>1, <1>2, <1>3 DEF Input
<1>7. Collecting' /\ HeaderKnown'
  BY <1>1, <1>3, <1>4 DEF Inv, Collecting, HeaderKnown, InPacket
<1> QED
  BY <1>5, <1>6, <1>7

LEMMA FastSkipInv ==
  ASSUME Inv, FastSkip
  PROVE  TypeOK' /\ Input' /\ Collecting' /\ HeaderKnown'
<1>0. TypeOK /\ Input /\ used \in Nat
  BY Numbers
<1>1. /\ mode = "FastSync" /\ used' = used + SkipSize
      /\ UNCHANGED <<conf, stream, buff, base, len, short, running, mode, hbuff, have, need,
                     old, header, headerSize, payloadSize, type, start, unsavedHeader,
                     outputHeader, SOP, failed, out>>
  BY DEF FastSkip, In, input, buffer, packet, flags, result
<1>2. used' \in Nat
  BY <1>0, <1>1 DEF SkipSize
<1>3. TypeOK'
  <2>1. CellType' = CellType
    BY <1>1 DEF CellType
  <2> QED
    BY <1>0, <1>1, <1>2, <2>1 DEF TypeOK
<1>4. Input' /\ Collecting' /\ HeaderKnown'
  BY <1>0, <1>1 DEF Inv, Input, Collecting, HeaderKnown, InPacket
<1> QED
  BY <1>3, <1>4

LEMMA FastBufferInv ==
  ASSUME Inv, FastBuffer, HeaderFits'
  PROVE  TypeOK' /\ Input' /\ Collecting' /\ HeaderKnown'
<1>0. /\ TypeOK /\ Input /\ BuffSize \in Nat \ {0} /\ HbuffSize \in Nat
      /\ len \in 0..BuffSize /\ used \in Nat /\ base \in Nat
  BY Numbers
<1>1. /\ mode = "FastSync" /\ mode' = "Sync" /\ used < len
      /\ hbuff' = [i \in DOMAIN hbuff |-> IF i < rest THEN c[i] ELSE hbuff[i]]
      /\ have' = rest /\ old' = rest /\ used' = len
      /\ UNCHANGED <<conf, stream, buff, base, len, short, running, need, header, headerSize,
                     payloadSize, type, start, unsavedHeader, outputHeader, SOP, failed, out>>
  BY DEF FastBuffer, In, input, packet, flags, result
<1>2. rest >= 4 => StartCode(Val(c)) /\ HeaderSize(Val(c), rest) \notin 1..rest
  BY DEF FastBuffer
<1>3. rest \in Nat /\ rest >= 1 /\ rest <= HbuffSize
  BY <1>0, <1>1 DEF rest, HeaderFits
<1>4. hbuff' \in Hbuffs /\ \A i \in 0..(rest - 1) : hbuff'[i] = c[i]
  <2>1. DOMAIN hbuff = 0..(HbuffSize - 1)
    BY <1>0 DEF TypeOK
  <2>2. \A i \in 0..(HbuffSize - 1) : (IF i < rest THEN c[i] ELSE hbuff[i]) \in CellType
    BY <1>0, <1>3, ChunkTypes, HbuffTypes
  <2> QED
    BY <1>0, <1>1, <1>3, <2>1, <2>2 DEF Hbuffs
<1>5. \A i \in 0..(rest - 1) : Val(hbuff)'[i] = Val(c)[i]
  <2>1. DOMAIN hbuff' = 0..(HbuffSize - 1)
    BY <1>4 DEF Hbuffs
  <2> QED
    BY <1>0, <1>3, <1>4, <2>1, ChunkTypes DEF Val
<1>6. TypeOK'
  <2>1. CellType' = CellType
    BY <1>1 DEF CellType
  <2> QED
    BY <1>0, <1>1, <1>3, <1>4, <2>1 DEF TypeOK, Hbuffs
<1>7. Input'
  BY <1>0, <1>1 DEF Input
<1>8. ASSUME rest > 4
      PROVE  /\ StartCode(Val(hbuff)')
             /\ Abs(HeaderSize(Val(hbuff)', rest)) >= rest
  <2> DEFINE size == HeaderSize(Val(c), rest)
  <2>1. /\ size \in Int /\ Abs(size) \in Nat /\ Abs(size) >= 4
        /\ size < 0 => Abs(size) > rest
    BY <1>0, <1>3, ChunkBytes, HeaderSizeTypes
  <2>2. HeaderSize(Val(hbuff)', rest) = size
    BY <1>3, <1>5, HeaderSizeSame
  <2>3. StartCode(Val(c)) /\ size \notin 1..rest
    BY <1>2, <1>3, <1>8
  <2>4. StartCode(Val(hbuff)')
    <3>1. /\ Val(hbuff)'[0] = Val(c)[0] /\ Val(hbuff)'[1] = Val(c)[1]
          /\ Val(hbuff)'[2] = Val(c)[2]
      BY <1>3, <1>5, <1>8
    <3> QED
      BY <2>3, <3>1 DEF StartCode
  <2> HIDE DEF size
  <2>5. Abs(size) >= rest
    BY <1>3, <2>1, <2>3 DEF Abs
  <2> QED
    BY <2>2, <2>4, <2>5
<1>9. Collecting'
  <2>1. SOP /\ need = 0 /\ ~unsavedHeader
    BY <1>1 DEF Inv, Collecting
  <2>2. have' > 4 => /\ StartCode(Val(hbuff)')
                     /\ Abs(HeaderSize(Val(hbuff)', have')) >= have'
    BY <1>1, <1>8
  <2>3. used' <= len' /\ have' <= base' + used'
    BY <1>0, <1>1 DEF rest
  <2> QED
    BY <1>1, <1>3, <2>1, <2>2, <2>3 DEF Collecting
<1>10. HeaderKnown'
  BY <1>1 DEF Inv, HeaderKnown, InPacket
<1> QED
  BY <1>6, <1>7, <1>9, <1>10

LEMMA SyncFillInv ==
  ASSUME Inv, SyncFill
  PROVE  TypeOK' /\ Input' /\ Collecting' /\ HeaderKnown'
<1>0. /\ TypeOK /\ Input /\ len \in 0..BuffSize /\ used \in Nat /\ have \in Nat /\ base \in Nat
      /\ BuffSize \in Nat
  BY Numbers
<1>1. /\ mode = "Sync" /\ used < len /\ have < 4
      /\ hbuff' = [hbuff EXCEPT ![have] = c[0]]
      /\ have' = have + 1 /\ used' = used + 1
      /\ UNCHANGED <<conf, stream, buff, base, len, short, running, mode, need, old, header,
                     headerSize, payloadSize, type, start, unsavedHeader, outputHeader, SOP,
                     failed, out>>
  BY DEF SyncFill, In, input, packet, flags, result
<1>2. c[0] \in CellType
  <2>1. 0 \in 0..(rest - 1)
    BY <1>0, <1>1 DEF rest
  <2> QED
    BY <1>0, <2>1, ChunkTypes
<1>3. TypeOK'
  <2>1. CellType' = CellType
    BY <1>1 DEF CellType
  <2>2. hbuff' \in [0..(HbuffSize - 1) -> CellType]
    BY <1>0, <1>1, <1>2 DEF TypeOK
  <2> QED
    BY <1>0, <1>1, <2>1, <2>2 DEF TypeOK
<1>4. Input' /\ HeaderKnown'
  BY <1>0, <1>1 DEF Inv, Input, HeaderKnown, InPacket
<1>5. Collecting'
  BY <1>0, <1>1 DEF Inv, Collecting
<1> QED
  BY <1>3, <1>4, <1>5

LEMMA SyncHitInv ==
  ASSUME Inv, SyncHit
  PROVE  TypeOK' /\ Input' /\ Collecting' /\ HeaderKnown'
<1> DEFINE size == HeaderSize(Val(hbuff), have)
<1>0. /\ TypeOK /\ Input /\ len \in 0..BuffSize /\ used \in Nat /\ have \in Nat /\ base \in Nat
      /\ BuffSize \in Nat /\ Len(stream) \in Nat /\ HbuffSize \in Nat
  BY Numbers
<1>1. /\ mode = "Sync" /\ mode' = "GetHeader" /\ have >= 4
      /\ need' = Abs(size) /\ start' = base + used - have
      /\ UNCHANGED <<conf, stream, buff, base, len, short, used, running, hbuff, have, old,
                     header, headerSize, payloadSize, type, unsavedHeader, outputHeader, SOP,
                     failed, out>>
  BY DEF SyncHit, In, input, flags, result
<1>2. SOP /\ ~unsavedHeader /\ used <= len /\ have <= base + used /\ (have > 4 => Abs(size) >= have)
  BY <1>1 DEF Inv, Collecting
<1>3. Abs(size) \in Nat /\ Abs(size) >= 4
  <2>1. have <= HbuffSize
    BY <1>1 DEF Inv, HeaderFits
  <2>2. Bytes(Val(hbuff), have)
    BY <1>0, <2>1, HbuffBytes
  <2> QED
    BY <1>0, <2>2, HeaderSizeTypes
<1>4. Val(hbuff)' = Val(hbuff)
  BY <1>1 DEF Val
<1>5. need' = Abs(HeaderSize(Val(hbuff)', have'))
  BY <1>1, <1>4
<1> HIDE DEF size
<1>6. TypeOK'
  <2>1. CellType' = CellType
    BY <1>1 DEF CellType
  <2>2. start' \in 0..Len(stream)
    BY <1>0, <1>1, <1>2 DEF Input
  <2> QED
    BY <1>0, <1>1, <1>3, <2>1, <2>2 DEF TypeOK
<1>7. Input' /\ HeaderKnown'
  BY <1>1 DEF Inv, Input, HeaderKnown, InPacket
<1>8. Collecting'
  <2>1. have' \in 4..have' /\ have' <= need'
    BY <1>0, <1>1, <1>2, <1>3
  <2> QED
    BY <1>1, <1>2, <1>5, <2>1 DEF Collecting
<1> QED
  BY <1>6, <1>7, <1>8

LEMMA SyncShiftInv ==
  ASSUME Inv, SyncShift
  PROVE  TypeOK' /\ Input' /\ Collecting' /\ HeaderKnown'
<1>0. /\ TypeOK /\ Input /\ len \in 0..BuffSize /\ used \in Nat /\ have \in Nat /\ base \in Nat
      /\ BuffSize \in Nat /\ HbuffSize \in Nat /\ old \in Nat
  BY Numbers
<1>1. /\ mode = "Sync" /\ have >= 4 /\ ~StartCode(Val(hbuff))
      /\ hbuff' = [i \in DOMAIN hbuff |-> IF i < have - 1 THEN hbuff[i + 1] ELSE hbuff[i]]
      /\ have' = have - 1 /\ old' = old - 1
      /\ used' = (IF old = 1 THEN 0 ELSE used)
      /\ mode' = (IF old = 1 THEN "FastSync" ELSE "Sync")
      /\ UNCHANGED <<conf, stream, buff, base, len, short, running, need, header, headerSize,
                     payloadSize, type, start, unsavedHeader, outputHeader, SOP, failed, out>>
  BY DEF SyncShift, Rewind, In, input, packet, flags, result
<1>2. /\ SOP /\ ~unsavedHeader /\ need = 0 /\ used <= len /\ have <= base + used
      /\ old >= 1 /\ have = 4
  BY <1>0, <1>1 DEF Inv, Collecting
<1>3. hbuff' \in Hbuffs
  <2>1. DOMAIN hbuff = 0..(HbuffSize - 1)
    BY <1>0 DEF TypeOK
  <2>2. have <= HbuffSize
    BY <1>1 DEF Inv, HeaderFits
  <2>3. \A i \in 0..(HbuffSize - 1) : i < have - 1 => i + 1 \in 0..(HbuffSize - 1)
    BY <1>0, <2>2
  <2>4. \A i \in 0..(HbuffSize - 1) :
          (IF i < have - 1 THEN hbuff[i + 1] ELSE hbuff[i]) \in CellType
    BY <1>0, <2>3, HbuffTypes
  <2> QED
    BY <1>1, <2>1, <2>4 DEF Hbuffs
<1>4. TypeOK'
  <2>1. CellType' = CellType
    BY <1>1 DEF CellType
  <2>2. old' \in Nat /\ have' \in Nat /\ used' \in Nat
    BY <1>0, <1>1, <1>2
  <2> QED
    BY <1>0, <1>1, <1>3, <2>1, <2>2 DEF TypeOK, Hbuffs
<1>5. Input' /\ HeaderKnown'
  BY <1>1 DEF Inv, Input, HeaderKnown, InPacket
<1>6. Collecting'
  BY <1>0, <1>1, <1>2 DEF Collecting
<1> QED
  BY <1>4, <1>5, <1>6

LEMMA HeaderFillInv ==
  ASSUME Inv, HeaderFill
  PROVE  TypeOK' /\ Input' /\ Collecting' /\ HeaderKnown'
<1> DEFINE n == IF need - have < rest THEN need - have ELSE rest
<1>0. /\ TypeOK /\ Input /\ len \in 0..BuffSize /\ used \in Nat /\ have \in Nat /\ base \in Nat
      /\ BuffSize \in Nat /\ HbuffSize \in Nat /\ need \in Nat
  BY Numbers
<1>1. /\ mode = "GetHeader" /\ used < len /\ have < need
      /\ hbuff' = [i \in DOMAIN hbuff |-> IF i \in have..(have + n - 1) THEN c[i - have] ELSE hbuff[i]]
      /\ have' = have + n /\ used' = used + n
      /\ UNCHANGED <<conf, stream, buff, base, len, short, running, mode, need, old, header,
                     headerSize, payloadSize, type, start, unsavedHeader, outputHeader, SOP,
                     failed, out>>
  BY DEF HeaderFill, In, input, packet, flags, result
<1>2. n \in Nat /\ n >= 1 /\ n <= rest /\ n <= need - have /\ rest = len - used
  BY <1>0, <1>1 DEF rest
<1> HIDE DEF n
<1>3. /\ SOP /\ ~unsavedHeader /\ used <= len /\ have <= base + used
      /\ \E m \in 4..have : need = Abs(HeaderSize(Val(hbuff), m))
  BY <1>1 DEF Inv, Collecting
<1>4. have <= HbuffSize /\ DOMAIN hbuff = 0..(HbuffSize - 1)
  BY <1>0, <1>1 DEF Inv, HeaderFits, TypeOK
<1>5. hbuff' \in Hbuffs /\ \A i \in 0..(have - 1) : hbuff'[i] = hbuff[i]
  <2>1. \A i \in have..(have + n - 1) : c[i - have] \in CellType
    <3> SUFFICES ASSUME NEW i \in have..(have + n - 1)
                 PROVE  c[i - have] \in CellType
      OBVIOUS
    <3>1. i - have \in 0..(rest - 1)
      BY <1>0, <1>2
    <3> QED
      BY <1>0, <3>1, ChunkTypes
  <2>2. \A i \in 0..(HbuffSize - 1) :
          (IF i \in have..(have + n - 1) THEN c[i - have] ELSE hbuff[i]) \in CellType
    BY <1>0, <2>1, HbuffTypes
  <2> QED
    BY <1>0, <1>1, <1>4, <2>2 DEF Hbuffs
<1>6. \A i \in 0..(have - 1) : Val(hbuff)'[i] = Val(hbuff)[i]
  <2>1. DOMAIN hbuff' = 0..(HbuffSize - 1)
    BY <1>5 DEF Hbuffs
  <2> QED
    BY <1>0, <1>4, <1>5, <2>1 DEF Val
<1>7. TypeOK'
  <2>1. CellType' = CellType
    BY <1>1 DEF CellType
  <2>2. have' \in Nat /\ used' \in Nat
    BY <1>0, <1>1, <1>2
  <2> QED
    BY <1>0, <1>1, <1>5, <2>1, <2>2 DEF TypeOK, Hbuffs
<1>8. Input' /\ HeaderKnown'
  BY <1>1 DEF Inv, Input, HeaderKnown, InPacket
<1>9. \E m \in 4..have' : need = Abs(HeaderSize(Val(hbuff)', m))
  <2>1. PICK m \in 4..have : need = Abs(HeaderSize(Val(hbuff), m))
    BY <1>3
  <2>2. m \in Nat /\ \A i \in 0..(m - 1) : Val(hbuff)'[i] = Val(hbuff)[i]
    BY <1>0, <1>6, <2>1
  <2>3. HeaderSize(Val(hbuff)', m) = HeaderSize(Val(hbuff), m)
    BY <2>2, HeaderSizeSame
  <2>4. m \in 4..have'
    BY <1>0, <1>1, <1>2, <2>1
  <2> QED
    BY <2>1, <2>3, <2>4
<1>10. Collecting'
  BY <1>0, <1>1, <1>2, <1>3, <1>9 DEF Collecting
<1> QED
  BY <1>7, <1>8, <1>10

\* The number of bytes at hand is the one that fewer of them asked for, so that they are
\* not more than the header.
LEMMA HeaderCheckInv ==
  ASSUME Inv, HeaderCheck
  PROVE  TypeOK' /\ Input' /\ Collecting' /\ HeaderKnown'
<1> DEFINE v == Val(hbuff)
           size == Abs(HeaderSize(v, have))
<1>0. /\ TypeOK /\ Input /\ have \in Nat /\ HbuffSize \in Nat /\ HbuffSize > 14 /\ need \in Nat
      /\ BuffSize \in Nat \ {0}
  BY Numbers
<1>1. /\ mode = "GetHeader" /\ have >= need /\ need' = size
      /\ UNCHANGED <<conf, stream, buff, base, len, short, used, running, hbuff, have, old,
                     payloadSize, type, start, unsavedHeader, outputHeader, SOP, failed, out>>
      /\ \/ have < size /\ UNCHANGED <<mode, header, headerSize>>
         \/ ~(have < size) /\ mode' = "HeaderOk" /\ header' = Hbuff /\ headerSize' = size
  BY DEF HeaderCheck, In, input, flags, result
<1>2. /\ SOP /\ ~unsavedHeader /\ used <= len /\ have <= base + used /\ have <= need
      /\ \E m \in 4..have : need = Abs(HeaderSize(v, m))
  BY <1>1 DEF Inv, Collecting
<1>3. PICK m \in 4..have : have = Abs(HeaderSize(v, m))
  BY <1>0, <1>1, <1>2
<1>4. Bytes(v, have)
  <2>1. have <= HbuffSize
    BY <1>1 DEF Inv, HeaderFits
  <2> QED
    BY <1>0, <2>1, HbuffBytes
<1>5. have <= size
  <2>1. m \in Nat /\ 4 <= m /\ m <= have
    BY <1>0, <1>3
  <2> QED
    BY <1>0, <1>3, <1>4, <2>1, HeaderSizeGrows
<1>6. size \in Nat /\ size >= 4 /\ (v[3] \in Sized => size >= 6)
  BY <1>0, <1>3, <1>4, HeaderSizeTypes
<1>7. Val(hbuff)' = v
  BY <1>1 DEF Val
<1>8. need' = Abs(HeaderSize(Val(hbuff)', have')) /\ have' \in 4..have'
  BY <1>0, <1>1, <1>3, <1>7
<1>9. header' = Hbuff => Header(3)'.val = v[3]
  <2>1. 3 \in 0..(HbuffSize - 1)
    BY <1>0
  <2> QED
    BY <1>0, <1>1, <2>1, HbuffTypes DEF Header, Hbuff
<1> HIDE DEF size, v
<1>10. TypeOK'
  <2>1. CellType' = CellType
    BY <1>1 DEF CellType
  <2>2. header' \in -1..(BuffSize - 1) /\ headerSize' \in Nat
    BY <1>0, <1>1, <1>6, SMTT(30) DEF TypeOK, Hbuff
  <2>3. mode' \in {"GetHeader", "HeaderOk"}
    BY <1>1
  <2> QED
    BY <1>0, <1>1, <1>6, <2>1, <2>2, <2>3 DEF TypeOK
<1>11. Input'
  BY <1>0, <1>1 DEF Input
<1>12. Collecting'
  BY <1>1, <1>2, <1>5, <1>8 DEF Collecting
<1>13. HeaderKnown'
  BY <1>0, <1>1, <1>5, <1>6, <1>9 DEF HeaderKnown, InPacket
<1> QED
  BY <1>10, <1>11, <1>12, <1>13

LEMMA HeaderOkInv ==
  ASSUME Inv, HeaderOk
  PROVE  TypeOK' /\ Input' /\ Collecting' /\ HeaderKnown'
<1> DEFINE size == PacketSize - headerSize
           id == Header(3).val
           valid == id > 184 /\ size >= 0
<1>0. TypeOK /\ Input /\ headerSize \in 0..HbuffSize /\ HbuffSize \in Nat
  BY Numbers
<1>1. /\ mode = "HeaderOk" /\ type' = id
      /\ mode' = (IF valid THEN "Payload" ELSE "NewSync")
      /\ \/ valid /\ payloadSize' = size /\ have' = 0 /\ need' = 0
         \/ ~valid /\ UNCHANGED <<payloadSize, have, need>>
      /\ UNCHANGED <<conf, stream, buff, base, len, short, used, running, hbuff, old, header,
                     headerSize, start, unsavedHeader, outputHeader, SOP, failed, out>>
  BY DEF HeaderOk, In, input, flags, result
<1>2. headerSize >= 4 /\ (id \in Sized => headerSize >= 6)
  BY <1>1 DEF Inv, HeaderKnown
<1>3. id \in 0..255
  BY <1>0, <1>2, HeaderTypes
<1>4. size \in Int
  <2>1. id \in Sized => Header(4).val \in 0..255 /\ Header(5).val \in 0..255
    BY <1>0, <1>2, HeaderTypes
  <2> DEFINE x == Header(4).val
             y == Header(5).val
  <2>2. PacketSize = IF id \in Sized THEN 6 + 256 * x + y ELSE headerSize
    BY DEF PacketSize, Sized, Elementary
  <2> HIDE DEF x, y, id
  <2>3. ASSUME x \in 0..255, y \in 0..255
        PROVE  6 + 256 * x + y \in Int
    BY <2>3
  <2> QED
    BY <1>0, <2>1, <2>2, <2>3 DEF x, y
<1> HIDE DEF size, id
<1>5. TypeOK'
  <2>1. CellType' = CellType
    BY <1>1 DEF CellType
  <2>2. payloadSize' \in Int /\ have' \in Nat /\ need' \in Nat
    <3>1. payloadSize \in Int /\ have \in Nat /\ need \in Nat
      BY <1>0 DEF TypeOK
    <3> QED
      BY <1>1, <1>4, <3>1
  <2>3. mode' \in {"NewSync", "FastSync", "Sync", "GetHeader", "HeaderOk", "Payload",
                   "DataPut", "DataReady"}
    BY <1>1
  <2> QED
    BY <1>0, <1>1, <1>3, <2>1, <2>2, <2>3 DEF TypeOK
<1>6. Input' /\ Collecting'
  BY <1>1 DEF Inv, Input, Collecting
<1>7. HeaderKnown'
  BY <1>1, <1>2, <1>4 DEF HeaderKnown, InPacket
<1> QED
  BY <1>5, <1>6, <1>7

\* The bytes of the payload an action handles.
LEMMA PieceTypes ==
  ASSUME Inv, AtPayload
  PROVE  /\ Piece \in Nat /\ Piece >= 1 /\ rest \in Nat /\ rest >= 1 /\ payloadSize \in Int
         /\ payloadSize # 0 => Piece <= rest /\ have + Piece <= payloadSize
<1>1. /\ len \in Nat /\ used \in Nat /\ have \in Nat /\ payloadSize \in Int /\ used < len
      /\ mode = "Payload" /\ Piece # 0
  BY DEF Inv, TypeOK, AtPayload, In
<1>2. have <= payloadSize
  BY <1>1 DEF Inv, HeaderKnown
<1> QED
  BY <1>1, <1>2 DEF Piece, rest

\* pmDataPut and pmOutput, wherever they are reached from.
LEMMA PutInv ==
  ASSUME Inv, running, used < len, mode \in {"Payload", "DataPut"},
         NEW n \in Int, n >= 0 /\ payloadSize # 0 => n \in 1..rest,
         Put(n, payloadSize, HeaderBytes),
         UNCHANGED <<input, used, running, failed, hbuff, have, old, packet, unsavedHeader>>
  PROVE  TypeOK' /\ Input' /\ Collecting' /\ HeaderKnown'
<1>0. TypeOK /\ Input /\ headerSize <= HbuffSize /\ rest \in Int
  <2>1. TypeOK /\ Input /\ headerSize \in 0..HbuffSize /\ HbuffSize \in Nat
    BY Numbers
  <2> QED
    BY <2>1 DEF TypeOK, rest
<1>1. UNCHANGED <<conf, stream, buff, base, len, short, used, running, failed, hbuff, have, old,
                  header, headerSize, payloadSize, type, start, unsavedHeader>>
  BY DEF input, packet
<1>2. /\ out' \in Seq(CellType) /\ need' \in Nat /\ need' = Abs(n)
      /\ SOP' = FALSE /\ outputHeader' = FALSE
      /\ mode' = IF n >= 0 /\ outputHeader THEN "DataPut" ELSE "DataReady"
  <2>1. HeaderBytes \in Seq(CellType)
    BY <1>0, HeaderBytesTypes
  <2>2. n >= 0 /\ ~outputHeader /\ payloadSize # 0 => n <= rest
    BY <1>0
  <2> QED
    BY <1>0, <2>1, <2>2, PutTypes
<1>3. TypeOK'
  <2>1. CellType' = CellType
    BY <1>1 DEF CellType
  <2>2. SOP' \in BOOLEAN /\ outputHeader' \in BOOLEAN
    BY <1>2
  <2>3. mode' \in {"NewSync", "FastSync", "Sync", "GetHeader", "HeaderOk", "Payload",
                   "DataPut", "DataReady"}
    BY <1>2
  <2> QED
    BY <1>0, <1>1, <1>2, <2>1, <2>2, <2>3 DEF TypeOK
<1>4. Input'
  BY <1>0, <1>1, <1>2 DEF Input
<1>5. Collecting'
  BY <1>2 DEF Collecting
<1>6. HeaderKnown'
  <2>1. type \in Sized => headerSize >= 6
    BY DEF Inv, HeaderKnown, InPacket
  <2>2. mode' = "DataPut" /\ payloadSize # 0 => need' \in 1..rest
    BY <1>2 DEF Abs
  <2>3. rest' = rest
    BY <1>1 DEF rest
  <2> QED
    BY <1>1, <1>2, <2>1, <2>2, <2>3 DEF HeaderKnown, InPacket
<1> QED
  BY <1>3, <1>4, <1>5, <1>6

LEMMA PayloadInv ==
  ASSUME Inv, Payload \/ DropSubtitles \/ PassPrivate
  PROVE  TypeOK' /\ Input' /\ Collecting' /\ HeaderKnown'
<1>1. /\ AtPayload
      /\ Put(Piece, payloadSize, HeaderBytes) \/ Put(-Piece, payloadSize, HeaderBytes)
      /\ UNCHANGED <<input, used, running, failed, hbuff, have, old, packet, unsavedHeader>>
  BY DEF Payload, DropSubtitles, PassPrivate
<1>2. running /\ used < len /\ mode \in {"Payload", "DataPut"}
  BY <1>1 DEF AtPayload, In
<1>3. /\ Piece \in Nat /\ Piece >= 1 /\ rest \in Nat
      /\ payloadSize # 0 => Piece <= rest
  BY <1>1, PieceTypes
<1>4. CASE Put(Piece, payloadSize, HeaderBytes)
  <2>1. Piece \in Int /\ (Piece >= 0 /\ payloadSize # 0 => Piece \in 1..rest)
    BY <1>3
  <2> QED
    BY <1>1, <1>2, <1>4, <2>1, PutInv
<1>5. CASE Put(-Piece, payloadSize, HeaderBytes)
  <2>1. -Piece \in Int /\ ~(-Piece >= 0)
    BY <1>3
  <2> QED
    BY <1>1, <1>2, <1>5, <2>1, PutInv
<1> QED
  BY <1>1, <1>4, <1>5

LEMMA DataPutInv ==
  ASSUME Inv, DataPut
  PROVE  TypeOK' /\ Input' /\ Collecting' /\ HeaderKnown'
<1>1. /\ running /\ used < len /\ mode = "DataPut" /\ Put(need, payloadSize, HeaderBytes)
      /\ UNCHANGED <<input, used, running, failed, hbuff, have, old, packet, unsavedHeader>>
  BY DEF DataPut, In
<1>2. need \in Int /\ (need >= 0 /\ payloadSize # 0 => need \in 1..rest)
  BY <1>1 DEF Inv, TypeOK, HeaderKnown
<1> QED
  BY <1>1, <1>2, PutInv

LEMMA OutputFailsInv ==
  ASSUME Inv, OutputFails
  PROVE  TypeOK' /\ Input' /\ Collecting' /\ HeaderKnown'
<1>0. TypeOK
  BY Numbers
<1>1. /\ mode \in {"Payload", "DataPut"} /\ failed' = TRUE /\ running' = FALSE
      /\ UNCHANGED <<conf, stream, buff, base, len, short, used, mode, hbuff, have, need, old,
                     header, headerSize, payloadSize, type, start, unsavedHeader, outputHeader,
                     SOP, out>>
  BY DEF OutputFails, AtPayload, In, input, buffer, packet, flags
<1>2. TypeOK'
  <2>1. CellType' = CellType
    BY <1>1 DEF CellType
  <2>2. failed' \in BOOLEAN /\ running' \in BOOLEAN
    BY <1>1
  <2> QED
    BY <1>0, <1>1, <2>1, <2>2 DEF TypeOK
<1>3. Input' /\ Collecting'
  BY <1>1 DEF Inv, Input, Collecting
<1>4. HeaderKnown'
  BY <1>1 DEF Inv, HeaderKnown, InPacket, rest
<1> QED
  BY <1>2, <1>3, <1>4

LEMMA DataReadyInv ==
  ASSUME Inv, DataReady
  PROVE  TypeOK' /\ Input' /\ Collecting' /\ HeaderKnown'
<1>0. /\ TypeOK /\ Input /\ used \in Nat /\ have \in Nat /\ need \in Nat /\ payloadSize \in Int
  <2>1. TypeOK /\ Input
    BY Numbers
  <2> QED
    BY <2>1 DEF TypeOK
<1>1. /\ mode = "DataReady"
      /\ have' = (IF payloadSize = 0 THEN have ELSE have + need)
      /\ used' = (IF payloadSize = 0 THEN used ELSE used + need)
      /\ mode' = (IF have' >= payloadSize THEN "NewSync" ELSE "Payload")
      /\ UNCHANGED <<conf, stream, buff, base, len, short, running, hbuff, need, old, header,
                     headerSize, payloadSize, type, start, unsavedHeader, outputHeader, SOP,
                     failed, out>>
  BY DEF DataReady, CountPiece, In, input, packet, flags, result
<1>2. have' \in Nat /\ used' \in Nat
  BY <1>0, <1>1
<1>3. TypeOK'
  <2>1. CellType' = CellType
    BY <1>1 DEF CellType
  <2>2. mode' \in {"NewSync", "FastSync", "Sync", "GetHeader", "HeaderOk", "Payload",
                   "DataPut", "DataReady"}
    BY <1>1
  <2> QED
    BY <1>0, <1>1, <1>2, <2>1, <2>2 DEF TypeOK
<1>4. Input' /\ Collecting'
  BY <1>0, <1>1 DEF Inv, Input, Collecting
<1>5. HeaderKnown'
  <2>1. type \in Sized => headerSize >= 6
    BY <1>1 DEF Inv, HeaderKnown, InPacket
  <2>2. mode' = "Payload" => have' <= payloadSize
    BY <1>0, <1>1, <1>2
  <2>3. mode' \in {"NewSync", "Payload"}
    BY <1>1
  <2> QED
    BY <1>1, <2>1, <2>2, <2>3 DEF HeaderKnown, InPacket
<1> QED
  BY <1>3, <1>4, <1>5

\* Four bytes of payload are left out: of the header, which is in the chunk or in hbuff,
\* two bytes change.
LEMMA StripTypes ==
  ASSUME Inv, StripPrivate
  PROVE  /\ buff' \in Chunks /\ hbuff' \in Hbuffs /\ headerSize >= 6
         /\ HeaderBytes' \in Seq(CellType)
<1>0. /\ TypeOK /\ Input /\ BuffSize \in Nat \ {0} /\ HbuffSize \in Nat
      /\ headerSize \in 0..HbuffSize /\ header \in -1..(BuffSize - 1)
  <2>1. /\ TypeOK /\ Input /\ BuffSize \in Nat \ {0} /\ HbuffSize \in Nat
        /\ headerSize \in 0..HbuffSize
    BY Numbers
  <2> QED
    BY <2>1 DEF TypeOK
<1>1. ShrinkHeader /\ UNCHANGED <<header, headerSize>>
  BY DEF StripPrivate
<1>2. headerSize >= 6
  <2>1. type = 189 /\ mode = "Payload"
    BY DEF StripPrivate, AtPayload, In, Rule
  <2> QED
    BY <2>1 DEF Inv, HeaderKnown, InPacket, Sized, Elementary
<1>3. Header(4).val \in 0..255 /\ Header(5).val \in 0..255
  BY <1>0, <1>2, HeaderTypes
<1>4. buff \in Chunks /\ hbuff \in Hbuffs
  BY <1>0 DEF TypeOK, Chunks, Hbuffs
<1>5. buff' \in Chunks /\ hbuff' \in Hbuffs
  <2>1. CASE header = Hbuff
    <3> DEFINE N == HbuffSize - 1
    <3>1. N \in Nat /\ 0 \in Int /\ -4 \in Int /\ hbuff \in [0..N -> CellType]
      BY <1>0, <1>2, <1>4 DEF Hbuffs
    <3> HIDE DEF N
    <3>2. Modify(hbuff, 0, -4) \in [0..N -> CellType]
      BY <1>3, <3>1, ModifyTypes
    <3>3. Modify(hbuff, 0, -4) \in Hbuffs
      BY <3>2 DEF Hbuffs, N
    <3> QED
      BY <1>1, <1>4, <2>1, <3>3 DEF ShrinkHeader
  <2>2. CASE header # Hbuff
    <3> DEFINE N == BuffSize - 1
    <3>1. N \in Nat /\ header \in Int /\ -4 \in Int /\ buff \in [0..N -> CellType]
      BY <1>0, <1>4 DEF Chunks
    <3> HIDE DEF N
    <3>2. Modify(buff, header, -4) \in [0..N -> CellType]
      BY <1>3, <3>1, ModifyTypes
    <3>3. Modify(buff, header, -4) \in Chunks
      BY <3>2 DEF Chunks, N
    <3> QED
      BY <1>1, <1>4, <2>2, <3>3 DEF ShrinkHeader
  <2> QED
    BY <2>1, <2>2
<1>6. HeaderBytes' \in Seq(CellType)
  <2>1. \A i \in 1..headerSize : Header(i - 1)' \in CellType
    <3> SUFFICES ASSUME NEW i \in 1..headerSize
                 PROVE  Header(i - 1)' \in CellType
      OBVIOUS
    <3>1. CASE header = Hbuff
      <4>1. i - 1 \in 0..(HbuffSize - 1)
        BY <1>0
      <4>2. hbuff'[i - 1] \in CellType
        BY <1>5, <4>1 DEF Hbuffs
      <4> QED
        BY <1>1, <3>1, <4>2 DEF Header, Hbuff
    <3>2. CASE header # Hbuff
      <4>1. header + (i - 1) \in 0..(BuffSize - 1)
        BY <1>0, <3>2 DEF Input, Hbuff
      <4>2. buff'[header + (i - 1)] \in CellType
        BY <1>5, <4>1 DEF Chunks
      <4> QED
        BY <1>1, <3>2, <4>2 DEF Header, Hbuff
    <3> QED
      BY <3>1, <3>2
  <2>2. HeaderBytes' = [i \in 1..headerSize |-> Header(i - 1)']
    BY <1>1 DEF HeaderBytes
  <2>3. headerSize \in Nat
    BY <1>0
  <2> HIDE DEF HeaderBytes
  <2> QED
    BY <2>1, <2>2, <2>3, IsASeq
<1> QED
  BY <1>2, <1>5, <1>6

LEMMA StripPrivateInv ==
  ASSUME Inv, StripPrivate
  PROVE  TypeOK' /\ Input' /\ Collecting' /\ HeaderKnown'
<1>0. /\ TypeOK /\ Input /\ len \in Nat /\ used \in Nat
  BY Numbers
<1>1. /\ running /\ used < len /\ mode = "Payload" /\ AtPayload /\ SOP
      /\ used' = used + 4 /\ payloadSize' = payloadSize - 4
      /\ UNCHANGED <<conf, stream, base, len, short, failed, have, old, header, headerSize,
                     type, start, unsavedHeader>>
      /\ \/ /\ Piece = 4 /\ running' = (rest = 4)
            /\ UNCHANGED <<mode, need, SOP, outputHeader, out>>
         \/ /\ Piece # 4 /\ Put(Piece - 4, payloadSize - 4, HeaderBytes')
            /\ UNCHANGED running
  BY DEF StripPrivate, AtPayload, In
<1>2. buff' \in Chunks /\ hbuff' \in Hbuffs /\ headerSize >= 6 /\ HeaderBytes' \in Seq(CellType)
  BY StripTypes
<1>3. /\ Piece \in Nat /\ Piece >= 1 /\ rest \in Nat /\ payloadSize \in Int
      /\ payloadSize # 0 => Piece <= rest /\ have + Piece <= payloadSize
      /\ payloadSize = 0 => Piece = 1
  <2>1. payloadSize = 0 => Piece = 1
    BY DEF Piece
  <2> QED
    BY <1>1, <2>1, PieceTypes
<1>4. outputHeader = TRUE
  BY <1>0, <1>1 DEF Input, TypeOK
<1>5. CellType' = CellType /\ used' \in Nat /\ payloadSize' \in Int /\ rest' = rest - 4
  BY <1>0, <1>1, <1>3 DEF CellType, rest
<1>6. CASE Piece = 4
  <2>1. /\ running' = (rest = 4) /\ UNCHANGED <<mode, need, SOP, outputHeader, out>>
    BY <1>1, <1>6
  <2>2. TypeOK'
    <3>1. running' \in BOOLEAN
      BY <2>1
    <3> QED
      BY <1>0, <1>1, <1>2, <1>5, <2>1, <3>1 DEF TypeOK, Chunks, Hbuffs
  <2>3. Input' /\ Collecting'
    BY <1>0, <1>1, <2>1 DEF Input, Collecting
  <2>4. HeaderKnown'
    <3>1. have <= payloadSize'
      <4>1. have \in Nat
        BY <1>0 DEF TypeOK
      <4> QED
        BY <1>1, <1>3, <1>6, <4>1
    <3> QED
      BY <1>1, <1>2, <2>1, <3>1 DEF HeaderKnown, InPacket
  <2> QED
    BY <2>2, <2>3, <2>4
<1>7. CASE Piece # 4
  <2> DEFINE n == Piece - 4
  <2>0. Put(n, payloadSize - 4, HeaderBytes') /\ UNCHANGED running
    BY <1>1, <1>7
  <2>1. n \in Int /\ n # 0
    BY <1>3, <1>7
  <2> HIDE DEF n
  <2>2. /\ out' \in Seq(CellType) /\ need' \in Nat /\ need' = Abs(n)
        /\ SOP' = FALSE /\ outputHeader' = FALSE
        /\ mode' = IF n >= 0 /\ outputHeader THEN "DataPut" ELSE "DataReady"
    <3>1. n >= 0 /\ ~outputHeader /\ payloadSize - 4 # 0 => n <= rest
      BY <1>4
    <3> QED
      BY <1>0, <1>2, <2>0, <2>1, <3>1, PutTypes
  <2>3. TypeOK'
    <3>1. SOP' \in BOOLEAN /\ outputHeader' \in BOOLEAN
      BY <2>2
    <3>2. mode' \in {"NewSync", "FastSync", "Sync", "GetHeader", "HeaderOk", "Payload",
                     "DataPut", "DataReady"}
      BY <2>2
    <3> QED
      BY <1>0, <1>1, <1>2, <1>5, <2>0, <2>2, <3>1, <3>2 DEF TypeOK, Chunks, Hbuffs
  <2>4. Input' /\ Collecting'
    BY <1>0, <1>1, <2>2 DEF Input, Collecting
  <2>5. HeaderKnown'
    <3>1. n >= 0 => need' \in 1..rest'
      BY <1>3, <1>5, <2>1, <2>2 DEF Abs, n
    <3> QED
      BY <1>1, <1>2, <2>0, <2>2, <3>1 DEF HeaderKnown, InPacket
  <2> QED
    BY <2>3, <2>4, <2>5
<1> QED
  BY <1>6, <1>7

-----------------------------------------------------------------------------
(* All runs.                                                               *)

LEMMA NextInv ==
  ASSUME Inv, HeaderFits', [Next]_vars
  PROVE  Inv'
<1>1. CASE \E n \in ChunkSizes : Process(n)
  BY <1>1, ProcessInv DEF Inv
<1>2. CASE Return
  BY <1>2, ReturnInv DEF Inv
<1>3. CASE NewSync
  BY <1>3, NewSyncInv DEF Inv
<1>4. CASE FastHit
  BY <1>4, FastHitInv DEF Inv
<1>5. CASE FastSkip
  BY <1>5, FastSkipInv DEF Inv
<1>6. CASE FastBuffer
  BY <1>6, FastBufferInv DEF Inv
<1>7. CASE SyncFill
  BY <1>7, SyncFillInv DEF Inv
<1>8. CASE SyncHit
  BY <1>8, SyncHitInv DEF Inv
<1>9. CASE SyncShift
  BY <1>9, SyncShiftInv DEF Inv
<1>10. CASE HeaderFill
  BY <1>10, HeaderFillInv DEF Inv
<1>11. CASE HeaderCheck
  BY <1>11, HeaderCheckInv DEF Inv
<1>12. CASE HeaderOk
  BY <1>12, HeaderOkInv DEF Inv
<1>13. CASE Payload \/ DropSubtitles \/ PassPrivate
  BY <1>13, PayloadInv DEF Inv
<1>14. CASE StripPrivate
  BY <1>14, StripPrivateInv DEF Inv
<1>15. CASE DataPut
  BY <1>15, DataPutInv DEF Inv
<1>16. CASE DataReady
  BY <1>16, DataReadyInv DEF Inv
<1>17. CASE OutputFails
  BY <1>17, OutputFailsInv DEF Inv
<1>18. CASE UNCHANGED vars
  <2>1. UNCHANGED <<conf, stream, buff, base, len, used, running, failed, mode, hbuff, have,
                    need, old, header, headerSize, payloadSize, type, unsavedHeader,
                    outputHeader, SOP, start, short, out>>
    BY <1>18 DEF vars
  <2>2. TypeOK'
    BY <2>1 DEF Inv, TypeOK, CellType
  <2>3. Input'
    BY <2>1 DEF Inv, Input
  <2>4. Collecting'
    BY <2>1 DEF Inv, Collecting, Val
  <2>5. HeaderKnown'
    BY <2>1 DEF Inv, HeaderKnown, Header, InPacket, rest
  <2> QED
    BY <2>2, <2>3, <2>4, <2>5 DEF Inv
<1> QED
  BY <1>1, <1>2, <1>3, <1>4, <1>5, <1>6, <1>7, <1>8, <1>9, <1>10, <1>11, <1>12, <1>13,
     <1>14, <1>15, <1>16, <1>17, <1>18 DEF Next, Step

\* Whatever the stream and the chunks, if no header is longer than hbuff the buffers and
\* counters of Process keep their types.
THEOREM TypeCorrect == Spec /\ []HeaderFits => []TypeOK
<1>1. Inv => TypeOK
  BY DEF Inv
<1> QED
  BY <1>1, InitInv, NextInv, PTL DEF Spec

\* Process never collects more bytes of a header than the header has: the "bug, buffered
\* too much" it checks for is not there, wherever the chunks end.
THEOREM NeverBuffersTooMuchHolds == Spec /\ []HeaderFits => []NeverBuffersTooMuch
<1>1. Inv => NeverBuffersTooMuch
  BY DEF Inv, Collecting, HeaderKnown, NeverBuffersTooMuch
<1> QED
  BY <1>1, InitInv, NextInv, PTL DEF Spec

-----------------------------------------------------------------------------
(* Process does what PesStream says: what the buffers and counters hold is *)
(* what the stream has there.                                              *)

At(i) == Abstract!Cell(i)

\* Process can return to the beginning of the chunk.
Searching == mode = "Sync" /\ used < len

\* The chunk is a part of the stream, but for a header that has been changed in it, and
\* Process returns at its end only.
Chunk ==
  /\ used <= len /\ (running \/ failed \/ used = len)
  /\ \A i \in 0..(len - 1) : i >= used \/ Searching => buff[i] = At(base + i)
  /\ len < 4 => short \/ (len = 0 /\ mode = "NewSync")

\* hbuff holds the last bytes that were read.  When the bytes of the last chunk are used
\* up by the search for a start code, it goes back to the beginning of this chunk: that
\* is where it was, unless the chunk is very short.
Collected ==
  /\ mode \in {"Sync", "GetHeader"} =>
       \A i \in 0..(have - 1) : hbuff[i] = At(base + used - have + i)
  /\ mode = "Sync" =>
       \/ used = len /\ have = old
       \/ have - old >= used /\ (short \/ have - old = used)
  /\ mode = "GetHeader" =>
       have >= 4 /\ start = base + used - have /\ Abstract!StartCode(start) /\ start < base

\* The counters tell how much of the packet has been handed on, and how much is left ...
Whole ==
  /\ payloadSize = Abstract!Size(start) - headerSize
  /\ base + used = start + headerSize + have

\* ... when the first four bytes of its payload have been stripped, without these.
Stripped ==
  /\ Abstract!Private(start) /\ ~SOP
  /\ payloadSize = (Abstract!Size(start) - headerSize) - 4
  /\ base + used = (start + headerSize + have) + 4

\* The header is the one that begins at start; the payload follows.
Following ==
  /\ (mode = "HeaderOk") \/ InPacket =>
       /\ Abstract!Complete(start)
       /\ headerSize >= 1 /\ headerSize = Abstract!HeaderSize(start)
       /\ SOP => /\ \A i \in 0..(headerSize - 1) : Header(i) = At(start + i)
                 /\ base + used = start + headerSize
                 /\ header # Hbuff =>
                      header + headerSize = used /\ unsavedHeader /\ (running \/ failed)
                 /\ header = Hbuff /\ running => start < base
  /\ InPacket =>
       /\ Abstract!Valid(start) /\ type = Abstract!StreamId(start)
       /\ Whole \/ Stripped
  /\ mode = "Payload" => have < payloadSize \/ (have = 0 /\ payloadSize = 0 /\ SOP)
  /\ mode \in {"DataPut", "DataReady"} =>
       /\ used < len /\ need >= 1
       /\ IF payloadSize = 0 THEN have = 0 ELSE need <= rest /\ have + need <= payloadSize
  /\ mode = "DataPut" => Abstract!Passed(start)

Exact == Chunk /\ Collected /\ Following

Pkt == IF InBody THEN start ELSE -1

\* How far Process is, mode by mode.
Placed ==
  /\ used \in Nat /\ len \in Nat /\ base \in Nat /\ used <= len /\ need \in Nat /\ have \in Nat
  /\ mode = "DataReady" /\ payloadSize # 0 => used + need <= len

DealtIs ==
  /\ mode \in {"NewSync", "FastSync"} => Dealt = base + used
  /\ mode \in {"Sync", "GetHeader"} => Dealt = (base + used) - have
  /\ (mode = "HeaderOk") \/ (mode = "Payload" /\ outputHeader) => Dealt = start
  /\ InPacket /\ ~outputHeader =>
       Dealt = IF mode = "DataReady" /\ payloadSize # 0 THEN base + used + need
               ELSE base + used

LEMMA PlacedDealt == Placed => DealtIs
<1> SUFFICES ASSUME Placed
             PROVE  DealtIs
  OBVIOUS
<1> DEFINE At2(u) == base + (IF u > len THEN len ELSE u)
           ahead == IF mode = "DataReady" /\ payloadSize # 0 THEN need ELSE 0
           x == At2(used)
           y == At2(used + ahead)
<1>1. x = base + used /\ ahead \in Nat /\ y = base + used + ahead
  BY DEF Placed
<1>2. Dealt = CASE mode \in {"NewSync", "FastSync"} -> x
                [] mode \in {"Sync", "GetHeader"} -> x - have
                [] InBody -> y
                [] OTHER -> start
  BY DEF Dealt
<1> HIDE DEF x, y, ahead
<1>3. /\ mode \in {"NewSync", "FastSync"} => Dealt = x
      /\ mode \in {"Sync", "GetHeader"} => Dealt = x - have
  BY <1>2 DEF InBody
<1>4. (mode = "HeaderOk") \/ (mode = "Payload" /\ outputHeader) => Dealt = start
  BY <1>2 DEF InBody
<1>5. InPacket /\ ~outputHeader => Dealt = y
  BY <1>2 DEF InBody, InPacket
<1>6. InPacket /\ ~outputHeader =>
        Dealt = IF mode = "DataReady" /\ payloadSize # 0 THEN base + used + need
                ELSE base + used
  BY <1>1, <1>5 DEF ahead
<1>7. mode \in {"Sync", "GetHeader"} => Dealt = (base + used) - have
  BY <1>1, <1>3 DEF Placed
<1>8. mode \in {"NewSync", "FastSync"} => Dealt = base + used
  BY <1>1, <1>3
<1> QED
  BY <1>4, <1>6, <1>7, <1>8 DEF DealtIs

LEMMA StutterStep ==
  ASSUME UNCHANGED <<conf, stream, out>>, short' \in {short, TRUE}, Dealt' = Dealt, Pkt' = Pkt
  PROVE  Abstract!Next
BY DEF Abstract!Next, Pkt

LEMMA SkipStep ==
  ASSUME UNCHANGED <<conf, stream, short, out>>, ~InBody, ~InBody',
         NEW n \in 1..Len(stream), Dealt' = Dealt + n,
         \/ \A p \in Dealt..(Dealt + n - 1) : ~Abstract!StartCode(p)
         \/ short /\ n <= 4
  PROVE  Abstract!Next
<1>1. Abstract!Skip(n) \/ Abstract!Overlook(n)
  BY DEF Abstract!Skip, Abstract!Overlook, Abstract!Advance, Abstract!None
<1> QED
  BY <1>1 DEF Abstract!Next

LEMMA InvalidStep ==
  ASSUME UNCHANGED <<conf, stream, short, out>>, ~InBody, ~InBody',
         Abstract!Complete(Dealt), ~Abstract!Valid(Dealt),
         Dealt' = Dealt + Abstract!HeaderSize(Dealt)
  PROVE  Abstract!Next
<1>1. Abstract!Invalid
  BY DEF Abstract!Invalid, Abstract!Advance, Abstract!None
<1> QED
  BY <1>1 DEF Abstract!Next

LEMMA BeginStep ==
  ASSUME ~Abstract!Private(Dealt), UNCHANGED <<conf, stream, short>>, ~InBody, InBody', start' = Dealt,
         Abstract!Complete(Dealt), Abstract!Valid(Dealt),
         NEW n \in 1..Len(stream), n \in Abstract!HeaderSize(Dealt)..Abstract!Size(Dealt),
         Dealt' = Dealt + n,
         \/ /\ Abstract!Passed(Dealt) /\ n = Abstract!HeaderSize(Dealt)
            /\ out' = out \o Abstract!Cells(Dealt, n)
         \/ ~Abstract!Passed(Dealt) /\ out' = out
  PROVE  Abstract!Next
<1>1. Abstract!Begin(n)
  BY DEF Abstract!Begin, Abstract!Advance, Abstract!None
<1> QED
  BY <1>1 DEF Abstract!Next

LEMMA BodyStep ==
  ASSUME ~Abstract!Private(start), UNCHANGED <<conf, stream, short, start>>, InBody, InBody', start \in Nat,
         NEW n \in 1..Len(stream), Dealt + n <= start + Abstract!Size(start), Dealt' = Dealt + n,
         out' = IF Abstract!Passed(start) THEN out \o Abstract!Cells(Dealt, n) ELSE out
  PROVE  Abstract!Next
<1>1. start # -1
  OBVIOUS
<1>2. Abstract!Body(n)
  BY <1>1 DEF Abstract!Body, Abstract!Advance, Abstract!None
<1> QED
  BY <1>2 DEF Abstract!Next

LEMMA EndStep ==
  ASSUME UNCHANGED <<conf, stream, short, out>>, InBody, ~InBody', start \in Nat,
         Dealt = start + Abstract!Size(start), Dealt' = Dealt
  PROVE  Abstract!Next
<1>1. start # -1
  OBVIOUS
<1>2. Abstract!End
  BY <1>1 DEF Abstract!End, Abstract!None
<1> QED
  BY <1>2 DEF Abstract!Next

LEMMA ExactDealt == Inv /\ Exact => DealtIs
<1> SUFFICES ASSUME Inv, Exact
             PROVE  Placed
  BY PlacedDealt
<1>1. used \in Nat /\ len \in Nat /\ base \in Nat /\ need \in Nat /\ have \in Nat
  BY Numbers
<1>2. used <= len
  BY DEF Exact, Chunk, Searching
<1>3. mode = "DataReady" /\ payloadSize # 0 => used + need <= len
  BY <1>1 DEF Exact, Following, rest
<1> QED
  BY <1>1, <1>2, <1>3 DEF Placed

\* The rest of the chunk, and what has been collected, are bytes of the stream.
LEMMA ChunkRead ==
  ASSUME Inv, Exact, used < len
  PROVE  /\ Read(Val(c), rest, base + used) /\ rest \in Nat /\ rest = len - used
         /\ \A i \in 0..(rest - 1) : c[i] = At(base + used + i)
<1>1. /\ TypeOK /\ used \in Nat /\ len \in Nat /\ base \in Nat /\ base + len <= Len(stream)
      /\ Len(stream) \in Nat
  BY Numbers DEF Input
<1>2. rest \in Nat /\ rest = len - used
  BY <1>1 DEF rest
<1>3. ASSUME NEW i \in 0..(rest - 1)
      PROVE  c[i] = At(base + used + i) /\ Val(c)[i] = Byte(base + used + i)
  <2>1. c[i] = buff[used + i] /\ Val(c)[i] = c[i].val
    BY <1>1, ChunkTypes
  <2>2. used + i \in 0..(len - 1) /\ used + i >= used /\ base + (used + i) = base + used + i
    BY <1>1, <1>2
  <2>3. buff[used + i] = At(base + (used + i))
    BY <2>2 DEF Exact, Chunk, Searching
  <2> QED
    BY <2>1, <2>2, <2>3 DEF At, Byte, Abstract!Cell
<1> QED
  BY <1>1, <1>2, <1>3 DEF Read

LEMMA HbuffRead ==
  ASSUME Inv, Exact, mode \in {"Sync", "GetHeader"}
  PROVE  /\ Read(Val(hbuff), have, base + used - have)
         /\ base + used - have \in Nat /\ base + used <= Len(stream)
         /\ \A i \in 0..(have - 1) : hbuff[i] = At(base + used - have + i)
<1>1. /\ TypeOK /\ used \in Nat /\ len \in Nat /\ base \in Nat /\ base + len <= Len(stream)
      /\ Len(stream) \in Nat /\ have \in Nat /\ HbuffSize \in Nat
  BY Numbers DEF Input
<1>2. used <= len /\ have <= base + used /\ have <= HbuffSize
  BY DEF Inv, Collecting, HeaderFits
<1>3. ASSUME NEW i \in 0..(have - 1)
      PROVE  /\ hbuff[i] = At(base + used - have + i)
             /\ Val(hbuff)[i] = Byte(base + used - have + i)
  <2>1. i \in 0..(HbuffSize - 1)
    BY <1>1, <1>2
  <2>2. Val(hbuff)[i] = hbuff[i].val
    BY <1>1, <2>1, HbuffTypes
  <2>3. hbuff[i] = At(base + used - have + i)
    BY DEF Exact, Collected
  <2> QED
    BY <2>2, <2>3 DEF At, Byte, Abstract!Cell
<1>4. base + used - have + have <= Len(stream)
  BY <1>1, <1>2
<1> QED
  BY <1>1, <1>2, <1>3, <1>4 DEF Read

\* Three bytes tell a start code, if a fourth one follows.
LEMMA StartCodeRead ==
  ASSUME NEW v, NEW p \in Nat, NEW n \in Nat, n >= 4, Read(v, n, p), Len(stream) \in Nat
  PROVE  Abstract!StartCode(p) <=> StartCode(v)
<1>1. v[0] = Byte(p) /\ v[1] = Byte(p + 1) /\ v[2] = Byte(p + 2)
  <2>1. v[0] = Byte(p + 0) /\ v[1] = Byte(p + 1) /\ v[2] = Byte(p + 2)
    BY DEF Read
  <2>2. p + 0 = p
    OBVIOUS
  <2> QED
    BY <2>1, <2>2
<1>2. p + 4 <= Len(stream)
  BY DEF Read
<1> QED
  BY <1>1, <1>2 DEF StartCode, Abstract!StartCode, Byte

LEMMA StreamSame ==
  ASSUME UNCHANGED <<conf, stream>>, NEW p
  PROVE  /\ UNCHANGED <<At(p), Byte(p), Abstract!HeaderSize(p), Abstract!Size(p), Abstract!StreamId(p)>>
         /\ Abstract!StartCode(p)' <=> Abstract!StartCode(p)
         /\ Abstract!Complete(p)' <=> Abstract!Complete(p)
         /\ Abstract!Valid(p)' <=> Abstract!Valid(p)
         /\ Abstract!Passed(p)' <=> Abstract!Passed(p)
         /\ Abstract!Private(p)' <=> Abstract!Private(p)
<1>1. \A q : Abstract!Byte(q)' = Abstract!Byte(q)
  BY DEF Abstract!Byte
<1>2. Abstract!Flags(p)' = Abstract!Flags(p)
  BY <1>1 DEF Abstract!Flags
<1>3. Abstract!ElementaryHeader(p)' = Abstract!ElementaryHeader(p)
  BY <1>1, <1>2 DEF Abstract!ElementaryHeader
<1>4. Abstract!Word(p+4)' = Abstract!Word(p+4) /\ Abstract!StreamId(p)' = Abstract!StreamId(p)
  BY <1>1 DEF Abstract!StreamId, Abstract!Word
<1>5. Abstract!HeaderSize(p)' = Abstract!HeaderSize(p)
  BY <1>1, <1>3, <1>4 DEF Abstract!HeaderSize
<1>6. Abstract!Size(p)' = Abstract!Size(p)
  BY <1>5, <1>4 DEF Abstract!Size
<1>7. Abstract!StartCode(p)' <=> Abstract!StartCode(p)
  BY <1>1 DEF Abstract!StartCode
<1> QED
  BY <1>1, <1>4, <1>5, <1>6, <1>7 
  DEF Abstract!Complete, Abstract!Valid, Abstract!Passed, Abstract!Private, At,
      Abstract!Cell, Byte

\* Bytes new of a packet of private stream 1.
LEMMA TakeApartStep ==
  ASSUME UNCHANGED <<conf, stream, short>>, InBody', start \in Nat, Abstract!Private(start),
         \/ ~InBody /\ start = Dealt /\ Abstract!Complete(start) /\ Abstract!Valid(start)
         \/ InBody,
         start' = start, Dealt \in Nat,
         NEW n \in 1..Len(stream), Dealt + n <= start + Abstract!Size(start), Dealt' = Dealt + n,
         out \in Seq(CellType),
         NEW new \in Seq(CellType), out' = out \o new,
         \A i \in 1..Len(new) :
           /\ new[i].at \in Dealt..(Dealt + n - 1)
           /\ i > 1 => new[i - 1].at < new[i].at
           /\ new[i] = Abstract!Cell(new[i].at) \/ new[i].at - start \in {4, 5}
  PROVE  Abstract!Next
<1>1. start # -1 /\ (InBody \/ ~InBody)
  OBVIOUS
<1>2. SubSeq(out', Len(out) + 1, Len(out')) = new /\ out = SubSeq(out', 1, Len(out))
  OBVIOUS
<1> PICK q : q = IF InBody THEN start ELSE -1
  OBVIOUS
<1>3. \/ /\ q = -1 /\ Abstract!Complete(Dealt) /\ Abstract!Valid(Dealt)
         /\ Abstract!Private(Dealt) /\ start = Dealt
      \/ q # -1 /\ Abstract!Private(q) /\ start = q
  BY <1>1
<1>4. start' = start /\ (IF InBody' THEN start' ELSE -1) = start
  OBVIOUS
<1>6. Abstract!TakeApart(n)
  BY <1>1, <1>2, <1>3, <1>4 DEF Abstract!TakeApart, Abstract!Advance, Abstract!None
<1> QED
  BY <1>6 DEF Abstract!Next

-----------------------------------------------------------------------------
(* Each action, and the step of PesStream it is.                           *)

\* How much has been handed on remains true.
LEMMA CountersKept ==
  ASSUME Whole \/ Stripped, SOP' => SOP, base' + used' = base + used,
         UNCHANGED <<conf, stream, have, headerSize, payloadSize, start>>
  PROVE  Whole' \/ Stripped'
<1> PICK p : p = start
  OBVIOUS
<1>1. Abstract!Size(p)' = Abstract!Size(p) /\ (Abstract!Private(p)' <=> Abstract!Private(p))
  BY StreamSame
<1>2. start' = p
  OBVIOUS
<1>3. Whole => Whole'
  BY <1>1, <1>2 DEF Whole
<1>4. Stripped => Stripped'
  BY <1>1, <1>2 DEF Stripped
<1> QED
  BY <1>3, <1>4

\* Of a packet that is not to be taken apart nothing is stripped.
LEMMA NotStripped == Exact /\ InPacket /\ (SOP \/ ~Abstract!Private(start)) => Whole
BY DEF Exact, Following, Stripped

\* An action that leaves packet and mode alone.
LEMMA FollowingKept ==
  ASSUME Following, UNCHANGED <<conf, stream, mode, have, headerSize, payloadSize, type, start, SOP>>,
         (base + used)' = base + used,
         mode \in {"DataPut", "DataReady"} => UNCHANGED <<used, len, need>>,
         ((mode = "HeaderOk") \/ InPacket) /\ SOP =>
           /\ \A i \in 0..(headerSize - 1) : Header(i)' = Header(i)
           /\ header' # Hbuff =>
                header' + headerSize = used' /\ unsavedHeader' /\ (running' \/ failed')
           /\ header' = Hbuff /\ running' => start < base'
  PROVE  Following'
<1> PICK p : p = start
  OBVIOUS
<1>1. /\ Abstract!HeaderSize(p)' = Abstract!HeaderSize(p) /\ Abstract!Size(p)' = Abstract!Size(p)
      /\ Abstract!StreamId(p)' = Abstract!StreamId(p)
      /\ Abstract!Complete(p)' <=> Abstract!Complete(p)
      /\ Abstract!Valid(p)' <=> Abstract!Valid(p)
      /\ Abstract!Passed(p)' <=> Abstract!Passed(p)
      /\ \A i : At(i)' = At(i)
  BY StreamSame
<1>2. mode' = mode /\ InPacket' = InPacket /\ start' = p /\ SOP' = SOP /\ headerSize' = headerSize
  BY DEF InPacket
<1>3. ((mode' = "HeaderOk") \/ InPacket') /\ SOP' =>
        /\ \A i \in 0..(headerSize' - 1) : Header(i)' = At(start + i)'
        /\ (base + used)' = (start + headerSize)'
        /\ header' # Hbuff =>
             header' + headerSize' = used' /\ unsavedHeader' /\ (running' \/ failed')
        /\ header' = Hbuff /\ running' => start' < base'
  <2>1. ((mode = "HeaderOk") \/ InPacket) /\ SOP =>
          /\ \A i \in 0..(headerSize - 1) : Header(i) = At(p + i)
          /\ base + used = p + headerSize
    BY DEF Following
  <2> QED
    BY <1>1, <1>2, <2>1
<1>4. (mode' = "HeaderOk") \/ InPacket' =>
        /\ Abstract!Complete(start)' /\ headerSize' = Abstract!HeaderSize(start)'
        /\ headerSize' >= 1
  BY <1>1, <1>2 DEF Following
<1>5. InPacket' =>
        /\ Abstract!Valid(start)' /\ type' = Abstract!StreamId(start)'
        /\ Whole' \/ Stripped'
  BY <1>1, <1>2, CountersKept DEF Following
<1>6. mode' \in {"DataPut", "DataReady"} =>
        /\ used' < len' /\ need' >= 1
        /\ IF payloadSize' = 0 THEN have' = 0 ELSE need' <= rest' /\ have' + need' <= payloadSize'
  BY DEF Following, rest
<1>7. /\ mode' = "Payload" => have' < payloadSize' \/ (have' = 0 /\ payloadSize' = 0 /\ SOP')
      /\ mode' = "DataPut" => Abstract!Passed(start)'
  BY <1>1, <1>2 DEF Following
<1> QED
  BY <1>3, <1>4, <1>5, <1>6, <1>7 DEF Following

LEMMA DealtKept ==
  ASSUME Inv, DealtIs, DealtIs', UNCHANGED <<mode, have, need, payloadSize, start, outputHeader>>,
         base' + used' = base + used
  PROVE  Dealt' = Dealt /\ Pkt' = Pkt
<1>0. /\ mode' = mode /\ have' = have /\ need' = need /\ payloadSize' = payloadSize
      /\ start' = start /\ outputHeader' = outputHeader
  OBVIOUS
<1> SUFFICES Dealt' = Dealt
  BY <1>0 DEF Pkt, InBody
<1>1. TypeOK 
  BY Numbers
<1>2. CASE mode \in {"NewSync", "FastSync"}
  <2>1. Dealt = base + used /\ Dealt' = (base + used)'
    BY <1>0, <1>2 DEF DealtIs
  <2> QED
    BY <2>1
<1>3. CASE mode \in {"Sync", "GetHeader"}
  <2> DEFINE Back(x) == x - have
  <2>1. Dealt = Back(base + used)
    BY <1>3 DEF DealtIs
  <2>2. Dealt' = Back(base' + used')
    BY <1>0, <1>3 DEF DealtIs
  <2> HIDE DEF Back
  <2> QED
    BY <2>1, <2>2
<1>4. CASE (mode = "HeaderOk") \/ (mode = "Payload" /\ outputHeader)
  BY <1>0, <1>4 DEF DealtIs
<1>5. CASE InPacket /\ ~outputHeader
  <2>1. InPacket' /\ ~outputHeader'
    BY <1>0, <1>5 DEF InPacket
  <2>2. CASE mode = "DataReady" /\ payloadSize # 0
    <3>1. Dealt = base + used + need /\ Dealt' = (base + used + need)'
      BY <1>0, <1>5, <2>1, <2>2 DEF DealtIs
    <3> QED
      BY <1>0, <3>1
  <2>3. CASE ~(mode = "DataReady" /\ payloadSize # 0)
    <3>1. Dealt = base + used /\ Dealt' = (base + used)'
      BY <1>0, <1>5, <2>1, <2>3 DEF DealtIs
    <3> QED
      BY <1>0, <3>1
  <2> QED
    BY <2>2, <2>3
<1>6. mode \in {"DataPut", "DataReady"} => ~outputHeader
  BY DEF Inv, HeaderKnown, Input
<1> QED
  BY <1>1, <1>2, <1>3, <1>4, <1>5, <1>6 DEF TypeOK, InPacket

LEMMA FastHitExact ==
  ASSUME Inv, Exact, FastHit, Inv', DealtIs'
  PROVE  Exact' /\ Abstract!Next
<1>0. /\ used \in Nat /\ len \in Nat /\ base \in Nat /\ Len(stream) \in Nat
      /\ base + len <= Len(stream) /\ stream \in Seq(0..255)
  BY Numbers, StreamTypes DEF Input
<1> PICK p \in Nat : p = base + used
  BY <1>0
<1> PICK size : size = HeaderSize(Val(c), rest)
  OBVIOUS
<1>1. /\ running /\ used < len /\ mode = "FastSync" /\ mode' = "HeaderOk"
      /\ rest >= 4 /\ StartCode(Val(c)) /\ size > 0 /\ rest >= size
      /\ headerSize' = size /\ header' = used /\ unsavedHeader' = TRUE
      /\ used' = used + size /\ start' = p
      /\ UNCHANGED <<conf, stream, buff, base, len, short, running, hbuff, have, need, old,
                     payloadSize, type, outputHeader, SOP, failed, out>>
  BY DEF FastHit, In, input, buffer, result
<1>2. /\ Read(Val(c), rest, p) /\ rest \in Nat /\ rest = len - used
      /\ \A i \in 0..(rest - 1) : c[i] = At(p + i)
  BY <1>1, ChunkRead
<1>3. size \in 1..rest
  <2>1. headerSize' \in Nat
    BY DEF Inv, TypeOK
  <2> QED
    BY <1>0, <1>1, <1>2, <2>1
<1>4. size = Abstract!HeaderSize(p) /\ Abstract!StartCode(p)
  BY <1>0, <1>1, <1>2, <1>3, HeaderSizeAgrees, StartCodeRead
<1>5. Abstract!Complete(p)
  BY <1>0, <1>1, <1>2, <1>3, <1>4 DEF Abstract!Complete
<1>6. \A i : At(i)' = At(i)
  BY <1>1, StreamSame
<1>7. size = Abstract!HeaderSize(p)' /\ Abstract!Complete(p)'
  BY <1>1, <1>4, <1>5, StreamSame
<1>8. Following'
  <2>1. \A i \in 0..(size - 1) : Header(i)' = At(p + i)'
    <3> SUFFICES ASSUME NEW i \in 0..(size - 1)
                 PROVE  Header(i)' = At(p + i)'
      OBVIOUS
    <3>1. Header(i)' = buff[used + i]
      BY <1>0, <1>1 DEF Header, Hbuff
    <3>2. i \in 0..(rest - 1)
      BY <1>2, <1>3
    <3>3. buff[used + i] = c[i]
      BY <3>2 DEF c
    <3> QED
      BY <1>2, <1>6, <3>1, <3>2, <3>3
  <2>2. base' + used' = p + size
    BY <1>0, <1>1, <1>3
  <2>3. Abstract!Complete(start)' /\ headerSize' = Abstract!HeaderSize(start)' /\ headerSize' >= 1
    BY <1>1, <1>3, <1>7
  <2>4. \A i \in 0..(headerSize' - 1) : Header(i)' = At(start + i)'
    BY <1>1, <2>1
  <2>5. (base + used)' = (start + headerSize)'
    BY <1>1, <2>2
  <2>6. header' # Hbuff /\ header' + headerSize' = used'
    BY <1>0, <1>1 DEF Hbuff
  <2> QED
    BY <1>1, <2>3, <2>4, <2>5, <2>6 DEF Following, InPacket
<1>9. Chunk'
  BY <1>0, <1>1, <1>2, <1>3, <1>6, SMTT(30) DEF Exact, Chunk, Searching
<1>10. Collected'
  BY <1>1 DEF Collected
<1>11. Abstract!Next
  <2>1. Dealt = p /\ Dealt' = p
    BY <1>1, ExactDealt DEF DealtIs
  <2>2. Pkt = -1 /\ Pkt' = -1
    BY <1>1 DEF Pkt, InBody
  <2> QED
    BY <1>1, <2>1, <2>2, StutterStep
<1> QED
  BY <1>8, <1>9, <1>10, <1>11 DEF Exact

LEMMA ProcessExact ==
  ASSUME Inv, Exact, NEW n \in ChunkSizes, Process(n), Inv', DealtIs'
  PROVE  Exact' /\ Abstract!Next
<1>0. /\ used \in Nat /\ len \in Nat /\ base \in Nat /\ have \in Nat /\ n \in 1..BuffSize
      /\ Len(stream) \in Nat /\ n <= Len(stream) - (base + len) /\ ~running /\ ~failed
      /\ BuffSize \in Nat /\ old \in Nat /\ TypeOK
  BY Numbers, PesAssumption DEF Process
<1>1. /\ base' = base + len /\ len' = n /\ used' = 0 /\ running' = TRUE
      /\ buff' = [i \in 0..(BuffSize - 1) |->
                    IF i < n THEN [at |-> base + len + i, val |-> stream[base + len + i + 1]]
                    ELSE buff[i]]
      /\ short' = (short \/ n < 4)
      /\ UNCHANGED <<conf, stream, mode, hbuff, have, need, old, header, headerSize,
                     payloadSize, type, start, unsavedHeader, outputHeader, SOP, failed, out>>
  BY DEF Process, buffer, packet, flags, result
<1>2. used = len /\ base' + used' = base + used
  BY <1>0, <1>1 DEF Exact, Chunk, Searching
<1>3. \A i : At(i)' = At(i)
  BY <1>1, StreamSame
<1>4. Chunk'
  <2>1. ASSUME NEW i \in 0..(n - 1)
        PROVE  buff'[i] = At(base + i)'
    <3>1. i \in 0..(BuffSize - 1) /\ base + len + i < Len(stream) /\ i < n
      BY <1>0
    <3>2. buff'[i] = [at |-> base + len + i, val |-> stream[base + len + i + 1]]
      BY <1>1, <3>1
    <3>3. At(base + len + i) = [at |-> base + len + i, val |-> stream[base + len + i + 1]]
      BY <3>1 DEF At, Abstract!Cell, Abstract!Byte
    <3> QED
      BY <1>1, <1>3, <3>2, <3>3
  <2>2. \A i \in 0..(len' - 1) : buff'[i] = At(base + i)'
    BY <1>1, <2>1
  <2>3. n < 4 => short'
    BY <1>1
  <2>4. running' /\ used' <= len' /\ len' = n
    BY <1>0, <1>1
  <2> QED
    BY <2>2, <2>3, <2>4 DEF Chunk
<1>5. Collected'
  <2>1. mode \in {"Sync", "GetHeader"} =>
          \A i \in 0..(have - 1) : hbuff[i] = At(base + used - have + i)
    BY DEF Exact, Collected
  <2>2. ASSUME mode = "Sync"
        PROVE  have - old >= 0 /\ (short' \/ have - old = 0)
    <3>1. CASE have = old
      BY <1>0, <3>1
    <3>2. CASE have # old
      <4>1. have - old >= used /\ (short \/ have - old = used)
        BY <2>2, <3>2 DEF Exact, Collected
      <4>2. have <= 4 /\ old >= 1
        BY <1>0, <2>2, <3>2 DEF Inv, Collecting
      <4>3. have - old = used => short
        BY <1>0, <1>2, <2>2, <4>2 DEF Exact, Chunk, Searching
      <4>4. short => short'
        BY <1>1
      <4> QED
        BY <1>0, <1>2, <4>1, <4>3, <4>4
    <3> QED
      BY <3>1, <3>2
  <2>3. /\ mode = "GetHeader" =>
             have >= 4 /\ start = base + used - have /\ Abstract!StartCode(start) /\ start < base
        /\ start \in Nat
    BY DEF Exact, Collected, Inv, TypeOK
  <2>4. Abstract!StartCode(start)' <=> Abstract!StartCode(start)
    <3> PICK p : p = start
      OBVIOUS
    <3>1. Abstract!StartCode(p)' <=> Abstract!StartCode(p)
      BY <1>1, StreamSame
    <3> QED
      BY <1>1, <3>1
  <2>5. mode' \in {"Sync", "GetHeader"} =>
          \A i \in 0..(have' - 1) : hbuff'[i] = At(base + used - have + i)'
    <3>1. \A i : (base + used - have + i)' = base + used - have + i
      BY <1>0, <1>1, <1>2
    <3>2. \A i : At(base + used - have + i)' = At(base + used - have + i)
      BY <1>3, <3>1
    <3> QED
      BY <1>1, <2>1, <3>2
  <2> QED
    BY <1>0, <1>1, <1>2, <2>2, <2>3, <2>4, <2>5 DEF Collected
<1>6. mode \notin {"DataPut", "DataReady"}
  BY <1>0, <1>2 DEF Exact, Following
<1>7. Following'
  <2>1. ((mode = "HeaderOk") \/ InPacket) /\ SOP => header = Hbuff
    BY <1>0 DEF Exact, Following
  <2>2. header = Hbuff => \A i : Header(i)' = Header(i)
    BY <1>1 DEF Header
  <2>3. ((mode = "HeaderOk") \/ InPacket) /\ SOP => start < base'
    <3>1. ((mode = "HeaderOk") \/ InPacket) /\ SOP =>
            headerSize >= 1 /\ base + used = start + headerSize
      BY DEF Exact, Following
    <3>2. headerSize \in Nat /\ start \in Nat
      BY DEF Inv, TypeOK
    <3> QED
      BY <1>0, <1>1, <1>2, <3>1, <3>2
  <2> QED
    BY <1>1, <1>2, <1>6, <2>1, <2>2, <2>3, FollowingKept DEF Exact
<1>8. Abstract!Next
  <2>1. DealtIs /\ base + used \in Nat
    BY <1>0, <1>1, ExactDealt
  <2>2. Dealt' = Dealt /\ Pkt' = Pkt
    BY <1>0, <1>1, <1>2, <2>1, DealtKept
  <2>3. short' \in {short, TRUE}
    BY <1>0, <1>1 DEF TypeOK
  <2> QED
    BY <1>1, <2>2, <2>3, StutterStep
<1> QED
  BY <1>4, <1>5, <1>7, <1>8 DEF Exact

LEMMA ReturnExact ==
  ASSUME Inv, Exact, Return, Inv', DealtIs'
  PROVE  Exact' /\ Abstract!Next
<1>0. /\ used \in Nat /\ len \in Nat /\ base \in Nat /\ have \in Nat /\ TypeOK /\ used >= len
      /\ headerSize <= HbuffSize /\ headerSize \in Nat /\ HbuffSize \in Nat
      /\ DOMAIN hbuff = 0..(HbuffSize - 1)
  <2>1. TypeOK /\ headerSize \in 0..HbuffSize /\ HbuffSize \in Nat
    BY Numbers
  <2>2. DOMAIN hbuff = 0..(HbuffSize - 1)
    BY <2>1 DEF TypeOK
  <2> QED
    BY <2>1, <2>2, Numbers DEF Return
<1>1. /\ used' = len /\ running' = FALSE
      /\ UNCHANGED <<conf, stream, buff, base, len, short, mode, have, need, old, headerSize,
                     payloadSize, type, start, outputHeader, SOP, failed, out>>
  BY DEF Return, input, result
<1>2. used = len /\ used' = used
  BY <1>0, <1>1 DEF Exact, Chunk, Searching
<1> DEFINE saved == [i \in DOMAIN hbuff |-> IF i < headerSize THEN Header(i) ELSE hbuff[i]]
<1>3. \/ SOP /\ unsavedHeader /\ hbuff' = saved /\ header' = Hbuff /\ unsavedHeader' = FALSE
      \/ ~(SOP /\ unsavedHeader) /\ UNCHANGED <<hbuff, header, unsavedHeader>>
  BY <1>0 DEF Return, SaveHeader
<1>4. \A i \in 0..(headerSize - 1) : saved[i] = Header(i)
  BY <1>0
<1> HIDE DEF saved
<1>5. \A i : At(i)' = At(i)
  BY <1>1, StreamSame
<1>6. Chunk'
  BY <1>1, <1>2, <1>5 DEF Exact, Chunk, Searching
<1>7. Collected'
  <2>1. mode \in {"Sync", "GetHeader"} => hbuff' = hbuff
    BY <1>3 DEF Inv, Collecting
  <2>2. Abstract!StartCode(start)' <=> Abstract!StartCode(start)
    <3> PICK p : p = start
      OBVIOUS
    <3>1. Abstract!StartCode(p)' <=> Abstract!StartCode(p)
      BY <1>1, StreamSame
    <3> QED
      BY <1>1, <3>1
  <2> QED
    BY <1>1, <1>2, <1>5, <2>1, <2>2 DEF Exact, Collected
<1>8. Following'
  <2>1. mode \notin {"DataPut", "DataReady"}
    BY <1>0, <1>2 DEF Exact, Following
  <2>2. ASSUME (mode = "HeaderOk") \/ InPacket, SOP
        PROVE  /\ header' = Hbuff
               /\ \A i \in 0..(headerSize - 1) : Header(i)' = Header(i)
    <3>1. header # Hbuff => unsavedHeader
      BY <2>2 DEF Exact, Following
    <3>2. CASE hbuff' = saved /\ header' = Hbuff
      <4>1. \A i : Header(i)' = hbuff'[i]
        BY <3>2 DEF Header, Hbuff
      <4> QED
        BY <1>4, <3>2, <4>1
    <3>3. CASE ~(SOP /\ unsavedHeader) /\ UNCHANGED <<hbuff, header, unsavedHeader>>
      BY <1>1, <2>2, <3>1, <3>3 DEF Header
    <3> QED
      BY <1>3, <3>2, <3>3
  <2>3. (base + used)' = base + used
    BY <1>1, <1>2
  <2> QED
    BY <1>1, <2>1, <2>2, <2>3, FollowingKept DEF Exact
<1>9. Abstract!Next
  <2>1. Dealt' = Dealt /\ Pkt' = Pkt
    BY <1>1, <1>2, ExactDealt, DealtKept
  <2> QED
    BY <1>1, <2>1, StutterStep
<1> QED
  BY <1>6, <1>7, <1>8, <1>9 DEF Exact

LEMMA NewSyncExact ==
  ASSUME Inv, Exact, NewSync, Inv', DealtIs'
  PROVE  Exact' /\ Abstract!Next
<1>1. /\ mode = "NewSync" /\ mode' = "FastSync" /\ running /\ used < len
      /\ UNCHANGED <<conf, stream, buff, base, len, short, used, running, hbuff, header,
                     headerSize, payloadSize, type, start, failed, out>>
  BY DEF NewSync, In, input, packet, result
<1>2. \A i : At(i)' = At(i)
  BY <1>1, StreamSame
<1>3. Chunk'
  <2>1. len # 0
    BY <1>1, Numbers
  <2> QED
    BY <1>1, <1>2, <2>1 DEF Exact, Chunk, Searching
<1>4. Collected' /\ Following'
  BY <1>1 DEF Collected, Following, InPacket
<1>5. Abstract!Next
  <2>1. Dealt = base + used /\ Dealt' = base + used
    BY <1>1, ExactDealt DEF DealtIs
  <2>2. Pkt = -1 /\ Pkt' = -1
    BY <1>1 DEF Pkt, InBody
  <2> QED
    BY <1>1, <2>1, <2>2, StutterStep
<1> QED
  BY <1>3, <1>4, <1>5 DEF Exact

LEMMA FastSkipExact ==
  ASSUME Inv, Exact, FastSkip, Inv', DealtIs'
  PROVE  Exact' /\ Abstract!Next
<1>0. used \in Nat /\ len \in Nat /\ base \in Nat /\ Len(stream) \in Nat /\ base + len <= Len(stream)
  BY Numbers DEF Input
<1> PICK p \in Nat : p = base + used
  BY <1>0
<1> PICK n : n = SkipSize
  OBVIOUS
<1>1. /\ mode = "FastSync" /\ mode' = "FastSync" /\ running /\ used < len
      /\ rest >= 4 /\ ~StartCode(Val(c)) /\ used' = used + n
      /\ UNCHANGED <<conf, stream, buff, base, len, short, running, hbuff, have, need,
                     old, header, headerSize, payloadSize, type, start, unsavedHeader,
                     outputHeader, SOP, failed, out>>
  BY DEF FastSkip, In, input, buffer, packet, flags, result
<1>2. /\ Read(Val(c), rest, p) /\ rest \in Nat /\ rest = len - used
      /\ \A i \in 0..(rest - 1) : c[i] = At(p + i)
  BY <1>1, ChunkRead
<1>3. n \in 1..3 /\ (n = 1 \/ (n = 3 /\ Byte(p + 2) # 0))
  <2>1. c[2] = At(p + 2)
    BY <1>1, <1>2
  <2>2. c[2].val = Byte(p + 2)
    BY <2>1 DEF At, Abstract!Cell, Byte
  <2> QED
    BY <2>2 DEF SkipSize
<1>4. \A i : At(i)' = At(i)
  BY <1>1, StreamSame
<1>5. Chunk'
  BY <1>0, <1>1, <1>2, <1>3, <1>4 DEF Exact, Chunk, Searching
<1>6. Collected' /\ Following'
  BY <1>1 DEF Collected, Following, InPacket
<1>7. \A q \in p..(p + n - 1) : ~Abstract!StartCode(q)
  <2>1. ~Abstract!StartCode(p)
    BY <1>0, <1>1, <1>2, StartCodeRead
  <2>2. ASSUME n = 3, NEW q \in {p + 1, p + 2}
        PROVE  ~Abstract!StartCode(q)
    <3>1. Byte(p + 2) # 0 /\ (p + 1) + 1 = p + 2
      BY <1>3, <2>2
    <3> QED
      BY <3>1 DEF Abstract!StartCode, Byte
  <2> QED
    BY <1>3, <2>1, <2>2
<1>8. Abstract!Next
  <2>1. Dealt = p /\ Dealt' = p + n
    <3>1. Dealt' = base + (used + n) /\ Dealt = p
      BY <1>1, ExactDealt DEF DealtIs
    <3> QED
      BY <1>0, <1>3, <3>1
  <2>2. ~InBody /\ ~InBody'
    BY <1>1 DEF InBody
  <2>3. n \in 1..Len(stream)
    BY <1>0, <1>1, <1>2, <1>3
  <2> QED
    BY <1>1, <1>7, <2>1, <2>2, <2>3, SkipStep
<1> QED
  BY <1>5, <1>6, <1>8 DEF Exact

LEMMA FastBufferExact ==
  ASSUME Inv, Exact, FastBuffer, Inv', DealtIs'
  PROVE  Exact' /\ Abstract!Next
<1>0. /\ used \in Nat /\ len \in Nat /\ base \in Nat /\ HbuffSize \in Nat /\ TypeOK
  BY Numbers
<1> PICK p \in Nat : p = base + used
  BY <1>0
<1> PICK n : n = rest
  OBVIOUS
<1>1. /\ mode = "FastSync" /\ mode' = "Sync" /\ running /\ used < len
      /\ hbuff' = [i \in DOMAIN hbuff |-> IF i < n THEN c[i] ELSE hbuff[i]]
      /\ have' = n /\ old' = n /\ used' = len
      /\ UNCHANGED <<conf, stream, buff, base, len, short, running, need, header, headerSize,
                     payloadSize, type, start, unsavedHeader, outputHeader, SOP, failed, out>>
  BY DEF FastBuffer, In, input, packet, flags, result
<1>2. n \in Nat /\ n = len - used /\ \A i \in 0..(n - 1) : c[i] = At(p + i)
  BY <1>1, ChunkRead
<1>3. n <= HbuffSize
  BY <1>1 DEF Inv, HeaderFits
<1>4. \A i : At(i)' = At(i)
  BY <1>1, StreamSame
<1>5. Chunk'
  BY <1>0, <1>1, <1>4 DEF Exact, Chunk, Searching
<1>6. \A i \in 0..(n - 1) : hbuff'[i] = At(p + i)
  <2>1. DOMAIN hbuff = 0..(HbuffSize - 1)
    BY <1>0 DEF TypeOK
  <2> QED
    BY <1>0, <1>1, <1>2, <1>3, <2>1
<1>7. base + len - n = p
  BY <1>0, <1>2
<1>8. Collected'
  <2>1. \A i \in 0..(n - 1) : (base + used - have + i)' = p + i
    BY <1>0, <1>1, <1>2
  <2>2. \A i \in 0..(have' - 1) : hbuff'[i] = At(base + used - have + i)'
    BY <1>1, <1>4, <1>6, <2>1
  <2> QED
    BY <1>1, <2>2 DEF Collected
<1>9. Following'
  BY <1>1 DEF Following, InPacket
<1>10. Abstract!Next
  <2>1. Dealt = p /\ Dealt' = p
    <3>1. Dealt' = (base + len) - n /\ Dealt = p
      BY <1>1, ExactDealt DEF DealtIs
    <3> QED
      BY <1>0, <1>2, <3>1
  <2>2. Pkt = -1 /\ Pkt' = -1
    BY <1>1 DEF Pkt, InBody
  <2> QED
    BY <1>1, <2>1, <2>2, StutterStep
<1> QED
  BY <1>5, <1>8, <1>9, <1>10 DEF Exact

LEMMA SyncFillExact ==
  ASSUME Inv, Exact, SyncFill, Inv', DealtIs'
  PROVE  Exact' /\ Abstract!Next
<1>0. /\ used \in Nat /\ len \in Nat /\ base \in Nat /\ have \in Nat /\ old \in Nat
      /\ HbuffSize \in Nat /\ HbuffSize > 14 /\ TypeOK
  BY Numbers
<1>1. /\ mode = "Sync" /\ mode' = "Sync" /\ running /\ used < len /\ have < 4
      /\ hbuff' = [hbuff EXCEPT ![have] = c[0]]
      /\ have' = have + 1 /\ used' = used + 1
      /\ UNCHANGED <<conf, stream, buff, base, len, short, running, need, old, header,
                     headerSize, payloadSize, type, start, unsavedHeader, outputHeader, SOP,
                     failed, out>>
  BY DEF SyncFill, In, input, packet, flags, result
<1>2. have <= base + used
  BY <1>1 DEF Inv, Collecting
<1> PICK p \in Nat : p = base + used - have
  BY <1>0, <1>2
<1>3. \A i : At(i)' = At(i)
  BY <1>1, StreamSame
<1>4. Chunk'
  BY <1>0, <1>1, <1>3 DEF Exact, Chunk, Searching
<1>5. \A i \in 0..(have - 1) : hbuff[i] = At(p + i)
  <2>1. \A i \in 0..(have - 1) : hbuff[i] = At(base + used - have + i)
    BY <1>1 DEF Exact, Collected
  <2>2. \A i \in 0..(have - 1) : base + used - have + i = p + i
    BY <1>0
  <2> QED
    BY <2>1, <2>2
<1>6. c[0] = At(p + have)
  <2>1. /\ rest \in Nat /\ rest = len - used
        /\ \A i \in 0..(rest - 1) : c[i] = At(base + used + i)
    BY <1>1, ChunkRead
  <2>2. 0 \in 0..(rest - 1)
    BY <1>0, <1>1, <2>1
  <2>3. base + used + 0 = p + have
    BY <1>0
  <2> QED
    BY <2>1, <2>2, <2>3
<1>7. \A i \in 0..have : hbuff'[i] = At(p + i)
  <2>1. DOMAIN hbuff = 0..(HbuffSize - 1)
    BY <1>0 DEF TypeOK
  <2> QED
    BY <1>0, <1>1, <1>5, <1>6, <2>1
<1>8. Collected'
  <2>1. \A i \in 0..have : (base + used - have + i)' = p + i
    BY <1>0, <1>1
  <2>2. \A i \in 0..(have' - 1) : hbuff'[i] = At(base + used - have + i)'
    BY <1>0, <1>1, <1>3, <1>7, <2>1
  <2>3. have - old >= used /\ (short \/ have - old = used)
    BY <1>0, <1>1 DEF Exact, Collected
  <2>4. have' - old' >= used' /\ (short' \/ have' - old' = used')
    BY <1>0, <1>1, <2>3
  <2> QED
    BY <1>1, <2>2, <2>4 DEF Collected
<1>9. Following'
  BY <1>1 DEF Following, InPacket
<1>10. Abstract!Next
  <2>1. Dealt = p /\ Dealt' = p
    <3>1. Dealt' = (base + (used + 1)) - (have + 1) /\ Dealt = (base + used) - have
      BY <1>1, ExactDealt DEF DealtIs
    <3> QED
      BY <1>0, <3>1
  <2>2. Pkt = -1 /\ Pkt' = -1
    BY <1>1 DEF Pkt, InBody
  <2> QED
    BY <1>1, <2>1, <2>2, StutterStep
<1> QED
  BY <1>4, <1>8, <1>9, <1>10 DEF Exact

LEMMA SyncHitExact ==
  ASSUME Inv, Exact, SyncHit, Inv', DealtIs'
  PROVE  Exact' /\ Abstract!Next
<1>0. used \in Nat /\ len \in Nat /\ base \in Nat /\ have \in Nat /\ Len(stream) \in Nat
  BY Numbers
<1>1. /\ mode = "Sync" /\ mode' = "GetHeader" /\ running /\ used < len /\ have >= 4
      /\ StartCode(Val(hbuff)) /\ start' = base + used - have
      /\ UNCHANGED <<conf, stream, buff, base, len, short, used, running, hbuff, have, old,
                     header, headerSize, payloadSize, type, unsavedHeader, outputHeader, SOP,
                     failed, out>>
  BY DEF SyncHit, In, input, flags, result
<1>2. have <= base + used
  BY <1>1 DEF Inv, Collecting
<1> PICK p \in Nat : p = base + used - have
  BY <1>0, <1>2
<1>3. /\ Read(Val(hbuff), have, p)
      /\ \A i \in 0..(have - 1) : hbuff[i] = At(base + used - have + i)
  BY <1>1, HbuffRead
<1>4. Abstract!StartCode(p)
  BY <1>0, <1>1, <1>3, StartCodeRead
<1>5. (\A i : At(i)' = At(i)) /\ Abstract!StartCode(p)'
  BY <1>1, <1>4, StreamSame
<1>6. Chunk'
  BY <1>1, <1>5 DEF Exact, Chunk, Searching
<1>7. Collected'
  <2>1. \A i \in 0..(have' - 1) : hbuff'[i] = At(base + used - have + i)'
    BY <1>1, <1>3, <1>5
  <2>2. have' >= 4 /\ start' = (base + used - have)'
    BY <1>1
  <2>3. Abstract!StartCode(start)'
    BY <1>1, <1>5
  <2>4. start' < base'
    <3>1. have - old >= used /\ old >= 1 /\ old \in Nat
      BY <1>0, <1>1, Numbers DEF Exact, Collected, Inv, Collecting
    <3> QED
      BY <1>0, <1>1, <3>1
  <2> QED
    BY <1>1, <2>1, <2>2, <2>3, <2>4 DEF Collected
<1>8. Following'
  BY <1>1 DEF Following, InPacket
<1>9. Abstract!Next
  <2>1. Dealt' = (base + used) - have /\ Dealt = (base + used) - have
    BY <1>1, ExactDealt DEF DealtIs
  <2>2. Pkt = -1 /\ Pkt' = -1
    BY <1>1 DEF Pkt, InBody
  <2> QED
    BY <1>1, <2>1, <2>2, StutterStep
<1> QED
  BY <1>6, <1>7, <1>8, <1>9 DEF Exact

\* When the byte that is given up is the last one of an earlier chunk, the search goes on
\* at the first one of this chunk.
LEMMA SyncShiftExact ==
  ASSUME Inv, Exact, SyncShift, Inv', DealtIs'
  PROVE  Exact' /\ Abstract!Next
<1>0. /\ used \in Nat /\ len \in Nat /\ base \in Nat /\ have \in Nat /\ old \in Nat
      /\ Len(stream) \in Nat /\ base + len <= Len(stream)
      /\ HbuffSize \in Nat /\ HbuffSize > 14 /\ TypeOK
  BY Numbers DEF Input
<1>1. /\ mode = "Sync" /\ running /\ used < len /\ have >= 4 /\ ~StartCode(Val(hbuff))
      /\ hbuff' = [i \in DOMAIN hbuff |-> IF i < have - 1 THEN hbuff[i + 1] ELSE hbuff[i]]
      /\ have' = have - 1 /\ old' = old - 1
      /\ used' = (IF old = 1 THEN 0 ELSE used)
      /\ mode' = (IF old = 1 THEN "FastSync" ELSE "Sync")
      /\ UNCHANGED <<conf, stream, buff, base, len, short, running, need, header, headerSize,
                     payloadSize, type, start, unsavedHeader, outputHeader, SOP, failed, out>>
  BY DEF SyncShift, Rewind, In, input, packet, flags, result
<1>2. have = 4 /\ old >= 1 /\ have <= base + used
  BY <1>0, <1>1 DEF Inv, Collecting
<1>3. have - old >= used /\ (short \/ have - old = used)
  BY <1>0, <1>1 DEF Exact, Collected
<1> PICK p \in Nat : p = base + used - 4
  BY <1>0, <1>2
<1>4. Read(Val(hbuff), 4, p) /\ \A i \in 0..3 : hbuff[i] = At(p + i)
  <2>1. /\ Read(Val(hbuff), have, base + used - have)
        /\ \A i \in 0..(have - 1) : hbuff[i] = At(base + used - have + i)
    BY <1>1, HbuffRead
  <2>2. base + used - have = p /\ \A i \in 0..3 : base + used - have + i = p + i
    BY <1>0, <1>2
  <2> QED
    BY <1>2, <2>1, <2>2
<1>5. ~Abstract!StartCode(p)
  BY <1>0, <1>1, <1>4, StartCodeRead
<1>6. \A i : At(i)' = At(i)
  BY <1>1, StreamSame
<1>7. Chunk'
  BY <1>0, <1>1, <1>6 DEF Exact, Chunk, Searching
<1>8. Following'
  BY <1>1 DEF Following, InPacket
<1>9. ~InBody /\ ~InBody'
  BY <1>1 DEF InBody
<1>10. Dealt = p
  <2>1. Dealt = (base + used) - have
    BY <1>1, ExactDealt DEF DealtIs
  <2> QED
    BY <1>0, <1>2, <2>1
<1>11. CASE old # 1
  <2>1. mode' = "Sync" /\ used' = used /\ have' = 3 /\ old' \in Nat
    BY <1>0, <1>1, <1>2, <1>11
  <2>2. \A i \in 0..2 : hbuff'[i] = At(p + 1 + i)
    <3> SUFFICES ASSUME NEW i \in 0..2
                 PROVE  hbuff'[i] = At(p + 1 + i)
      OBVIOUS
    <3>1. i \in DOMAIN hbuff /\ i < have - 1 /\ i + 1 \in 0..3
      BY <1>0, <1>2 DEF TypeOK
    <3>2. hbuff'[i] = At(p + (i + 1))
      BY <1>1, <1>4, <3>1
    <3>3. p + (i + 1) = p + 1 + i
      OBVIOUS
    <3> QED
      BY <3>2, <3>3
  <2>3. Collected'
    <3>1. \A i \in 0..2 : (base + used - have + i)' = p + 1 + i
      BY <1>0, <1>1, <2>1
    <3>2. \A i \in 0..(have' - 1) : hbuff'[i] = At(base + used - have + i)'
      BY <1>6, <2>1, <2>2, <3>1
    <3>3. have' - old' >= used' /\ (short' \/ have' - old' = used')
      BY <1>0, <1>1, <1>2, <1>3, <2>1
    <3> QED
      BY <2>1, <3>2, <3>3 DEF Collected
  <2>4. Dealt' = p + 1
    <3>1. Dealt' = (base' + used') - have'
      BY <2>1 DEF DealtIs
    <3> QED
      BY <1>0, <1>1, <2>1, <3>1
  <2>5. Abstract!Next
    <3>1. 1 \in 1..Len(stream) /\ \A q \in p..(p + 1 - 1) : ~Abstract!StartCode(q)
      BY <1>0, <1>1, <1>5
    <3> QED
      BY <1>1, <1>9, <1>10, <2>4, <3>1, SkipStep
  <2> QED
    BY <1>7, <1>8, <2>3, <2>5 DEF Exact
<1>12. CASE old = 1
  <2>1. mode' = "FastSync" /\ used' = 0 /\ used <= 3 /\ (short \/ used = 3)
    BY <1>0, <1>1, <1>2, <1>3, <1>12
  <2>2. Collected'
    BY <2>1 DEF Collected
  <2> PICK n \in 1..4 : n = 4 - used
    BY <1>0, <2>1
  <2>3. Dealt' = p + n
    <3>1. Dealt' = base + 0
      BY <1>1, <2>1 DEF DealtIs
    <3> QED
      BY <1>0, <3>1
  <2>4. n \in 1..Len(stream)
    BY <1>0, <1>1, <1>2
  <2>5. \/ \A q \in p..(p + n - 1) : ~Abstract!StartCode(q)
        \/ short /\ n <= 4
    BY <1>5, <2>1
  <2>6. Abstract!Next
    BY <1>1, <1>9, <1>10, <2>3, <2>4, <2>5, SkipStep
  <2> QED
    BY <1>7, <1>8, <2>2, <2>6 DEF Exact
<1> QED
  BY <1>11, <1>12

LEMMA HeaderFillExact ==
  ASSUME Inv, Exact, HeaderFill, Inv', DealtIs'
  PROVE  Exact' /\ Abstract!Next
<1>0. /\ used \in Nat /\ len \in Nat /\ base \in Nat /\ have \in Nat /\ need \in Nat
      /\ HbuffSize \in Nat /\ TypeOK
  BY Numbers
<1> PICK n : n = IF need - have < rest THEN need - have ELSE rest
  OBVIOUS
<1>1. /\ mode = "GetHeader" /\ mode' = "GetHeader" /\ running /\ used < len /\ have < need
      /\ hbuff' = [i \in DOMAIN hbuff |-> IF i \in have..(have + n - 1) THEN c[i - have] ELSE hbuff[i]]
      /\ have' = have + n /\ used' = used + n
      /\ UNCHANGED <<conf, stream, buff, base, len, short, running, need, old, header,
                     headerSize, payloadSize, type, start, unsavedHeader, outputHeader, SOP,
                     failed, out>>
  BY DEF HeaderFill, In, input, packet, flags, result
<1>2. /\ rest \in Nat /\ rest = len - used
      /\ \A i \in 0..(rest - 1) : c[i] = At(base + used + i)
  BY <1>1, ChunkRead
<1>3. n \in Nat /\ n >= 1 /\ n <= rest
  BY <1>0, <1>1, <1>2
<1>4. have <= base + used
  BY <1>1 DEF Inv, Collecting
<1> PICK p \in Nat : p = base + used - have
  BY <1>0, <1>4
<1>5. \A i : At(i)' = At(i)
  BY <1>1, StreamSame
<1>6. have + n <= HbuffSize
  BY <1>1 DEF Inv, HeaderFits
<1>7. Chunk'
  BY <1>0, <1>1, <1>2, <1>3, <1>5 DEF Exact, Chunk, Searching
<1>8. \A i \in 0..(have - 1) : hbuff[i] = At(p + i)
  <2>1. \A i \in 0..(have - 1) : hbuff[i] = At(base + used - have + i)
    BY <1>1 DEF Exact, Collected
  <2>2. \A i \in 0..(have - 1) : base + used - have + i = p + i
    BY <1>0
  <2> QED
    BY <2>1, <2>2
<1>9. \A i \in have..(have + n - 1) : c[i - have] = At(p + i)
  <2> SUFFICES ASSUME NEW i \in have..(have + n - 1)
               PROVE  c[i - have] = At(p + i)
    OBVIOUS
  <2>1. i - have \in 0..(rest - 1)
    BY <1>0, <1>2, <1>3
  <2>2. base + used + (i - have) = p + i
    BY <1>0
  <2> QED
    BY <1>2, <2>1, <2>2
<1>10. \A i \in 0..(have + n - 1) : hbuff'[i] = At(p + i)
  <2> SUFFICES ASSUME NEW i \in 0..(have + n - 1)
               PROVE  hbuff'[i] = At(p + i)
    OBVIOUS
  <2>1. i \in DOMAIN hbuff
    BY <1>0, <1>3, <1>6, SMTT(30) DEF TypeOK
  <2>2. i \in 0..(have - 1) \/ i \in have..(have + n - 1)
    BY <1>0, <1>3
  <2>3. CASE i \in have..(have + n - 1)
    BY <1>1, <1>9, <2>1, <2>3
  <2>4. CASE i \notin have..(have + n - 1)
    <3>1. i \in 0..(have - 1)
      BY <2>2, <2>4
    <3> QED
      BY <1>1, <1>8, <2>1, <2>4, <3>1
  <2> QED
    BY <2>3, <2>4
<1>11. Collected'
  <2>1. (base + used - have)' = p /\ have' \in Nat
    BY <1>0, <1>1, <1>3
  <2>2. \A i \in 0..(have' - 1) : hbuff'[i] = At(base + used - have + i)'
    BY <1>0, <1>1, <1>5, <1>10, <2>1
  <2>3. have >= 4 /\ start = p /\ Abstract!StartCode(p) /\ start < base
    BY <1>1 DEF Exact, Collected
  <2>4. Abstract!StartCode(p)'
    BY <1>1, <2>3, StreamSame
  <2>5. /\ start' = (base + used - have)' /\ Abstract!StartCode(start)' /\ have' >= 4
        /\ start' < base'
    BY <1>0, <1>1, <1>3, <2>1, <2>3, <2>4
  <2> QED
    BY <1>1, <2>2, <2>5 DEF Collected
<1>12. Following'
  BY <1>1 DEF Following, InPacket
<1>13. Abstract!Next
  <2>1. Dealt = p /\ Dealt' = p
    <3>1. Dealt' = (base + (used + n)) - (have + n) /\ Dealt = (base + used) - have
      BY <1>1, ExactDealt DEF DealtIs
    <3> QED
      BY <1>0, <1>3, <3>1
  <2>2. Pkt = -1 /\ Pkt' = -1
    BY <1>1 DEF Pkt, InBody
  <2> QED
    BY <1>1, <2>1, <2>2, StutterStep
<1> QED
  BY <1>7, <1>11, <1>12, <1>13 DEF Exact

\* A size that is not greater than the number of bytes it was computed from is the one of
\* the header.
LEMMA HeaderCheckExact ==
  ASSUME Inv, Exact, HeaderCheck, Inv', DealtIs'
  PROVE  Exact' /\ Abstract!Next
<1>0. /\ used \in Nat /\ len \in Nat /\ base \in Nat /\ have \in Nat /\ Len(stream) \in Nat
      /\ HbuffSize \in Nat /\ TypeOK /\ stream \in Seq(0..255)
  BY Numbers, StreamTypes
<1> PICK size : size = Abs(HeaderSize(Val(hbuff), have))
  OBVIOUS
<1>1. /\ mode = "GetHeader" /\ running /\ used < len /\ have >= need /\ need' = size
      /\ UNCHANGED <<conf, stream, buff, base, len, short, used, running, hbuff, have, old,
                     payloadSize, type, start, unsavedHeader, outputHeader, SOP, failed, out>>
      /\ \/ have < size /\ UNCHANGED <<mode, header, headerSize>>
         \/ ~(have < size) /\ mode' = "HeaderOk" /\ header' = Hbuff /\ headerSize' = size
  BY DEF HeaderCheck, In, input, flags, result
<1>2. have <= base + used
  BY <1>1 DEF Inv, Collecting
<1> PICK p \in Nat : p = base + used - have
  BY <1>0, <1>2
<1>3. /\ Read(Val(hbuff), have, p)
      /\ \A i \in 0..(have - 1) : hbuff[i] = At(base + used - have + i)
  BY <1>1, HbuffRead
<1>4. have >= 4 /\ start = p /\ Abstract!StartCode(p) /\ start < base
  BY <1>1 DEF Exact, Collected
<1>5. (\A i : At(i)' = At(i)) /\ Abstract!StartCode(p)'
  BY <1>1, <1>4, StreamSame
<1>6. Chunk'
  BY <1>1, <1>5 DEF Exact, Chunk, Searching
<1>7. Abstract!Next
  <2>1. Dealt = p
    <3>1. Dealt = (base + used) - have
      BY <1>1, ExactDealt DEF DealtIs
    <3> QED
      BY <1>0, <3>1
  <2>2. Dealt' = p
    <3>1. CASE mode' = "HeaderOk"
      BY <1>1, <1>4, <3>1 DEF DealtIs
    <3>2. CASE mode' = "GetHeader"
      <4>1. Dealt' = (base + used) - have
        BY <1>1, <3>2 DEF DealtIs
      <4> QED
        BY <1>0, <4>1
    <3> QED
      BY <1>1, <3>1, <3>2
  <2>3. Pkt = -1 /\ Pkt' = -1
    BY <1>1 DEF Pkt, InBody
  <2> QED
    BY <1>1, <2>1, <2>2, <2>3, StutterStep
<1>8. CASE have < size
  <2>1. mode' = "GetHeader"
    BY <1>1, <1>8
  <2>2. Collected'
    <3>1. \A i \in 0..(have' - 1) : hbuff'[i] = At(base + used - have + i)'
      BY <1>1, <1>3, <1>5
    <3>2. /\ Abstract!StartCode(start)' /\ start' = (base + used - have)' /\ have' >= 4
          /\ start' < base'
      BY <1>1, <1>4, <1>5
    <3> QED
      BY <2>1, <3>1, <3>2 DEF Collected
  <2>3. Following'
    BY <2>1 DEF Following, InPacket
  <2> QED
    BY <1>6, <1>7, <2>2, <2>3 DEF Exact
<1>9. CASE ~(have < size)
  <2>1. mode' = "HeaderOk" /\ header' = Hbuff /\ headerSize' = size
    BY <1>1, <1>9
  <2>2. size = have /\ size = HeaderSize(Val(hbuff), have)
    <3>1. Bytes(Val(hbuff), have)
      BY <1>0, <1>3, ReadBytes
    <3>2. /\ HeaderSize(Val(hbuff), have) \in Int
          /\ HeaderSize(Val(hbuff), have) < 0 => size > have
          /\ size \in Nat
      BY <1>0, <3>1, HeaderSizeTypes
    <3>3. size >= have
      <4>1. need' > 0 => have' = need'
        BY <2>1, SMTT(30) DEF Inv, HeaderKnown
      <4> QED
        BY <1>0, <1>1, <1>4, <3>2, <4>1, HeaderSizeTypes, <3>1
    <3> QED
      BY <1>0, <1>9, <3>2, <3>3 DEF Abs
  <2>3. size = Abstract!HeaderSize(p)
    <3>1. have \in 1..have
      BY <1>0, <1>4, SMTT(30)
    <3>2. HeaderSize(Val(hbuff), have) = have
      BY <2>2
    <3>3. HeaderSize(Val(hbuff), have) \in 1..have
      BY <3>1, <3>2
    <3>4. Abstract!HeaderSize(p) = HeaderSize(Val(hbuff), have)
      BY <1>0, <1>3, <1>4, <3>3, HeaderSizeAgrees
    <3> QED
      BY <2>2, <3>4
  <2>4. Abstract!Complete(p)
    <3>1. p + size <= Len(stream)
      BY <1>3, <2>2 DEF Read
    <3> QED
      BY <1>4, <2>3, <3>1, SMTT(30) DEF Abstract!Complete
  <2>5. size = Abstract!HeaderSize(p)' /\ Abstract!Complete(p)'
    BY <1>1, <2>3, <2>4, StreamSame
  <2>6. Collected'
    BY <2>1 DEF Collected
  <2>7. Following'
    <3>1. Abstract!Complete(start)' /\ headerSize' = Abstract!HeaderSize(start)'
      BY <1>1, <1>4, <2>1, <2>5
    <3>6. headerSize' >= 1
      <4>1. headerSize' = have
        BY <2>1, <2>2, ZenonT(60)
      <4> QED
        BY <1>0, <1>4, <4>1, SMTT(30)
    <3>2. \A i \in 0..(size - 1) : hbuff[i] = At(p + i)
      <4>1. \A i \in 0..(have - 1) : base + used - have + i = p + i
        BY <1>0
      <4> QED
        BY <1>3, <2>2, <4>1
    <3>3. \A i : Header(i)' = hbuff[i]
      BY <1>1, <2>1 DEF Header, Hbuff
    <3>4. \A i \in 0..(headerSize' - 1) : Header(i)' = At(start + i)'
      BY <1>1, <1>4, <1>5, <2>1, <3>2, <3>3, SMTT(30)
    <3>5. (base + used)' = (start + headerSize)'
      <4>1. base + used = p + have
        BY <1>0
      <4> QED
        BY <1>1, <1>4, <2>1, <2>2, <4>1
    <3>7. start' < base'
      BY <1>1, <1>4
    <3> QED
      BY <2>1, <3>1, <3>4, <3>5, <3>6, <3>7 DEF Following, InPacket
  <2> QED
    BY <1>6, <1>7, <2>6, <2>7 DEF Exact
<1> QED
  BY <1>8, <1>9

\* The header says what PesStream reads in the stream.
LEMMA HeaderRead ==
  ASSUME Inv, Exact, mode = "HeaderOk"
  PROVE  /\ SOP /\ outputHeader /\ start \in Nat /\ base + used = start + headerSize
         /\ headerSize = Abstract!HeaderSize(start) /\ Abstract!Complete(start)
         /\ Header(3).val = Abstract!StreamId(start) /\ PacketSize = Abstract!Size(start)
         /\ Abstract!Size(start) \in Int
<1>0. /\ headerSize \in Nat /\ start \in Nat /\ SOP = outputHeader
  BY DEF Inv, TypeOK, Input
<1>1. SOP /\ headerSize >= 4 /\ (Header(3).val \in Sized => headerSize >= 6)
  BY DEF Inv, Collecting, HeaderKnown
<1>2. /\ Abstract!Complete(start) /\ headerSize = Abstract!HeaderSize(start)
      /\ \A i \in 0..(headerSize - 1) : Header(i) = At(start + i)
      /\ base + used = start + headerSize
  BY <1>1 DEF Exact, Following
<1>3. \A i \in 0..(headerSize - 1) : Header(i).val = Abstract!Byte(start + i)
  BY <1>2 DEF At, Abstract!Cell
<1>4. Header(3).val = Abstract!StreamId(start)
  BY <1>0, <1>1, <1>3 DEF Abstract!StreamId
<1>5. PacketSize = Abstract!Size(start) /\ Abstract!Size(start) \in Int
  <2>1. CASE Header(3).val \in Sized
    <3>1. /\ Header(4).val = Abstract!Byte(start + 4)
          /\ Header(5).val = Abstract!Byte(start + 5) /\ (start + 4) + 1 = start + 5
      BY <1>0, <1>1, <1>3, <2>1
    <3>2. 256 * Header(4).val + Header(5).val = Abstract!Word(start + 4)
      BY <3>1 DEF Abstract!Word
    <3>3. Header(3).val \in {189, 190, 191} \cup Elementary
      BY <2>1 DEF Sized
    <3>4. Abstract!StreamId(start) \in Abstract!Sized
      BY <1>4, <2>1 DEF Sized, Elementary, Abstract!Sized, Abstract!Elementary
    <3>5. PacketSize = 6 + 256 * Header(4).val + Header(5).val
      BY <3>3 DEF PacketSize
    <3>6. Abstract!Size(start) = 6 + Abstract!Word(start + 4)
      BY <3>4 DEF Abstract!Size
    <3>7. /\ Header(4).val \in Int /\ Header(5).val \in Int
      <4>1. Header(4).val \in 0..255 /\ Header(5).val \in 0..255
        <5>1. TypeOK /\ Input /\ headerSize <= HbuffSize
          BY DEF Inv, HeaderFits
        <5>2. 4 \in 0..(headerSize - 1) /\ 5 \in 0..(headerSize - 1)
          BY <1>0, <1>1, <2>1
        <5> QED
          BY <5>1, <5>2, HeaderTypes
      <4> QED
        BY <4>1
    <3> DEFINE x == Header(4).val
               y == Header(5).val
               w == Abstract!Word(start + 4)
    <3>8. x \in Int /\ y \in Int /\ 256 * x + y = w
      BY <3>2, <3>7
    <3>9. PacketSize = 6 + 256 * x + y /\ Abstract!Size(start) = 6 + w
      BY <3>5, <3>6
    <3> HIDE DEF x, y, w
    <3>10. 6 + 256 * x + y = 6 + (256 * x + y) /\ 6 + 256 * x + y \in Int
      BY <3>8
    <3> QED
      BY <3>8, <3>9, <3>10
  <2>2. CASE Header(3).val \notin Sized
    <3>1. Header(3).val \notin {189, 190, 191} \cup Elementary
      BY <2>2 DEF Sized, Elementary
    <3>2. Abstract!StreamId(start) \notin Abstract!Sized
      BY <1>4, <2>2 DEF Sized, Elementary, Abstract!Sized, Abstract!Elementary
    <3> QED
      BY <1>0, <1>2, <3>1, <3>2 DEF PacketSize, Abstract!Size
  <2> QED
    BY <2>1, <2>2
<1> QED
  BY <1>0, <1>1, <1>2, <1>4, <1>5

LEMMA HeaderOkExact ==
  ASSUME Inv, Exact, HeaderOk, Inv', DealtIs'
  PROVE  Exact' /\ Abstract!Next
<1> PICK p : p = start
  OBVIOUS
<1> PICK size : size = PacketSize - headerSize
  OBVIOUS
<1>1. /\ mode = "HeaderOk" /\ running /\ used < len /\ type' = Header(3).val
      /\ \/ /\ Header(3).val > 184 /\ size >= 0
            /\ mode' = "Payload" /\ payloadSize' = size /\ have' = 0 /\ need' = 0
         \/ /\ ~(Header(3).val > 184 /\ size >= 0)
            /\ mode' = "NewSync"
      /\ UNCHANGED <<conf, stream, buff, base, len, short, used, running, hbuff, old, header,
                     headerSize, start, unsavedHeader, outputHeader, SOP, failed, out>>
  BY DEF HeaderOk, In, input, flags, result
<1>2. /\ SOP /\ outputHeader /\ p \in Nat /\ base + used = p + headerSize
      /\ headerSize = Abstract!HeaderSize(p) /\ Abstract!Complete(p)
      /\ Header(3).val = Abstract!StreamId(p) /\ PacketSize = Abstract!Size(p)
      /\ Abstract!Size(p) \in Int
  BY <1>1, HeaderRead
<1>3. /\ \A i \in 0..(headerSize - 1) : Header(i) = At(p + i)
      /\ header # Hbuff => header + headerSize = used /\ unsavedHeader /\ (running \/ failed)
      /\ header = Hbuff /\ running => p < base
  BY <1>1, <1>2 DEF Exact, Following
<1>4. \A i : At(i)' = At(i) /\ Header(i)' = Header(i)
  BY <1>1, StreamSame DEF Header
<1>5. Chunk'
  <2>1. len # 0
    BY <1>1, Numbers
  <2> QED
    BY <1>1, <1>4, <2>1 DEF Exact, Chunk, Searching
<1>6. Collected'
  BY <1>1 DEF Collected
<1>7. headerSize \in Nat
  BY DEF Inv, TypeOK
<1>8. Dealt = p
  BY <1>1, ExactDealt DEF DealtIs
<1>9. CASE mode' = "Payload"
  <2>1. Header(3).val > 184 /\ size >= 0 /\ payloadSize' = size /\ have' = 0
    BY <1>1, <1>9
  <2>2. size \in Int
    BY <2>1 DEF Inv, TypeOK
  <2>3. Abstract!Valid(p)
    <3>1. Abstract!StreamId(p) > 184
      BY <1>2, <2>1
    <3>2. Abstract!Size(p) >= Abstract!HeaderSize(p)
      BY <1>2, <1>7, <2>1
    <3> QED
      BY <3>1, <3>2 DEF Abstract!Valid
  <2>4. /\ Abstract!Complete(start)' /\ headerSize' = Abstract!HeaderSize(start)'
        /\ headerSize' >= 1 /\ Abstract!Valid(start)' /\ type' = Abstract!StreamId(start)'
        /\ payloadSize' = Abstract!Size(start)' - headerSize'
    <3>1. /\ Abstract!Complete(p)' /\ Abstract!Valid(p)'
          /\ Abstract!HeaderSize(p)' = Abstract!HeaderSize(p)
          /\ Abstract!StreamId(p)' = Abstract!StreamId(p)
          /\ Abstract!Size(p)' = Abstract!Size(p)
      BY <1>1, <1>2, <2>3, StreamSame
    <3>2. headerSize >= 1
      BY <1>1 DEF Exact, Following
    <3> QED
      BY <1>1, <1>2, <2>1, <3>1, <3>2
  <2>5. \A i \in 0..(headerSize' - 1) : Header(i)' = At(start + i)'
    BY <1>1, <1>3, <1>4
  <2>6. (base + used)' = (start + headerSize)' /\ (base + used)' = (start + headerSize + have)'
    BY <1>1, <1>2, <1>7, <2>1
  <2>7. /\ header' # Hbuff =>
             header' + headerSize' = used' /\ unsavedHeader' /\ (running' \/ failed')
        /\ header' = Hbuff /\ running' => start' < base'
        /\ Whole'
    BY <1>1, <1>3, <2>4, <2>6 DEF Whole
  <2>8. have' < payloadSize' \/ (have' = 0 /\ payloadSize' = 0 /\ SOP')
    BY <1>1, <1>2, <2>1, <2>2
  <2>9. Following'
    BY <1>9, <2>4, <2>5, <2>6, <2>7, <2>8 DEF Following
  <2>10. Abstract!Next
    <3>1. Dealt' = p
      BY <1>1, <1>2, <1>9 DEF DealtIs
    <3>2. Pkt = -1 /\ Pkt' = -1
      BY <1>1, <1>2 DEF Pkt, InBody
    <3> QED
      BY <1>1, <1>8, <3>1, <3>2, StutterStep
  <2> QED
    BY <1>5, <1>6, <2>9, <2>10 DEF Exact
<1>10. CASE mode' = "NewSync"
  <2>1. ~(Header(3).val > 184 /\ size >= 0)
    BY <1>1, <1>10
  <2>2. ~Abstract!Valid(p)
    <3> SUFFICES ASSUME Abstract!StreamId(p) > 184, Abstract!Size(p) >= Abstract!HeaderSize(p)
                 PROVE  FALSE
      BY DEF Abstract!Valid
    <3>1. size >= 0
      BY <1>2, <1>7
    <3> QED
      BY <1>2, <2>1, <3>1
  <2>3. Following'
    BY <1>10 DEF Following, InPacket
  <2>4. Abstract!Next
    <3>1. Dealt' = p + Abstract!HeaderSize(p)
      BY <1>1, <1>2, <1>10 DEF DealtIs
    <3>2. ~InBody /\ ~InBody'
      BY <1>1, <1>10 DEF InBody
    <3> QED
      BY <1>1, <1>2, <1>8, <2>2, <3>1, <3>2, InvalidStep
  <2> QED
    BY <1>5, <1>6, <2>3, <2>4 DEF Exact
<1> QED
  BY <1>1, <1>9, <1>10

\* A packet with a header has a size.
LEMMA SizeTypes ==
  ASSUME Inv, Exact, InPacket
  PROVE  Abstract!Size(start) \in Int
<1>1. headerSize = Abstract!HeaderSize(start) /\ headerSize \in Nat /\ start \in Nat
  BY DEF Exact, Following, Inv, TypeOK
<1>2. Abstract!Byte(start + 4) \in 0..255 /\ Abstract!Byte((start + 4) + 1) \in 0..255
  <2>1. stream \in Seq(0..255) /\ start + 4 \in Nat /\ (start + 4) + 1 \in Nat
    BY <1>1, StreamTypes, Numbers
  <2> QED
    BY <2>1, ByteTypes DEF Byte
<1> DEFINE x == Abstract!Byte(start + 4)
           y == Abstract!Byte((start + 4) + 1)
<1>3. Abstract!Word(start + 4) = 256 * x + y
  BY DEF Abstract!Word
<1>4. x \in Int /\ y \in Int
  BY <1>2
<1> HIDE DEF x, y
<1>5. 6 + Abstract!Word(start + 4) \in Int
  BY <1>3, <1>4
<1> QED
  BY <1>1, <1>5 DEF Abstract!Size

\* Either way what is left of the payload ends where the packet does.
LEMMA Remaining ==
  ASSUME Inv, Exact, InPacket
  PROVE  /\ base + used + payloadSize = start + Abstract!Size(start) + have
         /\ payloadSize \in Int /\ Abstract!Size(start) \in Int
<1>1. /\ base \in Nat /\ used \in Nat /\ have \in Nat /\ headerSize \in Nat /\ start \in Nat
      /\ payloadSize \in Int
  BY Numbers DEF Inv, TypeOK
<1> PICK sz \in Int : sz = Abstract!Size(start)
  BY SizeTypes
<1>2. CASE Whole
  BY <1>1, <1>2 DEF Whole
<1>3. CASE Stripped
  BY <1>1, <1>3 DEF Stripped
<1> QED
  BY <1>2, <1>3 DEF Exact, Following

\* What is handed on or dropped is the header or the next bytes of the packet.
LEMMA PutExact ==
  ASSUME Inv, Exact, InPacket, running, used < len, NEW n \in Nat, n >= 1,
         payloadSize # 0 => n <= rest /\ have + n <= payloadSize,
         payloadSize = 0 => have = 0,
         need' = n, SOP' = FALSE, outputHeader' = FALSE, mode' \in {"DataPut", "DataReady"},
         mode' = "DataPut" => Abstract!Passed(start),
         UNCHANGED <<conf, stream, buff, base, len, short, used, running, failed, hbuff, have,
                     old, header, headerSize, payloadSize, type, start, unsavedHeader>>
  PROVE  Exact'
<1> PICK p : p = start
  OBVIOUS
<1>1. InPacket' /\ start' = p /\ len # 0
  <2>1. len # 0
    BY Numbers
  <2> QED
    BY <2>1 DEF InPacket
<1>2. /\ Abstract!HeaderSize(p)' = Abstract!HeaderSize(p) /\ Abstract!Size(p)' = Abstract!Size(p)
      /\ Abstract!StreamId(p)' = Abstract!StreamId(p)
      /\ Abstract!Complete(p)' <=> Abstract!Complete(p)
      /\ Abstract!Valid(p)' <=> Abstract!Valid(p)
      /\ Abstract!Passed(p)' <=> Abstract!Passed(p)
      /\ \A i : At(i)' = At(i)
  BY StreamSame
<1>3. Chunk'
  BY <1>1, <1>2 DEF Exact, Chunk, Searching
<1>4. Collected'
  BY DEF Collected
<1>5. Following'
  <2>1. /\ Abstract!Complete(start)' /\ headerSize' = Abstract!HeaderSize(start)'
        /\ headerSize' >= 1 /\ Abstract!Valid(start)' /\ type' = Abstract!StreamId(start)'
    BY <1>1, <1>2 DEF Exact, Following
  <2>2. Whole' \/ Stripped'
    BY CountersKept DEF Exact, Following
  <2>3. /\ used' < len' /\ need' >= 1
        /\ IF payloadSize' = 0 THEN have' = 0 ELSE need' <= rest' /\ have' + need' <= payloadSize'
    BY DEF rest
  <2>4. mode' = "DataPut" => Abstract!Passed(start)'
    BY <1>1, <1>2
  <2> QED
    BY <1>1, <2>1, <2>2, <2>3, <2>4 DEF Following
<1> QED
  BY <1>3, <1>4, <1>5 DEF Exact

\* The rules say what PesStream says.
LEMMA RuleIs ==
  ASSUME TypeOK, type = Abstract!StreamId(start)
  PROVE  Rule = IF Abstract!Private(start) THEN "act3"
                ELSE IF Abstract!Passed(start) THEN "pass" ELSE "skip"
BY DEF Rule, Abstract!Passed, Abstract!Private

\* The bytes at hand are those PesStream hands on.
LEMMA CellsAre ==
  ASSUME Inv, Exact, used < len, NEW n \in Nat, n <= rest, NEW d \in Nat, d = base + used
  PROVE  [i \in 1..n |-> c[i - 1]] = Abstract!Cells(d, n)
<1>1. rest \in Nat /\ \A i \in 0..(rest - 1) : c[i] = At(d + i)
  BY ChunkRead
<1>2. ASSUME NEW i \in 1..n
      PROVE  c[i - 1] = Abstract!Cell(d + i - 1)
  <2>1. i - 1 \in 0..(rest - 1) /\ d + (i - 1) = d + i - 1
    BY <1>1
  <2> QED
    BY <1>1, <2>1 DEF At
<1> QED
  BY <1>2 DEF Abstract!Cells

LEMMA PayloadExact ==
  ASSUME Inv, Exact, Payload, Inv', DealtIs'
  PROVE  Exact' /\ Abstract!Next
<1> PICK p : p = start
  OBVIOUS
<1> PICK hs : hs = headerSize
  OBVIOUS
<1> PICK n : n = Piece
  OBVIOUS
<1>0. /\ used \in Nat /\ len \in Nat /\ base \in Nat /\ have \in Nat /\ hs \in Nat /\ p \in Nat
      /\ Len(stream) \in Nat /\ base + len <= Len(stream) /\ SOP = outputHeader
      /\ payloadSize \in Int /\ SOP \in BOOLEAN /\ TypeOK
  <2>1. headerSize \in Nat /\ start \in Nat /\ SOP \in BOOLEAN /\ payloadSize \in Int
    BY DEF Inv, TypeOK
  <2> QED
    BY <2>1, Numbers DEF Input
<1>1. /\ AtPayload /\ mode = "Payload" /\ running /\ used < len
      /\ Put(IF Rule = "skip" THEN -n ELSE n, payloadSize, HeaderBytes)
      /\ UNCHANGED <<conf, stream, buff, base, len, short, used, running, failed, hbuff, have,
                     old, header, headerSize, payloadSize, type, start, unsavedHeader>>
  BY DEF Payload, AtPayload, In, input, packet
<1>2. /\ n \in Nat /\ n >= 1 /\ rest \in Nat
      /\ payloadSize # 0 => n <= rest /\ have + n <= payloadSize
  BY <1>1, PieceTypes
<1>3. InPacket /\ InBody' = (mode' \in {"Payload", "DataPut", "DataReady"} /\ ~outputHeader')
  BY <1>1 DEF InPacket, InBody
<1>19. /\ Abstract!Complete(p) /\ hs >= 1 /\ hs = Abstract!HeaderSize(p)
       /\ Abstract!Valid(p) /\ type = Abstract!StreamId(p)
  BY <1>3 DEF Exact, Following
<1>20. ~Abstract!Private(p)
  BY <1>0, <1>19, RuleIs DEF Payload
<1>4. /\ Abstract!Complete(p) /\ hs >= 1 /\ hs = Abstract!HeaderSize(p)
      /\ Abstract!Valid(p) /\ type = Abstract!StreamId(p)
      /\ payloadSize = Abstract!Size(p) - hs /\ base + used = p + hs + have
  BY <1>3, <1>19, <1>20, NotStripped DEF Whole
<1>5. have < payloadSize \/ (have = 0 /\ payloadSize = 0 /\ SOP)
  BY <1>1 DEF Exact, Following
<1>6. SOP => have = 0 /\ base + used = p + hs /\ \A i \in 0..(hs - 1) : Header(i) = At(p + i)
  <2>1. SOP => /\ base + used = p + hs /\ \A i \in 0..(hs - 1) : Header(i) = At(p + i)
    BY <1>3 DEF Exact, Following
  <2> QED
    BY <1>0, <1>4, <2>1
<1>7. Rule = IF Abstract!Passed(p) THEN "pass" ELSE "skip"
  BY <1>0, <1>4, <1>20, RuleIs
<1>8. /\ need' = n /\ SOP' = FALSE /\ outputHeader' = FALSE
      /\ mode' = (IF Abstract!Passed(p) /\ outputHeader THEN "DataPut" ELSE "DataReady")
  BY <1>1, <1>2, <1>7 DEF Put, Abs
<1>9. Exact'
  <2>1. payloadSize = 0 => have = 0
    BY <1>0, <1>5
  <2>2. mode' \in {"DataPut", "DataReady"} /\ (mode' = "DataPut" => Abstract!Passed(start))
    BY <1>8
  <2> QED
    BY <1>1, <1>2, <1>3, <1>8, <2>1, <2>2, PutExact
<1>10. InBody'
  BY <1>3, <1>8
<1>11. Abstract!Size(p) \in Int
  BY <1>3, SizeTypes
<1> PICK sz \in Int : sz = Abstract!Size(p)
  BY <1>11
<1>15. sz = hs + payloadSize
  BY <1>0, <1>4
<1>16. rest = len - used
  BY DEF rest
<1>17. payloadSize \in Nat
  BY <1>0, <1>5
<1>18. hs \in Nat /\ hs >= 1 /\ p \in Nat /\ Len(stream) \in Nat
  BY <1>0, <1>4
<1>12. CASE SOP /\ Abstract!Passed(p)
  <2>1. ~InBody /\ Dealt = p
    BY <1>0, <1>1, <1>12, ExactDealt DEF InBody, DealtIs
  <2>2. Dealt' = p + hs
    BY <1>0, <1>1, <1>6, <1>8, <1>10, <1>12 DEF DealtIs, InPacket
  <2>3. out' = out \o Abstract!Cells(p, hs)
    <3>1. out' = out \o HeaderBytes
      BY <1>0, <1>1, <1>2, <1>7, <1>12, SMTT(30) DEF Put
    <3>2. HeaderBytes = Abstract!Cells(p, hs)
      BY <1>0, <1>6, <1>12 DEF HeaderBytes, Abstract!Cells, At
    <3> QED
      BY <3>1, <3>2
  <2>4. hs \in 1..Len(stream) /\ hs \in Abstract!HeaderSize(p)..Abstract!Size(p)
    <3>1. p + hs <= Len(stream)
      BY <1>0, <1>1, <1>6, <1>12
    <3>2. hs \in 1..Len(stream) /\ hs \in hs..sz
      BY <1>15, <1>17, <1>18, <3>1
    <3> QED
      BY <1>4, <3>2
  <2> QED
    BY <1>1, <1>4, <1>9, <1>10, <1>12, <1>20, <2>1, <2>2, <2>3, <2>4, BeginStep
<1>13. CASE SOP /\ ~Abstract!Passed(p)
  <2> PICK m : m = IF payloadSize = 0 THEN hs ELSE hs + n
    OBVIOUS
  <2>1. ~InBody /\ Dealt = p
    BY <1>0, <1>1, <1>13, ExactDealt DEF InBody, DealtIs
  <2>2. Dealt' = p + m
    <3>1. Dealt' = IF payloadSize # 0 THEN base + used + n ELSE base + used
      BY <1>0, <1>1, <1>8, <1>10, <1>13 DEF DealtIs, InPacket
    <3> QED
      BY <1>0, <1>2, <1>6, <1>13, <3>1
  <2>3. out' = out
    BY <1>0, <1>1, <1>2, <1>7, <1>13 DEF Put
  <2>4. m \in 1..Len(stream) /\ m \in Abstract!HeaderSize(p)..Abstract!Size(p)
    <3>1. m \in Int /\ m >= hs /\ m <= hs + payloadSize
      BY <1>0, <1>2, <1>5, <1>6, <1>13
    <3>2. p + m <= Len(stream)
      <4>1. p + hs = base + used /\ (payloadSize # 0 => n <= len - used)
        BY <1>2, <1>6, <1>13, <1>16
      <4> QED
        BY <1>0, <1>1, <1>2, <4>1
    <3>3. m \in 1..Len(stream) /\ m \in hs..sz
      BY <1>15, <1>17, <1>18, <3>1, <3>2
    <3> QED
      BY <1>4, <3>3
  <2> QED
    BY <1>1, <1>4, <1>9, <1>10, <1>13, <1>20, <2>1, <2>2, <2>3, <2>4, BeginStep
<1>14. CASE ~SOP
  <2>1. payloadSize # 0 /\ InBody
    BY <1>0, <1>1, <1>5, <1>14 DEF InBody
  <2> PICK d \in Nat : d = base + used
    BY <1>0
  <2>2. Dealt = d /\ Dealt' = d + n
    <3>1. Dealt = base + used
      BY <1>0, <1>1, <1>3, <1>14, ExactDealt DEF DealtIs
    <3>2. Dealt' = base + used + n
      BY <1>0, <1>1, <1>8, <1>10, <1>14, <2>1 DEF DealtIs, InPacket
    <3> QED
      BY <3>1, <3>2
  <2>3. out' = IF Abstract!Passed(p) THEN out \o Abstract!Cells(d, n) ELSE out
    <3>1. out' = IF Abstract!Passed(p) THEN out \o [i \in 1..n |-> c[i - 1]] ELSE out
      <4>1. ~outputHeader
        BY <1>0, <1>14
      <4>2. CASE Abstract!Passed(p)
        <5>1. Put(n, payloadSize, HeaderBytes) /\ n >= 0
          BY <1>1, <1>2, <1>7, <4>2
        <5> QED
          BY <2>1, <4>1, <4>2, <5>1 DEF Put
      <4>3. CASE ~Abstract!Passed(p)
        <5>1. Put(-n, payloadSize, HeaderBytes) /\ ~(-n >= 0)
          BY <1>1, <1>2, <1>7, <4>3
        <5> QED
          BY <4>3, <5>1 DEF Put
      <4> QED
        BY <4>2, <4>3
    <3>2. [i \in 1..n |-> c[i - 1]] = Abstract!Cells(d, n)
      BY <1>1, <1>2, <2>1, CellsAre
    <3> QED
      BY <3>1, <3>2
  <2>4. n \in 1..Len(stream) /\ d + n <= p + Abstract!Size(p)
    <3>1. d + n <= Len(stream)
      BY <1>0, <1>1, <1>2, <1>16, <2>1
    <3>2. d = p + hs + have /\ have + n <= payloadSize
      BY <1>2, <1>4, <2>1
    <3>3. n \in 1..Len(stream) /\ d + n <= p + sz
      BY <1>0, <1>2, <1>15, <3>1, <3>2
    <3> QED
      BY <3>3
  <2> QED
    BY <1>0, <1>1, <1>9, <1>10, <1>20, <2>1, <2>2, <2>3, <2>4, BodyStep
<1> QED
  BY <1>0, <1>12, <1>13, <1>14

\* So that StripPrivate goes on with what is left of the piece, there must be some: the
\* chunk does not end within the four bytes that are stripped, nor does the packet.
PiecesLong == AtPayload /\ Rule = "act3" /\ ~Subtitles /\ SOP => Piece > 4

LEMMA StripsPiece ==
  ASSUME Inv, PiecesLong, StripPrivate
  PROVE  /\ AtPayload /\ mode = "Payload" /\ running /\ used < len
         /\ SOP /\ outputHeader /\ Rule = "act3" /\ ~Subtitles /\ Piece > 4
         /\ payloadSize # 0 /\ used' = used + 4 /\ payloadSize' = payloadSize - 4
         /\ ShrinkHeader /\ Put(Piece - 4, payloadSize - 4, HeaderBytes')
         /\ UNCHANGED <<conf, stream, base, len, short, failed, running, have, old, header,
                        headerSize, type, start, unsavedHeader>>
<1>1. AtPayload /\ Rule = "act3" /\ ~Subtitles /\ SOP /\ mode = "Payload" /\ running /\ used < len
  BY DEF StripPrivate, AtPayload, In
<1>2. Piece > 4 /\ Piece # 4
  <2>1. Piece > 4
    BY <1>1 DEF PiecesLong
  <2>2. Piece \in Nat
    BY <1>1, PieceTypes
  <2> QED
    BY <2>1, <2>2
<1>3. outputHeader /\ payloadSize # 0
  BY <1>1, <1>2 DEF Inv, Input, TypeOK, Piece
<1> QED
  BY <1>1, <1>2, <1>3 DEF StripPrivate

\* Bytes of the stream are in the order they have there.
LEMMA CellsApart ==
  ASSUME Inv, NEW d \in Nat, NEW n \in Nat, d + n <= Len(stream)
  PROVE  /\ Abstract!Cells(d, n) \in Seq(CellType) /\ Len(Abstract!Cells(d, n)) = n
         /\ \A i \in 1..n :
              /\ Abstract!Cells(d, n)[i] = Abstract!Cell(d + i - 1)
              /\ Abstract!Cells(d, n)[i].at = d + i - 1
<1>0. Len(stream) \in Nat /\ stream \in Seq(0..255)
  BY Numbers, StreamTypes
<1>1. ASSUME NEW i \in 1..n
      PROVE  Abstract!Cell(d + i - 1) \in CellType /\ Abstract!Cell(d + i - 1).at = d + i - 1
  <2>1. d + i - 1 \in Nat /\ d + i - 1 \in -1..(Len(stream) - 1)
    BY <1>0
  <2>2. Abstract!Byte(d + i - 1) \in 0..255
    BY <1>0, <2>1, ByteTypes DEF Byte
  <2> QED
    BY <2>1, <2>2 DEF Abstract!Cell, CellType
<1> DEFINE s == Abstract!Cells(d, n)
<1>2. s \in [1..n -> CellType] /\ \A i \in 1..n : s[i] = Abstract!Cell(d + i - 1)
  BY <1>1 DEF Abstract!Cells
<1> HIDE DEF s
<1>3. s \in Seq(CellType) /\ Len(s) = n
  BY <1>2
<1>4. \A i \in 1..n : s[i].at = d + i - 1
  BY <1>1, <1>2
<1> QED
  BY <1>2, <1>3, <1>4 DEF s

\* Bytes of the payload of a packet of private stream 1, handed on or dropped.
LEMMA ApartBodyStep ==
  ASSUME Inv, UNCHANGED <<conf, stream, short, start>>, InBody, InBody',
         Abstract!Private(start), start \in Nat, Len(stream) \in Nat, Dealt \in Nat,
         NEW n \in 1..Len(stream), Dealt + n <= start + Abstract!Size(start),
         Dealt + n <= Len(stream), Dealt' = Dealt + n,
         out' = out \/ out' = out \o Abstract!Cells(Dealt, n)
  PROVE  Abstract!Next
<1>0. out \in Seq(CellType)
  BY DEF Inv, TypeOK
<1>1. CASE out' = out
  <2>1. out' = out \o <<>> /\ <<>> \in Seq(CellType) /\ Len(<<>>) = 0
    BY <1>0, <1>1
  <2> PICK new \in Seq(CellType) : out' = out \o new /\ Len(new) = 0
    BY <2>1
  <2>2. \A i \in 1..Len(new) :
          /\ new[i].at \in Dealt..(Dealt + n - 1)
          /\ i > 1 => new[i - 1].at < new[i].at
          /\ new[i] = Abstract!Cell(new[i].at) \/ new[i].at - start \in {4, 5}
    OBVIOUS
  <2> QED
    BY <1>0, <2>2, TakeApartStep
<1>2. CASE out' = out \o Abstract!Cells(Dealt, n)
  <2> PICK d \in Nat : d = Dealt
    OBVIOUS
  <2> PICK new : new = Abstract!Cells(d, n)
    OBVIOUS
  <2>1. /\ new \in Seq(CellType) /\ Len(new) = n
        /\ \A i \in 1..n : new[i] = Abstract!Cell(d + i - 1) /\ new[i].at = d + i - 1
    BY CellsApart
  <2>2. \A i \in 1..Len(new) :
          /\ new[i].at \in Dealt..(Dealt + n - 1)
          /\ i > 1 => new[i - 1].at < new[i].at
          /\ new[i] = Abstract!Cell(new[i].at) \/ new[i].at - start \in {4, 5}
    BY <2>1
  <2>3. out' = out \o new
    BY <1>2
  <2> QED
    BY <1>0, <2>1, <2>2, <2>3, TakeApartStep
<1> QED
  BY <1>1, <1>2

\* Of a packet that Action3 drops, or has stripped before, the next bytes.
LEMMA PrivateExact ==
  ASSUME Inv, Exact, DropSubtitles \/ PassPrivate, Inv', DealtIs'
  PROVE  Exact' /\ Abstract!Next
<1> PICK p : p = start
  OBVIOUS
<1> PICK hs : hs = headerSize
  OBVIOUS
<1> PICK n : n = Piece
  OBVIOUS
<1>0. /\ used \in Nat /\ len \in Nat /\ base \in Nat /\ have \in Nat /\ hs \in Nat /\ p \in Nat
      /\ Len(stream) \in Nat /\ base + len <= Len(stream) /\ SOP = outputHeader
      /\ payloadSize \in Int /\ SOP \in BOOLEAN /\ TypeOK
  <2>1. headerSize \in Nat /\ start \in Nat /\ SOP \in BOOLEAN /\ payloadSize \in Int
    BY DEF Inv, TypeOK
  <2> QED
    BY <2>1, Numbers DEF Input
<1>1. /\ AtPayload /\ mode = "Payload" /\ running /\ used < len /\ Rule = "act3"
      /\ Put(-n, payloadSize, HeaderBytes) \/ (~SOP /\ Put(n, payloadSize, HeaderBytes))
      /\ UNCHANGED <<conf, stream, buff, base, len, short, used, running, failed, hbuff, have,
                     old, header, headerSize, payloadSize, type, start, unsavedHeader>>
  BY DEF DropSubtitles, PassPrivate, AtPayload, In, input, packet
<1>2. /\ n \in Nat /\ n >= 1 /\ rest \in Nat /\ rest = len - used
      /\ payloadSize # 0 => n <= rest /\ have + n <= payloadSize
  BY <1>1, PieceTypes DEF rest
<1>3. InPacket /\ InBody' = (mode' \in {"Payload", "DataPut", "DataReady"} /\ ~outputHeader')
  BY <1>1 DEF InPacket, InBody
<1>4. /\ Abstract!Complete(p) /\ hs >= 1 /\ hs = Abstract!HeaderSize(p)
      /\ Abstract!Valid(p) /\ type = Abstract!StreamId(p)
  BY <1>3 DEF Exact, Following
<1>5. Abstract!Private(p)
  <2>1. Rule = IF Abstract!Private(p) THEN "act3"
               ELSE IF Abstract!Passed(p) THEN "pass" ELSE "skip"
    BY <1>0, <1>4, RuleIs
  <2> QED
    BY <1>1, <2>1
<1>6. have < payloadSize \/ (have = 0 /\ payloadSize = 0 /\ SOP)
  BY <1>1 DEF Exact, Following
<1>7. /\ need' = n /\ SOP' = FALSE /\ outputHeader' = FALSE /\ mode' = "DataReady"
      /\ out' = out \/ (~SOP /\ out' = out \o [i \in 1..n |-> c[i - 1]])
  <2>1. CASE Put(-n, payloadSize, HeaderBytes)
    <3>1. ~(-n >= 0) /\ Abs(-n) = n
      BY <1>2 DEF Abs
    <3> QED
      BY <2>1, <3>1 DEF Put
  <2>2. CASE ~SOP /\ Put(n, payloadSize, HeaderBytes)
    <3>1. n >= 0 /\ Abs(n) = n /\ ~outputHeader
      BY <1>0, <1>2, <2>2 DEF Abs
    <3> QED
      BY <2>2, <3>1 DEF Put
  <2> QED
    BY <1>1, <2>1, <2>2
<1>8. Exact'
  <2>1. payloadSize = 0 => have = 0
    BY <1>0, <1>6
  <2>2. mode' \in {"DataPut", "DataReady"} /\ (mode' = "DataPut" => Abstract!Passed(start))
    BY <1>7
  <2> QED
    BY <1>1, <1>2, <1>3, <1>7, <2>1, <2>2, PutExact
<1>9. InBody' /\ InPacket' /\ ~outputHeader'
  BY <1>3, <1>7 DEF InPacket
<1> PICK sz \in Int : sz = Abstract!Size(p)
  BY <1>3, SizeTypes
<1>10. base + used + payloadSize = p + sz + have
  BY <1>3, Remaining
<1>11. CASE ~SOP
  <2>1. payloadSize # 0 /\ InBody
    BY <1>0, <1>1, <1>6, <1>11 DEF InBody
  <2> PICK d \in Nat : d = base + used
    BY <1>0
  <2>2. Dealt = d /\ Dealt' = d + n
    <3>1. Dealt = base + used
      BY <1>0, <1>1, <1>3, <1>11, ExactDealt DEF DealtIs
    <3>2. Dealt' = base + used + n
      BY <1>0, <1>1, <1>7, <1>9, <2>1 DEF DealtIs
    <3> QED
      BY <3>1, <3>2
  <2>3. out' = out \/ out' = out \o Abstract!Cells(d, n)
    <3>1. [i \in 1..n |-> c[i - 1]] = Abstract!Cells(d, n)
      BY <1>1, <1>2, <2>1, CellsAre
    <3> QED
      BY <1>7, <3>1
  <2>4. d + n <= Len(stream) /\ n \in 1..Len(stream) /\ d + n <= p + sz
    <3>1. d + n <= Len(stream)
      BY <1>0, <1>1, <1>2, <2>1
    <3> QED
      BY <1>0, <1>2, <1>10, <2>1, <3>1
  <2> QED
    BY <1>0, <1>1, <1>5, <1>8, <1>9, <2>1, <2>2, <2>3, <2>4, ApartBodyStep
<1>12. CASE SOP
  <2> PICK m : m = IF payloadSize = 0 THEN hs ELSE hs + n
    OBVIOUS
  <2>1. ~InBody /\ Dealt = p
    BY <1>0, <1>1, <1>12, ExactDealt DEF InBody, DealtIs
  <2>2. base + used = p + hs
    BY <1>3, <1>12 DEF Exact, Following
  <2>3. Dealt' = p + m
    <3>1. Dealt' = IF payloadSize # 0 THEN base + used + n ELSE base + used
      BY <1>0, <1>1, <1>7, <1>9 DEF DealtIs
    <3> QED
      BY <1>0, <1>2, <2>2, <3>1
  <2>4. m \in 1..Len(stream) /\ p + m <= p + sz
    <3>1. m \in Int /\ m >= 1
      BY <1>0, <1>2, <1>4
    <3>2. have = 0
      <4>1. base + used = p + hs + have
        BY <1>3, <1>12, NotStripped DEF Whole
      <4> QED
        BY <1>0, <2>2, <4>1
    <3>3. p + m <= p + sz
      BY <1>0, <1>2, <1>10, <2>2, <3>2
    <3>4. p + m <= Len(stream)
      BY <1>0, <1>1, <1>2, <2>2
    <3> QED
      BY <1>0, <3>1, <3>3, <3>4
  <2>5. out' = out
    BY <1>7, <1>12
  <2>6. out \in Seq(CellType)
    BY <1>0 DEF TypeOK
  <2>7. out' = out \o <<>> /\ <<>> \in Seq(CellType) /\ Len(<<>>) = 0
    BY <2>5, <2>6
  <2> PICK new \in Seq(CellType) : out' = out \o new /\ Len(new) = 0
    BY <2>7
  <2>8. \A i \in 1..Len(new) :
          /\ new[i].at \in Dealt..(Dealt + m - 1)
          /\ i > 1 => new[i - 1].at < new[i].at
          /\ new[i] = Abstract!Cell(new[i].at) \/ new[i].at - start \in {4, 5}
    OBVIOUS
  <2> QED
    BY <1>0, <1>1, <1>4, <1>5, <1>8, <1>9, <2>1, <2>3, <2>4, <2>6, <2>8, TakeApartStep
<1> QED
  BY <1>0, <1>11, <1>12

\* The header of a packet that is taken apart, with its new size.
LEMMA HeaderShrinks ==
  ASSUME Inv, Exact, PiecesLong, StripPrivate
  PROVE  /\ HeaderBytes' \in Seq(CellType) /\ Len(HeaderBytes') = headerSize /\ headerSize >= 6
         /\ \A i \in 1..headerSize :
              /\ HeaderBytes'[i].at = start + i - 1
              /\ i \notin {5, 6} => HeaderBytes'[i] = At(start + i - 1)
<1> PICK p : p = start
  OBVIOUS
<1> PICK hs : hs = headerSize
  OBVIOUS
<1> PICK h : h = HeaderBytes'
  OBVIOUS
<1>1. /\ mode = "Payload" /\ SOP /\ InPacket /\ ShrinkHeader
      /\ UNCHANGED <<header, headerSize>>
  BY StripsPiece DEF InPacket
<1>2. h \in Seq(CellType) /\ hs >= 6 /\ hs \in Nat /\ p \in Nat
  BY StripTypes DEF Inv, TypeOK
<1>3. \A i \in 0..(hs - 1) : Header(i) = At(p + i)
  BY <1>1 DEF Exact, Following
<1>4. h = [i \in 1..hs |-> Header(i - 1)']
  BY <1>1 DEF HeaderBytes
<1>7. Header(4).val \in 0..255 /\ Header(5).val \in 0..255
  BY <1>2, HeaderTypes DEF Inv, HeaderFits
<1>5. ASSUME NEW i \in 0..(hs - 1)
      PROVE  /\ Header(i)'.at = p + i
             /\ i \notin {4, 5} => Header(i)' = At(p + i)
  <2>1. Header(i) = At(p + i) /\ Header(i).at = p + i
    BY <1>3 DEF At, Abstract!Cell
  <2>2. CASE header = Hbuff
    <3>1. Header(i) = hbuff[i] /\ Header(i)' = hbuff'[i]
      BY <1>1, <2>2 DEF Header
    <3> PICK N : N = HbuffSize - 1
      OBVIOUS
    <3>2. i \in 0..N /\ N \in Nat /\ hbuff \in [0..N -> CellType]
      <4>1. hbuff \in [0..N -> CellType] /\ N \in Nat
        BY BuffTypes
      <4>2. hs - 1 <= N
        BY <1>2, Numbers
      <4> QED
        BY <1>2, <4>1, <4>2
    <3>3. hbuff' = Modify(hbuff, 0, -4)
      BY <1>1, <2>2 DEF ShrinkHeader
    <3>4. /\ hbuff'[i].at = hbuff[i].at
          /\ i \notin {4, 5} => hbuff'[i] = hbuff[i]
      <4>1. 0 \in Int /\ -4 \in Int
        OBVIOUS
      <4>4. Elsewhere(Modify(hbuff, 0, -4), hbuff, 0, N)
        BY <1>7, <3>2, <4>1, ModifyElsewhere, Zenon
      <4>2. \A k \in 0..N : k # 0 + 4 /\ k # 0 + 5 => Modify(hbuff, 0, -4)[k] = hbuff[k]
        BY ONLY <4>4 DEF Elsewhere
      <4>3. \A k \in 0..N : Modify(hbuff, 0, -4)[k].at = hbuff[k].at
        BY <1>7, <3>2, <4>1, ModifyTypes, ZenonT(60)
      <4> QED
        BY <3>2, <3>3, <4>2, <4>3
    <3> QED
      BY <2>1, <3>1, <3>4
  <2>3. CASE header # Hbuff
    <3>1. Header(i) = buff[header + i] /\ Header(i)' = buff'[header + i]
      BY <1>1, <2>3 DEF Header
    <3>2. header \in Nat /\ header + i \in 0..(BuffSize - 1) /\ (header + i) - header = i
      BY <1>2, <2>3, Numbers, SMTT(30) DEF Inv, TypeOK, Input, Hbuff
    <3> PICK k, N : k = header + i /\ N = BuffSize - 1
      OBVIOUS
    <3>3. k \in 0..N /\ N \in Nat /\ header \in Int /\ buff \in [0..N -> CellType]
      <4>1. buff \in [0..N -> CellType] /\ N \in Nat
        BY BuffTypes
      <4> QED
        BY <3>2, <4>1
    <3>4. buff' = Modify(buff, header, -4)
      BY <1>1, <2>3 DEF ShrinkHeader
    <3>5. /\ buff'[k].at = buff[k].at
          /\ k # header + 4 /\ k # header + 5 => buff'[k] = buff[k]
      <4>1. -4 \in Int
        OBVIOUS
      <4>4. Elsewhere(Modify(buff, header, -4), buff, header, N)
        BY <1>7, <3>3, <4>1, ModifyElsewhere, Zenon
      <4>2. \A q \in 0..N : q # header + 4 /\ q # header + 5 =>
                              Modify(buff, header, -4)[q] = buff[q]
        BY ONLY <4>4 DEF Elsewhere
      <4>3. \A q \in 0..N : Modify(buff, header, -4)[q].at = buff[q].at
        BY <1>7, <3>3, <4>1, ModifyTypes, ZenonT(60)
      <4> QED
        BY <3>3, <3>4, <4>2, <4>3
    <3>6. i \notin {4, 5} => k # header + 4 /\ k # header + 5
      BY <3>2
    <3> QED
      BY <2>1, <3>1, <3>5, <3>6
  <2> QED
    BY <2>2, <2>3
<1>6. ASSUME NEW i \in 1..hs
      PROVE  /\ h[i].at = p + i - 1
             /\ i \notin {5, 6} => h[i] = At(p + i - 1)
  <2> PICK k \in 0..(hs - 1) : k = i - 1
    BY <1>2
  <2>1. h[i] = Header(k)'
    BY <1>4
  <2>2. p + k = p + i - 1 /\ (i \notin {5, 6} => k \notin {4, 5})
    BY <1>2
  <2> QED
    BY <1>5, <2>1, <2>2
<1>8. Len(h) = hs
  BY <1>2, <1>4
<1> QED
  BY <1>2, <1>6, <1>8

\* The header is handed on with its new size, and four bytes of the payload are left out.
LEMMA StripPrivateExact ==
  ASSUME Inv, Exact, PiecesLong, StripPrivate, Inv', DealtIs'
  PROVE  Exact' /\ Abstract!Next
<1> PICK p : p = start
  OBVIOUS
<1> PICK hs : hs = headerSize
  OBVIOUS
<1> PICK n : n = Piece
  OBVIOUS
<1> PICK new : new = HeaderBytes'
  OBVIOUS
<1>0. /\ used \in Nat /\ len \in Nat /\ base \in Nat /\ have \in Nat /\ hs \in Nat /\ p \in Nat
      /\ Len(stream) \in Nat /\ base + len <= Len(stream) /\ payloadSize \in Int /\ TypeOK
      /\ BuffSize \in Nat \ {0} /\ len <= BuffSize
  <2>1. headerSize \in Nat /\ start \in Nat /\ payloadSize \in Int /\ len \in 0..BuffSize
    BY DEF Inv, TypeOK
  <2> QED
    BY <2>1, Numbers DEF Input
<1>1. /\ AtPayload /\ mode = "Payload" /\ running /\ used < len /\ Rule = "act3"
      /\ SOP /\ outputHeader /\ n > 4
      /\ payloadSize # 0 /\ used' = used + 4 /\ payloadSize' = payloadSize - 4
      /\ ShrinkHeader /\ Put(n - 4, payloadSize - 4, HeaderBytes')
      /\ UNCHANGED <<conf, stream, base, len, short, failed, running, have, old, header,
                     headerSize, type, start, unsavedHeader>>
  BY StripsPiece
<1>2. n \in Nat /\ n <= rest /\ have + n <= payloadSize /\ rest \in Nat /\ rest = len - used
  BY <1>1, PieceTypes DEF rest
<1>3. InPacket
  BY <1>1 DEF InPacket
<1>4. /\ Abstract!Complete(p) /\ hs >= 6 /\ hs = Abstract!HeaderSize(p)
      /\ Abstract!Valid(p) /\ type = Abstract!StreamId(p)
      /\ base + used = p + hs
      /\ header # Hbuff => header + hs = used
  BY <1>1, <1>3, StripTypes DEF Exact, Following
<1>5. Abstract!Private(p)
  <2>1. Rule = IF Abstract!Private(p) THEN "act3"
               ELSE IF Abstract!Passed(p) THEN "pass" ELSE "skip"
    BY <1>0, <1>4, RuleIs
  <2> QED
    BY <1>1, <2>1
<1>6. Abstract!Passed(p)
  BY <1>5 DEF Abstract!Private, Abstract!Passed
<1> PICK sz \in Int : sz = Abstract!Size(p)
  BY <1>3, SizeTypes
<1>7. have = 0 /\ payloadSize = sz - hs
  <2>1. base + used = p + hs + have /\ payloadSize = sz - hs
    BY <1>1, <1>3, NotStripped DEF Whole
  <2> QED
    BY <1>0, <1>4, <2>1
<1>8. /\ need' = n - 4 /\ SOP' = FALSE /\ outputHeader' = FALSE /\ mode' = "DataPut"
      /\ out' = out \o new
  <2>1. n - 4 >= 0 /\ Abs(n - 4) = n - 4
    BY <1>1, <1>2 DEF Abs
  <2> QED
    BY <1>1, <2>1 DEF Put
<1>9. Chunk'
  <2>1. used' <= len' /\ running' /\ len # 0
    BY <1>0, <1>1, <1>2
  <2>2. ~Searching'
    BY <1>8 DEF Searching
  <2>3. ASSUME NEW i \in 0..(len - 1), i >= used + 4
        PROVE  buff'[i] = At(base + i)'
    <3>1. buff[i] = At(base + i) /\ At(base + i)' = At(base + i)
      <4>1. i >= used
        BY <1>0, <2>3
      <4> PICK q : q = base + i
        OBVIOUS
      <4>2. At(q)' = At(q)
        BY <1>1, StreamSame
      <4>3. At(base + i)' = At(q)'
        BY <1>1
      <4> QED
        BY <4>1, <4>2, <4>3 DEF Exact, Chunk
    <3>2. CASE header = Hbuff
      BY <1>1, <3>1, <3>2 DEF ShrinkHeader
    <3>3. CASE header # Hbuff
      <4>1. i \in 0..(BuffSize - 1) /\ header \in Int /\ i - header \notin {4, 5}
        <5>1. header \in Int
          BY <1>0 DEF TypeOK
        <5> QED
          BY <1>0, <1>4, <2>3, <3>3, <5>1
      <4>2. buff \in [0..(BuffSize - 1) -> CellType]
        BY <1>0 DEF TypeOK
      <4>3. buff'[i] = buff[i]
        BY <1>1, <3>3, <4>1, <4>2 DEF ShrinkHeader, Modify
      <4> QED
        BY <3>1, <4>3
    <3> QED
      BY <3>2, <3>3
  <2>4. len' < 4 => short'
    BY <1>0, <1>1, <1>2
  <2> QED
    BY <1>1, <2>1, <2>2, <2>3, <2>4 DEF Chunk
<1>10. Collected'
  BY <1>8 DEF Collected
<1>11. Following'
  <2>1. /\ Abstract!Complete(p)' /\ Abstract!Valid(p)' /\ Abstract!Passed(p)'
        /\ Abstract!HeaderSize(p)' = Abstract!HeaderSize(p)
        /\ Abstract!StreamId(p)' = Abstract!StreamId(p)
        /\ Abstract!Size(p)' = Abstract!Size(p)
        /\ Abstract!Private(p)'
    BY <1>1, <1>4, <1>5, <1>6, StreamSame
  <2>2. /\ Abstract!Complete(start)' /\ headerSize' = Abstract!HeaderSize(start)'
        /\ headerSize' >= 1 /\ Abstract!Valid(start)' /\ type' = Abstract!StreamId(start)'
        /\ Abstract!Passed(start)'
    BY <1>0, <1>1, <1>4, <2>1
  <2>3. Stripped'
    <3>1. payloadSize' = (sz - hs) - 4 /\ base' + used' = (p + hs + have') + 4
      BY <1>0, <1>1, <1>4, <1>7
    <3> QED
      BY <1>1, <1>8, <2>1, <3>1 DEF Stripped
  <2>4. /\ used' < len' /\ need' >= 1
        /\ IF payloadSize' = 0 THEN have' = 0 ELSE need' <= rest' /\ have' + need' <= payloadSize'
    BY <1>0, <1>1, <1>2, <1>7, <1>8 DEF rest
  <2> QED
    BY <1>8, <2>2, <2>3, <2>4 DEF Following
<1>12. Exact'
  BY <1>9, <1>10, <1>11 DEF Exact
<1> PICK m : m = hs + 4
  OBVIOUS
<1>18. m \in Nat /\ m = hs + 4
  BY <1>0
<1>13. ~InBody /\ Dealt = p
  BY <1>1, ExactDealt DEF InBody, DealtIs
<1>14. InBody' /\ Dealt' = p + m
  <2>1. InBody' /\ InPacket' /\ ~outputHeader'
    BY <1>8 DEF InBody, InPacket
  <2>2. Dealt' = base' + used'
    BY <1>8, <2>1 DEF DealtIs
  <2>3. base' + used' = p + m
    <3>1. base' = base /\ used' = used + 4
      BY <1>1
    <3>2. base + used = p + hs
      BY <1>4
    <3> QED
      BY <1>0, <1>18, <3>1, <3>2
  <2> QED
    BY <2>1, <2>2, <2>3
<1>15. m \in 1..Len(stream) /\ p + m <= p + sz
  <2>1. m >= 1 /\ m <= sz
    BY <1>0, <1>1, <1>2, <1>7, <1>18
  <2>2. p + m <= Len(stream)
    <3>1. n > 4 /\ n <= len - used
      BY <1>1, <1>2
    <3>2. used + 4 <= len
      BY <1>0, <1>2, <3>1
    <3>3. base + used = p + hs
      BY <1>4
    <3> QED
      BY <1>0, <1>18, <3>2, <3>3
  <2> QED
    BY <1>0, <2>1, <2>2
<1>16. /\ new \in Seq(CellType) /\ Len(new) = hs
       /\ \A i \in 1..hs :
            /\ new[i].at = p + i - 1
            /\ i \notin {5, 6} => new[i] = Abstract!Cell(p + i - 1)
  BY HeaderShrinks DEF At
<1>17. \A i \in 1..Len(new) :
         /\ new[i].at \in Dealt..(Dealt + m - 1)
         /\ i > 1 => new[i - 1].at < new[i].at
         /\ new[i] = Abstract!Cell(new[i].at) \/ new[i].at - start \in {4, 5}
  <2> SUFFICES ASSUME NEW i \in 1..hs
               PROVE  /\ new[i].at \in p..(p + m - 1)
                      /\ i > 1 => new[i - 1].at < new[i].at
                      /\ new[i] = Abstract!Cell(new[i].at) \/ new[i].at - p \in {4, 5}
    BY <1>13, <1>16
  <2>1. new[i].at = p + i - 1
    BY <1>16
  <2>2. new[i].at \in p..(p + m - 1)
    BY <1>0, <2>1
  <2>3. i > 1 => new[i - 1].at < new[i].at
    <3> SUFFICES ASSUME i > 1
                 PROVE  new[i - 1].at < new[i].at
      OBVIOUS
    <3> PICK j \in 1..hs : j = i - 1
      BY <1>0
    <3>1. new[j].at = p + j - 1
      BY <1>16
    <3> QED
      BY <1>0, <2>1, <3>1
  <2>4. i \in {5, 6} => new[i].at - p \in {4, 5}
    BY <1>0, <2>1
  <2>5. i \notin {5, 6} => new[i] = Abstract!Cell(new[i].at)
    BY <1>16, <2>1
  <2> QED
    BY <2>2, <2>3, <2>4, <2>5
<1>19. out \in Seq(CellType)
  BY <1>0 DEF TypeOK
<1> QED
  BY <1>0, <1>1, <1>4, <1>5, <1>8, <1>12, <1>13, <1>14, <1>15, <1>16, <1>17, <1>19, TakeApartStep

LEMMA DataPutExact ==
  ASSUME Inv, Exact, DataPut, Inv', DealtIs'
  PROVE  Exact' /\ Abstract!Next
<1>0. /\ used \in Nat /\ len \in Nat /\ base \in Nat /\ have \in Nat /\ headerSize \in Nat
      /\ start \in Nat /\ need \in Nat /\ Len(stream) \in Nat /\ base + len <= Len(stream)
      /\ payloadSize \in Int
  <2>1. headerSize \in Nat /\ start \in Nat /\ payloadSize \in Int
    BY DEF Inv, TypeOK
  <2> QED
    BY <2>1, Numbers DEF Input
<1>1. /\ mode = "DataPut" /\ running /\ used < len
      /\ Put(need, payloadSize, HeaderBytes)
      /\ UNCHANGED <<conf, stream, buff, base, len, short, used, running, failed, hbuff, have,
                     old, header, headerSize, payloadSize, type, start, unsavedHeader>>
  BY DEF DataPut, In, input, packet
<1>2. ~SOP /\ ~outputHeader
  BY <1>1 DEF Inv, HeaderKnown, Input
<1>3. /\ InPacket /\ need >= 1 /\ Abstract!Passed(start)
      /\ payloadSize = 0 => have = 0
      /\ payloadSize # 0 => need <= rest /\ have + need <= payloadSize
  BY <1>1 DEF Exact, Following, InPacket
<1>4. /\ need' = need /\ SOP' = FALSE /\ outputHeader' = FALSE /\ mode' = "DataReady"
      /\ out' = IF payloadSize # 0 THEN out \o [i \in 1..need |-> c[i - 1]] ELSE out
  BY <1>0, <1>1, <1>2 DEF Put, Abs
<1>5. Exact'
  <2>1. mode' \in {"DataPut", "DataReady"} /\ mode' # "DataPut"
    BY <1>4
  <2> QED
    BY <1>0, <1>1, <1>3, <1>4, <2>1, PutExact
<1>6. InBody /\ InBody' /\ InPacket' /\ ~outputHeader'
  BY <1>1, <1>2, <1>4 DEF InBody, InPacket
<1> PICK d \in Nat : d = base + used
  BY <1>0
<1>7. Dealt = d
  BY <1>1, <1>2, <1>3, ExactDealt DEF DealtIs
<1>8. CASE payloadSize = 0
  <2>1. Dealt' = d
    BY <1>1, <1>6, <1>8 DEF DealtIs
  <2>2. Pkt' = Pkt
    BY <1>1, <1>6 DEF Pkt
  <2> QED
    BY <1>1, <1>4, <1>5, <1>7, <1>8, <2>1, <2>2, StutterStep
<1>9. CASE payloadSize # 0
  <2>1. Dealt' = d + need
    BY <1>1, <1>4, <1>6, <1>9 DEF DealtIs
  <2>2. out' = out \o Abstract!Cells(d, need)
    BY <1>0, <1>1, <1>3, <1>4, <1>9, CellsAre
  <2>3. need \in 1..Len(stream)
    BY <1>0, <1>3, <1>9 DEF rest
  <2>4. d + need <= start + Abstract!Size(start)
    <3> PICK sz \in Int : sz = Abstract!Size(start)
      BY <1>3, Remaining
    <3>1. d + payloadSize = start + sz + have
      BY <1>3, Remaining
    <3> QED
      BY <1>0, <1>3, <1>9, <3>1
  <2>5. CASE ~Abstract!Private(start)
    BY <1>1, <1>3, <1>5, <1>6, <1>7, <1>0, <2>1, <2>2, <2>3, <2>4, <2>5, BodyStep
  <2>6. CASE Abstract!Private(start)
    <3>1. d + need <= Len(stream)
      BY <1>0, <1>3, <1>9 DEF rest
    <3> QED
      BY <1>0, <1>1, <1>5, <1>6, <1>7, <2>1, <2>2, <2>3, <2>4, <2>6, <3>1, ApartBodyStep
  <2> QED
    BY <2>5, <2>6
<1> QED
  BY <1>8, <1>9

LEMMA OutputFailsExact ==
  ASSUME Inv, Exact, OutputFails, Inv', DealtIs'
  PROVE  Exact' /\ Abstract!Next
<1>1. /\ mode \in {"Payload", "DataPut"} /\ failed' = TRUE /\ running' = FALSE
      /\ UNCHANGED <<conf, stream, buff, base, len, short, used, mode, hbuff, have, need, old,
                     header, headerSize, payloadSize, type, start, unsavedHeader, outputHeader,
                     SOP, out>>
  BY DEF OutputFails, AtPayload, In, input, buffer, packet, flags
<1>2. \A i : At(i)' = At(i) /\ Header(i)' = Header(i)
  BY <1>1, StreamSame DEF Header
<1>3. Chunk'
  BY <1>1, <1>2 DEF Exact, Chunk, Searching
<1>4. Collected'
  BY <1>1 DEF Collected
<1>5. Following'
  <2>1. InPacket /\ SOP => (header' # Hbuff => header' + headerSize = used' /\ unsavedHeader')
    BY <1>1 DEF Exact, Following
  <2>2. InPacket
    BY <1>1 DEF InPacket
  <2> QED
    BY <1>1, <1>2, <2>1, <2>2, FollowingKept DEF Exact
<1>6. Abstract!Next
  <2>1. Dealt' = Dealt /\ Pkt' = Pkt
    BY <1>1, ExactDealt, DealtKept
  <2> QED
    BY <1>1, <2>1, StutterStep
<1> QED
  BY <1>3, <1>4, <1>5, <1>6 DEF Exact

LEMMA DataReadyExact ==
  ASSUME Inv, Exact, DataReady, Inv', DealtIs'
  PROVE  Exact' /\ Abstract!Next
<1> PICK p : p = start
  OBVIOUS
<1>0. /\ used \in Nat /\ len \in Nat /\ base \in Nat /\ have \in Nat /\ headerSize \in Nat
      /\ p \in Nat /\ need \in Nat /\ payloadSize \in Int
  <2>1. headerSize \in Nat /\ start \in Nat /\ payloadSize \in Int
    BY DEF Inv, TypeOK
  <2> QED
    BY <2>1, Numbers
<1> PICK n \in Nat : n = IF payloadSize = 0 THEN 0 ELSE need
  BY <1>0
<1>1. /\ mode = "DataReady" /\ running /\ used < len
      /\ have' = have + n /\ used' = used + n
      /\ mode' = (IF have' >= payloadSize THEN "NewSync" ELSE "Payload")
      /\ UNCHANGED <<conf, stream, buff, base, len, short, running, hbuff, need, old, header,
                     headerSize, payloadSize, type, start, unsavedHeader, outputHeader, SOP,
                     failed, out>>
  BY <1>0 DEF DataReady, CountPiece, In, input, packet, flags, result
<1>2. ~SOP /\ ~outputHeader /\ InPacket /\ InBody
  BY <1>1 DEF Inv, HeaderKnown, Input, InPacket, InBody
<1>3. /\ Abstract!Complete(p) /\ headerSize >= 1 /\ headerSize = Abstract!HeaderSize(p)
      /\ Abstract!Valid(p) /\ type = Abstract!StreamId(p)
      /\ Whole \/ Stripped
  BY <1>2 DEF Exact, Following
<1>4. IF payloadSize = 0 THEN have = 0 ELSE need <= len - used /\ have + need <= payloadSize
  BY <1>1 DEF Exact, Following, rest
<1>5. have + n <= payloadSize /\ used + n <= len
  BY <1>0, <1>1, <1>4
<1> PICK d \in Nat : d = base + used
  BY <1>0
<1>6. Dealt = d + n
  <2>1. Dealt = IF payloadSize # 0 THEN base + used + need ELSE base + used
    BY <1>1, <1>2, ExactDealt DEF DealtIs
  <2> QED
    BY <2>1
<1>7. \A i : At(i)' = At(i)
  BY <1>1, StreamSame
<1>8. Chunk'
  <2>1. len # 0
    BY <1>0, <1>1
  <2> QED
    BY <1>0, <1>1, <1>5, <1>7, <2>1 DEF Exact, Chunk, Searching
<1>9. Collected'
  BY <1>1 DEF Collected
<1>10. base' + used' = d + n
  BY <1>0, <1>1
<1>11. CASE mode' = "NewSync"
  <2>1. Following'
    BY <1>11 DEF Following, InPacket
  <2>2. d + n = p + Abstract!Size(p)
    <3>1. Abstract!Size(p) \in Int
      BY <1>2, SizeTypes
    <3> PICK sz \in Int : sz = Abstract!Size(p)
      BY <3>1
    <3>2. have + n = payloadSize
      BY <1>0, <1>1, <1>5, <1>11
    <3>3. d + payloadSize = p + sz + have
      BY <1>2, Remaining
    <3> QED
      BY <1>0, <3>2, <3>3
  <2>3. Dealt' = d + n
    BY <1>10, <1>11 DEF DealtIs
  <2>4. ~InBody'
    BY <1>11 DEF InBody
  <2>5. Abstract!Next
    BY <1>0, <1>1, <1>2, <1>6, <2>2, <2>3, <2>4, EndStep
  <2> QED
    BY <1>8, <1>9, <2>1, <2>5 DEF Exact
<1>12. CASE mode' = "Payload"
  <2>1. InPacket' /\ InBody'
    BY <1>1, <1>2, <1>12 DEF InPacket, InBody
  <2>2. have' < payloadSize'
    BY <1>0, <1>1, <1>12
  <2>3. Following'
    <3>1. /\ Abstract!Complete(p)' /\ Abstract!Valid(p)'
          /\ Abstract!HeaderSize(p)' = Abstract!HeaderSize(p)
          /\ Abstract!StreamId(p)' = Abstract!StreamId(p)
          /\ Abstract!Size(p)' = Abstract!Size(p)
      BY <1>1, <1>3, StreamSame
    <3>2. /\ Abstract!Complete(start)' /\ headerSize' = Abstract!HeaderSize(start)'
          /\ headerSize' >= 1 /\ Abstract!Valid(start)' /\ type' = Abstract!StreamId(start)'
      BY <1>1, <1>3, <3>1
    <3>3. Whole' \/ Stripped'
      <4>1. Whole => Whole'
        <5>1. d = p + headerSize + have => d + n = p + headerSize + (have + n)
          BY <1>0
        <5> QED
          BY <1>1, <1>10, <3>1, <5>1 DEF Whole
      <4>2. Stripped => Stripped'
        <5>1. d = (p + headerSize + have) + 4 => d + n = (p + headerSize + (have + n)) + 4
          BY <1>0
        <5>2. Abstract!Private(p)' <=> Abstract!Private(p)
          BY <1>1, StreamSame
        <5> QED
          BY <1>1, <1>10, <3>1, <5>1, <5>2 DEF Stripped
      <4> QED
        BY <1>3, <4>1, <4>2
    <3> QED
      BY <1>1, <1>2, <1>12, <2>2, <3>2, <3>3 DEF Following
  <2>4. Abstract!Next
    <3>1. Dealt' = d + n
      BY <1>1, <1>2, <1>10, <1>12, <2>1 DEF DealtIs
    <3>2. Pkt' = Pkt
      BY <1>1, <1>2, <2>1 DEF Pkt
    <3> QED
      BY <1>1, <1>6, <3>1, <3>2, StutterStep
  <2> QED
    BY <1>8, <1>9, <2>3, <2>4 DEF Exact
<1> QED
  BY <1>1, <1>11, <1>12

\* No step goes past the end of the chunk.
LEMMA NextPlaced ==
  ASSUME PiecesLong, Inv, Exact, Inv', Next
  PROVE  Placed'
<1>0. used \in Nat /\ len \in Nat /\ base \in Nat /\ have \in Nat /\ need \in Nat
  BY Numbers
<1>1. used \in Nat /\ used <= len /\ (running \/ failed \/ used = len)
  BY <1>0 DEF Exact, Chunk, Searching
<1> SUFFICES used' <= len' /\ (mode' = "DataReady" /\ payloadSize' # 0 => used' + need' <= len')
  <2>1. used' \in Nat /\ len' \in Nat /\ base' \in Nat /\ need' \in Nat /\ have' \in Nat
    BY DEF Inv, TypeOK
  <2> QED
    BY <2>1 DEF Placed
<1>2. ASSUME NEW n \in ChunkSizes, Process(n)
      PROVE  used' <= len' /\ mode' # "DataReady"
  <2>1. /\ used' = 0 /\ len' = n /\ mode' = mode /\ ~running /\ ~failed
        /\ n \in Nat
    BY <1>2, PesAssumption DEF Process
  <2>2. used = len
    BY <1>1, <2>1
  <2>3. mode # "DataReady"
    BY <1>0, <2>2 DEF Exact, Following
  <2> QED
    BY <2>1, <2>3
<1>3. CASE Return
  <2>1. used' = len /\ len' = len /\ mode' = mode /\ used >= len
    BY <1>3 DEF Return, input
  <2>2. mode # "DataReady"
    BY <1>0, <2>1 DEF Exact, Following
  <2> QED
    BY <1>0, <2>1, <2>2
<1>4. CASE NewSync \/ SyncHit \/ HeaderCheck \/ HeaderOk
  <2>1. used' = used /\ len' = len
    BY <1>4 DEF NewSync, SyncHit, HeaderCheck, HeaderOk, input
  <2>2. mode' # "DataReady"
    BY <1>4 DEF NewSync, SyncHit, HeaderCheck, HeaderOk, In
  <2> QED
    BY <1>1, <2>1, <2>2
<1>5. CASE FastHit
  <2>1. /\ used' = used + headerSize' /\ rest >= headerSize' /\ len' = len /\ mode' = "HeaderOk"
    BY <1>5 DEF FastHit, input
  <2>2. headerSize' \in Nat
    BY DEF Inv, TypeOK
  <2>3. \A m \in Nat : rest >= m => used + m <= len
    BY <1>0 DEF rest
  <2>4. used + headerSize' <= len
    BY <2>1, <2>2, <2>3
  <2> QED
    BY <2>1, <2>4
<1>6. CASE FastSkip
  <2>1. used' = used + SkipSize /\ rest >= 4 /\ len' = len /\ mode' = "FastSync" /\ SkipSize \in {1, 3}
    BY <1>6 DEF FastSkip, In, input, SkipSize
  <2> QED
    BY <1>0, <2>1 DEF rest
<1>7. CASE FastBuffer
  <2>1. used' = len /\ len' = len /\ mode' = "Sync"
    BY <1>7 DEF FastBuffer, input
  <2> QED
    BY <1>0, <2>1
<1>8. CASE SyncFill
  <2>1. used' = used + 1 /\ used < len /\ len' = len /\ mode' = "Sync"
    BY <1>8 DEF SyncFill, In, input
  <2> QED
    BY <1>0, <2>1
<1>9. CASE SyncShift
  <2>1. used' \in {0, used} /\ len' = len /\ mode' # "DataReady"
    BY <1>9 DEF SyncShift, Rewind, input
  <2> QED
    BY <1>0, <1>1, <2>1
<1>10. CASE HeaderFill
  <2> PICK n : n = IF need - have < rest THEN need - have ELSE rest
    OBVIOUS
  <2>1. used' = used + n /\ len' = len /\ mode' = "GetHeader" /\ have < need /\ used < len
    BY <1>10 DEF HeaderFill, In, input
  <2> QED
    BY <1>0, <2>1 DEF rest
<1>11. CASE Payload \/ DropSubtitles \/ PassPrivate
  <2>1. /\ AtPayload /\ used' = used /\ len' = len /\ payloadSize' = payloadSize
        /\ Put(Piece, payloadSize, HeaderBytes) \/ Put(-Piece, payloadSize, HeaderBytes)
    BY <1>11 DEF Payload, DropSubtitles, PassPrivate, input, packet
  <2>2. /\ Piece \in Nat /\ (payloadSize # 0 => Piece <= rest) /\ rest \in Nat
    BY <2>1, PieceTypes
  <2>3. need' = Piece
    BY <2>1, <2>2 DEF Put, Abs
  <2>4. payloadSize # 0 => used + Piece <= len
    BY <1>0, <2>2 DEF rest
  <2> QED
    BY <1>1, <2>1, <2>3, <2>4
<1>12. CASE StripPrivate
  <2>1. /\ used' = used + 4 /\ len' = len /\ Piece > 4 /\ outputHeader
        /\ Put(Piece - 4, payloadSize - 4, HeaderBytes')
    BY <1>12, StripsPiece
  <2>2. Piece \in Nat /\ Piece <= rest
    BY <1>12, <2>1, PieceTypes DEF StripPrivate, Piece
  <2>3. mode' = "DataPut"
    BY <2>1, <2>2 DEF Put
  <2> QED
    BY <1>0, <2>1, <2>2, <2>3 DEF rest
<1>13. CASE DataPut
  <2>1. /\ used' = used /\ len' = len /\ payloadSize' = payloadSize /\ mode = "DataPut"
        /\ need' = Abs(need)
    BY <1>13 DEF DataPut, Put, In, input, packet
  <2>2. payloadSize # 0 => need <= rest
    BY <2>1 DEF Exact, Following
  <2> QED
    BY <1>0, <1>1, <2>1, <2>2 DEF rest, Abs
<1>14. CASE DataReady
  <2>1. /\ used' = (IF payloadSize = 0 THEN used ELSE used + need) /\ len' = len
        /\ mode = "DataReady" /\ mode' # "DataReady"
    BY <1>14 DEF DataReady, In, input
  <2>2. payloadSize # 0 => need <= rest
    BY <2>1 DEF Exact, Following
  <2> QED
    BY <1>0, <1>1, <2>1, <2>2 DEF rest
<1>15. CASE OutputFails
  <2>1. used' = used /\ len' = len /\ mode' \in {"Payload", "DataPut"}
    BY <1>15 DEF OutputFails, AtPayload, In, input
  <2> QED
    BY <1>1, <2>1
<1> QED
  BY <1>2, <1>3, <1>4, <1>5, <1>6, <1>7, <1>8, <1>9, <1>10, <1>11, <1>12, <1>13, <1>14, <1>15
  DEF Next, Step

\* The assumption on the stream: hbuff is large enough for every header in it.
StreamFits ==
  \A p \in 0..Len(stream) : Abstract!StartCode(p) => Abstract!HeaderSize(p) <= HbuffSize

\* Then hbuff never overflows: no more bytes are collected, or asked for, than the header has.
LEMMA NextFits ==
  ASSUME PiecesLong, Inv, Exact, StreamFits, Next
  PROVE  HeaderFits'
<1>0. /\ used \in Nat /\ len \in Nat /\ base \in Nat /\ have \in Nat /\ need \in Nat
      /\ Len(stream) \in Nat /\ HbuffSize \in Nat /\ HbuffSize > 14 /\ stream \in Seq(0..255)
      /\ TypeOK /\ headerSize <= HbuffSize
  BY Numbers, StreamTypes DEF Inv, HeaderFits
<1>1. ASSUME NEW p \in Nat, NEW n \in Nat, n >= 4, NEW v, Read(v, n, p), Abstract!StartCode(p)
      PROVE  Abs(HeaderSize(v, n)) <= HbuffSize
  <2>1. Abstract!HeaderSize(p) \in Nat /\ Abs(HeaderSize(v, n)) <= Abstract!HeaderSize(p)
    BY <1>0, <1>1, HeaderSizeBelow
  <2>2. Abs(HeaderSize(v, n)) \in Nat
    BY <1>0, <1>1, ReadBytes, HeaderSizeTypes
  <2>3. p \in 0..Len(stream)
    BY <1>0, <1>1 DEF Read
  <2>4. Abstract!HeaderSize(p) <= HbuffSize
    BY <1>1, <2>3 DEF StreamFits
  <2> QED
    BY <1>0, <2>1, <2>2, <2>4
<1>2. mode \in {"Sync", "GetHeader"} => have <= HbuffSize
  BY DEF Inv, HeaderFits
<1>3. CASE /\ UNCHANGED <<have, headerSize>>
           /\ mode' \in {"Sync", "GetHeader"} => mode \in {"Sync", "GetHeader"}
  BY <1>0, <1>2, <1>3 DEF HeaderFits
<1>4. CASE /\ UNCHANGED headerSize /\ mode' \notin {"Sync", "GetHeader"}
  BY <1>0, <1>4 DEF HeaderFits
<1>5. CASE FastHit \/ FastBuffer
  <2> PICK p \in Nat : p = base + used
    BY <1>0
  <2> PICK n : n = rest
    OBVIOUS
  <2> PICK size : size = HeaderSize(Val(c), rest)
    OBVIOUS
  <2>1. used < len
    BY <1>5 DEF FastHit, FastBuffer, In
  <2>2. Read(Val(c), n, p) /\ n \in Nat
    BY <2>1, ChunkRead
  <2>3. size \in Int /\ (size < 0 => Abs(size) > n)
    BY <1>0, <2>2, ReadBytes, HeaderSizeTypes
  <2>4. n >= 4 /\ StartCode(Val(c)) => Abs(size) <= HbuffSize
    BY <1>0, <1>1, <2>2, StartCodeRead
  <2>5. CASE FastHit
    <3>1. headerSize' = size /\ mode' = "HeaderOk" /\ n >= 4 /\ StartCode(Val(c)) /\ size > 0
      BY <2>5 DEF FastHit
    <3>2. size <= HbuffSize
      BY <2>3, <2>4, <3>1 DEF Abs
    <3> QED
      BY <3>1, <3>2 DEF HeaderFits
  <2>6. CASE FastBuffer
    <3>1. /\ have' = n /\ headerSize' = headerSize
          /\ n >= 4 => StartCode(Val(c)) /\ size \notin 1..n
      BY <2>6 DEF FastBuffer, packet
    <3>2. n <= HbuffSize
      <4>1. CASE n < 4
        BY <1>0, <2>2, <4>1
      <4>2. CASE n >= 4
        <5>1. StartCode(Val(c)) /\ size \notin 1..n /\ Abs(size) <= HbuffSize
          BY <2>4, <3>1, <4>2
        <5>2. Abs(size) >= 4
          BY <1>0, <2>2, ReadBytes, HeaderSizeTypes
        <5> HIDE DEF c, rest
        <5>3. Abs(size) >= n
          BY <2>2, <2>3, <5>1, <5>2 DEF Abs
        <5>4. Abs(size) \in Nat
          BY <2>3 DEF Abs
        <5> QED
          BY <1>0, <2>2, <5>1, <5>3, <5>4
      <4> QED
        BY <2>2, <4>1, <4>2
    <3> QED
      BY <1>0, <3>1, <3>2 DEF HeaderFits
  <2> QED
    BY <1>5, <2>5, <2>6
<1>6. CASE SyncFill \/ SyncShift
  <2>1. /\ headerSize' = headerSize /\ mode = "Sync"
        /\ (have' = have + 1 /\ have < 4) \/ have' = have - 1
    BY <1>6 DEF SyncFill, SyncShift, In, packet
  <2>2. have' <= HbuffSize
    BY <1>0, <1>2, <2>1
  <2> QED
    BY <1>0, <2>1, <2>2 DEF HeaderFits
<1>7. CASE HeaderFill \/ HeaderCheck
  <2>1. mode = "GetHeader"
    BY <1>7 DEF HeaderFill, HeaderCheck, In
  <2> PICK p \in Nat : p = base + used - have
    BY <2>1, HbuffRead
  <2>2. Read(Val(hbuff), have, p) /\ have >= 4 /\ Abstract!StartCode(p)
    BY <2>1, HbuffRead DEF Exact, Collected
  <2>3. \A m \in 4..have : Abs(HeaderSize(Val(hbuff), m)) <= HbuffSize
    <3> SUFFICES ASSUME NEW m \in 4..have
                 PROVE  Abs(HeaderSize(Val(hbuff), m)) <= HbuffSize
      OBVIOUS
    <3>1. m \in Nat /\ m >= 4 /\ m <= have
      BY <1>0
    <3>2. Read(Val(hbuff), m, p)
      BY <1>0, <2>2, <3>1 DEF Read
    <3> QED
      BY <1>1, <2>2, <3>1, <3>2
  <2>4. CASE HeaderFill
    <3>1. need <= HbuffSize
      BY <2>1, <2>3 DEF Inv, Collecting
    <3>2. headerSize' = headerSize /\ have < need
          /\ have' = have + (IF need - have < rest THEN need - have ELSE rest)
      BY <2>4 DEF HeaderFill, packet
    <3>3. have' <= need
      <4>1. rest \in Int
        BY <1>0 DEF rest
      <4> HIDE DEF rest
      <4> QED
        BY <1>0, <3>2, <4>1
    <3>4. have' <= HbuffSize
      <4>1. have' \in Int
        <5>1. rest \in Int
          BY <1>0 DEF rest
        <5> QED
          BY <1>0, <3>2, <5>1
      <4> QED
        BY <1>0, <3>1, <3>3, <4>1
    <3> QED
      BY <1>0, <3>2, <3>4 DEF HeaderFits
  <2>5. CASE HeaderCheck
    <3>1. /\ have' = have
          /\ headerSize' = headerSize \/ headerSize' = Abs(HeaderSize(Val(hbuff), have))
      BY <2>5 DEF HeaderCheck
    <3>2. have \in 4..have
      BY <1>0, <2>2
    <3>3. headerSize' <= HbuffSize
      BY <1>0, <2>3, <3>1, <3>2
    <3> QED
      BY <1>2, <2>1, <3>1, <3>3 DEF HeaderFits
  <2> QED
    BY <1>7, <2>4, <2>5
<1>8. CASE \E n \in ChunkSizes : Process(n)
  BY <1>3, <1>8 DEF Process, buffer, packet
<1>9. CASE Return \/ SyncHit \/ OutputFails
  BY <1>3, <1>9 DEF Return, SyncHit, OutputFails, In, buffer, packet
<1>10. CASE NewSync \/ FastSkip \/ HeaderOk \/ Payload \/ DropSubtitles \/ PassPrivate \/ DataPut \/ DataReady
  <2>1. UNCHANGED headerSize
    BY <1>10 DEF NewSync, FastSkip, HeaderOk, Payload, DropSubtitles, PassPrivate, DataPut,
                 DataReady, packet
  <2>2. mode' \notin {"Sync", "GetHeader"}
    BY <1>10 DEF NewSync, FastSkip, HeaderOk, Payload, DropSubtitles, PassPrivate, DataPut,
                 DataReady, Put, In
  <2> QED
    BY <1>4, <2>1, <2>2
<1>11. CASE StripPrivate
  <2>1. Put(Piece - 4, payloadSize - 4, HeaderBytes') /\ headerSize' = headerSize
    BY <1>11, StripsPiece
  <2>2. mode' \notin {"Sync", "GetHeader"}
    BY <2>1 DEF Put
  <2> QED
    BY <1>4, <2>1, <2>2
<1> QED
  BY <1>5, <1>6, <1>7, <1>8, <1>9, <1>10, <1>11 DEF Next, Step

\* The step of PesStream every step is.
LEMMA NextExact ==
  ASSUME PiecesLong, Inv, Exact, HeaderFits', [Next]_vars
  PROVE  conf' = conf /\ Exact' /\ [Abstract!Next]_(Abstract!vars)
<1>1. Inv'
  BY NextInv
<1>2. CASE UNCHANGED vars
  <2>1. /\ UNCHANGED <<conf, stream, buff, base, len, used, running, failed, mode, hbuff, have,
                       need, old, header, headerSize, payloadSize, type, unsavedHeader,
                       outputHeader, SOP, start, short, out>>
    BY <1>2 DEF vars
  <2>2. \A i : At(i)' = At(i) /\ Header(i)' = Header(i)
    BY <2>1, StreamSame DEF Header
  <2>3. Chunk'
    BY <2>1, <2>2 DEF Exact, Chunk, Searching
  <2>4. Collected'
    <3> PICK p : p = start
      OBVIOUS
    <3>1. Abstract!StartCode(p)' <=> Abstract!StartCode(p)
      BY <2>1, StreamSame
    <3> QED
      BY <2>1, <2>2, <3>1 DEF Exact, Collected
  <2>5. Following'
    <3>1. ((mode = "HeaderOk") \/ InPacket) /\ SOP =>
            /\ header # Hbuff =>
                 header + headerSize = used /\ unsavedHeader /\ (running \/ failed)
            /\ header = Hbuff /\ running => start < base
      BY DEF Exact, Following
    <3> QED
      BY <2>1, <2>2, <3>1, FollowingKept DEF Exact
  <2>6. Dealt' = Dealt /\ Pkt' = Pkt
    BY <2>1 DEF Dealt, Pkt, InBody
  <2> QED
    BY <2>1, <2>3, <2>4, <2>5, <2>6 DEF Exact, Abstract!vars, Pkt
<1>3. CASE Next
  <2>1. DealtIs'
    <3>1. Placed'
      BY <1>1, <1>3, NextPlaced
    <3> QED
      BY <3>1, PlacedDealt, PTL
  <2>2. conf' = conf
    BY <1>3 DEF Next, Step, Process, Return, NewSync, FastHit, FastSkip, FastBuffer, SyncFill,
                SyncHit, SyncShift, HeaderFill, HeaderCheck, HeaderOk, Payload, DropSubtitles,
                PassPrivate, StripPrivate, DataPut, DataReady, OutputFails, input
  <2>4. Exact' /\ Abstract!Next
    BY <1>1, <1>3, <2>1, PrivateExact, StripPrivateExact, ProcessExact, ReturnExact,
       NewSyncExact, FastHitExact, FastSkipExact, FastBufferExact, SyncFillExact, SyncHitExact, SyncShiftExact,
       HeaderFillExact, HeaderCheckExact, HeaderOkExact, PayloadExact, DataPutExact,
       DataReadyExact, OutputFailsExact DEF Next, Step
  <2> QED
    BY <2>2, <2>4
<1> QED
  BY <1>2, <1>3

LEMMA InitExact ==
  ASSUME Init
  PROVE  Exact /\ Abstract!Init
<1>1. Exact
  BY PesAssumption DEF Init, Exact, Chunk, Searching, Collected, Following, InPacket
<1>2. Dealt = 0 /\ Pkt = -1
  <2>1. Inv
    BY InitInv
  <2>2. DealtIs
    BY <1>1, <2>1, ExactDealt
  <2>3. mode = "NewSync" /\ base = 0 /\ used = 0
    BY DEF Init
  <2> QED
    BY <2>2, <2>3 DEF DealtIs, Pkt, InBody
<1>3. conf \in {"index", "rewrite", "build"}
  BY PesAssumption DEF Init
<1> QED
  BY <1>1, <1>2, <1>3 DEF Init, Abstract!Init, Abstract!None, Pkt

\* NothingHeldBack, with --build too.
AllDealt ==
  base + len = Len(stream) /\ ~running /\ ~failed =>
    IF InBody THEN start + Abstract!Size(start) > Len(stream)
    ELSE \/ Dealt + 4 >= Len(stream)
         \/ /\ Abstract!StartCode(Dealt)
            /\ Dealt + Abstract!HeaderSize(Dealt) >= Len(stream)

\* At the end of the stream no packet is kept back: what has not been dealt with is too
\* short to be one.
LEMMA ExactAtEnd ==
  ASSUME Inv, Exact
  PROVE  AllDealt
<1> SUFFICES ASSUME base + len = Len(stream), ~running, ~failed
             PROVE  IF InBody THEN start + Abstract!Size(start) > Len(stream)
                    ELSE \/ Dealt + 4 >= Len(stream)
                         \/ /\ Abstract!StartCode(Dealt)
                            /\ Dealt + Abstract!HeaderSize(Dealt) >= Len(stream)
  BY DEF AllDealt
<1>0. /\ base \in Nat /\ len \in Nat /\ have \in Nat /\ need \in Nat /\ start \in Nat
      /\ Len(stream) \in Nat /\ stream \in Seq(0..255) /\ headerSize \in Nat /\ payloadSize \in Int
      /\ TypeOK /\ HbuffSize \in Nat
  <2>1. start \in Nat /\ headerSize \in Nat /\ payloadSize \in Int
    BY DEF Inv, TypeOK
  <2> QED
    BY <2>1, Numbers, StreamTypes
<1>1. used = len
  BY <1>0 DEF Exact, Chunk, Searching
<1>2. base + used = Len(stream)
  BY <1>1
<1>3. SOP = outputHeader
  BY DEF Inv, Input
<1>4. mode \notin {"DataPut", "DataReady"}
  BY <1>0, <1>1 DEF Exact, Following
<1>5. CASE InBody
  <2>1. mode = "Payload" /\ ~SOP /\ InPacket
    BY <1>3, <1>4, <1>5 DEF InBody, InPacket
  <2>2. have < payloadSize
    BY <2>1 DEF Exact, Following
  <2> PICK sz \in Int : sz = Abstract!Size(start)
    BY <2>1, SizeTypes
  <2>3. Len(stream) + payloadSize = start + sz + have
    BY <1>2, <2>1, Remaining
  <2> QED
    BY <1>0, <1>5, <2>2, <2>3
<1>6. CASE mode \in {"NewSync", "FastSync"}
  <2>1. ~InBody /\ Dealt = Len(stream)
    BY <1>2, <1>6, ExactDealt DEF InBody, DealtIs
  <2> QED
    BY <1>0, <2>1
<1>7. CASE mode \in {"Sync", "GetHeader"}
  <2> PICK p \in Nat : p = base + used - have
    BY <1>7, HbuffRead
  <2>1. /\ Read(Val(hbuff), have, p) /\ p + have = Len(stream)
    <3>1. p + have = base + used
      <4>1. base + used \in Nat
        BY <1>0, <1>2
      <4> QED
        BY <1>0, <1>1, <4>1
    <3> QED
      BY <1>2, <1>7, <3>1, HbuffRead
  <2>2. ~InBody /\ Dealt = p
    <3>1. Dealt = (base + used) - have
      BY <1>7, ExactDealt DEF DealtIs
    <3> QED
      BY <1>0, <1>1, <1>7, <3>1 DEF InBody
  <2>3. CASE have <= 4
    BY <1>0, <2>1, <2>2, <2>3
  <2>4. CASE have > 4
    <3>1. Bytes(Val(hbuff), have)
      BY <1>0, <2>1, ReadBytes
    <3>2. StartCode(Val(hbuff)) /\ Abs(HeaderSize(Val(hbuff), have)) >= have
      <4>1. CASE mode = "Sync"
        BY <2>4, <4>1 DEF Inv, Collecting
      <4>2. CASE mode = "GetHeader"
        <5>1. PICK n \in 4..have : have <= Abs(HeaderSize(Val(hbuff), n))
          <6>1. have <= need /\ \E n \in 4..have : need = Abs(HeaderSize(Val(hbuff), n))
            BY <4>2 DEF Inv, Collecting
          <6> QED
            BY <6>1
        <5>2. have <= Abs(HeaderSize(Val(hbuff), have))
          <6>1. n \in Nat /\ 4 <= n /\ n <= have
            BY <1>0, <5>1
          <6> QED
            BY <1>0, <3>1, <5>1, <6>1, HeaderSizeGrows
        <5>3. Abstract!StartCode(p)
          <6>1. start = base + used - have /\ Abstract!StartCode(start)
            BY <4>2 DEF Exact, Collected
          <6> QED
            BY <6>1
        <5>4. StartCode(Val(hbuff))
          BY <1>0, <2>1, <2>4, <5>3, StartCodeRead
        <5>5. Abs(HeaderSize(Val(hbuff), have)) \in Nat
          BY <1>0, <3>1, HeaderSizeTypes
        <5> QED
          BY <1>0, <5>2, <5>4, <5>5
      <4> QED
        BY <1>7, <4>1, <4>2
    <3>3. Abstract!StartCode(p)
      BY <1>0, <2>1, <2>4, <3>2, StartCodeRead
    <3>4. Abs(HeaderSize(Val(hbuff), have)) \in Nat /\ have >= 4
      BY <1>0, <2>4, <3>1, HeaderSizeTypes
    <3>5. Abstract!HeaderSize(p) \in Nat /\ Abstract!HeaderSize(p) >= have
      <4>1. Abstract!HeaderSize(p) \in Nat /\ Abs(HeaderSize(Val(hbuff), have)) <= Abstract!HeaderSize(p)
        BY <1>0, <2>1, <3>4, HeaderSizeBelow
      <4> QED
        BY <1>0, <3>2, <3>4, <4>1
    <3>6. p + Abstract!HeaderSize(p) >= Len(stream)
      BY <1>0, <2>1, <3>5
    <3> QED
      BY <2>2, <3>3, <3>6
  <2> QED
    BY <1>0, <2>3, <2>4
<1>8. CASE (mode = "HeaderOk") \/ (mode = "Payload" /\ outputHeader)
  <2>1. ~InBody /\ Dealt = start
    BY <1>8, ExactDealt DEF InBody, DealtIs
  <2>2. SOP
    BY <1>3, <1>8 DEF Inv, Collecting
  <2>3. /\ Abstract!Complete(start) /\ headerSize = Abstract!HeaderSize(start)
        /\ base + used = start + headerSize
    BY <1>8, <2>2 DEF Exact, Following, InPacket
  <2>4. Abstract!StartCode(start)
    BY <2>3 DEF Abstract!Complete
  <2>5. start + Abstract!HeaderSize(start) >= Len(stream)
    <3>1. start + Abstract!HeaderSize(start) = Len(stream)
      BY <1>2, <2>3
    <3> QED
      BY <1>0, <3>1
  <2> QED
    BY <2>1, <2>4, <2>5
<1> QED
  BY <1>0, <1>4, <1>5, <1>6, <1>7, <1>8 DEF TypeOK, InBody

-----------------------------------------------------------------------------
(* A packet of private stream 1 within one chunk.                          *)

\* A packet is at least as large as its start code.
LEMMA SizeAtLeast ==
  ASSUME Inv, NEW p \in Nat
  PROVE  Abstract!Size(p) \in Int /\ Abstract!Size(p) >= 4
<1>0. stream \in Seq(0..255)
  BY StreamTypes DEF Inv
<1> DEFINE x == Byte(p + 4)
           y == Byte((p + 4) + 1)
           z == Byte(p + 13)
<1>1. x \in 0..255 /\ y \in 0..255 /\ z \in 0..255
  BY <1>0, ByteTypes, SMTT(30)
<1>2. Abstract!Word(p + 4) = 256 * x + y
  BY DEF Abstract!Word, Byte
<1> HIDE DEF x, y
<1> DEFINE w == Abstract!Word(p + 4)
<1>3. w \in Nat
  BY <1>1, <1>2
<1> HIDE DEF w
<1>4. CASE Abstract!StreamId(p) \in Abstract!Sized
  <2>1. Abstract!Size(p) = 6 + w
    BY <1>4 DEF Abstract!Size, w
  <2> QED
    BY <1>3, <2>1
<1>5. CASE Abstract!StreamId(p) \notin Abstract!Sized
  <2>1. Abstract!Size(p) = Abstract!HeaderSize(p)
    BY <1>5 DEF Abstract!Size
  <2>2. Abstract!StreamId(p) \notin {190, 191} /\ Abstract!StreamId(p) \notin Abstract!Elementary
    BY <1>5 DEF Abstract!Sized
  <2>3. Abstract!HeaderSize(p) \in {12, 14 + (z % 8), 6 + w, 4}
    BY <2>2 DEF Abstract!HeaderSize, w, Byte
  <2>4. z % 8 \in 0..7
    <3> HIDE DEF z
    <3> QED
      BY <1>1
  <2> HIDE DEF z
  <2>5. 14 + (z % 8) \in Int /\ 14 + (z % 8) >= 4 /\ 6 + w \in Int /\ 6 + w >= 4
    BY <1>3, <2>4
  <2> QED
    BY <2>1, <2>3, <2>5
<1> QED
  BY <1>4, <1>5

\* The stream says that the packet at p, with a header of n bytes, has subtitles.
StreamSays(p, n) == SaysSubtitles([i \in 0..n |-> Abstract!Byte(p + i)], n)

\* What lies in the chunk is what Action3 looks at.
LEMMA SubtitlesRead ==
  ASSUME Inv, Exact, AtPayload, SOP, base <= start
  PROVE  Subtitles <=> StreamSays(start, headerSize)
<1> PICK p, hs : p = start /\ hs = headerSize
  OBVIOUS
<1>1. mode = "Payload" /\ running /\ used < len /\ InPacket
  BY DEF AtPayload, In, InPacket
<1>2. /\ used \in Nat /\ len \in Nat /\ base \in Nat /\ hs \in Nat /\ p \in Nat
  <2>1. headerSize \in Nat /\ start \in Nat
    BY DEF Inv, TypeOK
  <2> QED
    BY <2>1, Numbers
<1>3. /\ \A i \in 0..(hs - 1) : Header(i) = At(p + i)
      /\ base + used = p + hs
      /\ header # Hbuff => header + hs = used
      /\ header = Hbuff => p < base
  BY <1>1 DEF Exact, Following
<1>4. header # Hbuff
  BY <1>2, <1>3
<1>5. Header(hs) = At(p + hs)
  <2>1. Header(hs) = buff[used]
    BY <1>3, <1>4 DEF Header
  <2>2. buff[used] = At(base + used)
    <3>1. used \in 0..(len - 1)
      BY <1>1, <1>2
    <3> QED
      BY <1>2, <3>1 DEF Exact, Chunk
  <2> QED
    BY <1>3, <2>1, <2>2
<1>6. \A i \in 0..hs : Header(i).val = Abstract!Byte(p + i)
  <2> SUFFICES ASSUME NEW i \in 0..hs
               PROVE  Header(i) = At(p + i)
    BY DEF At, Abstract!Cell
  <2>1. CASE i = hs
    BY <1>5, <2>1
  <2>2. CASE i # hs
    <3>1. i \in 0..(hs - 1)
      BY <1>2, <2>2
    <3> QED
      BY <1>3, <3>1
  <2> QED
    BY <2>1, <2>2
<1>7. [i \in 0..hs |-> Header(i).val] = [i \in 0..hs |-> Abstract!Byte(p + i)]
  BY <1>6
<1> QED
  BY <1>7 DEF Subtitles, StreamSays

\* The size that a header is given.
SizeField(f, at) == 256 * f[at + 4].val + f[at + 5].val
NewSize(mod) == 256 * Header(4).val + Header(5).val + mod
TwoBytes(n) == n \in Nat /\ n < 65536
HasField(at, N) == at + 5 <= N

LEMMA ModifyField ==
  ASSUME NEW N \in Nat, NEW b \in [0..N -> CellType], NEW at \in Nat, HasField(at, N),
         NEW mod \in Int, TwoBytes(NewSize(mod))
  PROVE  SizeField(Modify(b, at, mod), at) = NewSize(mod)
<1> PICK size \in Nat : size = NewSize(mod) /\ size < 65536
  BY DEF TwoBytes
<1>7. at + 5 <= N /\ size = 256 * Header(4).val + Header(5).val + mod
  BY DEF HasField, NewSize
<1> PICK hi, lo : hi = (size \div 256) % 256 /\ lo = size % 256
  OBVIOUS
<1> DEFINE field == [i \in {4, 5} |-> IF i = 4 THEN hi ELSE lo]
<1>1. Modify(b, at, mod) =
        [i \in 0..N |-> IF i - at \in {4, 5} THEN [at |-> b[i].at, val |-> field[i - at]] ELSE b[i]]
  BY <1>7 DEF Modify
<1>2. field[4] = hi /\ field[5] = lo
  OBVIOUS
<1> HIDE DEF field
<1>3. ASSUME NEW i \in 0..N, i - at \in {4, 5}
      PROVE  Modify(b, at, mod)[i].val = field[i - at]
  BY <1>1, <1>3
<1>4. Modify(b, at, mod)[at + 4].val = hi
  <2> PICK i \in 0..N : i = at + 4 /\ i - at = 4
    BY <1>7
  <2> QED
    BY <1>2, <1>3
<1>5. Modify(b, at, mod)[at + 5].val = lo
  <2> PICK i \in 0..N : i = at + 5 /\ i - at = 5
    BY <1>7
  <2> QED
    BY <1>2, <1>3
<1>6. 256 * hi + lo = size
  <2> PICK q, r : q = size \div 256 /\ r = size % 256
    OBVIOUS
  <2>1. q \in Int /\ r \in Int /\ 0 <= r /\ r < 256
    BY ONLY size \in Nat, q = size \div 256, r = size % 256
  <2>2. size = 256 * q + r
    BY ONLY size \in Nat, q = size \div 256, r = size % 256
  <2>3. q \in 0..255
    BY ONLY size \in Nat, size < 65536, <2>1, <2>2
  <2>4. q % 256 = q
    BY ONLY <2>3
  <2> QED
    BY <2>2, <2>4
<1> QED
  BY <1>4, <1>5, <1>6 DEF SizeField

\* The header that is handed on says that the packet is four bytes shorter.
LEMMA ShrinksSize ==
  ASSUME Inv, Exact, PiecesLong, StripPrivate, Abstract!Private(start)
  PROVE  256 * HeaderBytes'[5].val + HeaderBytes'[6].val = Abstract!Size(start) - 4 - 6
<1> PICK p, hs : p = start /\ hs = headerSize
  OBVIOUS
<1>1. /\ mode = "Payload" /\ SOP /\ InPacket /\ ShrinkHeader /\ Piece > 4 /\ payloadSize # 0
      /\ AtPayload /\ UNCHANGED <<header, headerSize>>
  BY StripsPiece DEF InPacket
<1>2. hs >= 6 /\ hs \in Nat /\ p \in Nat /\ have \in Nat /\ payloadSize \in Int
  BY StripTypes DEF Inv, TypeOK
<1>3. /\ \A i \in 0..(hs - 1) : Header(i) = At(p + i)
      /\ Abstract!HeaderSize(p) = hs
  BY <1>1 DEF Exact, Following
<1>4. Header(4) = At(p + 4) /\ Header(5) = At(p + 5) /\ (p + 4) + 1 = p + 5
  BY <1>2, <1>3
<1> DEFINE x == Header(4).val
           y == Header(5).val
<1>5. x = Abstract!Byte(p + 4) /\ y = Abstract!Byte(p + 5)
  BY <1>4 DEF At, Abstract!Cell
<1>6. x \in 0..255 /\ y \in 0..255
  <2>1. stream \in Seq(0..255) /\ p + 4 \in Nat /\ p + 5 \in Nat
    BY <1>2, StreamTypes DEF Inv
  <2> QED
    BY <1>5, <2>1, ByteTypes DEF Byte
<1>7. Abstract!Size(p) = 6 + (256 * x + y)
  <2>1. Abstract!StreamId(p) \in Abstract!Sized
    BY DEF Abstract!Private, Abstract!Sized, Abstract!Elementary
  <2> QED
    BY <1>4, <1>5, <2>1 DEF Abstract!Size, Abstract!Word
<1>8. 256 * x + y >= 4
  <2> PICK w : w = 256 * x + y
    OBVIOUS
  <2>1. w \in Int
    <3> HIDE DEF x, y
    <3> QED
      BY <1>6
  <2>2. payloadSize = (6 + w) - hs
    BY <1>1, <1>7, NotStripped DEF Whole
  <2>3. payloadSize > 4
    <3>1. Piece \in Nat /\ have + Piece <= payloadSize
      BY <1>1, PieceTypes
    <3> QED
      BY <1>1, <1>2, <3>1
  <2>4. w >= 4
    BY <1>2, <2>1, <2>2, <2>3
  <2> QED
    BY <2>4
<1> HIDE DEF x, y
<1> PICK mod, size : mod = -4 /\ size = 256 * x + y + mod
  OBVIOUS
<1>9. /\ mod \in Int /\ size \in Nat /\ size < 65536 /\ size = 256 * x + y + mod
      /\ size = (6 + (256 * x + y)) - 4 - 6
  BY <1>6, <1>8
<1>14. size = 256 * Header(4).val + Header(5).val + mod
  BY <1>9 DEF x, y
<1>13. mod \in Int /\ size = NewSize(mod) /\ TwoBytes(NewSize(mod))
  BY <1>9, <1>14 DEF NewSize, TwoBytes
<1>10. HeaderBytes' = [i \in 1..hs |-> Header(i - 1)']
  BY <1>1 DEF HeaderBytes
<1>11. HeaderBytes'[5] = Header(4)' /\ HeaderBytes'[6] = Header(5)'
  BY <1>2, <1>10
<1>12. 256 * Header(4)'.val + Header(5)'.val = size
  <2>1. CASE header = Hbuff
    <3> PICK N : N = HbuffSize - 1
      OBVIOUS
    <3>1. N \in Nat /\ 0 + 5 <= N /\ hbuff \in [0..N -> CellType]
      <4>1. hbuff \in [0..N -> CellType] /\ N \in Nat
        BY BuffTypes
      <4> QED
        BY <4>1, Numbers, SMTT(30)
    <3>2. hbuff' = Modify(hbuff, 0, mod)
      BY <1>1, <2>1 DEF ShrinkHeader
    <3>3. 0 \in Nat /\ 0 + 4 = 4 /\ 0 + 5 = 5
      OBVIOUS
    <3>7. HasField(0, N) /\ mod \in Int /\ TwoBytes(NewSize(mod))
      BY <1>13, <3>1 DEF HasField
    <3>6. SizeField(Modify(hbuff, 0, mod), 0) = NewSize(mod)
      BY ONLY <3>1, <3>3, <3>7, ModifyField, Zenon
    <3>4. 256 * Modify(hbuff, 0, mod)[4].val + Modify(hbuff, 0, mod)[5].val = size
      BY <1>13, <3>3, <3>6 DEF SizeField
    <3>5. Header(4)' = hbuff'[4] /\ Header(5)' = hbuff'[5]
      BY <1>1, <2>1 DEF Header
    <3> QED
      BY <3>2, <3>3, <3>4, <3>5
  <2>2. CASE header # Hbuff
    <3> PICK N : N = BuffSize - 1
      OBVIOUS
    <3>1. N \in Nat /\ header \in Nat /\ header + 5 <= N /\ buff \in [0..N -> CellType]
      <4>1. buff \in [0..N -> CellType] /\ N \in Nat
        BY BuffTypes
      <4>2. header \in Nat
        BY <2>2, BuffTypes DEF Hbuff
      <4>3. header + hs <= BuffSize
        BY <1>2, <2>2, Numbers DEF Input, Hbuff
      <4> QED
        BY <1>2, <4>1, <4>2, <4>3, Numbers, SMTT(30)
    <3>2. buff' = Modify(buff, header, mod)
      BY <1>1, <2>2 DEF ShrinkHeader
    <3>7. HasField(header, N) /\ mod \in Int /\ TwoBytes(NewSize(mod))
      BY <1>13, <3>1 DEF HasField
    <3>3. SizeField(Modify(buff, header, mod), header) = NewSize(mod)
      BY ONLY <3>1, <3>7, ModifyField, Zenon
    <3>4. Header(4)' = buff'[header + 4] /\ Header(5)' = buff'[header + 5]
      BY <1>1, <2>2 DEF Header
    <3> QED
      BY <1>13, <3>2, <3>3, <3>4 DEF SizeField
  <2> QED
    BY <2>1, <2>2
<1> QED
  BY <1>7, <1>9, <1>11, <1>12

\* What has been handed on ends with the header of the packet and n bytes of its payload,
\* those after the first four.
Framed(n) ==
  \E k \in Nat :
    /\ Len(out) = k + headerSize + n
    /\ 256 * out[k + 5].val + out[k + 6].val = Abstract!Size(start) - 4 - 6
    /\ \A i \in 1..(headerSize + n) : i \notin {5, 6} =>
         out[k + i] = At(start + (IF i <= headerSize THEN i - 1 ELSE i + 3))

\* In a packet of private stream 1 that began in this chunk, and has no subtitles
InOneChunk ==
  /\ conf = "build" /\ InPacket /\ running /\ type = 189 /\ base <= start
  /\ ~StreamSays(start, headerSize)

\* While such a packet is read, its header is out with its new size, and no piece of its
\* payload has gone before the one at hand: with this piece the packet or the chunk ends.
Frame ==
  InOneChunk =>
    /\ ~SOP => Stripped
    /\ mode = "Payload" => SOP \/ used = len
    /\ mode \in {"DataPut", "DataReady"} =>
         have = 0 /\ payloadSize # 0 /\ (need = payloadSize \/ used + need = len)
    /\ mode = "DataPut" => Framed(0)
    /\ mode = "DataReady" => Framed(need)

\* What PrivateFramed says of the packet at p with n bytes of header and size bytes in all
FramedPacket(p, n, size) ==
  /\ mode = "NewSync" /\ running /\ conf = "build" /\ type = 189 /\ Abstract!Valid(p)
  /\ base <= p /\ used = p + size - base
  /\ ~StreamSays(p, n)
  => /\ Len(out) >= size - 4
     /\ LET q == SubSeq(out, Len(out) - (size - 4) + 1, Len(out))
        IN /\ 256 * q[5].val + q[6].val = size - 4 - 6
           /\ \A i \in 1..Len(q) : i \notin {5, 6} =>
                q[i] = At(p + (IF i <= n THEN i - 1 ELSE i + 3))

LastFramed ==
  \A p, n, size : p = start /\ n = headerSize /\ size = Abstract!Size(start) =>
    FramedPacket(p, n, size)

LEMMA PrivateFramedIs == PrivateFramed <=> LastFramed
<1>1. PrivateFramed <=> FramedPacket(start, headerSize, Abstract!Size(start))
  BY Zenon DEF PrivateFramed, FramedPacket, StreamSays, At
<1>2. LastFramed <=> FramedPacket(start, headerSize, Abstract!Size(start))
  BY Zenon DEF LastFramed
<1> QED
  BY <1>1, <1>2

LEMMA SaysSame ==
  ASSUME UNCHANGED <<conf, stream>>, NEW p, NEW n
  PROVE  StreamSays(p, n)' <=> StreamSays(p, n)
BY DEF StreamSays, Abstract!Byte

LEMMA Appended ==
  ASSUME NEW s \in Seq(CellType), NEW t \in Seq(CellType)
  PROVE  /\ Len(s \o t) = Len(s) + Len(t)
         /\ \A i \in 1..Len(s) : (s \o t)[i] = s[i]
         /\ \A i \in 1..Len(t) : (s \o t)[Len(s) + i] = t[i]
OBVIOUS

LEMMA WasInOneChunk ==
  ASSUME InOneChunk', UNCHANGED <<conf, stream, base, type, start, headerSize>>,
         InPacket, running
  PROVE  InOneChunk
<1> PICK p, hs : p = start /\ hs = headerSize
  OBVIOUS
<1>1. StreamSays(p, hs)' <=> StreamSays(p, hs)
  BY SaysSame
<1>2. ~StreamSays(start, headerSize)'
  BY DEF InOneChunk
<1>3. ~StreamSays(start, headerSize)
  BY <1>1, <1>2
<1> QED
  BY <1>3 DEF InOneChunk

LEMMA FramedKept ==
  ASSUME NEW n, Framed(n), UNCHANGED <<conf, stream, out, headerSize, start>>
  PROVE  Framed(n)'
<1> PICK p : p = start
  OBVIOUS
<1>1. Abstract!Size(p)' = Abstract!Size(p) /\ \A i : At(i)' = At(i)
  BY StreamSame
<1> QED
  BY <1>1 DEF Framed

LEMMA StripFrame ==
  ASSUME Inv, Exact, PiecesLong, StripPrivate, Exact'
  PROVE  Frame' /\ PrivateFramed'
<1> PICK p, hs, n, new : p = start /\ hs = headerSize /\ n = Piece /\ new = HeaderBytes'
  OBVIOUS
<1>0. /\ used \in Nat /\ len \in Nat /\ base \in Nat /\ have \in Nat /\ hs \in Nat /\ p \in Nat
      /\ payloadSize \in Int /\ TypeOK /\ out \in Seq(CellType)
  <2>1. headerSize \in Nat /\ start \in Nat /\ payloadSize \in Int /\ out \in Seq(CellType)
    BY DEF Inv, TypeOK
  <2> QED
    BY <2>1, Numbers
<1>1. /\ AtPayload /\ mode = "Payload" /\ running /\ Rule = "act3" /\ SOP /\ outputHeader
      /\ n > 4 /\ payloadSize # 0 /\ used' = used + 4 /\ payloadSize' = payloadSize - 4
      /\ Put(n - 4, payloadSize - 4, HeaderBytes')
      /\ UNCHANGED <<conf, stream, base, len, short, failed, running, have, old, header,
                     headerSize, type, start, unsavedHeader>>
  BY StripsPiece
<1>2. n \in Nat /\ rest = len - used /\ (n = payloadSize - have \/ n = rest) /\ rest \in Nat
  BY <1>1, PieceTypes DEF rest, Piece
<1>3. InPacket /\ InPacket'
  BY <1>1 DEF InPacket, Put
<1>4. /\ type = Abstract!StreamId(p) /\ base + used = p + hs
      /\ base + used = p + hs + have /\ payloadSize = Abstract!Size(p) - hs
  <2>1. type = Abstract!StreamId(p) /\ base + used = p + hs
    BY <1>1, <1>3 DEF Exact, Following
  <2> QED
    BY <1>1, <1>3, <2>1, NotStripped DEF Whole
<1>5. Abstract!Private(p)
  <2>1. Rule = IF Abstract!Private(p) THEN "act3"
               ELSE IF Abstract!Passed(p) THEN "pass" ELSE "skip"
    BY <1>0, <1>4, RuleIs
  <2> QED
    BY <1>1, <2>1
<1> PICK sz \in Int : sz = Abstract!Size(p)
  BY <1>3, SizeTypes
<1>6. have = 0
  BY <1>0, <1>4
<1>7. /\ need' = n - 4 /\ SOP' = FALSE /\ mode' = "DataPut" /\ out' = out \o new
  <2>1. n - 4 >= 0 /\ Abs(n - 4) = n - 4
    BY <1>1, <1>2 DEF Abs
  <2> QED
    BY <1>1, <2>1 DEF Put
<1>8. Abstract!Size(p)' = Abstract!Size(p) /\ \A i : At(i)' = At(i)
  BY <1>1, StreamSame
<1>9. Stripped'
  <2>1. Whole' \/ Stripped'
    BY <1>3 DEF Exact, Following
  <2>2. ~Whole'
    <3>1. payloadSize' # sz - hs
      BY <1>0, <1>1, <1>4
    <3> QED
      BY <1>1, <1>8, <3>1 DEF Whole
  <2> QED
    BY <2>1, <2>2
<1>10. have' = 0 /\ payloadSize' # 0 /\ (need' = payloadSize' \/ used' + need' = len')
  <2>1. payloadSize' # 0
    <3>1. n <= payloadSize
      BY <1>1, <1>6, PieceTypes
    <3> QED
      BY <1>0, <1>1, <1>2, <3>1
  <2>2. need' = payloadSize' \/ used' + need' = len'
    BY <1>0, <1>1, <1>2, <1>6, <1>7
  <2> QED
    BY <1>1, <1>6, <2>1, <2>2
<1>11. Framed(0)'
  <2>1. /\ new \in Seq(CellType) /\ Len(new) = hs /\ hs >= 6
        /\ \A i \in 1..hs : i \notin {5, 6} => new[i] = At(p + i - 1)
    BY HeaderShrinks
  <2>2. 256 * new[5].val + new[6].val = Abstract!Size(p) - 4 - 6
    BY <1>5, ShrinksSize
  <2> PICK k \in Nat : k = Len(out)
    BY <1>0
  <2>3. /\ Len(out') = k + hs + 0
        /\ \A i \in 1..hs : out'[k + i] = new[i]
    <3> PICK old2, out2 : old2 = out /\ out2 = out'
      OBVIOUS
    <3>1. out2 = old2 \o new /\ old2 \in Seq(CellType) /\ Len(old2) = k
      BY <1>0, <1>7
    <3>2. Len(out2) = k + hs /\ \A i \in 1..hs : out2[k + i] = new[i]
      <4>1. /\ Len(old2 \o new) = Len(old2) + Len(new)
            /\ \A i \in 1..Len(new) : (old2 \o new)[Len(old2) + i] = new[i]
        BY <2>1, <3>1, Appended, Zenon
      <4> QED
        BY <2>1, <3>1, <4>1
    <3> QED
      BY <1>0, <3>2
  <2>4. out'[k + 5] = new[5] /\ out'[k + 6] = new[6]
    BY <1>0, <2>1, <2>3
  <2>5. 256 * out'[k + 5].val + out'[k + 6].val = Abstract!Size(start)' - 4 - 6
    BY <1>1, <1>8, <2>2, <2>4
  <2>6. ASSUME NEW i \in 1..(hs + 0), i \notin {5, 6}
        PROVE  out'[k + i] = At(start + (IF i <= headerSize THEN i - 1 ELSE i + 3))'
    <3>1. i \in 1..hs
      BY <1>0
    <3>2. out'[k + i] = At(p + i - 1)
      BY <2>1, <2>3, <2>6, <3>1
    <3> PICK q : q = p + i - 1
      OBVIOUS
    <3>3. start' + (IF i <= headerSize' THEN i - 1 ELSE i + 3) = q
      BY <1>0, <1>1, <3>1
    <3>4. At(q)' = At(q)
      BY <1>8
    <3> QED
      BY <3>2, <3>3, <3>4
  <2> QED
    BY <1>1, <2>3, <2>5, <2>6 DEF Framed
<1> QED
  BY <1>7, <1>9, <1>10, <1>11 DEF Frame, PrivateFramed

LEMMA DataPutFrame ==
  ASSUME Inv, Exact, Frame, DataPut
  PROVE  Frame' /\ PrivateFramed'
<1> PICK p, hs, n : p = start /\ hs = headerSize /\ n = need
  OBVIOUS
<1>0. /\ used \in Nat /\ len \in Nat /\ base \in Nat /\ hs \in Nat /\ p \in Nat /\ n \in Nat
      /\ out \in Seq(CellType) /\ Len(stream) \in Nat /\ base + len <= Len(stream)
  <2>1. headerSize \in Nat /\ start \in Nat /\ out \in Seq(CellType)
    BY DEF Inv, TypeOK
  <2> QED
    BY <2>1, Numbers DEF Input
<1>1. /\ mode = "DataPut" /\ running /\ used < len
      /\ Put(n, payloadSize, HeaderBytes)
      /\ UNCHANGED <<conf, stream, buff, base, len, short, used, running, failed, hbuff, have,
                     old, header, headerSize, payloadSize, type, start, unsavedHeader>>
  BY DEF DataPut, In, input, packet
<1>2. ~SOP /\ ~outputHeader /\ InPacket
  BY <1>1 DEF Inv, HeaderKnown, Input, InPacket
<1>3. /\ need' = n /\ SOP' = FALSE /\ mode' = "DataReady"
      /\ payloadSize # 0 => out' = out \o [i \in 1..n |-> c[i - 1]]
  BY <1>0, <1>1, <1>2 DEF Put, Abs
<1> SUFFICES ASSUME InOneChunk'
             PROVE  /\ Stripped' /\ Framed(n)'
                    /\ have' = 0 /\ payloadSize' # 0 /\ (need' = payloadSize' \/ used' + need' = len')
  BY <1>3 DEF Frame, PrivateFramed
<1>4. InOneChunk
  BY <1>1, <1>2, WasInOneChunk
<1>5. /\ Stripped /\ have = 0 /\ payloadSize # 0 /\ (n = payloadSize \/ used + n = len)
      /\ Framed(0)
  BY <1>1, <1>2, <1>4 DEF Frame
<1>6. Abstract!Size(p)' = Abstract!Size(p) /\ (\A i : At(i)' = At(i))
      /\ (Abstract!Private(p)' <=> Abstract!Private(p))
  BY <1>1, StreamSame
<1>7. Stripped'
  BY <1>1, <1>3, <1>5, <1>6 DEF Stripped
<1> PICK d \in Nat : d = base + used
  BY <1>0
<1>8. d = p + hs + 4
  <2>1. d = (p + hs + 0) + 4
    BY <1>5 DEF Stripped
  <2> QED
    BY <1>0, <2>1
<1>9. out' = out \o Abstract!Cells(d, n) /\ d + n <= Len(stream)
  <2>1. n <= rest
    BY <1>1, <1>5 DEF Exact, Following
  <2>2. [i \in 1..n |-> c[i - 1]] = Abstract!Cells(d, n)
    BY <1>0, <1>1, <2>1, CellsAre
  <2>3. d + n <= Len(stream)
    BY <1>0, <2>1 DEF rest
  <2> QED
    BY <1>3, <1>5, <2>2, <2>3
<1> PICK new : new = Abstract!Cells(d, n)
  OBVIOUS
<1>10. /\ new \in Seq(CellType) /\ Len(new) = n
       /\ \A i \in 1..n : new[i] = At(d + i - 1)
  <2>1. n \in Nat /\ d + n <= Len(stream)
    BY <1>0, <1>9
  <2>2. /\ Abstract!Cells(d, n) \in Seq(CellType) /\ Len(Abstract!Cells(d, n)) = n
        /\ \A i \in 1..n : Abstract!Cells(d, n)[i] = Abstract!Cell(d + i - 1)
    BY ONLY CellsApart, <2>1, Inv, d \in Nat
  <2> QED
    BY <2>2, Zenon DEF At
<1>11. Framed(n)'
  <2>5. PICK k \in Nat :
          /\ Len(out) = k + hs + 0
          /\ 256 * out[k + 5].val + out[k + 6].val = Abstract!Size(p) - 4 - 6
          /\ \A i \in 1..(hs + 0) : i \notin {5, 6} =>
               out[k + i] = At(p + (IF i <= hs THEN i - 1 ELSE i + 3))
    BY <1>5 DEF Framed
  <2>1. /\ Len(out') = k + hs + n
        /\ \A i \in 1..(k + hs) : out'[i] = out[i]
        /\ \A i \in 1..n : out'[(k + hs) + i] = new[i]
    <3> PICK old2, out2, m : old2 = out /\ out2 = out' /\ m = k + hs
      OBVIOUS
    <3>1. m \in Nat /\ m = k + hs + 0
      BY <1>0, <2>5
    <3>2. out2 = old2 \o new /\ old2 \in Seq(CellType) /\ Len(old2) = m
      BY <1>0, <1>9, <2>5, <3>1
    <3>3. /\ Len(out2) = m + n
          /\ \A i \in 1..m : out2[i] = old2[i]
          /\ \A i \in 1..n : out2[m + i] = new[i]
      <4>1. /\ Len(old2 \o new) = Len(old2) + Len(new)
            /\ \A i \in 1..Len(old2) : (old2 \o new)[i] = old2[i]
            /\ \A i \in 1..Len(new) : (old2 \o new)[Len(old2) + i] = new[i]
        BY <1>10, <3>2, Appended, Zenon
      <4> QED
        BY <1>10, <3>2, <4>1
    <3> QED
      BY <3>3
  <2>2. hs >= 6
    BY <1>2, <1>4 DEF Inv, HeaderKnown, InOneChunk, Sized, Elementary
  <2>3. 256 * out'[k + 5].val + out'[k + 6].val = Abstract!Size(start)' - 4 - 6
    <3>1. k + 5 \in 1..(k + hs) /\ k + 6 \in 1..(k + hs)
      BY <1>0, <2>2, <2>5, SMTT(30)
    <3>2. out'[k + 5] = out[k + 5] /\ out'[k + 6] = out[k + 6]
      BY <2>1, <3>1
    <3> QED
      BY <1>1, <1>6, <2>5, <3>2
  <2>4. ASSUME NEW i \in 1..(hs + n), i \notin {5, 6}
        PROVE  out'[k + i] = At(start + (IF i <= headerSize THEN i - 1 ELSE i + 3))'
    <3> PICK q : q = p + (IF i <= hs THEN i - 1 ELSE i + 3)
      OBVIOUS
    <3>1. At(start + (IF i <= headerSize THEN i - 1 ELSE i + 3))' = At(q)
      <4>1. start' + (IF i <= headerSize' THEN i - 1 ELSE i + 3) = q
        BY <1>1
      <4> QED
        BY <1>6, <4>1
    <3>2. CASE i <= hs
      <4>3. i \in Nat /\ i >= 1 /\ i <= hs
        BY <1>0, <3>2
      <4>4. k \in Nat /\ hs \in Nat
        BY <1>0, <2>5
      <4>1. i \in 1..(hs + 0) /\ k + i \in 1..(k + hs)
        BY <4>3, <4>4
      <4> QED
        BY <2>1, <2>4, <2>5, <3>1, <4>1
    <3>3. CASE i > hs
      <4>2. i - hs \in 1..n
        BY <1>0, <3>3
      <4> PICK j \in 1..n : j = i - hs
        BY <4>2
      <4>1. k + i = (k + hs) + j /\ q = d + j - 1
        BY <1>0, <1>8, <2>5, <3>3
      <4> QED
        BY <1>10, <2>1, <3>1, <4>1, ZenonT(60)
    <3> QED
      BY <1>0, <3>2, <3>3
  <2> QED
    BY <1>1, <2>1, <2>3, <2>4 DEF Framed
<1> QED
  BY <1>1, <1>3, <1>5, <1>7, <1>11

LEMMA DataReadyFrame ==
  ASSUME Inv, Exact, Frame, DataReady
  PROVE  Frame' /\ PrivateFramed'
<1> PICK p, hs, n : p = start /\ hs = headerSize /\ n = need
  OBVIOUS
<1>0. /\ used \in Nat /\ len \in Nat /\ base \in Nat /\ hs \in Nat /\ p \in Nat /\ n \in Nat
      /\ have \in Nat /\ payloadSize \in Int /\ out \in Seq(CellType)
  <2>1. headerSize \in Nat /\ start \in Nat /\ out \in Seq(CellType) /\ payloadSize \in Int
    BY DEF Inv, TypeOK
  <2> QED
    BY <2>1, Numbers
<1>1. /\ mode = "DataReady" /\ running /\ used < len
      /\ have' = IF payloadSize = 0 THEN have ELSE have + n
      /\ used' = IF payloadSize = 0 THEN used ELSE used + n
      /\ mode' = (IF have' >= payloadSize THEN "NewSync" ELSE "Payload")
      /\ UNCHANGED <<conf, stream, buff, base, len, short, running, hbuff, need, old, header,
                     headerSize, payloadSize, type, start, unsavedHeader, outputHeader, SOP,
                     failed, out>>
  BY DEF DataReady, CountPiece, In, input, packet, flags, result
<1>2. ~SOP /\ InPacket
  BY <1>1 DEF Inv, HeaderKnown, InPacket
<1>3. InOneChunk =>
        /\ Stripped /\ have = 0 /\ payloadSize # 0 /\ (n = payloadSize \/ used + n = len)
        /\ Framed(n)
  BY <1>1, <1>2 DEF Frame
<1>4. /\ Abstract!Size(p)' = Abstract!Size(p) /\ \A i : At(i)' = At(i)
      /\ Abstract!Private(p)' <=> Abstract!Private(p)
  BY <1>1, StreamSame
<1> PICK sz \in Int : sz = Abstract!Size(p)
  BY <1>2, SizeTypes
<1>5. Frame'
  <2> SUFFICES ASSUME InOneChunk'
               PROVE  Stripped' /\ used' = len' /\ mode' = "Payload"
    BY DEF Frame
  <2>1. mode' = "Payload"
    BY <1>1 DEF InOneChunk, InPacket
  <2>2. InOneChunk
    BY <1>1, <1>2, WasInOneChunk
  <2>3. /\ Stripped /\ have = 0 /\ payloadSize # 0 /\ (n = payloadSize \/ used + n = len)
    BY <1>3, <2>2
  <2>4. used' = len'
    BY <1>0, <1>1, <2>1, <2>3
  <2>5. Stripped'
    <3>1. base' + used' = (p + hs + have') + 4
      <4>1. base + used = (p + hs + have) + 4
        BY <2>3 DEF Stripped
      <4> QED
        BY <1>0, <1>1, <2>3, <4>1
    <3> QED
      BY <1>1, <1>4, <2>3, <3>1 DEF Stripped
  <2> QED
    BY <2>1, <2>4, <2>5
<1>6. PrivateFramed'
  <2> SUFFICES ASSUME mode' = "NewSync", conf = "build", type = 189, base <= p, ~StreamSays(p, hs)
               PROVE  /\ Len(out) >= sz - 4
                      /\ LET q == SubSeq(out, Len(out) - (sz - 4) + 1, Len(out))
                         IN /\ 256 * q[5].val + q[6].val = sz - 4 - 6
                            /\ \A i \in 1..Len(q) : i \notin {5, 6} =>
                                 q[i] = At(p + (IF i <= hs THEN i - 1 ELSE i + 3))
    <3>1. StreamSays(p, hs)' <=> StreamSays(p, hs)
      BY <1>1, SaysSame, SMTT(30)
    <3>2. FramedPacket(p, hs, sz)'
      BY <1>1, <1>4, <3>1, ZenonT(60) DEF FramedPacket
    <3>3. start' = p /\ headerSize' = hs /\ Abstract!Size(start)' = sz
      BY <1>1, <1>4
    <3>4. PrivateFramed' <=> LastFramed'
      BY PrivateFramedIs, PTL
    <3>5. LastFramed'
      BY <3>2, <3>3 DEF LastFramed
    <3> QED
      BY <3>4, <3>5
  <2>1. InOneChunk
    BY <1>1, <1>2 DEF InOneChunk
  <2>2. /\ payloadSize = (sz - hs) - 4 /\ have = 0 /\ payloadSize # 0 /\ Framed(n)
    BY <1>3, <2>1 DEF Stripped
  <2>3. n = payloadSize
    <3>1. n <= payloadSize
      BY <1>0, <1>1, <2>2 DEF Exact, Following
    <3> QED
      BY <1>0, <1>1, <2>2, <3>1
  <2>8. PICK k \in Nat :
          /\ Len(out) = k + hs + n
          /\ 256 * out[k + 5].val + out[k + 6].val = sz - 4 - 6
          /\ \A i \in 1..(hs + n) : i \notin {5, 6} =>
               out[k + i] = At(p + (IF i <= hs THEN i - 1 ELSE i + 3))
    BY <2>2 DEF Framed
  <2>4. hs + n = sz - 4 /\ Len(out) - (sz - 4) + 1 = k + 1 /\ Len(out) >= sz - 4
    <3>1. hs + n = sz - 4
      BY <1>0, <2>2, <2>3
    <3>2. Len(out) = k + (sz - 4)
      BY <1>0, <2>8, <3>1
    <3> QED
      BY <2>8, <3>1, <3>2
  <2>5. hs >= 6
    BY <1>2, <2>1 DEF Inv, HeaderKnown, InOneChunk, Sized, Elementary
  <2> PICK q : q = SubSeq(out, k + 1, Len(out))
    OBVIOUS
  <2>6. Len(q) = hs + n /\ \A i \in 1..(hs + n) : q[i] = out[k + i]
    BY <1>0, <2>8
  <2>7. q[5] = out[k + 5] /\ q[6] = out[k + 6]
    BY <1>0, <2>5, <2>6
  <2>9. SubSeq(out, Len(out) - (sz - 4) + 1, Len(out)) = q
    BY <2>4
  <2>10. 256 * q[5].val + q[6].val = sz - 4 - 6
    BY <2>7, <2>8
  <2>11. \A i \in 1..Len(q) : i \notin {5, 6} =>
           q[i] = At(p + (IF i <= hs THEN i - 1 ELSE i + 3))
    BY <2>6, <2>8
  <2> QED
    BY <2>4, <2>9, <2>10, <2>11
<1> QED
  BY <1>5, <1>6

\* The other actions of a packet cannot happen in one of this kind.
LEMMA PayloadFrame ==
  ASSUME Inv, Exact, Frame, Payload \/ DropSubtitles \/ PassPrivate
  PROVE  Frame' /\ PrivateFramed'
<1>1. /\ AtPayload /\ mode = "Payload" /\ running /\ used < len
      /\ mode' \in {"DataPut", "DataReady"}
      /\ UNCHANGED <<conf, stream, base, type, start, headerSize>>
  BY DEF Payload, DropSubtitles, PassPrivate, Put, AtPayload, In, input, packet
<1> SUFFICES ASSUME InOneChunk'
             PROVE  FALSE
  BY <1>1 DEF Frame, PrivateFramed
<1>2. InPacket
  BY <1>1 DEF InPacket
<1>3. InOneChunk
  BY <1>1, <1>2, WasInOneChunk
<1>4. Rule = "act3"
  BY <1>3 DEF InOneChunk, Rule
<1>5. SOP
  BY <1>1, <1>3, Numbers DEF Frame
<1>6. Subtitles <=> StreamSays(start, headerSize)
  BY <1>1, <1>3, <1>5, SubtitlesRead DEF InOneChunk
<1> QED
  BY <1>3, <1>4, <1>5, <1>6 DEF InOneChunk, Payload, DropSubtitles, PassPrivate

LEMMA HeaderOkFrame ==
  ASSUME Inv, Exact, HeaderOk
  PROVE  Frame' /\ PrivateFramed'
<1> PICK p, hs : p = start /\ hs = headerSize
  OBVIOUS
<1>1. /\ mode = "HeaderOk" /\ mode' \in {"Payload", "NewSync"}
      /\ mode' = "NewSync" => ~(Header(3).val > 184 /\ PacketSize - hs >= 0)
      /\ UNCHANGED <<conf, stream, headerSize, start, SOP>>
  BY DEF HeaderOk, In, input, flags
<1>2. /\ SOP /\ hs = Abstract!HeaderSize(p) /\ hs \in Nat
      /\ Header(3).val = Abstract!StreamId(p) /\ PacketSize = Abstract!Size(p)
      /\ Abstract!Size(p) \in Int
  BY <1>1, HeaderRead DEF Inv, TypeOK
<1>3. CASE mode' = "Payload"
  BY <1>1, <1>2, <1>3 DEF Frame, PrivateFramed
<1>4. CASE mode' = "NewSync"
  <2>1. ~Abstract!Valid(p)
    <3> SUFFICES ASSUME Abstract!StreamId(p) > 184, Abstract!Size(p) >= Abstract!HeaderSize(p)
                 PROVE  FALSE
      BY DEF Abstract!Valid
    <3>1. PacketSize - hs >= 0
      BY <1>2
    <3> QED
      BY <1>1, <1>2, <1>4, <3>1
  <2>2. ~Abstract!Valid(start)'
    <3>1. Abstract!Valid(p)' <=> Abstract!Valid(p)
      BY <1>1, StreamSame
    <3> QED
      BY <1>1, <2>1, <3>1
  <2> QED
    BY <1>4, <2>2 DEF Frame, PrivateFramed, InOneChunk, InPacket
<1> QED
  BY <1>1, <1>3, <1>4

\* With the next chunk the packet is none of this one any more.
LEMMA ProcessFrame ==
  ASSUME Inv, Exact, NEW m \in ChunkSizes, Process(m)
  PROVE  Frame' /\ PrivateFramed'
<1> PICK p, hs : p = start /\ hs = headerSize
  OBVIOUS
<1>0. /\ used \in Nat /\ len \in Nat /\ base \in Nat /\ have \in Nat /\ hs \in Nat /\ p \in Nat
  <2>1. headerSize \in Nat /\ start \in Nat
    BY DEF Inv, TypeOK
  <2> QED
    BY <2>1, Numbers
<1>1. /\ base' = base + len /\ used' = 0 /\ ~running /\ ~failed
      /\ UNCHANGED <<conf, stream, mode, start, headerSize, have>>
  BY DEF Process, packet, buffer
<1>2. used = len
  BY <1>0, <1>1 DEF Exact, Chunk
<1>3. Frame'
  <2> SUFFICES ASSUME InOneChunk'
               PROVE  FALSE
    BY DEF Frame
  <2>1. InPacket /\ base + len <= p
    BY <1>1 DEF InOneChunk, InPacket
  <2>2. hs >= 1 /\ (Whole \/ Stripped)
    BY <2>1 DEF Exact, Following
  <2>3. base + used >= p + hs
    BY <1>0, <2>2 DEF Whole, Stripped
  <2> QED
    BY <1>0, <1>2, <2>1, <2>2, <2>3
<1>4. PrivateFramed'
  <2> PICK sz \in Int : sz = Abstract!Size(p) /\ sz >= 4
    BY <1>0, SizeAtLeast
  <2>1. Abstract!Size(start)' = sz
    <3>1. Abstract!Size(p)' = Abstract!Size(p)
      BY <1>1, StreamSame
    <3> QED
      BY <1>1, <3>1
  <2>2. ~(base' <= start' /\ used' = start' + Abstract!Size(start)' - base')
    BY <1>0, <1>1, <2>1
  <2> QED
    BY <2>2 DEF PrivateFramed
<1> QED
  BY <1>3, <1>4

LEMMA NextFrame ==
  ASSUME Inv, Exact, Frame, PrivateFramed, PiecesLong, Exact', [Next]_vars
  PROVE  Frame' /\ PrivateFramed'
<1>1. CASE UNCHANGED vars
  <2>0. /\ UNCHANGED <<conf, stream, base, len, used, running, mode, have, need, out, header,
                       headerSize, payloadSize, type, SOP, start>>
    BY <1>1 DEF vars
  <2> PICK p, hs, n : p = start /\ hs = headerSize /\ n = need
    OBVIOUS
  <2>1. /\ Abstract!Size(p)' = Abstract!Size(p) /\ (\A i : At(i)' = At(i))
        /\ Abstract!Private(p)' <=> Abstract!Private(p)
        /\ Abstract!Valid(p)' <=> Abstract!Valid(p)
        /\ StreamSays(p, hs)' <=> StreamSays(p, hs)
    BY <2>0, StreamSame, SaysSame
  <2>2. Frame'
    <3> SUFFICES ASSUME InOneChunk'
                 PROVE  /\ ~SOP => Stripped'
                        /\ mode = "DataPut" => Framed(0)'
                        /\ mode = "DataReady" => Framed(n)'
                        /\ mode = "Payload" => SOP \/ used = len
                        /\ mode \in {"DataPut", "DataReady"} =>
                             have = 0 /\ payloadSize # 0 /\ (need = payloadSize \/ used + need = len)
      BY <2>0 DEF Frame
    <3>1. InOneChunk
      BY <2>0, WasInOneChunk DEF InOneChunk, InPacket
    <3>2. Stripped => Stripped'
      BY <2>0, <2>1 DEF Stripped
    <3>3. Framed(0) => Framed(0)'
      BY <2>0, FramedKept
    <3>4. Framed(n) => Framed(n)'
      BY <2>0, FramedKept
    <3> QED
      BY <3>1, <3>2, <3>3, <3>4 DEF Frame
  <2>3. PrivateFramed'
    <3> PICK sz : sz = Abstract!Size(p)
      OBVIOUS
    <3>1. FramedPacket(p, hs, sz)
      BY PrivateFramedIs DEF LastFramed
    <3>2. FramedPacket(p, hs, sz)'
      BY <2>0, <2>1, <3>1, ZenonT(60) DEF FramedPacket
    <3>3. start' = p /\ headerSize' = hs /\ Abstract!Size(start)' = sz
      BY <2>0, <2>1
    <3>4. PrivateFramed' <=> LastFramed'
      BY PrivateFramedIs, PTL
    <3>5. LastFramed'
      BY <3>2, <3>3 DEF LastFramed
    <3> QED
      BY <3>4, <3>5
  <2> QED
    BY <2>2, <2>3
<1>2. CASE Return \/ OutputFails
  <2>1. running' = FALSE
    BY <1>2 DEF Return, OutputFails
  <2> QED
    BY <2>1 DEF Frame, PrivateFramed, InOneChunk
<1>3. CASE \/ NewSync \/ FastHit \/ FastSkip \/ FastBuffer \/ SyncFill \/ SyncHit \/ SyncShift
           \/ HeaderFill \/ HeaderCheck
  <2>1. mode' \in {"FastSync", "Sync", "GetHeader", "HeaderOk"}
    BY <1>3 DEF NewSync, FastHit, FastSkip, FastBuffer, SyncFill, SyncHit, SyncShift, HeaderFill,
                HeaderCheck, In
  <2> QED
    BY <2>1 DEF Frame, PrivateFramed, InOneChunk, InPacket
<1> QED
  BY <1>1, <1>2, <1>3, StripFrame, DataPutFrame, DataReadyFrame, PayloadFrame, HeaderOkFrame,
     ProcessFrame DEF Next, Step

-----------------------------------------------------------------------------
(* The theorems.                                                           *)

\* All this, step by step.
WellRead == StreamFits /\ Inv /\ Exact

LEMMA WellReadInit ==
  ASSUME Init, StreamFits
  PROVE  WellRead /\ Abstract!Init
BY InitInv, InitExact DEF WellRead

LEMMA WellReadNext ==
  ASSUME PiecesLong, WellRead, [Next]_vars
  PROVE  WellRead' /\ [Abstract!Next]_(Abstract!vars)
<1>0. StreamFits /\ Inv /\ Exact
  BY DEF WellRead
<1>1. HeaderFits'
  <2>1. CASE UNCHANGED vars
    BY <1>0, <2>1 DEF vars, Inv, HeaderFits
  <2>2. CASE Next
    BY <1>0, <2>2, NextFits
  <2> QED
    BY <2>1, <2>2
<1>2. Inv'
  BY <1>0, <1>1, NextInv
<1>3. conf' = conf /\ Exact' /\ [Abstract!Next]_(Abstract!vars)
  BY <1>0, <1>1, NextExact
<1>4. StreamFits'
  <2>1. stream' = stream
    BY <1>3 DEF vars, Next, Step, Process, Return, NewSync, FastHit, FastSkip, FastBuffer,
                SyncFill, SyncHit, SyncShift, HeaderFill, HeaderCheck, HeaderOk, Payload,
                DropSubtitles, PassPrivate, StripPrivate, DataPut, DataReady, OutputFails, input
  <2>2. \A p : /\ Abstract!StartCode(p)' <=> Abstract!StartCode(p)
               /\ Abstract!HeaderSize(p)' = Abstract!HeaderSize(p)
    BY <1>3, <2>1, StreamSame
  <2> QED
    BY <1>0, <2>1, <2>2 DEF StreamFits
<1> QED
  BY <1>0, <1>2, <1>3, <1>4 DEF WellRead

\* Only --build takes packets apart.
LEMMA OthersLong == Spec /\ conf # "build" => []PiecesLong
<1>1. conf # "build" => PiecesLong
  BY DEF PiecesLong, Rule
<1>2. conf # "build" /\ [Next]_vars => (conf # "build")'
  BY DEF vars, Next, Step, Process, Return, NewSync, FastHit, FastSkip, FastBuffer, SyncFill,
         SyncHit, SyncShift, HeaderFill, HeaderCheck, HeaderOk, Payload, DropSubtitles,
         PassPrivate, StripPrivate, DataPut, DataReady, OutputFails, input
<1> QED
  BY <1>1, <1>2, PTL DEF Spec

\* hbuff, which has room for the headers of the stream, never overflows.
THEOREM HeaderFitsHolds ==
  Spec /\ StreamFits /\ (conf # "build" \/ []PiecesLong) => []HeaderFits
<1>1. WellRead => HeaderFits
  BY DEF WellRead, Inv
<1> QED
  BY <1>1, OthersLong, WellReadInit, WellReadNext, PTL DEF Spec

\* However the stream is cut into chunks, what genindex hands on is what PesStream says:
\* without --build every packet it is told to, each byte once, in order and unchanged; with
\* it the packets of private stream 1 are taken apart, and no other one suffers from it.
THEOREM RefinementHolds == Spec /\ StreamFits /\ (conf # "build" \/ []PiecesLong) => Refines
BY OthersLong, WellReadInit, WellReadNext, PTL DEF Spec, Refines, Abstract!Spec

\* When the stream has been read, all of it has been dealt with, but for a packet that is
\* not complete.
THEOREM NothingHeldBackHolds ==
  Spec /\ StreamFits /\ (conf # "build" \/ []PiecesLong) => [](NothingHeldBack /\ AllDealt)
<1>1. WellRead => AllDealt
  BY ExactAtEnd DEF WellRead
<1>2. AllDealt => NothingHeldBack
  BY DEF AllDealt, NothingHeldBack
<1> QED
  BY <1>1, <1>2, OthersLong, WellReadInit, WellReadNext, PTL DEF Spec

\* A packet of private stream 1 that lies within one chunk, and has no subtitles, is handed
\* on byte for byte but for its first four bytes of payload, and with a size that says so.
THEOREM PrivateFramedHolds ==
  Spec /\ StreamFits /\ (conf # "build" \/ []PiecesLong) => []PrivateFramed
<1>1. Init => Frame /\ PrivateFramed
  BY DEF Init, Frame, PrivateFramed, InOneChunk
<1>2. WellRead /\ Frame /\ PrivateFramed /\ PiecesLong /\ [Next]_vars /\ WellRead'
        => Frame' /\ PrivateFramed'
  BY NextFrame DEF WellRead
<1> QED
  BY <1>1, <1>2, OthersLong, WellReadInit, WellReadNext, PTL DEF Spec
=============================================================================
