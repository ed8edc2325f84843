--------------------------- MODULE FramingProofs ---------------------------
(***************************************************************************)
(* The bit reader returns the bits of a unit in order, and the units of a  *)
(* sound file are found in order: for any files, fields and codes.         *)
(***************************************************************************)
EXTENDS Framing, LoopLemmas

(***************************************************************************)
(* Bytes and bits.                                                         *)
(***************************************************************************)
(* A mapped file                                                           *)
Mapped(d) == d \in Seq(Byte) /\ Len(d) + 3 < Width

LEMMA ByteAtType ==
  ASSUME NEW d, Mapped(d), NEW o \in Nat
  PROVE  ByteAt(d, o) \in Byte /\ (ByteAt(d, o) # 0 => o < Len(d))
<1>1. CASE o < Len(d)
  <2>1. o + 1 \in 1 .. Len(d) /\ d \in Seq(Byte)
    BY <1>1 DEF Mapped
  <2> QED
    BY <1>1, <2>1 DEF ByteAt
<1>2. CASE ~(o < Len(d))
  BY <1>2 DEF ByteAt, Byte
<1> QED
  BY <1>1, <1>2

LEMMA FiniteSeq ==
  ASSUME NEW S, NEW n \in Nat, NEW f \in [1 .. n -> S]
  PROVE  f \in Seq(S) /\ Len(f) = n
OBVIOUS

LEMMA SeqElement ==
  ASSUME NEW S, NEW s \in Seq(S), NEW i \in 1 .. Len(s)
  PROVE  s[i] \in S
OBVIOUS

LEMMA Joined ==
  ASSUME NEW S, NEW s \in Seq(S), NEW t \in Seq(S)
  PROVE  /\ s \o t \in Seq(S) /\ Len(s \o t) = Len(s) + Len(t)
         /\ \A i \in 1 .. Len(s) : (s \o t)[i] = s[i]
         /\ \A i \in 1 .. Len(t) : (s \o t)[Len(s) + i] = t[i]
OBVIOUS

LEMMA Part ==
  ASSUME NEW S, NEW s \in Seq(S), NEW m \in 1 .. Len(s) + 1, NEW n \in m - 1 .. Len(s)
  PROVE  /\ SubSeq(s, m, n) \in Seq(S) /\ Len(SubSeq(s, m, n)) = n - m + 1
         /\ \A i \in 1 .. n - m + 1 : SubSeq(s, m, n)[i] = s[m + i - 1]
OBVIOUS

LEMMA BitsType ==
  ASSUME NEW b \in Byte
  PROVE  /\ Bits(b) \in [1 .. 8 -> Bit] /\ Bits(b) \in Seq(Bit) /\ Len(Bits(b)) = 8
         /\ \A i \in 1 .. 8 : Bits(b)[i] \in Bit
<1>1. \A i \in 1 .. 8 : Weight[i] \in 1 .. 128
  BY DEF Weight
<1>2. ASSUME NEW i \in 1 .. 8 PROVE (b \div Weight[i]) % 2 \in Bit
  <2> DEFINE w == Weight[i]
  <2>1. w \in Int /\ w > 0 /\ b \in Int
    BY <1>1 DEF Byte
  <2> HIDE DEF w
  <2>2. b \div w \in Int
    BY <2>1
  <2>3. (b \div w) % 2 \in 0 .. 1
    BY <2>2
  <2> QED
    BY <2>3 DEF w, Bit
<1>3. Bits(b) \in [1 .. 8 -> Bit]
  BY <1>2 DEF Bits
<1> HIDE DEF Bits
<1>4. Bits(b) \in Seq(Bit) /\ Len(Bits(b)) = 8
  BY <1>3, FiniteSeq
<1> QED
  BY <1>3, <1>4

(* A byte is zero exactly if its bits are.                                 *)
LEMMA ZeroByte ==
  ASSUME NEW b \in Byte
  PROVE  b = 0 <=> \A i \in 1 .. 8 : Bits(b)[i] = 0
<1>1. /\ Bits(b)[1] = (b \div 128) % 2 /\ Bits(b)[2] = (b \div 64) % 2
      /\ Bits(b)[3] = (b \div 32) % 2 /\ Bits(b)[4] = (b \div 16) % 2
      /\ Bits(b)[5] = (b \div 8) % 2 /\ Bits(b)[6] = (b \div 4) % 2
      /\ Bits(b)[7] = (b \div 2) % 2 /\ Bits(b)[8] = (b \div 1) % 2
  BY DEF Bits, Weight
<1>2. b \in Int /\ 0 <= b /\ b <= 255
  BY DEF Byte
<1>3. ASSUME \A i \in 1 .. 8 : Bits(b)[i] = 0 PROVE b = 0
  <2>1. /\ (b \div 128) % 2 = 0 /\ (b \div 64) % 2 = 0 /\ (b \div 32) % 2 = 0
        /\ (b \div 16) % 2 = 0 /\ (b \div 8) % 2 = 0 /\ (b \div 4) % 2 = 0
        /\ (b \div 2) % 2 = 0 /\ (b \div 1) % 2 = 0
    BY <1>1, <1>3
  <2> QED
    BY <1>2, <2>1
<1>4. ASSUME b = 0, NEW i \in 1 .. 8 PROVE Bits(b)[i] = 0
  <2>1. i = 1 \/ i = 2 \/ i = 3 \/ i = 4 \/ i = 5 \/ i = 6 \/ i = 7 \/ i = 8
    OBVIOUS
  <2> QED
    BY <1>1, <1>4, <2>1
<1> QED
  BY <1>3, <1>4

LEMMA BitStringType ==
  ASSUME NEW m \in Nat, NEW byte \in [0 .. m -> Byte], NEW from \in Nat, NEW n \in Nat,
         (from + n - 1) \div 8 <= m
  PROVE  /\ BitString(byte, from, n) \in Seq(Bit)
         /\ Len(BitString(byte, from, n)) = n
         /\ DOMAIN BitString(byte, from, n) = 1 .. n
<1>1. ASSUME NEW i \in 1 .. n
      PROVE  Bits(byte[(from + i - 1) \div 8])[1 + ((from + i - 1) % 8)] \in Bit
  <2>1. (from + i - 1) \div 8 \in 0 .. m /\ 1 + ((from + i - 1) % 8) \in 1 .. 8
    OBVIOUS
  <2> QED
    BY <2>1, BitsType
<1>2. BitString(byte, from, n) \in [1 .. n -> Bit]
  BY <1>1 DEF BitString
<1> QED
  BY <1>2

(* What Number computes, bit after bit                                     *)
NumberRuns(bits) ==
  {v \in [0 .. Len(bits) -> 0 .. Width - 1] :
     v[0] = 0 /\ \A i \in 1 .. Len(bits) : v[i] = (2 * v[i - 1] + bits[i]) % Width}

LEMMA NumberRun ==
  ASSUME NEW bits \in Seq(Bit)
  PROVE  \E v \in NumberRuns(bits) : Number(bits) = v[Len(bits)]
<1> DEFINE S == 0 .. Width - 1
           n == Len(bits)
           turn == [i \in 1 .. n |-> [x \in S |-> (2 * x + bits[i]) % Width]]
           Is(v) == v = [i \in 0 .. n |->
                           IF i = 0 THEN 0 ELSE (2 * v[i - 1] + bits[i]) % Width]
           value == CHOOSE v : Is(v)
<1>1. n \in Nat /\ 0 \in S /\ \A i \in 1 .. n : bits[i] \in Bit
  BY WidthAssumption
<1>2. turn \in [1 .. n -> [S -> S]]
  <2>1. ASSUME NEW i \in 1 .. n, NEW x \in S PROVE (2 * x + bits[i]) % Width \in S
    <3>1. bits[i] \in Int /\ x \in Int /\ Width \in Int /\ Width > 0
      BY <1>1, WidthAssumption DEF Bit
    <3>2. 2 * x + bits[i] \in Int
      BY <3>1
    <3> QED
      BY <3>1, <3>2
  <2> QED
    BY <2>1
<1> HIDE DEF S, n, turn
<1>3. PICK f \in Runs(n, S, 0, turn) : TRUE
  BY <1>1, <1>2, LoopRuns
<1>4. f \in [0 .. n -> S] /\ f[0] = 0 /\ \A i \in 1 .. n : f[i] = turn[i][f[i - 1]]
  BY <1>3 DEF Runs
<1>5. ASSUME NEW i \in 1 .. n PROVE f[i] = (2 * f[i - 1] + bits[i]) % Width
  <2>1. f[i - 1] \in S
    BY <1>1, <1>4
  <2> QED
    BY <1>4, <2>1 DEF turn
<1>6. Is(f)
  <2>1. \A i \in 0 .. n : f[i] = IF i = 0 THEN 0 ELSE (2 * f[i - 1] + bits[i]) % Width
    BY <1>1, <1>4, <1>5
  <2> QED
    BY <1>4, <2>1
<1>7. Is(value)
  BY <1>6
<1>8. /\ DOMAIN value = 0 .. n
      /\ \A i \in 0 .. n : value[i] = IF i = 0 THEN 0 ELSE (2 * value[i - 1] + bits[i]) % Width
  BY <1>7
<1> HIDE DEF value
<1>9. \A i \in 0 .. n : value[i] \in S
  <2> DEFINE T == {i \in 0 .. n : value[i] \in S}
  <2>1. 0 \in T
    BY <1>1, <1>8
  <2>2. ASSUME NEW i \in 0 .. n - 1, i \in T PROVE i + 1 \in T
    <3>1. i + 1 \in 1 .. n /\ i + 1 \in 0 .. n /\ (i + 1) - 1 = i /\ i + 1 # 0
      BY <1>1
    <3>2. value[i + 1] = (2 * value[i] + bits[i + 1]) % Width
      BY <1>8, <3>1
    <3>3. bits[i + 1] \in Int /\ value[i] \in Int /\ Width \in Int /\ Width > 0
      BY <1>1, <2>2, <3>1, WidthAssumption DEF Bit, S
    <3> DEFINE x == 2 * value[i] + bits[i + 1]
    <3> HIDE DEF x
    <3>4. x \in Int
      BY <3>3 DEF x
    <3>5. x % Width \in 0 .. Width - 1
      BY <3>3, <3>4
    <3> QED
      BY <3>1, <3>2, <3>5 DEF S, x
  <2> HIDE DEF T
  <2>3. 0 .. n \subseteq T
    BY <1>1, <2>1, <2>2, UpTo
  <2> QED
    BY <2>3 DEF T
<1>10. Number(bits) = value[n]
  BY DEF Number, value, n
<1>11. value \in NumberRuns(bits)
  <2>1. value \in [0 .. n -> S]
    BY <1>8, <1>9, <1>7
  <2>2. value[0] = 0 /\ \A i \in 1 .. n : value[i] = (2 * value[i - 1] + bits[i]) % Width
    BY <1>1, <1>8
  <2> QED
    BY <2>1, <2>2 DEF NumberRuns, n, S
<1> QED
  BY <1>10, <1>11 DEF n

LEMMA NumberType ==
  ASSUME NEW bits \in Seq(Bit)
  PROVE  Number(bits) \in 0 .. Width - 1
<1>1. PICK v \in NumberRuns(bits) : Number(bits) = v[Len(bits)]
  BY NumberRun
<1> QED
  BY <1>1 DEF NumberRuns

LEMMA NextDigit ==
  ASSUME NEW m \in Nat, NEW x \in 0 .. m, NEW b \in Bit
  PROVE  (2 * x + b) % Width \in 0 .. 2 * m + 1
<1>1. 2 * x + b \in Nat /\ Width \in Nat /\ Width > 0 /\ 2 * x + b <= 2 * m + 1
  BY WidthAssumption DEF Bit
<1>2. (2 * x + b) % Width \in 0 .. 2 * x + b
  BY <1>1
<1> QED
  BY <1>1, <1>2

(* The type of a unit has five bits.                                       *)
LEMMA FiveBits ==
  ASSUME NEW bits \in Seq(Bit), Len(bits) = 5
  PROVE  Number(bits) \in 0 .. 31
<1>1. PICK v \in NumberRuns(bits) : Number(bits) = v[Len(bits)]
  BY NumberRun
<1>2. \A i \in 1 .. 5 : bits[i] \in Bit
  BY SeqElement
<1>3. v[0] = 0 /\ \A i \in 1 .. 5 : v[i] = (2 * v[i - 1] + bits[i]) % Width
  BY DEF NumberRuns
<1>4. /\ v[1] = (2 * v[0] + bits[1]) % Width /\ v[2] = (2 * v[1] + bits[2]) % Width
      /\ v[3] = (2 * v[2] + bits[3]) % Width /\ v[4] = (2 * v[3] + bits[4]) % Width
      /\ v[5] = (2 * v[4] + bits[5]) % Width
  BY <1>3
<1>5. v[0] \in 0 .. 0
  BY <1>3
<1>6. v[1] \in 0 .. 1
  <2>1. v[1] \in 0 .. 2 * 0 + 1
    <3>1. 0 \in Nat
      OBVIOUS
    <3>2. bits[1] \in Bit
      BY <1>2
    <3> QED
      BY <1>4, <1>5, <3>1, <3>2, NextDigit, Zenon
  <2> QED
    BY <2>1
<1>7. v[2] \in 0 .. 3
  <2>1. v[2] \in 0 .. 2 * 1 + 1
    <3>1. 1 \in Nat
      OBVIOUS
    <3>2. bits[2] \in Bit
      BY <1>2
    <3> QED
      BY <1>4, <1>6, <3>1, <3>2, NextDigit, Zenon
  <2>2. 2 * 1 + 1 = 3
    OBVIOUS
  <2> QED
    BY <2>1, <2>2, Zenon
<1>8. v[3] \in 0 .. 7
  <2>1. v[3] \in 0 .. 2 * 3 + 1
    <3>1. 3 \in Nat
      OBVIOUS
    <3>2. bits[3] \in Bit
      BY <1>2
    <3> QED
      BY <1>4, <1>7, <3>1, <3>2, NextDigit, Zenon
  <2>2. 2 * 3 + 1 = 7
    OBVIOUS
  <2> QED
    BY <2>1, <2>2, Zenon
<1>9. v[4] \in 0 .. 15
  <2>1. v[4] \in 0 .. 2 * 7 + 1
    <3>1. 7 \in Nat
      OBVIOUS
    <3>2. bits[4] \in Bit
      BY <1>2
    <3> QED
      BY <1>4, <1>8, <3>1, <3>2, NextDigit, Zenon
  <2>2. 2 * 7 + 1 = 15
    OBVIOUS
  <2> QED
    BY <2>1, <2>2, Zenon
<1>10. v[5] \in 0 .. 31
  <2>1. v[5] \in 0 .. 2 * 15 + 1
    <3>1. 15 \in Nat
      OBVIOUS
    <3>2. bits[5] \in Bit
      BY <1>2
    <3> QED
      BY <1>4, <1>9, <3>1, <3>2, NextDigit, Zenon
  <2>2. 2 * 15 + 1 = 31
    OBVIOUS
  <2> QED
    BY <2>1, <2>2, Zenon
<1>11. Number(bits) = v[5]
  BY <1>1
<1> QED
  BY <1>10, <1>11, Zenon
-----------------------------------------------------------------------------
(***************************************************************************)
(* Reading.                                                                *)
(***************************************************************************)
Escaped(d, rd, o) == IF Emulated(d, rd, o) THEN o + 1 ELSE o

LEMMA EscapedBounds ==
  ASSUME NEW d, Mapped(d), NEW rd \in Reader, NEW o \in Nat
  PROVE  /\ Escaped(d, rd, o) \in Nat
         /\ \/ Escaped(d, rd, o) = o
            \/ Escaped(d, rd, o) = o + 1 /\ o + 1 <= Len(d)
<1>1. CASE Emulated(d, rd, o)
  <2>1. ByteAt(d, o) # 0
    BY <1>1 DEF Emulated
  <2>2. o < Len(d) /\ Len(d) \in Nat
    BY <2>1, ByteAtType DEF Mapped
  <2> QED
    BY <1>1, <2>2 DEF Escaped
<1>2. CASE ~Emulated(d, rd, o)
  BY <1>2 DEF Escaped
<1> QED
  BY <1>1, <1>2

(* One place after the other                                               *)
PlaceRuns(d, rd, first, n) ==
  {place \in [0 .. n -> Nat] :
     /\ place[0] = Escaped(d, rd, first)
     /\ \A k \in 1 .. n : place[k] = Escaped(d, rd, place[k - 1] + 1)}

LEMMA PlacesRun ==
  ASSUME NEW d, Mapped(d), NEW rd \in Reader, NEW first \in Nat, NEW n \in Nat
  PROVE  Places(d, rd, first, n) \in PlaceRuns(d, rd, first, n)
<1> DEFINE turn == [k \in 1 .. n |-> [o \in Nat |-> Escaped(d, rd, o + 1)]]
           Is(f) == f = [k \in 0 .. n |->
                           LET o == IF k = 0 THEN first ELSE f[k - 1] + 1
                           IN  IF Emulated(d, rd, o) THEN o + 1 ELSE o]
           place == CHOOSE f : Is(f)
<1>1. turn \in [1 .. n -> [Nat -> Nat]]
  BY EscapedBounds
<1>2. Escaped(d, rd, first) \in Nat
  BY EscapedBounds
<1> HIDE DEF turn
<1>3. PICK f \in Runs(n, Nat, Escaped(d, rd, first), turn) : TRUE
  BY <1>1, <1>2, LoopRuns
<1>4. /\ f \in [0 .. n -> Nat] /\ f[0] = Escaped(d, rd, first)
      /\ \A k \in 1 .. n : f[k] = turn[k][f[k - 1]]
  BY <1>3 DEF Runs
<1>5. ASSUME NEW k \in 1 .. n PROVE f[k] = Escaped(d, rd, f[k - 1] + 1)
  <2>1. f[k - 1] \in Nat
    BY <1>4
  <2> QED
    BY <1>4, <2>1 DEF turn
<1>6. Is(f)
  <2>1. \A k \in 0 .. n : f[k] = LET o == IF k = 0 THEN first ELSE f[k - 1] + 1
                                 IN  IF Emulated(d, rd, o) THEN o + 1 ELSE o
    BY <1>4, <1>5 DEF Escaped
  <2> QED
    BY <1>4, <2>1
<1>7. Is(place)
  BY <1>6
<1>8. /\ DOMAIN place = 0 .. n
      /\ \A k \in 0 .. n : place[k] = Escaped(d, rd, IF k = 0 THEN first ELSE place[k - 1] + 1)
  BY <1>7 DEF Escaped
<1>9. place = [k \in 0 .. n |-> place[k]]
  BY <1>7
<1> HIDE DEF place
<1>10. place[0] = Escaped(d, rd, first)
  BY <1>8
<1>11. \A k \in 1 .. n : place[k] = Escaped(d, rd, place[k - 1] + 1)
  BY <1>8
<1>12. \A k \in 0 .. n : place[k] \in Nat
  <2> DEFINE T == {k \in 0 .. n : place[k] \in Nat}
  <2>1. 0 \in T
    BY <1>2, <1>10
  <2>2. ASSUME NEW k \in 0 .. n - 1, k \in T PROVE k + 1 \in T
    <3>1. k + 1 \in 1 .. n /\ (k + 1) - 1 = k /\ place[k] + 1 \in Nat
      BY <2>2
    <3> DEFINE o == place[k] + 1
    <3> HIDE DEF o
    <3>2. Escaped(d, rd, o) \in Nat
      BY <3>1, EscapedBounds DEF o
    <3>3. place[k + 1] = Escaped(d, rd, o)
      BY <1>11, <3>1 DEF o
    <3> QED
      BY <3>1, <3>2, <3>3
  <2> HIDE DEF T
  <2>3. 0 .. n \subseteq T
    BY <2>1, <2>2, UpTo
  <2> QED
    BY <2>3 DEF T
<1>13. Places(d, rd, first, n) = place
  BY DEF Places, place
<1>14. place \in [0 .. n -> Nat]
  BY <1>9, <1>12
<1> QED
  BY <1>10, <1>11, <1>13, <1>14 DEF PlaceRuns

(* Places go up, and what they leave out lies inside the file.             *)
LEMMA PlacesBounds ==
  ASSUME NEW d, Mapped(d), NEW rd \in Reader, NEW first \in Nat, NEW n \in Nat,
         NEW k \in 0 .. n
  PROVE  LET place == Places(d, rd, first, n)
         IN  /\ place[k] \in Nat /\ place[k] >= first + k
             /\ place[k] = first + k \/ place[k] <= Len(d) + k
<1> DEFINE place == Places(d, rd, first, n)
           T == {i \in 0 .. n : /\ place[i] >= first + i
                                /\ place[i] = first + i \/ place[i] <= Len(d) + i}
<1>1. /\ place \in [0 .. n -> Nat] /\ place[0] = Escaped(d, rd, first)
      /\ \A i \in 1 .. n : place[i] = Escaped(d, rd, place[i - 1] + 1)
  <2> HIDE DEF place
  <2>1. place \in PlaceRuns(d, rd, first, n)
    BY PlacesRun DEF place
  <2> QED
    BY <2>1 DEF PlaceRuns
<1> HIDE DEF place
<1>2. 0 \in T
  <2>1. \/ place[0] = first
        \/ place[0] = first + 1 /\ first + 1 <= Len(d)
    BY <1>1, EscapedBounds
  <2> QED
    BY <2>1
<1>3. ASSUME NEW i \in 0 .. n - 1, i \in T PROVE i + 1 \in T
  <2>1. i + 1 \in 1 .. n /\ i + 1 \in 0 .. n /\ (i + 1) - 1 = i /\ place[i] \in Nat
        /\ place[i] + 1 \in Nat
    BY <1>1, <1>3
  <2>2. place[i + 1] = Escaped(d, rd, place[i] + 1)
    BY <1>1, <2>1
  <2>3. \/ place[i + 1] = place[i] + 1
        \/ place[i + 1] = place[i] + 2 /\ place[i] + 2 <= Len(d)
    <3> DEFINE o == place[i] + 1
    <3>1. \/ Escaped(d, rd, o) = o
          \/ Escaped(d, rd, o) = o + 1 /\ o + 1 <= Len(d)
      <4> HIDE DEF o
      <4>1. o \in Nat
        BY <2>1 DEF o
      <4> QED
        BY <4>1, EscapedBounds, Zenon
    <3>2. place[i + 1] = Escaped(d, rd, o)
      BY <2>2
    <3> QED
      BY <2>1, <3>1, <3>2
  <2>4. place[i] >= first + i /\ (place[i] = first + i \/ place[i] <= Len(d) + i)
    BY <1>3
  <2>5. Len(d) \in Nat
    BY DEF Mapped
  <2>6. /\ place[i + 1] >= first + (i + 1)
        /\ place[i + 1] = first + (i + 1) \/ place[i + 1] <= Len(d) + (i + 1)
    BY <2>1, <2>3, <2>4, <2>5
  <2> QED
    BY <2>1, <2>6
<1> HIDE DEF T
<1>4. 0 .. n \subseteq T
  BY <1>2, <1>3, UpTo
<1>5. k \in T
  BY <1>4
<1> QED
  BY <1>1, <1>5 DEF T, place
(* A reader whose offset or shift has not been brought into range          *)
Loose == [off : Nat, shift : Nat, end : 0 .. Width - 1, rbsp : BOOLEAN]

LEMMA ReaderLoose ==
  ASSUME NEW rd \in Reader
  PROVE  /\ rd \in Loose /\ rd.off \in 0 .. Width - 1 /\ rd.shift \in 0 .. 7
         /\ rd.end \in 0 .. Width - 1 /\ rd.rbsp \in BOOLEAN
         /\ rd.off \in Nat /\ rd.shift \in Nat /\ rd.end \in Nat
BY WidthAssumption DEF Reader, Loose

LEMMA OffsetWraps ==
  ASSUME NEW o \in Int
  PROVE  /\ o % Width \in 0 .. Width - 1
         /\ o \in 0 .. Width - 1 => o % Width = o
<1>1. Width \in Nat /\ Width > 0
  BY WidthAssumption
<1> QED
  BY <1>1

LEMMA AdvanceType ==
  ASSUME NEW rd \in Loose, NEW n \in Nat
  PROVE  /\ Advance(rd, n) \in Reader
         /\ Advance(rd, n).off = (rd.off + (rd.shift + n) \div 8) % Width
         /\ Advance(rd, n).shift = (rd.shift + n) % 8
         /\ Advance(rd, n).end = rd.end /\ Advance(rd, n).rbsp = rd.rbsp
<1> DEFINE o == (rd.off + (rd.shift + n) \div 8) % Width
           s == (rd.shift + n) % 8
<1>1. rd.off \in Nat /\ rd.shift \in Nat
  BY DEF Loose
<1>2. s \in 0 .. 7 /\ rd.off + (rd.shift + n) \div 8 \in Int
  BY <1>1
<1>3. o \in 0 .. Width - 1
  BY <1>2, OffsetWraps
<1>4. Advance(rd, n) = [rd EXCEPT !.off = o, !.shift = s]
  BY DEF Advance
<1> HIDE DEF o, s
<1>5. /\ Advance(rd, n) \in Reader
      /\ Advance(rd, n).off = o /\ Advance(rd, n).shift = s
      /\ Advance(rd, n).end = rd.end /\ Advance(rd, n).rbsp = rd.rbsp
  BY <1>2, <1>3, <1>4 DEF Loose, Reader
<1> QED
  BY <1>5 DEF o, s

(* How many bits a read may ask for                                        *)
Widths == 1 .. 32

(* The parts of a read: the index of its last byte, the places of its      *)
(* bytes, the bytes, and where it leaves data_offset.                      *)
LastByte(rd, n) == (n + rd.shift - 1) \div 8
PlacesRead(d, rd, n) == Places(d, rd, rd.off, LastByte(rd, n))
BytesRead(d, rd, n) ==
  [k \in 0 .. LastByte(rd, n) |-> ByteAt(d, PlacesRead(d, rd, n)[k])]
BitsRead(d, rd, n) == BitString(BytesRead(d, rd, n), rd.shift, n)
Left(d, rd, n) == PlacesRead(d, rd, n)[LastByte(rd, n)] - LastByte(rd, n)

LEMMA PlacesReadBounds ==
  ASSUME NEW d, Mapped(d), NEW rd \in Reader, NEW n \in Widths
  PROVE  /\ LastByte(rd, n) \in 0 .. 4
         /\ (rd.shift + n - 1) \div 8 <= LastByte(rd, n)
         /\ BytesRead(d, rd, n) \in [0 .. LastByte(rd, n) -> Byte]
         /\ Left(d, rd, n) \in 0 .. Width - 1
         /\ PlacesRead(d, rd, n)[0] \in 0 .. Width - 1
<1> DEFINE last == LastByte(rd, n)
           place == PlacesRead(d, rd, n)
<1>1. /\ rd.shift \in 0 .. 7 /\ rd.off \in Nat /\ rd.off \in 0 .. Width - 1
  BY ReaderLoose
<1>2. last \in 0 .. 4 /\ last \in Nat /\ 0 \in 0 .. last /\ last \in 0 .. last
      /\ (rd.shift + n - 1) \div 8 <= last
  <2>1. last = (n + rd.shift - 1) \div 8 /\ n + rd.shift - 1 = rd.shift + n - 1
        /\ n + rd.shift - 1 \in 0 .. 38
    BY <1>1 DEF LastByte, Widths
  <2> DEFINE x == n + rd.shift - 1
  <2> HIDE DEF x, last
  <2>2. x \div 8 \in 0 .. 4
    BY <2>1 DEF x
  <2>3. last = x \div 8 /\ (rd.shift + n - 1) \div 8 = last
    BY <2>1 DEF x
  <2> QED
    BY <2>2, <2>3
<1>3. place = Places(d, rd, rd.off, last)
  BY DEF PlacesRead
<1> HIDE DEF last, place
<1>4. /\ place[last] \in Nat /\ place[last] >= rd.off + last
      /\ place[last] = rd.off + last \/ place[last] <= Len(d) + last
  BY <1>1, <1>2, <1>3, PlacesBounds
<1>5. /\ place[0] \in Nat /\ place[0] >= rd.off + 0
      /\ place[0] = rd.off + 0 \/ place[0] <= Len(d) + 0
  BY <1>1, <1>2, <1>3, PlacesBounds
<1>6. \A k \in 0 .. last : place[k] \in Nat
  BY <1>1, <1>2, <1>3, PlacesBounds
<1>7. Len(d) \in Nat /\ Len(d) + 1 < Width /\ Width \in Nat
  BY WidthAssumption DEF Mapped
<1>8. place[last] - last \in 0 .. Width - 1 /\ place[0] \in 0 .. Width - 1
  BY <1>1, <1>2, <1>4, <1>5, <1>7
<1>9. BytesRead(d, rd, n) \in [0 .. last -> Byte]
  BY <1>6, ByteAtType DEF BytesRead, place, last
<1>10. Left(d, rd, n) = place[last] - last
  BY DEF Left, place, last
<1> QED
  BY <1>2, <1>8, <1>9, <1>10 DEF last, place

LEMMA BitsReadType ==
  ASSUME NEW d, Mapped(d), NEW rd \in Reader, NEW n \in Widths
  PROVE  /\ BitsRead(d, rd, n) \in Seq(Bit) /\ Len(BitsRead(d, rd, n)) = n
         /\ DOMAIN BitsRead(d, rd, n) = 1 .. n
<1> DEFINE last == LastByte(rd, n)
           byte == BytesRead(d, rd, n)
           from == rd.shift
           bits == BitString(byte, from, n)
<1>1. /\ last \in 0 .. 4 /\ byte \in [0 .. last -> Byte]
      /\ (from + n - 1) \div 8 <= last
  BY PlacesReadBounds, Zenon
<1>2. from \in Nat
  BY ReaderLoose
<1>3. BitsRead(d, rd, n) = bits
  BY DEF BitsRead
<1> HIDE DEF last, byte, from
<1>4. n \in Nat /\ last \in Nat
  BY <1>1 DEF Widths
<1>5. (from + n - 1) \div 8 <= last
  BY <1>1
<1>6. byte \in [0 .. last -> Byte]
  BY <1>1
<1>7. bits \in Seq(Bit) /\ Len(bits) = n /\ DOMAIN bits = 1 .. n
  BY <1>2, <1>4, <1>5, <1>6, BitStringType
<1> QED
  BY <1>3, <1>7

(* What a read returns is a record.                                        *)
Read(rd, bits, out) == [r |-> rd, bits |-> bits, out |-> out]

LEMMA ReadType ==
  ASSUME NEW d, Mapped(d), NEW rd \in Reader, NEW n \in Widths
  PROVE  /\ ReadU(d, rd, n) =
              Read(Advance([rd EXCEPT !.off = Left(d, rd, n)], n), BitsRead(d, rd, n),
                   ReachesEnd(rd, LastByte(rd, n)))
         /\ ReadU(d, rd, n).r \in Reader
         /\ ReadU(d, rd, n).r.end = rd.end /\ ReadU(d, rd, n).r.rbsp = rd.rbsp
         /\ ReadU(d, rd, n).bits = BitsRead(d, rd, n)
         /\ ReadU(d, rd, n).bits \in Seq(Bit) /\ Len(ReadU(d, rd, n).bits) = n
         /\ ReadU(d, rd, n).out \in BOOLEAN
<1> DEFINE o == Left(d, rd, n)
           bare == [rd EXCEPT !.off = o]
           bits == BitsRead(d, rd, n)
           out == ReachesEnd(rd, LastByte(rd, n))
           read == ReadU(d, rd, n)
           to == Advance(bare, n)
<1>1. read = Read(to, bits, out)
  <2> DEFINE inner == ReadBits(d, rd, n, TRUE)
  <2>1. inner.r = bare
    BY DEF ReadBits, Left, PlacesRead, LastByte, MovesOffset
  <2>2. inner.bits = bits
    BY DEF ReadBits, BitsRead, BytesRead, PlacesRead, LastByte
  <2>3. inner.out = out
    BY DEF ReadBits, LastByte, ReachesEnd
  <2>4. inner = Read(inner.r, inner.bits, inner.out)
    BY DEF ReadBits, Read
  <2>5. read = [inner EXCEPT !.r = Advance(inner.r, n)]
    BY DEF ReadU
  <2> HIDE DEF inner, bare, bits, out, read
  <2> QED
    BY <2>1, <2>2, <2>3, <2>4, <2>5 DEF Read
<1>2. bits \in Seq(Bit) /\ Len(bits) = n
  BY BitsReadType, Zenon
<1>3. bare \in Reader /\ bare.end = rd.end /\ bare.rbsp = rd.rbsp
  <2>1. o \in 0 .. Width - 1
    BY PlacesReadBounds, Zenon
  <2> HIDE DEF o
  <2> QED
    BY <2>1 DEF Reader
<1>4. out \in BOOLEAN
  BY DEF ReachesEnd
<1> HIDE DEF bits, out, read, bare
<1>5. bare \in Loose /\ n \in Nat
  BY <1>3, ReaderLoose DEF Widths
<1>6. to \in Reader /\ to.end = bare.end /\ to.rbsp = bare.rbsp
  BY <1>5, AdvanceType
<1> HIDE DEF to
<1>7. read.r = to /\ read.bits = bits /\ read.out = out
  BY <1>1 DEF Read
<1> QED
  BY <1>1, <1>2, <1>3, <1>4, <1>6, <1>7 DEF bits, out, read, bare, to

(* Readers of the same data, escaped or not alike                          *)
Alike(rd, to) == to.end = rd.end /\ to.rbsp = rd.rbsp

LEMMA AlikeThrough ==
  ASSUME NEW r1, NEW r2, NEW r3, Alike(r1, r2), Alike(r2, r3)
  PROVE  Alike(r1, r3)
BY DEF Alike

(* Several reads, one after the other                                      *)
Reads == [r : Reader, bits : Seq(Bit), out : BOOLEAN]

AddRead(d, s, n) ==
  Read(ReadU(d, s.r, n).r, s.bits \o ReadU(d, s.r, n).bits, s.out \/ ReadU(d, s.r, n).out)

LEMMA AddReadType ==
  ASSUME NEW d, Mapped(d), NEW s \in Reads, NEW n \in Widths
  PROVE  /\ AddRead(d, s, n) \in Reads
         /\ Len(AddRead(d, s, n).bits) = Len(s.bits) + n
         /\ Alike(s.r, AddRead(d, s, n).r)
<1> DEFINE rd == s.r
           read == ReadU(d, rd, n)
<1>1. rd \in Reader /\ s.bits \in Seq(Bit) /\ s.out \in BOOLEAN
  BY DEF Reads
<1>2. /\ read.r \in Reader /\ read.bits \in Seq(Bit) /\ Len(read.bits) = n
      /\ read.out \in BOOLEAN /\ read.r.end = rd.end /\ read.r.rbsp = rd.rbsp
  <2> HIDE DEF rd
  <2> QED
    BY <1>1, ReadType
<1>3. AddRead(d, s, n) = Read(read.r, s.bits \o read.bits, s.out \/ read.out)
  BY DEF AddRead
<1> HIDE DEF rd, read
<1> DEFINE bits == s.bits \o read.bits
           out == s.out \/ read.out
<1>4. bits \in Seq(Bit) /\ Len(bits) = Len(s.bits) + n
  BY <1>1, <1>2, Joined
<1>5. out \in BOOLEAN
  BY <1>1, <1>2
<1> HIDE DEF bits, out
<1>6. /\ Read(read.r, bits, out) \in Reads /\ Read(read.r, bits, out).bits = bits
      /\ Read(read.r, bits, out).r = read.r
  BY <1>2, <1>4, <1>5 DEF Read, Reads
<1>7. Alike(rd, read.r)
  BY <1>2, Zenon DEF Alike
<1> QED
  BY <1>2, <1>3, <1>4, <1>6, <1>7 DEF bits, out, rd

ReadRuns(d, rd, ns) ==
  {a \in [0 .. Len(ns) -> Reads] :
     /\ a[0] = Read(rd, <<>>, FALSE)
     /\ \A i \in 1 .. Len(ns) : a[i] = AddRead(d, a[i - 1], ns[i])}

LEMMA ReadAllRun ==
  ASSUME NEW d, Mapped(d), NEW rd \in Reader, NEW ns \in Seq(Widths)
  PROVE  \E a \in ReadRuns(d, rd, ns) : ReadAll(d, rd, ns) = a[Len(ns)]
<1> DEFINE n == Len(ns)
           first == Read(rd, <<>>, FALSE)
           turn == [i \in 1 .. n |-> [s \in Reads |-> AddRead(d, s, ns[i])]]
           Is(f) == f = [i \in 0 .. n |->
                           IF i = 0 THEN [r |-> rd, bits |-> <<>>, out |-> FALSE]
                           ELSE LET s == f[i - 1]
                                    t == ReadU(d, s.r, ns[i])
                                IN  [r |-> t.r, bits |-> s.bits \o t.bits,
                                     out |-> s.out \/ t.out]]
           after == CHOOSE f : Is(f)
<1>1. n \in Nat /\ \A i \in 1 .. n : ns[i] \in Widths
  BY SeqElement
<1>2. first \in Reads
  BY DEF Read, Reads
<1>3. turn \in [1 .. n -> [Reads -> Reads]]
  BY <1>1, AddReadType
<1>4. \A f : Is(f) <=> f = [i \in 0 .. n |-> IF i = 0 THEN first
                                             ELSE AddRead(d, f[i - 1], ns[i])]
  BY Zenon DEF Read, AddRead
<1>5. ReadAll(d, rd, ns) = after[n]
  BY DEF ReadAll, after, n
<1> HIDE DEF n, turn, first, Is
<1>6. PICK f \in Runs(n, Reads, first, turn) : TRUE
  BY <1>1, <1>2, <1>3, LoopRuns
<1>7. f \in [0 .. n -> Reads] /\ f[0] = first /\ \A i \in 1 .. n : f[i] = turn[i][f[i - 1]]
  BY <1>6 DEF Runs
<1>8. ASSUME NEW i \in 1 .. n PROVE f[i] = AddRead(d, f[i - 1], ns[i])
  <2>1. f[i - 1] \in Reads
    BY <1>1, <1>7
  <2> QED
    BY <1>7, <2>1 DEF turn
<1>9. Is(f)
  <2>1. \A i \in 0 .. n : f[i] = IF i = 0 THEN first ELSE AddRead(d, f[i - 1], ns[i])
    BY <1>1, <1>7, <1>8
  <2>2. f = [i \in 0 .. n |-> IF i = 0 THEN first ELSE AddRead(d, f[i - 1], ns[i])]
    BY <1>7, <2>1
  <2> QED
    BY <1>4, <2>2
<1>10. after = [i \in 0 .. n |-> IF i = 0 THEN first ELSE AddRead(d, after[i - 1], ns[i])]
  BY <1>4, <1>9
<1> HIDE DEF after
<1>11. /\ after[0] = first
       /\ \A i \in 1 .. n : after[i] = AddRead(d, after[i - 1], ns[i])
  <2>1. \A i \in 0 .. n : after[i] = IF i = 0 THEN first ELSE AddRead(d, after[i - 1], ns[i])
    BY <1>10
  <2> QED
    BY <1>1, <2>1
<1>12. \A i \in 0 .. n : after[i] \in Reads
  <2> DEFINE T == {i \in 0 .. n : after[i] \in Reads}
  <2>1. 0 \in T
    BY <1>1, <1>2, <1>11
  <2>2. ASSUME NEW i \in 0 .. n - 1, i \in T PROVE i + 1 \in T
    <3>1. i + 1 \in 1 .. n /\ i + 1 \in 0 .. n /\ (i + 1) - 1 = i
      BY <1>1
    <3>2. after[i + 1] = AddRead(d, after[i], ns[i + 1])
      BY <1>11, <3>1
    <3>3. after[i] \in Reads /\ ns[i + 1] \in Widths
      BY <1>1, <2>2, <3>1
    <3>4. AddRead(d, after[i], ns[i + 1]) \in Reads
      BY <3>3, AddReadType
    <3> QED
      BY <3>1, <3>2, <3>4
  <2> HIDE DEF T
  <2>3. 0 .. n \subseteq T
    BY <1>1, <2>1, <2>2, UpTo
  <2> QED
    BY <2>3 DEF T
<1>13. after \in [0 .. n -> Reads]
  BY <1>10, <1>12
<1>14. after \in ReadRuns(d, rd, ns)
  BY <1>11, <1>13 DEF ReadRuns, n, first
<1> QED
  BY <1>5, <1>14 DEF n

LEMMA ReadAllType ==
  ASSUME NEW d, Mapped(d), NEW rd \in Reader, NEW ns \in Seq(Widths)
  PROVE  ReadAll(d, rd, ns) \in Reads
<1>1. PICK a \in ReadRuns(d, rd, ns) : ReadAll(d, rd, ns) = a[Len(ns)]
  BY ReadAllRun
<1>2. a \in [0 .. Len(ns) -> Reads] /\ Len(ns) \in 0 .. Len(ns)
  BY DEF ReadRuns
<1> QED
  BY <1>1, <1>2

TwoOf(d, rd, m, n) == ReadAll(d, rd, <<m, n>>)
ThreeOf(d, rd, m, n, o) == ReadAll(d, rd, <<m, n, o>>)

LEMMA TwoReads ==
  ASSUME NEW d, Mapped(d), NEW rd \in Reader, NEW m \in Widths, NEW n \in Widths
  PROVE  TwoOf(d, rd, m, n) = AddRead(d, AddRead(d, Read(rd, <<>>, FALSE), m), n)
<1> DEFINE ns == <<m, n>>
           first == Read(rd, <<>>, FALSE)
<1>1. ns \in Seq(Widths) /\ Len(ns) = 2 /\ ns[1] = m /\ ns[2] = n
  OBVIOUS
<1> HIDE DEF ns, first
<1>2. PICK a \in ReadRuns(d, rd, ns) : ReadAll(d, rd, ns) = a[Len(ns)]
  BY <1>1, ReadAllRun
<1>3. /\ a[0] = first /\ \A i \in 1 .. 2 : a[i] = AddRead(d, a[i - 1], ns[i])
  BY <1>1 DEF ReadRuns, first
<1>4. a[1] = AddRead(d, first, m) /\ a[2] = AddRead(d, a[1], n)
  <2>1. a[1] = AddRead(d, a[1 - 1], ns[1]) /\ a[2] = AddRead(d, a[2 - 1], ns[2])
    BY <1>3
  <2>2. 1 - 1 = 0 /\ 2 - 1 = 1
    OBVIOUS
  <2> QED
    BY <1>1, <1>3, <2>1, <2>2
<1> QED
  BY <1>1, <1>2, <1>4 DEF ns, first, TwoOf

Threefold(d, rd, m, n, o) ==
  ThreeOf(d, rd, m, n, o) =
    AddRead(d, AddRead(d, AddRead(d, Read(rd, <<>>, FALSE), m), n), o)

LEMMA ThreeReads ==
  ASSUME NEW d, Mapped(d), NEW rd \in Reader,
         NEW m \in Widths, NEW n \in Widths, NEW o \in Widths
  PROVE  Threefold(d, rd, m, n, o)
<1> DEFINE ns == <<m, n, o>>
           first == Read(rd, <<>>, FALSE)
<1>1. ns \in Seq(Widths) /\ Len(ns) = 3 /\ ns[1] = m /\ ns[2] = n /\ ns[3] = o
  OBVIOUS
<1> HIDE DEF ns, first
<1>2. PICK a \in ReadRuns(d, rd, ns) : ReadAll(d, rd, ns) = a[Len(ns)]
  BY <1>1, ReadAllRun
<1>3. /\ a[0] = first /\ \A i \in 1 .. 3 : a[i] = AddRead(d, a[i - 1], ns[i])
  BY <1>1 DEF ReadRuns, first
<1>4. a[1] = AddRead(d, first, m) /\ a[2] = AddRead(d, a[1], n) /\ a[3] = AddRead(d, a[2], o)
  <2>1. /\ a[1] = AddRead(d, a[1 - 1], ns[1]) /\ a[2] = AddRead(d, a[2 - 1], ns[2])
        /\ a[3] = AddRead(d, a[3 - 1], ns[3])
    BY <1>3
  <2>2. 1 - 1 = 0 /\ 2 - 1 = 1 /\ 3 - 1 = 2
    OBVIOUS
  <2> QED
    BY <1>1, <1>3, <2>1, <2>2
<1> QED
  BY <1>1, <1>2, <1>4 DEF ns, first, ThreeOf, Threefold

(* The least of a set of numbers                                           *)
LEMMA MinIsLeast ==
  ASSUME NEW T, T \subseteq Nat, T # {}
  PROVE  Min(T) \in T /\ \A m \in T : Min(T) <= m
<1>1. \E n \in T : \A m \in T : n <= m
  BY LeastNatural
<1> QED
  BY <1>1 DEF Min

LEMMA MaxOfTwo ==
  ASSUME NEW m \in Nat, NEW n \in Nat
  PROVE  Max({m, n}) = IF m < n THEN n ELSE m
<1> DEFINE T == {m, n}
           x == IF m < n THEN n ELSE m
<1>1. x \in T /\ \A y \in T : x >= y
  OBVIOUS
<1>2. \A z \in T : (\A y \in T : z >= y) => z = x
  OBVIOUS
<1> HIDE DEF T, x
<1>3. Max(T) = x
  BY <1>1, <1>2 DEF Max
<1> QED
  BY <1>3 DEF T, x

-----------------------------------------------------------------------------
(***************************************************************************)
(* Zeros.                                                                  *)
(***************************************************************************)
LEMMA LeadingZerosAre ==
  ASSUME NEW bits \in Seq(Bit)
  PROVE  /\ LeadingZeros(bits) \in 0 .. Len(bits)
         /\ \A i \in 1 .. LeadingZeros(bits) : bits[i] = 0
         /\ LeadingZeros(bits) < Len(bits) => bits[LeadingZeros(bits) + 1] = 1
<1> DEFINE n == Len(bits)
           T == {z \in 0 .. n : z < n => bits[z + 1] # 0}
<1>1. n \in Nat /\ n \in T /\ T \subseteq Nat
  OBVIOUS
<1> HIDE DEF T
<1>2. PICK z \in T : \A y \in T : z <= y
  BY <1>1, LeastNatural
<1>3. z \in 0 .. n /\ (z < n => bits[z + 1] # 0)
  BY DEF T
<1>4. \A i \in 1 .. z : bits[i] = 0
  <2> SUFFICES ASSUME NEW i \in 1 .. z, bits[i] # 0 PROVE FALSE
    OBVIOUS
  <2>1. i - 1 \in 0 .. n /\ (i - 1) + 1 = i /\ i - 1 < z
    BY <1>1, <1>3
  <2>2. i - 1 \in T
    BY <2>1 DEF T
  <2> QED
    BY <1>1, <1>2, <1>3, <2>1, <2>2
<1>5. /\ LeadingZeros(bits) \in 0 .. n
      /\ \A i \in 1 .. LeadingZeros(bits) : bits[i] = 0
      /\ LeadingZeros(bits) < n => bits[LeadingZeros(bits) + 1] # 0
  BY <1>3, <1>4 DEF LeadingZeros, n
<1>6. LeadingZeros(bits) < n => LeadingZeros(bits) + 1 \in 1 .. Len(bits)
  BY <1>1, <1>5
<1>7. LeadingZeros(bits) < n => bits[LeadingZeros(bits) + 1] \in Bit
  BY <1>6, SeqElement
<1> QED
  BY <1>5, <1>7 DEF Bit, n

(* They are told from the first bit that is not zero.                      *)
LEMMA FirstOne ==
  ASSUME NEW bits \in Seq(Bit), NEW z \in 0 .. Len(bits),
         \A i \in 1 .. z : bits[i] = 0, z < Len(bits) => bits[z + 1] = 1
  PROVE  LeadingZeros(bits) = z
<1> DEFINE y == LeadingZeros(bits)
<1>1. /\ y \in 0 .. Len(bits) /\ \A i \in 1 .. y : bits[i] = 0
      /\ y < Len(bits) => bits[y + 1] = 1
  BY LeadingZerosAre
<1> HIDE DEF y
<1>2. ~ (y < z)
  <2> SUFFICES ASSUME y < z PROVE FALSE
    OBVIOUS
  <2>1. y + 1 \in 1 .. z /\ y < Len(bits)
    BY <1>1
  <2> QED
    BY <1>1, <2>1
<1>3. ~ (z < y)
  <2> SUFFICES ASSUME z < y PROVE FALSE
    OBVIOUS
  <2>1. z + 1 \in 1 .. y /\ z < Len(bits)
    BY <1>1
  <2> QED
    BY <1>1, <2>1
<1> QED
  BY <1>1, <1>2, <1>3 DEF y

LEMMA LeadOfByte ==
  ASSUME NEW b \in Byte
  PROVE  /\ LeadingZeros(Bits(b)) \in 0 .. 8
         /\ LeadingZeros(Bits(b)) < 8 <=> b # 0
<1> DEFINE bits == Bits(b)
<1>1. bits \in Seq(Bit) /\ Len(bits) = 8
  BY BitsType
<1>2. b = 0 <=> \A i \in 1 .. 8 : bits[i] = 0
  BY ZeroByte
<1> HIDE DEF bits
<1>3. /\ LeadingZeros(bits) \in 0 .. 8 /\ \A i \in 1 .. LeadingZeros(bits) : bits[i] = 0
      /\ LeadingZeros(bits) < 8 => bits[LeadingZeros(bits) + 1] = 1
  BY <1>1, LeadingZerosAre
<1>4. LeadingZeros(bits) < 8 => LeadingZeros(bits) + 1 \in 1 .. 8
  BY <1>3
<1> QED
  BY <1>2, <1>3, <1>4 DEF bits

LEMMA ReachesFrom ==
  ASSUME NEW rd \in Reader, NEW o \in 0 .. Width - 1
  PROVE  ReachesEnd([rd EXCEPT !.off = o], 0) <=> o >= rd.end
<1>1. (o + 0) % Width = o
  BY OffsetWraps, WidthAssumption
<1>2. [rd EXCEPT !.off = o].off = o /\ [rd EXCEPT !.off = o].end = rd.end
  BY DEF Reader
<1> QED
  BY <1>1, <1>2 DEF ReachesEnd

(* Bytes of zeros come to an end.                                          *)
LEMMA SkipStops ==
  ASSUME NEW d, Mapped(d), NEW rd \in Reader
  PROVE  LET place == Places(d, rd, rd.off, rd.end)
         IN  \E k \in 0 .. rd.end : /\ SkipEnds(d, rd, place, k)
                                    /\ \A j \in 0 .. k - 1 : ~SkipEnds(d, rd, place, j)
<1> DEFINE first == rd.off
           end == rd.end
           place == Places(d, rd, first, end)
           From(k) == Start(place, first, k)
           T == {k \in 0 .. end : From(k) >= end}
           U == {k \in 0 .. end : SkipEnds(d, rd, place, k)}
<1>1. first \in 0 .. Width - 1 /\ end \in 0 .. Width - 1 /\ first \in Nat /\ end \in Nat
      /\ Width \in Nat /\ Len(d) \in Nat /\ Len(d) + 3 < Width
  BY ReaderLoose, WidthAssumption DEF Mapped
<1>2. /\ place \in [0 .. end -> Nat] /\ place[0] = Escaped(d, rd, first)
      /\ \A k \in 1 .. end : place[k] = Escaped(d, rd, place[k - 1] + 1)
  <2> HIDE DEF first, end, place
  <2>1. place \in PlaceRuns(d, rd, first, end)
    BY <1>1, PlacesRun DEF place
  <2> QED
    BY <2>1 DEF PlaceRuns
<1>3. \A k \in 0 .. end : place[k] >= first + k
  BY <1>1, PlacesBounds
<1>4. \A k \in 0 .. end : ReachesEnd([rd EXCEPT !.off = From(k)], 0) => k \in U
  BY DEF SkipEnds
<1> HIDE DEF first, end, place, U
<1>5. From(0) = first /\ \A k \in 1 .. end : From(k) = place[k - 1] + 1
  BY <1>1 DEF Start
<1> HIDE DEF From
<1>6. \A k \in 0 .. end : From(k) \in Nat /\ place[k] = Escaped(d, rd, From(k))
  <2> SUFFICES ASSUME NEW k \in 0 .. end
               PROVE  From(k) \in Nat /\ place[k] = Escaped(d, rd, From(k))
    OBVIOUS
  <2>1. CASE k = 0
    BY <1>1, <1>2, <1>5, <2>1
  <2>2. CASE k # 0
    <3>1. k \in 1 .. end /\ k - 1 \in 0 .. end
      BY <1>1, <2>2
    <3>2. From(k) = place[k - 1] + 1 /\ place[k - 1] \in Nat
      BY <1>2, <1>5, <3>1
    <3>3. place[k] = Escaped(d, rd, place[k - 1] + 1)
      BY <1>2, <3>1
    <3> QED
      BY <3>2, <3>3
  <2> QED
    BY <2>1, <2>2
<1>7. end \in T
  <2>1. CASE end = 0
    BY <1>1, <1>5, <2>1
  <2>2. CASE end # 0
    <3>1. end \in 1 .. end /\ end - 1 \in 0 .. end
      BY <1>1, <2>2
    <3>2. From(end) = place[end - 1] + 1 /\ place[end - 1] >= first + (end - 1)
          /\ place[end - 1] \in Nat
      BY <1>2, <1>3, <1>5, <3>1
    <3> QED
      BY <1>1, <3>2
  <2> QED
    BY <2>1, <2>2
<1>8. PICK k \in T : \A j \in T : k <= j
  <2>1. T \subseteq Nat /\ T # {}
    BY <1>1, <1>7
  <2> HIDE DEF T
  <2> QED
    BY <2>1, LeastNatural
<1>9. k \in 0 .. end /\ From(k) >= end /\ From(k) \in Nat
  BY <1>6
<1>10. From(k) < Width
  <2>1. CASE k = 0
    BY <1>1, <1>5, <2>1
  <2>2. CASE k # 0
    <3>1. k \in 1 .. end /\ k - 1 \in 0 .. end /\ k - 1 \in Nat
      BY <1>1, <1>9, <2>2
    <3>2. k - 1 \notin T
      <4>1. ~ (k <= k - 1)
        BY <3>1
      <4> HIDE DEF T
      <4> QED
        BY <1>8, <4>1
    <3> DEFINE o == From(k - 1)
    <3>3. o < end /\ o \in Nat
      BY <1>1, <1>6, <3>1, <3>2
    <3>4. place[k - 1] = Escaped(d, rd, o) /\ From(k) = place[k - 1] + 1
      BY <1>5, <1>6, <3>1
    <3> HIDE DEF o
    <3>5. \/ Escaped(d, rd, o) = o
          \/ Escaped(d, rd, o) = o + 1 /\ o + 1 <= Len(d)
      BY <3>3, EscapedBounds, Zenon
    <3> QED
      BY <1>1, <3>3, <3>4, <3>5
  <2> QED
    BY <2>1, <2>2
<1>11. k \in U
  <2> DEFINE o == From(k)
  <2>1. o \in 0 .. Width - 1 /\ o >= rd.end
    BY <1>1, <1>9, <1>10 DEF end
  <2> HIDE DEF o
  <2>2. ReachesEnd([rd EXCEPT !.off = o], 0)
    BY <2>1, ReachesFrom
  <2> QED
    BY <1>4, <1>9, <2>2 DEF o
<1>12. PICK m \in U : \A j \in U : m <= j
  <2>1. U \subseteq Nat
    BY <1>1 DEF U
  <2> QED
    BY <1>11, <2>1, LeastNatural
<1>13. m \in 0 .. end
  BY DEF U
<1>14. ASSUME NEW j \in 0 .. m - 1 PROVE j \notin U /\ j \in 0 .. end
  BY <1>1, <1>12, <1>13
<1>15. SkipEnds(d, rd, place, m) /\ \A j \in 0 .. m - 1 : ~SkipEnds(d, rd, place, j)
  BY <1>14 DEF U
<1> QED
  BY <1>13, <1>15 DEF place, first, end

Placed(rd, o, s) == [rd EXCEPT !.off = o, !.shift = s]

LEMMA PlacedReader ==
  ASSUME NEW rd \in Reader, NEW o \in Nat, NEW s \in Nat
  PROVE  /\ Placed(rd, o, s) \in Loose
         /\ Placed(rd, o, s).off = o /\ Placed(rd, o, s).shift = s
         /\ Placed(rd, o, s).end = rd.end /\ Placed(rd, o, s).rbsp = rd.rbsp
         /\ o \in 0 .. Width - 1 /\ s \in 0 .. 7 => Placed(rd, o, s) \in Reader
BY DEF Reader, Loose, Placed

Skips == [r : Reader, zeros : 0 .. 255, out : BOOLEAN]

LEMMA SkipZeroBytesType ==
  ASSUME NEW d, Mapped(d), NEW rd \in Reader
  PROVE  LET skip == SkipZeroBytes(d, rd)
         IN  skip \in Skips /\ skip.r.end = rd.end /\ skip.r.rbsp = rd.rbsp
<1> DEFINE place == Places(d, rd, rd.off, rd.end)
           Found(k) == /\ SkipEnds(d, rd, place, k)
                      /\ \A j \in 0 .. k - 1 : ~SkipEnds(d, rd, place, j)
           last == CHOOSE k \in 0 .. rd.end : Found(k)
           lead == LeadAt(d, place, last)
           bare == [rd EXCEPT !.off = place[last], !.shift = lead]
           skip == SkipZeroBytes(d, rd)
<1>1. last \in 0 .. rd.end
  <2>1. \E k \in 0 .. rd.end : Found(k)
    BY SkipStops, Zenon
  <2> HIDE DEF Found
  <2> QED
    BY <2>1, Zenon
<1>2. skip = IF ReachesEnd([rd EXCEPT !.off = Start(place, rd.off, last)], 0)
             THEN [r |-> rd, zeros |-> 0, out |-> TRUE]
             ELSE [r |-> Advance(bare, 1), zeros |-> (8 * last + lead) % 256, out |-> FALSE]
  BY DEF SkipZeroBytes
<1>3. rd.end \in Nat /\ rd.off \in Nat
  BY ReaderLoose
<1>4. place[last] \in Nat
  <2> HIDE DEF last
  <2> QED
    BY <1>1, <1>3, PlacesBounds
<1>5. lead \in 0 .. 8
  <2> DEFINE o == place[last]
  <2>1. lead = LeadingZeros(Bits(ByteAt(d, o)))
    BY DEF LeadAt
  <2>2. o \in Nat
    BY <1>4
  <2> HIDE DEF o, lead
  <2> DEFINE b == ByteAt(d, o)
  <2>3. b \in Byte
    BY <2>2, ByteAtType
  <2> HIDE DEF b
  <2>4. LeadingZeros(Bits(b)) \in 0 .. 8
    BY <2>3, LeadOfByte
  <2> QED
    BY <2>1, <2>4 DEF b
<1> HIDE DEF last, lead, skip, place
<1>6. bare \in Loose /\ bare.end = rd.end /\ bare.rbsp = rd.rbsp
  <2> DEFINE o == place[last]
  <2>1. o \in Nat /\ lead \in Nat
    BY <1>4, <1>5
  <2>2. bare = Placed(rd, o, lead)
    BY DEF Placed
  <2> HIDE DEF o, bare
  <2> QED
    BY <2>1, <2>2, PlacedReader
<1> HIDE DEF bare
<1>7. /\ Advance(bare, 1) \in Reader
      /\ Advance(bare, 1).end = rd.end /\ Advance(bare, 1).rbsp = rd.rbsp
  <2>1. 1 \in Nat
    OBVIOUS
  <2> QED
    BY <1>6, <2>1, AdvanceType, Zenon
<1>8. (8 * last + lead) % 256 \in 0 .. 255
  <2>1. 8 * last + lead \in Int
    BY <1>1, <1>3, <1>5
  <2> QED
    BY <2>1
<1>9. CASE ReachesEnd([rd EXCEPT !.off = Start(place, rd.off, last)], 0)
  BY <1>2, <1>9 DEF skip, Skips
<1>10. CASE ~ReachesEnd([rd EXCEPT !.off = Start(place, rd.off, last)], 0)
  BY <1>2, <1>7, <1>8, <1>10 DEF skip, Skips
<1> QED
  BY <1>9, <1>10

(* A look ahead to the end of the byte                                     *)
Look(d, rd, n) == ReadBits(d, rd, n, FALSE)

LEMMA LookType ==
  ASSUME NEW d, Mapped(d), NEW rd \in Reader, NEW n \in Widths
  PROVE  LET read == Look(d, rd, n)
         IN  /\ read.r \in Reader /\ read.r.shift = rd.shift
             /\ read.r.off = PlacesRead(d, rd, n)[0]
             /\ read.r.end = rd.end /\ read.r.rbsp = rd.rbsp
             /\ read.bits = BitsRead(d, rd, n)
             /\ read.bits \in Seq(Bit) /\ Len(read.bits) = n
<1> DEFINE o == PlacesRead(d, rd, n)[0]
           bits == BitsRead(d, rd, n)
           read == Look(d, rd, n)
           bare == [rd EXCEPT !.off = o]
<1>1. read.r = bare
  BY DEF Look, ReadBits, PlacesRead, LastByte, MovesOffset
<1>2. read.bits = bits
  BY DEF Look, ReadBits, BitsRead, BytesRead, PlacesRead, LastByte
<1>3. bits \in Seq(Bit) /\ Len(bits) = n
  BY BitsReadType, Zenon
<1>4. o \in 0 .. Width - 1
  BY PlacesReadBounds, Zenon
<1> HIDE DEF read, o, bits
<1>5. bare \in Reader /\ bare.shift = rd.shift /\ bare.off = o /\ bare.end = rd.end
      /\ bare.rbsp = rd.rbsp
  BY <1>4 DEF Reader
<1> QED
  BY <1>1, <1>2, <1>3, <1>5 DEF read, o, bits

LEMMA SkipLeadingZerosType ==
  ASSUME NEW d, Mapped(d), NEW rd \in Reader
  PROVE  LET skip == SkipLeadingZeros(d, rd)
         IN  skip \in Skips /\ skip.r.end = rd.end /\ skip.r.rbsp = rd.rbsp
<1> DEFINE n == 8 - rd.shift
           read == Look(d, rd, n)
           lead == LeadingZeros(read.bits)
           next == Advance(read.r, lead)
           rest == SkipZeroBytes(d, next)
           skip == SkipLeadingZeros(d, rd)
<1>1. skip = IF rd.shift = 0 THEN SkipZeroBytes(d, rd)
             ELSE IF lead < n
             THEN [r |-> Advance(read.r, lead + 1), zeros |-> lead, out |-> FALSE]
             ELSE [rest EXCEPT !.zeros = (@ + lead) % 256]
  BY DEF SkipLeadingZeros, Look
<1>2. n \in 1 .. 8 /\ n \in Widths
  BY ReaderLoose DEF Widths
<1>3. /\ read.r \in Reader /\ read.r.end = rd.end /\ read.r.rbsp = rd.rbsp
      /\ read.bits \in Seq(Bit) /\ Len(read.bits) = n
  <2> HIDE DEF n
  <2> QED
    BY <1>2, LookType
<1> HIDE DEF n, read
<1>4. lead \in 0 .. n
  BY <1>3, LeadingZerosAre
<1> HIDE DEF lead
<1>5. read.r \in Loose /\ lead \in Nat /\ lead + 1 \in Nat
  BY <1>2, <1>3, <1>4, ReaderLoose
<1>6. next \in Reader /\ next.end = rd.end /\ next.rbsp = rd.rbsp
  BY <1>3, <1>5, AdvanceType
<1> DEFINE over == Advance(read.r, lead + 1)
<1>7. over \in Reader /\ over.end = rd.end /\ over.rbsp = rd.rbsp
  <2> DEFINE m == lead + 1
  <2>1. m \in Nat
    BY <1>5
  <2> HIDE DEF m
  <2>2. /\ Advance(read.r, m) \in Reader
        /\ Advance(read.r, m).end = rd.end /\ Advance(read.r, m).rbsp = rd.rbsp
    BY <1>3, <1>5, <2>1, AdvanceType
  <2> QED
    BY <2>2 DEF m
<1> HIDE DEF next, over
<1>8. rest \in Skips /\ rest.r.end = rd.end /\ rest.r.rbsp = rd.rbsp
  BY <1>6, SkipZeroBytesType
<1> HIDE DEF skip, rest
<1>9. CASE rd.shift = 0
  <2>1. skip = SkipZeroBytes(d, rd)
    BY <1>1, <1>9
  <2> QED
    BY <2>1, SkipZeroBytesType DEF skip
<1>10. CASE rd.shift # 0 /\ lead < n
  <2>1. skip = [r |-> over, zeros |-> lead, out |-> FALSE]
    BY <1>1, <1>10 DEF over
  <2> QED
    BY <1>2, <1>4, <1>7, <2>1 DEF skip, Skips
<1>11. CASE rd.shift # 0 /\ ~ (lead < n)
  <2>1. skip = [rest EXCEPT !.zeros = (@ + lead) % 256]
    BY <1>1, <1>11
  <2> DEFINE z == (rest.zeros + lead) % 256
  <2>2. z \in 0 .. 255
    <3>1. rest.zeros + lead \in Int
      BY <1>2, <1>4, <1>8 DEF Skips
    <3> QED
      BY <3>1
  <2>3. skip = [rest EXCEPT !.zeros = z]
    BY <2>1
  <2> HIDE DEF z
  <2>4. skip \in Skips /\ skip.r = rest.r
    BY <1>8, <2>2, <2>3 DEF Skips
  <2> QED
    BY <1>8, <2>4 DEF skip
<1> QED
  BY <1>9, <1>10, <1>11

LEMMA ZerosType ==
  ASSUME NEW n \in Nat
  PROVE  /\ Zeros(n) \in Seq(Bit) /\ Len(Zeros(n)) = n
         /\ \A i \in 1 .. n : Zeros(n)[i] = 0
BY DEF Zeros, Bit

(* A code: its zeros, a one and as many bits as there are zeros            *)
LEMMA ReadUeType ==
  ASSUME NEW d, Mapped(d), NEW rd \in Reader
  PROVE  LET prefix == SkipLeadingZeros(d, rd)
             code == ReadUe(d, rd)
         IN  /\ code.r \in Reader /\ code.r.end = rd.end /\ code.r.rbsp = rd.rbsp
             /\ code.bits \in Seq(Bit)
             /\ code.out \in BOOLEAN /\ code.bad \in BOOLEAN
             /\ IF prefix.zeros \in 1 .. 31
                THEN /\ code.r = ReadU(d, prefix.r, prefix.zeros).r
                     /\ code.bits = Zeros(prefix.zeros) \o <<1>>
                                      \o ReadU(d, prefix.r, prefix.zeros).bits
                     /\ code.out <=> \/ prefix.out
                                     \/ ReadU(d, prefix.r, prefix.zeros).out
                ELSE /\ code.r = prefix.r
                     /\ code.bits = Zeros(prefix.zeros) \o <<1>> \o <<>>
                     /\ code.out <=> prefix.out
             /\ code.bad <=> ~prefix.out /\ prefix.zeros > 31
<1> DEFINE prefix == SkipLeadingZeros(d, rd)
           z == prefix.zeros
           from == prefix.r
           read == ReadU(d, from, z)
           suffix == IF z \in 1 .. 31 THEN read
                     ELSE [r |-> from, bits |-> <<>>, out |-> FALSE]
           code == ReadUe(d, rd)
           start == Zeros(z) \o <<1>>
           bits == start \o suffix.bits
           bad == ~prefix.out /\ z > 31
           out == prefix.out \/ suffix.out
<1>1. code = [r |-> suffix.r, bits |-> bits, bad |-> bad, out |-> out]
  BY DEF ReadUe
<1>2. prefix \in Skips /\ from.end = rd.end /\ from.rbsp = rd.rbsp
  <2> HIDE DEF prefix
  <2>1. prefix \in Skips /\ prefix.r.end = rd.end /\ prefix.r.rbsp = rd.rbsp
    BY SkipLeadingZerosType DEF prefix
  <2> QED
    BY <2>1
<1> HIDE DEF prefix
<1>3. from \in Reader /\ z \in 0 .. 255 /\ prefix.out \in BOOLEAN
  BY <1>2 DEF Skips
<1> HIDE DEF from, z
<1>4. z \in 1 .. 31 =>
        /\ read.r \in Reader /\ read.r.end = rd.end /\ read.r.rbsp = rd.rbsp
        /\ read.bits \in Seq(Bit) /\ read.out \in BOOLEAN
  <2> SUFFICES ASSUME z \in 1 .. 31
               PROVE  /\ read.r \in Reader /\ read.r.end = rd.end /\ read.r.rbsp = rd.rbsp
                      /\ read.bits \in Seq(Bit) /\ read.out \in BOOLEAN
    OBVIOUS
  <2>1. z \in Widths
    BY DEF Widths
  <2> QED
    BY <1>2, <1>3, <2>1, ReadType
<1> HIDE DEF read
<1>5. IF z \in 1 .. 31 THEN suffix = read
      ELSE suffix.r = from /\ suffix.bits = <<>> /\ suffix.out = FALSE
  OBVIOUS
<1> HIDE DEF suffix
<1>6. /\ suffix.r \in Reader /\ suffix.r.end = rd.end /\ suffix.r.rbsp = rd.rbsp
      /\ suffix.bits \in Seq(Bit) /\ suffix.out \in BOOLEAN
  <2>1. CASE z \in 1 .. 31
    <3>1. suffix = read
      BY <1>5, <2>1
    <3>2. /\ read.r \in Reader /\ read.r.end = rd.end /\ read.r.rbsp = rd.rbsp
          /\ read.bits \in Seq(Bit) /\ read.out \in BOOLEAN
      BY <1>4, <2>1, Zenon
    <3> QED
      BY <3>1, <3>2, Zenon
  <2>2. CASE z \notin 1 .. 31
    <3>1. suffix.r = from /\ suffix.bits = <<>>
      BY <1>5, <2>2, Zenon
    <3>2. suffix.out \in BOOLEAN
      BY <1>5, <2>2, Zenon
    <3>3. suffix.bits \in Seq(Bit)
      BY <3>1
    <3> QED
      BY <1>2, <1>3, <3>1, <3>2, <3>3, Zenon
  <2> QED
    BY <2>1, <2>2
<1>7. start \in Seq(Bit)
  <2>1. z \in Nat
    BY <1>3
  <2>2. Zeros(z) \in Seq(Bit) /\ <<1>> \in Seq(Bit)
    BY <2>1, ZerosType DEF Bit
  <2> QED
    BY <2>2, Joined
<1> HIDE DEF start
<1>8. bits \in Seq(Bit)
  BY <1>6, <1>7, Joined
<1>9. bad \in BOOLEAN /\ out \in BOOLEAN
  BY <1>3, <1>6
<1> HIDE DEF code, bits, bad, out
<1>10. code.r = suffix.r /\ code.bits = bits /\ code.bad = bad /\ code.out = out
  BY <1>1
<1>11. /\ code.r \in Reader /\ code.r.end = rd.end /\ code.r.rbsp = rd.rbsp
       /\ code.bits \in Seq(Bit)
       /\ code.out \in BOOLEAN /\ code.bad \in BOOLEAN
  BY <1>6, <1>8, <1>9, <1>10
<1>12. code.bad <=> ~prefix.out /\ z > 31
  BY <1>10 DEF bad
<1>13. CASE z \in 1 .. 31
  <2>1. /\ code.r = read.r /\ code.bits = start \o read.bits
        /\ code.out <=> (prefix.out \/ read.out)
    BY <1>5, <1>10, <1>13 DEF bits, out
  <2> QED
    BY <1>11, <1>12, <1>13, <2>1 DEF code, prefix, z, from, read, start
<1>14. CASE z \notin 1 .. 31
  <2>1. /\ code.r = from /\ code.bits = start \o <<>>
        /\ code.out <=> prefix.out
    BY <1>5, <1>10, <1>14 DEF bits, out
  <2> QED
    BY <1>11, <1>12, <1>14, <2>1 DEF code, prefix, z, from, start
<1> QED
  BY <1>13, <1>14

LEMMA ReadAlignType ==
  ASSUME NEW d, Mapped(d), NEW rd \in Reader
  PROVE  LET align == ReadAlign(d, rd)
         IN  /\ align.r \in Reader
             /\ align.r.off = (rd.off + InByte(rd.shift)) % Width /\ align.r.shift = 0
             /\ align.r.end = rd.end /\ align.r.rbsp = rd.rbsp
             /\ align.bits = SubSeq(Bits(ByteAt(d, rd.off)), 1 + rd.shift,
                                    8 * InByte(rd.shift))
             /\ align.out <=> rd.shift > 0 /\ ReachesEnd(rd, 0)
             /\ align.out \in BOOLEAN
<1> DEFINE o == (rd.off + InByte(rd.shift)) % Width
           align == ReadAlign(d, rd)
           bits == SubSeq(Bits(ByteAt(d, rd.off)), 1 + rd.shift, 8 * InByte(rd.shift))
           out == rd.shift > 0 /\ ReachesEnd(rd, 0)
<1>1. align = [r |-> [rd EXCEPT !.off = o, !.shift = 0], bits |-> bits, out |-> out]
  BY DEF ReadAlign
<1>2. o \in 0 .. Width - 1
  <2>1. rd.off + InByte(rd.shift) \in Int
    BY ReaderLoose DEF InByte
  <2> QED
    BY <2>1, OffsetWraps
<1>3. out \in BOOLEAN
  BY DEF ReachesEnd
<1> HIDE DEF o, align, bits, out
<1>4. align.r = Placed(rd, o, 0) /\ align.bits = bits /\ align.out = out
  BY <1>1 DEF Placed
<1>5. o \in Nat /\ 0 \in Nat /\ 0 \in 0 .. 7
  BY <1>2, WidthAssumption
<1>6. /\ align.r \in Reader /\ align.r.off = o /\ align.r.shift = 0
      /\ align.r.end = rd.end /\ align.r.rbsp = rd.rbsp
  BY <1>2, <1>4, <1>5, PlacedReader
<1> QED
  BY <1>3, <1>4, <1>6 DEF o, align, bits, out

-----------------------------------------------------------------------------
(***************************************************************************)
(* What more_rbsp_data looks at.                                           *)
(***************************************************************************)
Switched(rd, on) == [rd EXCEPT !.rbsp = on]

LEMMA SwitchedReader ==
  ASSUME NEW rd \in Reader
  PROVE  /\ Switched(rd, TRUE) \in Reader /\ Switched(rd, FALSE) \in Reader
         /\ Switched(rd, TRUE).off = rd.off /\ Switched(rd, FALSE).off = rd.off
         /\ Switched(rd, TRUE).shift = rd.shift /\ Switched(rd, FALSE).shift = rd.shift
         /\ Switched(rd, TRUE).end = rd.end /\ Switched(rd, FALSE).end = rd.end
         /\ Switched(rd, TRUE).rbsp /\ ~Switched(rd, FALSE).rbsp
BY DEF Switched, Reader

LEMMA TrailingZerosEnd ==
  ASSUME NEW rd \in Reader
  PROVE  LET off == TrailingZeros(rd).off
         IN  /\ off \in 0 .. Width - 1 /\ off \in Nat /\ off >= rd.off
             /\ \A o \in rd.off .. rd.end :
                  EndOfUnit(rd, o) \/ ByteAt(data, o) # 0 => off <= o
             /\ off \in rd.off .. rd.end =>
                  EndOfUnit(rd, off) \/ ByteAt(data, off) # 0 \/ off = rd.end
             /\ off \notin rd.off .. rd.end => off = rd.off /\ off > rd.end
             /\ TrailingZeros(rd).is =
                  IF ~EndOfUnit(rd, off) THEN "more"
                  ELSE IF off < rd.end /\ delim /\ ReachesEnd([rd EXCEPT !.off = off], 3)
                  THEN "out"
                  ELSE "end"
<1> DEFINE first == rd.off
           end == rd.end
           Stops(o) == EndOfUnit(rd, o) \/ ByteAt(data, o) # 0
           top == Max({first, end})
           T == {o \in first .. end : Stops(o)} \union {top}
           off == TrailingZeros(rd).off
<1>1. first \in 0 .. Width - 1 /\ end \in 0 .. Width - 1 /\ first \in Nat /\ end \in Nat
      /\ Width \in Nat
  BY ReaderLoose, WidthAssumption
<1>2. off = Min(T)
  BY DEF TrailingZeros
<1>3. TrailingZeros(rd).is =
        IF ~EndOfUnit(rd, off) THEN "more"
        ELSE IF off < rd.end /\ delim /\ ReachesEnd([rd EXCEPT !.off = off], 3)
        THEN "out"
        ELSE "end"
  BY DEF TrailingZeros
<1> HIDE DEF first, end, off, Stops
<1>4. top = IF first < end THEN end ELSE first
  BY <1>1, MaxOfTwo
<1> HIDE DEF top
<1>5. T \subseteq 0 .. Width - 1 /\ T \subseteq Nat /\ T # {}
  BY <1>1, <1>4
<1>6. Min(T) \in T /\ \A o \in T : Min(T) <= o
  <2> HIDE DEF T
  <2> QED
    BY <1>5, MinIsLeast
<1>7. off \in 0 .. Width - 1 /\ off \in Nat /\ off >= first
  BY <1>1, <1>2, <1>4, <1>5, <1>6
<1>8. \A o \in first .. end : Stops(o) => off <= o
  BY <1>2, <1>6
<1>9. /\ off \in first .. end => Stops(off) \/ off = end
      /\ off \notin first .. end => off = first /\ off > end
  BY <1>1, <1>2, <1>4, <1>6
<1> QED
  BY <1>3, <1>7, <1>8, <1>9 DEF off, first, end, Stops

LEMMA MoreDataType ==
  ASSUME Mapped(data), NEW rd \in Reader
  PROVE  LET more == MoreData(rd)
         IN  more.r \in Reader /\ more.r.end = rd.end
<1> DEFINE stop == ReadU(data, rd, 1)
           bare == Switched(stop.r, FALSE)
           align == ReadAlign(data, bare)
           rest == TrailingZeros(align.r)
           over == [align.r EXCEPT !.off = rest.off]
           more == MoreData(rd)
<1>1. \/ more = [is |-> "out", r |-> rd]
      \/ more = [is |-> rest.is, r |-> over]
      \/ more = [is |-> "more", r |-> Switched(rd, TRUE)]
  BY DEF MoreData, Switched
<1>2. stop.r \in Reader /\ stop.r.end = rd.end
  <2>1. 1 \in Widths
    BY DEF Widths
  <2> QED
    BY <2>1, ReadType, Zenon
<1> HIDE DEF stop
<1>3. bare \in Reader /\ bare.end = rd.end
  <2> DEFINE sr == stop.r
  <2>1. sr \in Reader /\ sr.end = rd.end
    BY <1>2
  <2> HIDE DEF sr
  <2>2. Switched(sr, FALSE) \in Reader /\ Switched(sr, FALSE).end = sr.end
    BY <2>1, SwitchedReader, Zenon
  <2> QED
    BY <2>1, <2>2 DEF sr
<1> HIDE DEF bare
<1>4. align.r \in Reader /\ align.r.end = rd.end
  BY <1>3, ReadAlignType
<1> HIDE DEF align
<1>5. rest.off \in 0 .. Width - 1
  <2> DEFINE ar == align.r
  <2> HIDE DEF ar
  <2>1. ar \in Reader
    BY <1>4 DEF ar
  <2>2. TrailingZeros(ar).off \in 0 .. Width - 1
    BY <2>1, TrailingZerosEnd
  <2> QED
    BY <2>2 DEF ar
<1> HIDE DEF rest
<1>6. over \in Reader /\ over.end = rd.end
  BY <1>4, <1>5 DEF Reader
<1>7. Switched(rd, TRUE) \in Reader /\ Switched(rd, TRUE).end = rd.end
  BY SwitchedReader
<1> DEFINE on == Switched(rd, TRUE)
<1>8. on \in Reader /\ on.end = rd.end
  BY <1>7
<1>9. \/ more = [is |-> "out", r |-> rd]
      \/ more = [is |-> rest.is, r |-> over]
      \/ more = [is |-> "more", r |-> on]
  BY <1>1
<1> HIDE DEF more, over, on
<1>10. more.r \in {rd, over, on}
  BY <1>9
<1>11. more.r \in Reader /\ more.r.end = rd.end
  BY <1>6, <1>8, <1>10
<1> QED
  BY <1>11 DEF more

-----------------------------------------------------------------------------
(***************************************************************************)
(* Types.                                                                  *)
(***************************************************************************)
(* Two words, and the byte that starts a unit                              *)
LEMMA NoReads ==
  ASSUME NEW rd \in Reader
  PROVE  LET first == Read(rd, <<>>, FALSE)
         IN  first \in Reads /\ first.r = rd /\ first.bits = <<>> /\ Len(first.bits) = 0
             /\ Alike(rd, first.r)
<1> DEFINE first == Read(rd, <<>>, FALSE)
<1>1. first \in Reads /\ first.r = rd /\ first.bits = <<>>
  BY DEF Read, Reads
<1> HIDE DEF first
<1>2. Alike(rd, first.r)
  BY <1>1, Zenon DEF Alike
<1>3. Len(first.bits) = 0
  BY <1>1
<1> QED
  BY <1>1, <1>2, <1>3 DEF first

LEMMA TwoReadsType ==
  ASSUME NEW d, Mapped(d), NEW rd \in Reader, NEW m \in Widths, NEW n \in Widths
  PROVE  LET head == TwoOf(d, rd, m, n)
         IN  head \in Reads /\ Alike(rd, head.r) /\ Len(head.bits) = m + n
<1> DEFINE first == Read(rd, <<>>, FALSE)
           one == AddRead(d, first, m)
           two == AddRead(d, one, n)
           head == TwoOf(d, rd, m, n)
<1>1. head = two
  BY TwoReads, Zenon
<1>2. first \in Reads /\ Alike(rd, first.r) /\ Len(first.bits) = 0
  BY NoReads
<1> HIDE DEF head, first
<1>3. one \in Reads /\ Alike(first.r, one.r) /\ Len(one.bits) = 0 + m
  BY <1>2, AddReadType
<1> HIDE DEF one
<1>4. two \in Reads /\ Alike(one.r, two.r) /\ Len(two.bits) = Len(one.bits) + n
  BY <1>3, AddReadType
<1> HIDE DEF two
<1>5. Alike(rd, two.r)
  BY <1>2, <1>3, <1>4, AlikeThrough
<1> QED
  BY <1>1, <1>3, <1>4, <1>5 DEF head, Widths

LEMMA ThreeReadsType ==
  ASSUME NEW d, Mapped(d), NEW rd \in Reader,
         NEW m \in Widths, NEW n \in Widths, NEW o \in Widths
  PROVE  LET head == ThreeOf(d, rd, m, n, o)
         IN  head \in Reads /\ Alike(rd, head.r) /\ Len(head.bits) = m + n + o
<1> DEFINE first == Read(rd, <<>>, FALSE)
           one == AddRead(d, first, m)
           two == AddRead(d, one, n)
           three == AddRead(d, two, o)
           head == ThreeOf(d, rd, m, n, o)
<1>1. head = three
  <2>1. Threefold(d, rd, m, n, o)
    BY ThreeReads, Zenon
  <2> QED
    BY <2>1, Zenon DEF Threefold
<1>2. first \in Reads /\ Alike(rd, first.r) /\ Len(first.bits) = 0
  BY NoReads
<1> HIDE DEF head, first
<1>3. one \in Reads /\ Alike(first.r, one.r) /\ Len(one.bits) = 0 + m
  BY <1>2, AddReadType
<1> HIDE DEF one
<1>4. two \in Reads /\ Alike(one.r, two.r) /\ Len(two.bits) = Len(one.bits) + n
  BY <1>3, AddReadType
<1> HIDE DEF two
<1>5. three \in Reads /\ Alike(two.r, three.r) /\ Len(three.bits) = Len(two.bits) + o
  BY <1>4, AddReadType
<1> HIDE DEF three
<1>6. Alike(rd, three.r)
  BY <1>2, <1>3, <1>4, <1>5, AlikeThrough
<1> QED
  BY <1>1, <1>3, <1>4, <1>5, <1>6 DEF head, Widths

LEMMA WordsType ==
  ASSUME NEW d, Mapped(d), NEW rd \in Reader
  PROVE  LET head == TwoOf(d, rd, 32, 32)
         IN  /\ head \in Reads /\ Alike(rd, head.r)
             /\ head.bits \in Seq(Bit) /\ Len(head.bits) = 64
             /\ Word(head.bits, 1) = SubSeq(head.bits, 1, 32)
             /\ Word(head.bits, 2) = SubSeq(head.bits, 33, 64)
             /\ Word(head.bits, 1) \in Seq(Bit) /\ Word(head.bits, 2) \in Seq(Bit)
<1> DEFINE m == 32
           head == TwoOf(d, rd, m, m)
           bits == head.bits
<1>1. m \in Widths /\ m + m = 64
  BY DEF Widths
<1>2. head = TwoOf(d, rd, 32, 32)
  OBVIOUS
<1> HIDE DEF m
<1>3. head \in Reads /\ Alike(rd, head.r) /\ Len(head.bits) = m + m
  BY <1>1, TwoReadsType
<1> HIDE DEF head
<1>4. bits \in Seq(Bit) /\ Len(bits) = 64
  BY <1>1, <1>3 DEF Reads
<1> HIDE DEF bits
<1>5. SubSeq(bits, 1, 32) \in Seq(Bit) /\ SubSeq(bits, 33, 64) \in Seq(Bit)
  <2>1. /\ 1 \in 1 .. Len(bits) + 1 /\ 32 \in 1 - 1 .. Len(bits)
        /\ 33 \in 1 .. Len(bits) + 1 /\ 64 \in 33 - 1 .. Len(bits)
    BY <1>4
  <2> QED
    BY <1>4, <2>1, Part, Zenon
<1>6. 32 * 1 - 31 = 1 /\ 32 * 1 = 32 /\ 32 * 2 - 31 = 33 /\ 32 * 2 = 64
  OBVIOUS
<1>7. Word(bits, 1) = SubSeq(bits, 1, 32) /\ Word(bits, 2) = SubSeq(bits, 33, 64)
  BY <1>6, Zenon DEF Word
<1>8. /\ head \in Reads /\ Alike(rd, head.r)
      /\ head.bits \in Seq(Bit) /\ Len(head.bits) = 64
      /\ Word(head.bits, 1) = SubSeq(head.bits, 1, 32)
      /\ Word(head.bits, 2) = SubSeq(head.bits, 33, 64)
      /\ Word(head.bits, 1) \in Seq(Bit) /\ Word(head.bits, 2) \in Seq(Bit)
  BY <1>3, <1>4, <1>5, <1>7 DEF bits
<1> QED
  BY <1>2, <1>8, Zenon

LEMMA UnitByteType ==
  ASSUME NEW d, Mapped(d), NEW rd \in Reader
  PROVE  LET head == ThreeOf(d, rd, 1, 2, 5)
         IN  /\ head \in Reads /\ Alike(rd, head.r)
             /\ head.bits \in Seq(Bit) /\ Len(head.bits) = 8 /\ head.bits[1] \in Bit
             /\ Number(SubSeq(head.bits, 4, 8)) \in 0 .. 31
<1> DEFINE m == 1
           n == 2
           o == 5
           head == ThreeOf(d, rd, m, n, o)
           bits == head.bits
<1>1. m \in Widths /\ n \in Widths /\ o \in Widths /\ m + n + o = 8
  BY DEF Widths
<1>2. head = ThreeOf(d, rd, 1, 2, 5)
  OBVIOUS
<1> HIDE DEF m, n, o
<1>3. head \in Reads /\ Alike(rd, head.r) /\ Len(head.bits) = m + n + o
  BY <1>1, ThreeReadsType
<1> HIDE DEF head
<1>4. bits \in Seq(Bit) /\ Len(bits) = 8
  BY <1>1, <1>3 DEF Reads
<1> HIDE DEF bits
<1>5. bits[1] \in Bit
  <2>1. 1 \in 1 .. Len(bits)
    BY <1>4
  <2> QED
    BY <1>4, <2>1, SeqElement, Zenon
<1>6. SubSeq(bits, 4, 8) \in Seq(Bit) /\ Len(SubSeq(bits, 4, 8)) = 5
  <2>1. 4 \in 1 .. Len(bits) + 1 /\ 8 \in 4 - 1 .. Len(bits) /\ 8 - 4 + 1 = 5
    BY <1>4
  <2> QED
    BY <1>4, <2>1, Part, Zenon
<1>7. Number(SubSeq(bits, 4, 8)) \in 0 .. 31
  BY <1>6, FiveBits, Zenon
<1>8. /\ head \in Reads /\ Alike(rd, head.r)
      /\ head.bits \in Seq(Bit) /\ Len(head.bits) = 8 /\ head.bits[1] \in Bit
      /\ Number(SubSeq(head.bits, 4, 8)) \in 0 .. 31
  BY <1>3, <1>4, <1>5, <1>7 DEF bits
<1> QED
  BY <1>2, <1>8, Zenon

LEMMA FileMapped ==
  ASSUME TypeOK
  PROVE  /\ Mapped(data) /\ r \in Reader /\ Len(data) \in Nat
         /\ Len(data) \in 0 .. Width - 1
BY WidthAssumption DEF TypeOK, FileType, Mapped, data, StartCodeSz

LEMMA StartCodeIs ==
  ASSUME NEW d, NEW o
  PROVE  StartCode(d, o) \in {0, 3, 4}
BY DEF StartCode

LEMMA SeekType ==
  ASSUME TypeOK
  PROVE  LET stops == {o \in r.off .. r.end :
                         ReachesEnd([r EXCEPT !.off = o], 3) \/ StartCode(data, o) > 0}
         IN  /\ Min(stops \union {r.end}) \in 0 .. Width - 1
             /\ Min(stops \union {r.end}) \in stops \union {r.end}
             /\ \A o \in stops \union {r.end} : Min(stops \union {r.end}) <= o
<1> DEFINE stops == {o \in r.off .. r.end :
                       ReachesEnd([r EXCEPT !.off = o], 3) \/ StartCode(data, o) > 0}
           T == stops \union {r.end}
<1>1. /\ r.off \in 0 .. Width - 1 /\ r.end \in 0 .. Width - 1 /\ Width \in Nat
  BY ReaderLoose, WidthAssumption DEF TypeOK
<1>2. T \subseteq 0 .. Width - 1 /\ T \subseteq Nat /\ T # {}
  BY <1>1
<1> HIDE DEF T
<1>3. Min(T) \in T /\ \A o \in T : Min(T) <= o
  BY <1>2, MinIsLeast
<1>4. Min(T) \in 0 .. Width - 1
  BY <1>2, <1>3
<1> QED
  BY <1>3, <1>4 DEF T

LEMMA ProbeType ==
  ASSUME TypeOK, Probe
  PROVE  TypeOK'
<1> DEFINE head == TwoOf(data, r, 32, 32)
           m == Min({FtypWords(Number(Word(head.bits, 1))), r.end \div 4})
           ns == [i \in 1 .. m |-> 32]
           rest == ReadAll(data, head.r, ns)
<1>0. UNCHANGED track
  BY Zenon DEF Probe
<1>1. Mapped(data) /\ r \in Reader
  BY FileMapped
<1>2. head \in Reads /\ Word(head.bits, 1) \in Seq(Bit)
  BY <1>1, WordsType
<1>3. \/ DataEnds
      \/ /\ r' = [r EXCEPT !.off = 0, !.shift = 0] /\ delim' = TRUE /\ pc' = "seek"
         /\ UNCHANGED <<file, size, origEnd, prevOff, nalSize, unitVars, seen, got>>
      \/ /\ r' = rest.r /\ pc' = "atom"
         /\ UNCHANGED <<file, atomVars, unitVars, seen, got>>
  BY Zenon DEF Probe, TwoOf
<1> HIDE DEF head
<1>4. m \in Nat
  <2> DEFINE x == Number(Word(head.bits, 1))
             words == FtypWords(x)
  <2>1. x \in Nat /\ x \in Int
    BY <1>2, NumberType, WidthAssumption
  <2> HIDE DEF x
  <2>2. words \in Nat
    <3>1. (x \div 4) - 4 \in Int
      BY <2>1
    <3> DEFINE y == (x \div 4) - 4
    <3> HIDE DEF y
    <3>2. y % Width \in 0 .. Width - 1
      BY <3>1, OffsetWraps DEF y
    <3> QED
      BY <3>2, WidthAssumption DEF FtypWords, y
  <2>3. r.end \div 4 \in Nat
    BY <1>1, ReaderLoose
  <2> DEFINE T == {words, r.end \div 4}
  <2>4. T \subseteq Nat /\ T # {}
    BY <2>2, <2>3
  <2> HIDE DEF T
  <2>5. Min(T) \in Nat
    BY <2>4, MinIsLeast
  <2> QED
    BY <2>5 DEF T, x
<1> HIDE DEF m
<1>5. ns \in Seq(Widths)
  <2>1. ns \in [1 .. m -> Widths]
    BY <1>4 DEF Widths
  <2> HIDE DEF ns
  <2> QED
    BY <1>4, <2>1, FiniteSeq
<1> HIDE DEF ns
<1>6. rest.r \in Reader
  <2>1. head.r \in Reader
    BY <1>2 DEF Reads
  <2> DEFINE hr == head.r
  <2> HIDE DEF hr
  <2>2. ReadAll(data, hr, ns) \in Reads
    BY <1>1, <1>5, <2>1, ReadAllType DEF hr
  <2> QED
    BY <2>2 DEF Reads, hr
<1> HIDE DEF rest
<1>7. [r EXCEPT !.off = 0, !.shift = 0] \in Reader
  <2>1. 0 \in Nat /\ 0 \in 0 .. Width - 1 /\ 0 \in 0 .. 7
    BY WidthAssumption
  <2>2. Placed(r, 0, 0) \in Reader
    BY <1>1, <2>1, PlacedReader
  <2> QED
    BY <2>2 DEF Placed
<1>8. CASE DataEnds
  BY <1>0, <1>8 DEF DataEnds, TypeOK, Loops, Ends, atomVars, unitVars, track
<1>9. CASE /\ r' = [r EXCEPT !.off = 0, !.shift = 0] /\ delim' = TRUE /\ pc' = "seek"
           /\ UNCHANGED <<file, size, origEnd, prevOff, nalSize, unitVars, seen, got>>
  <2> DEFINE to == [r EXCEPT !.off = 0, !.shift = 0]
  <2>1. to \in Reader /\ r' = to
    BY <1>7, <1>9
  <2> HIDE DEF to
  <2> QED
    BY <1>0, <1>9, <2>1 DEF TypeOK, Loops, Ends, atomVars, unitVars, track
<1>10. CASE /\ r' = rest.r /\ pc' = "atom"
            /\ UNCHANGED <<file, atomVars, unitVars, seen, got>>
  BY <1>0, <1>6, <1>10 DEF TypeOK, Loops, Ends, atomVars, unitVars, track
<1> QED
  BY <1>3, <1>8, <1>9, <1>10

LEMMA AtomType ==
  ASSUME TypeOK, Atom
  PROVE  TypeOK'
<1> DEFINE head == TwoOf(data, r, 32, 32)
           left == Number(Word(head.bits, 1)) - 8
<1>0. UNCHANGED track
  BY Zenon DEF Atom
<1>1. Mapped(data) /\ r \in Reader
  BY FileMapped
<1>2. head \in Reads /\ Word(head.bits, 1) \in Seq(Bit)
  BY <1>1, WordsType
<1>3. \/ DataEnds
      \/ /\ size' = left
         /\ \/ left < 0 /\ pc' = "assert" /\ r' = head.r /\ UNCHANGED origEnd
            \/ left >= 0 /\ pc' = "mdat" /\ r' = head.r /\ origEnd' = r.end
            \/ /\ left >= 0 /\ r' = [head.r EXCEPT !.off = (@ + left) % Width]
               /\ UNCHANGED <<pc, origEnd>>
         /\ UNCHANGED <<file, delim, prevOff, nalSize, unitVars, seen, got>>
  BY Zenon DEF Atom, TwoOf
<1> HIDE DEF head
<1>4. left \in Int
  BY <1>2, NumberType, WidthAssumption
<1>5. head.r \in Reader /\ r.end \in 0 .. Width - 1
  BY <1>1, <1>2, ReaderLoose DEF Reads
<1> HIDE DEF left
<1> DEFINE over == [head.r EXCEPT !.off = (@ + left) % Width]
<1>6. over \in Reader
  <2> DEFINE hr == head.r
             o == (hr.off + left) % Width
  <2>1. hr \in Reader
    BY <1>5
  <2>2. over = [hr EXCEPT !.off = o]
    OBVIOUS
  <2> HIDE DEF hr
  <2>3. hr.off + left \in Int
    BY <1>4, <2>1, ReaderLoose
  <2>4. o \in 0 .. Width - 1
    BY <2>3, OffsetWraps
  <2> HIDE DEF o, over
  <2> QED
    BY <2>1, <2>2, <2>4 DEF Reader
<1> HIDE DEF over
<1>7. CASE DataEnds
  BY <1>0, <1>7 DEF DataEnds, TypeOK, Loops, Ends, atomVars, unitVars, track
<1>8. CASE /\ size' = left
           /\ \/ left < 0 /\ pc' = "assert" /\ r' = head.r /\ UNCHANGED origEnd
              \/ left >= 0 /\ pc' = "mdat" /\ r' = head.r /\ origEnd' = r.end
              \/ left >= 0 /\ r' = over /\ UNCHANGED <<pc, origEnd>>
           /\ UNCHANGED <<file, delim, prevOff, nalSize, unitVars, seen, got>>
  <2>1. /\ pc' \in Loops \union Ends /\ r' \in Reader /\ origEnd' \in 0 .. Width - 1
    BY <1>5, <1>6, <1>8 DEF TypeOK, Loops, Ends
  <2> QED
    BY <1>0, <1>4, <1>8, <2>1 DEF TypeOK, unitVars, track
<1> QED
  BY <1>3, <1>7, <1>8 DEF over

LEMMA UnitSizeType ==
  ASSUME TypeOK, UnitSize
  PROVE  TypeOK'
<1> DEFINE word == ReadU(data, r, 32)
<1>0. UNCHANGED track
  BY Zenon DEF UnitSize
<1>1. Mapped(data) /\ r \in Reader
  BY FileMapped
<1>2. word.r \in Reader /\ word.bits \in Seq(Bit)
  <2>1. 32 \in Widths
    BY DEF Widths
  <2> QED
    BY <1>1, <2>1, ReadType, Zenon
<1>3. \/ DataEnds
      \/ /\ nalSize' = Number(word.bits) /\ prevOff' = word.r.off
         /\ r' = [word.r EXCEPT !.end = (word.r.off + nalSize') % Width]
         /\ pc' = "nal"
         /\ UNCHANGED <<file, delim, size, origEnd, unitVars, seen, got>>
  BY Zenon DEF UnitSize
<1> HIDE DEF word
<1>4. Number(word.bits) \in 0 .. Width - 1
  BY <1>2, NumberType
<1>5. word.r.off \in 0 .. Width - 1
  <2> DEFINE wr == word.r
  <2>1. wr \in Reader
    BY <1>2
  <2> HIDE DEF wr
  <2>2. wr.off \in 0 .. Width - 1
    BY <2>1, ReaderLoose
  <2> QED
    BY <2>2 DEF wr
<1>6. CASE DataEnds
  BY <1>0, <1>6 DEF DataEnds, TypeOK, Loops, Ends, atomVars, unitVars, track
<1>7. CASE /\ nalSize' = Number(word.bits) /\ prevOff' = word.r.off
           /\ r' = [word.r EXCEPT !.end = (word.r.off + nalSize') % Width]
           /\ pc' = "nal"
           /\ UNCHANGED <<file, delim, size, origEnd, unitVars, seen, got>>
  <2> DEFINE e == (word.r.off + nalSize') % Width
  <2>1. e \in 0 .. Width - 1
    <3>1. word.r.off + nalSize' \in Int
      BY <1>4, <1>5, <1>7
    <3> QED
      BY <3>1, OffsetWraps
  <2>2. r' = [word.r EXCEPT !.end = e]
    BY <1>7
  <2> HIDE DEF e
  <2>3. r' \in Reader
    BY <1>2, <2>1, <2>2 DEF Reader
  <2> QED
    BY <1>0, <1>4, <1>5, <1>7, <2>3 DEF TypeOK, Loops, Ends, unitVars, track
<1> QED
  BY <1>3, <1>6, <1>7

Resumed(rd, o, e) == [rd EXCEPT !.off = o, !.end = e, !.shift = 0, !.rbsp = FALSE]

LEMMA ResumedReader ==
  ASSUME NEW rd \in Reader, NEW o \in 0 .. Width - 1, NEW e \in 0 .. Width - 1
  PROVE  /\ Resumed(rd, o, e) \in Reader
         /\ Resumed(rd, o, e).off = o /\ Resumed(rd, o, e).end = e
         /\ Resumed(rd, o, e).shift = 0 /\ ~Resumed(rd, o, e).rbsp
<1> DEFINE at == [rd EXCEPT !.off = o]
           upto == [at EXCEPT !.end = e]
           moved == [upto EXCEPT !.shift = 0]
<1>1. at \in Reader /\ at.off = o
  BY DEF Reader
<1>2. Resumed(rd, o, e) = Switched(moved, FALSE)
  BY DEF Resumed, Switched
<1> HIDE DEF at
<1>3. upto \in Reader /\ upto.off = o /\ upto.end = e
  BY <1>1 DEF Reader
<1> HIDE DEF upto
<1>4. moved \in Reader /\ moved.off = o /\ moved.end = e /\ moved.shift = 0
  BY <1>3 DEF Reader
<1> HIDE DEF moved
<1>5. /\ Switched(moved, FALSE) \in Reader
      /\ Switched(moved, FALSE).off = moved.off /\ Switched(moved, FALSE).end = moved.end
      /\ Switched(moved, FALSE).shift = moved.shift /\ ~Switched(moved, FALSE).rbsp
  BY <1>4, SwitchedReader, Zenon
<1> QED
  BY <1>2, <1>4, <1>5, Zenon

LEMMA AfterUnitType ==
  ASSUME TypeOK, AfterUnit
  PROVE  TypeOK'
<1>0. stray' = FALSE /\ lost' = lost
  BY Zenon DEF AfterUnit
<1>1. r \in Reader /\ r.end \in 0 .. Width - 1 /\ r.end \in Int
  BY FileMapped, ReaderLoose
<1>2. /\ size' = size - ((nalSize + 4) % Width)
      /\ pc' = CASE size' > 0 -> "mdat"
                 [] size' = 0 -> "atom"
                 [] size' < 0 -> "assert"
      /\ r' = [r EXCEPT !.off   = (prevOff + nalSize) % Width,
                        !.end   = IF size' > 0 THEN PastUnit(@) ELSE origEnd,
                        !.shift = 0,
                        !.rbsp  = FALSE]
      /\ UNCHANGED <<file, delim, origEnd, prevOff, nalSize, unitVars, seen, got>>
  BY Zenon DEF AfterUnit
<1>3. /\ nalSize \in 0 .. Width - 1 /\ prevOff \in 0 .. Width - 1
      /\ origEnd \in 0 .. Width - 1 /\ size \in Int /\ Width \in Nat
  BY WidthAssumption DEF TypeOK
<1> DEFINE w == (nalSize + 4) % Width
           o == (prevOff + nalSize) % Width
           p == (r.end + 4) % Width
<1>4. w \in Int /\ o \in 0 .. Width - 1 /\ p \in 0 .. Width - 1
  <2>1. nalSize + 4 \in Int /\ prevOff + nalSize \in Int /\ r.end + 4 \in Int
    BY <1>1, <1>3
  <2>2. w \in 0 .. Width - 1 /\ o \in 0 .. Width - 1 /\ p \in 0 .. Width - 1
    BY <2>1, OffsetWraps
  <2> QED
    BY <1>3, <2>2
<1>5. size' = size - w
  BY <1>2
<1> DEFINE e == IF size' > 0 THEN p ELSE origEnd
<1>6. r' = Resumed(r, o, e)
  BY <1>2 DEF PastUnit, Resumed
<1> HIDE DEF w, o, p
<1>7. e \in 0 .. Width - 1
  BY <1>3, <1>4
<1> HIDE DEF e
<1>8. r' \in Reader
  BY <1>1, <1>4, <1>6, <1>7, ResumedReader
<1>9. size' \in Int /\ pc' \in Loops \union Ends
  <2>1. size' \in Int
    BY <1>3, <1>4, <1>5
  <2>2. size' > 0 \/ size' = 0 \/ size' < 0
    BY <2>1
  <2>3. pc' \in {"mdat", "atom", "assert"}
    <3> DEFINE now == size'
    <3>1. pc' = CASE now > 0 -> "mdat" [] now = 0 -> "atom" [] now < 0 -> "assert"
      BY <1>2
    <3>2. now > 0 \/ now = 0 \/ now < 0
      BY <2>2
    <3> HIDE DEF now
    <3> QED
      BY <3>1, <3>2
  <2> QED
    BY <2>1, <2>3 DEF Loops, Ends
<1> QED
  BY <1>0, <1>2, <1>8, <1>9 DEF TypeOK, unitVars

LEMMA SeekKeepsType ==
  ASSUME TypeOK, Seek
  PROVE  TypeOK'
<1> DEFINE stops == {o \in r.off .. r.end :
                       ReachesEnd([r EXCEPT !.off = o], 3) \/ StartCode(data, o) > 0}
           least == Min(stops \union {r.end})
           stop == [r EXCEPT !.off = least, !.shift = 0]
           o == (stop.off + StartCode(data, stop.off)) % Width
<1>0. UNCHANGED track
  BY Zenon DEF Seek
<1>1. r \in Reader /\ least \in 0 .. Width - 1
  BY FileMapped, SeekType
<1>2. \/ DataEnds
      \/ /\ r' = [stop EXCEPT !.off = o] /\ pc' = "nal"
         /\ UNCHANGED <<file, atomVars, unitVars, seen, got>>
  BY Zenon DEF Seek
<1> HIDE DEF least
<1>3. stop \in Reader
  <2>1. least \in Nat /\ 0 \in Nat /\ 0 \in 0 .. 7
    BY <1>1, WidthAssumption
  <2>2. stop = Placed(r, least, 0)
    BY DEF Placed
  <2> QED
    BY <1>1, <2>1, <2>2, PlacedReader
<1> HIDE DEF stop
<1>4. o \in 0 .. Width - 1
  <2> DEFINE at == stop.off
             code == StartCode(data, at)
  <2>1. at \in Nat
    BY <1>3, ReaderLoose
  <2> HIDE DEF at
  <2>2. code \in {0, 3, 4}
    BY StartCodeIs
  <2> HIDE DEF code
  <2>3. at + code \in Int
    BY <2>1, <2>2
  <2>4. (at + code) % Width \in 0 .. Width - 1
    BY <2>3, OffsetWraps
  <2> QED
    BY <2>4 DEF at, code
<1> HIDE DEF o
<1>5. [stop EXCEPT !.off = o] \in Reader
  BY <1>3, <1>4 DEF Reader
<1>6. CASE DataEnds
  BY <1>0, <1>6 DEF DataEnds, TypeOK, Loops, Ends, atomVars, unitVars, track
<1>7. CASE /\ r' = [stop EXCEPT !.off = o] /\ pc' = "nal"
           /\ UNCHANGED <<file, atomVars, unitVars, seen, got>>
  <2> DEFINE to == [stop EXCEPT !.off = o]
  <2>1. r' = to /\ to \in Reader
    BY <1>5, <1>7
  <2> HIDE DEF to
  <2> QED
    BY <1>0, <1>7, <2>1 DEF TypeOK, Loops, Ends, atomVars, unitVars, track
<1> QED
  BY <1>2, <1>6, <1>7

LEMMA StartUnitType ==
  ASSUME TypeOK, StartUnit
  PROVE  TypeOK'
<1> DEFINE from == Switched(r, TRUE)
           head == ThreeOf(data, from, 1, 2, 5)
           kind == Number(SubSeq(head.bits, 4, 8))
<1>0. UNCHANGED track
  BY Zenon DEF StartUnit
<1>1. Mapped(data) /\ r \in Reader
  BY FileMapped
<1>2. from \in Reader
  BY <1>1, SwitchedReader, Zenon
<1>3. \/ DataEnds
      \/ /\ nal' = r.off /\ r' = head.r /\ type' = kind
         /\ pc' = CASE head.bits[1] = 1 -> "malformed"
                    [] head.bits[1] = 0 /\ kind \in Slice \union ParameterSet -> "parse"
                    [] OTHER -> "after"
         /\ asked' = FALSE
         /\ seen' = IF Len(seen) > Len(file.units) THEN seen ELSE Append(seen, r.off)
         /\ got' = head.bits
         /\ UNCHANGED <<file, atomVars>>
  BY Zenon DEF StartUnit, ThreeOf, Switched
<1> HIDE DEF from
<1>4. head \in Reads /\ head.bits \in Seq(Bit) /\ kind \in 0 .. 31
  BY <1>1, <1>2, UnitByteType
<1> HIDE DEF head, kind
<1>5. CASE DataEnds
  BY <1>0, <1>5 DEF DataEnds, TypeOK, Loops, Ends, atomVars, unitVars, track
<1>6. CASE /\ nal' = r.off /\ r' = head.r /\ type' = kind
           /\ pc' = CASE head.bits[1] = 1 -> "malformed"
                      [] head.bits[1] = 0 /\ kind \in Slice \union ParameterSet -> "parse"
                      [] OTHER -> "after"
           /\ asked' = FALSE
           /\ seen' = IF Len(seen) > Len(file.units) THEN seen ELSE Append(seen, r.off)
           /\ got' = head.bits
           /\ UNCHANGED <<file, atomVars>>
  <2>1. r' \in Reader /\ got' \in Seq(Bit) /\ type' \in 0 .. 31
    BY <1>4, <1>6 DEF Reads
  <2>2. nal' \in 0 .. Width - 1
    BY <1>1, <1>6, ReaderLoose
  <2>3. seen' \in Seq(0 .. Width - 1)
    <3>1. seen \in Seq(0 .. Width - 1) /\ r.off \in 0 .. Width - 1
      BY <1>1, ReaderLoose DEF TypeOK
    <3> DEFINE o == r.off
               S == 0 .. Width - 1
               more == Append(seen, o)
    <3>2. more \in Seq(S)
      <4> HIDE DEF o, S
      <4> QED
        BY <3>1 DEF o, S
    <3>3. seen' \in {seen, more}
      <4> HIDE DEF more
      <4> QED
        BY <1>6 DEF more
    <3> HIDE DEF more, S
    <3> QED
      BY <3>1, <3>2, <3>3 DEF S
  <2>4. pc' \in Loops \union Ends
    <3>1. pc' \in {"malformed", "parse", "after"}
      BY <1>6
    <3> QED
      BY <3>1 DEF Loops, Ends
  <2> QED
    BY <1>0, <1>6, <2>1, <2>2, <2>3, <2>4 DEF TypeOK, atomVars, track
<1> QED
  BY <1>3, <1>5, <1>6

LEMMA ReadFieldType ==
  ASSUME TypeOK, NEW n \in Fields, ReadField(n)
  PROVE  TypeOK'
<1> DEFINE field == ReadU(data, r, n)
<1>0. stray' \in BOOLEAN /\ lost' \in BOOLEAN
  BY DEF ReadField, StraysUnless, TypeOK
<1>1. Mapped(data) /\ r \in Reader /\ n \in Widths
  BY FileMapped, FilesAssumption DEF Widths
<1>2. field.r \in Reader /\ field.bits \in Seq(Bit)
  BY <1>1, ReadType
<1>3. \/ DataEnds
      \/ /\ r' = field.r /\ got' \in {<<>>, got \o field.bits}
         /\ UNCHANGED <<file, pc, atomVars, unitVars, seen>>
  BY Zenon DEF ReadField, Gets
<1> HIDE DEF field
<1>4. CASE DataEnds
  BY <1>0, <1>4 DEF DataEnds, TypeOK, Loops, Ends, atomVars, unitVars
<1>5. CASE /\ r' = field.r /\ got' \in {<<>>, got \o field.bits}
           /\ UNCHANGED <<file, pc, atomVars, unitVars, seen>>
  <2>1. got' \in Seq(Bit)
    <3>1. got \o field.bits \in Seq(Bit) /\ <<>> \in Seq(Bit)
      BY <1>2, Joined DEF TypeOK
    <3> QED
      BY <1>5, <3>1, Zenon
  <2> QED
    BY <1>0, <1>2, <1>5, <2>1 DEF TypeOK, atomVars, unitVars
<1> QED
  BY <1>3, <1>4, <1>5

LEMMA ReadCodeType ==
  ASSUME TypeOK, ReadCode
  PROVE  TypeOK'
<1> DEFINE code == ReadUe(data, r)
<1>0. stray' \in BOOLEAN /\ lost' \in BOOLEAN
  BY DEF ReadCode, StraysUnless, TypeOK
<1>1. Mapped(data) /\ r \in Reader
  BY FileMapped
<1>2. code.r \in Reader /\ code.bits \in Seq(Bit)
  BY <1>1, ReadUeType
<1>3. \/ DataEnds
      \/ /\ pc' = IF code.bad THEN "malformed" ELSE pc
         /\ r' = code.r /\ got' \in {<<>>, got \o code.bits}
         /\ UNCHANGED <<file, atomVars, unitVars, seen>>
  BY Zenon DEF ReadCode, Gets
<1> HIDE DEF code
<1>4. CASE DataEnds
  BY <1>0, <1>4 DEF DataEnds, TypeOK, Loops, Ends, atomVars, unitVars
<1>5. CASE /\ pc' = IF code.bad THEN "malformed" ELSE pc
           /\ r' = code.r /\ got' \in {<<>>, got \o code.bits}
           /\ UNCHANGED <<file, atomVars, unitVars, seen>>
  <2>1. got' \in Seq(Bit)
    <3>1. got \o code.bits \in Seq(Bit) /\ <<>> \in Seq(Bit)
      BY <1>2, Joined DEF TypeOK
    <3> QED
      BY <1>5, <3>1, Zenon
  <2>2. pc' \in Loops \union Ends
    <3>1. pc' \in {"malformed", pc}
      BY <1>5
    <3> QED
      BY <3>1 DEF TypeOK, Ends
  <2> QED
    BY <1>0, <1>2, <1>5, <2>1, <2>2 DEF TypeOK, atomVars, unitVars
<1> QED
  BY <1>3, <1>4, <1>5

LEMMA AskMoreDataType ==
  ASSUME TypeOK, AskMoreData
  PROVE  TypeOK'
<1> DEFINE answer == MoreData(r)
<1>0. UNCHANGED track
  BY Zenon DEF AskMoreData
<1>1. Mapped(data) /\ r \in Reader
  BY FileMapped
<1>2. answer.r \in Reader
  BY <1>1, MoreDataType
<1>3. \/ DataEnds
      \/ /\ r' = answer.r /\ pc' = "after"
         /\ UNCHANGED <<file, atomVars, unitVars, seen, got>>
      \/ /\ r' = answer.r /\ pc' = IF type = 7 \/ asked THEN "malformed" ELSE pc
         /\ asked' = TRUE
         /\ UNCHANGED <<file, atomVars, nal, type, seen, got>>
  BY Zenon DEF AskMoreData
<1> HIDE DEF answer
<1>4. CASE DataEnds
  BY <1>0, <1>4 DEF DataEnds, TypeOK, Loops, Ends, atomVars, unitVars, track
<1>5. CASE /\ r' = answer.r /\ pc' = "after"
           /\ UNCHANGED <<file, atomVars, unitVars, seen, got>>
  BY <1>0, <1>2, <1>5 DEF TypeOK, Loops, atomVars, unitVars, track
<1>6. CASE /\ r' = answer.r /\ pc' = IF type = 7 \/ asked THEN "malformed" ELSE pc
           /\ asked' = TRUE
           /\ UNCHANGED <<file, atomVars, nal, type, seen, got>>
  <2>1. pc' \in Loops \union Ends
    <3>1. pc' \in {"malformed", pc}
      BY <1>6
    <3> QED
      BY <3>1 DEF TypeOK, Ends
  <2> QED
    BY <1>0, <1>2, <1>6, <2>1 DEF TypeOK, atomVars, track
<1> QED
  BY <1>3, <1>4, <1>5, <1>6

LEMMA DecodeType ==
  ASSUME TypeOK, Decode
  PROVE  TypeOK'
<1>1. PICK parsed \in SXE_parsed : r' = [r EXCEPT !.off = ResumeAt(nal, parsed)]
  BY DEF Decode
<1>2. parsed \in Int
  BY DEF SXE_parsed, StartCodeSz
<1> DEFINE o == ResumeAt(nal, parsed)
<1>3. o \in 0 .. Width - 1
  <2>1. nal + parsed - StartCodeSz \in Int
    BY <1>2, WidthAssumption DEF TypeOK, StartCodeSz
  <2> QED
    BY <2>1, OffsetWraps DEF ResumeAt
<1>4. r' = [r EXCEPT !.off = o]
  BY <1>1
<1> HIDE DEF o
<1>5. r' \in Reader
  BY <1>3, <1>4 DEF TypeOK, Reader
<1>6. pc' = "after" /\ stray' = FALSE /\ lost' = lost
      /\ UNCHANGED <<file, atomVars, unitVars, seen, got>>
  BY DEF Decode
<1> QED
  BY <1>5, <1>6 DEF TypeOK, Loops, atomVars, unitVars

LEMMA NextStartCodeType ==
  ASSUME TypeOK, NextStartCode
  PROVE  TypeOK'
<1>1. /\ r' = Switched(r, FALSE) /\ pc' = "seek"
      /\ UNCHANGED <<file, atomVars, unitVars, seen, got>>
  BY DEF NextStartCode, Switched
<1>0. stray' \in BOOLEAN /\ lost' \in BOOLEAN
  BY DEF NextStartCode, TypeOK
<1>2. r' \in Reader
  BY <1>1, SwitchedReader, Zenon DEF TypeOK
<1> QED
  BY <1>0, <1>1, <1>2 DEF TypeOK, Loops, atomVars, unitVars

LEMMA NextType ==
  ASSUME TypeOK, [Next]_vars
  PROVE  TypeOK'
<1>1. CASE Probe
  BY <1>1, ProbeType
<1>2. CASE Atom
  BY <1>2, AtomType
<1>3. CASE UnitSize
  BY <1>3, UnitSizeType
<1>4. CASE AfterUnit
  BY <1>4, AfterUnitType
<1>5. CASE Seek
  BY <1>5, SeekKeepsType
<1>6. CASE NextStartCode
  BY <1>6, NextStartCodeType
<1>7. CASE StartUnit
  BY <1>7, StartUnitType
<1>8. ASSUME NEW n \in Fields, ReadField(n) PROVE TypeOK'
  BY <1>8, ReadFieldType
<1>9. CASE ReadCode
  BY <1>9, ReadCodeType
<1>10. CASE Reject
  BY <1>10 DEF Reject, TypeOK, Loops, Ends, atomVars, unitVars, track
<1>11. CASE AskMoreData
  BY <1>11, AskMoreDataType
<1>12. CASE EndHeader
  BY <1>12 DEF EndHeader, TypeOK, Loops, Ends, atomVars, unitVars, track
<1>13. CASE Decode
  BY <1>13, DecodeType
<1>14. CASE UNCHANGED vars
  BY <1>14 DEF vars, TypeOK, Loops, Ends, atomVars, unitVars, track
<1> QED
  BY <1>1, <1>2, <1>3, <1>4, <1>5, <1>6, <1>7, <1>8, <1>9, <1>10, <1>11, <1>12,
     <1>13, <1>14, Zenon DEF Next, Run, Ended

LEMMA InitType ==
  ASSUME Init
  PROVE  TypeOK
<1>1. FileType(file)
  BY FilesAssumption DEF Init
<1>2. Len(data) \in 0 .. Width - 1 /\ 0 \in 0 .. Width - 1
  BY <1>1, WidthAssumption DEF FileType, data, StartCodeSz
<1>3. r \in Reader
  <2> DEFINE n == Len(data)
  <2>1. r = [off |-> 0, shift |-> 0, end |-> n, rbsp |-> FALSE]
    BY DEF Init, bitstream_init
  <2> HIDE DEF n
  <2> QED
    BY <1>2, <2>1 DEF Reader, n
<1>4. /\ delim = FALSE /\ asked = FALSE
      /\ size = 0 /\ origEnd = 0 /\ prevOff = 0 /\ nalSize = 0 /\ nal = 0 /\ type = 0
      /\ seen = <<>> /\ got = <<>> /\ pc = "probe"
      /\ stray = FALSE /\ lost = FALSE
  BY DEF Init
<1>5. delim \in BOOLEAN /\ asked \in BOOLEAN /\ stray \in BOOLEAN /\ lost \in BOOLEAN
  BY <1>4, Zenon
<1>6. size \in Int /\ {origEnd, prevOff, nalSize, nal} \subseteq 0 .. Width - 1 /\ type \in 0 .. 31
  BY <1>2, <1>4
<1>7. seen \in Seq(0 .. Width - 1) /\ got \in Seq(Bit)
  BY <1>4
<1>8. pc \in Loops \union Ends
  BY <1>4 DEF Loops
<1> QED
  BY <1>1, <1>3, <1>5, <1>6, <1>7, <1>8 DEF TypeOK

(* Every variable keeps its type, in any file.                             *)
THEOREM FramingTypeCorrect == Spec => []TypeOK
<1>1. Init => TypeOK
  BY InitType
<1>2. TypeOK /\ [Next]_vars => TypeOK'
  BY NextType
<1> QED
  BY <1>1, <1>2, PTL DEF Spec

-----------------------------------------------------------------------------
(***************************************************************************)
(* A unit of a sound file, and reading it.                                 *)
(***************************************************************************)
UnitOf(f, u) == FileType(f) /\ u \in UnitType /\ SoundUnit(f, u)

LEMMA UnitFacts ==
  ASSUME NEW f, NEW u, UnitOf(f, u)
  PROVE  LET n == Len(u.rbsp)
         IN  /\ Mapped(f.bytes) /\ n \in Nat /\ n > 0 /\ u.at \in Nat /\ u.len \in Nat
             /\ u.at + u.len <= Len(f.bytes) /\ Len(f.bytes) \in Nat
             /\ Len(f.bytes) + 3 < Width /\ Width \in Nat
             /\ u.place[1] = u.at /\ u.place[n] + 1 = u.at + u.len
             /\ \A k \in 1 .. n : /\ u.place[k] \in Nat /\ u.rbsp[k] \in Byte
                                  /\ ByteAt(f.bytes, u.place[k]) = u.rbsp[k]
                                  /\ ~Prevents(f.bytes, u.place[k])
             /\ u.rbsp[n] # 0
<1>1. /\ f.bytes \in Seq(Byte) /\ Len(f.bytes) + 3 < Width /\ Len(f.bytes) \in Nat
      /\ Width \in Nat
  BY WidthAssumption DEF UnitOf, FileType, StartCodeSz
<1>2. u.at \in Nat /\ u.len \in Nat /\ u.rbsp \in Seq(Byte) /\ u.place \in Seq(Nat)
  BY DEF UnitOf, UnitType
<1> DEFINE n == Len(u.rbsp)
<1>3. /\ n > 0 /\ u.rbsp[n] # 0 /\ Len(u.place) = n
      /\ u.place[1] = u.at /\ u.place[n] + 1 = u.at + u.len
      /\ u.at + u.len <= Len(f.bytes)
      /\ \A k \in 1 .. n :
           ByteAt(f.bytes, u.place[k]) = u.rbsp[k] /\ ~Prevents(f.bytes, u.place[k])
  BY DEF UnitOf, SoundUnit
<1>4. n \in Nat
  BY <1>2
<1>5. \A k \in 1 .. n : u.place[k] \in Nat /\ u.rbsp[k] \in Byte
  BY <1>2, <1>3, SeqElement
<1> QED
  BY <1>1, <1>2, <1>3, <1>4, <1>5 DEF Mapped

(* From one byte of a unit to the next                                     *)
LEMMA NextPlace ==
  ASSUME NEW f, NEW u, UnitOf(f, u), NEW k \in 1 .. Len(u.rbsp) - 1
  PROVE  /\ u.place[k + 1] = u.place[k]
                               + (IF Prevents(f.bytes, u.place[k] + 1) THEN 2 ELSE 1)
         /\ u.place[k + 1] >= u.place[k] + 1
<1>1. u.place[k + 1] = u.place[k]
                         + (IF Prevents(f.bytes, u.place[k] + 1) THEN 2 ELSE 1)
  BY DEF UnitOf, SoundUnit
<1>2. u.place[k] \in Nat
  BY UnitFacts
<1> QED
  BY <1>1, <1>2

(* All bytes of a unit are in it.                                          *)
LEMMA PlaceInUnit ==
  ASSUME NEW f, NEW u, UnitOf(f, u), NEW k \in 1 .. Len(u.rbsp)
  PROVE  /\ u.place[k] \in Nat /\ u.at <= u.place[k] /\ u.place[k] < u.at + u.len
         /\ k < Len(u.rbsp) => u.place[k] + 1 < u.at + u.len
<1> DEFINE n == Len(u.rbsp)
           place == u.place
           at == u.at
           end == u.at + u.len
           T == {i \in 0 .. n - 1 : at + i <= place[i + 1]}
           U == {i \in 0 .. n - 1 : place[n - i] + i < end}
<1>1. /\ n \in Nat /\ n > 0 /\ at \in Nat /\ end \in Nat
      /\ place[1] = at /\ place[n] + 1 = end
      /\ \A i \in 1 .. n : place[i] \in Nat
  BY UnitFacts
<1>2. \A i \in 1 .. n - 1 : place[i + 1] >= place[i] + 1
  BY NextPlace
<1>3. k \in 1 .. n
  OBVIOUS
<1> HIDE DEF n, place, at, end
<1>4. 0 \in T
  BY <1>1
<1>5. ASSUME NEW i \in 0 .. (n - 1) - 1, i \in T PROVE i + 1 \in T
  <2>1. /\ i + 1 \in 1 .. n - 1 /\ i + 1 \in 0 .. n - 1 /\ i + 1 \in 1 .. n
        /\ (i + 1) + 1 \in 1 .. n
    BY <1>1
  <2>2. place[(i + 1) + 1] >= place[i + 1] + 1
    BY <1>2, <2>1
  <2>3. at + i <= place[i + 1]
    BY <1>5
  <2>4. place[i + 1] \in Nat /\ place[(i + 1) + 1] \in Nat
    BY <1>1, <2>1
  <2>5. at + (i + 1) <= place[(i + 1) + 1]
    BY <1>1, <2>2, <2>3, <2>4
  <2> QED
    BY <2>1, <2>5
<1>6. 0 \in U
  <2>1. n - 0 = n
    BY <1>1
  <2>2. place[n - 0] + 0 < end
    BY <1>1, <2>1
  <2> QED
    BY <1>1, <2>2
<1>7. ASSUME NEW i \in 0 .. (n - 1) - 1, i \in U PROVE i + 1 \in U
  <2> DEFINE l == n - (i + 1)
  <2>1. /\ i + 1 \in 0 .. n - 1 /\ l \in 1 .. n - 1 /\ l \in 1 .. n
        /\ l + 1 = n - i /\ l + 1 \in 1 .. n
    BY <1>1
  <2>2. place[n - i] + i < end
    BY <1>7
  <2> HIDE DEF l
  <2>3. place[l + 1] >= place[l] + 1 /\ place[l] \in Nat /\ place[l + 1] \in Nat
    BY <1>1, <1>2, <2>1
  <2>4. place[l + 1] + i < end
    BY <2>1, <2>2
  <2>5. place[l] + (i + 1) < end
    BY <1>1, <2>3, <2>4
  <2> QED
    BY <2>1, <2>5 DEF l
<1> HIDE DEF T, U
<1>8. 0 .. n - 1 \subseteq T /\ 0 .. n - 1 \subseteq U
  <2>1. n - 1 \in Nat
    BY <1>1
  <2>2. 0 .. n - 1 \subseteq T
    BY <1>4, <1>5, <2>1, UpTo
  <2>3. 0 .. n - 1 \subseteq U
    BY <1>6, <1>7, <2>1, UpTo
  <2> QED
    BY <2>2, <2>3
<1>9. k - 1 \in 0 .. n - 1 /\ n - k \in 0 .. n - 1 /\ (k - 1) + 1 = k /\ n - (n - k) = k
  BY <1>1, <1>3
<1>10. k - 1 \in T /\ n - k \in U
  BY <1>8, <1>9
<1>11. at + (k - 1) <= place[(k - 1) + 1] /\ place[n - (n - k)] + (n - k) < end
  BY <1>10 DEF T, U
<1>12. place[(k - 1) + 1] = place[k] /\ place[n - (n - k)] = place[k] /\ place[k] \in Nat
  BY <1>1, <1>3, <1>9
<1>13. /\ place[k] \in Nat /\ at <= place[k] /\ place[k] < end
       /\ k < n => place[k] + 1 < end
  BY <1>1, <1>3, <1>11, <1>12
<1> QED
  BY <1>13 DEF place, at, end, n

LEMMA RbspBitsAre ==
  ASSUME NEW f, NEW u, UnitOf(f, u)
  PROVE  /\ RbspBits(u) \in Seq(Bit) /\ Len(RbspBits(u)) = 8 * Len(u.rbsp)
         /\ \A b \in 0 .. 8 * Len(u.rbsp) - 1 :
              RbspBits(u)[b + 1] = Bits(u.rbsp[(b \div 8) + 1])[1 + (b % 8)]
<1> DEFINE n == Len(u.rbsp)
           byte == [k \in 0 .. n - 1 |-> u.rbsp[k + 1]]
           m == n - 1
           N == 8 * n
<1>1. n \in Nat /\ n > 0 /\ \A k \in 1 .. n : u.rbsp[k] \in Byte
  BY UnitFacts
<1>2. byte \in [0 .. m -> Byte]
  <2>1. ASSUME NEW k \in 0 .. n - 1 PROVE u.rbsp[k + 1] \in Byte
    <3>1. k + 1 \in 1 .. n
      BY <1>1
    <3> QED
      BY <1>1, <3>1
  <2> QED
    BY <2>1
<1>3. RbspBits(u) = BitString(byte, 0, N)
  BY DEF RbspBits
<1>4. m \in Nat /\ N \in Nat /\ 0 \in Nat /\ (0 + N - 1) \div 8 <= m
  <2> HIDE DEF n
  <2> QED
    BY <1>1
<1>5. ASSUME NEW b \in 0 .. N - 1
      PROVE  BitString(byte, 0, N)[b + 1] = Bits(u.rbsp[(b \div 8) + 1])[1 + (b % 8)]
  <2>1. b + 1 \in 1 .. N /\ 0 + (b + 1) - 1 = b /\ b \in Nat
    BY <1>4
  <2>2. b \div 8 \in 0 .. n - 1
    BY <1>1, <2>1
  <2>3. byte[b \div 8] = u.rbsp[(b \div 8) + 1]
    BY <2>2
  <2> HIDE DEF byte, N
  <2>4. BitString(byte, 0, N)[b + 1] =
          Bits(byte[(0 + (b + 1) - 1) \div 8])[1 + ((0 + (b + 1) - 1) % 8)]
    BY <2>1 DEF BitString
  <2> QED
    BY <2>1, <2>3, <2>4
<1> HIDE DEF byte, m, N
<1>6. BitString(byte, 0, N) \in Seq(Bit) /\ Len(BitString(byte, 0, N)) = N
  BY <1>2, <1>4, BitStringType, Zenon
<1> QED
  BY <1>3, <1>5, <1>6 DEF N, n

(* A reader in a unit of a sound file takes every byte as its author did.  *)
Inside(f, u, rd) == UnitOf(f, u) /\ rd \in Reader /\ rd.rbsp /\ u.at + u.len <= rd.end

LEMMA EscapedInside ==
  ASSUME NEW f, NEW u, NEW rd, Inside(f, u, rd), NEW o \in Nat, o < u.at + u.len
  PROVE  Escaped(f.bytes, rd, o) = IF Prevents(f.bytes, o) THEN o + 1 ELSE o
<1>1. UnitOf(f, u) /\ rd \in Reader /\ rd.rbsp /\ u.at + u.len <= rd.end
  BY DEF Inside
<1>2. Mapped(f.bytes) /\ u.at + u.len \in Nat
  BY <1>1, UnitFacts
<1>3. rd.end \in Nat
  BY <1>1, ReaderLoose
<1>4. o # rd.end
  BY <1>1, <1>2, <1>3
<1>5. ByteAt(f.bytes, o + 1) \in Byte
  <2> DEFINE p == o + 1
  <2>1. p \in Nat
    OBVIOUS
  <2> HIDE DEF p
  <2>2. ByteAt(f.bytes, p) \in Byte
    BY <1>2, <2>1, ByteAtType
  <2> QED
    BY <2>2 DEF p
<1>6. ByteAt(f.bytes, o + 1) \in 0 .. 3 <=> ByteAt(f.bytes, o + 1) <= 3
  BY <1>5 DEF Byte
<1>7. Emulated(f.bytes, rd, o) <=> Prevents(f.bytes, o)
  BY <1>1, <1>4, <1>6, Zenon DEF Emulated, Prevents
<1> QED
  BY <1>7 DEF Escaped

(* The offsets at which the byte after the first q bytes of u is looked for*)
LooksAt(u, q, o) ==
  \/ o = u.place[q + 1]
  \/ q > 0 /\ o = u.place[q] + 1

LEMMA LooksAtByte ==
  ASSUME NEW f, NEW u, NEW rd, Inside(f, u, rd), NEW q \in 0 .. Len(u.rbsp) - 1, NEW o,
         LooksAt(u, q, o)
  PROVE  /\ o \in Nat /\ Escaped(f.bytes, rd, o) = u.place[q + 1]
         /\ o <= u.place[q + 1]
<1> DEFINE n == Len(u.rbsp)
<1>1. UnitOf(f, u) /\ Mapped(f.bytes) /\ n \in Nat /\ n > 0
  BY UnitFacts DEF Inside
<1>2. q + 1 \in 1 .. n /\ (q > 0 => q \in 1 .. n /\ q \in 1 .. n - 1) /\ q \in Nat
  BY <1>1
<1> HIDE DEF n
<1>3. u.place[q + 1] \in Nat /\ u.place[q + 1] < u.at + u.len /\ ~Prevents(f.bytes, u.place[q + 1])
  <2> DEFINE k == q + 1
  <2>1. k \in 1 .. n
    BY <1>2
  <2> HIDE DEF k
  <2>2. u.place[k] \in Nat /\ u.place[k] < u.at + u.len /\ ~Prevents(f.bytes, u.place[k])
    BY <1>1, <2>1, PlaceInUnit, UnitFacts DEF n
  <2> QED
    BY <2>2 DEF k
<1>4. CASE o = u.place[q + 1]
  <2>1. Escaped(f.bytes, rd, o) = o
    BY <1>3, <1>4, EscapedInside
  <2> QED
    BY <1>3, <1>4, <2>1
<1>5. CASE q > 0 /\ o = u.place[q] + 1
  <2>1. q \in 1 .. n /\ q \in 1 .. n - 1
    BY <1>2, <1>5
  <2>2. u.place[q] \in Nat /\ u.place[q] + 1 < u.at + u.len
    BY <1>1, <2>1, PlaceInUnit DEF n
  <2>3. u.place[q + 1] = u.place[q] + (IF Prevents(f.bytes, u.place[q] + 1) THEN 2 ELSE 1)
    BY <1>1, <2>1, NextPlace DEF n
  <2>4. o \in Nat /\ o < u.at + u.len /\ o = u.place[q] + 1
    BY <1>5, <2>2
  <2>5. Escaped(f.bytes, rd, o) = IF Prevents(f.bytes, o) THEN o + 1 ELSE o
    BY <2>4, EscapedInside
  <2> QED
    BY <2>2, <2>3, <2>4, <2>5
<1> QED
  BY <1>4, <1>5 DEF LooksAt

(* The bytes that are read from there are the next ones of u.              *)
LEMMA PlacesInside ==
  ASSUME NEW f, NEW u, NEW rd, Inside(f, u, rd), NEW q \in 0 .. Len(u.rbsp) - 1,
         NEW o, LooksAt(u, q, o), NEW n \in Nat, NEW k \in 0 .. n, q + k < Len(u.rbsp)
  PROVE  Places(f.bytes, rd, o, n)[k] = u.place[q + k + 1]
<1> DEFINE place == Places(f.bytes, rd, o, n)
           N == Len(u.rbsp)
           T == {i \in 0 .. n : q + i < N => place[i] = u.place[q + i + 1]}
<1>1. UnitOf(f, u) /\ Mapped(f.bytes) /\ N \in Nat /\ N > 0 /\ rd \in Reader /\ q \in Nat
  BY UnitFacts DEF Inside
<1>2. o \in Nat /\ Escaped(f.bytes, rd, o) = u.place[q + 1]
  BY LooksAtByte
<1>3. place \in PlaceRuns(f.bytes, rd, o, n)
  BY <1>1, <1>2, PlacesRun
<1> HIDE DEF place
<1>4. /\ place[0] = u.place[q + 1]
      /\ \A i \in 1 .. n : place[i] = Escaped(f.bytes, rd, place[i - 1] + 1)
  BY <1>2, <1>3 DEF PlaceRuns
<1>5. 0 \in T
  <2>1. q + 0 + 1 = q + 1
    BY <1>1
  <2> QED
    BY <1>4, <2>1
<1>6. ASSUME NEW i \in 0 .. n - 1, i \in T PROVE i + 1 \in T
  <2> SUFFICES ASSUME q + (i + 1) < N PROVE place[i + 1] = u.place[q + (i + 1) + 1]
    OBVIOUS
  <2> DEFINE p == q + (i + 1)
             at == place[i] + 1
  <2>1. i + 1 \in 1 .. n /\ (i + 1) - 1 = i /\ q + i < N /\ q + i + 1 = p
        /\ p \in 0 .. N - 1 /\ p > 0
    BY <1>1, <1>6
  <2>2. place[i] = u.place[p]
    BY <1>6, <2>1
  <2>3. place[i + 1] = Escaped(f.bytes, rd, at)
    BY <1>4, <2>1
  <2> HIDE DEF p
  <2>4. LooksAt(u, p, at)
    BY <2>1, <2>2 DEF LooksAt
  <2> HIDE DEF at
  <2>5. Escaped(f.bytes, rd, at) = u.place[p + 1]
    BY <2>1, <2>4, LooksAtByte
  <2> QED
    BY <2>3, <2>5 DEF p
<1> HIDE DEF T
<1>7. 0 .. n \subseteq T
  BY <1>5, <1>6, UpTo
<1>8. k \in T
  BY <1>7
<1> QED
  BY <1>8 DEF T, place

LEMMA StandsInside ==
  ASSUME NEW f, NEW u, NEW rd, Inside(f, u, rd), NEW b \in Nat, b < 8 * Len(u.rbsp),
         StandsAt(rd, u, b)
  PROVE  /\ LooksAt(u, b \div 8, rd.off) /\ rd.shift = b % 8
         /\ b \div 8 \in 0 .. Len(u.rbsp) - 1
<1> DEFINE n == Len(u.rbsp)
           q == b \div 8
<1>1. n \in Nat /\ n > 0 /\ u.place[1] = u.at
  BY UnitFacts DEF Inside
<1> HIDE DEF n
<1>2. q \in 0 .. n - 1
  BY <1>1 DEF n
<1>3. /\ rd.shift = b % 8
      /\ rd.off = IF b % 8 # 0 THEN u.place[q + 1]
                  ELSE IF b = 0 THEN u.at ELSE u.place[q] + 1
  BY DEF StandsAt
<1>4. b = 0 => q = 0
  OBVIOUS
<1>5. b % 8 = 0 /\ b # 0 => q > 0
  OBVIOUS
<1> HIDE DEF q
<1>6. ASSUME b % 8 # 0 PROVE LooksAt(u, q, rd.off)
  BY <1>3, <1>6 DEF LooksAt
<1>7. ASSUME b % 8 = 0, b = 0 PROVE LooksAt(u, q, rd.off)
  <2>1. q + 1 = 1
    BY <1>4, <1>7
  <2> QED
    BY <1>1, <1>3, <1>7, <2>1 DEF LooksAt
<1>8. ASSUME b % 8 = 0, b # 0 PROVE LooksAt(u, q, rd.off)
  BY <1>3, <1>5, <1>8 DEF LooksAt
<1>9. LooksAt(u, q, rd.off)
  BY <1>6, <1>7, <1>8
<1> QED
  BY <1>2, <1>3, <1>9 DEF n, q

LEMMA Bytewise ==
  ASSUME NEW b \in Nat, NEW m \in Nat
  PROVE  /\ (b + m) \div 8 = (b \div 8) + (((b % 8) + m) \div 8)
         /\ (b + m) % 8 = ((b % 8) + m) % 8
  OBVIOUS

(* What a read in a unit looks at: the bytes of u behind the first q       *)
LEMMA BytesInside ==
  ASSUME NEW f, NEW u, NEW rd, Inside(f, u, rd), NEW b \in Nat, NEW n \in Widths,
         b + n <= 8 * Len(u.rbsp), StandsAt(rd, u, b)
  PROVE  LET q == b \div 8
             last == LastByte(rd, n)
         IN  /\ last \in 0 .. 4 /\ q \in Nat /\ q + last < Len(u.rbsp)
             /\ \A k \in 0 .. last :
                  /\ PlacesRead(f.bytes, rd, n)[k] = u.place[q + k + 1]
                  /\ BytesRead(f.bytes, rd, n)[k] = u.rbsp[q + k + 1]
             /\ rd.off + last <= u.place[q + last + 1]
             /\ u.place[q + last + 1] < u.at + u.len
<1> DEFINE q == b \div 8
           last == LastByte(rd, n)
           N == Len(u.rbsp)
           o == rd.off
<1>1. UnitOf(f, u) /\ Mapped(f.bytes) /\ N \in Nat /\ N > 0 /\ rd \in Reader
  BY UnitFacts DEF Inside
<1>2. last \in 0 .. 4 /\ rd.shift \in 0 .. 7 /\ o \in Nat /\ last \in Nat
  BY <1>1, PlacesReadBounds, ReaderLoose
<1>3. n \in 1 .. 32
  BY DEF Widths
<1>4. b < 8 * Len(u.rbsp)
  BY <1>1, <1>3
<1>5. LooksAt(u, q, o) /\ rd.shift = b % 8 /\ q \in 0 .. N - 1
  BY <1>4, StandsInside
<1>6. last = (n + (b % 8) - 1) \div 8
  BY <1>5 DEF LastByte
<1>7. q + last < N /\ q \in Nat
  <2> DEFINE s == b % 8
  <2>1. b = 8 * q + s /\ s \in 0 .. 7 /\ q \in Nat /\ b + n <= 8 * N
    OBVIOUS
  <2>2. last = (n + s - 1) \div 8
    BY <1>6
  <2> HIDE DEF s, q, last, N
  <2> QED
    BY <1>1, <1>3, <2>1, <2>2
<1> HIDE DEF q, last, N, o
<1>8. ASSUME NEW k \in 0 .. last
      PROVE  /\ PlacesRead(f.bytes, rd, n)[k] = u.place[q + k + 1]
             /\ BytesRead(f.bytes, rd, n)[k] = u.rbsp[q + k + 1]
  <2> DEFINE p == q + k + 1
  <2>1. q + k < N /\ p \in 1 .. N
    BY <1>1, <1>2, <1>7
  <2> HIDE DEF p
  <2>2. Places(f.bytes, rd, o, last)[k] = u.place[p]
    BY <1>2, <1>5, <2>1, PlacesInside DEF N, p
  <2>3. PlacesRead(f.bytes, rd, n)[k] = u.place[p]
    BY <2>2 DEF PlacesRead, o, last
  <2>4. BytesRead(f.bytes, rd, n)[k] = ByteAt(f.bytes, u.place[p])
    <3>1. k \in 0 .. LastByte(rd, n)
      BY DEF last
    <3> QED
      BY <2>3, <3>1 DEF BytesRead
  <2>5. ByteAt(f.bytes, u.place[p]) = u.rbsp[p]
    BY <1>1, <2>1, UnitFacts DEF N
  <2> QED
    BY <2>3, <2>4, <2>5 DEF p
<1>9. o + last <= u.place[q + last + 1]
  <2> DEFINE at == Places(f.bytes, rd, o, last)[last]
  <2>1. last \in 0 .. last
    BY <1>2
  <2>2. at >= o + last
    BY <1>1, <1>2, <2>1, PlacesBounds
  <2>3. at = u.place[q + last + 1]
    BY <1>8, <2>1 DEF PlacesRead, o, last
  <2> HIDE DEF at
  <2> QED
    BY <2>2, <2>3
<1>10. u.place[q + last + 1] < u.at + u.len
  <2> DEFINE p == q + last + 1
  <2>1. p \in 1 .. N
    BY <1>1, <1>2, <1>7
  <2> HIDE DEF p
  <2>2. u.place[p] < u.at + u.len
    BY <1>1, <2>1, PlaceInUnit DEF N
  <2> QED
    BY <2>2 DEF p
<1> QED
  BY <1>2, <1>7, <1>8, <1>9, <1>10 DEF q, last, N, o

LEMMA BitsInside ==
  ASSUME NEW f, NEW u, NEW rd, Inside(f, u, rd), NEW b \in Nat, NEW n \in Widths,
         b + n <= 8 * Len(u.rbsp), StandsAt(rd, u, b), NEW i \in 1 .. n
  PROVE  BitsRead(f.bytes, rd, n)[i] = RbspBits(u)[b + i]
<1> DEFINE q == b \div 8
           s == b % 8
           last == LastByte(rd, n)
           N == Len(u.rbsp)
           k == (s + i - 1) \div 8
           c == b + i - 1
<1>1. UnitOf(f, u) /\ N \in Nat /\ rd \in Reader
  BY UnitFacts DEF Inside
<1>2. n \in 1 .. 32 /\ i \in Nat /\ i >= 1
  BY DEF Widths
<1>3. b < 8 * Len(u.rbsp)
  BY <1>1, <1>2
<1>4. rd.shift = s
  BY <1>3, StandsInside
<1>5. last = (n + s - 1) \div 8
  BY <1>4 DEF LastByte
<1>6. s \in 0 .. 7 /\ k \in 0 .. last
  BY <1>2, <1>5
<1>7. c \in 0 .. 8 * N - 1 /\ c \div 8 = q + k /\ c % 8 = (s + i - 1) % 8
      /\ c + 1 = b + i
  BY <1>1, <1>2
<1>8. BitsRead(f.bytes, rd, n)[i] = Bits(BytesRead(f.bytes, rd, n)[k])[1 + (c % 8)]
  BY <1>4, <1>7 DEF BitsRead, BitString
<1> HIDE DEF k, last
<1>9. BytesRead(f.bytes, rd, n)[k] = u.rbsp[q + k + 1]
  BY <1>6, BytesInside DEF last
<1> HIDE DEF c, N, q
<1>10. RbspBits(u)[c + 1] = Bits(u.rbsp[(c \div 8) + 1])[1 + (c % 8)]
  BY <1>1, <1>7, RbspBitsAre DEF N
<1> QED
  BY <1>7, <1>8, <1>9, <1>10

(* A field of a unit is read as its author wrote it.                       *)
LEMMA UnitRead ==
  ASSUME NEW f, NEW u, NEW rd, Inside(f, u, rd), NEW b \in Nat, NEW n \in Widths,
         b + n <= 8 * Len(u.rbsp), StandsAt(rd, u, b)
  PROVE  LET read == ReadU(f.bytes, rd, n)
         IN  /\ ~read.out /\ read.bits \in Seq(Bit) /\ Len(read.bits) = n
             /\ \A i \in 1 .. n : read.bits[i] = RbspBits(u)[b + i]
             /\ StandsAt(read.r, u, b + n)
             /\ Inside(f, u, read.r) /\ read.r.end = rd.end
<1> DEFINE q == b \div 8
           s == b % 8
           last == LastByte(rd, n)
           N == Len(u.rbsp)
           read == ReadU(f.bytes, rd, n)
           end == rd.end
           o == rd.off
           left == Left(f.bytes, rd, n)
           at == u.place[q + last + 1]
           to == u.at + u.len
<1>1. UnitOf(f, u) /\ Mapped(f.bytes) /\ N \in Nat /\ rd \in Reader /\ rd.rbsp
      /\ to <= end /\ u.at \in Nat /\ u.len \in Nat
  BY UnitFacts DEF Inside
<1>2. n \in 1 .. 32
  BY DEF Widths
<1>3. b < 8 * Len(u.rbsp)
  BY <1>1, <1>2
<1>4. rd.shift = s /\ s \in 0 .. 7 /\ q \in Nat
  BY <1>3, StandsInside
<1>5. last = (n + s - 1) \div 8 /\ last \in Nat
  BY <1>2, <1>4 DEF LastByte
<1>6. end \in 0 .. Width - 1 /\ o \in Nat /\ Width \in Nat /\ to \in Nat
  BY <1>1, ReaderLoose, UnitFacts
<1>7. o + last <= at /\ at < to /\ last \in 0 .. 4
  BY BytesInside
<1>8. PlacesRead(f.bytes, rd, n)[last] = at
  <2> HIDE DEF last
  <2>1. last \in 0 .. last
    BY <1>5
  <2> QED
    BY <2>1, BytesInside DEF last
<1>9. left = at - last
  BY <1>8 DEF Left
<1>10. at \in Nat
  <2> DEFINE p == q + last + 1
  <2> HIDE DEF last
  <2>1. q + last < N
    BY BytesInside DEF last
  <2>2. p \in 1 .. N
    BY <1>1, <1>4, <1>5, <2>1
  <2> HIDE DEF p, N
  <2>3. u.place[p] \in Nat
    BY <1>1, <2>2, PlaceInUnit DEF N
  <2> QED
    BY <2>3 DEF p
<1>11. left \in 0 .. Width - 1 /\ left \in Nat
  BY <1>1, PlacesReadBounds
<1>12. read.out <=> ReachesEnd(rd, last)
  <2>1. read = Read(Advance([rd EXCEPT !.off = left], n), BitsRead(f.bytes, rd, n),
                    ReachesEnd(rd, last))
    BY <1>1, ReadType, Zenon
  <2> HIDE DEF read
  <2> QED
    BY <2>1, Zenon DEF Read
<1>13. read.r = Advance([rd EXCEPT !.off = left], n)
  BY <1>1, ReadType DEF Read
<1>14. [rd EXCEPT !.off = left] \in Loose /\ [rd EXCEPT !.off = left].off = left
       /\ [rd EXCEPT !.off = left].shift = s
  BY <1>1, <1>4, <1>11 DEF Reader, Loose
<1>15. /\ read.r.off = (left + (s + n) \div 8) % Width
       /\ read.r.shift = (s + n) % 8
  <2> HIDE DEF read, left, s
  <2>1. n \in Nat
    BY <1>2
  <2> DEFINE from == [rd EXCEPT !.off = left]
  <2>2. from \in Loose /\ from.off = left /\ from.shift = s
    BY <1>14
  <2> HIDE DEF from
  <2>3. /\ Advance(from, n).off = (from.off + (from.shift + n) \div 8) % Width
        /\ Advance(from, n).shift = (from.shift + n) % 8
    BY <2>1, <2>2, AdvanceType
  <2> QED
    BY <1>13, <2>2, <2>3 DEF from
<1>16. (b + n) \div 8 = q + ((s + n) \div 8) /\ (b + n) % 8 = (s + n) % 8
  BY <1>2, Bytewise
<1>17. /\ read.r \in Reader /\ read.r.end = end /\ read.r.rbsp = rd.rbsp
       /\ read.bits = BitsRead(f.bytes, rd, n)
       /\ read.bits \in Seq(Bit) /\ Len(read.bits) = n
  <2> DEFINE d == f.bytes
  <2>1. Mapped(d) /\ rd \in Reader
    BY <1>1
  <2> HIDE DEF d
  <2>2. /\ ReadU(d, rd, n).r \in Reader
        /\ ReadU(d, rd, n).r.end = rd.end /\ ReadU(d, rd, n).r.rbsp = rd.rbsp
        /\ ReadU(d, rd, n).bits = BitsRead(d, rd, n)
        /\ ReadU(d, rd, n).bits \in Seq(Bit) /\ Len(ReadU(d, rd, n).bits) = n
    BY <2>1, ReadType
  <2> QED
    BY <2>2, Zenon DEF d
<1>18. \A i \in 1 .. n : read.bits[i] = RbspBits(u)[b + i]
  <2> HIDE DEF read
  <2> QED
    BY <1>17, BitsInside
<1> HIDE DEF read, end, o, left, at, to, last
<1>19. ~ReachesEnd(rd, last)
  <2>1. o + last < end /\ o + last \in 0 .. Width - 1 /\ o + last \in Int
    BY <1>1, <1>5, <1>6, <1>7, <1>10
  <2>2. (o + last) % Width = o + last
    BY <2>1, OffsetWraps
  <2>3. ~((o + last) % Width >= end)
    BY <1>6, <2>1, <2>2
  <2> QED
    BY <2>3 DEF ReachesEnd, o, end
<1>20. CASE (s + n) % 8 = 0
  <2>1. (s + n) \div 8 = last + 1
    BY <1>2, <1>4, <1>5, <1>20
  <2>2. left + (s + n) \div 8 = at + 1 /\ at + 1 \in 0 .. Width - 1 /\ at + 1 \in Int
    BY <1>1, <1>6, <1>7, <1>9, <1>10, <1>5, <2>1
  <2>3. read.r.off = at + 1
    BY <1>15, <2>2, OffsetWraps
  <2>4. (b + n) \div 8 = q + last + 1 /\ (b + n) % 8 = 0 /\ b + n # 0
    BY <1>2, <1>4, <1>5, <1>16, <1>20, <2>1
  <2>5. read.r.off = u.place[(b + n) \div 8] + 1
    BY <2>3, <2>4 DEF at
  <2>6. StandsAt(read.r, u, b + n)
    BY <1>15, <1>20, <2>4, <2>5 DEF StandsAt
  <2> QED
    BY <1>1, <1>12, <1>17, <1>18, <1>19, <2>6 DEF Inside, read, last, end, to
<1>21. CASE (s + n) % 8 # 0
  <2>1. (s + n) \div 8 = last
    BY <1>2, <1>4, <1>5, <1>21
  <2>2. left + (s + n) \div 8 = at /\ at \in 0 .. Width - 1 /\ at \in Int
    BY <1>1, <1>6, <1>7, <1>9, <1>10, <1>5, <2>1
  <2>3. read.r.off = at
    BY <1>15, <2>2, OffsetWraps
  <2>4. (b + n) \div 8 + 1 = q + last + 1 /\ (b + n) % 8 # 0
    BY <1>2, <1>4, <1>5, <1>16, <1>21, <2>1
  <2>5. read.r.off = u.place[(b + n) \div 8 + 1]
    BY <2>3, <2>4 DEF at
  <2>6. StandsAt(read.r, u, b + n)
    BY <1>15, <1>16, <2>4, <2>5 DEF StandsAt
  <2> QED
    BY <1>1, <1>12, <1>17, <1>18, <1>19, <2>6 DEF Inside, read, last, end, to
<1> QED
  BY <1>20, <1>21

(* Beginning as the bits of u do                                           *)
LEMMA PrefixIs ==
  ASSUME NEW S, NEW s \in Seq(S), NEW t \in Seq(S)
  PROVE  IsPrefix(s, t) <=> Len(s) <= Len(t) /\ \A i \in 1 .. Len(s) : s[i] = t[i]
<1>1. SubSeq(s, 1, Len(s)) = [i \in 1 .. Len(s) |-> s[i]]
  OBVIOUS
<1>2. ASSUME Len(s) <= Len(t)
      PROVE  SubSeq(t, 1, Len(s)) = [i \in 1 .. Len(s) |-> t[i]]
  BY <1>2
<1>3. (\A i \in 1 .. Len(s) : s[i] = t[i])
        <=> [i \in 1 .. Len(s) |-> s[i]] = [i \in 1 .. Len(s) |-> t[i]]
  OBVIOUS
<1>4. IsPrefix(s, t) <=>
        Len(s) <= Len(t) /\ SubSeq(s, 1, Len(s)) = SubSeq(t, 1, Len(s))
  BY DEF IsPrefix
<1> QED
  BY <1>1, <1>2, <1>3, <1>4

(* What was read of u so far is its first b bits.                          *)
Taken(f, u, s, b) ==
  /\ s \in Reads /\ ~s.out /\ Len(s.bits) = b /\ b \in Nat
  /\ Inside(f, u, s.r) /\ StandsAt(s.r, u, b)
  /\ \A i \in 1 .. b : s.bits[i] = RbspBits(u)[i]

LEMMA UnitAdd ==
  ASSUME NEW f, NEW u, NEW s, NEW b \in Nat, Taken(f, u, s, b), NEW n \in Widths,
         b + n <= 8 * Len(u.rbsp)
  PROVE  Taken(f, u, AddRead(f.bytes, s, n), b + n)
<1> DEFINE d == f.bytes
           rd == s.r
           read == ReadU(d, rd, n)
           to == AddRead(d, s, n)
           all == RbspBits(u)
<1>1. /\ s \in Reads /\ ~s.out /\ Len(s.bits) = b /\ Inside(f, u, rd)
      /\ StandsAt(rd, u, b) /\ \A i \in 1 .. b : s.bits[i] = all[i]
  BY DEF Taken
<1>2. Mapped(d) /\ n \in Nat /\ n > 0
  BY <1>1, UnitFacts DEF Inside, Widths
<1>3. /\ ~read.out /\ read.bits \in Seq(Bit) /\ Len(read.bits) = n
      /\ \A i \in 1 .. n : read.bits[i] = all[b + i]
      /\ StandsAt(read.r, u, b + n) /\ Inside(f, u, read.r)
  <2> HIDE DEF rd
  <2> QED
    BY <1>1, UnitRead
<1> HIDE DEF d
<1>4. to \in Reads /\ Len(to.bits) = Len(s.bits) + n
  BY <1>1, <1>2, AddReadType
<1>5. to = Read(read.r, s.bits \o read.bits, s.out \/ read.out)
  BY Zenon DEF AddRead
<1> HIDE DEF read, rd, all
<1>6. to.r = read.r /\ to.bits = s.bits \o read.bits /\ (to.out <=> s.out \/ read.out)
  <2> HIDE DEF to
  <2> QED
    BY <1>5, Zenon DEF Read
<1>7. s.bits \in Seq(Bit)
  BY <1>1 DEF Reads
<1> HIDE DEF to
<1>8. ASSUME NEW i \in 1 .. b + n PROVE to.bits[i] = all[i]
  <2>1. /\ \A j \in 1 .. b : (s.bits \o read.bits)[j] = s.bits[j]
        /\ \A j \in 1 .. n : (s.bits \o read.bits)[b + j] = read.bits[j]
    <3> DEFINE x == s.bits
               y == read.bits
    <3>1. x \in Seq(Bit) /\ y \in Seq(Bit) /\ Len(x) = b /\ Len(y) = n
      BY <1>1, <1>3, <1>7
    <3> HIDE DEF x, y
    <3>2. /\ \A j \in 1 .. b : (x \o y)[j] = x[j]
          /\ \A j \in 1 .. n : (x \o y)[b + j] = y[j]
      BY <3>1, Joined
    <3> QED
      BY <3>2 DEF x, y
  <2>2. CASE i <= b
    <3>1. i \in 1 .. b
      BY <2>2
    <3> QED
      BY <1>1, <1>6, <2>1, <3>1
  <2>3. CASE i > b
    <3> DEFINE j == i - b
    <3>1. j \in 1 .. n /\ b + j = i
      BY <1>2, <2>3
    <3> HIDE DEF j
    <3> QED
      BY <1>3, <1>6, <2>1, <3>1
  <2> QED
    BY <2>2, <2>3
<1>9. b + n \in Nat
  BY <1>2
<1>10. ~to.out /\ Len(to.bits) = b + n /\ Inside(f, u, to.r) /\ StandsAt(to.r, u, b + n)
  BY <1>1, <1>3, <1>4, <1>6
<1> QED
  BY <1>4, <1>8, <1>9, <1>10, Zenon DEF Taken, d, to, all

(* The first byte of a unit, and its type                                  *)
LEMMA UnitByte ==
  ASSUME NEW f, NEW u, NEW rd, Inside(f, u, rd), StandsAt(rd, u, 0)
  PROVE  LET head == ThreeOf(f.bytes, rd, 1, 2, 5)
         IN  Taken(f, u, head, 8) /\ Number(SubSeq(head.bits, 4, 8)) = Kind(u)
<1> DEFINE d == f.bytes
           s0 == Read(rd, <<>>, FALSE)
           s1 == AddRead(d, s0, 1)
           s2 == AddRead(d, s1, 2)
           s3 == AddRead(d, s2, 5)
           head == ThreeOf(d, rd, 1, 2, 5)
<1>1. UnitOf(f, u) /\ Mapped(d) /\ rd \in Reader /\ Len(u.rbsp) \in Nat /\ Len(u.rbsp) > 0
  BY UnitFacts DEF Inside
<1>2. s0 \in Reads /\ s0.r = rd /\ s0.bits = <<>> /\ Len(s0.bits) = 0 /\ ~s0.out
  <2>1. s0 \in Reads /\ s0.r = rd /\ s0.bits = <<>> /\ Len(s0.bits) = 0
    BY <1>1, NoReads
  <2> QED
    BY <2>1 DEF Read
<1>3. 1 \in Widths /\ 2 \in Widths /\ 5 \in Widths
  BY DEF Widths
<1>4. 8 * Len(u.rbsp) >= 8
  BY <1>1
<1> HIDE DEF s0
<1>5. Taken(f, u, s0, 0)
  <2>1. \A i \in 1 .. 0 : s0.bits[i] = RbspBits(u)[i]
    OBVIOUS
  <2>2. 0 \in Nat
    OBVIOUS
  <2> QED
    BY <1>2, <2>1, <2>2, Zenon DEF Taken
<1>6. Taken(f, u, s1, 1)
  <2>1. 0 \in Nat /\ 0 + 1 <= 8 * Len(u.rbsp) /\ 0 + 1 = 1
    BY <1>1
  <2>2. Taken(f, u, s1, 0 + 1)
    BY <1>3, <1>5, <2>1, UnitAdd, Zenon
  <2> QED
    BY <2>1, <2>2, Zenon
<1>7. Taken(f, u, s2, 3)
  <2>1. 1 \in Nat /\ 1 + 2 <= 8 * Len(u.rbsp) /\ 1 + 2 = 3
    BY <1>1
  <2>2. Taken(f, u, s2, 1 + 2)
    BY <1>3, <1>6, <2>1, UnitAdd, Zenon
  <2> QED
    BY <2>1, <2>2, Zenon
<1>8. Taken(f, u, s3, 8)
  <2>1. 3 \in Nat /\ 3 + 5 <= 8 * Len(u.rbsp) /\ 3 + 5 = 8
    BY <1>1
  <2>2. Taken(f, u, s3, 3 + 5)
    BY <1>3, <1>7, <2>1, UnitAdd, Zenon
  <2> QED
    BY <2>1, <2>2, Zenon
<1>9. head = s3
  <2>1. Threefold(d, rd, 1, 2, 5)
    BY <1>1, <1>3, ThreeReads, Zenon
  <2> QED
    BY <2>1, Zenon DEF Threefold, s0
<1> HIDE DEF d, s3, head
<1>10. Taken(f, u, head, 8)
  BY <1>8, <1>9
<1>11. SubSeq(head.bits, 4, 8) = SubSeq(RbspBits(u), 4, 8)
  <2> DEFINE all == RbspBits(u)
             bits == head.bits
  <2>1. bits \in Seq(Bit) /\ Len(bits) = 8 /\ \A i \in 1 .. 8 : bits[i] = all[i]
    BY <1>10 DEF Taken, Reads
  <2>2. all \in Seq(Bit) /\ Len(all) >= 8
    BY <1>1, <1>4, RbspBitsAre
  <2> HIDE DEF all, bits
  <2>3. SubSeq(bits, 4, 8) = [i \in 1 .. 5 |-> bits[i + 3]]
    BY <2>1
  <2>4. SubSeq(all, 4, 8) = [i \in 1 .. 5 |-> all[i + 3]]
    BY <2>2
  <2>5. ASSUME NEW i \in 1 .. 5 PROVE bits[i + 3] = all[i + 3]
    BY <2>1
  <2> QED
    BY <2>3, <2>4, <2>5 DEF bits, all
<1> QED
  BY <1>10, <1>11 DEF Kind, head, d

LEMMA MaxIsGreatest ==
  ASSUME NEW n \in Nat, NEW T, T \subseteq 0 .. n, T # {}
  PROVE  Max(T) \in T /\ \A m \in T : m <= Max(T)
<1> DEFINE U == {n - m : m \in T}
<1>1. U \subseteq Nat /\ U # {}
  <2>1. ASSUME NEW m \in T PROVE n - m \in Nat
    OBVIOUS
  <2> QED
    BY <2>1
<1>2. PICK k \in U : \A l \in U : k <= l
  <2> HIDE DEF U
  <2> QED
    BY <1>1, LeastNatural
<1>3. PICK g \in T : k = n - g
  BY <1>2
<1>4. ASSUME NEW m \in T PROVE g >= m
  <2>1. n - m \in U
    OBVIOUS
  <2> HIDE DEF U
  <2>2. k <= n - m
    BY <1>2, <2>1
  <2> QED
    BY <1>3, <2>2
<1>5. \E x \in T : \A y \in T : x >= y
  BY <1>4
<1>6. Max(T) = CHOOSE x \in T : \A y \in T : x >= y
  BY DEF Max
<1>7. Max(T) \in T /\ \A y \in T : Max(T) >= y
  <2> DEFINE Top(x) == \A y \in T : x >= y
  <2>1. \E x \in T : Top(x)
    BY <1>5
  <2>2. Max(T) = CHOOSE x \in T : Top(x)
    BY <1>6
  <2> HIDE DEF Top
  <2>3. Max(T) \in T /\ Top(Max(T))
    BY <2>1, <2>2, Zenon
  <2> QED
    BY <2>3 DEF Top
<1> QED
  BY <1>7

(* The data of a unit ends before the last bit that is set, in its last    *)
(* byte.                                                                   *)
LEMMA DataBitsAre ==
  ASSUME NEW f, NEW u, UnitOf(f, u)
  PROVE  LET D == DataBits(u)
             n == Len(u.rbsp)
         IN  /\ D \in Nat /\ 8 * n - 8 <= D /\ D < 8 * n
             /\ RbspBits(u)[D + 1] = 1
             /\ \A i \in D + 2 .. 8 * n : RbspBits(u)[i] = 0
<1> DEFINE n == Len(u.rbsp)
           D == DataBits(u)
           bits == RbspBits(u)
           N == 8 * n
           ones == {i \in DOMAIN bits : bits[i] = 1}
           T == {0} \union ones
           last == u.rbsp[n]
<1>1. n \in Nat /\ n > 0 /\ last # 0 /\ last \in Byte
  <2>1. n \in Nat /\ n > 0 /\ last # 0 /\ \A k \in 1 .. n : u.rbsp[k] \in Byte
    BY UnitFacts
  <2>2. n \in 1 .. n
    BY <2>1
  <2> QED
    BY <2>1, <2>2
<1>2. bits \in Seq(Bit) /\ Len(bits) = N
  BY RbspBitsAre
<1>3. D = Max(T) - 1
  BY DEF DataBits
<1>4. PICK j \in 1 .. 8 : Bits(last)[j] # 0
  <2> HIDE DEF last
  <2> QED
    BY <1>1, ZeroByte
<1> DEFINE c == 8 * (n - 1) + j - 1
<1>5. c \in 0 .. 8 * n - 1 /\ c \div 8 = n - 1 /\ c % 8 = j - 1 /\ c >= N - 8
  <2> HIDE DEF n
  <2>1. n \in Nat /\ n > 0
    BY <1>1
  <2>2. c = 8 * (n - 1) + (j - 1) /\ j - 1 \in 0 .. 7 /\ n - 1 \in Nat
    BY <2>1
  <2> QED
    BY <2>1, <2>2
<1>6. bits[c + 1] = Bits(last)[j]
  <2> HIDE DEF bits, c, n, last
  <2>1. bits[c + 1] = Bits(u.rbsp[(c \div 8) + 1])[1 + (c % 8)]
    BY <1>5, RbspBitsAre DEF bits, n
  <2>2. (c \div 8) + 1 = n /\ 1 + (c % 8) = j
    BY <1>1, <1>5
  <2> QED
    BY <2>1, <2>2 DEF last
<1> HIDE DEF bits, last, c, n
<1>7. N \in Nat /\ DOMAIN bits = 1 .. N /\ c + 1 \in 1 .. N
  BY <1>1, <1>2, <1>5
<1> HIDE DEF N
<1>8. \A i \in 1 .. N : bits[i] \in Bit
  BY <1>2, SeqElement
<1>9. c + 1 \in ones /\ c + 1 \in T
  <2>1. bits[c + 1] = 1
    BY <1>4, <1>6, <1>7, <1>8 DEF Bit
  <2> QED
    BY <1>7, <2>1
<1>10. T \subseteq 0 .. N /\ T # {}
  BY <1>7, <1>9
<1> DEFINE max == Max(T)
<1>11. max \in T /\ \A m \in T : m <= max
  <2> HIDE DEF T
  <2> QED
    BY <1>7, <1>10, MaxIsGreatest
<1>12. \A i \in 1 .. N : bits[i] = 1 => i \in T
  BY <1>7
<1>13. c + 1 <= max
  BY <1>9, <1>11
<1>14. max \in 1 .. N /\ bits[max] = 1
  <2>1. max # 0
    BY <1>5, <1>13
  <2>2. max \in ones
    BY <1>11, <2>1
  <2> QED
    BY <1>7, <2>2
<1>15. D = max - 1
  BY <1>3
<1> HIDE DEF T, max, D
<1>16. ASSUME NEW i \in D + 2 .. N PROVE bits[i] = 0
  <2>1. i \in 1 .. N /\ ~(i <= max)
    BY <1>7, <1>14, <1>15
  <2>2. i \notin T
    BY <1>11, <2>1
  <2>3. bits[i] # 1 /\ bits[i] \in Bit
    BY <1>8, <1>12, <2>1, <2>2
  <2> QED
    BY <2>3 DEF Bit
<1>17. D \in Nat /\ 8 * n - 8 <= D /\ D < 8 * n /\ D + 1 = max
  BY <1>1, <1>5, <1>7, <1>13, <1>14, <1>15 DEF N
<1> QED
  BY <1>14, <1>16, <1>17 DEF D, bits, N, n

-----------------------------------------------------------------------------
(***************************************************************************)
(* Codes in a unit.                                                        *)
(***************************************************************************)
(* Moving on inside a byte of a unit, or to its end                        *)
LEMMA AdvanceInByte ==
  ASSUME NEW f, NEW u, UnitOf(f, u), NEW rd \in Loose, NEW q \in 0 .. Len(u.rbsp) - 1,
         rd.off = u.place[q + 1], NEW s \in 0 .. 7, rd.shift = s,
         NEW m \in Nat, m > 0, s + m <= 8
  PROVE  StandsAt(Advance(rd, m), u, 8 * q + s + m)
<1> DEFINE at == u.place[q + 1]
           b == 8 * q + s + m
           to == Advance(rd, m)
<1>1. at \in Nat /\ at + 1 < Width /\ Width \in Nat /\ q \in Nat
  <2> DEFINE N == Len(u.rbsp)
             p == q + 1
             e == u.at + u.len
             l == Len(f.bytes)
  <2>1. N \in Nat /\ e \in Nat /\ e <= l /\ l \in Nat /\ l + 3 < Width /\ Width \in Nat
    BY UnitFacts
  <2> HIDE DEF N, e, l
  <2>2. p \in 1 .. N /\ q \in Nat
    BY <2>1 DEF N
  <2> HIDE DEF p
  <2>3. u.place[p] \in Nat /\ u.place[p] < e
    BY <2>2, PlaceInUnit DEF N, e
  <2>4. u.place[p] \in Nat /\ u.place[p] + 1 < Width
    BY <2>1, <2>3
  <2> QED
    BY <2>1, <2>2, <2>4 DEF p
<1>2. to.off = (at + (s + m) \div 8) % Width /\ to.shift = (s + m) % 8
  BY AdvanceType
<1>3. b % 8 = (s + m) % 8 /\ b \div 8 = q + ((s + m) \div 8) /\ b # 0
  BY <1>1
<1> HIDE DEF at, to
<1>4. CASE s + m = 8
  <2>1. at + 1 \in 0 .. Width - 1 /\ at + 1 \in Int
    BY <1>1
  <2>2. to.off = at + 1 /\ to.shift = 0
    BY <1>2, <1>4, <2>1, OffsetWraps
  <2>3. b % 8 = 0 /\ b \div 8 = q + 1
    BY <1>1, <1>3, <1>4
  <2> HIDE DEF b
  <2>4. StandsAt(to, u, b)
    BY <1>3, <2>2, <2>3 DEF StandsAt, at
  <2> QED
    BY <2>4 DEF to, b
<1>5. CASE s + m < 8
  <2>1. at \in 0 .. Width - 1 /\ at \in Int /\ (s + m) \div 8 = 0 /\ (s + m) % 8 = s + m
    BY <1>1, <1>5
  <2>2. to.off = at /\ to.shift = s + m
    BY <1>2, <2>1, OffsetWraps
  <2>3. b % 8 = s + m /\ s + m # 0 /\ b \div 8 = q
    BY <1>1, <1>3, <2>1
  <2> HIDE DEF b
  <2>4. StandsAt(to, u, b)
    BY <1>3, <2>2, <2>3 DEF StandsAt, at
  <2> QED
    BY <2>4 DEF to, b
<1> QED
  BY <1>4, <1>5

(* Zeros up to a one are skipped, and counted, by the byte.                *)
Code(u, b, z) ==
  /\ b \in Nat /\ z \in 0 .. 31 /\ b + z < 8 * Len(u.rbsp)
  /\ \A i \in 1 .. z : RbspBits(u)[b + i] = 0
  /\ RbspBits(u)[b + z + 1] = 1

(* The bytes of zeros of a code, and the byte with its one                 *)
LEMMA CodeBytes ==
  ASSUME NEW f, NEW u, UnitOf(f, u), NEW b, NEW z, Code(u, b, z), b % 8 = 0
  PROVE  LET q == b \div 8
             K == z \div 8
         IN  /\ q \in Nat /\ K \in Nat /\ q + K < Len(u.rbsp)
             /\ \A k \in 0 .. K - 1 : LeadingZeros(Bits(u.rbsp[q + k + 1])) = 8
             /\ LeadingZeros(Bits(u.rbsp[q + K + 1])) = z % 8
<1> DEFINE q == b \div 8
           K == z \div 8
           N == Len(u.rbsp)
           all == RbspBits(u)
<1>1. b \in Nat /\ z \in 0 .. 31 /\ b + z < 8 * N /\ N \in Nat
      /\ (\A i \in 1 .. z : all[b + i] = 0) /\ all[b + z + 1] = 1
  BY UnitFacts DEF Code
<1>2. b = 8 * q /\ q \in Nat
  BY <1>1
<1>3. z = 8 * K + (z % 8) /\ K \in Nat /\ z % 8 \in 0 .. 7
  BY <1>1
<1> HIDE DEF q, K, N, all
<1>4. q + K < N
  BY <1>1, <1>2, <1>3
<1>5. ASSUME NEW k \in 0 .. K
      PROVE  /\ u.rbsp[q + k + 1] \in Byte
             /\ \A j \in 1 .. 8 : Bits(u.rbsp[q + k + 1])[j] = all[b + (8 * k + j)]
  <2> DEFINE p == q + k + 1
  <2>1. p \in 1 .. N
    BY <1>1, <1>2, <1>3, <1>4
  <2>2. ASSUME NEW j \in 1 .. 8 PROVE Bits(u.rbsp[p])[j] = all[b + (8 * k + j)]
    <3> DEFINE c == b + 8 * k + j - 1
    <3>1. c = 8 * (q + k) + (j - 1) /\ j - 1 \in 0 .. 7 /\ q + k \in Nat
          /\ c + 1 = b + (8 * k + j)
      BY <1>2, <1>3
    <3>2. c \in Nat /\ c \div 8 = q + k /\ c % 8 = j - 1
      <4> HIDE DEF c
      <4> QED
        BY <3>1
    <3>3. c \in 0 .. 8 * N - 1
      BY <1>1, <1>2, <1>3, <1>4, <3>1, <3>2
    <3> HIDE DEF c
    <3>4. all[c + 1] = Bits(u.rbsp[(c \div 8) + 1])[1 + (c % 8)]
      BY <3>3, RbspBitsAre DEF all, N
    <3> QED
      BY <3>1, <3>2, <3>4
  <2> HIDE DEF p
  <2>3. u.rbsp[p] \in Byte
    BY <2>1, UnitFacts DEF N
  <2> QED
    BY <2>2, <2>3 DEF p
<1>6. ASSUME NEW k \in 0 .. K - 1 PROVE LeadingZeros(Bits(u.rbsp[q + k + 1])) = 8
  <2> DEFINE byte == u.rbsp[q + k + 1]
  <2>1. k \in 0 .. K
    BY <1>3
  <2>2. byte \in Byte /\ \A j \in 1 .. 8 : Bits(byte)[j] = all[b + (8 * k + j)]
    BY <1>5, <2>1
  <2>3. ASSUME NEW j \in 1 .. 8 PROVE all[b + (8 * k + j)] = 0
    <3>1. 8 * k + j \in 1 .. z
      BY <1>1, <1>3
    <3> QED
      BY <1>1, <3>1
  <2> HIDE DEF byte
  <2>4. \A j \in 1 .. 8 : Bits(byte)[j] = 0
    BY <2>2, <2>3
  <2>5. byte = 0
    BY <2>2, <2>4, ZeroByte
  <2>6. LeadingZeros(Bits(byte)) \in 0 .. 8 /\ ~(LeadingZeros(Bits(byte)) < 8)
    BY <2>2, <2>5, LeadOfByte
  <2>7. LeadingZeros(Bits(byte)) = 8
    <3> DEFINE lz == LeadingZeros(Bits(byte))
    <3> HIDE DEF lz
    <3>1. lz \in 0 .. 8 /\ ~(lz < 8)
      BY <2>6 DEF lz
    <3>2. lz = 8
      BY <3>1
    <3> QED
      BY <3>2 DEF lz
  <2> QED
    BY <2>7 DEF byte
<1>7. LeadingZeros(Bits(u.rbsp[q + K + 1])) = z % 8
  <2> DEFINE byte == u.rbsp[q + K + 1]
             bits == Bits(byte)
             s == z % 8
  <2>1. K \in 0 .. K
    BY <1>3
  <2>2. byte \in Byte /\ \A j \in 1 .. 8 : bits[j] = all[b + (8 * K + j)]
    BY <1>5, <2>1
  <2>3. bits \in Seq(Bit) /\ Len(bits) = 8
    <3> HIDE DEF byte
    <3> QED
      BY <2>2, BitsType
  <2>4. s \in 0 .. Len(bits) /\ s < 8 /\ s + 1 \in 1 .. 8
    BY <1>3, <2>3
  <2>5. ASSUME NEW i \in 1 .. s PROVE bits[i] = 0
    <3>1. i \in 1 .. 8 /\ 8 * K + i \in 1 .. z
      BY <1>1, <1>3, <2>4
    <3> HIDE DEF bits
    <3> QED
      BY <1>1, <2>2, <3>1
  <2>6. bits[s + 1] = 1
    <3>1. b + (8 * K + (s + 1)) = b + z + 1
      BY <1>1, <1>3
    <3>2. all[b + (8 * K + (s + 1))] = 1
      BY <1>1, <3>1
    <3> HIDE DEF bits
    <3> DEFINE j == s + 1
    <3>3. j \in 1 .. 8
      BY <2>4
    <3>4. all[b + (8 * K + j)] = 1
      BY <3>2
    <3> HIDE DEF j
    <3>5. bits[j] = 1
      BY <2>2, <3>3, <3>4
    <3> QED
      BY <3>5 DEF j
  <2> HIDE DEF bits, s
  <2>7. LeadingZeros(bits) = s
    BY <2>3, <2>4, <2>5, <2>6, FirstOne
  <2> QED
    BY <2>7 DEF bits, s
<1> QED
  BY <1>2, <1>3, <1>4, <1>6, <1>7 DEF q, K, N

LEMMA InsideAlike ==
  ASSUME NEW f, NEW u, NEW rd, Inside(f, u, rd), NEW to \in Reader, Alike(rd, to)
  PROVE  Inside(f, u, to)
<1>1. to.end = rd.end /\ to.rbsp = rd.rbsp
  BY Zenon DEF Alike
<1>2. UnitOf(f, u) /\ rd.rbsp /\ u.at + u.len <= rd.end
  BY Zenon DEF Inside
<1>3. to.rbsp
  BY <1>1, <1>2, Zenon
<1>4. u.at + u.len <= to.end
  BY <1>1, <1>2
<1> QED
  BY <1>2, <1>3, <1>4 DEF Inside

LEMMA ZeroBytesInside ==
  ASSUME NEW f, NEW u, NEW rd, Inside(f, u, rd), NEW b, NEW z, Code(u, b, z),
         b % 8 = 0, StandsAt(rd, u, b)
  PROVE  LET skip == SkipZeroBytes(f.bytes, rd)
         IN  /\ ~skip.out /\ skip.zeros = z
             /\ StandsAt(skip.r, u, b + z + 1) /\ Inside(f, u, skip.r)
<1> DEFINE d == f.bytes
           q == b \div 8
           K == z \div 8
           N == Len(u.rbsp)
           first == rd.off
           end == rd.end
           place == Places(d, rd, first, end)
           at == u.at + u.len
           skip == SkipZeroBytes(d, rd)
           Found(k) == /\ SkipEnds(d, rd, place, k)
                      /\ \A j \in 0 .. k - 1 : ~SkipEnds(d, rd, place, j)
           last == CHOOSE k \in 0 .. end : Found(k)
           lead == LeadAt(d, place, last)
           bare == [rd EXCEPT !.off = place[last], !.shift = lead]
<1>1. UnitOf(f, u) /\ Mapped(d) /\ N \in Nat /\ rd \in Reader /\ at <= end /\ at \in Nat
  BY UnitFacts DEF Inside
<1>2. b \in Nat /\ z \in 0 .. 31 /\ b + z < 8 * N
  BY DEF Code
<1>3. /\ q \in Nat /\ K \in Nat /\ q + K < N
      /\ \A k \in 0 .. K - 1 : LeadingZeros(Bits(u.rbsp[q + k + 1])) = 8
      /\ LeadingZeros(Bits(u.rbsp[q + K + 1])) = z % 8
  BY <1>1, CodeBytes
<1>4. LooksAt(u, q, first) /\ q \in 0 .. N - 1
  <2>1. b < 8 * Len(u.rbsp)
    BY <1>1, <1>2
  <2> QED
    BY <1>2, <2>1, StandsInside
<1>5. first \in Nat /\ end \in 0 .. Width - 1 /\ Width \in Nat /\ end \in Nat
  BY <1>1, ReaderLoose, UnitFacts
<1>6. z = 8 * K + (z % 8) /\ z % 8 \in 0 .. 7 /\ b = 8 * q
  BY <1>2
<1>7. skip = IF ReachesEnd([rd EXCEPT !.off = Start(place, first, last)], 0)
             THEN [r |-> rd, zeros |-> 0, out |-> TRUE]
             ELSE [r |-> Advance(bare, 1), zeros |-> (8 * last + lead) % 256, out |-> FALSE]
  BY DEF SkipZeroBytes
<1>8. skip.r \in Reader /\ Alike(rd, skip.r)
  <2> HIDE DEF skip, d
  <2>1. skip \in Skips /\ skip.r.end = rd.end /\ skip.r.rbsp = rd.rbsp
    BY <1>1, SkipZeroBytesType DEF skip
  <2>2. skip.r \in Reader
    BY <2>1 DEF Skips
  <2> QED
    BY <2>1, <2>2, Zenon DEF Alike
<1> HIDE DEF d, q, K, N, at
<1>9. ASSUME NEW k \in 0 .. K
      PROVE  /\ k \in Nat /\ q + k + 1 \in 1 .. N /\ q + k \in 0 .. N - 1 /\ q + k < N
             /\ u.place[q + k + 1] \in Nat /\ u.place[q + k + 1] < at
             /\ ByteAt(d, u.place[q + k + 1]) = u.rbsp[q + k + 1]
  <2> DEFINE p == q + k + 1
  <2>1. p \in 1 .. N /\ q + k \in 0 .. N - 1 /\ q + k < N /\ k \in Nat
    BY <1>1, <1>3
  <2> HIDE DEF p
  <2>2. u.place[p] \in Nat /\ u.place[p] < at /\ ByteAt(d, u.place[p]) = u.rbsp[p]
    BY <1>1, <2>1, PlaceInUnit, UnitFacts DEF N, at, d
  <2> QED
    BY <2>1, <2>2 DEF p
<1>10. K \in 0 .. end
  <2> DEFINE pk == Places(d, rd, first, K)[K]
  <2>1. K \in 0 .. K
    BY <1>3
  <2>2. pk = u.place[q + K + 1]
    BY <1>3, <1>4, <2>1, PlacesInside DEF d, N
  <2>3. pk >= first + K
    BY <1>1, <1>3, <1>5, <2>1, PlacesBounds
  <2>4. pk \in Nat /\ pk < at
    BY <1>9, <2>1, <2>2
  <2> HIDE DEF pk
  <2> QED
    BY <1>1, <1>3, <1>5, <2>3, <2>4
<1>11. ASSUME NEW k \in 0 .. K PROVE place[k] = u.place[q + k + 1]
  <2>1. k \in 0 .. end /\ q + k < N
    BY <1>5, <1>9, <1>10
  <2> HIDE DEF end
  <2>2. Places(d, rd, first, end)[k] = u.place[q + k + 1]
    BY <1>4, <1>5, <2>1, PlacesInside DEF d, N
  <2> QED
    BY <2>2
<1> HIDE DEF place
<1>12. ASSUME NEW k \in 0 .. K
       PROVE  ~ReachesEnd([rd EXCEPT !.off = Start(place, first, k)], 0)
  <2> DEFINE o == Start(place, first, k)
             c == q + k
             pc1 == u.place[c + 1]
  <2>1. c \in 0 .. N - 1 /\ pc1 \in Nat /\ pc1 < at
    BY <1>9
  <2>2. LooksAt(u, c, o)
    <3>1. CASE k = 0
      <4>1. o = first /\ c = q
        BY <1>3, <3>1 DEF Start
      <4> QED
        BY <1>4, <4>1
    <3>2. CASE k # 0
      <4>1. k - 1 \in 0 .. K /\ q + (k - 1) + 1 = c /\ c > 0
        BY <1>3, <3>2
      <4>2. place[k - 1] = u.place[c]
        BY <1>11, <4>1
      <4>3. o = u.place[c] + 1
        BY <3>2, <4>2 DEF Start
      <4> HIDE DEF o, c
      <4> QED
        BY <4>1, <4>3 DEF LooksAt
    <3> QED
      BY <3>1, <3>2
  <2> HIDE DEF o, c
  <2>3. o \in Nat /\ o <= pc1
    BY <2>1, <2>2, LooksAtByte DEF N
  <2> HIDE DEF pc1
  <2>4. o < end /\ o \in 0 .. Width - 1
    BY <1>1, <1>5, <2>1, <2>3
  <2>5. ~(o >= end)
    BY <1>5, <2>4
  <2>6. ~ReachesEnd([rd EXCEPT !.off = o], 0)
    BY <1>1, <2>4, <2>5, ReachesFrom
  <2> QED
    BY <2>6 DEF o
<1>13. ASSUME NEW k \in 0 .. K
       PROVE  LeadAt(d, place, k) = LeadingZeros(Bits(u.rbsp[q + k + 1]))
  BY <1>9, <1>11 DEF LeadAt
<1>14. ASSUME NEW k \in 0 .. K - 1 PROVE ~SkipEnds(d, rd, place, k)
  <2>1. k \in 0 .. K
    BY <1>3
  <2>2. LeadAt(d, place, k) = 8
    BY <1>3, <1>13, <2>1
  <2>3. ~ReachesEnd([rd EXCEPT !.off = Start(place, rd.off, k)], 0)
    BY <1>12, <2>1
  <2>4. ~(LeadAt(d, place, k) < 8)
    BY <2>2
  <2> QED
    BY <2>3, <2>4, Zenon DEF SkipEnds
<1>15. K \in 0 .. K /\ LeadAt(d, place, K) = z % 8 /\ SkipEnds(d, rd, place, K)
  <2>1. K \in 0 .. K
    BY <1>3
  <2>2. LeadAt(d, place, K) = z % 8
    BY <1>3, <1>13, <2>1
  <2>3. LeadAt(d, place, K) < 8
    BY <1>6, <2>2
  <2> QED
    BY <2>1, <2>2, <2>3 DEF SkipEnds
<1>16. last = K
  <2>1. Found(K)
    BY <1>14, <1>15
  <2>2. ASSUME NEW k \in 0 .. end, Found(k) PROVE k = K
    <3>1. k < K => k \in 0 .. K - 1
      BY <1>3
    <3>2. ~(k < K)
      BY <1>14, <2>2, <3>1
    <3>3. K < k => K \in 0 .. k - 1
      BY <1>3
    <3>4. ~(K < k)
      BY <1>15, <2>2, <3>3
    <3> HIDE DEF Found
    <3> QED
      BY <1>3, <3>2, <3>4
  <2> HIDE DEF Found, end
  <2>3. last \in 0 .. end /\ Found(last)
    BY <1>10, <2>1, Zenon
  <2> HIDE DEF last
  <2> QED
    BY <2>2, <2>3
<1> HIDE DEF last
<1>17. place[last] = u.place[q + K + 1] /\ lead = z % 8
  BY <1>11, <1>15, <1>16
<1>18. ~ReachesEnd([rd EXCEPT !.off = Start(place, first, last)], 0)
  BY <1>12, <1>15, <1>16
<1>19. bare = Placed(rd, u.place[q + K + 1], z % 8)
  BY <1>17, Zenon DEF Placed
<1> HIDE DEF lead, bare
<1>20. skip = [r |-> Advance(bare, 1), zeros |-> (8 * last + lead) % 256, out |-> FALSE]
  BY <1>7, <1>18
<1>21. ~skip.out /\ skip.zeros = z /\ skip.r = Advance(bare, 1)
  <2>1. (8 * last + lead) % 256 = z
    <3>1. 8 * last + lead = z
      BY <1>6, <1>16, <1>17
    <3>2. z % 256 = z
      BY <1>2
    <3> QED
      BY <3>1, <3>2
  <2> HIDE DEF skip
  <2> QED
    BY <1>20, <2>1
<1>22. StandsAt(Advance(bare, 1), u, b + z + 1)
  <2> DEFINE c == q + K
             s == z % 8
             o == u.place[c + 1]
  <2>1. K \in 0 .. K
    BY <1>3
  <2>2. c \in 0 .. N - 1 /\ o \in Nat
    BY <1>9, <2>1
  <2>3. s \in 0 .. 7 /\ s \in Nat /\ 1 \in Nat /\ 1 > 0 /\ s + 1 <= 8
    BY <1>6
  <2>4. 8 * c + s + 1 = b + z + 1
    BY <1>3, <1>6
  <2> HIDE DEF c, s
  <2>5. bare = Placed(rd, o, s)
    BY <1>19 DEF c, s
  <2>6. bare \in Loose /\ bare.off = u.place[c + 1] /\ bare.shift = s
    BY <1>1, <2>2, <2>3, <2>5, PlacedReader
  <2>7. StandsAt(Advance(bare, 1), u, 8 * c + s + 1)
    BY <1>1, <2>2, <2>3, <2>6, AdvanceInByte DEF N
  <2> QED
    BY <2>4, <2>7
<1>23. Inside(f, u, skip.r)
  <2> HIDE DEF skip
  <2> QED
    BY <1>8, InsideAlike
<1> QED
  BY <1>21, <1>22, <1>23, Zenon DEF d

LEMMA CodeShorter ==
  ASSUME NEW u, NEW b, NEW z, Code(u, b, z), NEW m \in 0 .. z
  PROVE  Code(u, b + m, z - m)
<1>1. /\ b \in Nat /\ z \in 0 .. 31 /\ b + z < 8 * Len(u.rbsp)
      /\ \A i \in 1 .. z : RbspBits(u)[b + i] = 0
      /\ RbspBits(u)[b + z + 1] = 1
  BY DEF Code
<1>2. b + m \in Nat /\ z - m \in 0 .. 31 /\ (b + m) + (z - m) = b + z
  BY <1>1
<1>3. ASSUME NEW i \in 1 .. z - m PROVE RbspBits(u)[(b + m) + i] = 0
  <2>1. m + i \in 1 .. z /\ b + (m + i) = (b + m) + i
    BY <1>1
  <2> QED
    BY <1>1, <2>1
<1> QED
  BY <1>1, <1>2, <1>3 DEF Code

LEMMA ZerosInside ==
  ASSUME NEW f, NEW u, NEW rd, Inside(f, u, rd), NEW b, NEW z, Code(u, b, z),
         StandsAt(rd, u, b)
  PROVE  LET skip == SkipLeadingZeros(f.bytes, rd)
         IN  /\ ~skip.out /\ skip.zeros = z
             /\ StandsAt(skip.r, u, b + z + 1) /\ Inside(f, u, skip.r)
<1> DEFINE d == f.bytes
           q == b \div 8
           s == b % 8
           n == 8 - s
           N == Len(u.rbsp)
           all == RbspBits(u)
           read == Look(d, rd, 8 - rd.shift)
           lead == LeadingZeros(read.bits)
           next == Advance(read.r, lead)
           rest == SkipZeroBytes(d, next)
           skip == SkipLeadingZeros(d, rd)
<1>1. UnitOf(f, u) /\ Mapped(d) /\ N \in Nat /\ rd \in Reader
  BY UnitFacts DEF Inside
<1>2. b \in Nat /\ z \in 0 .. 31 /\ b + z < 8 * N
      /\ (\A i \in 1 .. z : all[b + i] = 0) /\ all[b + z + 1] = 1
  BY DEF Code
<1>3. rd.shift = s /\ q \in 0 .. N - 1
  <2>1. b < 8 * Len(u.rbsp)
    BY <1>1, <1>2
  <2> QED
    BY <1>2, <2>1, StandsInside
<1>4. s \in 0 .. 7 /\ b = 8 * q + s /\ q \in Nat
  BY <1>2
<1>5. skip = IF rd.shift = 0 THEN SkipZeroBytes(d, rd)
             ELSE IF lead < 8 - rd.shift
             THEN [r |-> Advance(read.r, lead + 1), zeros |-> lead, out |-> FALSE]
             ELSE [rest EXCEPT !.zeros = (@ + lead) % 256]
  BY DEF SkipLeadingZeros, Look
<1>6. skip.r \in Reader /\ Alike(rd, skip.r)
  <2> HIDE DEF skip, d
  <2>1. skip \in Skips /\ skip.r.end = rd.end /\ skip.r.rbsp = rd.rbsp
    BY <1>1, SkipLeadingZerosType DEF skip
  <2>2. skip.r \in Reader
    BY <2>1 DEF Skips
  <2> QED
    BY <2>1, <2>2, Zenon DEF Alike
<1>7. Inside(f, u, skip.r)
  <2> HIDE DEF skip
  <2> QED
    BY <1>6, InsideAlike
<1>8. CASE s = 0
  <2>1. skip = SkipZeroBytes(d, rd)
    BY <1>3, <1>5, <1>8
  <2>2. ~SkipZeroBytes(d, rd).out /\ SkipZeroBytes(d, rd).zeros = z
        /\ StandsAt(SkipZeroBytes(d, rd).r, u, b + z + 1)
    <3>1. b % 8 = 0
      BY <1>8
    <3> QED
      BY <3>1, ZeroBytesInside
  <2> HIDE DEF skip
  <2> QED
    BY <1>7, <2>1, <2>2, Zenon DEF skip
<1>9. CASE s # 0
  <2>1. n \in 1 .. 7 /\ n \in Nat /\ n > 0 /\ n \in Widths /\ b + n <= 8 * N /\ s + n = 8
    <3> HIDE DEF s, q, N
    <3> QED
      BY <1>1, <1>3, <1>4, <1>9 DEF Widths
  <2>2. read = Look(d, rd, n)
    BY <1>3
  <2> HIDE DEF read, n, d, skip, s, q, N
  <2>3. /\ read.r \in Reader /\ read.r.shift = rd.shift
        /\ read.r.off = PlacesRead(d, rd, n)[0]
        /\ read.r.end = rd.end /\ read.r.rbsp = rd.rbsp
        /\ read.bits = BitsRead(d, rd, n)
        /\ read.bits \in Seq(Bit) /\ Len(read.bits) = n
    BY <1>1, <2>1, <2>2, LookType
  <2>4. PlacesRead(d, rd, n)[0] = u.place[q + 1]
    <3> DEFINE last == LastByte(rd, n)
    <3>1. /\ last \in 0 .. 4
          /\ \A k \in 0 .. last : PlacesRead(d, rd, n)[k] = u.place[q + k + 1]
      BY <1>2, <2>1, BytesInside DEF d, q, N
    <3> HIDE DEF last
    <3>2. 0 \in 0 .. last /\ q + 0 + 1 = q + 1
      BY <1>4, <3>1
    <3> QED
      BY <3>1, <3>2
  <2>5. \A i \in 1 .. n : read.bits[i] = all[b + i]
    <3>1. \A i \in 1 .. n : BitsRead(d, rd, n)[i] = all[b + i]
      BY <1>2, <2>1, BitsInside DEF d, N
    <3> QED
      BY <2>3, <3>1
  <2> DEFINE bits == read.bits
  <2>6. read.r \in Loose /\ read.r.off = u.place[q + 1] /\ read.r.shift = s
    BY <1>3, <2>3, <2>4, ReaderLoose
  <2>7. ASSUME NEW m \in Nat, m > 0, s + m <= 8
        PROVE  StandsAt(Advance(read.r, m), u, b + m)
    <3>1. 8 * q + s + m = b + m
      BY <1>4
    <3>2. StandsAt(Advance(read.r, m), u, 8 * q + s + m)
      BY <1>1, <1>3, <1>4, <2>6, <2>7, AdvanceInByte DEF N
    <3> QED
      BY <3>1, <3>2
  <2> HIDE DEF all, bits
  <2>8. bits \in Seq(Bit) /\ Len(bits) = n /\ \A i \in 1 .. n : bits[i] = all[b + i]
    BY <2>3, <2>5 DEF bits
  <2>9. CASE z < n
    <3>1. z \in 0 .. Len(bits) /\ z < Len(bits) /\ z + 1 \in 1 .. n /\ z \in Nat
      BY <1>2, <2>1, <2>8, <2>9
    <3>2. bits[z + 1] = 1
      <4> DEFINE j == z + 1
      <4>1. all[b + j] = 1
        <5>1. b + j = b + z + 1
          BY <1>2
        <5> QED
          BY <1>2, <5>1
      <4> HIDE DEF j
      <4>2. bits[j] = 1
        BY <2>8, <3>1, <4>1 DEF j
      <4> QED
        BY <4>2 DEF j
    <3>3. \A i \in 1 .. z : bits[i] = 0
      BY <1>2, <2>8, <3>1
    <3>4. lead = z
      <4>1. LeadingZeros(bits) = z
        BY <2>8, <3>1, <3>2, <3>3, FirstOne
      <4> QED
        BY <4>1 DEF bits
    <3> HIDE DEF lead
    <3>5. skip = [r |-> Advance(read.r, lead + 1), zeros |-> lead, out |-> FALSE]
      <4>1. lead < 8 - rd.shift /\ rd.shift # 0
        BY <1>3, <1>9, <2>9, <3>4 DEF n
      <4> QED
        BY <1>5, <4>1
    <3>6. skip.r = Advance(read.r, z + 1) /\ skip.zeros = z /\ ~skip.out
      BY <3>4, <3>5
    <3>7. StandsAt(Advance(read.r, z + 1), u, b + (z + 1))
      <4>1. z + 1 \in Nat /\ z + 1 > 0 /\ s + (z + 1) <= 8
        BY <1>4, <2>1, <2>9, <3>1 DEF n
      <4> QED
        BY <2>7, <4>1
    <3>8. b + (z + 1) = b + z + 1
      BY <1>2
    <3> QED
      BY <1>7, <3>6, <3>7, <3>8 DEF skip, d
  <2>10. CASE z >= n
    <3>1. n \in 0 .. Len(bits) /\ ~(n < Len(bits)) /\ n \in 0 .. z
      BY <1>2, <2>1, <2>8, <2>10
    <3>2. \A i \in 1 .. n : bits[i] = 0
      BY <1>2, <2>8, <3>1
    <3>3. lead = n
      <4>1. LeadingZeros(bits) = n
        BY <2>8, <3>1, <3>2, FirstOne
      <4> QED
        BY <4>1 DEF bits
    <3> HIDE DEF lead
    <3>4. skip = [rest EXCEPT !.zeros = (@ + lead) % 256]
      <4>1. ~(lead < 8 - rd.shift) /\ rd.shift # 0
        BY <1>3, <1>9, <2>1, <3>3 DEF n
      <4> QED
        BY <1>5, <4>1
    <3>5. next \in Reader /\ Alike(rd, next)
      <4>1. /\ Advance(read.r, lead) \in Reader
            /\ Advance(read.r, lead).end = read.r.end
            /\ Advance(read.r, lead).rbsp = read.r.rbsp
        <5>1. lead \in Nat
          BY <2>1, <3>3
        <5> QED
          BY <2>6, <5>1, AdvanceType, Zenon
      <4> QED
        BY <2>3, <4>1, Zenon DEF Alike
    <3>6. StandsAt(next, u, b + n)
      BY <2>1, <2>7, <3>3
    <3> HIDE DEF next
    <3>7. Inside(f, u, next)
      BY <3>5, InsideAlike
    <3>8. Code(u, b + n, z - n)
      BY <3>1, CodeShorter
    <3>9. (b + n) % 8 = 0 /\ (b + n) + (z - n) + 1 = b + z + 1
      BY <1>2, <1>4, <2>1
    <3> DEFINE c == b + n
               y == z - n
    <3>10. ~rest.out /\ rest.zeros = y /\ StandsAt(rest.r, u, c + y + 1)
      <4> HIDE DEF c, y
      <4>1. Code(u, c, y) /\ c % 8 = 0 /\ StandsAt(next, u, c)
        BY <3>6, <3>8, <3>9 DEF c, y
      <4> QED
        BY <3>7, <4>1, ZeroBytesInside DEF d
    <3>11. rest \in Skips
      BY <1>1, <3>5, SkipZeroBytesType
    <3> HIDE DEF rest
    <3>12. skip.r = rest.r /\ skip.out = rest.out /\ skip.zeros = (rest.zeros + lead) % 256
      BY <3>4, <3>11 DEF Skips
    <3>13. (rest.zeros + lead) % 256 = z
      <4>1. rest.zeros + lead = z
        BY <1>2, <2>1, <3>3, <3>10
      <4>2. z % 256 = z
        BY <1>2
      <4> QED
        BY <4>1, <4>2
    <3>14. StandsAt(skip.r, u, b + z + 1)
      BY <3>9, <3>10, <3>12
    <3>15. ~skip.out /\ skip.zeros = z
      BY <3>10, <3>12, <3>13
    <3> QED
      BY <1>7, <3>14, <3>15 DEF skip, d
  <2> QED
    <3>1. z < n \/ z >= n
      BY <1>2, <2>1
    <3> QED
      BY <2>9, <2>10, <3>1
<1> QED
  BY <1>8, <1>9

(* The m bits x are those of `all' after the first b.                      *)
Matches(x, m, all, b) ==
  /\ x \in Seq(Bit) /\ Len(x) = m /\ m \in Nat /\ b \in Nat
  /\ \A i \in 1 .. m : x[i] = all[b + i]

LEMMA Follows ==
  ASSUME NEW x, NEW y, NEW all, NEW b, NEW m, NEW n,
         Matches(x, m, all, b), Matches(y, n, all, b + m)
  PROVE  Matches(x \o y, m + n, all, b)
<1>1. /\ x \in Seq(Bit) /\ Len(x) = m /\ m \in Nat /\ b \in Nat
      /\ \A i \in 1 .. m : x[i] = all[b + i]
      /\ y \in Seq(Bit) /\ Len(y) = n /\ n \in Nat
      /\ \A i \in 1 .. n : y[i] = all[b + m + i]
  BY DEF Matches
<1>2. /\ x \o y \in Seq(Bit) /\ Len(x \o y) = m + n
      /\ \A i \in 1 .. m : (x \o y)[i] = x[i]
      /\ \A i \in 1 .. n : (x \o y)[m + i] = y[i]
  <2>1. x \in Seq(Bit) /\ y \in Seq(Bit) /\ Len(x) = m /\ Len(y) = n
    BY <1>1
  <2>2. x \o y \in Seq(Bit) /\ Len(x \o y) = m + n
    BY <2>1
  <2>3. /\ \A i \in 1 .. m : (x \o y)[i] = x[i]
        /\ \A i \in 1 .. n : (x \o y)[m + i] = y[i]
    BY <2>1, Joined
  <2> QED
    BY <2>2, <2>3
<1>3. ASSUME NEW i \in 1 .. m + n PROVE (x \o y)[i] = all[b + i]
  <2>1. CASE i <= m
    <3>1. i \in 1 .. m
      BY <1>1, <2>1
    <3> QED
      BY <1>1, <1>2, <3>1
  <2>2. CASE i > m
    <3> DEFINE j == i - m
    <3>1. j \in 1 .. n /\ m + j = i /\ b + m + j = b + i
      BY <1>1, <2>2
    <3> HIDE DEF j
    <3>2. (x \o y)[m + j] = all[b + m + j]
      BY <1>1, <1>2, <3>1
    <3> QED
      BY <3>1, <3>2
  <2> QED
    BY <1>1, <2>1, <2>2
<1>4. m + n \in Nat
  BY <1>1
<1> QED
  BY <1>1, <1>2, <1>3, <1>4 DEF Matches

LEMMA MatchesEmpty ==
  ASSUME NEW x, NEW m, NEW all, NEW b, Matches(x, m, all, b)
  PROVE  x \o <<>> = x
<1>1. x \in Seq(Bit)
  BY DEF Matches
<1> QED
  BY <1>1

(* A code of a unit is read as its author wrote it.                        *)
LEMMA CodeInside ==
  ASSUME NEW f, NEW u, NEW s, NEW b, Taken(f, u, s, b), NEW z, Code(u, b, z),
         b + 2 * z + 1 <= 8 * Len(u.rbsp)
  PROVE  LET code == ReadUe(f.bytes, s.r)
         IN  /\ ~code.out /\ ~code.bad
             /\ Taken(f, u, Read(code.r, s.bits \o code.bits, FALSE), b + 2 * z + 1)
<1> DEFINE d == f.bytes
           rd == s.r
           N == Len(u.rbsp)
           all == RbspBits(u)
           code == ReadUe(d, rd)
           prefix == SkipLeadingZeros(d, rd)
           suffix == ReadU(d, prefix.r, prefix.zeros)
           start == Zeros(z) \o <<1>>
           c == b + 2 * z + 1
           m == z + 1
<1>1. /\ s \in Reads /\ ~s.out /\ Len(s.bits) = b /\ Inside(f, u, rd) /\ b \in Nat
      /\ StandsAt(rd, u, b) /\ \A i \in 1 .. b : s.bits[i] = all[i]
  BY DEF Taken
<1>2. Mapped(d) /\ rd \in Reader /\ N \in Nat
  BY <1>1, UnitFacts DEF Inside
<1>3. s.bits \in Seq(Bit)
  BY <1>1 DEF Reads
<1>4. /\ z \in 0 .. 31 /\ b + z < 8 * N
      /\ (\A i \in 1 .. z : all[b + i] = 0) /\ all[b + z + 1] = 1
  BY DEF Code
<1>5. /\ ~prefix.out /\ prefix.zeros = z
      /\ StandsAt(prefix.r, u, b + z + 1) /\ Inside(f, u, prefix.r)
  <2> HIDE DEF rd
  <2> QED
    BY <1>1, ZerosInside
<1>6. /\ code.r \in Reader
      /\ code.bits \in Seq(Bit) /\ code.out \in BOOLEAN /\ code.bad \in BOOLEAN
      /\ IF prefix.zeros \in 1 .. 31
         THEN /\ code.r = suffix.r
              /\ code.bits = Zeros(prefix.zeros) \o <<1>> \o suffix.bits
              /\ code.out <=> prefix.out \/ suffix.out
         ELSE /\ code.r = prefix.r
              /\ code.bits = Zeros(prefix.zeros) \o <<1>> \o <<>>
              /\ code.out <=> prefix.out
      /\ code.bad <=> ~prefix.out /\ prefix.zeros > 31
  <2> HIDE DEF d, rd
  <2> QED
    BY <1>2, ReadUeType
<1> HIDE DEF d, rd, code, prefix, N, all
<1>7. Matches(start, m, all, b) /\ m \in Nat /\ b + m = b + z + 1
  <2> DEFINE zs == Zeros(z)
             one == <<1>>
  <2>1. z \in Nat /\ b + z \in Nat /\ z + 1 \in Nat /\ b + (z + 1) = b + z + 1
    BY <1>1, <1>4
  <2>2. zs \in Seq(Bit) /\ Len(zs) = z /\ \A i \in 1 .. z : zs[i] = 0
    BY <2>1, ZerosType
  <2>3. one \in Seq(Bit) /\ Len(one) = 1 /\ one[1] = 1 /\ 1 \in Nat
    BY DEF Bit
  <2> HIDE DEF zs, one
  <2>4. Matches(zs, z, all, b)
    BY <1>1, <1>4, <2>1, <2>2 DEF Matches
  <2>5. Matches(one, 1, all, b + z)
    <3>1. \A i \in 1 .. 1 : one[i] = all[b + z + i]
      BY <1>4, <2>3
    <3> QED
      BY <2>1, <2>3, <3>1 DEF Matches
  <2>6. Matches(zs \o one, z + 1, all, b)
    BY <2>4, <2>5, Follows
  <2> QED
    BY <2>1, <2>6 DEF zs, one
<1> HIDE DEF start, suffix, c, m
<1>8. c \in Nat /\ 2 * z + 1 \in Nat /\ c = b + (2 * z + 1)
  <2>1. b \in Nat /\ z \in Nat
    BY <1>1, <1>4
  <2> QED
    BY <2>1 DEF c
<1>9. ~code.bad
  BY <1>4, <1>5, <1>6
<1>10. /\ Matches(code.bits, 2 * z + 1, all, b)
       /\ ~code.out /\ StandsAt(code.r, u, c) /\ Inside(f, u, code.r)
  <2>1. CASE z = 0
    <3>1. code.r = prefix.r /\ code.bits = Zeros(z) \o <<1>> \o <<>> /\ (code.out <=> prefix.out)
      BY <1>5, <1>6, <2>1
    <3>2. code.bits = start
      <4>1. start \o <<>> = start
        BY <1>7, MatchesEmpty
      <4> QED
        BY <3>1, <4>1 DEF start
    <3>3. c = b + z + 1 /\ 2 * z + 1 = m
      BY <1>1, <2>1 DEF c, m
    <3>4. StandsAt(code.r, u, c) /\ Inside(f, u, code.r)
      BY <1>5, <3>1, <3>3
    <3> QED
      BY <1>5, <1>7, <3>1, <3>2, <3>3, <3>4
  <2>2. CASE z # 0
    <3>1. z \in 1 .. 31 /\ z \in Widths /\ z \in Nat
      BY <1>4, <2>2 DEF Widths
    <3>2. /\ code.r = suffix.r /\ code.bits = start \o suffix.bits
          /\ code.out <=> prefix.out \/ suffix.out
      BY <1>5, <1>6, <3>1 DEF start
    <3> DEFINE e == b + z + 1
    <3>3. e \in Nat /\ e + z = c /\ e + z <= 8 * N /\ b + m = e /\ m + z = 2 * z + 1
      <4>1. b \in Nat /\ b + 2 * z + 1 <= 8 * N
        BY <1>1 DEF N
      <4> QED
        BY <3>1, <4>1 DEF c, m
    <3>4. suffix = ReadU(d, prefix.r, z)
      BY <1>5 DEF suffix
    <3> HIDE DEF e
    <3>5. StandsAt(prefix.r, u, e)
      BY <1>5 DEF e
    <3>6. /\ ~suffix.out /\ suffix.bits \in Seq(Bit) /\ Len(suffix.bits) = z
          /\ \A i \in 1 .. z : suffix.bits[i] = all[e + i]
          /\ StandsAt(suffix.r, u, e + z) /\ Inside(f, u, suffix.r)
      <4> DEFINE read == ReadU(d, prefix.r, z)
      <4>1. /\ ~read.out /\ read.bits \in Seq(Bit) /\ Len(read.bits) = z
            /\ \A i \in 1 .. z : read.bits[i] = all[e + i]
            /\ StandsAt(read.r, u, e + z) /\ Inside(f, u, read.r)
        BY <1>5, <3>1, <3>3, <3>5, UnitRead DEF d, N, all
      <4> HIDE DEF read
      <4> QED
        BY <3>4, <4>1 DEF read
    <3> DEFINE y == suffix.bits
    <3>7. Matches(y, z, all, e)
      BY <3>1, <3>3, <3>6 DEF Matches
    <3> HIDE DEF y
    <3>8. Matches(start \o y, m + z, all, b)
      BY <1>7, <3>3, <3>7, Follows
    <3> QED
      BY <1>5, <3>2, <3>3, <3>6, <3>8 DEF y
  <2> QED
    BY <2>1, <2>2
<1> DEFINE x == s.bits
           y == code.bits
           to == Read(code.r, x \o y, FALSE)
<1>11. Matches(x \o y, c, all, 0)
  <2> HIDE DEF y
  <2>1. Matches(x, b, all, 0)
    <3>1. 0 \in Nat /\ \A i \in 1 .. b : x[i] = all[0 + i]
      BY <1>1
    <3> HIDE DEF x
    <3> QED
      BY <1>1, <1>3, <3>1 DEF Matches, x
  <2> HIDE DEF x
  <2>2. Matches(y, 2 * z + 1, all, 0 + b)
    <3>1. 0 + b = b
      BY <1>1
    <3> QED
      BY <1>10, <3>1 DEF y
  <2>3. Matches(x \o y, b + (2 * z + 1), all, 0)
    BY <2>1, <2>2, Follows
  <2> QED
    BY <1>8, <2>3
<1> HIDE DEF x, y
<1>12. x \o y \in Seq(Bit) /\ Len(x \o y) = c /\ c \in Nat
       /\ \A i \in 1 .. c : (x \o y)[i] = all[0 + i]
  BY <1>11 DEF Matches
<1>13. \A i \in 1 .. c : (x \o y)[i] = all[i]
  BY <1>12
<1>14. to \in Reads /\ ~to.out /\ Len(to.bits) = c /\ to.r = code.r /\ to.bits = x \o y
  <2> DEFINE xy == x \o y
  <2>1. xy \in Seq(Bit) /\ Len(xy) = c
    BY <1>12
  <2> HIDE DEF xy
  <2>2. /\ Read(code.r, xy, FALSE) \in Reads /\ ~Read(code.r, xy, FALSE).out
        /\ Read(code.r, xy, FALSE).r = code.r /\ Read(code.r, xy, FALSE).bits = xy
    BY <1>6, <2>1 DEF Read, Reads
  <2> QED
    BY <2>1, <2>2 DEF xy
<1> HIDE DEF to
<1>15. Taken(f, u, to, c)
  BY <1>10, <1>12, <1>13, <1>14 DEF Taken, all
<1> QED
  BY <1>9, <1>10, <1>15 DEF to, x, y, c, code, d, rd

(* A parser that asks for no more than its unit holds reads a code of it.  *)
Ahead(u, b) == SubSeq(RbspBits(u), b + 1, DataBits(u))

Allowed(syntax, z) ==
  /\ z = LeadingZeros(syntax)
  /\ z < 32
  /\ 2 * z + 1 <= Len(syntax)

LEMMA CodeAhead ==
  ASSUME NEW f, NEW u, UnitOf(f, u), NEW b \in Nat, b <= DataBits(u),
         NEW z, Allowed(Ahead(u, b), z)
  PROVE  Code(u, b, z) /\ b + 2 * z + 1 <= DataBits(u)
<1> DEFINE D == DataBits(u)
           N == 8 * Len(u.rbsp)
           all == RbspBits(u)
           m == b + 1
           syntax == Ahead(u, b)
<1>1. D \in Nat /\ D < N /\ b <= D /\ N \in Nat
  BY DataBitsAre, UnitFacts
<1>2. all \in Seq(Bit) /\ Len(all) = N
  BY RbspBitsAre
<1>3. m \in 1 .. Len(all) + 1 /\ D \in m - 1 .. Len(all) /\ D - m + 1 = D - b
  BY <1>1, <1>2
<1>4. syntax = SubSeq(all, m, D)
  BY DEF Ahead
<1> HIDE DEF all, D, m, N, syntax
<1>5. /\ syntax \in Seq(Bit) /\ Len(syntax) = D - b
      /\ \A i \in 1 .. D - b : syntax[i] = all[m + i - 1]
  <2>1. /\ SubSeq(all, m, D) \in Seq(Bit) /\ Len(SubSeq(all, m, D)) = D - m + 1
        /\ \A i \in 1 .. D - m + 1 : SubSeq(all, m, D)[i] = all[m + i - 1]
    BY <1>2, <1>3, Part
  <2> QED
    BY <1>3, <1>4, <2>1
<1>6. ASSUME NEW i \in 1 .. D - b PROVE syntax[i] = all[b + i]
  <2>1. m + i - 1 = b + i
    BY DEF m
  <2> QED
    BY <1>5, <2>1
<1>7. /\ z \in 0 .. Len(syntax) /\ \A i \in 1 .. z : syntax[i] = 0
      /\ z < Len(syntax) => syntax[z + 1] = 1
  <2>1. z = LeadingZeros(syntax)
    BY Zenon DEF Allowed, syntax
  <2> QED
    BY <1>5, <2>1, LeadingZerosAre
<1>8. z \in 0 .. 31 /\ b + 2 * z + 1 <= D /\ z + 1 \in 1 .. D - b /\ b + z < N
      /\ z < Len(syntax)
  <2> DEFINE l == Len(syntax)
  <2>1. l = D - b /\ z \in 0 .. l
    BY <1>5, <1>7
  <2>2. z < 32 /\ 2 * z + 1 <= l
    BY Zenon DEF Allowed, syntax
  <2> HIDE DEF l
  <2>3. z \in 0 .. 31 /\ b + 2 * z + 1 <= D /\ z + 1 \in 1 .. D - b /\ b + z < N
        /\ z < l
    BY <1>1, <2>1, <2>2
  <2> QED
    BY <2>3 DEF l
<1>9. ASSUME NEW i \in 1 .. z PROVE all[b + i] = 0
  <2>1. i \in 1 .. D - b
    BY <1>1, <1>8
  <2> QED
    BY <1>6, <1>7, <2>1
<1>10. all[b + z + 1] = 1
  <2> DEFINE j == z + 1
  <2>1. syntax[j] = 1 /\ j \in 1 .. D - b /\ b + j = b + z + 1
    <3>1. z \in 0 .. 31 /\ j \in 1 .. D - b /\ z < Len(syntax)
      BY <1>8
    <3>2. syntax[z + 1] = 1
      BY <1>7, <3>1
    <3>3. b + j = b + z + 1
      BY <3>1
    <3> QED
      BY <3>1, <3>2, <3>3
  <2> HIDE DEF j
  <2>2. all[b + j] = 1
    BY <1>6, <2>1
  <2> QED
    BY <2>1, <2>2
<1> QED
  BY <1>8, <1>9, <1>10 DEF Code, all, N, D

-----------------------------------------------------------------------------
(***************************************************************************)
(* The units of a sound file.                                              *)
(***************************************************************************)
LEMMA UnitOfFile ==
  ASSUME NEW f, FileType(f), SoundFile(f), NEW i \in 1 .. Len(f.units)
  PROVE  UnitOf(f, f.units[i])
<1>1. f.units \in Seq(UnitType) /\ DOMAIN f.units = 1 .. Len(f.units)
  BY DEF FileType
<1>2. f.units[i] \in UnitType
  BY <1>1, SeqElement
<1>3. SoundUnit(f, f.units[i])
  BY <1>1, Zenon DEF SoundFile
<1> QED
  BY <1>2, <1>3 DEF UnitOf

LEMMA UnitsApart ==
  ASSUME NEW f, FileType(f), SoundFile(f), NEW i \in 1 .. Len(f.units),
         NEW j \in 1 .. Len(f.units), i < j
  PROVE  /\ f.units[i].at + f.units[i].len + StartCodeSz <= f.units[j].at
         /\ f.units[i].at \in Nat /\ f.units[i].len \in Nat /\ f.units[j].at \in Nat
         /\ f.units[i].at + f.units[i].len <= f.units[j].at
<1>1. DOMAIN f.units = 1 .. Len(f.units)
  BY DEF FileType
<1>2. f.units[i].at + f.units[i].len + StartCodeSz <= f.units[j].at
  BY <1>1, Zenon DEF SoundFile
<1>3. UnitOf(f, f.units[i]) /\ UnitOf(f, f.units[j])
  BY UnitOfFile
<1> DEFINE a == f.units[i].at
           l == f.units[i].len
           c == f.units[j].at
<1>4. a \in Nat /\ l \in Nat /\ c \in Nat
  BY <1>3, UnitFacts
<1>5. a + l + StartCodeSz <= c
  BY <1>2
<1> HIDE DEF a, l, c
<1>6. a + l <= c
  BY <1>4, <1>5 DEF StartCodeSz
<1> QED
  BY <1>4, <1>5, <1>6 DEF a, l, c

(* The unit the program is in is the last one dispatched.                  *)
LEMMA UnitIs ==
  ASSUME FileType(file), SoundFile(file), UnitKept, seen \in Seq(0 .. Width - 1), Past > 0
  PROVE  /\ Past \in 1 .. Len(Units) /\ UnitOf(file, Units[Past])
         /\ Unit = Units[Past] /\ nal = Units[Past].at
<1>1. Len(Units) \in Nat /\ DOMAIN Units = 1 .. Len(Units)
  BY DEF FileType, Units
<1>2. Past \in 1 .. Len(Units)
  BY <1>1 DEF UnitKept, Past
<1>3. UnitOf(file, Units[Past])
  BY <1>2, UnitOfFile DEF Units
<1>4. nal = Units[Past].at
  BY DEF UnitKept
<1> DEFINE Here(i) == file.units[i].at = nal
<1>5. Here(Past)
  BY <1>4 DEF Units
<1>6. ASSUME NEW i \in 1 .. Len(Units), Here(i) PROVE i = Past
  <2> DEFINE a == Units[i].at
             l == Units[i].len
             c == Units[Past].at
             m == Units[Past].len
  <2>1. UnitOf(file, Units[i])
    BY UnitOfFile DEF Units
  <2>2. a \in Nat /\ l \in Nat /\ c \in Nat /\ m \in Nat /\ a = c
    BY <1>3, <1>4, <1>6, <2>1, UnitFacts DEF Units
  <2>3. i < Past => a + l + StartCodeSz <= c
    BY <1>2, UnitsApart DEF Units
  <2>4. Past < i => c + m + StartCodeSz <= a
    BY <1>2, UnitsApart DEF Units
  <2> HIDE DEF a, l, c, m
  <2>5. ~(i < Past) /\ ~(Past < i)
    BY <2>2, <2>3, <2>4 DEF StartCodeSz
  <2> QED
    BY <1>2, <2>5
<1>7. (CHOOSE i \in 1 .. Len(Units) : Here(i)) = Past
  <2> HIDE DEF Here
  <2> DEFINE c == CHOOSE i \in 1 .. Len(Units) : Here(i)
  <2>1. c \in 1 .. Len(Units) /\ Here(c)
    BY <1>2, <1>5, Zenon
  <2> HIDE DEF c
  <2>2. c = Past
    BY <1>6, <2>1
  <2> QED
    BY <2>2 DEF c
<1>8. Unit = Units[Past]
  <2>1. Unit = Units[CHOOSE i \in 1 .. Len(Units) : Here(i)]
    BY <1>1, Zenon DEF Unit, Units
  <2> HIDE DEF Here
  <2> QED
    BY <1>7, <2>1, Zenon
<1> QED
  BY <1>2, <1>3, <1>4, <1>8

LEMMA Delimited ==
  ASSUME NEW f, FileType(f), SoundFile(f), f.atoms = <<>>
  PROVE  SoundDelimited(f)
<1>1. ~SoundBoxed(f)
  BY DEF SoundBoxed
<1> QED
  BY <1>1, Zenon DEF SoundFile

LEMMA Boxed ==
  ASSUME NEW f, FileType(f), SoundFile(f), f.atoms # <<>>
  PROVE  SoundBoxed(f)
<1>1. ~SoundDelimited(f)
  BY Zenon DEF SoundDelimited
<1> QED
  BY <1>1, Zenon DEF SoundFile

LEMMA StartCodeZero ==
  ASSUME NEW d, NEW o \in Nat, StartCode(d, o) > 0
  PROVE  ByteAt(d, o) = 0
<1>1. StartCode(d, o) # 0
  BY StartCodeIs
<1>2. ByteAt(d, o + 0) = 0
  <2>1. \/ \A i \in 0 .. 2 : ByteAt(d, o + i) = 0
        \/ \A i \in 0 .. 1 : ByteAt(d, o + i) = 0
    BY <1>1, Zenon DEF StartCode
  <2>2. 0 \in 0 .. 2 /\ 0 \in 0 .. 1
    OBVIOUS
  <2> QED
    BY <2>1, <2>2, Zenon
<1>3. o + 0 = o
  OBVIOUS
<1> QED
  BY <1>2, <1>3

(* A start code behind the i-th unit is the one before the next unit, or   *)
(* behind that.                                                            *)
LEMMA CodeBefore ==
  ASSUME NEW f, FileType(f), SoundFile(f), f.atoms = <<>>,
         NEW o \in 0 .. Len(f.bytes), NEW c \in {3, 4}, StartCode(f.bytes, o) = c,
         NEW i \in 0 .. Len(f.units), i > 0 => f.units[i].at <= o
  PROVE  /\ i + 1 \in 1 .. Len(f.units)
         /\ f.units[i + 1].at <= o + c
         /\ o + StartCodeSz <= f.units[i + 1].at => f.units[i + 1].at = o + c
<1> DEFINE n == Len(f.units)
           at(j) == f.units[j].at
<1>1. n \in Nat /\ DOMAIN f.units = 1 .. n /\ o \in Nat
  BY DEF FileType
<1>2. PICK j \in 1 .. n : at(j) = o + c
  <2>1. SoundDelimited(f)
    BY Delimited
  <2>2. StartCode(f.bytes, o) > 0
    OBVIOUS
  <2>3. \E j \in DOMAIN f.units : f.units[j].at = o + StartCode(f.bytes, o)
    BY <2>1, <2>2, Zenon DEF SoundDelimited
  <2> QED
    BY <1>1, <2>3, Zenon
<1>3. ASSUME NEW k \in 1 .. n, NEW l \in 1 .. n, k < l
      PROVE  at(k) + StartCodeSz <= at(l) /\ at(k) \in Nat
  <2> DEFINE a == f.units[k].at
             e == f.units[k].len
             b == f.units[l].at
  <2>1. a + e + StartCodeSz <= b /\ a \in Nat /\ e \in Nat /\ b \in Nat
    BY <1>3, UnitsApart
  <2> HIDE DEF a, e, b
  <2>2. a + StartCodeSz <= b /\ a \in Nat
    BY <2>1 DEF StartCodeSz
  <2> QED
    BY <2>2 DEF a, b
<1>11. ASSUME NEW k \in 1 .. n PROVE at(k) \in Nat
  BY UnitOfFile, UnitFacts
<1> HIDE DEF at, n
<1>4. at(j) > o
  BY <1>1, <1>2
<1>5. i < j
  <2>1. CASE i = 0
    BY <2>1
  <2>2. CASE i > 0
    <3>1. i \in 1 .. n /\ at(i) <= o /\ at(i) \in Nat
      BY <1>11, <2>2 DEF n, at
    <3>2. i # j
      <4>1. i = j => at(i) = at(j)
        OBVIOUS
      <4> DEFINE a == at(i)
                 e == at(j)
      <4>2. a <= o /\ a \in Nat /\ e = o + c
        BY <1>2, <3>1
      <4> HIDE DEF a, e
      <4>3. a # e
        BY <1>1, <4>2
      <4> QED
        BY <4>1, <4>3 DEF a, e
    <3>3. j < i => at(j) + StartCodeSz <= at(i)
      BY <1>3, <3>1
    <3>4. ~(j < i)
      <4> DEFINE a == at(i)
                 e == at(j)
      <4>1. a <= o /\ a \in Nat /\ e = o + c /\ (j < i => e + StartCodeSz <= a)
        BY <1>2, <3>1, <3>3
      <4> HIDE DEF a, e
      <4> QED
        BY <1>1, <4>1 DEF StartCodeSz
    <3> QED
      BY <3>1, <3>2, <3>4
  <2> QED
    BY <2>1, <2>2
<1> DEFINE k == i + 1
<1>6. k \in 1 .. n /\ k <= j
  BY <1>1, <1>5
<1> HIDE DEF k
<1>7. k < j => at(k) + StartCodeSz <= o + c /\ at(k) \in Nat
  BY <1>2, <1>3, <1>6
<1>8. k = j => at(k) = o + c
  BY <1>2
<1>9. at(k) <= o + c
  <2>1. CASE k < j
    BY <1>1, <1>7, <2>1 DEF StartCodeSz
  <2>2. CASE k = j
    BY <1>1, <1>8, <2>2
  <2> QED
    BY <1>6, <2>1, <2>2
<1>10. ASSUME o + StartCodeSz <= at(k) PROVE at(k) = o + c
  <2>1. ~(k < j)
    BY <1>1, <1>7, <1>10 DEF StartCodeSz
  <2> QED
    BY <1>6, <1>8, <2>1
<1> QED
  BY <1>6, <1>9, <1>10 DEF at, k, n

(* The bit that is tested, and what is read up to the end of its byte      *)
Tested(f, u, rd, b) ==
  LET stop == ReadU(f.bytes, rd, 1)
      align == ReadAlign(f.bytes, Switched(stop.r, FALSE))
      q == b \div 8
  IN  /\ ~stop.out /\ stop.bits = <<RbspBits(u)[b + 1]>>
      /\ ~align.out /\ align.r \in Reader /\ align.r.end = rd.end
      /\ align.r.off = u.place[q + 1] + 1
      /\ DOMAIN align.bits = 1 .. 8 * q + 7 - b
      /\ \A i \in 1 .. 8 * q + 7 - b : align.bits[i] = RbspBits(u)[b + 1 + i]

LEMMA StopInside ==
  ASSUME NEW f, NEW u, NEW rd, Inside(f, u, rd), NEW b \in Nat, b < 8 * Len(u.rbsp),
         StandsAt(rd, u, b)
  PROVE  Tested(f, u, rd, b)
<1> DEFINE d == f.bytes
           N == Len(u.rbsp)
           all == RbspBits(u)
           q == b \div 8
           stop == ReadU(d, rd, 1)
           to == Switched(stop.r, FALSE)
           align == ReadAlign(d, to)
           s == to.shift
           at == u.place[q + 1]
           e == u.at + u.len
           c == b + 1
<1>1. UnitOf(f, u) /\ Mapped(d) /\ N \in Nat /\ rd \in Reader
      /\ e <= rd.end /\ u.at \in Nat /\ u.len \in Nat
  BY UnitFacts DEF Inside
<1>2. /\ ~stop.out /\ stop.bits \in Seq(Bit) /\ Len(stop.bits) = 1
      /\ \A i \in 1 .. 1 : stop.bits[i] = all[b + i]
      /\ StandsAt(stop.r, u, c) /\ stop.r \in Reader /\ stop.r.end = rd.end
  <2> DEFINE n == 1
  <2>1. n \in Widths /\ b + n <= 8 * N
    BY <1>1 DEF Widths
  <2> HIDE DEF n
  <2>2. LET read == ReadU(f.bytes, rd, n)
        IN  /\ ~read.out /\ read.bits \in Seq(Bit) /\ Len(read.bits) = n
            /\ \A i \in 1 .. n : read.bits[i] = all[b + i]
            /\ StandsAt(read.r, u, b + n) /\ Inside(f, u, read.r) /\ read.r.end = rd.end
    BY <2>1, UnitRead
  <2> QED
    BY <2>2, Zenon DEF n, Inside
<1>3. stop.bits = <<all[b + 1]>>
  <2> DEFINE bits == stop.bits
             x == all[b + 1]
  <2>1. bits \in Seq(Bit) /\ Len(bits) = 1 /\ bits[1] = x
    BY <1>2
  <2> HIDE DEF bits, x
  <2>2. bits = <<x>>
    BY <2>1
  <2> QED
    BY <2>2 DEF bits, x
<1> HIDE DEF stop
<1>4. to \in Reader /\ to.off = stop.r.off /\ s = stop.r.shift /\ to.end = rd.end
  BY <1>2, SwitchedReader
<1>5. at \in Nat /\ at < e /\ ByteAt(d, at) = u.rbsp[q + 1] /\ u.rbsp[q + 1] \in Byte
      /\ q + 1 \in 1 .. N
  <2> DEFINE p == q + 1
  <2>1. p \in 1 .. N
    BY <1>1
  <2> HIDE DEF p, N
  <2>2. u.place[p] \in Nat /\ u.place[p] < e /\ ByteAt(d, u.place[p]) = u.rbsp[p]
        /\ u.rbsp[p] \in Byte
    BY <1>1, <2>1, PlaceInUnit, UnitFacts DEF N
  <2> QED
    BY <2>1, <2>2 DEF p
<1>6. rd.end \in 0 .. Width - 1 /\ e \in Nat /\ Width \in Nat
  BY <1>1, ReaderLoose, UnitFacts
<1>7. /\ s = c % 8 /\ s \in 0 .. 7
      /\ to.off = IF s # 0 THEN u.place[(c \div 8) + 1]
                  ELSE IF c = 0 THEN u.at ELSE u.place[c \div 8] + 1
  <2>1. stop.r.shift = c % 8
        /\ stop.r.off = IF c % 8 # 0 THEN u.place[(c \div 8) + 1]
                        ELSE IF c = 0 THEN u.at ELSE u.place[c \div 8] + 1
    BY <1>2 DEF StandsAt
  <2>2. c % 8 \in 0 .. 7
    OBVIOUS
  <2> QED
    BY <1>4, <2>1, <2>2
<1>8. to.off = IF s # 0 THEN at ELSE at + 1
  <2>1. CASE s # 0
    <3>1. c \div 8 = q
      <4>1. c % 8 # 0
        BY <1>7, <2>1
      <4> QED
        BY <4>1
    <3> QED
      BY <1>7, <2>1, <3>1
  <2>2. CASE s = 0
    <3>1. c \div 8 = q + 1 /\ c # 0
      <4>1. c % 8 = 0
        BY <1>7, <2>2
      <4> QED
        BY <4>1
    <3> QED
      BY <1>7, <2>2, <3>1
  <2> QED
    BY <2>1, <2>2
<1> HIDE DEF to
<1>9. /\ align.r \in Reader
      /\ align.r.off = (to.off + InByte(s)) % Width
      /\ align.r.end = to.end
      /\ align.bits = SubSeq(Bits(ByteAt(d, to.off)), 1 + s, 8 * InByte(s))
      /\ align.out <=> s > 0 /\ ReachesEnd(to, 0)
  <2> HIDE DEF d
  <2> QED
    BY <1>1, <1>4, ReadAlignType
<1> HIDE DEF s, at, e, align
<1>10. align.r.off = at + 1
  <2>1. to.off + InByte(s) = at + 1
    BY <1>5, <1>7, <1>8 DEF InByte
  <2>2. at + 1 \in 0 .. Width - 1 /\ at + 1 \in Int
    BY <1>1, <1>5, <1>6
  <2> QED
    BY <1>9, <2>1, <2>2, OffsetWraps
<1>11. ~align.out
  <2>1. CASE s > 0
    <3>1. to.off = at /\ at \in 0 .. Width - 1 /\ at \in Int /\ at < to.end
      BY <1>1, <1>4, <1>5, <1>6, <1>7, <1>8, <2>1
    <3>2. (to.off + 0) % Width = at
      <4>1. to.off + 0 = at
        BY <3>1
      <4> QED
        BY <3>1, <4>1, OffsetWraps
    <3>3. ~ReachesEnd(to, 0)
      <4>1. ~(at >= to.end)
        BY <1>4, <1>6, <3>1
      <4> QED
        BY <3>2, <4>1 DEF ReachesEnd
    <3> QED
      BY <1>9, <3>3
  <2>2. CASE ~(s > 0)
    BY <1>9, <2>2
  <2> QED
    BY <2>1, <2>2
<1> DEFINE m == 8 * q + 7 - b
<1>12. m = IF s = 0 THEN 0 ELSE 8 - s
  BY <1>7
<1>13. DOMAIN align.bits = 1 .. m /\ \A i \in 1 .. m : align.bits[i] = all[c + i]
  <2>1. CASE s = 0
    <3>1. align.bits = <<>>
      <4> DEFINE x == Bits(ByteAt(d, to.off))
      <4>1. align.bits = SubSeq(x, 1, 0)
        BY <1>9, <2>1 DEF InByte
      <4>2. SubSeq(x, 1, 0) = <<>>
        OBVIOUS
      <4> QED
        BY <4>1, <4>2
    <3> QED
      BY <1>12, <2>1, <3>1
  <2>2. CASE s # 0
    <3> DEFINE x == Bits(u.rbsp[q + 1])
               h == 1 + s
               eight == 8
               part == SubSeq(x, h, eight)
    <3>1. align.bits = part
      <4>1. ByteAt(d, to.off) = u.rbsp[q + 1]
        BY <1>5, <1>8, <2>2
      <4>2. 8 * InByte(s) = 8
        BY <2>2 DEF InByte
      <4> QED
        BY <1>9, <4>1, <4>2
    <3>2. x \in Seq(Bit) /\ Len(x) = 8
      <4> DEFINE byte == u.rbsp[q + 1]
      <4>1. byte \in Byte
        BY <1>5
      <4> HIDE DEF byte
      <4>2. Bits(byte) \in Seq(Bit) /\ Len(Bits(byte)) = 8
        BY <4>1, BitsType
      <4> QED
        BY <4>2 DEF byte
    <3> HIDE DEF x
    <3>3. h \in 1 .. Len(x) + 1 /\ eight \in h - 1 .. Len(x) /\ eight - h + 1 = m
          /\ h = 1 + s
      BY <1>7, <1>12, <2>2, <3>2
    <3> HIDE DEF h, eight, m
    <3>4. /\ part \in Seq(Bit) /\ Len(part) = eight - h + 1
          /\ \A i \in 1 .. eight - h + 1 : part[i] = x[h + i - 1]
      BY <3>2, <3>3, Part
    <3> HIDE DEF part
    <3>5. DOMAIN part = 1 .. m
      BY <3>3, <3>4
    <3>6. ASSUME NEW i \in 1 .. m PROVE part[i] = all[c + i]
      <4> DEFINE g == 8 * q + s + i - 1
      <4>1. i \in 1 .. 8 /\ s + i \in 1 .. 8 /\ s + i - 1 \in 0 .. 7
        BY <1>7, <1>12, <2>2 DEF m
      <4>2. q \in Nat /\ c = 8 * q + s
        BY <1>7, <2>2
      <4>3. g \in Nat /\ g \div 8 = q /\ g % 8 = s + i - 1
        BY <1>7, <4>1, <4>2
      <4>4. g \in 0 .. 8 * N - 1
        <5>1. q + 1 \in 1 .. N /\ N \in Nat
          BY <1>1, <1>5
        <5> HIDE DEF q, N
        <5> QED
          BY <4>1, <4>2, <4>3, <5>1
      <4>5. g + 1 = c + i /\ 1 + (s + i - 1) = s + i /\ h + i - 1 = s + i
        <5>1. c = 8 * q + s /\ h = 1 + s /\ q \in Nat /\ s \in 0 .. 7 /\ i \in 1 .. 8
          BY <1>7, <3>3, <4>1, <4>2
        <5> HIDE DEF c, h, q, m
        <5> QED
          BY <5>1
      <4> HIDE DEF g, N, all, q
      <4>6. all[g + 1] = Bits(u.rbsp[(g \div 8) + 1])[1 + (g % 8)]
        BY <1>1, <4>4, RbspBitsAre DEF N, all
      <4>7. all[c + i] = x[s + i]
        BY <4>3, <4>5, <4>6 DEF x
      <4>8. part[i] = x[s + i]
        BY <3>3, <3>4, <4>5
      <4> QED
        BY <4>7, <4>8
    <3> QED
      BY <3>1, <3>5, <3>6
  <2> QED
    BY <2>1, <2>2
<1> QED
  BY <1>2, <1>3, <1>4, <1>9, <1>10, <1>11, <1>13, Zenon DEF align, to, stop, d, at, Tested

LEMMA FileFacts ==
  ASSUME NEW f, FileType(f)
  PROVE  /\ Mapped(f.bytes) /\ Len(f.bytes) \in Nat /\ Len(f.bytes) + 3 < Width
         /\ Width \in Nat /\ Len(f.bytes) \in 0 .. Width - 1
         /\ f.units \in Seq(UnitType) /\ Len(f.units) \in Nat
         /\ DOMAIN f.units = 1 .. Len(f.units)
         /\ f.atoms \in Seq([at : Nat, past : Nat]) /\ Len(f.atoms) \in Nat
<1>1. /\ f.bytes \in Seq(Byte) /\ Len(f.bytes) + 3 < Width
      /\ f.units \in Seq(UnitType)
      /\ f.atoms \in Seq([at : Nat, past : Nat])
  BY DEF FileType, StartCodeSz
<1>2. Len(f.bytes) \in Nat /\ Width \in Nat
  BY <1>1, WidthAssumption
<1> QED
  BY <1>1, <1>2 DEF Mapped

(* The start code of a unit                                                *)
LEMMA OwnCode ==
  ASSUME NEW f, FileType(f), SoundFile(f), f.atoms = <<>>, NEW i \in 1 .. Len(f.units)
  PROVE  /\ f.units[i].at \in Nat /\ f.units[i].at >= StartCodeSz
         /\ f.units[i].at < Len(f.bytes)
         /\ StartCode(f.bytes, f.units[i].at - StartCodeSz) = StartCodeSz
<1>1. SoundDelimited(f) /\ i \in DOMAIN f.units
  <2>1. SoundDelimited(f)
    BY Delimited
  <2>2. i \in DOMAIN f.units
    BY FileFacts
  <2> QED
    BY <2>1, <2>2
<1>2. /\ f.units[i].at >= StartCodeSz
      /\ StartCode(f.bytes, f.units[i].at - StartCodeSz) = StartCodeSz
  BY <1>1, Zenon DEF SoundDelimited
<1> DEFINE u == f.units[i]
           n == Len(u.rbsp)
           k == 1
<1>3. UnitOf(f, u)
  BY UnitOfFile
<1> HIDE DEF u, k
<1>4. k \in 1 .. n
  BY <1>3, UnitFacts DEF k
<1>5. u.place[k] < u.at + u.len
  BY <1>3, <1>4, PlaceInUnit
<1>6. u.place[k] = u.at /\ u.at \in Nat /\ u.len \in Nat /\ u.at + u.len <= Len(f.bytes)
      /\ Len(f.bytes) \in Nat
  BY <1>3, UnitFacts DEF k
<1>7. u.at \in Nat /\ u.at < Len(f.bytes)
  <2> DEFINE a == u.at
             l == u.len
             m == Len(f.bytes)
  <2>1. a < a + l /\ a \in Nat /\ l \in Nat /\ a + l <= m /\ m \in Nat
    BY <1>5, <1>6
  <2> HIDE DEF a, l, m
  <2>2. a < m
    BY <2>1
  <2> QED
    BY <2>1, <2>2 DEF a, m
<1> QED
  BY <1>2, <1>7 DEF u

(* What follows a parameter set that is delimited by start codes           *)
LEMMA AfterParameters ==
  ASSUME NEW f, FileType(f), SoundFile(f), f.atoms = <<>>, NEW i \in 1 .. Len(f.units),
         Kind(f.units[i]) \in ParameterSet
  PROVE  /\ i + 1 \in 1 .. Len(f.units)
         /\ \A o \in f.units[i].at + f.units[i].len .. f.units[i + 1].at - StartCodeSz - 1 :
              ByteAt(f.bytes, o) = 0
<1>1. SoundDelimited(f) /\ i \in DOMAIN f.units
  <2>1. SoundDelimited(f)
    BY Delimited
  <2>2. i \in DOMAIN f.units
    BY FileFacts
  <2> QED
    BY <2>1, <2>2
<1>2. /\ i < Len(f.units)
      /\ \A o \in f.units[i].at + f.units[i].len .. f.units[i + 1].at - StartCodeSz - 1 :
           ByteAt(f.bytes, o) = 0
  BY <1>1, Zenon DEF SoundDelimited
<1>3. i + 1 \in 1 .. Len(f.units)
  <2> DEFINE n == Len(f.units)
  <2>1. n \in Nat /\ i \in 1 .. n /\ i < n
    BY <1>2, FileFacts
  <2> HIDE DEF n
  <2>2. i + 1 \in 1 .. n
    BY <2>1
  <2> QED
    BY <2>2 DEF n
<1> QED
  BY <1>2, <1>3

LEMMA ReachesThree ==
  ASSUME NEW rd \in Reader, NEW o \in Nat, o + 3 < Width
  PROVE  ReachesEnd([rd EXCEPT !.off = o], 3) <=> o + 3 >= rd.end
<1> DEFINE to == [rd EXCEPT !.off = o]
<1>1. to.off = o /\ to.end = rd.end
  BY DEF Reader
<1> HIDE DEF to
<1>2. o + 3 \in 0 .. Width - 1 /\ o + 3 \in Int
  BY WidthAssumption
<1>3. (o + 3) % Width = o + 3
  BY <1>2, OffsetWraps
<1>4. ReachesEnd(to, 3) <=> (to.off + 3) % Width >= to.end
  BY Zenon DEF ReachesEnd
<1> QED
  BY <1>1, <1>3, <1>4 DEF to

LEMMA EndWhere ==
  ASSUME NEW rd \in Reader, NEW o \in Nat, o + 3 < Width
  PROVE  EndOfUnit(rd, o) <=>
           \/ o >= rd.end
           \/ delim /\ (o + 3 >= rd.end \/ StartCode(data, o) > 0)
BY ReachesThree, Zenon DEF EndOfUnit

(* Where the reader's end is while it is in the i-th unit                  *)
EndsAt(i, end) ==
  end = IF delim THEN Len(data) ELSE Units[i].at + Units[i].len

(* Behind a parameter set, the zeros up to the next unit are passed.       *)
LEMMA ZerosPassed ==
  ASSUME FileType(file), SoundFile(file), delim <=> file.atoms = <<>>,
         NEW i \in 1 .. Len(Units), Kind(Units[i]) \in ParameterSet,
         NEW rd \in Reader, EndsAt(i, rd.end), rd.off = Units[i].at + Units[i].len
  PROVE  /\ TrailingZeros(rd).is = "end"
         /\ delim => /\ TrailingZeros(rd).off >= rd.off
                     /\ TrailingZeros(rd).off + StartCodeSz <= Units[i + 1].at
<1> DEFINE first == rd.off
           end == rd.end
           off == TrailingZeros(rd).off
           is == TrailingZeros(rd).is
           n == Len(data)
<1>1. n \in Nat /\ n + 3 < Width /\ Width \in Nat /\ Units = file.units
  BY FileFacts DEF Units, data
<1>2. /\ off \in 0 .. Width - 1 /\ off \in Nat /\ off >= first
      /\ \A o \in first .. end : EndOfUnit(rd, o) \/ ByteAt(data, o) # 0 => off <= o
      /\ off \in first .. end =>
           EndOfUnit(rd, off) \/ ByteAt(data, off) # 0 \/ off = end
      /\ off \notin first .. end => off = first /\ off > end
      /\ is = IF ~EndOfUnit(rd, off) THEN "more"
              ELSE IF off < end /\ delim /\ ReachesEnd([rd EXCEPT !.off = off], 3)
              THEN "out"
              ELSE "end"
  BY TrailingZerosEnd
<1>3. first \in Nat /\ end \in Nat
  BY ReaderLoose
<1> HIDE DEF off, is, first, end
<1>4. CASE ~delim
  <2>1. first = end
    BY <1>4 DEF EndsAt, first, end
  <2>2. EndOfUnit(rd, first) /\ first \in first .. end /\ ~(off < end)
    BY <1>2, <1>3, <2>1 DEF EndOfUnit, end
  <2>3. off <= first
    BY <1>2, <2>2
  <2>4. off = first
    BY <1>2, <1>3, <2>3
  <2>5. is = "end"
    BY <1>2, <2>2, <2>4
  <2> QED
    BY <1>4, <2>5 DEF is
<1>5. CASE delim
  <2> DEFINE next == Units[i + 1].at
             to == next - StartCodeSz
  <2>1. file.atoms = <<>> /\ end = n
    BY <1>5 DEF EndsAt, end
  <2>2. i + 1 \in 1 .. Len(Units) /\ \A o \in first .. next - StartCodeSz - 1 : ByteAt(data, o) = 0
    BY <2>1, AfterParameters DEF Units, first, data
  <2>3. next \in Nat /\ next < n /\ StartCode(data, next - StartCodeSz) = StartCodeSz
    BY <2>1, <2>2, OwnCode DEF Units, data
  <2>4. first + StartCodeSz <= next
    <3>1. i < i + 1
      OBVIOUS
    <3>2. Units[i].at + Units[i].len + StartCodeSz <= Units[i + 1].at
      BY <2>2, <3>1, UnitsApart DEF Units
    <3> QED
      BY <3>2 DEF first
  <2> HIDE DEF next, n
  <2>5. to \in Nat /\ first <= to /\ to + 3 = next /\ to \in first .. end /\ to + 3 < end
        /\ to + 3 < Width /\ next - StartCodeSz - 1 = to - 1
    BY <1>1, <1>3, <2>1, <2>3, <2>4 DEF StartCodeSz
  <2>6. StartCode(data, to) > 0
    BY <2>3 DEF StartCodeSz
  <2> HIDE DEF to
  <2>7. EndOfUnit(rd, to)
    BY <1>5, <2>5, <2>6, EndWhere
  <2>8. off <= to
    BY <1>2, <2>5, <2>7
  <2>9. off \in first .. end /\ off # end /\ off + 3 < end /\ off + 3 < Width
    BY <1>1, <1>2, <1>3, <2>5, <2>8
  <2>10. EndOfUnit(rd, off)
    <3>1. CASE off = to
      BY <2>7, <3>1
    <3>2. CASE off # to
      <4>1. off \in first .. to - 1
        BY <1>2, <1>3, <2>5, <2>8, <3>2
      <4>2. ByteAt(data, off) = 0
        BY <2>2, <2>5, <4>1
      <4> QED
        BY <1>2, <2>9, <4>2
    <3> QED
      BY <3>1, <3>2
  <2>11. ~ReachesEnd([rd EXCEPT !.off = off], 3)
    <3>1. ~(off + 3 >= end)
      BY <1>2, <1>3, <2>9
    <3> QED
      BY <1>2, <2>9, <3>1, ReachesThree DEF end
  <2>12. is = "end"
    BY <1>2, <2>10, <2>11
  <2>13. off + StartCodeSz <= next
    BY <1>2, <2>5, <2>8 DEF StartCodeSz
  <2> QED
    BY <1>2, <2>12, <2>13 DEF is, off, first, next
<1> QED
  BY <1>4, <1>5

(* Before the last byte of a unit, not all that follows is zero bytes.     *)
LEMMA ZerosBefore ==
  ASSUME FileType(file), SoundFile(file), delim <=> file.atoms = <<>>,
         NEW i \in 1 .. Len(Units), Kind(Units[i]) \in ParameterSet,
         NEW rd \in Reader, EndsAt(i, rd.end),
         Units[i].at <= rd.off, rd.off < Units[i].at + Units[i].len
  PROVE  TrailingZeros(rd).is = "more"
<1> DEFINE first == rd.off
           end == rd.end
           off == TrailingZeros(rd).off
           is == TrailingZeros(rd).is
           n == Len(data)
           u == Units[i]
           N == Len(u.rbsp)
           e == u.at + u.len
           stop == e - 1
<1>1. n \in Nat /\ n + 3 < Width /\ Width \in Nat /\ Units = file.units /\ Len(Units) \in Nat
  BY FileFacts DEF Units, data
<1>2. /\ off \in 0 .. Width - 1 /\ off \in Nat /\ off >= first
      /\ \A o \in first .. end : EndOfUnit(rd, o) \/ ByteAt(data, o) # 0 => off <= o
      /\ is = IF ~EndOfUnit(rd, off) THEN "more"
              ELSE IF off < end /\ delim /\ ReachesEnd([rd EXCEPT !.off = off], 3)
              THEN "out"
              ELSE "end"
  BY TrailingZerosEnd
<1>3. first \in Nat /\ end \in Nat
  BY ReaderLoose
<1>4. UnitOf(file, u)
  BY <1>1, UnitOfFile
<1>5. u.at \in Nat /\ u.len \in Nat /\ e \in Nat /\ e <= n
  BY <1>4, UnitFacts DEF data
<1>6. u.at <= first /\ first < e
  OBVIOUS
<1>7. ByteAt(data, stop) # 0 /\ stop \in Nat
  <2>1. N \in 1 .. N
    BY <1>4, UnitFacts
  <2>2. u.place[N] + 1 = e /\ ByteAt(data, u.place[N]) = u.rbsp[N] /\ u.rbsp[N] # 0
        /\ u.place[N] \in Nat
    BY <1>4, <2>1, UnitFacts DEF data
  <2> DEFINE p == u.place[N]
  <2>3. p + 1 = e /\ p \in Nat /\ ByteAt(data, p) # 0
    BY <2>2
  <2> HIDE DEF p, e
  <2>4. stop = p
    BY <2>3
  <2> QED
    BY <2>3, <2>4
<1> HIDE DEF off, is, first, end, e, N
<1>8. end = n \/ end = e
  BY DEF EndsAt, end, n, e
<1>9. stop \in first .. end /\ stop + 1 = e
  BY <1>1, <1>3, <1>5, <1>6, <1>8
<1>10. off <= stop /\ off < end /\ off + 3 < Width /\ off < e
  <2>1. off <= stop
    BY <1>2, <1>7, <1>9
  <2> QED
    BY <1>1, <1>2, <1>3, <1>5, <1>8, <1>9, <2>1
<1>11. ASSUME delim PROVE ~(off + 3 >= end) /\ ~(StartCode(data, off) > 0)
  <2> DEFINE next == Units[i + 1].at
  <2>1. file.atoms = <<>> /\ end = n
    BY <1>11 DEF EndsAt, end
  <2>2. i + 1 \in 1 .. Len(Units)
    BY <2>1, AfterParameters DEF Units
  <2>3. next \in Nat /\ next < n
    BY <2>1, <2>2, OwnCode DEF Units, data
  <2>4. e + StartCodeSz <= next
    <3>1. i < i + 1
      OBVIOUS
    <3>2. Units[i].at + Units[i].len + StartCodeSz <= Units[i + 1].at
      BY <2>2, <3>1, UnitsApart DEF Units
    <3> QED
      BY <3>2 DEF e
  <2> HIDE DEF next, stop, n
  <2>5. off + 3 < end
    <3>1. off \in Nat /\ e \in Nat /\ off < e /\ e + 3 <= next /\ next \in Nat /\ next < n
          /\ end = n /\ n \in Nat
      BY <1>1, <1>2, <1>5, <1>10, <2>1, <2>3, <2>4 DEF StartCodeSz
    <3> QED
      BY <3>1
  <2>6. ~(StartCode(data, off) > 0)
    <3> SUFFICES ASSUME StartCode(data, off) > 0 PROVE FALSE
      OBVIOUS
    <3>1. PICK c \in {3, 4} : StartCode(data, off) = c
      <4>1. StartCode(data, off) \in {0, 3, 4}
        BY StartCodeIs
      <4> QED
        BY <4>1
    <3>2. off \in 0 .. Len(file.bytes) /\ i \in 0 .. Len(Units) /\ u.at <= off
      BY <1>1, <1>2, <1>3, <1>5, <1>6, <1>10 DEF n, data
    <3>3. next <= off + c
      BY <2>1, <3>1, <3>2, CodeBefore DEF Units, data, next, u
    <3>4. off = stop
      BY <1>2, <1>5, <1>9, <1>10, <2>3, <2>4, <3>1, <3>3 DEF StartCodeSz
    <3>5. ByteAt(data, off) = 0
      BY <1>2, StartCodeZero
    <3> QED
      BY <1>7, <3>4, <3>5
  <2> QED
    BY <1>2, <1>3, <2>5, <2>6
<1>12. ~EndOfUnit(rd, off)
  <2>1. ~(off >= end)
    BY <1>2, <1>3, <1>10
  <2> QED
    BY <1>2, <1>10, <1>11, <2>1, EndWhere DEF end
<1> QED
  BY <1>2, <1>12 DEF is

(* Two answers that more_rbsp_data gives: the rest of a parameter set ...  *)
LEMMA EndAnswered ==
  ASSUME FileType(file), SoundFile(file), delim <=> file.atoms = <<>>,
         NEW i \in 1 .. Len(Units), Kind(Units[i]) \in ParameterSet,
         NEW rd, Inside(file, Units[i], rd), EndsAt(i, rd.end),
         StandsAt(rd, Units[i], DataBits(Units[i]))
  PROVE  LET more == MoreData(rd)
         IN  /\ more.is = "end" /\ more.r.end = rd.end
             /\ delim => /\ Units[i].at <= more.r.off
                         /\ more.r.off + StartCodeSz <= Units[i + 1].at
<1> DEFINE u == Units[i]
           N == Len(u.rbsp)
           all == RbspBits(u)
           D == DataBits(u)
           q == D \div 8
           stop == ReadU(data, rd, 1)
           align == ReadAlign(data, Switched(stop.r, FALSE))
           rest == TrailingZeros(align.r)
           over == [align.r EXCEPT !.off = rest.off]
           more == MoreData(rd)
           m == 8 * q + 7 - D
<1>1. UnitOf(file, u)
  BY DEF Inside
<1>2. /\ D \in Nat /\ 8 * N - 8 <= D /\ D < 8 * N /\ all[D + 1] = 1
      /\ \A k \in D + 2 .. 8 * N : all[k] = 0
  BY <1>1, DataBitsAre
<1>3. /\ ~stop.out /\ stop.bits = <<all[D + 1]>>
      /\ ~align.out /\ align.r \in Reader /\ align.r.end = rd.end
      /\ align.r.off = u.place[q + 1] + 1
      /\ DOMAIN align.bits = 1 .. m
      /\ \A k \in 1 .. m : align.bits[k] = all[D + 1 + k]
  <2>1. D \in Nat /\ D < 8 * Len(Units[i].rbsp) /\ StandsAt(rd, Units[i], D)
    BY <1>2
  <2> HIDE DEF D
  <2>2. Tested(file, Units[i], rd, D)
    BY <2>1, StopInside
  <2> QED
    BY <2>2, Zenon DEF Tested, data
<1>4. /\ N \in Nat /\ N > 0 /\ u.at \in Nat /\ u.len \in Nat
      /\ u.place[N] + 1 = u.at + u.len
  BY <1>1, UnitFacts
<1>5. more = IF stop.out \/ align.out THEN [is |-> "out", r |-> rd]
             ELSE IF NoMore(stop, align, rest) THEN [is |-> rest.is, r |-> over]
             ELSE [is |-> "more", r |-> Switched(rd, TRUE)]
  BY Zenon DEF MoreData, Switched
<1>6. NoMore(stop, align, rest) <=>
        /\ stop.bits = <<1>>
        /\ \A k \in DOMAIN align.bits : align.bits[k] = 0
        /\ rest.is # "more"
  BY Zenon DEF NoMore
<1> HIDE DEF u, all, D, N, stop, align
<1>7. q + 1 = N /\ m = 8 * N - 1 - D /\ q \in Nat
  BY <1>2, <1>4
<1> HIDE DEF q, m
<1>8. ASSUME NEW k \in 1 .. m PROVE align.bits[k] = 0
  <2>1. D + 1 + k \in D + 2 .. 8 * N
    <3>1. D \in Nat /\ N \in Nat /\ k \in 1 .. m /\ m = 8 * N - 1 - D
      BY <1>2, <1>4, <1>7
    <3> QED
      BY <3>1
  <2> QED
    BY <1>2, <1>3, <2>1
<1>9. align.r.off = u.at + u.len
  BY <1>3, <1>4, <1>7
<1> DEFINE ar == align.r
<1>10. ar \in Reader /\ ar.off = Units[i].at + Units[i].len /\ EndsAt(i, ar.end)
       /\ ar.end = rd.end
  BY <1>3, <1>9 DEF u
<1> HIDE DEF ar
<1>11. /\ TrailingZeros(ar).is = "end"
       /\ delim => /\ TrailingZeros(ar).off >= ar.off
                   /\ TrailingZeros(ar).off + StartCodeSz <= Units[i + 1].at
  BY <1>10, ZerosPassed
<1>12. TrailingZeros(ar).off \in Nat
  BY <1>10, TrailingZerosEnd
<1>13. rest = TrailingZeros(ar)
  BY DEF ar
<1>14. NoMore(stop, align, rest)
  <2>1. rest.is # "more"
    BY <1>11, <1>13
  <2>2. stop.bits = <<1>>
    BY <1>2, <1>3
  <2>3. \A k \in DOMAIN align.bits : align.bits[k] = 0
    BY <1>3, <1>8
  <2> QED
    BY <1>6, <2>1, <2>2, <2>3, Zenon
<1>15. more = [is |-> rest.is, r |-> over]
  BY <1>3, <1>5, <1>14, Zenon
<1> HIDE DEF more, rest
<1>16. over.off = rest.off /\ over.end = rd.end
  BY <1>10 DEF ar, Reader
<1> HIDE DEF over
<1>17. more.is = "end" /\ more.r.end = rd.end /\ more.r.off = rest.off
  BY <1>11, <1>13, <1>15, <1>16
<1>18. ASSUME delim
       PROVE  Units[i].at <= more.r.off /\ more.r.off + StartCodeSz <= Units[i + 1].at
  <2>1. rest.off >= ar.off /\ rest.off + StartCodeSz <= Units[i + 1].at /\ rest.off \in Nat
    BY <1>11, <1>12, <1>13, <1>18
  <2>2. Units[i].at <= rest.off
    <3> DEFINE at == Units[i].at
               len == Units[i].len
               o == ar.off
               to == rest.off
    <3>1. at \in Nat /\ len \in Nat /\ o = at + len /\ to >= o /\ to \in Nat
      BY <1>4, <1>10, <2>1 DEF u
    <3> HIDE DEF at, len, o, to
    <3>2. at <= to
      BY <3>1
    <3> QED
      BY <3>2 DEF at, to
  <2> QED
    BY <1>17, <2>1, <2>2
<1> QED
  BY <1>17, <1>18 DEF more

(* ... or a part of what its author wrote.                                 *)
LEMMA MoreAnswered ==
  ASSUME FileType(file), SoundFile(file), delim <=> file.atoms = <<>>,
         NEW i \in 1 .. Len(Units), Kind(Units[i]) \in ParameterSet,
         NEW rd, Inside(file, Units[i], rd), EndsAt(i, rd.end),
         NEW b \in Nat, b < DataBits(Units[i]), StandsAt(rd, Units[i], b)
  PROVE  MoreData(rd).is = "more" /\ MoreData(rd).r = Switched(rd, TRUE)
<1> DEFINE u == Units[i]
           N == Len(u.rbsp)
           all == RbspBits(u)
           D == DataBits(u)
           q == b \div 8
           stop == ReadU(data, rd, 1)
           align == ReadAlign(data, Switched(stop.r, FALSE))
           rest == TrailingZeros(align.r)
           over == [align.r EXCEPT !.off = rest.off]
           more == MoreData(rd)
           m == 8 * q + 7 - b
<1>1. UnitOf(file, u)
  BY DEF Inside
<1>2. /\ D \in Nat /\ 8 * N - 8 <= D /\ D < 8 * N /\ all[D + 1] = 1
      /\ \A k \in D + 2 .. 8 * N : all[k] = 0
  BY <1>1, DataBitsAre
<1>3. N \in Nat /\ N > 0 /\ u.at \in Nat /\ u.len \in Nat
  BY <1>1, UnitFacts
<1>4. /\ ~stop.out /\ stop.bits = <<all[b + 1]>>
      /\ ~align.out /\ align.r \in Reader /\ align.r.end = rd.end
      /\ align.r.off = u.place[q + 1] + 1
      /\ DOMAIN align.bits = 1 .. m
      /\ \A k \in 1 .. m : align.bits[k] = all[b + 1 + k]
  <2>1. b < 8 * Len(Units[i].rbsp)
    <3>1. b < D /\ D \in Nat /\ D < 8 * N /\ N \in Nat
      BY <1>2, <1>3
    <3> HIDE DEF D, N
    <3>2. b < 8 * N
      BY <3>1
    <3> QED
      BY <3>2 DEF N
  <2>2. Tested(file, Units[i], rd, b)
    BY <2>1, StopInside
  <2> QED
    BY <2>2, Zenon DEF Tested, data
<1>5. more = IF stop.out \/ align.out THEN [is |-> "out", r |-> rd]
             ELSE IF NoMore(stop, align, rest) THEN [is |-> rest.is, r |-> over]
             ELSE [is |-> "more", r |-> Switched(rd, TRUE)]
  BY Zenon DEF MoreData, Switched
<1>6. NoMore(stop, align, rest) =>
        /\ \A k \in DOMAIN align.bits : align.bits[k] = 0
        /\ rest.is # "more"
  BY Zenon DEF NoMore
<1> HIDE DEF all, D, N, stop, align
<1>7. b < D
  BY DEF D
<1>8. ASSUME NoMore(stop, align, rest) PROVE FALSE
  <2>1. CASE q + 1 = N
    <3> DEFINE k == D - b
    <3>1. k \in 1 .. m /\ b + 1 + k = D + 1
      <4>1. D \in Nat /\ N \in Nat /\ b < D /\ D < 8 * N /\ q + 1 = N /\ q \in Nat
            /\ m = 8 * q + 7 - b
        BY <1>2, <1>3, <1>7, <2>1
      <4> HIDE DEF q, m
      <4> QED
        BY <4>1
    <3> HIDE DEF k, m
    <3>2. align.bits[k] = 1
      BY <1>2, <1>4, <3>1
    <3> QED
      BY <1>4, <1>6, <1>8, <3>1, <3>2
  <2>2. CASE q + 1 # N
    <3> DEFINE p == q + 1
               ar == align.r
    <3>1. p \in 1 .. N /\ p < N
      BY <1>2, <1>3, <1>7, <2>2
    <3> HIDE DEF p, q
    <3>2. u.place[p] \in Nat /\ u.at <= u.place[p] /\ u.place[p] + 1 < u.at + u.len
      BY <1>1, <3>1, PlaceInUnit DEF N
    <3>3. ar.off = u.place[p] + 1
      BY <1>4 DEF p
    <3>4. u.at <= ar.off /\ ar.off < u.at + u.len
      <4> DEFINE at == u.at
                 e == u.at + u.len
                 o == u.place[p]
                 to == ar.off
      <4>1. at \in Nat /\ e \in Nat /\ o \in Nat /\ at <= o /\ o + 1 < e /\ to = o + 1
        BY <1>3, <3>2, <3>3
      <4> HIDE DEF at, e, o, to
      <4>2. at <= to /\ to < e
        BY <4>1
      <4> QED
        BY <4>2 DEF at, to, e
    <3>5. ar \in Reader /\ EndsAt(i, ar.end)
      BY <1>4
    <3> HIDE DEF ar
    <3>6. TrailingZeros(ar).is = "more"
      BY <3>4, <3>5, ZerosBefore
    <3>7. rest.is = "more"
      BY <3>6 DEF ar
    <3> QED
      BY <1>6, <1>8, <3>7, Zenon
  <2> QED
    BY <2>1, <2>2
<1>9. more = [is |-> "more", r |-> Switched(rd, TRUE)]
  BY <1>4, <1>5, <1>8, Zenon
<1> DEFINE on == Switched(rd, TRUE)
<1> HIDE DEF more, on
<1>10. more.is = "more" /\ more.r = on
  BY <1>9 DEF on
<1> QED
  BY <1>10 DEF more, on

-----------------------------------------------------------------------------
(***************************************************************************)
(* The steps in a unit of a sound file.                                    *)
(***************************************************************************)
(* What has to be shown of a step                                          *)
LEMMA Gather ==
  ASSUME SoundFile(file), file' = file, UnitKept',
         pc' \notin {"probe"} \union Ends => delim' = (file.atoms = <<>>),
         pc' = "probe" => WhereProbing', pc' = "seek" => WhereSeeking',
         pc' = "atom" => WhereInAtoms', pc' = "mdat" => WhereAtSize',
         pc' = "nal" => WhereAtUnit',
         pc' \in {"parse", "engine", "after"} => WhereInUnit', WhereEnded'
  PROVE  WhereInFile'
<1>1. WhereProbing' /\ WhereSeeking' /\ WhereInAtoms' /\ WhereAtSize' /\ WhereAtUnit'
      /\ WhereInUnit'
  <2>1. WhereProbing'
    BY Zenon DEF WhereProbing
  <2>2. WhereSeeking'
    BY Zenon DEF WhereSeeking
  <2>3. WhereInAtoms'
    BY Zenon DEF WhereInAtoms
  <2>4. WhereAtSize'
    BY Zenon DEF WhereAtSize
  <2>5. WhereAtUnit'
    BY Zenon DEF WhereAtUnit
  <2>6. WhereInUnit'
    BY Zenon DEF WhereInUnit
  <2> QED
    BY <2>1, <2>2, <2>3, <2>4, <2>5, <2>6
<1>2. SoundFile(file)' /\ (pc' \notin {"probe"} \union Ends => delim' = (file'.atoms = <<>>))
  BY Zenon
<1> QED
  BY <1>1, <1>2, Zenon DEF WhereInFile

LEMMA UnitStays ==
  ASSUME UnitKept, UNCHANGED <<file, nal, type, seen, got>>
  PROVE  UnitKept'
BY DEF UnitKept, Past, Units

LEMMA BoundedStays ==
  ASSUME UNCHANGED <<file, atomVars>>, r'.end = r.end, NEW i, Bounded(i)
  PROVE  Bounded(i)'
BY DEF Bounded, InAtom, atomVars, Units, data

LEMMA DelimIs ==
  ASSUME WhereInFile, pc \in {"atom", "mdat", "seek", "nal", "parse", "engine", "after"}
  PROVE  SoundFile(file) /\ delim = (file.atoms = <<>>) /\ (delim <=> file.atoms = <<>>)
<1>1. pc \notin {"probe"} \union Ends
  BY DEF Ends
<1>2. SoundFile(file) /\ delim = (file.atoms = <<>>)
  BY <1>1, Zenon DEF WhereInFile
<1> QED
  BY <1>2, Zenon

(* What is known in a unit                                                 *)
LEMMA UnitThere ==
  ASSUME TypeOK, WhereInFile, pc \in {"parse", "engine", "after"}
  PROVE  /\ FileType(file) /\ SoundFile(file) /\ (delim <=> file.atoms = <<>>)
         /\ UnitKept /\ Past \in 1 .. Len(Units) /\ UnitOf(file, Units[Past])
         /\ Unit = Units[Past] /\ nal = Units[Past].at /\ type = Kind(Units[Past])
         /\ IsPrefix(got, RbspBits(Units[Past]))
         /\ Bounded(Past) /\ EndsAt(Past, r.end)
         /\ Units[Past].at + Units[Past].len <= r.end
<1>1. FileType(file) /\ seen \in Seq(0 .. Width - 1)
  BY DEF TypeOK
<1>2. SoundFile(file) /\ UnitKept /\ WhereInUnit
  BY Zenon DEF WhereInFile
<1>3. Past > 0 /\ Bounded(Past)
  BY <1>2, Zenon DEF WhereInUnit
<1>4. Past \in 1 .. Len(Units) /\ UnitOf(file, Units[Past])
      /\ Unit = Units[Past] /\ nal = Units[Past].at
  BY <1>1, <1>2, <1>3, UnitIs
<1>5. type = Kind(Units[Past]) /\ IsPrefix(got, RbspBits(Units[Past]))
  BY <1>2, <1>3, Zenon DEF UnitKept
<1>6. delim <=> file.atoms = <<>>
  BY DelimIs
<1>7. EndsAt(Past, r.end)
  BY <1>3 DEF Bounded, EndsAt
<1>8. Units[Past].at + Units[Past].len <= r.end
  <2> DEFINE e == Units[Past].at + Units[Past].len
             n == Len(data)
  <2>1. e <= n /\ e \in Nat
    BY <1>4, UnitFacts DEF data
  <2>2. r.end = n \/ r.end = e
    BY <1>7 DEF EndsAt
  <2> HIDE DEF e, n
  <2>3. e <= r.end
    BY <2>1, <2>2
  <2> QED
    BY <2>3 DEF e
<1> QED
  BY <1>1, <1>2, <1>3, <1>4, <1>5, <1>6, <1>7, <1>8, Zenon

(* What a parser has read of its unit, and where the reader is             *)
LEMMA InParse ==
  ASSUME TypeOK, WhereInFile, pc = "parse", ~stray
  PROVE  /\ type \in Slice \union ParameterSet
         /\ Len(got) \in Nat /\ Len(got) <= DataBits(Units[Past])
         /\ StandsAt(r, Units[Past], Len(got)) /\ r.rbsp
         /\ Taken(file, Units[Past], Read(r, got, FALSE), Len(got))
<1> DEFINE u == Units[Past]
           s == Read(r, got, FALSE)
<1>1. UnitOf(file, u) /\ IsPrefix(got, RbspBits(u)) /\ u.at + u.len <= r.end
  BY UnitThere
<1>2. /\ type \in Slice \union ParameterSet /\ Len(got) <= DataBits(u)
      /\ r.rbsp /\ StandsAt(r, u, Len(got))
  <2>1. WhereInUnit
    BY Zenon DEF WhereInFile
  <2> QED
    BY <2>1, Zenon DEF WhereInUnit
<1>3. r \in Reader /\ got \in Seq(Bit)
  BY Zenon DEF TypeOK
<1>4. Len(got) \in Nat
  BY <1>3
<1>5. s \in Reads /\ s.r = r /\ s.bits = got /\ ~s.out
  BY <1>3 DEF Reads, Read
<1>6. Inside(file, u, r)
  BY <1>1, <1>2, <1>3, Zenon DEF Inside
<1>7. \A i \in 1 .. Len(got) : got[i] = RbspBits(u)[i]
  <2> DEFINE all == RbspBits(u)
  <2>1. all \in Seq(Bit)
    BY <1>1, RbspBitsAre
  <2> HIDE DEF all
  <2>2. \A i \in 1 .. Len(got) : got[i] = all[i]
    BY <1>1, <1>3, <2>1, PrefixIs DEF all
  <2> QED
    BY <2>2 DEF all
<1> HIDE DEF s, u
<1>8. Taken(file, u, s, Len(got))
  BY <1>2, <1>4, <1>5, <1>6, <1>7, Zenon DEF Taken
<1> QED
  BY <1>2, <1>4, <1>8, Zenon DEF s, u

LEMMA AheadIs ==
  ASSUME NEW f, NEW u, UnitOf(f, u), NEW b \in Nat, b <= DataBits(u)
  PROVE  Ahead(u, b) \in Seq(Bit) /\ Len(Ahead(u, b)) = DataBits(u) - b
<1> DEFINE all == RbspBits(u)
           D == DataBits(u)
           m == b + 1
<1>1. all \in Seq(Bit) /\ Len(all) = 8 * Len(u.rbsp)
  BY RbspBitsAre
<1>2. D \in Nat /\ D < 8 * Len(u.rbsp) /\ b <= D
  BY DataBitsAre
<1> HIDE DEF all, D
<1>3. m \in 1 .. Len(all) + 1 /\ D \in m - 1 .. Len(all) /\ D - m + 1 = D - b
  <2> DEFINE N == 8 * Len(u.rbsp)
  <2>1. Len(all) = N /\ D < N /\ D \in Nat /\ b <= D /\ N \in Nat
    BY <1>1, <1>2
  <2> HIDE DEF N
  <2> QED
    BY <2>1
<1> HIDE DEF m
<1>4. SubSeq(all, m, D) \in Seq(Bit) /\ Len(SubSeq(all, m, D)) = D - m + 1
  BY <1>1, <1>3, Part
<1>5. Ahead(u, b) = SubSeq(all, m, D)
  BY DEF Ahead, all, m, D
<1> QED
  BY <1>3, <1>4, <1>5 DEF D

(* The parser goes on, having read b bits of its unit.                     *)
LEMMA ParseOn ==
  ASSUME TypeOK, WhereInFile, pc = "parse", ~stray,
         NEW s, NEW b, Taken(file, Units[Past], s, b), b <= DataBits(Units[Past]),
         Alike(r, s.r), r' = s.r, got' = s.bits, pc' = "parse",
         UNCHANGED <<file, atomVars, nal, type, seen>>
  PROVE  WhereInFile'
<1> DEFINE u == Units[Past]
           all == RbspBits(u)
           D == DataBits(u)
<1>1. /\ UnitOf(file, u) /\ SoundFile(file) /\ UnitKept /\ Past \in 1 .. Len(Units)
      /\ nal = u.at /\ type = Kind(u) /\ Bounded(Past)
  BY UnitThere
<1>2. delim = (file.atoms = <<>>)
  BY DelimIs
<1>3. type \in Slice \union ParameterSet
  BY InParse
<1>4. /\ s \in Reads /\ Len(s.bits) = b /\ b \in Nat
      /\ Inside(file, u, s.r) /\ StandsAt(s.r, u, b)
      /\ \A i \in 1 .. b : s.bits[i] = all[i]
  BY Zenon DEF Taken
<1>5. Past' = Past /\ Units' = Units
  BY DEF Past, Units
<1>6. IsPrefix(s.bits, all)
  <2> DEFINE bits == s.bits
             N == 8 * Len(u.rbsp)
  <2>1. bits \in Seq(Bit) /\ Len(bits) = b /\ \A i \in 1 .. b : bits[i] = all[i]
    BY <1>4 DEF Reads
  <2>2. all \in Seq(Bit) /\ Len(all) = N
    BY <1>1, RbspBitsAre
  <2>3. D \in Nat /\ D < N /\ b <= D
    BY <1>1, DataBitsAre
  <2>4. N \in Nat
    BY <1>1, UnitFacts
  <2> HIDE DEF bits, N, all, D
  <2>5. Len(bits) <= Len(all)
    <3>1. Len(bits) = b /\ Len(all) = N /\ b <= D /\ D < N /\ b \in Nat /\ D \in Nat /\ N \in Nat
      BY <1>4, <2>1, <2>2, <2>3, <2>4
    <3> QED
      BY <3>1
  <2>6. IsPrefix(bits, all)
    BY <2>1, <2>2, <2>5, PrefixIs
  <2> QED
    BY <2>6 DEF bits
<1>7. UnitKept'
  <2>1. Past <= Len(Units) /\ \A i \in 1 .. Past : seen[i] = Units[i].at
    BY <1>1, Zenon DEF UnitKept
  <2>2. nal' = Units[Past].at /\ type' = Kind(Units[Past])
        /\ IsPrefix(got', RbspBits(Units[Past]))
    BY <1>1, <1>6, Zenon
  <2>3. seen' = seen
    OBVIOUS
  <2> QED
    BY <1>5, <2>1, <2>2, <2>3, Zenon DEF UnitKept
<1>8. Bounded(Past)'
  <2>1. r'.end = r.end
    BY Zenon DEF Alike
  <2>2. PICK i : i = Past
    OBVIOUS
  <2>3. Bounded(i) /\ i = Past'
    BY <1>1, <1>5, <2>2
  <2>4. Bounded(i)'
    BY <2>1, <2>3, BoundedStays
  <2> QED
    BY <2>3, <2>4, Zenon DEF Bounded
<1>9. WhereInUnit'
  <2>1. Past' > 0
    BY <1>1, <1>5
  <2>2. r'.rbsp /\ StandsAt(r', Units[Past], Len(got')) /\ Len(got') <= DataBits(Units[Past])
        /\ type' \in Slice \union ParameterSet
    BY <1>3, <1>4, Zenon DEF Inside
  <2>3. pc' # "after"
    OBVIOUS
  <2> QED
    BY <1>5, <1>8, <2>1, <2>2, <2>3, Zenon DEF WhereInUnit
<1>10. WhereEnded'
  BY DEF WhereEnded
<1>11. delim' = (file.atoms = <<>>) /\ file' = file
  BY <1>2 DEF atomVars
<1> QED
  BY <1>1, <1>7, <1>9, <1>10, <1>11, Gather

LEMMA ReadFieldKeeps ==
  ASSUME TypeOK, OnTrack, WhereInFile, NEW n \in Fields, ReadField(n), ~stray'
  PROVE  WhereInFile' /\ pc' = "parse"
<1> DEFINE u == Units[Past]
           s == Read(r, got, FALSE)
           t == AddRead(file.bytes, s, n)
           b == Len(got)
           field == ReadU(data, r, n)
<1>1. pc = "parse" /\ n <= Len(Syntax) /\ ~stray
  BY Zenon DEF ReadField, StraysUnless, FieldFits
<1>2. UnitOf(file, u) /\ Unit = u
  BY <1>1, UnitThere
<1>3. b \in Nat /\ b <= DataBits(u) /\ Taken(file, u, s, b)
  BY <1>1, InParse
<1>4. n \in Widths
  BY FilesAssumption DEF Widths
<1>5. b + n \in Nat /\ b + n <= DataBits(u)
  <2>1. Syntax = Ahead(u, b)
    BY <1>2, Zenon DEF Syntax, Ahead
  <2>2. Len(Syntax) = DataBits(u) - b /\ DataBits(u) \in Nat
    BY <1>2, <1>3, <2>1, AheadIs, DataBitsAre
  <2> DEFINE D == DataBits(u)
             m == Len(Syntax)
  <2>3. m = D - b /\ D \in Nat /\ n <= m /\ n \in Nat /\ b \in Nat
    BY <1>1, <1>3, <1>4, <2>2 DEF Widths
  <2> HIDE DEF D, m, b
  <2>4. b + n \in Nat /\ b + n <= D
    BY <2>3
  <2> QED
    BY <2>4 DEF D
<1>6. Taken(file, u, t, b + n)
  <2>1. b + n <= 8 * Len(u.rbsp)
    <3> DEFINE D == DataBits(u)
               N == 8 * Len(u.rbsp)
               e == b + n
    <3>1. D \in Nat /\ D < N /\ e <= D /\ e \in Nat /\ N \in Nat
      BY <1>2, <1>5, DataBitsAre, UnitFacts
    <3> HIDE DEF D, N, e
    <3>2. e <= N
      BY <3>1
    <3> QED
      BY <3>2 DEF e, N
  <2> HIDE DEF b, s
  <2> QED
    BY <1>3, <1>4, <2>1, UnitAdd
<1>7. t.r = field.r /\ t.bits = got \o field.bits /\ (t.out <=> field.out)
  <2>1. s.r = r /\ s.bits = got /\ s.out = FALSE
    BY DEF Read
  <2> HIDE DEF s
  <2>2. t = Read(field.r, got \o field.bits, FALSE \/ field.out)
    BY <2>1, Zenon DEF AddRead, data
  <2> HIDE DEF field, t
  <2> QED
    BY <2>2 DEF Read
<1>8. ~t.out
  BY <1>6, Zenon DEF Taken
<1>9. r' = field.r /\ got' = got \o field.bits
      /\ UNCHANGED <<file, pc, atomVars, unitVars, seen>>
  BY <1>7, <1>8, Zenon DEF ReadField, Gets
<1>10. Alike(r, t.r)
  <2>1. Mapped(data) /\ r \in Reader
    BY FileMapped
  <2>2. Alike(r, field.r)
    BY <1>4, <2>1, ReadType, Zenon DEF Alike
  <2> QED
    BY <1>7, <2>2, Zenon
<1> HIDE DEF t, s, b, field
<1>11. UNCHANGED <<file, atomVars, nal, type, seen>> /\ pc' = "parse"
  BY <1>1, <1>9 DEF unitVars
<1>12. r' = t.r /\ got' = t.bits
  BY <1>7, <1>9, Zenon
<1>13. WhereInFile'
  BY <1>1, <1>5, <1>6, <1>10, <1>11, <1>12, ParseOn
<1> QED
  BY <1>11, <1>13

LEMMA ReadCodeKeeps ==
  ASSUME TypeOK, OnTrack, WhereInFile, ReadCode, ~stray'
  PROVE  WhereInFile' /\ pc' = "parse"
<1> DEFINE u == Units[Past]
           s == Read(r, got, FALSE)
           b == Len(got)
           z == LeadingZeros(Syntax)
           code == ReadUe(data, r)
           t == Read(code.r, got \o code.bits, FALSE)
           e == b + 2 * z + 1
<1>1. pc = "parse" /\ z < 32 /\ 2 * z + 1 <= Len(Syntax) /\ ~stray
  BY Zenon DEF ReadCode, StraysUnless, CodeFits
<1>2. UnitOf(file, u) /\ Unit = u
  BY <1>1, UnitThere
<1>3. b \in Nat /\ b <= DataBits(u) /\ Taken(file, u, s, b)
  BY <1>1, InParse
<1>4. Allowed(Ahead(u, b), z)
  <2>1. Syntax = Ahead(u, b)
    BY <1>2, Zenon DEF Syntax, Ahead
  <2> QED
    BY <1>1, <2>1, Zenon DEF Allowed
<1> HIDE DEF z
<1>5. Code(u, b, z) /\ e <= DataBits(u)
  <2> HIDE DEF b
  <2> QED
    BY <1>2, <1>3, <1>4, CodeAhead DEF b
<1>6. e <= 8 * Len(u.rbsp) /\ e \in Nat
  <2>1. z \in Nat
    <3>1. z \in 0 .. 31
      BY <1>5, Zenon DEF Code
    <3> QED
      BY <3>1
  <2> DEFINE D == DataBits(u)
             N == 8 * Len(u.rbsp)
  <2>2. D \in Nat /\ D < N /\ e <= D /\ N \in Nat /\ b \in Nat /\ z \in Nat
    BY <1>2, <1>3, <1>5, <2>1, DataBitsAre, UnitFacts
  <2> HIDE DEF D, N, b, z
  <2>3. e <= N /\ e \in Nat
    BY <2>2
  <2> QED
    BY <2>3 DEF N
<1>7. s.r = r /\ s.bits = got
  BY DEF Read
<1>8. ~code.out /\ ~code.bad /\ Taken(file, u, t, e)
  <2> HIDE DEF s, b, e
  <2>1. LET c == ReadUe(file.bytes, s.r)
        IN  /\ ~c.out /\ ~c.bad
            /\ Taken(file, u, Read(c.r, s.bits \o c.bits, FALSE), b + 2 * z + 1)
    BY <1>3, <1>5, <1>6, CodeInside DEF e
  <2> QED
    BY <1>7, <2>1, Zenon DEF data, e
<1>9. /\ pc' = "parse" /\ r' = code.r /\ got' = got \o code.bits
      /\ UNCHANGED <<file, atomVars, unitVars, seen>>
  BY <1>1, <1>8, Zenon DEF ReadCode, Gets
<1>10. Alike(r, code.r)
  <2>1. Mapped(data) /\ r \in Reader
    BY FileMapped
  <2> QED
    BY <2>1, ReadUeType, Zenon DEF Alike
<1> HIDE DEF code, s, b, e
<1>11. t.r = code.r /\ t.bits = got \o code.bits
  BY DEF Read
<1> HIDE DEF t
<1>12. UNCHANGED <<file, atomVars, nal, type, seen>>
  BY <1>9 DEF unitVars
<1>13. r' = t.r /\ got' = t.bits /\ Alike(r, t.r)
  BY <1>9, <1>10, <1>11, Zenon
<1>14. WhereInFile'
  BY <1>1, <1>5, <1>8, <1>9, <1>12, <1>13, ParseOn
<1> QED
  BY <1>9, <1>14

(* The program stays in its unit, or ends there.                           *)
LEMMA UnitGoesOn ==
  ASSUME TypeOK, WhereInFile, pc \in {"parse", "engine", "after"},
         UNCHANGED <<file, atomVars, nal, type, seen, got>>,
         r'.end = r.end, pc' \in {"engine", "after"},
         pc' = "after" /\ delim /\ ~stray' => BeforeNext(r'.off)
  PROVE  WhereInFile'
<1>1. SoundFile(file) /\ UnitKept /\ Past \in 1 .. Len(Units) /\ Bounded(Past)
  BY UnitThere
<1>2. delim = (file.atoms = <<>>)
  BY DelimIs
<1>3. Past' = Past /\ Units' = Units
  BY DEF Past, Units
<1>4. UnitKept'
  BY <1>1, UnitStays
<1>5. Bounded(Past)'
  <2>1. PICK i : i = Past
    OBVIOUS
  <2>2. Bounded(i) /\ i = Past'
    BY <1>1, <1>3, <2>1
  <2>3. Bounded(i)'
    BY <2>2, BoundedStays
  <2> QED
    BY <2>2, <2>3, Zenon DEF Bounded
<1>6. delim' = delim /\ file' = file
  BY DEF atomVars
<1>7. WhereInUnit'
  <2>1. Past' > 0
    BY <1>1, <1>3
  <2>2. pc' # "parse"
    OBVIOUS
  <2>3. pc' = "after" /\ delim' /\ ~stray' => BeforeNext(r.off)'
    BY <1>3, <1>6, Zenon DEF BeforeNext
  <2> QED
    BY <1>5, <2>1, <2>2, <2>3, Zenon DEF WhereInUnit
<1>8. WhereEnded'
  BY DEF WhereEnded
<1>9. delim' = (file.atoms = <<>>)
  BY <1>2, <1>6, Zenon
<1> QED
  BY <1>1, <1>4, <1>6, <1>7, <1>8, <1>9, Gather

LEMMA UnitEnds ==
  ASSUME SoundFile(file), UnitKept, UNCHANGED <<file, nal, type, seen, got>>,
         pc' \in {"malformed", "data_end"},
         pc' = "data_end" => Past = Len(Units) \/ stray'
  PROVE  WhereInFile'
<1>1. UnitKept'
  BY UnitStays
<1>2. Past' = Past /\ Units' = Units /\ file' = file
  BY DEF Past, Units
<1>3. WhereEnded'
  BY <1>2 DEF WhereEnded
<1>4. pc' \in Ends
  BY DEF Ends
<1> QED
  BY <1>1, <1>2, <1>3, <1>4, Gather

LEMMA RejectKeeps ==
  ASSUME TypeOK, OnTrack, WhereInFile, Reject
  PROVE  WhereInFile'
<1>1. pc' = "malformed" /\ UNCHANGED <<file, r, atomVars, unitVars, seen, got>>
  BY Zenon DEF Reject
<1>2. SoundFile(file) /\ UnitKept
  BY Zenon DEF WhereInFile
<1> QED
  BY <1>1, <1>2, UnitEnds DEF unitVars

LEMMA EndHeaderKeeps ==
  ASSUME TypeOK, OnTrack, WhereInFile, EndHeader
  PROVE  WhereInFile'
<1>1. pc = "parse" /\ pc' = "engine" /\ UNCHANGED <<file, r, atomVars, unitVars, seen, got>>
  BY Zenon DEF EndHeader
<1> QED
  BY <1>1, UnitGoesOn DEF unitVars

(* A parser that has strayed can read on, or end the program; the unit and *)
(* what bounds it are known all the same.                                  *)
LEMMA StrayOn ==
  ASSUME TypeOK, WhereInFile, pc = "parse", stray',
         pc' \in {"parse", "malformed", "data_end"}, r'.end = r.end,
         got' \in {<<>>, got}, UNCHANGED <<file, atomVars, nal, type, seen>>
  PROVE  WhereInFile'
<1>1. SoundFile(file) /\ UnitKept /\ Past \in 1 .. Len(Units) /\ Bounded(Past)
      /\ UnitOf(file, Units[Past])
  BY UnitThere
<1>2. delim = (file.atoms = <<>>)
  BY DelimIs
<1>3. Past' = Past /\ Units' = Units /\ delim' = delim
  BY DEF Past, Units, atomVars
<1>4. UnitKept'
  <2> DEFINE all == RbspBits(Units[Past])
  <2>1. IsPrefix(<<>>, all)
    <3>1. all \in Seq(Bit)
      BY <1>1, RbspBitsAre
    <3> HIDE DEF all
    <3>2. <<>> \in Seq(Bit) /\ Len(<<>>) <= Len(all) /\ Len(<<>>) = 0
      BY <3>1
    <3>3. \A i \in 1 .. Len(<<>>) : <<>>[i] = all[i]
      BY <3>2
    <3> QED
      BY <3>1, <3>2, <3>3, PrefixIs
  <2>2. IsPrefix(got', all)
    BY <1>1, <2>1, UnitThere
  <2> QED
    BY <1>1, <1>3, <2>2, Zenon DEF UnitKept
<1>5. Bounded(Past)'
  <2>1. PICK i : i = Past
    OBVIOUS
  <2>2. Bounded(i) /\ i = Past'
    BY <1>1, <1>3, <2>1
  <2>3. Bounded(i)'
    BY <2>2, BoundedStays
  <2> QED
    BY <2>2, <2>3, Zenon DEF Bounded
<1>6. type \in Slice \union ParameterSet
  <2>1. WhereInUnit
    BY Zenon DEF WhereInFile
  <2> QED
    BY <2>1, Zenon DEF WhereInUnit
<1>7. pc' = "parse" => WhereInUnit'
  <2>1. Past' > 0
    BY <1>1, <1>3
  <2> QED
    BY <1>5, <1>6, <2>1, Zenon DEF WhereInUnit
<1>8. WhereEnded'
  BY DEF WhereEnded
<1>9. delim' = (file.atoms = <<>>)
  BY <1>2, <1>3, Zenon
<1> QED
  BY <1>1, <1>4, <1>7, <1>8, <1>9, Gather

LEMMA StrayReadKeeps ==
  ASSUME TypeOK, WhereInFile, stray',
         ReadCode \/ \E n \in Fields : ReadField(n)
  PROVE  WhereInFile'
<1>1. Mapped(data) /\ r \in Reader
  BY FileMapped
<1>2. CASE ReadCode
  <2> DEFINE code == ReadUe(data, r)
  <2>1. code.r.end = r.end
    BY <1>1, ReadUeType, Zenon
  <2>2. \/ DataEnds
        \/ /\ pc' = IF code.bad THEN "malformed" ELSE pc
           /\ r' = code.r /\ got' = <<>>
           /\ UNCHANGED <<file, atomVars, unitVars, seen>>
    BY <1>2, Zenon DEF ReadCode, Gets
  <2> HIDE DEF code
  <2>3. pc = "parse"
    BY <1>2, Zenon DEF ReadCode
  <2>4. /\ pc' \in {"parse", "malformed", "data_end"} /\ r'.end = r.end
        /\ got' \in {<<>>, got} /\ UNCHANGED <<file, atomVars, nal, type, seen>>
    BY <2>1, <2>2, <2>3 DEF DataEnds, unitVars
  <2> QED
    BY <2>3, <2>4, StrayOn
<1>3. ASSUME NEW n \in Fields, ReadField(n)
      PROVE  WhereInFile'
  <2> DEFINE field == ReadU(data, r, n)
  <2>1. field.r.end = r.end
    <3>1. n \in Widths
      BY FilesAssumption DEF Widths
    <3> QED
      BY <1>1, <3>1, ReadType, Zenon
  <2>2. \/ DataEnds
        \/ /\ r' = field.r /\ got' = <<>>
           /\ UNCHANGED <<file, pc, atomVars, unitVars, seen>>
    BY <1>3, Zenon DEF ReadField, Gets
  <2> HIDE DEF field
  <2>3. pc = "parse"
    BY <1>3, Zenon DEF ReadField
  <2>4. /\ pc' \in {"parse", "malformed", "data_end"} /\ r'.end = r.end
        /\ got' \in {<<>>, got} /\ UNCHANGED <<file, atomVars, nal, type, seen>>
    BY <2>1, <2>2, <2>3 DEF DataEnds, unitVars
  <2> QED
    BY <2>3, <2>4, StrayOn
<1> QED
  BY <1>2, <1>3

LEMMA StrayAskKeeps ==
  ASSUME TypeOK, WhereInFile, stray, AskMoreData
  PROVE  WhereInFile'
<1> DEFINE answer == MoreData(r)
<1>1. Mapped(data) /\ r \in Reader
  BY FileMapped
<1>2. answer.r.end = r.end
  BY <1>1, MoreDataType
<1>3. \/ DataEnds
      \/ /\ r' = answer.r /\ pc' = "after"
         /\ UNCHANGED <<file, atomVars, unitVars, seen, got>>
      \/ /\ r' = answer.r /\ pc' = IF type = 7 \/ asked THEN "malformed" ELSE pc
         /\ UNCHANGED <<file, atomVars, nal, type, seen, got>>
  BY Zenon DEF AskMoreData
<1>4. pc = "parse" /\ stray'
  BY Zenon DEF AskMoreData, track
<1> HIDE DEF answer
<1>5. r'.end = r.end /\ UNCHANGED <<file, atomVars, nal, type, seen, got>>
      /\ pc' \in {"parse", "malformed", "data_end", "after"}
  BY <1>2, <1>3, <1>4 DEF DataEnds, unitVars
<1>6. CASE pc' = "after"
  BY <1>4, <1>5, <1>6, UnitGoesOn
<1>7. CASE pc' # "after"
  BY <1>4, <1>5, <1>7, StrayOn
<1> QED
  BY <1>6, <1>7

LEMMA SwitchedOn ==
  ASSUME NEW rd \in Reader, rd.rbsp
  PROVE  Switched(rd, TRUE) = rd
BY DEF Switched, Reader

LEMMA AskMoreDataKeeps ==
  ASSUME TypeOK, OnTrack, WhereInFile, AskMoreData, ~stray
  PROVE  /\ WhereInFile'
         /\ IF Len(got) = DataBits(Units[Past]) THEN pc' = "after"
            ELSE pc' \in {"parse", "malformed"} /\ r' = r
<1> DEFINE i == Past
           u == Units[Past]
           b == Len(got)
           s == Read(r, got, FALSE)
           answer == MoreData(r)
           D == DataBits(u)
<1>1. pc = "parse" /\ type \in ParameterSet
  BY Zenon DEF AskMoreData
<1>2. /\ FileType(file) /\ SoundFile(file) /\ (delim <=> file.atoms = <<>>)
      /\ UnitKept /\ i \in 1 .. Len(Units) /\ UnitOf(file, u)
      /\ type = Kind(u) /\ EndsAt(i, r.end)
  BY <1>1, UnitThere
<1>3. b \in Nat /\ b <= D /\ StandsAt(r, u, b) /\ r.rbsp /\ Taken(file, u, s, b)
  BY <1>1, InParse
<1>4. Inside(file, u, r)
  <2>1. s.r = r
    BY DEF Read
  <2> QED
    BY <1>3, <2>1, Zenon DEF Taken
<1>5. r \in Reader /\ got \in Seq(Bit) /\ D \in Nat
  BY <1>2, DataBitsAre, Zenon DEF TypeOK
<1>6. Kind(Units[i]) \in ParameterSet
  BY <1>1, <1>2
<1>7. /\ answer.is = "end" => /\ r' = answer.r /\ pc' = "after"
                              /\ UNCHANGED <<file, atomVars, unitVars, seen, got>>
      /\ answer.is = "more" => /\ r' = answer.r
                               /\ pc' = IF type = 7 \/ asked THEN "malformed" ELSE pc
                               /\ UNCHANGED <<file, atomVars, nal, type, seen, got>>
  <2>1. "end" # "more" /\ "end" # "out" /\ "more" # "out"
    OBVIOUS
  <2> QED
    BY <2>1, Zenon DEF AskMoreData
<1>8. CASE b = D
  <2>1. /\ answer.is = "end" /\ answer.r.end = r.end
        /\ delim => /\ Units[i].at <= answer.r.off
                    /\ answer.r.off + StartCodeSz <= Units[i + 1].at
    <3>1. StandsAt(r, Units[i], DataBits(Units[i]))
      BY <1>3, <1>8
    <3> QED
      BY <1>2, <1>4, <1>6, <3>1, EndAnswered
  <2> HIDE DEF answer
  <2>2. r' = answer.r /\ pc' = "after" /\ UNCHANGED <<file, atomVars, unitVars, seen, got>>
    BY <1>7, <2>1, Zenon
  <2>3. r'.end = r.end /\ UNCHANGED <<file, atomVars, nal, type, seen, got>>
    BY <2>1, <2>2 DEF unitVars
  <2>4. delim => BeforeNext(r'.off)
    BY <2>1, <2>2, Zenon DEF BeforeNext
  <2>5. WhereInFile'
    BY <1>1, <2>2, <2>3, <2>4, UnitGoesOn
  <2> QED
    BY <1>8, <2>2, <2>5
<1>9. CASE b # D
  <2>1. b < D
    <3> HIDE DEF b, D
    <3> QED
      BY <1>3, <1>5, <1>9
  <2>2. answer.is = "more" /\ answer.r = Switched(r, TRUE)
    <3> HIDE DEF b
    <3> QED
      BY <1>2, <1>3, <1>4, <1>6, <2>1, MoreAnswered
  <2>3. Switched(r, TRUE) = r
    BY <1>3, <1>5, SwitchedOn
  <2> HIDE DEF answer
  <2>4. /\ r' = r /\ pc' = IF type = 7 \/ asked THEN "malformed" ELSE pc
        /\ UNCHANGED <<file, atomVars, nal, type, seen, got>>
    BY <1>7, <2>2, <2>3, Zenon
  <2>5. ASSUME pc' = "malformed" PROVE WhereInFile'
    BY <1>2, <2>4, <2>5, UnitEnds
  <2>6. ASSUME pc' # "malformed" PROVE WhereInFile'
    <3>1. pc' = "parse"
      BY <1>1, <2>4, <2>6
    <3>2. s.r = r /\ s.bits = got
      BY DEF Read
    <3>3. Alike(r, s.r)
      BY <3>2, Zenon DEF Alike
    <3> HIDE DEF s, b
    <3> QED
      BY <1>1, <1>3, <2>4, <3>1, <3>2, <3>3, ParseOn
  <2> QED
    BY <1>1, <1>9, <2>4, <2>5, <2>6
<1> QED
  BY <1>8, <1>9

LEMMA NextStartCodeKeeps ==
  ASSUME TypeOK, OnTrack, WhereInFile, NextStartCode, ~lost'
  PROVE  WhereInFile'
<1>1. /\ pc = "after" /\ delim /\ r' = Switched(r, FALSE) /\ pc' = "seek"
      /\ UNCHANGED <<file, atomVars, unitVars, seen, got>>
  BY Zenon DEF NextStartCode, Switched
<1>2. SoundFile(file) /\ UnitKept /\ EndsAt(Past, r.end)
  BY <1>1, UnitThere
<1>3. delim = (file.atoms = <<>>)
  BY <1>1, DelimIs
<1>4. r.end = Len(data)
  BY <1>1, <1>2 DEF EndsAt
<1>5. BeforeNext(r.off)
  <2>1. WhereInUnit
    BY Zenon DEF WhereInFile
  <2>2. stray => BeforeNext(r.off)
    BY Zenon DEF NextStartCode
  <2> QED
    BY <1>1, <2>1, <2>2, Zenon DEF WhereInUnit
<1>6. r \in Reader
  BY Zenon DEF TypeOK
<1>7. r'.off = r.off /\ r'.end = r.end /\ ~r'.rbsp
  BY <1>1, <1>6, SwitchedReader, Zenon
<1>8. Past' = Past /\ Units' = Units /\ data' = data /\ delim' = delim
      /\ UNCHANGED <<file, nal, type, seen, got>>
  BY <1>1 DEF Past, Units, data, atomVars, unitVars
<1>9. BeforeNext(r.off)'
  BY <1>5, <1>7, <1>8, Zenon DEF BeforeNext
<1>10. WhereSeeking'
  BY <1>1, <1>4, <1>7, <1>8, <1>9, Zenon DEF WhereSeeking
<1>11. UnitKept'
  BY <1>2, <1>8, UnitStays
<1>12. WhereEnded'
  BY <1>1 DEF WhereEnded
<1>13. delim' = (file.atoms = <<>>) /\ file' = file
  BY <1>3, <1>8, Zenon
<1> QED
  BY <1>1, <1>2, <1>10, <1>11, <1>12, <1>13, Gather

(* The engine stops before the next start code, wherever that is.          *)
LEMMA DecodeKeeps ==
  ASSUME TypeOK, OnTrack, WhereInFile, Decode
  PROVE  WhereInFile'
<1>1. pc = "engine" /\ pc' = "after" /\ UNCHANGED <<file, atomVars, unitVars, seen, got>>
      /\ \E parsed \in SXE_parsed : r' = [r EXCEPT !.off = ResumeAt(nal, parsed)]
  BY Zenon DEF Decode
<1>2. PICK parsed \in SXE_parsed : r' = [r EXCEPT !.off = ResumeAt(nal, parsed)]
  BY <1>1
<1>3. /\ FileType(file) /\ SoundFile(file) /\ (delim <=> file.atoms = <<>>)
      /\ Past \in 1 .. Len(Units) /\ UnitOf(file, Units[Past])
      /\ nal = Units[Past].at /\ EndsAt(Past, r.end)
  BY <1>1, UnitThere
<1>4. r \in Reader /\ DataBufSize \in Nat
  BY FilesAssumption, Zenon DEF TypeOK
<1> DEFINE o == ResumeAt(nal, parsed)
<1>5. r'.end = r.end /\ r'.off = o
  <2>1. r' = [r EXCEPT !.off = o]
    BY <1>2
  <2> HIDE DEF o
  <2> QED
    BY <1>4, <2>1 DEF Reader
<1>6. ASSUME delim PROVE BeforeNext(o)
  <2>1. PICK k \in 0 .. Copied : /\ parsed = StartCodeSz + k
                                 /\ \A a \in nal .. nal + k - 1 : StartCode(data, a) = 0
    BY <1>2, <1>6, Zenon DEF SXE_parsed
  <2> DEFINE n == Len(data)
             at == Units[Past].at
             len == Units[Past].len
             cap == nal + DataBufSize
             end == r.end + StartCodeSz
             stop == DataEnd(nal, r.end)
  <2>2. n \in Nat /\ n + 3 < Width /\ Width \in Nat
    BY <1>3, FileFacts DEF data
  <2>3. r.end = n /\ at \in Nat /\ len \in Nat /\ nal = at /\ file.atoms = <<>>
    BY <1>3, <1>6, UnitFacts DEF EndsAt
  <2>4. stop <= end
    <3> DEFINE T == {cap, end}
    <3>1. T \subseteq Nat /\ T # {}
      BY <1>4, <2>2, <2>3 DEF StartCodeSz
    <3> HIDE DEF cap, end
    <3>2. end \in T /\ stop = Min(T)
      BY DEF stop, DataEnd, cap, end
    <3> HIDE DEF T, stop
    <3> QED
      BY <3>1, <3>2, MinIsLeast
  <2>5. stop \in Int
    <3> DEFINE T == {cap, end}
    <3>1. T \subseteq Nat /\ T # {}
      BY <1>4, <2>2, <2>3 DEF StartCodeSz
    <3> HIDE DEF cap, end
    <3>2. stop = Min(T)
      BY DEF stop, DataEnd, cap, end
    <3> HIDE DEF T, stop
    <3>3. Min(T) \in T
      BY <3>1, MinIsLeast
    <3>4. stop \in Nat
      BY <3>1, <3>2, <3>3, Zenon
    <3> QED
      BY <3>4
  <2>6. Copied = stop - nal - 3
    BY DEF Copied, DataSize, StartCodeSz
  <2>7. k \in Nat /\ at + k <= n
    <3>1. end = n + 3
      BY <2>3 DEF StartCodeSz
    <3> DEFINE c == Copied
    <3>2. c = stop - at - 3 /\ k \in 0 .. c
      BY <2>1, <2>3, <2>6
    <3> HIDE DEF stop, end, at, c, n
    <3> QED
      BY <2>2, <2>3, <2>4, <2>5, <3>1, <3>2
  <2>8. o = at + k
    <3>1. o = (nal + (StartCodeSz + k) - StartCodeSz) % Width
      BY <2>1 DEF ResumeAt
    <3> HIDE DEF n, at
    <3>2. nal + (StartCodeSz + k) - StartCodeSz = at + k
      BY <2>3, <2>7 DEF StartCodeSz
    <3>3. at + k \in 0 .. Width - 1 /\ at + k \in Int
      BY <2>2, <2>3, <2>7
    <3> QED
      BY <3>1, <3>2, <3>3, OffsetWraps
  <2> HIDE DEF o
  <2>9. Past > 0 => Units[Past].at <= o
    <3> HIDE DEF at
    <3>1. at <= o
      BY <2>3, <2>7, <2>8
    <3> QED
      BY <3>1 DEF at
  <2>10. ASSUME Past < Len(Units) PROVE o + StartCodeSz <= Units[Past + 1].at
    <3> DEFINE next == Units[Past + 1].at
               a == next - StartCodeSz
    <3>1. Past \in Nat /\ Past + 1 \in 1 .. Len(Units)
      <4> DEFINE p == Past
                 m == Len(Units)
      <4>1. m \in Nat /\ p \in 1 .. m /\ p < m
        BY <1>3, <2>10, FileFacts DEF Units
      <4> HIDE DEF p, m
      <4>2. p \in Nat /\ p + 1 \in 1 .. m
        BY <4>1
      <4> QED
        BY <4>2 DEF p, m
    <3>2. StartCode(data, a) = 3 /\ next \in Nat
      BY <1>3, <2>3, <3>1, OwnCode DEF Units, data, StartCodeSz
    <3>3. at + len + 3 <= next
      <4>1. Past < Past + 1
        BY <3>1
      <4> QED
        BY <1>3, <3>1, <4>1, UnitsApart DEF Units, StartCodeSz
    <3> HIDE DEF next, at, len
    <3>4. a = next - 3 /\ a \in Int
      BY <3>2 DEF StartCodeSz
    <3> HIDE DEF a
    <3>5. ~(a \in nal .. nal + k - 1)
      BY <2>1, <3>2
    <3>6. o + 3 <= next
      <4>1. /\ a = next - 3 /\ nal = at /\ at \in Nat /\ len \in Nat /\ next \in Nat
            /\ k \in Nat /\ at + len + 3 <= next /\ o = at + k
        BY <2>3, <2>7, <2>8, <3>2, <3>3, <3>4
      <4> QED
        BY <3>5, <4>1
    <3> QED
      BY <3>6 DEF next, StartCodeSz
  <2> QED
    BY <2>9, <2>10, Zenon DEF BeforeNext
<1> HIDE DEF o
<1>7. delim => BeforeNext(r'.off)
  BY <1>5, <1>6, Zenon
<1> QED
  BY <1>1, <1>5, <1>7, UnitGoesOn DEF unitVars

(* The next unit is the next in the file.                                  *)
LEMMA StartUnitKeeps ==
  ASSUME TypeOK, OnTrack, WhereInFile, StartUnit
  PROVE  WhereInFile'
<1> DEFINE from == Switched(r, TRUE)
           head == ThreeOf(data, from, 1, 2, 5)
           kind == Number(SubSeq(head.bits, 4, 8))
           p == Past + 1
           u == Units[p]
           all == RbspBits(u)
           N == Len(u.rbsp)
<1>1. pc = "nal"
  BY Zenon DEF StartUnit
<1>2. SoundFile(file) /\ delim = (file.atoms = <<>>)
  BY <1>1, DelimIs
<1>3. UnitKept /\ WhereAtUnit
  BY Zenon DEF WhereInFile
<1>4. Past < Len(Units) /\ r.off = u.at /\ r.shift = 0 /\ Bounded(p)
  BY <1>1, <1>3, Zenon DEF WhereAtUnit
<1>5. FileType(file) /\ r \in Reader /\ seen \in Seq(0 .. Width - 1)
  BY Zenon DEF TypeOK
<1>6. p \in 1 .. Len(Units) /\ Past \in Nat /\ Len(Units) \in Nat
  <2> DEFINE m == Len(Units)
             q == Past
  <2>1. m \in Nat /\ q \in Nat /\ q < m
    BY <1>4, <1>5, FileFacts DEF Units, Past
  <2> HIDE DEF m, q
  <2>2. q + 1 \in 1 .. m
    BY <2>1
  <2> QED
    BY <2>1, <2>2 DEF m, q
<1>7. UnitOf(file, u)
  BY <1>2, <1>5, <1>6, UnitOfFile DEF Units
<1>8. /\ N \in Nat /\ N > 0 /\ u.at \in Nat /\ u.len \in Nat /\ u.at + u.len <= Len(data)
      /\ u.place[1] = u.at /\ Len(data) \in Nat
  BY <1>7, UnitFacts DEF data
<1>9. u.at + u.len <= r.end
  <2> DEFINE e == u.at + u.len
             n == Len(data)
  <2>1. r.end = n \/ r.end = e
    BY <1>4 DEF Bounded
  <2>2. e <= n /\ e \in Nat
    BY <1>8
  <2> HIDE DEF e, n
  <2>3. e <= r.end
    BY <2>1, <2>2
  <2> QED
    BY <2>3 DEF e
<1>10. from \in Reader /\ from.off = r.off /\ from.shift = r.shift /\ from.end = r.end
       /\ from.rbsp
  BY <1>5, SwitchedReader, Zenon
<1>11. Inside(file, u, from) /\ StandsAt(from, u, 0)
  <2>1. Inside(file, u, from)
    BY <1>7, <1>9, <1>10, Zenon DEF Inside
  <2> HIDE DEF from, u
  <2>2. from.shift = 0 /\ from.off = u.at
    BY <1>4, <1>10
  <2>3. StandsAt(from, u, 0)
    BY <2>2 DEF StandsAt
  <2> QED
    BY <2>1, <2>3
<1>12. Taken(file, u, head, 8) /\ kind = Kind(u)
  <2> HIDE DEF from, u
  <2> QED
    BY <1>11, UnitByte, Zenon DEF data
<1>13. head \in Reads /\ Alike(from, head.r) /\ kind \in 0 .. 31 /\ head.bits[1] \in Bit
  <2>1. Mapped(data)
    BY FileMapped
  <2> HIDE DEF from
  <2> QED
    BY <1>10, <2>1, UnitByteType
<1>14. /\ nal' = r.off /\ r' = head.r /\ type' = kind
       /\ pc' = CASE head.bits[1] = 1 -> "malformed"
                  [] head.bits[1] = 0 /\ kind \in Slice \union ParameterSet -> "parse"
                  [] OTHER -> "after"
       /\ asked' = FALSE
       /\ seen' = IF Len(seen) > Len(file.units) THEN seen ELSE Append(seen, r.off)
       /\ got' = head.bits
       /\ UNCHANGED <<file, atomVars>>
  <2>1. \/ ThreeOf(data, from, 1, 2, 5).out /\ DataEnds
        \/ /\ nal' = r.off /\ r' = head.r /\ type' = kind
           /\ pc' = CASE head.bits[1] = 1 -> "malformed"
                      [] head.bits[1] = 0 /\ kind \in Slice \union ParameterSet -> "parse"
                      [] OTHER -> "after"
           /\ asked' = FALSE
           /\ seen' = IF Len(seen) > Len(file.units) THEN seen ELSE Append(seen, r.off)
           /\ got' = head.bits
           /\ UNCHANGED <<file, atomVars>>
    BY Zenon DEF StartUnit, ThreeOf, Switched
  <2>2. ~ThreeOf(data, from, 1, 2, 5).out
    BY <1>12, Zenon DEF Taken
  <2> HIDE DEF from
  <2> QED
    BY <2>1, <2>2, Zenon
<1>15. /\ Len(head.bits) = 8 /\ StandsAt(head.r, u, 8) /\ head.r.rbsp
       /\ \A i \in 1 .. 8 : head.bits[i] = all[i]
  BY <1>12, Zenon DEF Taken, Inside
<1> HIDE DEF from, head, kind
<1>16. /\ pc' \in {"malformed", "parse", "after"}
       /\ pc' = "parse" => kind \in Slice \union ParameterSet
  <2> DEFINE usual == kind \in Slice \union ParameterSet
  <2>1. pc' = CASE head.bits[1] = 1 -> "malformed"
                [] head.bits[1] = 0 /\ usual -> "parse"
                [] OTHER -> "after"
    BY <1>14
  <2> HIDE DEF usual
  <2>2. pc' \in {"malformed", "parse", "after"} /\ (pc' = "parse" => usual)
    BY <1>13, <2>1 DEF Bit
  <2> QED
    BY <2>2 DEF usual
<1>17. seen' = Append(seen, r.off)
  <2> DEFINE m == Len(file.units)
             q == Len(seen)
             more == Append(seen, r.off)
  <2>1. seen' = IF q > m THEN seen ELSE more
    BY <1>14
  <2>2. q < m /\ q \in Nat /\ m \in Nat
    BY <1>4, <1>6 DEF Units, Past
  <2> HIDE DEF more, m, q
  <2>3. ~(q > m)
    BY <2>2
  <2> QED
    BY <2>1, <2>3 DEF more
<1>18. Past' = p /\ Units' = Units /\ data' = data /\ file' = file /\ delim' = delim
       /\ Past' > 0
  <2>1. Len(Append(seen, r.off)) = Len(seen) + 1
    BY <1>5, <1>10, ReaderLoose
  <2>2. Past' = p /\ p > 0
    BY <1>6, <1>17, <2>1 DEF Past
  <2> QED
    BY <1>14, <2>2 DEF Units, data, atomVars
<1>19. /\ \A i \in 1 .. p : seen'[i] = Units[i].at
  <2>1. \A i \in 1 .. Past : seen[i] = Units[i].at
    BY <1>3, Zenon DEF UnitKept
  <2> DEFINE o == r.off
             S == 0 .. Width - 1
             more == Append(seen, o)
             q == Len(seen)
  <2>2. o \in S
    BY <1>5, ReaderLoose
  <2> HIDE DEF o, S
  <2>3. \A i \in 1 .. q : more[i] = seen[i]
    BY <1>5, <2>2 DEF S
  <2>4. more[q + 1] = o
    BY <1>5, <2>2 DEF S
  <2> HIDE DEF more, q
  <2>5. p = q + 1 /\ q \in Nat /\ Past = q
    BY <1>6 DEF q, Past
  <2>6. seen' = more
    BY <1>17 DEF more, o
  <2>7. o = Units[p].at
    BY <1>4 DEF o
  <2> SUFFICES ASSUME NEW i \in 1 .. p PROVE seen'[i] = Units[i].at
    OBVIOUS
  <2>8. CASE i \in 1 .. q
    BY <2>1, <2>3, <2>5, <2>6, <2>8
  <2>9. CASE i = p
    BY <2>4, <2>5, <2>6, <2>7, <2>9
  <2>10. i \in 1 .. q \/ i = p
    BY <2>5
  <2> QED
    BY <2>8, <2>9, <2>10
<1>20. IsPrefix(head.bits, all)
  <2> DEFINE bits == head.bits
             eight == 8
  <2>1. bits \in Seq(Bit) /\ Len(bits) = eight /\ \A i \in 1 .. eight : bits[i] = all[i]
    BY <1>13, <1>15 DEF Reads
  <2>2. all \in Seq(Bit) /\ Len(all) = 8 * N
    BY <1>7, RbspBitsAre
  <2> HIDE DEF bits, all, N
  <2>3. eight <= 8 * N
    BY <1>8
  <2> HIDE DEF eight
  <2>4. Len(bits) <= Len(all) /\ \A i \in 1 .. Len(bits) : bits[i] = all[i]
    BY <2>1, <2>2, <2>3
  <2>5. IsPrefix(bits, all)
    BY <2>1, <2>2, <2>4, PrefixIs
  <2> QED
    BY <2>5 DEF bits
<1>21. UnitKept'
  <2>1. Past' <= Len(Units)
    <3> DEFINE m == Len(Units)
    <3>1. Past' \in 1 .. m
      BY <1>6, <1>18
    <3> HIDE DEF m
    <3>2. Past' <= m
      BY <3>1
    <3> QED
      BY <3>2 DEF m
  <2>2. nal' = Units[p].at /\ type' = Kind(Units[p]) /\ IsPrefix(got', RbspBits(Units[p]))
    BY <1>4, <1>12, <1>14, <1>20
  <2> HIDE DEF p
  <2> QED
    BY <1>18, <1>19, <2>1, <2>2, Zenon DEF UnitKept
<1>22. Bounded(Past)'
  <2>1. r'.end = r.end
    BY <1>10, <1>13, <1>14, Zenon DEF Alike
  <2>2. PICK i : i = p
    OBVIOUS
  <2>3. Bounded(i) /\ i = Past'
    BY <1>4, <1>18, <2>2
  <2>4. Bounded(i)'
    BY <1>14, <2>1, <2>3, BoundedStays
  <2> QED
    BY <2>3, <2>4, Zenon DEF Bounded
<1>23. ASSUME pc' = "parse"
       PROVE  /\ type' \in Slice \union ParameterSet
              /\ Len(got') <= DataBits(u)
              /\ r'.rbsp /\ StandsAt(r', u, Len(got'))
  <2>1. kind \in Slice \union ParameterSet
    BY <1>16, <1>23
  <2>2. N > 1
    <3>1. Kind(u) \in Slice \union ParameterSet
      BY <1>12, <2>1
    <3> HIDE DEF u
    <3> QED
      BY <1>7, <3>1, Zenon DEF UnitOf, SoundUnit, N
  <2>3. 8 <= DataBits(u)
    <3> DEFINE D == DataBits(u)
    <3>1. D \in Nat /\ 8 * N - 8 <= D
      BY <1>7, DataBitsAre
    <3> HIDE DEF D, N
    <3>2. 8 <= D
      BY <1>8, <2>2, <3>1
    <3> QED
      BY <3>2 DEF D
  <2> QED
    BY <1>14, <1>15, <2>1, <2>3
<1>24. ASSUME delim PROVE BeforeNext(r.off)'
  <2> DEFINE at == u.at
             len == u.len
             o == r'.off
  <2>1. o = at + 1
    <3>1. head.r.off = u.place[1] + 1
      <4> HIDE DEF u
      <4>1. 8 % 8 = 0 /\ 8 \div 8 = 1 /\ 8 # 0
        OBVIOUS
      <4> QED
        BY <1>15, <4>1 DEF StandsAt
    <3> QED
      BY <1>8, <1>14, <3>1
  <2>2. at < at + len /\ at \in Nat /\ len \in Nat
    <3> DEFINE one == 1
    <3>1. one \in 1 .. N
      BY <1>8
    <3> HIDE DEF one
    <3>2. u.place[one] < u.at + u.len
      BY <1>7, <3>1, PlaceInUnit
    <3> QED
      BY <1>8, <3>2 DEF one
  <2>3. ASSUME p < Len(Units) PROVE o + 3 <= Units[p + 1].at
    <3> DEFINE q == p + 1
               next == Units[q].at
               m == Len(Units)
    <3>1. q \in 1 .. m /\ p < q
      <4> HIDE DEF m, p
      <4> QED
        BY <1>6, <2>3 DEF m
    <3> HIDE DEF q, p
    <3>2. at + len + 3 <= next /\ next \in Nat
      BY <1>2, <1>5, <1>6, <3>1, UnitsApart DEF Units, StartCodeSz
    <3> HIDE DEF at, len, o, next
    <3>3. o + 3 <= next
      BY <2>1, <2>2, <3>2
    <3> QED
      BY <3>3 DEF next, q
  <2>4. at <= o
    <3> HIDE DEF at, len, o
    <3> QED
      BY <2>1, <2>2
  <2> HIDE DEF p
  <2> QED
    BY <1>18, <2>3, <2>4, Zenon DEF BeforeNext, StartCodeSz
<1>25. WhereInUnit'
  <2> HIDE DEF p
  <2> QED
    BY <1>18, <1>22, <1>23, <1>24, Zenon DEF WhereInUnit
<1>26. WhereEnded'
  BY <1>16 DEF WhereEnded
<1>27. pc' \notin {"probe", "seek", "atom", "mdat", "nal"}
  BY <1>16
<1> QED
  BY <1>2, <1>18, <1>21, <1>25, <1>26, <1>27, Gather

(* Start codes are found in order, none is passed.                         *)
LEMMA SeekKeeps ==
  ASSUME TypeOK, OnTrack, WhereInFile, Seek
  PROVE  WhereInFile'
<1> DEFINE stops == {o \in r.off .. r.end :
                       ReachesEnd([r EXCEPT !.off = o], 3) \/ StartCode(data, o) > 0}
           m == Min(stops \union {r.end})
           stop == Placed(r, m, 0)
           n == Len(data)
           p == Past + 1
           next == Units[p].at
           from == r.off
           end == r.end
           code == StartCode(data, m)
           o == next - StartCodeSz
<1>1. pc = "seek"
  BY Zenon DEF Seek
<1>2. SoundFile(file) /\ delim = (file.atoms = <<>>)
  BY <1>1, DelimIs
<1>3. UnitKept /\ WhereSeeking
  BY Zenon DEF WhereInFile
<1>4. delim /\ ~r.rbsp /\ end = n /\ BeforeNext(from)
  BY <1>1, <1>3, Zenon DEF WhereSeeking
<1>5. FileType(file) /\ r \in Reader /\ seen \in Seq(0 .. Width - 1) /\ file.atoms = <<>>
  BY <1>2, <1>4, Zenon DEF TypeOK
<1>6. from \in Nat /\ end \in Nat /\ n \in Nat /\ n + 3 < Width /\ Width \in Nat
  BY <1>5, ReaderLoose, FileFacts DEF data
<1>7. Past \in Nat /\ Len(Units) \in Nat /\ Past <= Len(Units)
  BY <1>3, <1>5, FileFacts DEF Past, Units, UnitKept
<1>8. /\ m \in 0 .. Width - 1 /\ m \in stops \union {end}
      /\ \A a \in stops \union {end} : m <= a
  BY SeekType
<1>9. \/ ReachesEnd(stop, 3) /\ DataEnds
      \/ /\ ~ReachesEnd(stop, 3)
         /\ r' = [stop EXCEPT !.off = (stop.off + StartCode(data, stop.off)) % Width]
         /\ pc' = "nal"
         /\ UNCHANGED <<file, atomVars, unitVars, seen, got>>
  BY Zenon DEF Seek, Placed
<1> HIDE DEF m
<1>10. stop \in Reader /\ stop.off = m /\ stop.shift = 0 /\ stop.end = end
  <2> DEFINE zero == 0
  <2>1. m \in Nat /\ zero \in Nat /\ zero \in 0 .. 7 /\ m \in 0 .. Width - 1
    BY <1>8
  <2> HIDE DEF zero
  <2>2. Placed(r, m, zero) \in Reader /\ Placed(r, m, zero).off = m
        /\ Placed(r, m, zero).shift = zero /\ Placed(r, m, zero).end = r.end
    BY <1>5, <2>1, PlacedReader
  <2> QED
    BY <2>2 DEF zero
<1> HIDE DEF stop
<1>11. m <= end
  <2>1. end \in stops \union {end}
    OBVIOUS
  <2> HIDE DEF stops, end
  <2> QED
    BY <1>8, <2>1
<1>12. ReachesEnd(stop, 3) <=> m + 3 >= end
  <2>1. m + 3 \in 0 .. Width - 1 /\ m + 3 \in Int
    <3> HIDE DEF end, n
    <3> QED
      BY <1>4, <1>6, <1>8, <1>11
  <2>2. (m + 3) % Width = m + 3
    BY <2>1, OffsetWraps
  <2> QED
    BY <1>10, <2>2 DEF ReachesEnd
<1>13. ASSUME Past < Len(Units)
       PROVE  /\ next \in Nat /\ m <= o /\ o + 3 = next /\ next < end /\ p \in 1 .. Len(Units)
              /\ o \in Nat
  <2>1. p \in 1 .. Len(Units)
    <3> DEFINE l == Len(Units)
               q == Past
    <3>1. q \in Nat /\ l \in Nat /\ q < l
      BY <1>7, <1>13
    <3> HIDE DEF l, q
    <3>2. q + 1 \in 1 .. l
      BY <3>1
    <3> QED
      BY <3>2 DEF l, q
  <2> HIDE DEF p
  <2>2. next \in Nat /\ next >= 3 /\ next < n /\ StartCode(data, o) = 3
    BY <1>2, <1>5, <2>1, OwnCode DEF Units, data, StartCodeSz
  <2>3. from + 3 <= next
    BY <1>4, <1>13, Zenon DEF BeforeNext, StartCodeSz, p
  <2> HIDE DEF next, from, end, n
  <2>4. o = next - 3 /\ o \in Nat /\ o \in from .. end
    BY <1>4, <1>6, <2>2, <2>3 DEF StartCodeSz
  <2> HIDE DEF o
  <2>5. o \in stops
    BY <2>2, <2>4 DEF from, end
  <2>6. m <= o
    BY <1>8, <2>5
  <2>7. next < end /\ o + 3 = next
    BY <1>4, <2>2, <2>4
  <2> QED
    BY <2>1, <2>2, <2>4, <2>6, <2>7
<1>14. Past > 0 => Units[Past].at <= from
  BY <1>4, Zenon DEF BeforeNext
<1>15. CASE ReachesEnd(stop, 3)
  <2>1. ~(Past < Len(Units))
    <3> SUFFICES ASSUME Past < Len(Units) PROVE FALSE
      OBVIOUS
    <3>1. next \in Nat /\ m <= o /\ o + 3 = next /\ next < end /\ o \in Nat
      BY <1>13
    <3>2. m + 3 >= end
      BY <1>12, <1>15
    <3> HIDE DEF o, next, end
    <3> QED
      BY <1>6, <1>8, <3>1, <3>2
  <2>2. Past = Len(Units)
    <3> DEFINE q == Past
               l == Len(Units)
    <3>1. q \in Nat /\ l \in Nat /\ q <= l /\ ~(q < l)
      BY <1>7, <2>1
    <3> HIDE DEF q, l
    <3>2. q = l
      BY <3>1
    <3> QED
      BY <3>2 DEF q, l
  <2>3. pc' = "data_end" /\ UNCHANGED <<file, r, atomVars, unitVars, seen, got>>
    BY <1>9, <1>15, Zenon DEF DataEnds
  <2> QED
    BY <1>2, <1>3, <2>2, <2>3, UnitEnds DEF unitVars
<1>16. CASE ~ReachesEnd(stop, 3)
  <2>1. /\ r' = [stop EXCEPT !.off = (m + code) % Width] /\ pc' = "nal"
        /\ UNCHANGED <<file, atomVars, unitVars, seen, got>>
    BY <1>9, <1>10, <1>16
  <2>2. m + 3 < end
    <3> HIDE DEF end
    <3> QED
      BY <1>6, <1>8, <1>12, <1>16
  <2>3. m \in from .. end /\ code > 0
    <3>1. m \in stops
      <4> HIDE DEF stops, end
      <4> QED
        BY <1>6, <1>8, <2>2
    <3>2. ~ReachesEnd([r EXCEPT !.off = m], 3)
      <4>1. m \in Nat /\ m + 3 < Width /\ ~(m + 3 >= r.end)
        <5> HIDE DEF n
        <5> QED
          BY <1>4, <1>6, <1>8, <2>2
      <4> QED
        BY <1>5, <4>1, ReachesThree
    <3> QED
      BY <3>1, <3>2
  <2>4. PICK c \in {3, 4} : code = c
    <3>1. code \in {0, 3, 4}
      BY StartCodeIs
    <3> QED
      BY <2>3, <3>1
  <2> HIDE DEF stops, code
  <2>5. /\ p \in 1 .. Len(Units) /\ next <= m + c
        /\ m + StartCodeSz <= next => next = m + c
    <3>1. m \in 0 .. Len(file.bytes)
      <4> HIDE DEF n, end
      <4>1. m \in 0 .. n
        BY <1>4, <1>6, <1>8, <1>11
      <4> QED
        BY <4>1 DEF n, data
    <3>2. Past \in 0 .. Len(Units)
      BY <1>7
    <3>3. Past > 0 => Units[Past].at <= m
      <4>1. ASSUME Past > 0 PROVE Units[Past].at <= m
        <5> DEFINE at == Units[Past].at
        <5>1. at \in Nat
          <6> DEFINE q == Past
          <6>1. q \in 1 .. Len(Units)
            BY <1>7, <4>1
          <6> HIDE DEF q
          <6>2. UnitOf(file, Units[q])
            BY <1>2, <1>5, <6>1, UnitOfFile DEF Units
          <6> QED
            BY <6>2, UnitFacts DEF q
        <5>2. at <= from
          BY <1>14, <4>1
        <5>3. from <= m /\ m \in Nat
          BY <1>6, <1>8, <2>3
        <5> HIDE DEF at, from
        <5> QED
          BY <1>6, <5>1, <5>2, <5>3 DEF at
      <4> QED
        BY <4>1
    <3>4. StartCode(file.bytes, m) = c
      BY <2>4 DEF code, data
    <3>5. /\ Past + 1 \in 1 .. Len(file.units)
          /\ file.units[Past + 1].at <= m + c
          /\ m + StartCodeSz <= file.units[Past + 1].at => file.units[Past + 1].at = m + c
      <4> DEFINE q == Past
      <4>1. q \in 0 .. Len(file.units) /\ (q > 0 => file.units[q].at <= m)
        BY <3>2, <3>3 DEF Units
      <4> HIDE DEF q
      <4>2. /\ q + 1 \in 1 .. Len(file.units)
            /\ file.units[q + 1].at <= m + c
            /\ m + StartCodeSz <= file.units[q + 1].at => file.units[q + 1].at = m + c
        BY <1>2, <1>5, <3>1, <3>4, <4>1, CodeBefore
      <4> QED
        BY <4>2 DEF q
    <3> QED
      BY <3>5 DEF Units
  <2>6. Past < Len(Units)
    <3> DEFINE q == Past
               l == Len(Units)
    <3>1. q \in Nat /\ l \in Nat /\ q + 1 \in 1 .. l
      BY <1>7, <2>5
    <3> HIDE DEF q, l
    <3>2. q < l
      BY <3>1
    <3> QED
      BY <3>2 DEF q, l
  <2>7. next = m + c /\ next \in Nat /\ next < end
    <3>1. next \in Nat /\ m <= o /\ o + 3 = next /\ next < end /\ o \in Nat
      BY <1>13, <2>6
    <3> HIDE DEF o, next
    <3>2. m + StartCodeSz <= next
      BY <1>8, <3>1 DEF StartCodeSz
    <3> QED
      BY <2>5, <3>1, <3>2 DEF next
  <2>8. (m + code) % Width = next
    <3> HIDE DEF next, end, n
    <3>1. m + code = next /\ next \in 0 .. Width - 1 /\ next \in Int
      BY <1>4, <1>6, <2>4, <2>7
    <3> QED
      BY <3>1, OffsetWraps
  <2>9. r'.off = next /\ r'.shift = 0 /\ r'.end = end
    <3> HIDE DEF next, end
    <3>1. r' = [stop EXCEPT !.off = next]
      BY <2>1, <2>8
    <3> QED
      BY <1>10, <3>1 DEF Reader
  <2>10. Past' = Past /\ Units' = Units /\ data' = data /\ delim' = delim /\ file' = file
    BY <2>1 DEF Past, Units, data, atomVars
  <2>11. WhereAtUnit'
    <3>1. Bounded(p)'
      BY <1>4, <2>9, <2>10 DEF Bounded
    <3> QED
      BY <2>6, <2>9, <2>10, <3>1, Zenon DEF WhereAtUnit, p, next
  <2>12. UnitKept'
    BY <1>3, <2>1, UnitStays DEF unitVars
  <2>13. WhereEnded'
    BY <2>1 DEF WhereEnded
  <2>14. delim' = (file.atoms = <<>>)
    BY <1>2, <2>10, Zenon
  <2> QED
    BY <1>2, <2>1, <2>10, <2>11, <2>12, <2>13, <2>14, Gather
<1> QED
  BY <1>15, <1>16

-----------------------------------------------------------------------------
(***************************************************************************)
(* The words of the container.                                             *)
(***************************************************************************)
(* Outside the units nothing is escaped and all reads start at a byte.     *)
Plain(rd, o) == rd \in Reader /\ ~rd.rbsp /\ rd.shift = 0 /\ rd.off = o

LEMMA PlainPlaces ==
  ASSUME NEW d, Mapped(d), NEW rd \in Reader, ~rd.rbsp, NEW o \in Nat, NEW n \in Nat
  PROVE  \A k \in 0 .. n : Places(d, rd, o, n)[k] = o + k
<1> DEFINE place == Places(d, rd, o, n)
           T == {k \in 0 .. n : place[k] = o + k}
<1>1. place \in PlaceRuns(d, rd, o, n)
  BY PlacesRun
<1> HIDE DEF place
<1>2. /\ place[0] = Escaped(d, rd, o)
      /\ \A k \in 1 .. n : place[k] = Escaped(d, rd, place[k - 1] + 1)
  BY <1>1, Zenon DEF PlaceRuns
<1>3. \A a : Escaped(d, rd, a) = a
  BY Zenon DEF Escaped, Emulated
<1>4. place[0] = o /\ \A k \in 1 .. n : place[k] = place[k - 1] + 1
  BY <1>2, <1>3, Zenon
<1>5. 0 \in T
  BY <1>4
<1>6. ASSUME NEW k \in 0 .. n - 1, k \in T PROVE k + 1 \in T
  <2> DEFINE j == k + 1
  <2>1. j \in 1 .. n /\ j - 1 = k /\ j \in 0 .. n
    OBVIOUS
  <2>2. place[k] = o + k
    BY <1>6
  <2> HIDE DEF j
  <2>3. place[j] = place[k] + 1
    BY <1>4, <2>1
  <2>4. place[j] = o + j
    BY <2>1, <2>2, <2>3
  <2> QED
    BY <2>1, <2>4 DEF j
<1> HIDE DEF T
<1>7. 0 .. n \subseteq T
  BY <1>5, <1>6, UpTo
<1> QED
  BY <1>7 DEF T, place

LEMMA WordType ==
  ASSUME NEW d, Mapped(d), NEW o \in Nat
  PROVE  WordAt(d, o) \in Seq(Bit) /\ Len(WordAt(d, o)) = 32
<1> DEFINE byte == [k \in 0 .. 3 |-> ByteAt(d, o + k)]
           m == 3
           from == 0
           n == 32
<1>1. byte \in [0 .. m -> Byte]
  <2>1. ASSUME NEW k \in 0 .. 3 PROVE ByteAt(d, o + k) \in Byte
    <3> DEFINE a == o + k
    <3>1. a \in Nat
      OBVIOUS
    <3> HIDE DEF a
    <3>2. ByteAt(d, a) \in Byte
      BY <3>1, ByteAtType
    <3> QED
      BY <3>2 DEF a
  <2> QED
    BY <2>1
<1>2. m \in Nat /\ from \in Nat /\ n \in Nat /\ (from + n - 1) \div 8 <= m
  OBVIOUS
<1>3. WordAt(d, o) = BitString(byte, from, n)
  BY Zenon DEF WordAt
<1> HIDE DEF byte, m, from, n
<1>4. BitString(byte, from, n) \in Seq(Bit) /\ Len(BitString(byte, from, n)) = n
  BY <1>1, <1>2, BitStringType
<1> QED
  BY <1>3, <1>4 DEF n

LEMMA PlainWord ==
  ASSUME NEW d, Mapped(d), NEW o \in Nat, o + 3 < Width, NEW rd, Plain(rd, o)
  PROVE  LET word == ReadU(d, rd, 32)
         IN  /\ word.out <=> o + 3 >= rd.end
             /\ word.bits = WordAt(d, o)
             /\ o + 3 < rd.end => Plain(word.r, o + 4)
<1> DEFINE n == 32
           word == ReadU(d, rd, n)
           last == LastByte(rd, n)
           place == PlacesRead(d, rd, n)
           left == Left(d, rd, n)
           to == [rd EXCEPT !.off = left]
<1>1. rd \in Reader /\ ~rd.rbsp /\ rd.shift = 0 /\ rd.off = o
  BY Zenon DEF Plain
<1>2. n \in Widths
  BY DEF Widths
<1>3. last = 3
  <2> DEFINE s == rd.shift
  <2>1. s = 0 /\ last = (32 + s - 1) \div 8
    BY <1>1 DEF LastByte
  <2> HIDE DEF s, last
  <2> QED
    BY <2>1
<1>4. \A k \in 0 .. 3 : place[k] = o + k
  <2> DEFINE three == 3
  <2>1. three \in Nat /\ place = Places(d, rd, o, three)
    BY <1>1, <1>3, Zenon DEF PlacesRead
  <2> HIDE DEF three, place
  <2>2. \A k \in 0 .. three : place[k] = o + k
    BY <1>1, <2>1, PlainPlaces
  <2> QED
    BY <2>2 DEF three
<1>5. left = o
  <2>1. left = place[3] - 3
    BY <1>3, Zenon DEF Left
  <2> HIDE DEF left, place
  <2> QED
    BY <1>4, <2>1
<1>6. word = Read(Advance(to, n), BitsRead(d, rd, n), ReachesEnd(rd, last))
      /\ word.r \in Reader /\ word.r.end = rd.end /\ word.r.rbsp = rd.rbsp
      /\ word.bits = BitsRead(d, rd, n)
  <2> HIDE DEF n
  <2> QED
    BY <1>1, <1>2, ReadType
<1>7. word.bits = WordAt(d, o)
  <2>1. BytesRead(d, rd, n) = [k \in 0 .. 3 |-> ByteAt(d, place[k])]
    BY <1>3, Zenon DEF BytesRead
  <2> HIDE DEF place, n
  <2>2. [k \in 0 .. 3 |-> ByteAt(d, place[k])] = [k \in 0 .. 3 |-> ByteAt(d, o + k)]
    BY <1>4
  <2>3. BitsRead(d, rd, n) = BitString([k \in 0 .. 3 |-> ByteAt(d, o + k)], 0, n)
    BY <1>1, <2>1, <2>2, Zenon DEF BitsRead
  <2> QED
    BY <1>6, <2>3, Zenon DEF WordAt, n
<1>8. word.out <=> o + 3 >= rd.end
  <2> DEFINE end == rd.end
             out == ReachesEnd(rd, last)
  <2>1. word.out <=> out
    <3> DEFINE after == Advance(to, n)
               bits == BitsRead(d, rd, n)
    <3>1. word = Read(after, bits, out)
      BY <1>6
    <3> HIDE DEF word, out, after, bits
    <3>2. word.out = out
      BY <3>1, Zenon DEF Read
    <3> QED
      BY <3>2, Zenon
  <2>2. out <=> (o + 3) % Width >= end
    BY <1>1, <1>3, Zenon DEF ReachesEnd
  <2>3. (o + 3) % Width = o + 3
    <3>1. o + 3 \in 0 .. Width - 1 /\ o + 3 \in Int
      BY WidthAssumption
    <3> QED
      BY <3>1, OffsetWraps
  <2> HIDE DEF word, out, end
  <2>4. word.out <=> o + 3 >= end
    BY <2>1, <2>2, <2>3, Zenon
  <2> QED
    BY <2>4 DEF end
<1>9. word.r = Advance(to, n)
  <2> HIDE DEF word, to
  <2> QED
    BY <1>6, Zenon DEF Read
<1>10. ASSUME o + 3 < rd.end PROVE Plain(word.r, o + 4)
  <2>1. to \in Loose /\ to.off = o /\ to.shift = 0
    <3> HIDE DEF left
    <3> QED
      BY <1>1, <1>5, ReaderLoose DEF Loose, Reader
  <2> HIDE DEF to
  <2>2. /\ Advance(to, n).off = (to.off + (to.shift + n) \div 8) % Width
        /\ Advance(to, n).shift = (to.shift + n) % 8
    <3>1. n \in Nat
      OBVIOUS
    <3> HIDE DEF n
    <3> QED
      BY <2>1, <3>1, AdvanceType
  <2>3. (to.shift + n) \div 8 = 4 /\ (to.shift + n) % 8 = 0
    BY <2>1
  <2>4. (o + 4) % Width = o + 4
    <3> DEFINE end == rd.end
    <3>1. end \in 0 .. Width - 1
      BY <1>1, ReaderLoose
    <3>2. o + 3 < end
      BY <1>10
    <3> HIDE DEF end
    <3>3. o + 4 \in 0 .. Width - 1 /\ o + 4 \in Int
      BY <3>1, <3>2, WidthAssumption
    <3> QED
      BY <3>3, OffsetWraps
  <2>5. word.r.off = o + 4 /\ word.r.shift = 0
    BY <1>9, <2>1, <2>2, <2>3, <2>4
  <2> QED
    BY <1>1, <1>6, <2>5, Zenon DEF Plain
<1> QED
  BY <1>7, <1>8, <1>10, Zenon DEF n

(* A word more                                                             *)
LEMMA AddWord ==
  ASSUME NEW d, Mapped(d), NEW o \in Nat, o + 3 < Width, NEW s \in Reads, Plain(s.r, o)
  PROVE  LET t == AddRead(d, s, 32)
         IN  /\ t \in Reads /\ Alike(s.r, t.r)
             /\ t.out <=> s.out \/ o + 3 >= s.r.end
             /\ t.bits = s.bits \o WordAt(d, o)
             /\ o + 3 < s.r.end => Plain(t.r, o + 4)
<1> DEFINE n == 32
           rd == s.r
           t == AddRead(d, s, n)
           word == ReadU(d, rd, n)
<1>1. n \in Widths
  BY DEF Widths
<1>2. t \in Reads /\ Alike(rd, t.r)
  <2> HIDE DEF n
  <2> QED
    BY <1>1, AddReadType
<1>3. /\ word.out <=> o + 3 >= rd.end
      /\ word.bits = WordAt(d, o)
      /\ o + 3 < rd.end => Plain(word.r, o + 4)
  <2> HIDE DEF rd
  <2> QED
    BY PlainWord DEF rd
<1>4. t = Read(word.r, s.bits \o word.bits, s.out \/ word.out)
  BY Zenon DEF AddRead
<1> HIDE DEF t, word
<1>5. t.r = word.r /\ t.bits = s.bits \o word.bits /\ (t.out <=> s.out \/ word.out)
  BY <1>4, Zenon DEF Read
<1> QED
  BY <1>2, <1>3, <1>5, Zenon DEF t, n, rd

LEMMA HeadAndTail ==
  ASSUME NEW S, NEW x \in Seq(S), NEW y \in Seq(S), NEW m \in Nat, Len(x) = m, Len(y) = m
  PROVE  /\ SubSeq(<<>> \o x \o y, 1, m) = x
         /\ SubSeq(<<>> \o x \o y, m + 1, 2 * m) = y
<1> DEFINE all == x \o y
           head == SubSeq(all, 1, m)
           from == m + 1
           to == 2 * m
           tail == SubSeq(all, from, to)
           one == 1
<1>1. <<>> \o x = x
  OBVIOUS
<1>2. /\ all \in Seq(S) /\ Len(all) = Len(x) + Len(y)
      /\ \A i \in 1 .. Len(x) : all[i] = x[i]
      /\ \A i \in 1 .. Len(y) : all[Len(x) + i] = y[i]
  BY Joined
<1> HIDE DEF all
<1>3. one \in 1 .. Len(all) + 1 /\ m \in one - 1 .. Len(all) /\ m - one + 1 = m
  BY <1>2
<1>4. from \in 1 .. Len(all) + 1 /\ to \in from - 1 .. Len(all) /\ to - from + 1 = m
  BY <1>2
<1> HIDE DEF one, from, to
<1>5. /\ SubSeq(all, one, m) \in Seq(S) /\ Len(SubSeq(all, one, m)) = m - one + 1
      /\ \A i \in 1 .. m - one + 1 : SubSeq(all, one, m)[i] = all[one + i - 1]
  BY <1>2, <1>3, Part
<1>6. /\ tail \in Seq(S) /\ Len(tail) = to - from + 1
      /\ \A i \in 1 .. to - from + 1 : tail[i] = all[from + i - 1]
  BY <1>2, <1>4, Part
<1> DEFINE begin == SubSeq(all, one, m)
<1> HIDE DEF begin, tail
<1>7. begin = x
  <2>1. begin \in Seq(S) /\ Len(begin) = m /\ \A i \in 1 .. m : begin[i] = x[i]
    <3>1. begin \in Seq(S) /\ Len(begin) = m
      BY <1>3, <1>5 DEF begin
    <3>2. ASSUME NEW i \in 1 .. m PROVE begin[i] = x[i]
      <4>1. begin[i] = all[one + i - 1]
        BY <1>3, <1>5 DEF begin
      <4>2. one + i - 1 = i
        BY DEF one
      <4> QED
        BY <1>2, <4>1, <4>2
    <3> QED
      BY <3>1, <3>2
  <2> QED
    BY <2>1
<1>8. tail = y
  <2>1. tail \in Seq(S) /\ Len(tail) = m /\ \A i \in 1 .. m : tail[i] = y[i]
    <3>1. tail \in Seq(S) /\ Len(tail) = m
      BY <1>4, <1>6
    <3>2. ASSUME NEW i \in 1 .. m PROVE tail[i] = y[i]
      <4>1. tail[i] = all[from + i - 1]
        BY <1>4, <1>6
      <4>2. from + i - 1 = m + i
        BY DEF from
      <4> QED
        BY <1>2, <4>1, <4>2
    <3> QED
      BY <3>1, <3>2
  <2> QED
    BY <2>1
<1> QED
  BY <1>1, <1>7, <1>8 DEF begin, tail, from, to, one, all

(* The header of an atom                                                   *)
LEMMA TwoWords ==
  ASSUME NEW d, Mapped(d), NEW o \in Nat, o + 3 < Width, NEW rd, Plain(rd, o),
         rd.end <= Len(d)
  PROVE  LET head == TwoOf(d, rd, 32, 32)
         IN  /\ head.out <=> o + 8 > rd.end
             /\ o + 8 <= rd.end => /\ Plain(head.r, o + 8)
                                   /\ Word(head.bits, 1) = WordAt(d, o)
                                   /\ Word(head.bits, 2) = WordAt(d, o + 4)
<1> DEFINE n == 32
           head == TwoOf(d, rd, n, n)
           s == Read(rd, <<>>, FALSE)
           t == AddRead(d, s, n)
           h == AddRead(d, t, n)
           end == rd.end
           l == Len(d)
           p == o + 4
<1>1. rd \in Reader
  BY Zenon DEF Plain
<1>2. end \in Nat /\ l \in Nat /\ l + 3 < Width /\ end <= l /\ Width \in Nat
  BY <1>1, ReaderLoose, WidthAssumption DEF Mapped
<1>3. s \in Reads /\ s.r = rd /\ s.bits = <<>> /\ ~s.out
  <2>1. s \in Reads /\ s.r = rd /\ s.bits = <<>>
    BY <1>1, NoReads
  <2> QED
    BY <2>1 DEF Read
<1> HIDE DEF s, end, l
<1>4. head = h
  <2>1. n \in Widths
    BY DEF Widths
  <2> HIDE DEF n
  <2> QED
    BY <1>1, <2>1, TwoReads DEF s
<1>5. /\ t \in Reads /\ Alike(rd, t.r)
      /\ t.out <=> s.out \/ o + 3 >= s.r.end
      /\ t.bits = <<>> \o WordAt(d, o)
      /\ o + 3 < rd.end => Plain(t.r, p)
  <2>1. Plain(s.r, o)
    BY <1>3
  <2>2. LET x == AddRead(d, s, 32)
        IN  /\ x \in Reads /\ Alike(s.r, x.r)
            /\ x.out <=> s.out \/ o + 3 >= s.r.end
            /\ x.bits = s.bits \o WordAt(d, o)
            /\ o + 3 < s.r.end => Plain(x.r, o + 4)
    BY <1>3, <2>1, AddWord
  <2> QED
    BY <1>3, <2>2, Zenon
<1>6. t.out <=> o + 3 >= end
  BY <1>3, <1>5, Zenon DEF end
<1> HIDE DEF t
<1>7. t.r.end = end
  BY <1>5, Zenon DEF Alike, end
<1>8. CASE o + 3 >= end
  <2>1. t.out
    BY <1>6, <1>8
  <2>2. h.out
    <3> DEFINE word == ReadU(d, t.r, n)
               bits == t.bits \o word.bits
    <3>1. h = Read(word.r, bits, t.out \/ word.out)
      BY Zenon DEF AddRead
    <3> HIDE DEF h, word, bits
    <3>2. h.out = (t.out \/ word.out)
      BY <3>1, Zenon DEF Read
    <3> QED
      BY <2>1, <3>2, Zenon
  <2>3. o + 8 > end
    BY <1>2, <1>8
  <2>4. ~(o + 8 <= end)
    BY <1>2, <2>3
  <2> HIDE DEF h
  <2> QED
    BY <1>4, <2>2, <2>3, <2>4, Zenon DEF n, end
<1>9. CASE o + 3 < end
  <2>1. p \in Nat /\ p + 3 < Width /\ Plain(t.r, p) /\ ~t.out
    <3>1. p \in Nat /\ p + 3 < Width /\ ~(o + 3 >= end)
      BY <1>2, <1>9
    <3> QED
      BY <1>5, <1>6, <1>9, <3>1, Zenon DEF end
  <2> HIDE DEF p
  <2>2. LET x == AddRead(d, t, 32)
        IN  /\ x \in Reads /\ Alike(t.r, x.r)
            /\ x.out <=> t.out \/ p + 3 >= t.r.end
            /\ x.bits = t.bits \o WordAt(d, p)
            /\ p + 3 < t.r.end => Plain(x.r, p + 4)
    BY <1>5, <2>1, AddWord
  <2>3. /\ h \in Reads
        /\ h.out <=> p + 3 >= end
        /\ h.bits = <<>> \o WordAt(d, o) \o WordAt(d, p)
        /\ p + 3 < end => Plain(h.r, p + 4)
    BY <1>5, <1>7, <2>1, <2>2, Zenon DEF n
  <2>4. (h.out <=> o + 8 > end) /\ (o + 8 <= end => Plain(h.r, o + 8))
    <3>1. (p + 3 >= end <=> o + 8 > end) /\ (o + 8 <= end => p + 3 < end) /\ p + 4 = o + 8
      BY <1>2 DEF p
    <3> HIDE DEF h
    <3> QED
      BY <2>3, <3>1, Zenon
  <2>5. Word(h.bits, 1) = WordAt(d, o) /\ Word(h.bits, 2) = WordAt(d, p)
    <3> DEFINE x == WordAt(d, o)
               y == WordAt(d, p)
    <3>1. x \in Seq(Bit) /\ y \in Seq(Bit) /\ n \in Nat /\ Len(x) = n /\ Len(y) = n
      BY <2>1, WordType
    <3>2. 32 * 1 - 31 = 1 /\ 32 * 1 = n /\ 32 * 2 - 31 = n + 1 /\ 32 * 2 = 2 * n
      OBVIOUS
    <3> HIDE DEF x, y, n, h
    <3>3. SubSeq(<<>> \o x \o y, 1, n) = x /\ SubSeq(<<>> \o x \o y, n + 1, 2 * n) = y
      BY <3>1, HeadAndTail
    <3> QED
      BY <2>3, <3>2, <3>3, Zenon DEF Word, x, y
  <2> HIDE DEF h
  <2> QED
    BY <1>4, <2>4, <2>5, Zenon DEF n, end, p
<1>10. o + 3 >= end \/ o + 3 < end
  BY <1>2
<1> QED
  BY <1>8, <1>9, <1>10

LEMMA AtomThere ==
  ASSUME NEW f, FileType(f), SoundFile(f), f.atoms # <<>>, NEW k \in 1 .. Len(f.atoms)
  PROVE  /\ f.atoms[k].at \in Nat /\ f.atoms[k].past \in Nat
         /\ f.atoms[k] = [at |-> f.atoms[k].at, past |-> f.atoms[k].past]
         /\ f.atoms[k].at <= Len(f.bytes)
         /\ k < Len(f.atoms) => SoundAtom(f, k) /\ f.atoms[k].at + 8 <= Len(f.bytes)
         /\ k = Len(f.atoms) => /\ f.atoms[k].past = Len(f.units)
                                /\ f.atoms[k].at + 8 > Len(f.bytes)
<1> DEFINE n == Len(f.atoms)
           l == Len(f.bytes)
           this == f.atoms[k]
<1>1. l \in Nat /\ n \in Nat /\ f.atoms \in Seq([at : Nat, past : Nat])
  BY FileFacts
<1>2. this \in [at : Nat, past : Nat]
  BY <1>1, SeqElement
<1>3. this.at \in Nat /\ this.past \in Nat /\ this = [at |-> this.at, past |-> this.past]
  <2> HIDE DEF this
  <2> QED
    BY <1>2
<1>4. SoundBoxed(f)
  BY Boxed
<1>5. /\ f.atoms[n].past = Len(f.units)
      /\ f.atoms[n].at <= l /\ f.atoms[n].at + 8 > l
      /\ \A j \in 1 .. n - 1 : SoundAtom(f, j)
  BY <1>4, Zenon DEF SoundBoxed
<1>6. CASE k = n
  <2>1. ~(k < n)
    <3> HIDE DEF n
    <3> QED
      BY <1>1, <1>6
  <2> QED
    BY <1>3, <1>5, <1>6, <2>1
<1>7. CASE k # n
  <2>1. k \in 1 .. n - 1
    <3> HIDE DEF n
    <3> QED
      BY <1>1, <1>7 DEF n
  <2>2. SoundAtom(f, k)
    BY <1>5, <2>1
  <2>3. this.at + 8 <= l
    BY <2>2, Zenon DEF SoundAtom
  <2>4. this.at <= l
    <3> HIDE DEF this, l
    <3> QED
      BY <1>1, <1>3, <2>3
  <2> QED
    BY <1>3, <1>7, <2>2, <2>3, <2>4
<1> QED
  BY <1>6, <1>7

(* The next atom                                                           *)
LEMMA NextAtom ==
  ASSUME NEW f, FileType(f), SoundFile(f), f.atoms # <<>>, NEW k \in 1 .. Len(f.atoms) - 1
  PROVE  LET this == f.atoms[k]
             next == f.atoms[k + 1]
             n == Number(WordAt(f.bytes, this.at))
         IN  /\ k \in 1 .. Len(f.atoms) /\ k < Len(f.atoms) /\ k + 1 \in 1 .. Len(f.atoms)
             /\ this.at + 8 <= Len(f.bytes)
             /\ n \in 0 .. Width - 1 /\ n >= 8
             /\ next.at = this.at + n /\ next.at <= Len(f.bytes)
             /\ WordAt(f.bytes, this.at + 4) # mdat => this.past = next.past
<1> DEFINE this == f.atoms[k]
           m == Len(f.atoms)
           j == k + 1
           next == f.atoms[j]
           bits == WordAt(f.bytes, this.at)
<1>1. k \in 1 .. m /\ k < m /\ j \in 1 .. m
  <2>1. m \in Nat
    BY FileFacts
  <2> HIDE DEF m
  <2> QED
    BY <2>1 DEF m
<1> HIDE DEF j, m
<1>2. SoundAtom(f, k) /\ this.at \in Nat
  BY <1>1, AtomThere DEF m
<1>3. next.at <= Len(f.bytes)
  BY <1>1, AtomThere DEF m
<1>4. /\ this.at + 8 <= Len(f.bytes)
      /\ Number(bits) >= 8
      /\ next.at = this.at + Number(bits)
      /\ WordAt(f.bytes, this.at + 4) # mdat => this.past = next.past
  BY <1>2, Zenon DEF SoundAtom, j
<1>5. Number(bits) \in 0 .. Width - 1
  <2> DEFINE o == this.at
  <2> HIDE DEF o
  <2>1. o \in Nat
    BY <1>2 DEF o
  <2>2. WordAt(f.bytes, o) \in Seq(Bit)
    BY <2>1, FileFacts, WordType
  <2> QED
    BY <2>2, NumberType DEF o
<1> QED
  BY <1>1, <1>3, <1>4, <1>5, Zenon DEF j, m

(* Where the size word of the i-th unit is, in the k-th atom               *)
From(f, k, i) == IF i = f.atoms[k].past + 1 THEN f.atoms[k].at + 8
                 ELSE f.units[i - 1].at + f.units[i - 1].len

LEMMA UnitInAtom ==
  ASSUME NEW f, FileType(f), SoundFile(f), f.atoms # <<>>, NEW k \in 1 .. Len(f.atoms) - 1,
         WordAt(f.bytes, f.atoms[k].at + 4) = mdat
  PROVE  LET this == f.atoms[k]
             next == f.atoms[k + 1]
         IN  /\ this.past \in Nat /\ next.past \in Nat
             /\ this.past < next.past /\ next.past <= Len(f.units)
             /\ f.units[next.past].at + f.units[next.past].len = next.at
             /\ \A i \in this.past + 1 .. next.past :
                  /\ i \in 1 .. Len(f.units)
                  /\ f.units[i].at = From(f, k, i) + 4
                  /\ f.units[i].len = Number(WordAt(f.bytes, From(f, k, i)))
<1> DEFINE this == f.atoms[k]
           j == k + 1
           next == f.atoms[j]
           m == Len(f.atoms)
           a == this.past
           b == next.past
           l == Len(f.units)
<1>1. k \in 1 .. m /\ k < m /\ j \in 1 .. m
  BY NextAtom
<1>2. l \in Nat
  BY FileFacts
<1> HIDE DEF j, m
<1>3. SoundAtom(f, k) /\ a \in Nat
  BY <1>1, AtomThere DEF m
<1>4. b \in Nat
  BY <1>1, AtomThere DEF m
<1>5. /\ a < b /\ b <= l
      /\ f.units[b].at + f.units[b].len = next.at
      /\ \A i \in a + 1 .. b :
           /\ f.units[i].at = From(f, k, i) + 4
           /\ f.units[i].len = Number(WordAt(f.bytes, From(f, k, i)))
  BY <1>3, Zenon DEF SoundAtom, From, j
<1>6. ASSUME NEW i \in a + 1 .. b PROVE i \in 1 .. l
  <2> HIDE DEF a, b, l
  <2> QED
    BY <1>2, <1>3, <1>4, <1>5
<1> QED
  BY <1>3, <1>4, <1>5, <1>6, Zenon DEF j

LEMMA MappedFile ==
  ASSUME TypeOK
  PROVE  /\ FileType(file) /\ Mapped(data) /\ r \in Reader /\ Len(data) \in Nat
         /\ Len(data) + 3 < Width /\ Width \in Nat
         /\ seen \in Seq(0 .. Width - 1) /\ Past \in Nat /\ size \in Int
<1>1. FileType(file) /\ r \in Reader /\ seen \in Seq(0 .. Width - 1) /\ size \in Int
  BY Zenon DEF TypeOK
<1>2. Past \in Nat
  BY <1>1 DEF Past
<1> QED
  BY <1>1, <1>2, FileFacts DEF data

LEMMA UnitSizeKeeps ==
  ASSUME TypeOK, OnTrack, WhereInFile, UnitSize
  PROVE  WhereInFile'
<1> DEFINE n == 32
           word == ReadU(data, r, n)
           o == r.off
           p == Past + 1
           u == Units[p]
           e == u.at + u.len
<1>1. pc = "mdat"
  BY Zenon DEF UnitSize
<1>2. SoundFile(file) /\ delim = (file.atoms = <<>>)
  BY <1>1, DelimIs
<1>3. UnitKept /\ WhereAtSize
  BY Zenon DEF WhereInFile
<1>4. /\ ~delim /\ ~r.rbsp /\ r.shift = 0 /\ origEnd = Len(data)
      /\ Past < Len(Units)
      /\ u.at = o + 4 /\ o + 3 < r.end
      /\ u.len = Number(WordAt(data, o))
      /\ InAtom(p, o, size)
  BY <1>1, <1>3, Zenon DEF WhereAtSize
<1>5. FileType(file) /\ Mapped(data) /\ r \in Reader /\ Width \in Nat /\ Past \in Nat
      /\ Len(data) \in Nat /\ Len(data) + 3 < Width
  BY MappedFile
<1>6. p \in 1 .. Len(Units)
  <2> DEFINE q == Past
             m == Len(Units)
  <2>1. m \in Nat /\ q \in Nat /\ q < m
    BY <1>4, <1>5, FileFacts DEF Units
  <2> HIDE DEF q, m
  <2>2. q + 1 \in 1 .. m
    BY <2>1
  <2> QED
    BY <2>2 DEF q, m
<1>7. UnitOf(file, u)
  BY <1>2, <1>5, <1>6, UnitOfFile DEF Units
<1>8. u.at \in Nat /\ u.len \in Nat /\ e <= Len(data)
  BY <1>7, UnitFacts DEF data
<1>9. o \in Nat /\ o + 3 < Width /\ r.end \in Nat /\ ~(o + 3 >= r.end)
  <2> DEFINE end == r.end
  <2>1. o \in Nat /\ end \in 0 .. Width - 1 /\ o + 3 < end
    BY <1>4, <1>5, ReaderLoose
  <2> HIDE DEF o, end
  <2>2. o + 3 < Width /\ end \in Nat /\ ~(o + 3 >= end)
    BY <1>5, <2>1
  <2> QED
    BY <2>1, <2>2 DEF end
<1>10. Plain(r, o)
  BY <1>4, <1>5, Zenon DEF Plain
<1>11. ~word.out /\ word.bits = WordAt(data, o) /\ Plain(word.r, o + 4)
  <2> HIDE DEF o
  <2>1. LET w == ReadU(data, r, 32)
        IN  /\ w.out <=> o + 3 >= r.end
            /\ w.bits = WordAt(data, o)
            /\ o + 3 < r.end => Plain(w.r, o + 4)
    <3> DEFINE d == data
    <3> HIDE DEF d
    <3>1. LET w == ReadU(d, r, 32)
          IN  /\ w.out <=> o + 3 >= r.end
              /\ w.bits = WordAt(d, o)
              /\ o + 3 < r.end => Plain(w.r, o + 4)
      BY <1>5, <1>9, <1>10, PlainWord DEF d
    <3> QED
      BY <3>1 DEF d
  <2>2. o + 3 < r.end
    BY <1>4 DEF o
  <2> QED
    BY <1>9, <2>1, <2>2, Zenon
<1>12. /\ nalSize' = Number(word.bits) /\ prevOff' = word.r.off
       /\ r' = [word.r EXCEPT !.end = (word.r.off + nalSize') % Width]
       /\ pc' = "nal"
       /\ UNCHANGED <<file, delim, size, origEnd, unitVars, seen, got>>
  BY <1>11, Zenon DEF UnitSize
<1> HIDE DEF word
<1>13. word.r \in Reader /\ ~word.r.rbsp /\ word.r.shift = 0 /\ word.r.off = o + 4
  BY <1>11, Zenon DEF Plain
<1>14. nalSize' = u.len /\ prevOff' = u.at
  BY <1>4, <1>11, <1>12, <1>13
<1>15. (word.r.off + nalSize') % Width = e
  <2> DEFINE a == u.at
             b == u.len
             l == Len(data)
  <2>1. a + b \in 0 .. Width - 1 /\ a + b \in Int
    <3>1. a \in Nat /\ b \in Nat /\ a + b <= l /\ l + 3 < Width /\ l \in Nat
      BY <1>5, <1>8
    <3> HIDE DEF a, b, l
    <3> QED
      BY <1>5, <3>1
  <2>2. word.r.off + nalSize' = a + b
    BY <1>4, <1>13, <1>14
  <2> HIDE DEF a, b
  <2>3. (a + b) % Width = a + b
    BY <2>1, OffsetWraps
  <2> QED
    BY <2>2, <2>3 DEF a, b
<1>16. r'.end = e /\ r'.shift = 0 /\ r'.off = u.at
  <2> DEFINE to == word.r
             at == u.at
  <2>1. r' = [to EXCEPT !.end = e] /\ to.off = at
    BY <1>4, <1>12, <1>13, <1>15
  <2> HIDE DEF to, e, at
  <2>2. r'.end = e /\ r'.shift = to.shift /\ r'.off = at
    BY <1>13, <2>1 DEF Reader, to
  <2> QED
    BY <1>13, <2>2 DEF to, at
<1>17. Past' = Past /\ Units' = Units /\ data' = data /\ delim' = delim /\ file' = file
       /\ size' = size /\ origEnd' = origEnd /\ UNCHANGED <<file, nal, type, seen, got>>
  BY <1>12 DEF Past, Units, data, unitVars
<1>18. InAtom(p, u.at - 4, size)
  <2> DEFINE at == u.at
  <2>1. at - 4 = o
    BY <1>4, <1>8, <1>9
  <2> HIDE DEF at, p, o
  <2> QED
    BY <1>4, <2>1 DEF at
<1>19. InAtom(p, u.at - 4, size)'
  BY <1>17, <1>18, Zenon DEF InAtom
<1>20. Bounded(p)'
  BY <1>4, <1>14, <1>16, <1>17, <1>19, Zenon DEF Bounded
<1>21. WhereAtUnit'
  <2> HIDE DEF o
  <2> QED
    BY <1>4, <1>16, <1>17, <1>20, Zenon DEF WhereAtUnit
<1>22. UnitKept'
  BY <1>3, <1>17, UnitStays
<1>23. WhereEnded'
  BY <1>12 DEF WhereEnded
<1>24. delim' = (file.atoms = <<>>)
  BY <1>2, <1>17, Zenon
<1> QED
  BY <1>2, <1>12, <1>17, <1>21, <1>22, <1>23, <1>24, Gather

(* Behind a unit its atom goes on with the next one, or ends.              *)
LEMMA AfterUnitKeeps ==
  ASSUME TypeOK, OnTrack, WhereInFile, AfterUnit
  PROVE  WhereInFile'
<1> DEFINE p == Past
           u == Units[p]
           at == u.at
           len == u.len
           e == u.at + u.len
           n == Len(data)
           to == IF size' > 0 THEN PastUnit(r.end) ELSE origEnd
<1>1. pc = "after" /\ ~delim
  BY Zenon DEF AfterUnit
<1>2. delim = (file.atoms = <<>>) /\ file.atoms # <<>>
  BY <1>1, DelimIs
<1>3. /\ FileType(file) /\ SoundFile(file) /\ UnitKept
      /\ p \in 1 .. Len(Units) /\ UnitOf(file, u) /\ Bounded(p)
  BY <1>1, UnitThere
<1>4. Mapped(data) /\ r \in Reader /\ Width \in Nat /\ n \in Nat /\ n + 3 < Width
  BY MappedFile
<1>5. /\ r.end = e /\ prevOff = at /\ nalSize = len /\ origEnd = n
      /\ InAtom(p, at - 4, size)
  BY <1>1, <1>3, Zenon DEF Bounded
<1>6. at \in Nat /\ len \in Nat /\ e <= n
  BY <1>3, UnitFacts DEF data
<1>7. PICK k \in 1 .. Len(file.atoms) - 1 :
        /\ WordAt(data, file.atoms[k].at + 4) = mdat
        /\ file.atoms[k].past < p /\ p <= file.atoms[k + 1].past
        /\ size = file.atoms[k + 1].at - (at - 4)
  BY <1>5, Zenon DEF InAtom
<1> DEFINE this == file.atoms[k]
           j == k + 1
           next == file.atoms[j]
           a == this.past
           b == next.past
           z == next.at
<1>8. /\ a \in Nat /\ b \in Nat /\ a < b /\ b <= Len(Units)
      /\ Units[b].at + Units[b].len = z
      /\ \A i \in a + 1 .. b :
           /\ i \in 1 .. Len(Units)
           /\ Units[i].at = From(file, k, i) + 4
           /\ Units[i].len = Number(WordAt(data, From(file, k, i)))
  BY <1>2, <1>3, <1>7, UnitInAtom, Zenon DEF Units, data
<1>9. j \in 1 .. Len(file.atoms) /\ z \in Nat /\ next = [at |-> z, past |-> b] /\ z <= n
  <2>1. j \in 1 .. Len(file.atoms)
    BY <1>2, <1>3, NextAtom
  <2> HIDE DEF j
  <2> QED
    BY <1>2, <1>3, <2>1, AtomThere DEF data
<1>10. p \in a + 1 .. b /\ p \in Nat
  <2>1. p \in Nat /\ a < p /\ p <= b
    BY <1>3, <1>7
  <2> HIDE DEF p, a, b
  <2> QED
    BY <1>8, <2>1
<1>11. at >= 4 /\ this.at \in Nat
  <2>1. at = From(file, k, p) + 4
    BY <1>8, <1>10
  <2>2. this.at \in Nat
    <3>1. k \in 1 .. Len(file.atoms)
      BY <1>2, <1>3, NextAtom
    <3> QED
      BY <1>2, <1>3, <3>1, AtomThere
  <2>3. From(file, k, p) \in Nat
    <3>1. CASE p = a + 1
      <4>1. From(file, k, p) = this.at + 8
        BY <3>1 DEF From
      <4> HIDE DEF this
      <4> QED
        BY <2>2, <4>1
    <3>2. CASE p # a + 1
      <4> DEFINE q == p - 1
      <4>1. q \in 1 .. Len(file.units)
        <5>1. p \in 1 .. Len(file.units) /\ p \in a + 1 .. b /\ a \in Nat /\ b \in Nat
          BY <1>3, <1>8, <1>10 DEF Units
        <5> HIDE DEF p, a, b
        <5>2. p - 1 \in 1 .. Len(file.units)
          BY <3>2, <5>1
        <5> QED
          BY <5>2
      <4>2. From(file, k, p) = file.units[q].at + file.units[q].len
        BY <3>2, Zenon DEF From
      <4> HIDE DEF q
      <4>3. file.units[q].at \in Nat /\ file.units[q].len \in Nat
        BY <1>3, <4>1, UnitOfFile, UnitFacts
      <4> QED
        BY <4>2, <4>3
    <3> QED
      BY <3>1, <3>2
  <2> DEFINE from == From(file, k, p)
  <2> HIDE DEF from, at
  <2>4. at >= 4
    BY <2>1, <2>3 DEF from
  <2> QED
    BY <2>2, <2>4
<1>12. /\ size' = size - ((nalSize + 4) % Width)
       /\ pc' = CASE size' > 0 -> "mdat" [] size' = 0 -> "atom" [] size' < 0 -> "assert"
       /\ r' = Resumed(r, (prevOff + nalSize) % Width, to)
       /\ UNCHANGED <<file, delim, origEnd, prevOff, nalSize, unitVars, seen, got>>
  <2>1. /\ size' = size - ((nalSize + 4) % Width)
        /\ pc' = CASE size' > 0 -> "mdat" [] size' = 0 -> "atom" [] size' < 0 -> "assert"
        /\ r' = [r EXCEPT !.off   = (prevOff + nalSize) % Width,
                          !.end   = IF size' > 0 THEN PastUnit(@) ELSE origEnd,
                          !.shift = 0,
                          !.rbsp  = FALSE]
        /\ UNCHANGED <<file, delim, origEnd, prevOff, nalSize, unitVars, seen, got>>
    BY Zenon DEF AfterUnit
  <2> QED
    BY <2>1 DEF Resumed
<1>13. (prevOff + nalSize) % Width = e /\ (nalSize + 4) % Width = len + 4
  <2>1. prevOff + nalSize = e /\ nalSize + 4 = len + 4
    BY <1>5
  <2>2. at \in Nat /\ len \in Nat /\ at + len <= n /\ n + 3 < Width /\ Width \in Nat /\ n \in Nat
        /\ at >= 4
    BY <1>4, <1>6, <1>11
  <2> DEFINE m == len + 4
  <2>3. e \in 0 .. Width - 1 /\ e \in Int /\ m \in 0 .. Width - 1 /\ m \in Int
    <3>1. e = at + len
      OBVIOUS
    <3> HIDE DEF at, len, n, e
    <3> QED
      BY <2>2, <3>1
  <2> HIDE DEF e, m
  <2>4. e % Width = e /\ m % Width = m
    BY <2>3, OffsetWraps
  <2> QED
    BY <2>1, <2>4 DEF m
<1>14. size' = z - e
  <2>1. size = z - (at - 4) /\ size' = size - (len + 4)
    BY <1>7, <1>12, <1>13
  <2>2. e = at + len /\ at \in Nat /\ len \in Nat /\ z \in Nat
    BY <1>6, <1>9
  <2> HIDE DEF z, at, len, e
  <2> QED
    BY <2>1, <2>2
<1>15. UNCHANGED <<file, nal, type, seen, got>> /\ file' = file /\ Past' = p /\ Units' = Units
       /\ data' = data /\ delim' = delim /\ origEnd' = origEnd
  BY <1>12 DEF Past, Units, data, unitVars
<1>16. UnitKept' /\ delim' = (file.atoms = <<>>)
  <2>1. UnitKept'
    BY <1>3, <1>15, UnitStays
  <2> QED
    BY <1>2, <1>15, <2>1, Zenon
<1>17. e \in Nat /\ e \in 0 .. Width - 1 /\ n \in 0 .. Width - 1
  <2> HIDE DEF at, len, n, u
  <2> QED
    BY <1>4, <1>6 DEF at, len
<1>18. CASE p = b
  <2>1. z = e
    BY <1>8, <1>18
  <2>2. size' = 0
    <3> HIDE DEF z, e
    <3> QED
      BY <1>14, <1>17, <2>1
  <2>3. pc' = "atom" /\ to = n
    <3>1. ~(size' > 0) /\ ~(size' < 0)
      BY <2>2
    <3> QED
      BY <1>5, <1>12, <2>2, <3>1
  <2>4. r' = Resumed(r, e, n)
    BY <1>12, <1>13, <2>3, Zenon
  <2>5. r'.off = e /\ r'.end = n /\ r'.shift = 0 /\ ~r'.rbsp
    <3> HIDE DEF e, n
    <3> QED
      BY <1>4, <1>17, <2>4, ResumedReader
  <2>6. WhereInAtoms'
    <3>1. file.atoms[j] = [at |-> r'.off, past |-> Past']
      BY <1>9, <1>15, <1>18, <2>1, <2>5
    <3> HIDE DEF j
    <3> QED
      BY <1>1, <1>9, <1>15, <2>5, <3>1, Zenon DEF WhereInAtoms
  <2>7. WhereEnded'
    BY <2>3 DEF WhereEnded
  <2> QED
    BY <1>3, <1>15, <1>16, <2>3, <2>6, <2>7, Gather
<1>19. CASE p # b
  <2> DEFINE q == p + 1
             v == Units[q]
  <2>1. q \in a + 1 .. b /\ p < b /\ q # a + 1 /\ q - 1 = p
    <3> HIDE DEF p, a, b
    <3> QED
      BY <1>8, <1>10, <1>19
  <2>2. /\ q \in 1 .. Len(Units)
        /\ v.at = From(file, k, q) + 4 /\ v.len = Number(WordAt(data, From(file, k, q)))
    BY <1>8, <2>1
  <2>3. From(file, k, q) = e
    <3> HIDE DEF q, p
    <3> QED
      BY <2>1, Zenon DEF From, Units
  <2>4. UnitOf(file, v)
    <3> HIDE DEF q
    <3> QED
      BY <1>3, <2>2, UnitOfFile DEF Units
  <2>5. v.at + v.len <= n /\ v.len \in Nat
    BY <2>4, UnitFacts DEF data
  <2>6. e + 3 <= Units[b].at /\ Units[b].at <= z /\ Units[b].at \in Nat
    <3> HIDE DEF p, b
    <3>1. b \in 1 .. Len(Units)
      <4> DEFINE l == Len(Units)
      <4>1. b \in Nat /\ p \in 1 .. l /\ p < b /\ b <= l
        BY <1>3, <1>8, <2>1
      <4>2. l \in Nat
        BY <1>3, FileFacts DEF Units
      <4> HIDE DEF l
      <4>3. b \in 1 .. l
        BY <4>1, <4>2
      <4> QED
        BY <4>3 DEF l
    <3>2. e + 3 <= Units[b].at
      BY <1>3, <2>1, <3>1, UnitsApart DEF Units, StartCodeSz
    <3>3. Units[b].at \in Nat /\ Units[b].len \in Nat
      <4>1. UnitOf(file, Units[b])
        BY <1>3, <3>1, UnitOfFile DEF Units
      <4> DEFINE w == Units[b]
      <4> HIDE DEF w
      <4>2. w.at \in Nat /\ w.len \in Nat
        BY <4>1, UnitFacts DEF w
      <4> QED
        BY <4>2 DEF w
    <3>4. Units[b].at <= z
      <4> DEFINE x == Units[b].at
                 y == Units[b].len
      <4>1. x + y = z /\ x \in Nat /\ y \in Nat
        BY <1>8, <3>3 DEF b
      <4> HIDE DEF x, y, z
      <4>2. x <= z
        BY <4>1
      <4> QED
        BY <4>2 DEF x
    <3> QED
      BY <3>2, <3>3, <3>4
  <2>7. size' > 0
    <3> DEFINE x == Units[b].at
    <3>1. x \in Int
      BY <2>6
    <3> HIDE DEF x, z, e
    <3>2. e + 3 <= x /\ x <= z
      BY <2>6 DEF x
    <3> QED
      BY <1>9, <1>14, <1>17, <3>1, <3>2
  <2>8. pc' = "mdat" /\ to = (e + 4) % Width
    <3>1. ~(size' = 0) /\ ~(size' < 0)
      BY <1>14, <1>17, <1>9, <2>7
    <3> QED
      BY <1>5, <1>12, <2>7, <3>1 DEF PastUnit
  <2>9. (e + 4) % Width = e + 4 /\ e + 4 \in 0 .. Width - 1
    <3> DEFINE x == v.at
               y == v.len
    <3>1. x = e + 4 /\ x + y <= n /\ y \in Nat
      BY <2>2, <2>3, <2>5
    <3> HIDE DEF x, y, n, e
    <3>2. e + 4 \in 0 .. Width - 1 /\ e + 4 \in Int
      BY <1>4, <1>17, <3>1
    <3> QED
      BY <3>2, OffsetWraps
  <2>10. r' = Resumed(r, e, e + 4)
    BY <1>12, <1>13, <2>8, <2>9, Zenon
  <2>11. r'.off = e /\ r'.end = e + 4 /\ r'.shift = 0 /\ ~r'.rbsp
    <3> DEFINE f == e + 4
    <3>1. f \in 0 .. Width - 1 /\ r' = Resumed(r, e, f)
      BY <2>9, <2>10
    <3> HIDE DEF e, f
    <3>2. r'.off = e /\ r'.end = f /\ r'.shift = 0 /\ ~r'.rbsp
      BY <1>4, <1>17, <3>1, ResumedReader
    <3> QED
      BY <3>2 DEF f
  <2>12. InAtom(q, e, size')
    <3>1. a < q /\ q <= b
      <4> HIDE DEF q, a, b
      <4> QED
        BY <1>8, <2>1
    <3> HIDE DEF q, e
    <3>2. /\ WordAt(data, file.atoms[k].at + 4) = mdat
          /\ file.atoms[k].past < q /\ q <= file.atoms[k + 1].past
          /\ size' = file.atoms[k + 1].at - e
      BY <1>7, <1>14, <3>1
    <3> QED
      BY <3>2, Zenon DEF InAtom
  <2>13. InAtom(q, r.off, size)'
    <3> HIDE DEF e
    <3>1. InAtom(Past + 1, r.off, size)' <=> InAtom(q, e, size')
      BY <1>15, <2>11, Zenon DEF InAtom
    <3> QED
      BY <2>12, <3>1
  <2>14. r'.off + 3 < r'.end
    <3> HIDE DEF e
    <3> QED
      BY <1>17, <2>11
  <2>15. p < Len(Units)
    <3> DEFINE l == Len(Units)
    <3>1. l \in Nat /\ q \in 1 .. l /\ p \in Nat
      BY <1>3, <1>10, <2>2, FileFacts DEF Units
    <3> HIDE DEF l, p
    <3>2. p < l
      BY <3>1
    <3> QED
      BY <3>2 DEF l
  <2>16. WhereAtSize'
    <3>1. v.at = r'.off + 4 /\ v.len = Number(WordAt(data, r'.off)) /\ origEnd' = n
      BY <1>5, <1>15, <2>2, <2>3, <2>11
    <3> QED
      BY <1>1, <1>15, <2>11, <2>13, <2>14, <2>15, <3>1, Zenon DEF WhereAtSize
  <2>17. WhereEnded'
    BY <2>8 DEF WhereEnded
  <2> QED
    BY <1>3, <1>15, <1>16, <2>8, <2>16, <2>17, Gather
<1> QED
  BY <1>18, <1>19

(* An atom leads to the next atom or, if it is an mdat atom, to its units. *)
LEMMA AtomKeeps ==
  ASSUME TypeOK, OnTrack, WhereInFile, Atom
  PROVE  WhereInFile'
<1> DEFINE o == r.off
           n == Len(data)
           head == TwoOf(data, r, 32, 32)
           first == Number(Word(head.bits, 1))
           left == first - 8
           skip == [head.r EXCEPT !.off = (head.r.off + left) % Width]
<1>1. pc = "atom"
  BY Zenon DEF Atom
<1>2. SoundFile(file) /\ delim = (file.atoms = <<>>)
  BY <1>1, DelimIs
<1>3. UnitKept /\ WhereInAtoms
  BY Zenon DEF WhereInFile
<1>4. /\ ~delim /\ ~r.rbsp /\ r.shift = 0 /\ r.end = n
      /\ \E k \in 1 .. Len(file.atoms) : file.atoms[k] = [at |-> o, past |-> Past]
  BY <1>1, <1>3, Zenon DEF WhereInAtoms
<1>5. PICK k \in 1 .. Len(file.atoms) : file.atoms[k] = [at |-> o, past |-> Past]
  BY <1>4
<1> DEFINE this == file.atoms[k]
           j == k + 1
           next == file.atoms[j]
           z == next.at
<1>6. this.at = o /\ this.past = Past
  BY <1>5
<1>7. FileType(file) /\ Mapped(data) /\ r \in Reader /\ Width \in Nat /\ Past \in Nat
      /\ n \in Nat /\ n + 3 < Width /\ file.atoms # <<>>
  BY <1>2, <1>4, MappedFile
<1>8. /\ o \in Nat /\ o <= n
      /\ k < Len(file.atoms) => o + 8 <= n
      /\ k = Len(file.atoms) => Past = Len(Units) /\ o + 8 > n
  BY <1>2, <1>6, <1>7, AtomThere DEF Units, data
<1>9. k < Len(file.atoms) \/ k = Len(file.atoms)
  <2> DEFINE m == Len(file.atoms)
  <2>1. m \in Nat /\ k \in 1 .. m
    BY <1>7, FileFacts
  <2> HIDE DEF m
  <2>2. k < m \/ k = m
    BY <2>1
  <2> QED
    BY <2>2 DEF m
<1>10. /\ head.out <=> o + 8 > n
       /\ o + 8 <= n => /\ Plain(head.r, o + 8)
                        /\ Word(head.bits, 1) = WordAt(data, o)
                        /\ Word(head.bits, 2) = WordAt(data, o + 4)
  <2> DEFINE d == data
  <2>1. Plain(r, o) /\ o + 3 < Width /\ r.end <= Len(d) /\ r.end = Len(d)
    <3>1. Plain(r, o)
      BY <1>4, <1>7, Zenon DEF Plain
    <3>2. o + 3 < Width
      <4> HIDE DEF o, n
      <4> QED
        BY <1>7, <1>8
    <3>3. r.end <= Len(d) /\ r.end = Len(d)
      BY <1>4, <1>7
    <3> QED
      BY <3>1, <3>2, <3>3
  <2> HIDE DEF d, o
  <2>2. LET h == TwoOf(d, r, 32, 32)
        IN  /\ h.out <=> o + 8 > r.end
            /\ o + 8 <= r.end => /\ Plain(h.r, o + 8)
                                 /\ Word(h.bits, 1) = WordAt(d, o)
                                 /\ Word(h.bits, 2) = WordAt(d, o + 4)
    BY <1>7, <1>8, <2>1, TwoWords DEF d
  <2> QED
    BY <2>1, <2>2, Zenon DEF d
<1>11. Alike(r, head.r)
  <2> DEFINE d == data
  <2> HIDE DEF d
  <2>1. Alike(r, TwoOf(d, r, 32, 32).r)
    BY <1>7, WordsType, Zenon DEF d
  <2> QED
    BY <2>1 DEF d
<1>12. \/ head.out /\ DataEnds
       \/ /\ ~head.out
          /\ size' = left
          /\ \/ left < 0 /\ pc' = "assert" /\ r' = head.r /\ UNCHANGED origEnd
             \/ /\ left >= 0 /\ Word(head.bits, 2) = mdat
                /\ pc' = "mdat"
                /\ r' = head.r
                /\ origEnd' = r.end
             \/ /\ left >= 0 /\ Word(head.bits, 2) # mdat
                /\ r' = skip
                /\ UNCHANGED <<pc, origEnd>>
          /\ UNCHANGED <<file, delim, prevOff, nalSize, unitVars, seen, got>>
  BY Zenon DEF Atom, TwoOf
<1> HIDE DEF head
<1>13. CASE k = Len(file.atoms)
  <2>1. head.out /\ Past = Len(Units)
    BY <1>8, <1>10, <1>13
  <2>2. pc' = "data_end" /\ UNCHANGED <<file, r, atomVars, unitVars, seen, got>>
    BY <1>12, <2>1, Zenon DEF DataEnds
  <2> QED
    BY <1>2, <1>3, <2>1, <2>2, UnitEnds DEF unitVars
<1>14. CASE k < Len(file.atoms)
  <2>1. o + 8 <= n /\ ~head.out
    <3>1. o + 8 <= n
      BY <1>8, <1>14
    <3>2. ~(o + 8 > n)
      <4> HIDE DEF o, n
      <4> QED
        BY <1>7, <1>8, <3>1
    <3> QED
      BY <1>10, <3>1, <3>2
  <2>2. /\ Plain(head.r, o + 8)
        /\ Word(head.bits, 1) = WordAt(data, o)
        /\ Word(head.bits, 2) = WordAt(data, o + 4)
    BY <1>10, <2>1
  <2>3. k \in 1 .. Len(file.atoms) - 1
    <3> DEFINE m == Len(file.atoms)
    <3>1. m \in Nat /\ k \in 1 .. m /\ k < m
      BY <1>7, <1>14, FileFacts
    <3> HIDE DEF m
    <3>2. k \in 1 .. m - 1
      BY <3>1
    <3> QED
      BY <3>2 DEF m
  <2>4. /\ j \in 1 .. Len(file.atoms)
        /\ first \in 0 .. Width - 1 /\ first >= 8
        /\ z = o + first /\ z <= n
        /\ WordAt(data, o + 4) # mdat => Past = next.past
    <3>1. LET this_ == file.atoms[k]
              next_ == file.atoms[k + 1]
              n_ == Number(WordAt(file.bytes, this_.at))
          IN  /\ k + 1 \in 1 .. Len(file.atoms)
              /\ n_ \in 0 .. Width - 1 /\ n_ >= 8
              /\ next_.at = this_.at + n_ /\ next_.at <= Len(file.bytes)
              /\ WordAt(file.bytes, this_.at + 4) # mdat => this_.past = next_.past
      BY <1>2, <1>7, <2>3, NextAtom, Zenon
    <3> QED
      BY <1>6, <2>2, <3>1, Zenon DEF data
  <2> HIDE DEF first
  <2>5. left \in Nat /\ ~(left < 0) /\ left >= 0 /\ z = o + 8 + left /\ z \in Nat
        /\ left = z - (o + 8)
    <3> HIDE DEF o, z, n
    <3> QED
      BY <1>8, <2>4
  <2>6. /\ head.r \in Reader /\ ~head.r.rbsp /\ head.r.shift = 0 /\ head.r.off = o + 8
        /\ head.r.end = n
    BY <1>4, <1>11, <2>2, Zenon DEF Plain, Alike
  <2>7. /\ size' = left
        /\ UNCHANGED <<file, delim, prevOff, nalSize, unitVars, seen, got>>
    BY <1>12, <2>1, Zenon
  <2>8. UNCHANGED <<file, nal, type, seen, got>> /\ file' = file /\ Past' = Past
        /\ Units' = Units /\ data' = data /\ delim' = delim
    BY <2>7 DEF Past, Units, data, unitVars
  <2>9. UnitKept' /\ delim' = (file.atoms = <<>>)
    <3>1. UnitKept'
      BY <1>3, <2>8, UnitStays
    <3> QED
      BY <1>2, <2>8, <3>1, Zenon
  <2>10. CASE Word(head.bits, 2) = mdat
    <3>1. pc' = "mdat" /\ r' = head.r /\ origEnd' = r.end
      <4> HIDE DEF left
      <4> QED
        BY <1>12, <2>1, <2>5, <2>10, Zenon
    <3> DEFINE p == Past + 1
               v == Units[p]
               b == next.past
    <3>2. WordAt(data, this.at + 4) = mdat
      BY <1>6, <2>2, <2>10
    <3>3. /\ b \in Nat /\ Past < b /\ b <= Len(Units)
          /\ \A i \in Past + 1 .. b :
               /\ i \in 1 .. Len(Units)
               /\ Units[i].at = From(file, k, i) + 4
               /\ Units[i].len = Number(WordAt(data, From(file, k, i)))
      BY <1>2, <1>6, <1>7, <2>3, <3>2, UnitInAtom, Zenon DEF Units, data
    <3>4. p \in Past + 1 .. b /\ p <= b /\ Past < p
      <4> DEFINE q == Past
      <4>1. q \in Nat /\ b \in Nat /\ q < b
        BY <1>7, <3>3
      <4> HIDE DEF q, b
      <4>2. q + 1 \in q + 1 .. b /\ q + 1 <= b /\ q < q + 1
        BY <4>1
      <4> QED
        BY <4>2 DEF q
    <3>5. /\ p \in 1 .. Len(Units)
          /\ v.at = From(file, k, p) + 4 /\ v.len = Number(WordAt(data, From(file, k, p)))
      BY <3>3, <3>4
    <3>6. From(file, k, p) = o + 8
      BY <1>6, Zenon DEF From
    <3>7. UnitOf(file, v)
      <4> HIDE DEF p
      <4> QED
        BY <1>2, <1>7, <3>5, UnitOfFile DEF Units
    <3>8. r'.off = o + 8 /\ r'.end = n /\ r'.shift = 0 /\ ~r'.rbsp
      BY <2>6, <3>1
    <3>9. r'.off + 3 < r'.end
      <4> DEFINE x == v.at
                 y == v.len
      <4>1. x = o + 8 + 4 /\ x + y <= n /\ y \in Nat
        BY <3>5, <3>6, <3>7, UnitFacts DEF data
      <4> HIDE DEF x, y, o, n
      <4> QED
        BY <1>7, <1>8, <3>8, <4>1
    <3>10. Past < Len(Units)
      <4> DEFINE q == Past
                 l == Len(Units)
      <4>1. q \in Nat /\ l \in Nat /\ b \in Nat /\ q < b /\ b <= l
        BY <1>7, <3>3, FileFacts DEF Units
      <4> HIDE DEF q, l, b
      <4>2. q < l
        BY <4>1
      <4> QED
        BY <4>2 DEF q, l
    <3>11. InAtom(p, r.off, size)'
      <4>1. size' = z - (o + 8)
        BY <2>5, <2>7
      <4>2. /\ WordAt(data, file.atoms[k].at + 4) = mdat
            /\ file.atoms[k].past < p /\ p <= file.atoms[k + 1].past
            /\ size' = file.atoms[k + 1].at - r'.off
        BY <1>6, <3>2, <3>4, <3>8, <4>1
      <4>3. InAtom(p, r'.off, size')
        <5> HIDE DEF p
        <5> QED
          BY <2>3, <4>2, Zenon DEF InAtom
      <4> QED
        BY <2>8, <4>3, Zenon DEF InAtom
    <3>12. WhereAtSize'
      <4>1. v.at = r'.off + 4 /\ v.len = Number(WordAt(data, r'.off)) /\ origEnd' = n
        BY <1>4, <3>1, <3>5, <3>6, <3>8
      <4> QED
        BY <1>4, <2>8, <3>8, <3>9, <3>10, <3>11, <4>1, Zenon DEF WhereAtSize
    <3>13. WhereEnded'
      BY <3>1 DEF WhereEnded
    <3> QED
      BY <1>2, <2>8, <2>9, <3>1, <3>12, <3>13, Gather
  <2>11. CASE Word(head.bits, 2) # mdat
    <3>1. r' = skip /\ pc' = "atom"
      <4> HIDE DEF left
      <4> QED
        BY <1>1, <1>12, <2>1, <2>5, <2>11, Zenon
    <3>2. (head.r.off + left) % Width = z
      <4>1. head.r.off + left = z
        BY <2>5, <2>6
      <4>2. z \in 0 .. Width - 1 /\ z \in Int
        <5> HIDE DEF z, n
        <5> QED
          BY <1>7, <2>4, <2>5
      <4> QED
        BY <4>1, <4>2, OffsetWraps
    <3>3. r'.off = z /\ r'.end = n /\ r'.shift = 0 /\ ~r'.rbsp
      <4> DEFINE hr == head.r
      <4>1. r' = [hr EXCEPT !.off = z] /\ hr \in Reader /\ ~hr.rbsp /\ hr.shift = 0
            /\ hr.end = n
        BY <2>6, <3>1, <3>2
      <4> HIDE DEF hr, z, n
      <4>2. r' = [off |-> z, shift |-> hr.shift, end |-> hr.end, rbsp |-> hr.rbsp]
        BY <4>1 DEF Reader
      <4> QED
        BY <4>1, <4>2, Zenon
    <3>4. file.atoms[j] = [at |-> r'.off, past |-> Past']
      <4>1. next = [at |-> z, past |-> next.past]
        <5> HIDE DEF j
        <5> QED
          BY <1>2, <1>7, <2>4, AtomThere
      <4>2. Past = next.past
        BY <2>2, <2>4, <2>11
      <4> QED
        BY <2>8, <3>3, <4>1, <4>2
    <3>5. WhereInAtoms'
      <4> HIDE DEF j
      <4> QED
        BY <1>4, <2>4, <2>8, <3>3, <3>4, Zenon DEF WhereInAtoms
    <3>6. WhereEnded'
      BY <3>1 DEF WhereEnded
    <3> QED
      BY <1>2, <2>8, <2>9, <3>1, <3>5, <3>6, Gather
  <2> QED
    BY <2>10, <2>11
<1> QED
  BY <1>9, <1>13, <1>14

(* Words that are there                                                    *)
LEMMA WordsPassed ==
  ASSUME NEW d, Mapped(d), NEW o \in Nat, NEW rd, Plain(rd, o), NEW m \in Nat,
         rd.end <= Len(d), o + 4 * m <= rd.end,
         NEW ns \in Seq(Widths), Len(ns) = m, \A i \in 1 .. m : ns[i] = 32
  PROVE  LET rest == ReadAll(d, rd, ns)
         IN  ~rest.out /\ Plain(rest.r, o + 4 * m) /\ Alike(rd, rest.r)
<1> DEFINE first == Read(rd, <<>>, FALSE)
           e == rd.end
           n == Len(d)
<1>1. rd \in Reader /\ e \in Nat /\ n \in Nat /\ n + 3 < Width /\ Width \in Nat
  BY ReaderLoose, WidthAssumption DEF Plain, Mapped
<1>2. PICK a \in ReadRuns(d, rd, ns) : ReadAll(d, rd, ns) = a[Len(ns)]
  BY <1>1, ReadAllRun
<1>3. /\ a \in [0 .. m -> Reads] /\ a[0] = first
      /\ \A i \in 1 .. m : a[i] = AddRead(d, a[i - 1], ns[i])
  BY <1>2 DEF ReadRuns
<1> DEFINE At(i) == ~a[i].out /\ Plain(a[i].r, o + 4 * i) /\ Alike(rd, a[i].r)
           T == {i \in 0 .. m : At(i)}
<1>4. 0 \in T
  <2>1. first.r = rd /\ first.out = FALSE
    BY DEF Read
  <2>2. a[0].r = rd /\ ~a[0].out /\ 0 \in 0 .. m /\ o + 4 * 0 = o
    <3>1. a[0] = first
      BY <1>3
    <3>2. first.r = rd /\ ~first.out
      BY <2>1
    <3> HIDE DEF first
    <3>3. a[0].r = rd /\ ~a[0].out
      BY <3>1, <3>2
    <3>4. 0 \in 0 .. m /\ o + 4 * 0 = o
      OBVIOUS
    <3> QED
      BY <3>3, <3>4
  <2>3. Alike(rd, rd)
    BY Zenon DEF Alike
  <2>4. Plain(a[0].r, o + 4 * 0) /\ Alike(rd, a[0].r)
    BY <2>2, <2>3
  <2> QED
    BY <2>2, <2>4
<1>5. ASSUME NEW i \in 0 .. m - 1, i \in T PROVE i + 1 \in T
  <2> DEFINE x == o + 4 * i
             j == i + 1
             s == a[i]
             t == AddRead(d, s, 32)
  <2>1. x \in Nat /\ x + 3 < e /\ x + 3 < Width /\ x + 4 = o + 4 * j /\ j \in 1 .. m
        /\ j \in 0 .. m /\ j - 1 = i /\ i \in 0 .. m
    <3>1. e <= n
      OBVIOUS
    <3>2. o + 4 * m <= e
      OBVIOUS
    <3> HIDE DEF e, n
    <3> QED
      BY <1>1, <3>1, <3>2
  <2>2. ~s.out /\ Plain(s.r, x) /\ Alike(rd, s.r) /\ s \in Reads
    BY <1>3, <1>5, <2>1
  <2>3. a[j] = t
    <3>1. a[j] = AddRead(d, a[j - 1], ns[j]) /\ ns[j] = 32
      BY <1>3, <2>1
    <3> HIDE DEF j
    <3> QED
      BY <2>1, <3>1, Zenon
  <2>4. s.r.end = e
    BY <2>2, Zenon DEF Alike
  <2>5. /\ Alike(s.r, t.r)
        /\ t.out <=> s.out \/ x + 3 >= s.r.end
        /\ x + 3 < s.r.end => Plain(t.r, x + 4)
    <3> HIDE DEF x, s
    <3> QED
      BY <2>1, <2>2, AddWord
  <2>6. ~(x + 3 >= s.r.end) /\ x + 3 < s.r.end
    <3> HIDE DEF x, e
    <3>1. ~(x + 3 >= e)
      BY <1>1, <2>1
    <3> QED
      BY <2>1, <2>4, <3>1
  <2>7. ~t.out /\ Plain(t.r, o + 4 * j)
    <3>1. Plain(t.r, x + 4) /\ ~t.out
      <4> HIDE DEF x, t, s
      <4> QED
        BY <2>2, <2>5, <2>6, Zenon
    <3> QED
      BY <2>1, <3>1
  <2>8. Alike(rd, t.r)
    BY <2>2, <2>5, AlikeThrough
  <2> HIDE DEF t, x, s
  <2>9. At(j) /\ j \in 0 .. m
    BY <2>1, <2>3, <2>7, <2>8
  <2> QED
    BY <2>9
<1> HIDE DEF T
<1>6. 0 .. m \subseteq T
  BY <1>4, <1>5, UpTo
<1>7. At(m)
  <2>1. m \in 0 .. m
    OBVIOUS
  <2> QED
    BY <1>6, <2>1 DEF T
<1> QED
  BY <1>2, <1>7

(* The ftyp atom, and how far is_MP4 reads it                              *)
LEMMA FtypThere ==
  ASSUME NEW f, FileType(f), SoundFile(f), f.atoms # <<>>
  PROVE  LET sz == Number(WordAt(f.bytes, 0))
             m == Min({FtypWords(sz), Len(f.bytes) \div 4})
         IN  /\ WordAt(f.bytes, 4) = ftyp /\ sz % 4 = 0 /\ sz >= 8
             /\ sz \in Nat /\ sz <= Len(f.bytes) /\ 8 <= Len(f.bytes)
             /\ m \in Nat /\ 8 + 4 * m = sz
             /\ 1 \in 1 .. Len(f.atoms) /\ f.atoms[1] = [at |-> sz, past |-> 0]
<1> DEFINE n == Len(f.bytes)
           c == Len(f.atoms)
           word == WordAt(f.bytes, 0)
           sz == Number(word)
           T == {FtypWords(sz), n \div 4}
           m == Min(T)
           first == f.atoms[1]
<1>1. /\ WordAt(f.bytes, 4) = ftyp /\ sz >= 16 /\ sz % 4 = 0
      /\ c > 0 /\ first = [at |-> sz, past |-> 0]
  BY Boxed DEF SoundBoxed
<1>2. n \in Nat /\ n + 3 < Width /\ Width \in Nat /\ c \in Nat /\ Mapped(f.bytes)
  BY FileFacts
<1>3. sz \in 0 .. Width - 1
  <2> DEFINE zero == 0
  <2>1. zero \in Nat
    OBVIOUS
  <2> HIDE DEF zero
  <2>2. WordAt(f.bytes, zero) \in Seq(Bit)
    BY <1>2, <2>1, WordType
  <2>3. word \in Seq(Bit)
    BY <2>2 DEF zero
  <2> HIDE DEF word
  <2> QED
    BY <2>3, NumberType
<1>4. 1 \in 1 .. c
  <2> HIDE DEF c
  <2> QED
    BY <1>1, <1>2
<1>5. sz <= n
  <2> DEFINE one == 1
  <2>1. one \in 1 .. Len(f.atoms)
    BY <1>4
  <2> HIDE DEF one
  <2>2. f.atoms[one].at <= Len(f.bytes)
    BY <2>1, AtomThere
  <2>3. first.at <= n
    BY <2>2 DEF one
  <2>4. first.at = sz
    <3> HIDE DEF first, sz
    <3> QED
      BY <1>1
  <2> QED
    BY <2>3, <2>4
<1> HIDE DEF sz, n
<1>6. FtypWords(sz) = sz \div 4 - 2 /\ 8 + 4 * (sz \div 4 - 2) = sz
      /\ sz \div 4 - 2 <= n \div 4 /\ sz \div 4 - 2 \in Nat /\ n \div 4 \in Nat
  <2> DEFINE q == sz \div 4
             y == q - 4
  <2>1. sz = 4 * q /\ q \in Nat /\ q >= 4
    BY <1>1, <1>3
  <2>2. y \in 0 .. Width - 1 /\ y \in Int
    <3> HIDE DEF q
    <3> QED
      BY <1>2, <1>3, <2>1
  <2>3. FtypWords(sz) = 2 + (y % Width)
    BY DEF FtypWords
  <2>4. n \div 4 \in Nat /\ q <= n \div 4
    BY <1>1, <1>2, <1>3, <1>5
  <2> HIDE DEF y
  <2>5. y % Width = y
    BY <2>2, OffsetWraps
  <2> HIDE DEF q
  <2>6. FtypWords(sz) = q - 2 /\ 8 + 4 * (q - 2) = sz /\ q - 2 \in Nat
        /\ q - 2 <= n \div 4
    BY <2>1, <2>3, <2>4, <2>5 DEF y
  <2> QED
    BY <2>4, <2>6 DEF q
<1>7. m = sz \div 4 - 2
  <2> DEFINE x == sz \div 4 - 2
             z == n \div 4
  <2>1. x \in Nat /\ z \in Nat /\ x <= z /\ T = {x, z}
    BY <1>6
  <2> HIDE DEF x, z, T
  <2>2. T \subseteq Nat /\ T # {}
    BY <2>1
  <2>3. Min(T) \in T /\ \A k \in T : Min(T) <= k
    BY <2>2, MinIsLeast
  <2>4. Min(T) = x
    BY <2>1, <2>3
  <2> QED
    BY <2>4 DEF x
<1>8. m \in Nat /\ 8 + 4 * m = sz
  <2> HIDE DEF m
  <2> QED
    BY <1>6, <1>7
<1>9. sz >= 8 /\ sz \in Nat /\ 8 <= n
  BY <1>1, <1>2, <1>3, <1>5
<1> HIDE DEF first, m
<1> QED
  BY <1>1, <1>4, <1>5, <1>8, <1>9 DEF sz, n, m, T, first

(* The first atom tells how the units are separated.                       *)
LEMMA ProbeKeeps ==
  ASSUME TypeOK, OnTrack, WhereInFile, Probe
  PROVE  WhereInFile'
<1> DEFINE o == 0
           n == Len(data)
           head == TwoOf(data, r, 32, 32)
           first == Number(Word(head.bits, 1))
           m == Min({FtypWords(first), r.end \div 4})
           ns == [i \in 1 .. m |-> 32]
           rest == ReadAll(data, head.r, ns)
           to == Placed(r, o, o)
<1>1. pc = "probe"
  BY Zenon DEF Probe
<1>2. SoundFile(file) /\ UnitKept /\ WhereProbing
  BY Zenon DEF WhereInFile
<1>3. Past = 0 /\ ~delim /\ r = bitstream_init(n)
  BY <1>1, <1>2, Zenon DEF WhereProbing
<1>4. FileType(file) /\ Mapped(data) /\ r \in Reader /\ Width \in Nat
      /\ n \in Nat /\ n + 3 < Width
  BY MappedFile
<1>5. ~r.rbsp /\ r.shift = 0 /\ r.end = n /\ r.off = 0
  <2> HIDE DEF n
  <2> QED
    BY <1>3 DEF bitstream_init
<1>6. /\ head.out <=> o + 8 > n
      /\ o + 8 <= n => /\ Plain(head.r, o + 8)
                       /\ Word(head.bits, 1) = WordAt(data, o)
                       /\ Word(head.bits, 2) = WordAt(data, o + 4)
  <2> DEFINE d == data
             e == r.end
  <2>1. Plain(r, o) /\ o + 3 < Width /\ e <= Len(d) /\ o \in Nat
    <3>1. Plain(r, o)
      BY <1>4, <1>5, Zenon DEF Plain
    <3>2. o + 3 < Width
      <4> HIDE DEF n
      <4> QED
        BY <1>4
    <3>3. e <= Len(d)
      BY <1>4, <1>5
    <3> QED
      BY <3>1, <3>2, <3>3
  <2> HIDE DEF d, o
  <2>2. LET h == TwoOf(d, r, 32, 32)
        IN  /\ h.out <=> o + 8 > r.end
            /\ o + 8 <= r.end => /\ Plain(h.r, o + 8)
                                 /\ Word(h.bits, 1) = WordAt(d, o)
                                 /\ Word(h.bits, 2) = WordAt(d, o + 4)
    BY <1>4, <2>1, TwoWords DEF d
  <2> QED
    BY <1>5, <2>2, Zenon DEF d
<1>7. Alike(r, head.r)
  <2> DEFINE d == data
  <2> HIDE DEF d
  <2>1. Alike(r, TwoOf(d, r, 32, 32).r)
    BY <1>4, WordsType, Zenon DEF d
  <2> QED
    BY <2>1 DEF d
<1>8. \/ head.out /\ DataEnds
      \/ /\ ~head.out /\ ~IsFtyp(head.bits)
         /\ r' = to /\ delim' = TRUE /\ pc' = "seek"
         /\ UNCHANGED <<file, size, origEnd, prevOff, nalSize, unitVars, seen, got>>
      \/ ~head.out /\ IsFtyp(head.bits) /\ rest.out /\ DataEnds
      \/ /\ ~head.out /\ IsFtyp(head.bits) /\ ~rest.out
         /\ r' = rest.r /\ pc' = "atom"
         /\ UNCHANGED <<file, atomVars, unitVars, seen, got>>
  BY Zenon DEF Probe, TwoOf, Placed
<1>9. IsFtyp(head.bits) <=> first % 4 = 0 /\ first >= 8 /\ Word(head.bits, 2) = ftyp
  BY DEF IsFtyp
<1> HIDE DEF head
<1>10. CASE file.atoms = <<>>
  <2>1. /\ Units # <<>> => n >= 8
        /\ WordAt(data, 4) # ftyp
    BY <1>2, <1>4, <1>10, Delimited DEF SoundDelimited, Units, data
  <2>2. CASE head.out
    <3>1. o + 8 > n
      BY <1>6, <2>2
    <3>2. Units = <<>>
      <4> HIDE DEF n
      <4> QED
        BY <1>4, <2>1, <3>1
    <3>3. Past = Len(Units)
      BY <1>3, <3>2
    <3>4. pc' = "data_end" /\ UNCHANGED <<file, r, atomVars, unitVars, seen, got>>
      BY <1>8, <2>2, Zenon DEF DataEnds
    <3> QED
      BY <1>2, <3>3, <3>4, UnitEnds DEF unitVars
  <2>3. CASE ~head.out
    <3>1. Word(head.bits, 2) = WordAt(data, 4)
      <4>1. o + 8 <= n
        <5>1. ~(o + 8 > n)
          BY <1>6, <2>3
        <5> HIDE DEF n
        <5> QED
          BY <1>4, <5>1
      <4> QED
        BY <1>6, <4>1
    <3>2. ~IsFtyp(head.bits)
      BY <1>9, <2>1, <3>1
    <3>3. /\ r' = to /\ delim' = TRUE /\ pc' = "seek"
          /\ UNCHANGED <<file, size, origEnd, prevOff, nalSize, unitVars, seen, got>>
      BY <1>8, <2>3, <3>2, Zenon
    <3>4. r'.off = 0 /\ r'.end = n /\ ~r'.rbsp
      <4> DEFINE e == r.end
      <4>1. o \in Nat
        OBVIOUS
      <4>2. r' = Placed(r, o, o)
        BY <3>3
      <4> HIDE DEF o
      <4>3. r'.off = o /\ r'.end = e /\ r'.rbsp = r.rbsp
        BY <1>4, <4>1, <4>2, PlacedReader
      <4> QED
        BY <1>5, <4>3 DEF o
    <3>5. UNCHANGED <<file, nal, type, seen, got>> /\ file' = file /\ Past' = Past
          /\ Units' = Units /\ data' = data
      BY <3>3 DEF Past, Units, data, unitVars
    <3>6. Past < Len(Units) => 0 + StartCodeSz <= Units[Past + 1].at
      <4> SUFFICES ASSUME Past < Len(Units) PROVE 0 + StartCodeSz <= Units[Past + 1].at
        OBVIOUS
      <4> DEFINE p == Past + 1
                 at == Units[p].at
      <4>1. p \in 1 .. Len(Units)
        <5> DEFINE l == Len(Units)
                   q == Past
        <5>1. l \in Nat /\ q = 0 /\ q < l
          BY <1>3, <1>4, FileFacts DEF Units
        <5> HIDE DEF l, q
        <5>2. q + 1 \in 1 .. l
          BY <5>1
        <5> QED
          BY <5>2 DEF l, q
      <4> HIDE DEF p
      <4>2. at \in Nat /\ at >= StartCodeSz
        BY <1>2, <1>4, <1>10, <4>1, OwnCode DEF Units
      <4> HIDE DEF at
      <4>3. 0 + StartCodeSz <= at
        BY <4>2 DEF StartCodeSz
      <4> QED
        BY <4>3 DEF at, p
    <3>7. BeforeNext(r.off)'
      <4>1. ~(Past > 0)
        BY <1>3
      <4> QED
        BY <3>4, <3>5, <3>6, <4>1, Zenon DEF BeforeNext
    <3>8. WhereSeeking'
      BY <3>3, <3>4, <3>5, <3>7, Zenon DEF WhereSeeking
    <3>9. UnitKept'
      BY <1>2, <3>5, UnitStays
    <3>10. WhereEnded'
      BY <3>3 DEF WhereEnded
    <3>11. delim' = (file.atoms = <<>>)
      BY <1>10, <3>3
    <3> QED
      BY <1>2, <3>3, <3>5, <3>8, <3>9, <3>10, <3>11, Gather
  <2> QED
    BY <2>2, <2>3
<1>11. CASE file.atoms # <<>>
  <2> DEFINE sz == Number(WordAt(data, 0))
             k == Min({FtypWords(sz), n \div 4})
  <2>1. /\ WordAt(data, 4) = ftyp /\ sz % 4 = 0 /\ sz >= 8
        /\ sz \in Nat /\ sz <= n /\ 8 <= n /\ k \in Nat /\ 8 + 4 * k = sz
        /\ 1 \in 1 .. Len(file.atoms) /\ file.atoms[1] = [at |-> sz, past |-> 0]
    BY <1>2, <1>4, <1>11, FtypThere, Zenon DEF data
  <2>2. /\ ~head.out /\ Plain(head.r, 8) /\ Word(head.bits, 1) = WordAt(data, 0)
        /\ Word(head.bits, 2) = ftyp
    <3>1. o + 8 <= n /\ ~(o + 8 > n)
      <4> HIDE DEF n
      <4> QED
        BY <1>4, <2>1
    <3> QED
      BY <1>6, <2>1, <3>1
  <2>3. IsFtyp(head.bits)
    BY <1>9, <2>1, <2>2
  <2>4. m = k /\ first = sz
    BY <1>5, <2>2
  <2>5. ~rest.out /\ Plain(rest.r, sz) /\ Alike(head.r, rest.r)
    <3> DEFINE d == data
               rd == head.r
               q == 8
               kk == k
               tt == 32
               ws == [i \in 1 .. kk |-> tt]
    <3>1. ws \in Seq(Widths) /\ Len(ws) = kk /\ \A i \in 1 .. kk : ws[i] = tt
      <4>1. tt \in Widths /\ kk \in Nat
        BY <2>1 DEF Widths
      <4> HIDE DEF tt, kk
      <4>2. ws \in [1 .. kk -> Widths] /\ \A i \in 1 .. kk : ws[i] = tt
        BY <4>1
      <4> HIDE DEF ws
      <4> QED
        BY <4>1, <4>2, FiniteSeq
    <3>2. rd.end = n
      BY <1>5, <1>7, Zenon DEF Alike
    <3>3. Plain(rd, q) /\ Mapped(d) /\ q \in Nat /\ kk \in Nat
      BY <1>4, <2>1, <2>2
    <3>4. rd.end <= Len(d) /\ q + 4 * kk <= rd.end /\ q + 4 * kk = sz
      <4>1. rd.end <= Len(d)
        BY <1>4, <3>2
      <4>2. q + 4 * kk = sz
        BY <2>1
      <4> QED
        BY <2>1, <3>2, <4>1, <4>2
    <3>5. rest = ReadAll(d, rd, ws)
      BY <2>4
    <3> HIDE DEF d, rd, q, kk, ws
    <3>6. LET s == ReadAll(d, rd, ws)
          IN  ~s.out /\ Plain(s.r, q + 4 * kk) /\ Alike(rd, s.r)
      BY <3>1, <3>3, <3>4, WordsPassed, Zenon
    <3> HIDE DEF rest
    <3> QED
      BY <3>4, <3>5, <3>6, Zenon DEF rd
  <2>6. /\ r' = rest.r /\ pc' = "atom"
        /\ UNCHANGED <<file, atomVars, unitVars, seen, got>>
    <3> HIDE DEF rest
    <3> QED
      BY <1>8, <2>2, <2>3, <2>5, Zenon
  <2> HIDE DEF rest
  <2>7. r'.off = sz /\ r'.shift = 0 /\ ~r'.rbsp /\ r'.end = n
    <3>1. r'.off = sz /\ r'.shift = 0 /\ ~r'.rbsp
      BY <2>5, <2>6, Zenon DEF Plain
    <3>2. r'.end = n
      BY <1>5, <1>7, <2>5, <2>6, Zenon DEF Alike
    <3> QED
      BY <3>1, <3>2
  <2>8. UNCHANGED <<file, nal, type, seen, got>> /\ file' = file /\ Past' = Past
        /\ Units' = Units /\ data' = data /\ delim' = delim
    BY <2>6 DEF Past, Units, data, unitVars, atomVars
  <2>9. UnitKept' /\ delim' = (file.atoms = <<>>)
    <3>1. UnitKept'
      BY <1>2, <2>8, UnitStays
    <3>2. delim \in BOOLEAN
      BY DEF TypeOK
    <3> QED
      BY <1>3, <1>11, <2>8, <3>1, <3>2
  <2>10. file.atoms[1] = [at |-> r'.off, past |-> Past']
    BY <1>3, <2>1, <2>7, <2>8
  <2>11. WhereInAtoms'
    BY <1>3, <2>1, <2>7, <2>8, <2>10, Zenon DEF WhereInAtoms
  <2>12. WhereEnded'
    BY <2>6 DEF WhereEnded
  <2> QED
    BY <1>2, <2>6, <2>8, <2>9, <2>11, <2>12, Gather
<1> QED
  BY <1>10, <1>11

-----------------------------------------------------------------------------
(***************************************************************************)
(* The inductive invariant, and what follows from it.                      *)
(***************************************************************************)
LEMMA StutterKeeps ==
  ASSUME WhereInFile, UNCHANGED vars
  PROVE  WhereInFile'
<1>1. /\ UNCHANGED <<file, pc, r, delim, size, origEnd, prevOff, nalSize>>
      /\ UNCHANGED <<nal, type, asked, seen, got, stray, lost>>
  BY DEF vars, atomVars, unitVars, track
<1>2. Past' = Past /\ Units' = Units /\ data' = data
  BY <1>1 DEF Past, Units, data
<1>3. UnitKept'
  BY <1>1, UnitStays DEF WhereInFile
<1>4. WhereProbing' /\ WhereEnded'
  BY <1>1, <1>2, Zenon DEF WhereInFile, WhereProbing, WhereEnded
<1>5. WhereSeeking'
  BY <1>1, <1>2, Zenon DEF WhereInFile, WhereSeeking, BeforeNext
<1>6. WhereInAtoms'
  BY <1>1, <1>2, Zenon DEF WhereInFile, WhereInAtoms
<1>7. WhereAtSize'
  BY <1>1, <1>2, Zenon DEF WhereInFile, WhereAtSize, InAtom
<1>8. WhereAtUnit'
  BY <1>1, <1>2, Zenon DEF WhereInFile, WhereAtUnit, Bounded, InAtom
<1>9. WhereInUnit'
  BY <1>1, <1>2, Zenon DEF WhereInFile, WhereInUnit, Bounded, InAtom, BeforeNext
<1>10. SoundFile(file)' /\ (pc' \notin {"probe"} \union Ends => delim' = (file'.atoms = <<>>))
  BY <1>1, Zenon DEF WhereInFile
<1> QED
  BY <1>3, <1>4, <1>5, <1>6, <1>7, <1>8, <1>9, <1>10, Zenon DEF WhereInFile

(* Every step of the program leaves it at a place it can be in.            *)
LEMMA NextKeeps ==
  ASSUME TypeOK, OnTrack, ~lost', WhereInFile, [Next]_vars
  PROVE  WhereInFile'
<1>1. CASE Probe
  BY <1>1, ProbeKeeps
<1>2. CASE Atom
  BY <1>2, AtomKeeps
<1>3. CASE UnitSize
  BY <1>3, UnitSizeKeeps
<1>4. CASE AfterUnit
  BY <1>4, AfterUnitKeeps
<1>5. CASE Seek
  BY <1>5, SeekKeeps
<1>6. CASE NextStartCode
  BY <1>6, NextStartCodeKeeps
<1>7. CASE StartUnit
  BY <1>7, StartUnitKeeps
<1>8. ASSUME NEW n \in Fields, ReadField(n) PROVE WhereInFile'
  BY <1>8, ReadFieldKeeps, StrayReadKeeps
<1>9. CASE ReadCode
  BY <1>9, ReadCodeKeeps, StrayReadKeeps
<1>10. CASE Reject
  BY <1>10, RejectKeeps
<1>11. CASE AskMoreData
  BY <1>11, AskMoreDataKeeps, StrayAskKeeps
<1>12. CASE EndHeader
  BY <1>12, EndHeaderKeeps
<1>13. CASE Decode
  BY <1>13, DecodeKeeps
<1>14. CASE UNCHANGED vars
  BY <1>14, StutterKeeps
<1> QED
  BY <1>1, <1>2, <1>3, <1>4, <1>5, <1>6, <1>7, <1>8, <1>9, <1>10, <1>11, <1>12,
     <1>13, <1>14, Zenon DEF Next, Run, Ended

LEMMA FileStays ==
  ASSUME [Next]_vars
  PROVE  file' = file /\ (lost => lost')
<1>1. Run => file' = file
  BY Zenon DEF Run, Probe, Atom, UnitSize, AfterUnit, Seek, NextStartCode, StartUnit,
               ReadField, ReadCode, Reject, AskMoreData, EndHeader, Decode, DataEnds
<1>2. UNCHANGED track => lost' = lost
  BY DEF track
<1>3. Run => UNCHANGED track \/ lost' = lost \/ NextStartCode
  BY Zenon DEF Run, Probe, Atom, UnitSize, AfterUnit, Seek, StartUnit, ReadField, ReadCode,
               Reject, AskMoreData, EndHeader, Decode, DataEnds
<1>4. NextStartCode /\ lost => lost'
  BY DEF NextStartCode
<1>5. Run => (lost => lost')
  BY <1>2, <1>3, <1>4
<1>6. UNCHANGED vars => file' = file /\ (lost => lost')
  BY DEF vars, track
<1> QED
  BY <1>1, <1>5, <1>6, Zenon DEF Next, Ended

(* A parser strays over start codes where there are some.                  *)
LEMMA LostDelimits ==
  ASSUME lost => delim, [Next]_vars
  PROVE  lost' => delim'
<1>1. CASE NextStartCode
  BY <1>1 DEF NextStartCode, atomVars
<1>2. CASE Probe
  BY <1>2 DEF Probe, track, atomVars, DataEnds
<1>3. ASSUME Run, ~NextStartCode, ~Probe
      PROVE  lost' = lost /\ delim' = delim
  <2>1. /\ Atom => lost' = lost /\ delim' = delim
        /\ UnitSize => lost' = lost /\ delim' = delim
        /\ AfterUnit => lost' = lost /\ delim' = delim
        /\ Seek => lost' = lost /\ delim' = delim
        /\ StartUnit => lost' = lost /\ delim' = delim
        /\ (\E n \in Fields : ReadField(n)) => lost' = lost /\ delim' = delim
        /\ ReadCode => lost' = lost /\ delim' = delim
        /\ Reject => lost' = lost /\ delim' = delim
        /\ AskMoreData => lost' = lost /\ delim' = delim
        /\ EndHeader => lost' = lost /\ delim' = delim
        /\ Decode => lost' = lost /\ delim' = delim
    BY Zenon DEF Atom, UnitSize, AfterUnit, Seek, StartUnit, ReadField, ReadCode, Reject,
                 AskMoreData, EndHeader, Decode, DataEnds, track, atomVars
  <2> QED
    BY <1>3, <2>1, Zenon DEF Run
<1>4. CASE UNCHANGED vars
  BY <1>4 DEF vars, track, atomVars
<1> QED
  BY <1>1, <1>2, <1>3, <1>4, Zenon DEF Next, Ended

LEMMA InitWhere ==
  ASSUME Init, OnTrack
  PROVE  WhereInFile
<1>1. SoundFile(file) /\ FileType(file)
  BY FilesAssumption DEF Init, OnTrack
<1>2. pc = "probe" /\ r = bitstream_init(Len(data)) /\ seen = <<>> /\ delim = FALSE
  BY Zenon DEF Init
<1>3. Past = 0
  BY <1>2 DEF Past
<1>4. UnitKept
  <2>1. Len(Units) \in Nat
    BY <1>1, FileFacts DEF Units
  <2> QED
    BY <1>3, <2>1 DEF UnitKept
<1>5. WhereProbing
  BY <1>2, <1>3 DEF WhereProbing
<1>6. /\ WhereSeeking /\ WhereInAtoms /\ WhereAtSize /\ WhereAtUnit /\ WhereInUnit
      /\ WhereEnded
  BY <1>2 DEF WhereSeeking, WhereInAtoms, WhereAtSize, WhereAtUnit, WhereInUnit, WhereEnded
<1>7. pc \in {"probe"} \union Ends
  BY <1>2
<1> QED
  BY <1>1, <1>4, <1>5, <1>6, <1>7, Zenon DEF WhereInFile

LEMMA InvariantStays ==
  ASSUME IInv, [Next]_vars
  PROVE  IInv'
<1>1. TypeOK'
  BY NextType DEF IInv
<1>2. OnTrack' => OnTrack /\ ~lost'
  BY FileStays DEF OnTrack
<1>3. ASSUME OnTrack' PROVE WhereInFile'
  BY <1>2, <1>3, NextKeeps DEF IInv
<1>4. lost' => delim'
  BY LostDelimits DEF IInv
<1> QED
  BY <1>1, <1>3, <1>4, Zenon DEF IInv

(* In any file the variables keep their types.  In a sound one, until a    *)
(* parser strays over a start code, the program is where the author's      *)
(* layout says: what was dispatched are the first units, reader and        *)
(* container agree on where the present one ends and, unless its parser    *)
(* has strayed, on the bit the parser is at.                               *)
THEOREM FramingInvariant == Spec => []IInv
<1>1. Init => IInv
  <2>1. Init => ~lost
    BY DEF Init
  <2> QED
    BY <2>1, InitType, InitWhere DEF IInv
<1>2. IInv /\ [Next]_vars => IInv'
  BY InvariantStays
<1> QED
  BY <1>1, <1>2, PTL DEF Spec

(* However it is read, a unit of a sound file gives its parser its bits    *)
(* in order, without the emulation prevention bytes (bitstream.c:185-302). *)
THEOREM BitsInOrder == Spec => []RbspInOrder
<1>1. IInv => RbspInOrder
  <2> SUFFICES ASSUME IInv, OnTrack, seen # <<>> PROVE IsPrefix(got, RbspBits(Unit))
    BY DEF RbspInOrder
  <2>1. SoundFile(file) /\ UnitKept /\ FileType(file) /\ seen \in Seq(0 .. Width - 1)
    BY Zenon DEF IInv, TypeOK, WhereInFile
  <2>2. Past > 0
    BY <2>1 DEF Past
  <2>3. Unit = Units[Past]
    BY <2>1, <2>2, UnitIs
  <2> QED
    BY <2>1, <2>2, <2>3, Zenon DEF UnitKept
<1> QED
  BY <1>1, FramingInvariant, PTL

(* The units of a sound file are dispatched in their order and each once,  *)
(* until a parser strays over a start code; the end of the data ends the   *)
(* program behind the last or under a parser that has strayed; and no      *)
(* assertion on the sizes in the file fails (MP4.c:36-127, ANNEX_B.c:28-38)*)
THEOREM AllUnitsInOrder == Spec => []UnitsInOrder
<1>1. IInv => UnitsInOrder
  <2> DEFINE at == [i \in DOMAIN file.units |-> file.units[i].at]
             n == Len(Units)
  <2> SUFFICES ASSUME IInv, OnTrack
               PROVE  /\ IsPrefix(seen, at)
                      /\ pc = "data_end" => seen = at \/ stray
                      /\ pc # "assert"
    BY DEF UnitsInOrder, IInv
  <2>1. SoundFile(file) /\ UnitKept /\ WhereEnded
    BY Zenon DEF IInv, WhereInFile
  <2>2. FileType(file) /\ seen \in Seq(0 .. Width - 1)
    BY Zenon DEF IInv, TypeOK
  <2>3. n \in Nat /\ DOMAIN file.units = 1 .. n
    BY <2>2, FileFacts DEF Units
  <2>4. at \in [1 .. n -> Nat] /\ \A i \in 1 .. n : at[i] = Units[i].at
    <3>1. \A i \in 1 .. n : file.units[i].at \in Nat
      <4> TAKE i \in 1 .. n
      <4>1. UnitOf(file, file.units[i])
        BY <2>1, <2>2, UnitOfFile DEF Units
      <4> QED
        BY <4>1, UnitFacts
    <3> QED
      BY <2>3, <3>1 DEF Units
  <2> HIDE DEF at
  <2>5. at \in Seq(Nat) /\ Len(at) = n
    <3> HIDE DEF n
    <3> QED
      BY <2>3, <2>4, FiniteSeq
  <2>6. seen \in Seq(Nat) /\ Len(seen) \in Nat
    BY <2>2, WidthAssumption
  <2>7. Len(seen) <= n /\ \A i \in 1 .. Len(seen) : seen[i] = at[i]
    <3>1. Len(seen) <= n /\ \A i \in 1 .. Len(seen) : seen[i] = Units[i].at
      BY <2>1, Zenon DEF UnitKept, Past
    <3> HIDE DEF n
    <3>2. \A i \in 1 .. Len(seen) : i \in 1 .. n
      BY <2>3, <2>6, <3>1
    <3> QED
      BY <2>4, <3>1, <3>2
  <2>8. IsPrefix(seen, at)
    <3> HIDE DEF n
    <3> QED
      BY <2>5, <2>6, <2>7, PrefixIs
  <2>9. ASSUME pc = "data_end", ~stray PROVE seen = at
    <3>1. Len(seen) = n
      BY <2>1, <2>9, Zenon DEF WhereEnded, Past
    <3> HIDE DEF n
    <3>2. seen \in Seq(Nat) /\ at \in Seq(Nat) /\ Len(seen) = Len(at)
          /\ \A i \in 1 .. Len(seen) : seen[i] = at[i]
      BY <2>5, <2>6, <2>7, <3>1
    <3> QED
      BY <3>2
  <2> QED
    BY <2>1, <2>8, <2>9, Zenon DEF WhereEnded
<1> QED
  BY <1>1, FramingInvariant, PTL

(* Of a sound file the engine is given a whole unit or a full buffer, and  *)
(* nothing from beyond the file or the unit's size (decoder.c:701-712).    *)
THEOREM SliceWhole == Spec => []SliceGiven
<1>1. IInv => SliceGiven
  <2> DEFINE a == nal + DataBufSize
             b == r.end + 3
             m == DataEnd(nal, r.end)
             u == Units[Past]
             at == u.at
             len == u.len
             end == r.end
             n == Len(data)
  <2> SUFFICES ASSUME IInv, OnTrack, pc = "engine"
               PROVE  /\ DataSize <= DataBufSize
                      /\ nal + Copied <= Len(data)
                      /\ Copied >= Unit.len \/ DataSize = DataBufSize
                      /\ ~delim => Copied <= Unit.len
    BY Zenon DEF SliceGiven
  <2>1. TypeOK /\ WhereInFile
    BY DEF IInv
  <2>2. /\ SoundFile(file) /\ Past \in 1 .. Len(Units) /\ UnitOf(file, u)
        /\ Unit = u /\ nal = at /\ Bounded(Past) /\ at + len <= end
    BY <2>1, UnitThere
  <2>3. at \in Nat /\ len \in Nat /\ at + len <= n /\ n \in Nat
    BY <2>2, UnitFacts DEF data
  <2>4. delim => end = n
    BY <2>2 DEF Bounded
  <2>5. ~delim => end = at + len
    BY <2>2 DEF Bounded
  <2>6. end \in Nat /\ DataBufSize \in Nat
    <3>1. r \in Reader
      BY <2>1 DEF TypeOK
    <3> QED
      BY <3>1, ReaderLoose, FilesAssumption
  <2>7. a = at + DataBufSize /\ b = end + 3 /\ a \in Nat /\ b \in Nat
    BY <2>2, <2>3, <2>6
  <2>8. m \in {a, b} /\ m <= a /\ m <= b
    <3> DEFINE T == {a, b}
    <3>1. m = Min(T)
      BY DEF DataEnd, StartCodeSz
    <3>2. T \subseteq Nat /\ T # {} /\ a \in T /\ b \in T
      BY <2>7
    <3> HIDE DEF a, b, m
    <3>3. Min(T) \in T /\ \A k \in T : Min(T) <= k
      <4> HIDE DEF T
      <4> QED
        BY <3>2, MinIsLeast
    <3> QED
      BY <3>1, <3>2, <3>3
  <2>9. DataSize = m - at /\ Copied = m - at - 3
    BY <2>2 DEF DataSize, Copied, StartCodeSz
  <2>10. Unit.len = len /\ end <= n
    <3>1. at + len = end \/ end = n
      BY <2>4, <2>5
    <3>2. end <= n
      <4> HIDE DEF end, n, at, len
      <4> QED
        BY <2>3, <2>6, <3>1
    <3> QED
      BY <2>2, <3>2
  <2> HIDE DEF a, b, m, at, len, end, n
  <2>11. m - at <= DataBufSize /\ at + (m - at - 3) <= n
    BY <2>3, <2>6, <2>7, <2>8, <2>10
  <2>12. m - at - 3 >= len \/ m - at = DataBufSize
    BY <2>2, <2>3, <2>6, <2>7, <2>8
  <2>13. ~delim => m - at - 3 <= len
    BY <2>3, <2>5, <2>6, <2>7, <2>8
  <2> QED
    BY <2>2, <2>9, <2>10, <2>11, <2>12, <2>13 DEF n
<1> QED
  BY <1>1, FramingInvariant, PTL

(* In a sound file more_rbsp_data says truly whether the parser has read   *)
(* all of its unit (SPS.c:31-62), and no parser that reads the syntax of   *)
(* its unit and nothing else meets the end of the data.                    *)
THEOREM MoreDataTrue == Spec => MoreDataRight
<1> DEFINE Right == OnTrack /\ ~stray' /\ pc = "parse" =>
                      /\ pc' # "data_end"
                      /\ AskMoreData => IF Len(got) = DataBits(Unit) THEN pc' = "after"
                                        ELSE pc' # "after" /\ r' = r
<1>1. IInv /\ [Next]_vars => [Right]_vars
  <2> SUFFICES ASSUME IInv, Next, OnTrack, ~stray', pc = "parse"
               PROVE  /\ pc' # "data_end"
                      /\ AskMoreData => IF Len(got) = DataBits(Unit) THEN pc' = "after"
                                        ELSE pc' # "after" /\ r' = r
    BY Zenon
  <2>1. TypeOK /\ WhereInFile
    BY DEF IInv
  <2>2. Unit = Units[Past]
    BY <2>1, UnitThere
  <2>3. AskMoreData => IF Len(got) = DataBits(Unit) THEN pc' = "after"
                       ELSE pc' \in {"parse", "malformed"} /\ r' = r
    <3>1. AskMoreData => ~stray
      BY Zenon DEF AskMoreData, track
    <3>2. AskMoreData => IF Len(got) = DataBits(Units[Past]) THEN pc' = "after"
                         ELSE pc' \in {"parse", "malformed"} /\ r' = r
      BY <2>1, <3>1, AskMoreDataKeeps
    <3> QED
      BY <2>2, <3>2
  <2>4. \A n \in Fields : ReadField(n) => pc' = "parse"
    BY <2>1, ReadFieldKeeps
  <2>5. ReadCode => pc' = "parse"
    BY <2>1, ReadCodeKeeps
  <2>6. (\E n \in Fields : ReadField(n)) \/ ReadCode \/ Reject \/ AskMoreData \/ EndHeader
    <3>1. ~Probe /\ ~Atom /\ ~UnitSize /\ ~AfterUnit /\ ~Seek /\ ~NextStartCode
          /\ ~StartUnit /\ ~Decode /\ ~Ended
      BY DEF Probe, Atom, UnitSize, AfterUnit, Seek, NextStartCode, StartUnit, Decode,
             Ended, Ends
    <3> QED
      BY <3>1, Zenon DEF Next, Run
  <2>7. (Reject => pc' = "malformed") /\ (EndHeader => pc' = "engine")
    BY Zenon DEF Reject, EndHeader
  <2>8. pc' # "data_end"
    BY <2>3, <2>4, <2>5, <2>6, <2>7
  <2>9. AskMoreData => IF Len(got) = DataBits(Unit) THEN pc' = "after"
                       ELSE pc' # "after" /\ r' = r
    BY <2>3
  <2> QED
    BY <2>8, <2>9
<1> QED
  BY <1>1, FramingInvariant, PTL DEF Spec, MoreDataRight
=============================================================================
