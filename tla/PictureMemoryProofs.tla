------------------------ MODULE PictureMemoryProofs ------------------------
(***************************************************************************)
(* Proofs about PictureMemory, for any number of slots, any parameter sets *)
(* and any memory that satisfies MemoryAssumption.                         *)
(***************************************************************************)
EXTENDS PictureMemory, TLAPS

-----------------------------------------------------------------------------
(* Arithmetic. *)

(* A remainder lies below the divisor. *)
LEMMA ModRange ==
  ASSUME NEW x \in Int, NEW m \in Nat \ {0}
  PROVE  x % m \in 0 .. m - 1
OBVIOUS

(* What is below the divisor is its own remainder. *)
LEMMA ModSmall ==
  ASSUME NEW m \in Nat \ {0}, NEW x \in 0 .. m - 1
  PROVE  x % m = x
OBVIOUS

(* A remainder is never larger than the number. *)
LEMMA ModBelow ==
  ASSUME NEW x \in Nat, NEW m \in Nat \ {0}
  PROVE  x % m <= x
<1>1. CASE x < m
  BY <1>1, ModSmall
<1>2. CASE x >= m
  BY <1>2, ModRange
<1> QED
  BY <1>1, <1>2

(* A product of naturals grows with its factors. *)
LEMMA ProductMonotonic ==
  ASSUME NEW a \in Nat, NEW b \in Nat, NEW c \in Nat, NEW d \in Nat,
         a <= c, b <= d
  PROVE  a * b \in Nat /\ a * b <= c * d
<1>1. a * b \in Nat /\ a * d \in Nat /\ c * d \in Nat
  OBVIOUS
<1>2. (d - b) \in Nat /\ (c - a) \in Nat
  OBVIOUS
<1>3. a * (d - b) >= 0 /\ (c - a) * d >= 0
  BY <1>2
<1>4. a * (d - b) = a * d - a * b /\ (c - a) * d = c * d - a * d
  OBVIOUS
<1> QED
  BY <1>1, <1>3, <1>4

-----------------------------------------------------------------------------
(* What the assumptions on the memory say about the constants. *)
LEMMA Constants ==
  /\ Width \in Nat \ {0} /\ NumSlots \in Nat \ {0}
  /\ DRAM_PHYS_BASE \in Nat /\ DRAM_PHYS_END \in Nat
  /\ IRAM_BASE_ADDR \in Nat /\ IRAM_END_ADDR \in Nat
  /\ DATA_BUF_SIZE \in Nat
  /\ DRAM_PHYS_BASE + DATA_BUF_SIZE < DRAM_PHYS_END
  /\ DRAM_PHYS_END <= IRAM_BASE_ADDR
  /\ IRAM_BASE_ADDR + 512 < IRAM_END_ADDR
  /\ IRAM_END_ADDR + 516 + Width \div 512 < Width
  /\ NoAux \in 0 .. Width - 1
  /\ Width \div 512 \in Nat
  /\ DRAM_PHYS_END < Width /\ IRAM_END_ADDR + 516 < Width
  /\ DRAM_PHYS_BASE \in 0 .. Width - 1 /\ IRAM_BASE_ADDR \in 0 .. Width - 1
<1>1. Width \in Nat /\ Width \div 512 \in Nat
  BY MemoryAssumption
<1> QED
  BY <1>1, MemoryAssumption, UnitsAssumption

(* What is left of a size or an address in a word. *)
LEMMA Word ==
  ASSUME NEW x \in Nat
  PROVE  x % Width \in Nat /\ x % Width < Width /\ x % Width <= x
<1>1. Width \in Nat \ {0}
  BY Constants
<1>2. x % Width \in 0 .. Width - 1
  BY <1>1, ModRange
<1>3. x % Width <= x
  BY <1>1, ModBelow
<1> QED
  BY <1>1, <1>2, <1>3

(* The alignments. *)
LEMMA Alignments ==
  ASSUME NEW j \in Reservations
  PROVE  Alignment(j) \in {1, 4, 32, 256}
BY DEF Alignment

(* Aligning moves up by less than the alignment, onto a multiple of it, as *)
(* long as nothing wraps. *)
LEMMA AlignUp ==
  ASSUME NEW x \in Nat, NEW a \in {1, 4, 32, 256}, x + a - 1 < Width
  PROVE  /\ Align(x, a) \in Nat
         /\ Align(x, a) >= x /\ Align(x, a) <= x + a - 1
         /\ Align(x, a) % a = 0
<1>1. (x + a - 1) % Width = x + a - 1
  BY Constants, ModSmall
<1> DEFINE up == x + a - 1
<1>2. Align(x, a) = up - (up % a) /\ up \in Nat
  BY <1>1 DEF Align
<1> HIDE DEF up
<1>3. /\ up - (up % a) \in Nat
      /\ up - (up % a) >= up - a + 1 /\ up - (up % a) <= up
      /\ (up - (up % a)) % a = 0
  <2>1. CASE a = 1
    BY <1>2, <2>1
  <2>2. CASE a = 4
    BY <1>2, <2>2
  <2>3. CASE a = 32
    BY <1>2, <2>3
  <2>4. CASE a = 256
    BY <1>2, <2>4
  <2> QED
    BY <2>1, <2>2, <2>3, <2>4
<1> QED
  BY <1>2, <1>3 DEF up

(* An aligned address is an address, whatever wraps. *)
LEMMA AlignRange ==
  ASSUME NEW x \in Int, NEW a \in {1, 4, 32, 256}
  PROVE  Align(x, a) \in Int /\ Align(x, a) \in 0 .. Width - 1
<1> DEFINE up == (x + a - 1) % Width
<1>1. up \in 0 .. Width - 1
  BY Constants, ModRange
<1>2. Align(x, a) = up - (up % a)
  BY DEF Align
<1> HIDE DEF up
<1>3. up % a >= 0 /\ up % a <= up
  <2>1. CASE a = 1
    BY <1>1, <2>1, Constants
  <2>2. CASE a = 4
    BY <1>1, <2>2, Constants
  <2>3. CASE a = 32
    BY <1>1, <2>3, Constants
  <2>4. CASE a = 256
    BY <1>1, <2>4, Constants
  <2> QED
    BY <2>1, <2>2, <2>3, <2>4
<1> QED
  BY <1>1, <1>2, <1>3, Constants

(* The sizes of a picture are naturals, and at most what they are without  *)
(* wrapping.                                                               *)
LEMMA Sizes ==
  ASSUME NEW p \in Picture
  PROVE  /\ p.width * p.height \in Nat
         /\ total_mbs_nb(p) \in Nat /\ total_mbs_nb(p) <= p.width * p.height
         /\ frame_luma_size(p) \in Nat
         /\ frame_luma_size(p) <= 256 * (p.width * p.height)
         /\ frame_chroma_size(p) \in Nat
         /\ frame_chroma_size(p) <= 64 * (p.width * p.height)
<1> DEFINE w == p.width
           h == p.height
           a == (16 * w) % Width
           b == (16 * h) % Width
<1>1. w \in Nat /\ h \in Nat
  BY DEF Picture
<1>2. w * h \in Nat
  BY <1>1, ProductMonotonic
<1>3. total_mbs_nb(p) \in Nat /\ total_mbs_nb(p) <= w * h
  BY <1>2, Word DEF total_mbs_nb
<1>4. a \in Nat /\ b \in Nat /\ a <= 16 * w /\ b <= 16 * h
  <2>1. 16 * w \in Nat /\ 16 * h \in Nat
    BY <1>1
  <2> QED
    BY <2>1, Word
<1>5. frame_luma_size(p) = (a * b) % Width
  BY DEF frame_luma_size
<1> HIDE DEF a, b
<1>6. a * b \in Nat /\ a * b <= (16 * w) * (16 * h)
  BY <1>1, <1>4, ProductMonotonic
<1>7. (16 * w) * (16 * h) = 256 * (w * h)
  BY <1>1
<1>8. frame_luma_size(p) \in Nat /\ frame_luma_size(p) <= a * b
  BY <1>5, <1>6, Word
<1>9. frame_luma_size(p) <= 256 * (w * h)
  BY <1>2, <1>6, <1>7, <1>8
<1>10. frame_chroma_size(p) \in Nat /\ frame_chroma_size(p) <= 64 * (w * h)
  BY <1>2, <1>8, <1>9 DEF frame_chroma_size
<1> QED
  BY <1>1, <1>2, <1>3, <1>8, <1>9, <1>10

-----------------------------------------------------------------------------
(* Every reservation is one of a buffer, of a plane of a slot, or of the   *)
(* IRAM.                                                                   *)
LEMMA Kinds ==
  ASSUME NEW j \in Reservations
  PROVE  /\ j \in Nat \ {0} /\ Unknown \in Nat /\ Lists \in Nat
         /\ Lists > Limit /\ Unknown = Lists + 1
         /\ Plane(j) \in {Y, U, V, Aux}
         /\ InIram(j) <=> j \in {Lists, Unknown}
         /\ Skipped(first, j) => ~InIram(j)
<1>1. NumSlots \in Nat \ {0}
  BY Constants
<1>2. j \in Nat \ {0} /\ Unknown \in Nat /\ Lists \in Nat /\ Unknown = Lists + 1
  BY <1>1 DEF Reservations, Unknown, Lists
<1>3. Lists > Limit
  BY <1>1 DEF Lists, Limit
<1>4. Plane(j) \in {Y, U, V, Aux}
  BY <1>2 DEF Plane, Y, U, V, Aux
<1>5. InIram(j) <=> j \in {Lists, Unknown}
  BY <1>1, <1>2 DEF InIram, Reservations
<1>6. Skipped(first, j) => ~InIram(j)
  BY <1>2 DEF Skipped, InIram
<1> QED
  BY <1>2, <1>3, <1>4, <1>5, <1>6

(* What is reserved is a natural number. *)
LEMMA ReservedNat ==
  ASSUME NEW p \in Picture, NEW j \in Reservations
  PROVE  Reserved(p, j) \in Nat
<1>1. total_mbs_nb(p) \div 2 \in Nat
  BY Sizes
<1>2. (64 * total_mbs_nb(p)) % Width \in Nat
  <2>1. 64 * total_mbs_nb(p) \in Nat
    BY Sizes
  <2> QED
    BY <2>1, Word
<1> QED
  BY <1>1, <1>2, Kinds, Sizes, Constants DEF Reserved, Y, U, V, Aux

(* Behind a free address of either memory there is room for a reservation  *)
(* before addresses wrap, if the picture's own sizes do not.               *)
LEMMA RoomToWrap ==
  ASSUME NEW p \in Picture, NEW j \in Reservations, Representable(p)
  PROVE  /\ ~InIram(j) /\ j # Data => DRAM_PHYS_END + 255 + Reserved(p, j) < Width
         /\ InIram(j) => IRAM_END_ADDR + 3 + Reserved(p, j) < Width
<1> DEFINE n == p.width * p.height
<1>1. n \in Nat /\ 256 * n + 256 < Width - DRAM_PHYS_END
  BY Sizes DEF Representable
<1> HIDE DEF n
<1>2. total_mbs_nb(p) \div 2 <= Width \div 512
  <2>1. total_mbs_nb(p) \in Nat /\ total_mbs_nb(p) <= n
    BY Sizes DEF n
  <2>2. 256 * total_mbs_nb(p) < Width
    BY <1>1, <2>1, Constants
  <2> QED
    BY <2>1, <2>2, Constants
<1>3. (64 * total_mbs_nb(p)) % Width \in Nat
      /\ (64 * total_mbs_nb(p)) % Width <= 64 * n
  <2>1. total_mbs_nb(p) \in Nat /\ total_mbs_nb(p) <= n
    BY Sizes DEF n
  <2>2. 64 * total_mbs_nb(p) \in Nat /\ 64 * total_mbs_nb(p) <= 64 * n
    BY <1>1, <2>1
  <2>3. (64 * total_mbs_nb(p)) % Width \in Nat
        /\ (64 * total_mbs_nb(p)) % Width <= 64 * total_mbs_nb(p)
    BY <2>2, Word
  <2> QED
    BY <1>1, <2>2, <2>3
<1>4. frame_luma_size(p) <= 256 * n /\ frame_chroma_size(p) <= 64 * n
      /\ frame_luma_size(p) \in Nat /\ frame_chroma_size(p) \in Nat
  BY Sizes DEF n
<1>5. CASE InIram(j)
  <2>1. j = Lists => Reserved(p, j) = 512
    BY Constants DEF Reserved, Unknown, Lists, Data, Limit
  <2>2. j = Unknown => Reserved(p, j) = total_mbs_nb(p) \div 2
    BY Constants DEF Reserved, Unknown, Lists, Data, Limit
  <2>3. Reserved(p, j) \in Nat
    BY ReservedNat
  <2> QED
    BY <1>2, <1>5, <2>1, <2>2, <2>3, Kinds, Constants
<1>6. CASE ~InIram(j) /\ j # Data
  <2>1. Reserved(p, j) <= 256 * n
    <3>1. CASE j = Limit
      BY <1>1, <3>1, Constants DEF Reserved, Limit, Data, Lists, Unknown
    <3>2. CASE j \notin {Data, Limit, Lists, Unknown}
      <4>1. Plane(j) = Y => Reserved(p, j) = frame_luma_size(p)
        BY <3>2 DEF Reserved, Y, U, V, Aux
      <4>2. Plane(j) \in {U, V} => Reserved(p, j) = frame_chroma_size(p)
        BY <3>2 DEF Reserved, Y, U, V, Aux
      <4>3. Plane(j) = Aux => Reserved(p, j) = (64 * total_mbs_nb(p)) % Width
        BY <3>2 DEF Reserved, Y, U, V, Aux
      <4>4. Plane(j) \in {Y, U, V, Aux}
        BY Kinds
      <4>5. 64 * n <= 256 * n /\ 64 * n \in Nat /\ 256 * n \in Nat
        BY <1>1
      <4> HIDE DEF n
      <4> QED
        BY <1>3, <1>4, <4>1, <4>2, <4>3, <4>4, <4>5
    <3> QED
      BY <1>6, <3>1, <3>2, Kinds
  <2>2. Reserved(p, j) \in Nat
    BY ReservedNat
  <2> QED
    BY <1>1, <1>6, <2>1, <2>2, Constants
<1> QED
  BY <1>5, <1>6

-----------------------------------------------------------------------------
(* The invariant, part by part. *)

(* The memory as it is mapped satisfies the invariant. *)
LEMMA InitIInv == Init => IInv
<1> SUFFICES ASSUME Init PROVE IInv
  OBVIOUS
<1>1. Unknown \in Nat \ {0}
  BY Constants DEF Unknown
<1>2. TypeOK
  <2>1. 1 \in 1 .. Unknown + 1
    BY <1>1
  <2>2. 0 \in 0 .. Width - 1
    BY Constants
  <2>3. [j \in Reservations |-> 0] \in [Reservations -> 0 .. Width - 1]
    BY <2>2
  <2>4. DRAM_PHYS_BASE \in 0 .. Width - 1 /\ IRAM_BASE_ADDR \in 0 .. Width - 1
    BY Constants
  <2> QED
    BY <2>1, <2>3, <2>4 DEF Init, TypeOK, Picture
<1>3. Sequenced
  BY DEF Init, Sequenced
<1>4. SetsDecodable /\ SetsWhole
  BY DEF Init, SetsDecodable, SetsWhole
<1>5. Made = {}
  BY <1>1 DEF Init, Made, Reservations
<1>6. LaidOut /\ AreasApart
  BY <1>5, Constants DEF Init, LaidOut, AreasApart
<1> QED
  BY <1>2, <1>3, <1>4, <1>6 DEF IInv

(* A set a parser accepts can be decoded. *)
LEMMA AcceptedDecodable ==
  ASSUME NEW u \in SpsUnits, AcceptSps(u)
  PROVE  u \in SpsType /\ Decodable(u)
BY UnitsAssumption DEF AcceptSps, Decodable

(* The steps keep the types. *)
LEMMA TypeStep ==
  ASSUME IInv, [Next]_vars
  PROVE  TypeOK'
<1> USE DEF IInv
<1>1. CASE ParseSPS
  BY <1>1, AcceptedDecodable DEF ParseSPS, TypeOK, Without
<1>2. CASE RejectSPS
  BY <1>2 DEF RejectSPS, TypeOK, Without, Ends
<1>3. CASE ParsePPS
  BY <1>3, UnitsAssumption DEF ParsePPS, TypeOK, Without
<1>4. CASE RejectPPS
  BY <1>4 DEF RejectPPS, TypeOK, Without, Ends
<1>5. CASE ParseSlice
  <2>1. PICK p \in pps :
          /\ active' = [sps |-> p.sps, pps |-> p.id]
          /\ pc' = IF decoded THEN "engine" ELSE "reserve"
          /\ first' = IF decoded THEN first ELSE Active'
    BY <1>5 DEF ParseSlice
  <2>2. UNCHANGED <<sps, pps, decoded, dram, iram, at>>
        /\ k' = IF decoded THEN k ELSE 1
    BY <1>5 DEF ParseSlice
  <2>3. p.sps \in Nat /\ p.id \in Nat
    BY DEF TypeOK, PpsType
  <2>4. Active' \in Picture
    <3>1. \E s \in sps : s.id = p.sps
      BY <1>5 DEF ParseSlice, SetsWhole, Ends
    <3>2. Active' = PictureOf(CHOOSE s \in sps : s.id = p.sps)
      BY <2>1, <2>2 DEF Active
    <3>3. \A s \in sps : PictureOf(s) \in Picture
      BY DEF TypeOK, SpsType, PictureOf, Picture
    <3> QED
      BY <3>1, <3>2, <3>3
  <2>5. 1 \in 1 .. Unknown + 1
    BY Constants DEF Unknown
  <2> QED
    BY <2>1, <2>2, <2>3, <2>4, <2>5 DEF TypeOK
<1>6. CASE RejectSlice \/ DataEnds \/ Stuck
  BY <1>6 DEF RejectSlice, DataEnds, Stuck, TypeOK, Ends
<1>7. CASE Reserve
  <2>1. k \in Reservations /\ k + 1 \in 1 .. Unknown + 1
    BY <1>7, Constants DEF Reserve, Sequenced, Reservations, Unknown
  <2>2. Alignment(k) \in {1, 4, 32, 256} /\ Reserved(first, k) \in Nat
    BY <2>1, Alignments, ReservedNat DEF TypeOK
  <2>3. dram \in Int /\ iram \in Int
    BY Constants DEF TypeOK
  <2>4. /\ Align(dram, Alignment(k)) \in 0 .. Width - 1
        /\ Align(iram, Alignment(k)) \in 0 .. Width - 1
        /\ Past(dram, k) \in 0 .. Width - 1
        /\ Past(iram, k) \in 0 .. Width - 1
    <3>1. /\ Align(dram, Alignment(k)) \in 0 .. Width - 1
          /\ Align(iram, Alignment(k)) \in 0 .. Width - 1
          /\ Align(dram, Alignment(k)) \in Int
          /\ Align(iram, Alignment(k)) \in Int
      BY <2>2, <2>3, AlignRange
    <3>2. /\ Align(dram, Alignment(k)) + Reserved(first, k) \in Int
          /\ Align(iram, Alignment(k)) + Reserved(first, k) \in Int
      BY <2>2, <3>1
    <3> QED
      BY <3>1, <3>2, Constants, ModRange DEF Past
  <2>5. NoAux \in 0 .. Width - 1
    BY Constants
  <2>6. /\ k' = k + 1
        /\ UNCHANGED <<sps, pps, active, decoded, first>>
        /\ pc' \in {"reserve", "assert", "engine"}
    BY <1>7 DEF Reserve
  <2>7. /\ at' \in [Reservations -> 0 .. Width - 1]
        /\ dram' \in 0 .. Width - 1 /\ iram' \in 0 .. Width - 1
    BY <1>7, <2>1, <2>4, <2>5 DEF Reserve, TypeOK
  <2> QED
    BY <2>1, <2>6, <2>7 DEF TypeOK, Ends
<1>8. CASE Decode
  BY <1>8 DEF Decode, Counted, TypeOK, Ends
<1>9. CASE UNCHANGED vars
  BY <1>9 DEF vars, TypeOK
<1> QED
  BY <1>1, <1>2, <1>3, <1>4, <1>5, <1>6, <1>7, <1>8, <1>9 DEF Next, Ended

(* Nothing is reserved twice or left out. *)
LEMMA SequencedStep ==
  ASSUME IInv, [Next]_vars
  PROVE  Sequenced'
<1> USE DEF IInv, Sequenced
<1>1. Unknown \in Nat \ {0}
  BY Constants DEF Unknown
<1>2. CASE ParseSPS \/ ParsePPS
  BY <1>2 DEF ParseSPS, ParsePPS
<1>3. CASE RejectSPS \/ RejectPPS
  BY <1>3 DEF RejectSPS, RejectPPS
<1>4. CASE ParseSlice
  BY <1>1, <1>4 DEF ParseSlice, Reservations
<1>5. CASE RejectSlice \/ DataEnds \/ Stuck
  BY <1>5 DEF RejectSlice, DataEnds, Stuck
<1>6. CASE Reserve
  <2>1. k \in Reservations /\ k \in Nat /\ k >= 1 /\ k <= Unknown
    BY <1>1, <1>6 DEF Reserve, Reservations
  <2>2. k' = k + 1 /\ decoded' = decoded /\ ~decoded
    BY <1>6 DEF Reserve
  <2>3. pc' = "engine" => k = Unknown
    BY <1>6 DEF Reserve
  <2>4. pc' = "reserve" => k # Unknown
    BY <1>6, Constants DEF Reserve, Skipped, InIram, Lists, Unknown
  <2>5. pc' \in {"reserve", "assert", "engine"}
    BY <1>6 DEF Reserve
  <2> QED
    BY <1>1, <2>1, <2>2, <2>3, <2>4, <2>5 DEF Reservations
<1>7. CASE Decode
  BY <1>7 DEF Decode, Counted
<1>8. CASE UNCHANGED vars
  BY <1>8 DEF vars
<1> QED
  BY <1>2, <1>3, <1>4, <1>5, <1>6, <1>7, <1>8 DEF Next, Ended

(* Replacing an entry of a table keeps what refers to it: an accepted set  *)
(* takes the place of the one of the same id, and a refused one ends the   *)
(* process.                                                                *)
LEMMA SetsStep ==
  ASSUME IInv, [Next]_vars
  PROVE  SetsDecodable' /\ SetsWhole'
<1> USE DEF IInv, SetsDecodable, SetsWhole
<1>1. CASE ParseSPS
  <2>1. PICK u \in SpsUnits : AcceptSps(u) /\ sps' = Without(sps, u.id) \union {u}
    BY <1>1 DEF ParseSPS
  <2>2. Decodable(u)
    BY <2>1, AcceptedDecodable
  <2>3. pc = "unit" /\ pc' = pc /\ pps' = pps /\ active' = active
    BY <1>1 DEF ParseSPS
  <2>4. \A s \in sps' : Decodable(s)
    BY <2>1, <2>2 DEF Without
  <2>5. ASSUME NEW p \in pps PROVE \E s \in sps' : s.id = p.sps /\ Decodable(s)
    <3>1. PICK s \in sps : s.id = p.sps /\ Decodable(s)
      BY <2>3 DEF Ends
    <3>2. CASE s.id = u.id
      BY <2>1, <2>2, <3>1, <3>2
    <3>3. CASE s.id # u.id
      BY <2>1, <3>1, <3>3 DEF Without
    <3> QED
      BY <3>2, <3>3
  <2> QED
    BY <2>3, <2>4, <2>5
<1>2. CASE RejectSPS
  BY <1>2 DEF RejectSPS, Without, Ends
<1>3. CASE ParsePPS
  <2>1. PICK u \in PpsUnits : AcceptPps(u) /\ pps' = Without(pps, u.id) \union {u}
    BY <1>3 DEF ParsePPS
  <2>2. \E s \in sps : s.id = u.sps
    BY <2>1 DEF AcceptPps
  <2>3. pc = "unit" /\ pc' = pc /\ sps' = sps
    BY <1>3 DEF ParsePPS
  <2>4. \A p \in pps' : p \in pps \/ p = u
    BY <2>1 DEF Without
  <2> QED
    BY <2>2, <2>3, <2>4 DEF Ends
<1>4. CASE RejectPPS
  BY <1>4 DEF RejectPPS, Ends
<1>5. CASE ParseSlice
  BY <1>5 DEF ParseSlice, Ends
<1>6. CASE RejectSlice \/ DataEnds \/ Stuck
  BY <1>6 DEF RejectSlice, DataEnds, Stuck, Ends
<1>7. CASE Reserve
  BY <1>7 DEF Reserve, Ends
<1>8. CASE Decode
  BY <1>8 DEF Decode, Ends
<1>9. CASE UNCHANGED vars
  BY <1>9 DEF vars
<1> QED
  BY <1>1, <1>2, <1>3, <1>4, <1>5, <1>6, <1>7, <1>8, <1>9 DEF Next, Ended

-----------------------------------------------------------------------------
(* The layout of the memory. *)

(* Nothing moves in a step that neither reserves nor starts over. *)
LEMMA LayoutStill ==
  ASSUME LaidOut, AreasApart, pc # "assert",
         UNCHANGED <<k, dram, iram, at, first>>
  PROVE  LaidOut' /\ AreasApart'
<1>1. Made' = Made
  BY DEF Made
<1>2. \A j : NextFree(j)' = NextFree(j)
  BY DEF NextFree
<1> QED
  BY <1>1, <1>2 DEF LaidOut, AreasApart

(* What one call of reserve_mem_phys or reserve_iram_phys does if it does  *)
(* not fail and the sizes do not wrap: the area begins at or behind the    *)
(* free address, and the free address moves to its end.                    *)
LEMMA OneReserved ==
  ASSUME IInv, Reserve, Representable(first), pc' # "assert", ~Skipped(first, k),
         NEW j, j = k
  PROVE  /\ at' = [at EXCEPT ![j] = at'[j]]
         /\ at'[j] \in Nat /\ at'[j] % Alignment(j) = 0
         /\ NextFree(j) <= at'[j]
         /\ at'[j] + Reserved(first, j) = NextFree(j)'
         /\ NextFree(j)' < IF InIram(j) THEN IRAM_END_ADDR ELSE DRAM_PHYS_END
         /\ IF InIram(j) THEN dram' = dram ELSE iram' = iram
<1> USE DEF IInv
<1>1. k \in Reservations /\ pc = "reserve"
  BY DEF Reserve, Sequenced
<1>2. at \in [Reservations -> 0 .. Width - 1] /\ first \in Picture
  BY DEF TypeOK
<1> DEFINE a == Alignment(k)
           n == Reserved(first, k)
<1>3. a \in {1, 4, 32, 256} /\ n \in Nat
  BY <1>1, <1>2, Alignments, ReservedNat
<1>4. /\ dram \in DRAM_PHYS_BASE .. DRAM_PHYS_END - 1
      /\ iram \in IRAM_BASE_ADDR .. IRAM_END_ADDR - 1
      /\ dram \in Nat /\ iram \in Nat
  BY <1>1, Constants DEF LaidOut
<1>5. CASE InIram(k)
  <2>1. a = 4
    BY <1>1, <1>5, Kinds, Constants DEF Alignment, Data, Limit, Lists, Unknown
  <2>2. iram + a - 1 < Width
    BY <1>4, <2>1, Constants
  <2>3. /\ Align(iram, a) \in Nat /\ Align(iram, a) >= iram
        /\ Align(iram, a) <= iram + a - 1 /\ Align(iram, a) % a = 0
    BY <1>3, <1>4, <2>2, AlignUp
  <2>4. IRAM_END_ADDR + 3 + n < Width
    BY <1>1, <1>2, <1>5, RoomToWrap
  <2>5. Align(iram, a) + n \in 0 .. Width - 1
    BY <1>3, <1>4, <2>1, <2>3, <2>4, Constants
  <2>6. Past(iram, k) = Align(iram, a) + n
    BY <2>5, Constants, ModSmall DEF Past
  <2>7. ~Skipped(first, k) /\ ~(~InIram(k))
    BY <1>5
  <2>8. /\ at' = [at EXCEPT ![k] = Align(iram, a)]
        /\ iram' = Past(iram, k) /\ iram' < IRAM_END_ADDR /\ dram' = dram
    <3>1. iram' = Past(iram, k) /\ ~(iram' >= IRAM_END_ADDR)
      BY <2>7 DEF Reserve
    <3>2. iram' \in Int
      BY <2>5, <2>6, <3>1, Constants
    <3> QED
      BY <2>7, <3>1, <3>2, Constants DEF Reserve
  <2>9. at'[k] = Align(iram, a)
    BY <1>1, <1>2, <2>8
  <2> QED
    BY <1>5, <2>3, <2>6, <2>8, <2>9 DEF NextFree
<1>6. CASE ~InIram(k)
  <2>1. dram + a - 1 < Width
    BY <1>3, <1>4, Constants
  <2>2. /\ Align(dram, a) \in Nat /\ Align(dram, a) >= dram
        /\ Align(dram, a) <= dram + a - 1 /\ Align(dram, a) % a = 0
    BY <1>3, <1>4, <2>1, AlignUp
  <2>3. Align(dram, a) + n \in 0 .. Width - 1
    <3>1. CASE k = Data
      <4>1. dram = DRAM_PHYS_BASE
        BY <1>1, <3>1 DEF Sequenced, Data
      <4>2. a = 1 /\ n = DATA_BUF_SIZE
        BY <3>1, Constants DEF Alignment, Reserved, Data, Limit, Lists, Unknown
      <4> QED
        BY <1>4, <2>2, <4>1, <4>2, Constants
    <3>2. CASE k # Data
      <4>1. DRAM_PHYS_END + 255 + n < Width
        BY <1>1, <1>2, <1>6, <3>2, RoomToWrap
      <4> QED
        BY <1>3, <1>4, <2>2, <4>1, Constants
    <3> QED
      BY <3>1, <3>2
  <2>4. Past(dram, k) = Align(dram, a) + n
    BY <2>3, Constants, ModSmall DEF Past
  <2>5. /\ at' = [at EXCEPT ![k] = Align(dram, a)]
        /\ dram' = Past(dram, k) /\ dram' < DRAM_PHYS_END /\ iram' = iram
    BY <1>6 DEF Reserve
  <2>6. at'[k] = Align(dram, a)
    BY <1>1, <1>2, <2>5
  <2> QED
    BY <1>6, <2>2, <2>4, <2>5, <2>6 DEF NextFree
<1> QED
  BY <1>5, <1>6

(* A new area lies behind all that were made before, hence apart from them.*)
LEMMA ReserveLayout ==
  ASSUME IInv, Reserve
  PROVE  LaidOut' /\ AreasApart'
<1> SUFFICES ASSUME Representable(first), pc' # "assert"
             PROVE  LaidOut' /\ AreasApart'
  <2>1. first' = first
    BY DEF Reserve
  <2> QED
    BY <2>1 DEF LaidOut, AreasApart
<1> USE DEF IInv
<1> DEFINE R(j) == Reserved(first, j)
<1>1. /\ k \in Reservations /\ pc = "reserve" /\ first' = first /\ k' = k + 1
      /\ at \in [Reservations -> 0 .. Width - 1] /\ first \in Picture
  BY DEF Reserve, Sequenced, TypeOK
<1>2. \A j \in Made : j \in Reservations /\ j # k /\ at[j] \in Nat /\ R(j) \in Nat
  <2>1. \A j \in Made : j \in Reservations /\ j # k
    BY <1>1, Kinds DEF Made
  <2> QED
    BY <1>1, <2>1, ReservedNat, Constants
<1>3. LaidOut /\ AreasApart /\ pc # "assert" /\ dram \in Nat /\ iram \in Nat
  BY <1>1, Constants DEF TypeOK
<1>4. CASE Skipped(first, k)
  <2>1. Made' = Made
    BY <1>1, <1>4, Kinds DEF Made
  <2>2. at' = [at EXCEPT ![k] = NoAux] /\ dram' = dram /\ iram' = iram
    BY <1>1, <1>4, Kinds DEF Reserve
  <2>3. \A j \in Made : at'[j] = at[j]
    BY <1>1, <1>2, <2>2
  <2>4. \A j : NextFree(j)' = NextFree(j)
    BY <2>2 DEF NextFree
  <2> HIDE DEF R
  <2> QED
    BY <1>1, <1>3, <2>1, <2>2, <2>3, <2>4 DEF LaidOut, AreasApart
<1>5. CASE ~Skipped(first, k)
  <2>1. /\ at' = [at EXCEPT ![k] = at'[k]]
        /\ at'[k] \in Nat /\ at'[k] % Alignment(k) = 0
        /\ (IF InIram(k) THEN iram ELSE dram) <= at'[k]
        /\ at'[k] + R(k) = (IF InIram(k) THEN iram' ELSE dram')
        /\ (IF InIram(k) THEN iram' ELSE dram')
              < (IF InIram(k) THEN IRAM_END_ADDR ELSE DRAM_PHYS_END)
        /\ IF InIram(k) THEN dram' = dram ELSE iram' = iram
    BY <1>5, OneReserved DEF NextFree
  <2>2. Made' = Made \union {k}
    BY <1>1, <1>5, Kinds DEF Made
  <2>3. \A i \in Made : at'[i] = at[i]
    BY <1>1, <1>2, <2>1
  <2>4. R(k) \in Nat
    BY <1>1, ReservedNat
  <2>5. \A i \in Made :
          /\ at[i] % Alignment(i) = 0
          /\ at[i] >= (IF InIram(i) THEN IRAM_BASE_ADDR ELSE DRAM_PHYS_BASE)
          /\ at[i] + R(i) <= (IF InIram(i) THEN iram ELSE dram)
    BY <1>3 DEF LaidOut, NextFree
  <2>6. dram \in DRAM_PHYS_BASE .. DRAM_PHYS_END - 1
        /\ iram \in IRAM_BASE_ADDR .. IRAM_END_ADDR - 1
    BY <1>3 DEF LaidOut
  <2> HIDE DEF R
  <2>7. /\ dram' \in DRAM_PHYS_BASE .. DRAM_PHYS_END - 1 /\ dram' >= dram
        /\ iram' \in IRAM_BASE_ADDR .. IRAM_END_ADDR - 1 /\ iram' >= iram
    <3>1. CASE InIram(k)
      BY <2>1, <2>4, <2>6, <3>1, Constants
    <3>2. CASE ~InIram(k)
      BY <2>1, <2>4, <2>6, <3>2, Constants
    <3> QED
      BY <3>1, <3>2
  <2>8. \A i \in Made :
          at[i] + R(i) <= (IF InIram(i) THEN iram' ELSE dram')
    BY <1>2, <1>3, <2>5, <2>7, Constants
  <2>9. at'[k] >= (IF InIram(k) THEN IRAM_BASE_ADDR ELSE DRAM_PHYS_BASE)
    BY <2>1, <2>6, Constants
  <2>10. LaidOut'
    <3>1. \A i \in Made' :
            /\ at'[i] % Alignment(i) = 0
            /\ at'[i] >= (IF InIram(i) THEN IRAM_BASE_ADDR ELSE DRAM_PHYS_BASE)
            /\ at'[i] + R(i) <= (IF InIram(i) THEN iram' ELSE dram')
      <4>1. at'[k] + R(k) <= (IF InIram(k) THEN iram' ELSE dram')
        BY <2>1, <2>4
      <4> QED
        BY <2>1, <2>2, <2>3, <2>5, <2>8, <2>9, <4>1
    <3> QED
      BY <1>1, <2>7, <3>1 DEF LaidOut, NextFree, R
  <2>11. Inside(k, at'[k], R(k))
    <3>1. CASE InIram(k)
      BY <2>1, <2>4, <2>9, <3>1, Constants DEF Inside
    <3>2. CASE ~InIram(k)
      BY <2>1, <2>4, <2>9, <3>2, Constants DEF Inside
    <3> QED
      BY <3>1, <3>2
  <2>12. ASSUME NEW i \in Made
         PROVE  Apart(at[i], R(i), at'[k], R(k)) /\ Apart(at'[k], R(k), at[i], R(i))
    <3>1. at[i] + R(i) <= at'[k] \/ at'[k] + R(k) <= at[i]
      <4>1. CASE InIram(i) /\ InIram(k)
        BY <1>2, <2>1, <2>5, <2>6, <4>1, Constants
      <4>2. CASE ~InIram(i) /\ ~InIram(k)
        BY <1>2, <2>1, <2>5, <2>6, <4>2, Constants
      <4>3. CASE ~InIram(i) /\ InIram(k)
        BY <1>2, <2>1, <2>5, <2>6, <2>9, <4>3, Constants
      <4>4. CASE InIram(i) /\ ~InIram(k)
        BY <1>2, <2>1, <2>4, <2>5, <2>6, <2>7, <4>4, Constants
      <4> QED
        BY <4>1, <4>2, <4>3, <4>4
    <3> QED
      BY <3>1 DEF Apart
  <2>13. AreasApart'
    <3>1. /\ \A i \in Made : Inside(i, at[i], R(i))
          /\ \A i, m \in Made : i # m => Apart(at[i], R(i), at[m], R(m))
      BY <1>3 DEF AreasApart, R
    <3>2. \A i \in Made' : Inside(i, at'[i], R(i))
      BY <2>2, <2>3, <2>11, <3>1
    <3>3. \A i, m \in Made' : i # m => Apart(at'[i], R(i), at'[m], R(m))
      BY <2>2, <2>3, <2>12, <3>1
    <3> QED
      BY <1>1, <3>2, <3>3 DEF AreasApart, R
  <2> QED
    BY <2>10, <2>13
<1> QED
  BY <1>4, <1>5

(* Every step keeps the layout; a first slice starts with nothing made.    *)
LEMMA LayoutStep ==
  ASSUME IInv, [Next]_vars
  PROVE  LaidOut' /\ AreasApart'
<1> USE DEF IInv
<1>1. CASE Reserve
  BY <1>1, ReserveLayout
<1>2. CASE ParseSlice /\ ~decoded
  <2>1. Made' = {}
    <3>1. k' = 1
      BY <1>2 DEF ParseSlice
    <3>2. \A j \in Reservations : ~(j < 1)
      BY Kinds
    <3> QED
      BY <3>1, <3>2 DEF Made
  <2>2. dram' = DRAM_PHYS_BASE /\ iram' = IRAM_BASE_ADDR
    BY <1>2 DEF ParseSlice, Sequenced
  <2> QED
    BY <2>1, <2>2, Constants DEF LaidOut, AreasApart
<1>3. CASE ParseSPS \/ RejectSPS \/ ParsePPS \/ RejectPPS \/ RejectSlice
             \/ DataEnds \/ Decode \/ Stuck
  <2>1. pc # "assert" /\ UNCHANGED <<k, dram, iram, at, first>>
    BY <1>3 DEF ParseSPS, RejectSPS, ParsePPS, RejectPPS, RejectSlice, DataEnds,
                Decode, Stuck
  <2> QED
    BY <2>1, LayoutStill
<1>4. CASE ParseSlice /\ decoded
  <2>1. pc # "assert" /\ UNCHANGED <<k, dram, iram, at, first>>
    BY <1>4 DEF ParseSlice
  <2> QED
    BY <2>1, LayoutStill
<1>5. CASE UNCHANGED vars
  <2>1. UNCHANGED <<k, dram, iram, at, first>> /\ pc' = pc
    BY <1>5 DEF vars
  <2>2. CASE pc = "assert"
    BY <2>1, <2>2 DEF LaidOut, AreasApart
  <2> QED
    BY <2>1, <2>2, LayoutStill
<1> QED
  BY <1>1, <1>2, <1>3, <1>4, <1>5 DEF Next, Ended

-----------------------------------------------------------------------------
(* IInv holds in every reachable state: the reservations keep their order, *)
(* the tables keep what refers to them, and the two pointers stay behind   *)
(* everything that was reserved.                                           *)
THEOREM MemoryInvariant == Spec => []IInv
<1>1. IInv /\ [Next]_vars => IInv'
  BY TypeStep, SequencedStep, SetsStep, LayoutStep DEF IInv
<1> QED
  BY InitIInv, <1>1, PTL DEF Spec

(* Whatever sets are sent, resent or refused between slices, the picture   *)
(* sets that are valid refer to sequence sets that are, and the active     *)
(* sets are among them.                                                    *)
THEOREM SetsStayWhole == Spec => []SetsWhole
<1>1. IInv => SetsWhole
  BY DEF IInv
<1> QED
  BY MemoryInvariant, <1>1, PTL

(* The areas of any number of slots, for any picture size that does not    *)
(* wrap, are disjoint and lie in the memory, if the assertions pass.       *)
THEOREM ReservationsApart == Spec => []AreasApart
<1>1. IInv => AreasApart
  BY DEF IInv
<1> QED
  BY MemoryInvariant, <1>1, PTL

(* Once everything is reserved, no step moves an area or the free          *)
(* addresses, and no slice starts over.                                    *)
THEOREM MemoryReservedOnce == Spec => ReservedOnce
<1>1. IInv /\ [Next]_vars
        => [k > Unknown => UNCHANGED <<k, dram, iram, at, first>>]_vars
  <2> SUFFICES ASSUME IInv, Next, k > Unknown
               PROVE  UNCHANGED <<k, dram, iram, at, first>>
    OBVIOUS
  <2>1. Unknown \in Nat \ {0} /\ k \in Nat
    BY Constants DEF Unknown, IInv, TypeOK
  <2>2. ~Reserve
    BY <2>1 DEF Reserve, IInv, Sequenced, Reservations
  <2>3. CASE ParseSlice
    BY <2>1, <2>3 DEF ParseSlice, IInv, Sequenced
  <2>4. CASE ParseSPS \/ RejectSPS \/ ParsePPS \/ RejectPPS \/ RejectSlice
               \/ DataEnds \/ Decode \/ Stuck
    BY <2>4 DEF ParseSPS, RejectSPS, ParsePPS, RejectPPS, RejectSlice, DataEnds,
                Decode, Stuck
  <2>5. CASE Ended
    BY <2>5 DEF Ended, vars
  <2> QED
    BY <2>2, <2>3, <2>4, <2>5 DEF Next
<1> QED
  BY MemoryInvariant, <1>1, PTL DEF Spec, ReservedOnce

-----------------------------------------------------------------------------
(* The pictures. *)

(* The sizes of a picture that is representable do not wrap. *)
LEMMA ExactSizes ==
  ASSUME NEW p \in Picture, Representable(p)
  PROVE  /\ frame_luma_size(p) = 256 * (p.width * p.height)
         /\ (64 * total_mbs_nb(p)) % Width = 64 * (p.width * p.height)
<1> DEFINE w == p.width
           h == p.height
           n == w * h
<1>1. w \in Nat /\ h \in Nat /\ n \in Nat /\ 256 * n < Width
  BY Sizes, Constants DEF Picture, Representable
<1>2. ((16 * w) % Width) * ((16 * h) % Width) = 256 * n
  <2>1. CASE w = 0
    <3>1. (16 * w) % Width = 0 /\ (16 * h) % Width \in Nat /\ 16 * h \in Nat
      <4>1. 16 * w = 0 /\ 0 \in 0 .. Width - 1 /\ 16 * h \in Nat
        BY <1>1, <2>1, Constants
      <4> QED
        BY <4>1, Constants, ModSmall, Word
    <3> QED
      BY <1>1, <2>1, <3>1
  <2>2. CASE h = 0
    <3>1. (16 * h) % Width = 0 /\ (16 * w) % Width \in Nat /\ 16 * w \in Nat
      <4>1. 16 * h = 0 /\ 0 \in 0 .. Width - 1 /\ 16 * w \in Nat
        BY <1>1, <2>2, Constants
      <4> QED
        BY <4>1, Constants, ModSmall, Word
    <3> QED
      BY <1>1, <2>2, <3>1
  <2>3. CASE w # 0 /\ h # 0
    <3>1. w * 1 <= w * h /\ 1 * h <= w * h
      BY <1>1, <2>3, ProductMonotonic
    <3>2. 16 * w \in 0 .. Width - 1 /\ 16 * h \in 0 .. Width - 1
      BY <1>1, <3>1, Constants
    <3>3. (16 * w) % Width = 16 * w /\ (16 * h) % Width = 16 * h
      BY <3>2, Constants, ModSmall
    <3> QED
      BY <1>1, <3>3
  <2> QED
    BY <1>1, <2>1, <2>2, <2>3
<1> HIDE DEF n
<1>3. 256 * n \in 0 .. Width - 1 /\ n \in 0 .. Width - 1 /\ 64 * n \in 0 .. Width - 1
  BY <1>1, Constants
<1>4. frame_luma_size(p) = 256 * n
  BY <1>2, <1>3, Constants, ModSmall DEF frame_luma_size
<1>5. total_mbs_nb(p) = n
  BY <1>3, Constants, ModSmall DEF total_mbs_nb, n
<1>6. (64 * n) % Width = 64 * n
  BY <1>3, Constants, ModSmall
<1> QED
  BY <1>4, <1>5, <1>6 DEF n

(* The area of a plane of a slot. *)
LEMMA PlaneArea ==
  ASSUME NEW s \in Slots, NEW plane \in {Y, U, V, Aux}
  PROVE  /\ Area(s, plane) \in Reservations
         /\ Area(s, plane) \notin {Data, Limit, Lists, Unknown}
         /\ ~InIram(Area(s, plane))
         /\ Plane(Area(s, plane)) = plane
         /\ Alignment(Area(s, plane)) = IF plane = Aux THEN 4 ELSE 256
<1> DEFINE j == Area(s, plane)
<1>1. s \in Nat /\ s <= NumSlots - 1 /\ NumSlots \in Nat \ {0} /\ plane \in 0 .. 3
  BY Constants DEF Slots, Y, U, V, Aux
<1>2. j = 3 + 4 * s + plane
  BY DEF Area
<1> HIDE DEF j
<1>3. j \in Reservations /\ j \notin {Data, Limit, Lists, Unknown} /\ ~InIram(j)
  BY <1>1, <1>2 DEF Reservations, Data, Limit, Lists, Unknown, InIram
<1>4. Plane(j) = plane
  BY <1>1, <1>2 DEF Plane
<1>5. Alignment(j) = IF plane = Aux THEN 4 ELSE 256
  BY <1>3, <1>4 DEF Alignment
<1> QED
  BY <1>3, <1>4, <1>5 DEF j

(* A picture with no more macroblocks than the first needs no more memory. *)
LEMMA FittingSizes ==
  ASSUME NEW p \in Picture, NEW q \in Picture, Representable(q),
         p.width * p.height <= q.width * q.height,
         NEW s \in Slots, NEW plane \in {Y, U, V, Aux}
  PROVE  Reserved(p, Area(s, plane)) <= Reserved(q, Area(s, plane))
<1> DEFINE j == Area(s, plane)
           n == p.width * p.height
           m == q.width * q.height
<1>1. j \notin {Data, Limit, Lists, Unknown} /\ Plane(j) = plane
  BY PlaneArea
<1>2. n \in Nat /\ m \in Nat /\ n <= m
  BY Sizes
<1>3. frame_luma_size(p) \in Nat /\ frame_luma_size(p) <= 256 * n
      /\ frame_luma_size(q) = 256 * m
  BY Sizes, ExactSizes
<1>4. /\ (64 * total_mbs_nb(p)) % Width \in Nat
      /\ (64 * total_mbs_nb(p)) % Width <= 64 * n
      /\ (64 * total_mbs_nb(q)) % Width = 64 * m
  <2>1. total_mbs_nb(p) \in Nat /\ total_mbs_nb(p) <= n
    BY Sizes
  <2> HIDE DEF n, m
  <2>2. 64 * total_mbs_nb(p) \in Nat /\ 64 * total_mbs_nb(p) <= 64 * n
    BY <1>2, <2>1
  <2>3. (64 * total_mbs_nb(p)) % Width \in Nat
        /\ (64 * total_mbs_nb(p)) % Width <= 64 * total_mbs_nb(p)
    BY <2>2, Word
  <2>4. (64 * total_mbs_nb(q)) % Width = 64 * m
    BY ExactSizes DEF m
  <2> QED
    BY <1>2, <2>2, <2>3, <2>4
<1> HIDE DEF n, m, j
<1>5. CASE plane = Y
  <2>1. Reserved(p, j) = frame_luma_size(p) /\ Reserved(q, j) = frame_luma_size(q)
    BY <1>1, <1>5 DEF Reserved, Y, U, V, Aux
  <2> QED
    BY <1>2, <1>3, <2>1 DEF j
<1>6. CASE plane \in {U, V}
  <2>1. /\ Reserved(p, j) = frame_luma_size(p) \div 4
        /\ Reserved(q, j) = frame_luma_size(q) \div 4
    BY <1>1, <1>6 DEF Reserved, frame_chroma_size, Y, U, V, Aux
  <2> QED
    BY <1>2, <1>3, <2>1 DEF j
<1>7. CASE plane = Aux
  <2>1. /\ Reserved(p, j) = (64 * total_mbs_nb(p)) % Width
        /\ Reserved(q, j) = (64 * total_mbs_nb(q)) % Width
    BY <1>1, <1>7 DEF Reserved, Y, U, V, Aux
  <2> QED
    BY <1>2, <1>4, <2>1 DEF j
<1> QED
  BY <1>5, <1>6, <1>7

(* A picture that fits what was reserved for the first one lies inside the *)
(* areas of its slot, which are aligned and apart from all others.         *)
THEOREM PicturesStay == Spec => []PictureStays
<1>1. IInv => PictureStays
  <2> SUFFICES ASSUME IInv, pc = "engine", Representable(first), Fits(Active),
                      NEW s \in Slots, NEW plane \in {Y, U, V, Aux},
                      ~Skipped(Active, Area(s, plane))
               PROVE  LET j == Area(s, plane)
                          n == Reserved(Active, j)
                      IN  /\ Inside(j, at[j], n)
                          /\ at[j] % (IF plane = Aux THEN 4 ELSE 256) = 0
                          /\ \A i \in Made : i # j => Apart(at[j], n, at[i], Reserved(first, i))
    BY DEF PictureStays
  <2> DEFINE j == Area(s, plane)
             n == Reserved(Active, j)
             R(i) == Reserved(first, i)
  <2>1. /\ j \in Reservations /\ ~InIram(j) /\ Plane(j) = plane
        /\ Alignment(j) = IF plane = Aux THEN 4 ELSE 256
    BY PlaneArea
  <2>2. Active \in Picture
    <3>1. \E e \in sps : e.id = active.sps
      BY DEF IInv, SetsWhole, Ends
    <3>2. \A e \in sps : PictureOf(e) \in Picture
      BY DEF IInv, TypeOK, SpsType, PictureOf, Picture
    <3> QED
      BY <3>1, <3>2 DEF Active
  <2>3. first \in Picture /\ at[j] \in Nat /\ \A i \in Made : at[i] \in Nat
    <3>1. at \in [Reservations -> 0 .. Width - 1] /\ first \in Picture
      BY DEF IInv, TypeOK
    <3>2. \A i \in Made : i \in Reservations
      BY DEF Made
    <3> QED
      BY <2>1, <3>1, <3>2, Constants
  <2>4. n \in Nat /\ R(j) \in Nat /\ n <= R(j)
    BY <2>1, <2>2, <2>3, ReservedNat, FittingSizes DEF Fits
  <2>5. j \in Made
    <3>1. ~Skipped(first, j)
      BY DEF Skipped, Fits
    <3>2. k > Unknown /\ k \in Nat /\ j \in Nat /\ j <= Unknown /\ Unknown \in Nat
      BY <2>1, Constants DEF IInv, Sequenced, TypeOK, Reservations, Unknown
    <3> QED
      BY <2>1, <3>1, <3>2 DEF Made
  <2>6. \A i \in Made : R(i) \in Nat
    BY <2>3, ReservedNat DEF Made
  <2>7. /\ at[j] % Alignment(j) = 0 /\ Inside(j, at[j], R(j))
        /\ \A i \in Made : i # j => Apart(at[j], R(j), at[i], R(i))
    BY <2>5 DEF IInv, LaidOut, AreasApart
  <2> HIDE DEF n, R, j
  <2>8. Inside(j, at[j], n)
    BY <2>1, <2>3, <2>4, <2>7, Constants DEF Inside
  <2>9. \A i \in Made : i # j => Apart(at[j], n, at[i], R(i))
    BY <2>3, <2>4, <2>6, <2>7 DEF Apart
  <2> QED
    BY <2>1, <2>7, <2>8, <2>9 DEF n, R, j
<1> QED
  BY MemoryInvariant, <1>1, PTL
=============================================================================
