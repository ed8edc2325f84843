----------------------------- MODULE Bitstream -----------------------------
(***************************************************************************)
(* The bit reader of bitstream.c, as operators: data is the sequence of    *)
(* bytes of the file and a reader is a record                              *)
(*                                                                         *)
(*   [off, shift, end, rbsp]                                               *)
(*                                                                         *)
(* of data_offset, bit_shift, bitstream_end and rbsp_mode.  What is read   *)
(* is a sequence of bits, most significant first.  A read that would reach *)
(* bitstream_end ends the program (check_range calls exit): its result has *)
(* out = TRUE and nothing else of it counts.                               *)
(***************************************************************************)
EXTENDS Integers, Sequences

CONSTANT Width   \* offsets and sizes are unsigned and wrap here: 2^32

ASSUME WidthAssumption == Width \in Nat \ {0}

Byte == 0 .. 255
Bit  == 0 .. 1

Reader == [off : 0 .. Width - 1, shift : 0 .. 7, end : 0 .. Width - 1,
           rbsp : BOOLEAN]

(* The file is mapped; what follows it on its last page is zero.           *)
ByteAt(data, o) == IF o < Len(data) THEN data[o + 1] ELSE 0

Weight == <<128, 64, 32, 16, 8, 4, 2, 1>>

Bits(byte) == [i \in 1 .. 8 |-> (byte \div Weight[i]) % 2]

(* n bits of the bytes byte[0], byte[1], ..., after the first `from' bits  *)
BitString(byte, from, n) ==
  [i \in 1 .. n |-> Bits(byte[(from + i - 1) \div 8])[1 + ((from + i - 1) % 8)]]

Number(bits) ==
  LET value[i \in 0 .. Len(bits)] ==
        IF i = 0 THEN 0 ELSE (2 * value[i - 1] + bits[i]) % Width
  IN  value[Len(bits)]

(* 1 in the middle of a byte, 0 at its start                               *)
InByte(shift) == IF shift = 0 THEN 0 ELSE 1

Zeros(n) == [i \in 1 .. n |-> 0]

bitstream_init(n) == [off |-> 0, shift |-> 0, end |-> n, rbsp |-> FALSE]

(* check_range                                                             *)
ReachesEnd(r, n) == (r.off + n) % Width >= r.end

(* emulation_escape: the byte at o is an emulation prevention byte, and    *)
(* the one after it is returned in its place.                              *)
Emulated(data, r, o) ==
  /\ r.rbsp /\ ByteAt(data, o) = 3
  /\ o >= 2 /\ o # r.end
  /\ ByteAt(data, o - 2) = 0 /\ ByteAt(data, o - 1) = 0
  /\ ByteAt(data, o + 1) \in 0 .. 3

(* Where the bytes 0 .. n from the offset `first' on are, escaped          *)
Places(data, r, first, n) ==
  LET place[k \in 0 .. n] ==
        LET o == IF k = 0 THEN first ELSE place[k - 1] + 1
        IN  IF Emulated(data, r, o) THEN o + 1 ELSE o
  IN  place

(* A mutant: only the first byte of a read moves data_offset.              *)
EscapeMoves(place, last, inc) == place[0]

(* Every byte that is escaped moves data_offset; of a look ahead only the  *)
(* first does.                                                             *)
MovesOffset(place, last, inc) == IF inc THEN place[last] - last ELSE place[0]

(* bitstream_read_bits: the bytes that hold the n bits, and the bits       *)
ReadBits(data, r, n, inc) ==
  LET last  == (n + r.shift - 1) \div 8
      place == Places(data, r, r.off, last)
  IN  [r    |-> [r EXCEPT !.off = MovesOffset(place, last, inc)],
       bits |-> BitString([k \in 0 .. last |-> ByteAt(data, place[k])], r.shift, n),
       out  |-> inc /\ ReachesEnd(r, last)]

(* A mutant: the shift is not brought back into the byte.                  *)
AdvanceFar(r, n) ==
  [r EXCEPT !.off = (@ + n \div 8) % Width, !.shift = r.shift + (n % 8)]

(* bitstream_reader_inc_offset_b                                           *)
Advance(r, n) ==
  [r EXCEPT !.off   = (@ + (r.shift + n) \div 8) % Width,
            !.shift = (r.shift + n) % 8]

(* bitstream_read_u; reading a whole byte at shift 0 by the path of its    *)
(* own comes to the same.                                                  *)
ReadU(data, r, n) ==
  LET read == ReadBits(data, r, n, TRUE)
  IN  [read EXCEPT !.r = Advance(read.r, n)]

(* Several reads in a row; ns are their widths.                            *)
ReadAll(data, r, ns) ==
  LET after[i \in 0 .. Len(ns)] ==
        IF i = 0 THEN [r |-> r, bits |-> <<>>, out |-> FALSE]
        ELSE LET s == after[i - 1]
                 t == ReadU(data, s.r, ns[i])
             IN  [r |-> t.r, bits |-> s.bits \o t.bits, out |-> s.out \/ t.out]
  IN  after[Len(ns)]

(* bitstream_read_rbsp_align: the bits up to the next byte boundary.  It   *)
(* is called with rbsp_mode off, so nothing is escaped.                    *)
ReadAlign(data, r) ==
  [r    |-> [r EXCEPT !.off   = (@ + InByte(r.shift)) % Width, !.shift = 0],
   bits |-> SubSeq(Bits(ByteAt(data, r.off)), 1 + r.shift, 8 * InByte(r.shift)),
   out  |-> r.shift > 0 /\ ReachesEnd(r, 0)]

-----------------------------------------------------------------------------
(***************************************************************************)
(* Exponential Golomb codes.                                               *)
(***************************************************************************)
LeadingZeros(bits) ==
  CHOOSE z \in 0 .. Len(bits) :
    /\ \A i \in 1 .. z : bits[i] = 0
    /\ z < Len(bits) => bits[z + 1] # 0

(* Whole bytes of zeros, and the byte that ends them: the k-th byte is     *)
(* looked for at Start(place, first, k) and found at place[k].             *)
Start(place, first, k) == IF k = 0 THEN first ELSE place[k - 1] + 1

LeadAt(data, place, k) == LeadingZeros(Bits(ByteAt(data, place[k])))

SkipEnds(data, r, place, k) ==
  \/ ReachesEnd([r EXCEPT !.off = Start(place, r.off, k)], 0)
  \/ LeadAt(data, place, k) < 8

SkipZeroBytes(data, r) ==
  LET place == Places(data, r, r.off, r.end)
      last  == CHOOSE k \in 0 .. r.end :
                 /\ SkipEnds(data, r, place, k)
                 /\ \A j \in 0 .. k - 1 : ~SkipEnds(data, r, place, j)
      lead  == LeadAt(data, place, last)
  IN  IF ReachesEnd([r EXCEPT !.off = Start(place, r.off, last)], 0)
      THEN [r |-> r, zeros |-> 0, out |-> TRUE]
      ELSE [r     |-> Advance([r EXCEPT !.off = place[last], !.shift = lead], 1),
            zeros |-> (8 * last + lead) % 256,
            out   |-> FALSE]

(* bitstream_skip_leading_zeros, the 1 that ends them included; the        *)
(* counters are eight bits wide.                                           *)
SkipLeadingZeros(data, r) ==
  LET read == ReadBits(data, r, 8 - r.shift, FALSE)
      lead == LeadingZeros(read.bits)
      rest == SkipZeroBytes(data, Advance(read.r, lead))
  IN  IF r.shift = 0 THEN SkipZeroBytes(data, r)
      ELSE IF lead < 8 - r.shift
      THEN [r |-> Advance(read.r, lead + 1), zeros |-> lead, out |-> FALSE]
      ELSE [rest EXCEPT !.zeros = (@ + lead) % 256]

(* bitstream_read_ue: the bits of the whole code; bad is the parse error.  *)
ReadUe(data, r) ==
  LET prefix == SkipLeadingZeros(data, r)
      suffix == IF prefix.zeros \in 1 .. 31
                THEN ReadU(data, prefix.r, prefix.zeros)
                ELSE [r |-> prefix.r, bits |-> <<>>, out |-> FALSE]
  IN  [r    |-> suffix.r,
       bits |-> Zeros(prefix.zeros) \o <<1>> \o suffix.bits,
       bad  |-> ~prefix.out /\ prefix.zeros > 31,
       out  |-> prefix.out \/ suffix.out]

(* A mutant: the offset of the codes of one length is one too large.       *)
CodeNumLate(bits) ==
  LET zeros == LeadingZeros(bits)
  IN  (2 ^ zeros + Number(SubSeq(bits, zeros + 2, Len(bits)))) % Width

(* exp_golomb_codenum                                                      *)
CodeNum(bits) ==
  LET zeros == LeadingZeros(bits)
  IN  (2 ^ zeros - 1 + Number(SubSeq(bits, zeros + 2, Len(bits)))) % Width

(* bitstream_read_se, of the code number read                              *)
Signed(ue) ==
  LET half == IF ue > 1 THEN (ue \div 2) + (ue % 2) ELSE ue
  IN  IF ue % 2 = 1 THEN half ELSE -half
=============================================================================
