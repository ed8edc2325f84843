--------------------------- MODULE PictureMemory ---------------------------
(***************************************************************************)
(* Parameter sets, and the physical memory that is reserved for them.      *)
(*                                                                         *)
(* parse_SPS and parse_PPS fill the tables decoder->sps and decoder->pps;  *)
(* a slice activates an entry of each; the first slice has the data        *)
(* buffer, the pictures of every slot and the two areas of the IRAM        *)
(* reserved, one after the other, for pictures of its own size; the engine *)
(* writes the pictures of every slice there.                               *)
(***************************************************************************)
EXTENDS Integers

CONSTANTS
  SpsUnits, PpsUnits,              \* bound: the units a stream may hold
  NumSps, NumPps,                  \* ARRAY_SIZE(sps) and (pps): 32 and 256
  NumSlots,                        \* 17
  Width,                           \* addresses and sizes are unsigned: 2^32
  DRAM_PHYS_BASE, DRAM_PHYS_END,
  IRAM_BASE_ADDR, IRAM_END_ADDR,
  DATA_BUF_SIZE,
  NoAux                            \* 0xF4DEAD00, where nothing is

(* What a sequence parameter set says, width and height in macroblocks;    *)
(* chroma_format_idc, bit_depth (the larger of luma's and chroma's, minus  *)
(* 8) and scaling are in the unit for the profiles of HighProfiles only;   *)
(* long_cycle: the offsets of pic_order_cnt_type 1 are more than can be    *)
(* allocated; trailing: something follows where the unit should end.       *)
SpsType ==
  [id : Nat, reserved : 0 .. 3, profile_idc : 0 .. 255,
   chroma_format_idc : Nat, bit_depth : Nat, scaling : BOOLEAN,
   long_cycle : BOOLEAN,
   max_num_ref_frames : Nat, frame_mbs_only_flag : BOOLEAN,
   width : Nat \ {0}, height : Nat \ {0}, trailing : BOOLEAN]

(* What a picture parameter set says; map_type is -1 with one slice group; *)
(* transform_8x8 and second_offset are in its optional part.               *)
PpsType ==
  [id : Nat, sps : Nat, cabac : BOOLEAN, map_type : -1 .. 6,
   transform_8x8 : BOOLEAN, second_offset : Int, trailing : BOOLEAN]

ASSUME UnitsAssumption ==
  /\ SpsUnits \subseteq SpsType /\ PpsUnits \subseteq PpsType
  /\ NumSps \in Nat /\ NumPps \in Nat
  /\ NumSlots \in Nat \ {0}

ASSUME MemoryAssumption ==
  /\ {Width, DRAM_PHYS_BASE, DRAM_PHYS_END, IRAM_BASE_ADDR, IRAM_END_ADDR,
      DATA_BUF_SIZE, NoAux} \subseteq Nat
  /\ DRAM_PHYS_BASE % 256 = 0 /\ IRAM_BASE_ADDR % 4 = 0
  /\ DRAM_PHYS_BASE + DATA_BUF_SIZE < DRAM_PHYS_END
  /\ DRAM_PHYS_END <= IRAM_BASE_ADDR
  /\ IRAM_BASE_ADDR + 512 < IRAM_END_ADDR
  /\ IRAM_END_ADDR + 516 + Width \div 512 < Width
  /\ NoAux < Width

VARIABLES
  pc,       \* what the main thread does, or why it ended
  sps,      \* the entries of decoder->sps that are valid
  pps,      \* the entries of decoder->pps that are valid
  active,   \* the ids of active_sps and active_pps
  decoded,  \* frames_decoded # 0
  k,        \* the next reservation of tegra_VDE_decoder_init_mem
  dram,     \* dram_next_reserve_pofft
  iram,     \* iram_next_reserve_pofft
  at,       \* where each reservation begins
  first     \* history: the picture the memory was reserved for

vars == <<pc, sps, pps, active, decoded, k, dram, iram, at, first>>

Ends == {"data_end", "malformed", "assert", "heap", "stuck"}

Slots == 0 .. NumSlots - 1

Picture == [width : Nat, height : Nat, baseline : BOOLEAN]

-----------------------------------------------------------------------------
(***************************************************************************)
(* The reservations, in the order of tegra_VDE_decoder_init_mem: the data, *)
(* the limit of the data, four areas for each slot, the lists and the area *)
(* of unknown use in the IRAM.                                             *)
(***************************************************************************)
Data    == 1
Limit   == 2
Lists   == 3 + 4 * NumSlots
Unknown == 4 + 4 * NumSlots

Y   == 0
U   == 1
V   == 2
Aux == 3

Area(slot, plane) == 3 + 4 * slot + plane
Plane(j)          == (j - 3) % 4

Reservations == 1 .. Unknown

TypeOK ==
  /\ pc \in {"unit", "reserve", "engine"} \union Ends
  /\ sps \subseteq SpsType /\ pps \subseteq PpsType
  /\ active \in [sps : Nat, pps : Nat]
  /\ decoded \in BOOLEAN
  /\ k \in 1 .. Unknown + 1
  /\ dram \in 0 .. Width - 1 /\ iram \in 0 .. Width - 1
  /\ at \in [Reservations -> 0 .. Width - 1]
  /\ first \in Picture

total_mbs_nb(p) == (p.width * p.height) % Width

frame_luma_size(p) ==
  (((16 * p.width) % Width) * ((16 * p.height) % Width)) % Width

frame_chroma_size(p) == frame_luma_size(p) \div 4

(* How much is reserved                                                    *)
Reserved(p, j) ==
  CASE j = Data    -> DATA_BUF_SIZE
    [] j = Limit   -> 0
    [] j = Lists   -> 512
    [] j = Unknown -> total_mbs_nb(p) \div 2
    [] OTHER -> CASE Plane(j) = Y        -> frame_luma_size(p)
                  [] Plane(j) \in {U, V} -> frame_chroma_size(p)
                  [] Plane(j) = Aux      -> (64 * total_mbs_nb(p)) % Width

Alignment(j) ==
  CASE j = Data               -> 1
    [] j = Limit              -> 32
    [] j \in {Lists, Unknown} -> 4
    [] OTHER                  -> IF Plane(j) = Aux THEN 4 ELSE 256

Skipped(p, j) == j > Limit /\ j < Lists /\ Plane(j) = Aux /\ p.baseline

InIram(j) == j >= Lists

Init ==
  /\ pc = "unit"
  /\ sps = {} /\ pps = {} /\ active = [sps |-> 0, pps |-> 0]
  /\ decoded = FALSE
  /\ k = 1
  /\ dram = DRAM_PHYS_BASE /\ iram = IRAM_BASE_ADDR
  /\ at = [j \in Reservations |-> 0]
  /\ first = [width |-> 0, height |-> 0, baseline |-> FALSE]

-----------------------------------------------------------------------------
(***************************************************************************)
(* The parameter sets.                                                     *)
(***************************************************************************)
HighProfiles == {100, 110, 122, 244, 44, 83, 86, 118, 128, 138, 139, 134}

(* decoder_reset_SPS, decoder_reset_PPS: the entry is no longer valid.     *)
Without(table, id) == {s \in table : s.id # id}

(* The set is read to its end and nothing in it is refused.  A scaling     *)
(* matrix never ends: the condition of its loop is always true.            *)
AcceptSps(u) ==
  /\ u.reserved = 0
  /\ u.id < NumSps
  /\ u.profile_idc \in HighProfiles =>
       ~u.scaling /\ u.chroma_format_idc = 1 /\ u.bit_depth = 0
  /\ ~u.long_cycle
  /\ u.max_num_ref_frames <= NumSlots
  /\ u.frame_mbs_only_flag
  /\ ~u.trailing

ParseSPS ==
  /\ pc = "unit"
  /\ \E u \in SpsUnits :
       /\ AcceptSps(u)
       /\ sps' = Without(sps, u.id) \union {u}
  /\ UNCHANGED <<pc, pps, active, decoded, k, dram, iram, at, first>>

(* A matrix or a cycle that does not end runs out of data, or of memory.   *)
Runaway(u) == u.long_cycle \/ (u.scaling /\ u.profile_idc \in HighProfiles)

RejectSPS ==
  /\ pc = "unit"
  /\ \E u \in SpsUnits :
       /\ ~AcceptSps(u)
       /\ IF u.reserved = 0 /\ u.id < NumSps
          THEN /\ sps' = Without(sps, u.id)
               /\ pc' \in IF Runaway(u)
                          THEN {"malformed", "data_end", "assert", "heap"}
                          ELSE {"malformed"}
          ELSE pc' = "malformed" /\ UNCHANGED sps
  /\ UNCHANGED <<pps, active, decoded, k, dram, iram, at, first>>

(* A mutant: whether the sequence parameter set is valid is not asked.     *)
AcceptPpsAlone(u) ==
  /\ u.id < NumPps /\ u.sps < NumSps
  /\ ~u.cabac /\ ~u.transform_8x8 /\ u.second_offset = 0 /\ ~u.trailing

AcceptPps(u) ==
  /\ u.id < NumPps
  /\ u.sps < NumSps
  /\ \E s \in sps : s.id = u.sps
  /\ ~u.cabac
  /\ ~u.transform_8x8
  /\ u.second_offset = 0
  /\ ~u.trailing

ParsePPS ==
  /\ pc = "unit"
  /\ \E u \in PpsUnits :
       /\ AcceptPps(u)
       /\ pps' = Without(pps, u.id) \union {u}
  /\ UNCHANGED <<pc, sps, active, decoded, k, dram, iram, at, first>>

(* For the map types 0, 2 and 6 arrays of words are allocated with a byte  *)
(* for each, and filled: the heap may not survive that, whatever follows,  *)
(* and the allocation may fail.                                            *)
RejectPPS ==
  /\ pc = "unit"
  /\ \E u \in PpsUnits :
       /\ \/ ~AcceptPps(u) /\ pc' = "malformed"
          \/ /\ u.id < NumPps /\ ~u.cabac /\ u.map_type \in {0, 2, 6}
             /\ \E s \in sps : s.id = u.sps
             /\ pc' \in {"heap", "assert"}
       /\ pps' = Without(pps, u.id)
  /\ UNCHANGED <<sps, active, decoded, k, dram, iram, at, first>>

(* The data ends inside a unit or after the last one.                      *)
DataEnds ==
  /\ pc = "unit"
  /\ pc' = "data_end"
  /\ UNCHANGED <<sps, pps, active, decoded, k, dram, iram, at, first>>

-----------------------------------------------------------------------------
(***************************************************************************)
(* A slice.                                                                *)
(***************************************************************************)
PictureOf(s) ==
  [width |-> s.width, height |-> s.height, baseline |-> s.profile_idc = 66]

(* active_sps points at the table: what counts is what is there now.       *)
Active == PictureOf(CHOOSE s \in sps : s.id = active.sps)

(* Memory is reserved before the first frame is decoded.                   *)
ParseSlice ==
  /\ pc = "unit"
  /\ UNCHANGED <<sps, pps, decoded, dram, iram, at>>
  /\ k' = IF decoded THEN k ELSE 1
  /\ \E p \in pps :
       /\ active' = [sps |-> p.sps, pps |-> p.id]
       /\ pc' = IF decoded THEN "engine" ELSE "reserve"
       /\ first' = IF decoded THEN first ELSE Active'

(* The picture parameter set is not valid, or the header is malformed.     *)
RejectSlice ==
  /\ pc = "unit"
  /\ pc' = "malformed"
  /\ UNCHANGED <<sps, pps, active, decoded, k, dram, iram, at, first>>

(* A mutant: the planes are only aligned to words.                         *)
AlignToWord(x, a) ==
  LET up == (x + 3) % Width IN up - (up % 4)

Align(x, a) ==
  LET up == (x + a - 1) % Width IN up - (up % a)

(* A mutant: what alignment skips is not counted.                          *)
PastUnaligned(next, j) == (next + Reserved(first, j)) % Width

(* A mutant: the sum is not reduced to the width of an address.            *)
PastWide(next, j) == Align(next, Alignment(j)) + Reserved(first, j)

(* The next free address after reservation j, made at next                 *)
Past(next, j) == (Align(next, Alignment(j)) + Reserved(first, j)) % Width

(* reserve_mem_phys or reserve_iram_phys, called for area k                *)
Reserve ==
  /\ pc = "reserve"
  /\ k' = k + 1
  /\ \/ /\ Skipped(first, k)
        /\ at' = [at EXCEPT ![k] = NoAux]
        /\ UNCHANGED <<pc, dram, iram>>
     \/ /\ ~Skipped(first, k) /\ ~InIram(k)
        /\ at' = [at EXCEPT ![k] = Align(dram, Alignment(k))]
        /\ dram' = Past(dram, k)
        /\ pc' = IF dram' < DRAM_PHYS_END THEN pc ELSE "assert"
        /\ UNCHANGED iram
     \/ /\ InIram(k)
        /\ at' = [at EXCEPT ![k] = Align(iram, Alignment(k))]
        /\ iram' = Past(iram, k)
        /\ pc' = IF iram' >= IRAM_END_ADDR THEN "assert"
                 ELSE IF k = Unknown THEN "engine" ELSE pc
        /\ UNCHANGED dram
  /\ UNCHANGED <<sps, pps, active, decoded, first>>

(* p2v has a virtual address for it.                                       *)
Mapped(a) == \/ a \in DRAM_PHYS_BASE .. DRAM_PHYS_END - 1
             \/ a \in IRAM_BASE_ADDR .. IRAM_END_ADDR - 1

(* A mutant: only reference frames are counted.                            *)
Uncounted == decoded' \in BOOLEAN

Counted == decoded' = TRUE

(* The engine has decoded the picture in some slot, and save_decoded_frame *)
(* writes its planes to the output file.                                   *)
Decode ==
  /\ pc = "engine"
  /\ Counted
  /\ \E s \in Slots :
       pc' = IF \A plane \in {Y, U, V} : Mapped(at[Area(s, plane)])
             THEN "unit" ELSE "assert"
  /\ UNCHANGED <<sps, pps, active, k, dram, iram, at, first>>

(* tegra_VDE_stuck                                                         *)
Stuck ==
  /\ pc = "engine"
  /\ pc' = "stuck"
  /\ UNCHANGED <<sps, pps, active, decoded, k, dram, iram, at, first>>

Ended == pc \in Ends /\ UNCHANGED vars

Next ==
  \/ ParseSPS \/ RejectSPS
  \/ ParsePPS \/ RejectPPS
  \/ ParseSlice \/ RejectSlice
  \/ DataEnds
  \/ Reserve
  \/ Decode \/ Stuck
  \/ Ended

Spec == Init /\ [][Next]_vars

-----------------------------------------------------------------------------
(***************************************************************************)
(* Properties.                                                             *)
(***************************************************************************)
(* What the engine and the rest of the program can cope with.              *)
Decodable(s) ==
  /\ s.profile_idc \in HighProfiles => s.chroma_format_idc = 1 /\ s.bit_depth = 0
  /\ s.frame_mbs_only_flag
  /\ s.max_num_ref_frames <= NumSlots

(* A picture parameter set that is valid refers to a sequence parameter    *)
(* set that is, and that can be decoded, although the latter may have been *)
(* sent again since: a slice asks only for the first (slice_header.c:74),  *)
(* and the table is filled in place (SPS.c:130, 353).                      *)
SetsWhole ==
  pc \notin Ends =>
    /\ \A p \in pps : \E s \in sps : s.id = p.sps /\ Decodable(s)
    /\ pc \in {"reserve", "engine"} =>
         \E p \in pps : p.id = active.pps /\ p.sps = active.sps

(* The sizes of the picture, and the addresses behind it, do not wrap.     *)
Representable(p) ==
  256 * (p.width * p.height) + 256 < Width - DRAM_PHYS_END

(* Nothing is between a and a + n that is also between b and b + m.        *)
Apart(a, n, b, m) == n = 0 \/ m = 0 \/ a + n <= b \/ b + m <= a

Inside(j, a, n) ==
  IF InIram(j) THEN IRAM_BASE_ADDR <= a /\ a + n <= IRAM_END_ADDR
  ELSE DRAM_PHYS_BASE <= a /\ a + n <= DRAM_PHYS_END

Made == {j \in Reservations : j < k /\ ~Skipped(first, j)}

(* The assertions on the end of the memory are all that reserve_mem_phys   *)
(* and reserve_iram_phys check (decoder.c:318, 331), and they are enough:  *)
(* for every picture size that does not wrap the areas lie in the memory   *)
(* and none overlaps another one.                                          *)
AreasApart ==
  Representable(first) /\ pc # "assert" =>
    /\ \A j \in Made : Inside(j, at[j], Reserved(first, j))
    /\ \A i, j \in Made :
         i # j => Apart(at[i], Reserved(first, i), at[j], Reserved(first, j))

(* The first picture had at least as many macroblocks, and auxiliary data  *)
(* if this one needs it.                                                   *)
Fits(p) ==
  /\ p.width * p.height <= first.width * first.height
  /\ first.baseline => p.baseline

(* Whichever slot the engine decodes a picture into, and whichever set it  *)
(* follows, it writes over no other picture and no other buffer, and the   *)
(* registers, which drop the low bits of an address (decoder.c:536-539),   *)
(* name the right one; provided that the picture fits what was reserved    *)
(* for the first slice, which nothing in the code makes sure of            *)
(* (decoder.c:697).                                                        *)
PictureStays ==
  pc = "engine" /\ Representable(first) /\ Fits(Active) =>
    \A s \in Slots, plane \in {Y, U, V, Aux} :
      LET j == Area(s, plane)
          n == Reserved(Active, j)
      IN  ~Skipped(Active, j) =>
            /\ Inside(j, at[j], n)
            /\ at[j] % (IF plane = Aux THEN 4 ELSE 256) = 0
            /\ \A i \in Made : i # j => Apart(at[j], n, at[i], Reserved(first, i))

(* The memory is reserved once: when all areas are there, their addresses  *)
(* never change again, and no slice has more reserved (decoder.c:697, 820).*)
ReservedOnce ==
  [][k > Unknown => UNCHANGED <<k, dram, iram, at, first>>]_vars

-----------------------------------------------------------------------------
(***************************************************************************)
(* The inductive invariant of the proofs.                                  *)
(***************************************************************************)
(* Nothing is reserved before the first slice, everything after it.        *)
Sequenced ==
  /\ pc = "unit" /\ ~decoded => k = 1
  /\ (pc = "unit" /\ ~decoded) \/ (pc = "reserve" /\ k = 1) =>
       dram = DRAM_PHYS_BASE /\ iram = IRAM_BASE_ADDR
  /\ pc = "reserve" => k \in Reservations /\ ~decoded
  /\ pc = "engine" \/ (pc = "unit" /\ decoded) => k > Unknown

SetsDecodable == \A s \in sps : Decodable(s)

NextFree(j) == IF InIram(j) THEN iram ELSE dram

(* What was made lies behind where the memory begins and before what is    *)
(* still free.                                                             *)
LaidOut ==
  Representable(first) /\ pc # "assert" =>
    /\ dram \in DRAM_PHYS_BASE .. DRAM_PHYS_END - 1
    /\ iram \in IRAM_BASE_ADDR .. IRAM_END_ADDR - 1
    /\ \A j \in Made :
         /\ at[j] % Alignment(j) = 0
         /\ at[j] >= IF InIram(j) THEN IRAM_BASE_ADDR ELSE DRAM_PHYS_BASE
         /\ at[j] + Reserved(first, j) <= NextFree(j)

(* The inductive invariant: the order of the reservations (decoder.c:697), *)
(* what the tables hold, and the two free pointers, behind everything that *)
(* was reserved before (decoder.c:310-334).                                *)
IInv ==
  /\ TypeOK
  /\ Sequenced
  /\ SetsDecodable
  /\ SetsWhole
  /\ LaidOut
  /\ AreasApart
=============================================================================
