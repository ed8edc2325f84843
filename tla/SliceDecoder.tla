---------------------------- MODULE SliceDecoder ----------------------------
(***************************************************************************)
(* One slice through the decoder: parse_slice_header() fills slot 0 of the *)
(* decoded picture buffer, the DPB_routines.c functions build and modify   *)
(* the reference lists, tegra_VDE_decode_frame() hands the buffers to the  *)
(* engine, and the buffer is purged and slid.  The program is one thread;  *)
(* pc says which loop of it runs, and a loop iteration that reads or       *)
(* writes the buffer is one step.                                          *)
(*                                                                         *)
(* Buf are the frame_data structures malloc'ed by decoder_init; they never *)
(* change, only the slot that points at each one does.  The one-bit flags  *)
(* of frame_data are sets of buffers: filled is the complement of `empty', *)
(* marked is `marked_for_removal' and wrapped is `frame_num_wrap'.         *)
(*                                                                         *)
(* An assert() that fails, an abort() or a write outside an array ends the *)
(* process: pc then holds the reason.                                      *)
(***************************************************************************)
EXTENDS Integers, Sequences, FiniteSets, FrameArray

CONSTANTS
  Buf,                \* the frame_data structures
  NumSlots,           \* ARRAY_SIZE(DPB_frames_array.frames): 1 + 16 in decoder.h
  MaxFrameNum,        \* 1 << (log2_max_frame_num_minus4 + 4)
  MaxPicOrderCntLsb,  \* 1 << (log2_max_pic_order_cnt_lsb_minus4 + 4)
  MaxPoc,             \* bound: |pic_order_cnt| of the streams considered
  Sps,                \* the sequence parameter sets a slice may activate
  SliceTypes,         \* the slice types of the stream, out of I, P and B
  MaxActive,          \* bound: num_ref_idx_lX_active of the streams considered
  Lsbs,               \* the pic_order_cnt_lsb values of the stream
  Conforming,         \* TRUE: only frame_num sequences H.264 allows
  Garbage             \* buffers malloc may return with non-zero flags

Slots == 0 .. NumSlots - 1

SpsType == [max_num_ref_frames : 0 .. NumSlots,  \* SPS.c lets 17 through
            pic_order_cnt_type : 0 .. 2,
            gaps : BOOLEAN]

ASSUME SlotsAssumption ==
  /\ NumSlots \in Nat \ {0}
  /\ IsFiniteSet(Buf)
  /\ Cardinality(Buf) = NumSlots
  /\ Garbage \subseteq Buf
ASSUME StreamAssumption ==
  /\ MaxFrameNum \in Nat \ {0}
  /\ MaxPicOrderCntLsb \in Nat \ {0} /\ MaxPicOrderCntLsb % 2 = 0
  /\ MaxPoc \in Nat
  /\ Lsbs \subseteq 0 .. MaxPicOrderCntLsb - 1
  /\ Sps # {} /\ Sps \subseteq SpsType
  /\ SliceTypes \subseteq {"I", "P", "B"}
  /\ MaxActive \in Nat \ {0}
  /\ Conforming \in BOOLEAN

VARIABLES
  pc,        \* the loop the program is in, or why it ended
  sh,        \* the slice header and the nal and sps fields that steer it
  dpb,       \* DPB_frames_array.frames: slot -> buffer
  size,      \* DPB_frames_array.size: references held, in slots 1 .. size
  filled,    \* buffers with empty = 0
  marked,    \* buffers with marked_for_removal = 1
  wrapped,   \* buffers with frame_num_wrap = 1
  num,       \* frame_num of each buffer
  poc,       \* pic_order_cnt of each buffer
  lists,     \* ref_frames_P_list0 / B_list0 and B_list1
  l1,        \* the list at work: 0 or 1
  start,     \* start_stop_pic_order_cnt
  refIdxL,   \* position the next ref_pic_list_modification command fills
  predicted, \* predicted_picture
  encPred,   \* picNumLXPred as the encoder computes it (H.264 8.2.4.3.1)
  overlong,  \* the lists of the slice sent more commands than they have entries
  prevNum,   \* prev_frame_num
  prevMsb,   \* prevPicOrderCntMsb
  prevLsb,   \* prevPicOrderCntLsb
  decoded    \* frames_decoded > 0

dpbVars  == <<dpb, size, filled, marked, wrapped>>
picVars  == <<num, poc>>
listVars == <<lists, l1, start, refIdxL, predicted, encPred, overlong>>
prevVars == <<prevNum, prevMsb, prevLsb>>
vars == <<pc, sh, dpbVars, picVars, listVars, prevVars, decoded>>

Loops == {"nal", "form_P", "first_pass", "second_pass", "modify", "marking",
          "setup", "run", "purge"}
Ends  == {"unsupported", "frame_num_gap", "list_short", "list_overrun",
          "remap", "null_frame", "list_array", "mmco", "clear_frame",
          "frameid", "iram", "stuck", "poc_type", "dpb_overrun"}

IntMax == MaxPoc + 1

Header == [idr : BOOLEAN, ref : BOOLEAN, type : SliceTypes, sps : Sps,
           active0 : 1 .. MaxActive, active1 : 1 .. MaxActive,
           frame_num : 0 .. MaxFrameNum - 1]

(* The slots slide_frames and purge_unused_ref_frames treat as references. *)
RefSlots == 1 .. size
Refs == {dpb[i] : i \in RefSlots}

(* num_ref_idx_lX_active_minus1 + 1 *)
ActiveRefs(l) == IF l = 0 THEN sh.active0 ELSE sh.active1

Truncate(s, n) == [i \in 1 .. n |-> s[i]]

(* A mutant of PicOrderCntMsb: half a cycle back is not taken as forward.  *)
PicOrderCntMsbStrict(lsb, pLsb, pMsb) ==
  CASE lsb < pLsb /\ pLsb - lsb > MaxPicOrderCntLsb \div 2
         -> pMsb + MaxPicOrderCntLsb
    [] lsb > pLsb /\ lsb - pLsb > MaxPicOrderCntLsb \div 2
         -> pMsb - MaxPicOrderCntLsb
    [] OTHER -> pMsb

(***************************************************************************)
(* Picture order count, type 0: the most significant part is the one that  *)
(* puts the picture nearest to the previous one.                           *)
(***************************************************************************)
PicOrderCntMsb(lsb, pLsb, pMsb) ==
  CASE lsb < pLsb /\ pLsb - lsb >= MaxPicOrderCntLsb \div 2
         -> pMsb + MaxPicOrderCntLsb
    [] lsb > pLsb /\ lsb - pLsb > MaxPicOrderCntLsb \div 2
         -> pMsb - MaxPicOrderCntLsb
    [] OTHER -> pMsb

-----------------------------------------------------------------------------
(***************************************************************************)
(* The streams considered: an IDR picture is an intra picture others refer *)
(* to and numbered 0.  A conforming stream starts with one, counts it 0,   *)
(* activates a parameter set only there, gives reference pictures          *)
(* consecutive numbers and never reuses the number of a picture still held.*)
(***************************************************************************)
NextFrameNum == IF sh.ref THEN (prevNum + 1) % MaxFrameNum ELSE prevNum

InStream(h, lsb) ==
  /\ h.idr => h.ref /\ h.type = "I" /\ h.frame_num = 0
  /\ h.type = "I" => h.active0 = 1
  /\ h.type # "B" => h.active1 = 1
  /\ h.sps.pic_order_cnt_type # 0 => lsb = 0
  /\ Conforming /\ h.idr => lsb = 0
  /\ Conforming /\ ~h.idr =>
       /\ decoded
       /\ h.sps = sh.sps
       /\ h.frame_num = NextFrameNum
       /\ \A b \in Refs : num[b] # h.frame_num

(* The test before abort(): more than one away from the number expected.   *)
FrameNumGap(h) ==
  LET expected == (prevNum + 1) % MaxFrameNum
  IN  /\ ~h.sps.gaps /\ ~h.idr
      /\ prevNum # h.frame_num
      /\ h.frame_num - expected \notin -1 .. 1

(* A mutant of NewlyWrapped: pictures no other refers to are passed over.  *)
WrappedByReference(h) == IF h.frame_num = 0 /\ ~h.idr /\ h.ref THEN Refs ELSE {}

(* frame_num has wrapped: every picture still held comes before the wrap.  *)
NewlyWrapped(h) == IF h.frame_num = 0 /\ ~h.idr THEN Refs ELSE {}

End(reason) ==
  /\ pc' = reason
  /\ UNCHANGED <<sh, dpbVars, picVars, listVars, prevVars, decoded>>

(***************************************************************************)
(* parse_slice_header up to the reference lists: clear_DPB on an IDR       *)
(* picture, the picture order count, the frame number checks and the       *)
(* description of the picture in slot 0.                                   *)
(***************************************************************************)
ParseHeader(h, lsb) ==
  LET cur     == dpb[0]
      typed   == h.sps.pic_order_cnt_type = 0
      pLsb    == IF h.idr THEN 0 ELSE prevLsb
      pMsb    == IF h.idr THEN 0 ELSE prevMsb
      msb     == IF typed THEN PicOrderCntMsb(lsb, pLsb, pMsb) ELSE 0
      cleared == IF h.idr THEN Refs ELSE {}
  IN
  /\ pc = "nal"
  /\ InStream(h, lsb)
  /\ msb + lsb \in -MaxPoc .. MaxPoc
  /\ sh' = h
  /\ size' = IF h.idr THEN 0 ELSE size
  /\ filled' = (filled \ cleared) \union {cur}
  /\ marked' = marked \ cleared
  /\ wrapped' = (wrapped \ cleared) \union NewlyWrapped(h)
  /\ num' = [num EXCEPT ![cur] = h.frame_num]
  /\ poc' = [poc EXCEPT ![cur] = msb + lsb]
  /\ prevNum' = h.frame_num
  /\ prevLsb' = IF typed THEN lsb ELSE prevLsb
  /\ prevMsb' = IF typed THEN msb ELSE prevMsb
  /\ pc' = IF ~(cleared \subseteq filled) THEN "clear_frame"
           ELSE IF FrameNumGap(h) THEN "frame_num_gap"
           ELSE CASE h.type = "P" -> "form_P"
                  [] h.type = "B" -> "first_pass"
                  [] OTHER -> "marking"
  /\ start' = CASE h.type = "P" -> IntMax
                [] h.type = "B" -> msb + lsb
                [] OTHER -> 0
  /\ predicted' = h.frame_num
  /\ encPred' = h.frame_num
  /\ UNCHANGED <<dpb, lists, l1, refIdxL, overlong, decoded>>

(* Syntax the parser meets and does not support or finds malformed ends    *)
(* the process; wherever it is met, no state outlives it.                  *)
UnsupportedSyntax ==
  /\ pc \in {"nal", "modify", "marking"}
  /\ End("unsupported")

-----------------------------------------------------------------------------
(***************************************************************************)
(* Building the initial reference lists.  A pass repeatedly takes the      *)
(* reference whose picture order count is next beyond start, downwards     *)
(* for the pictures before the current one and upwards for those after.    *)
(***************************************************************************)
Candidates(after) ==
  {i \in RefSlots :
     /\ dpb[i] \in filled
     /\ IF after THEN poc[dpb[i]] > start /\ poc[dpb[i]] < IntMax
                 ELSE poc[dpb[i]] < start /\ poc[dpb[i]] > -1}

(* A mutant of NextFrame: most and least are confused.                     *)
FarthestFrame(after) ==
  LET key == [i \in RefSlots |-> poc[dpb[i]]]
  IN  IF after THEN FirstMost(Candidates(after), key)
               ELSE FirstLeast(Candidates(after), key)

(* get_frame_id_with_most / _least_pic_order_cnt, as a set of at most one. *)
NextFrame(after) ==
  LET key == [i \in RefSlots |-> poc[dpb[i]]]
  IN  IF after THEN FirstLeast(Candidates(after), key)
               ELSE FirstMost(Candidates(after), key)

(* The end of form_*_ref_list: the list must hold the active references;   *)
(* what is beyond them is cut off.                                         *)
CloseList(list, next) ==
  IF Len(list) < ActiveRefs(l1)
    THEN pc' = "list_short" /\ UNCHANGED lists
    ELSE /\ pc' = next
         /\ lists' = [lists EXCEPT ![l1] = Truncate(list, ActiveRefs(l1))]

(* A mutant of Pick: the next search starts where this one did.            *)
PickAgain(i) ==
  /\ lists' = [lists EXCEPT ![l1] = Append(@, dpb[i])]
  /\ UNCHANGED start

Pick(i) ==
  /\ lists' = [lists EXCEPT ![l1] = Append(@, dpb[i])]
  /\ start' = poc[dpb[i]]

FormP ==
  /\ pc = "form_P"
  /\ IF sh.sps.pic_order_cnt_type # 2 /\ Len(lists[0]) < size
          /\ Candidates(FALSE) # {}
       THEN (\E i \in NextFrame(FALSE) : Pick(i)) /\ UNCHANGED pc
       ELSE /\ CloseList(IF sh.sps.pic_order_cnt_type = 2
                           THEN [i \in 1 .. size |-> dpb[i]]
                           ELSE lists[0], "modify")
            /\ UNCHANGED start
  /\ UNCHANGED <<sh, dpbVars, picVars, l1, refIdxL, predicted, encPred,
                 overlong, prevVars, decoded>>

(* The loop of the near side tests for room before it looks for a picture. *)
FirstPass ==
  /\ pc = "first_pass"
  /\ IF Len(lists[l1]) = size
       THEN pc' = "list_overrun" /\ UNCHANGED <<lists, start>>
       ELSE IF Candidates(l1 = 1) # {}
         THEN (\E i \in NextFrame(l1 = 1) : Pick(i)) /\ UNCHANGED pc
         ELSE /\ pc' = "second_pass"
              /\ start' = poc[dpb[0]]
              /\ UNCHANGED lists
  /\ UNCHANGED <<sh, dpbVars, picVars, l1, refIdxL, predicted, encPred,
                 overlong, prevVars, decoded>>

(* The loop of the far side looks for a picture first. *)
SecondPass ==
  /\ pc = "second_pass"
  /\ IF Candidates(l1 = 0) # {}
       THEN /\ IF Len(lists[l1]) = size
                 THEN pc' = "list_overrun" /\ UNCHANGED <<lists, start>>
                 ELSE (\E i \in NextFrame(l1 = 0) : Pick(i)) /\ UNCHANGED pc
            /\ UNCHANGED l1
       ELSE /\ CloseList(lists[l1], IF l1 = 0 THEN "first_pass" ELSE "modify")
            /\ start' = poc[dpb[0]]
            /\ l1' = 1 - l1
  /\ UNCHANGED <<sh, dpbVars, picVars, refIdxL, predicted, encPred, overlong,
                 prevVars, decoded>>

-----------------------------------------------------------------------------
(***************************************************************************)
(* ref_pic_list_modification().  A command names a picture by its number   *)
(* n, and the entry of that number moves to position refIdxL, which goes   *)
(* up by one.  More than one entry of that number, or an entry the loop    *)
(* meets again after moving it towards the end, or none, fails an          *)
(* assertion.                                                              *)
(***************************************************************************)
Named(n) == {i \in DOMAIN lists[l1] : num[lists[l1][i]] = n}

(* A mutant of Remap: a picture already at its place is not found.         *)
RemapOffByOne(n) ==
  /\ pc = "modify" /\ refIdxL < Len(lists[l1])
  /\ predicted' = n
  /\ IF \E i \in Named(n) : Named(n) = {i} /\ refIdxL + 1 < i
       THEN /\ lists' = [lists EXCEPT
                           ![l1] = MoveFrame(@, CHOOSE i \in Named(n) : TRUE,
                                             refIdxL + 1)]
            /\ refIdxL' = refIdxL + 1
            /\ UNCHANGED pc
       ELSE pc' = "remap" /\ UNCHANGED <<lists, refIdxL>>
  /\ UNCHANGED <<sh, dpbVars, picVars, l1, start, overlong, prevVars, decoded>>

(* A command while refIdxL is within the list.                             *)
Remap(n) ==
  /\ pc = "modify" /\ refIdxL < Len(lists[l1])
  /\ predicted' = n
  /\ IF \E i \in Named(n) : Named(n) = {i} /\ refIdxL < i
       THEN /\ lists' = [lists EXCEPT
                           ![l1] = MoveFrame(@, CHOOSE i \in Named(n) : TRUE,
                                             refIdxL + 1)]
            /\ refIdxL' = refIdxL + 1
            /\ UNCHANGED pc
       ELSE pc' = "remap" /\ UNCHANGED <<lists, refIdxL>>
  /\ UNCHANGED <<sh, dpbVars, picVars, l1, start, overlong, prevVars, decoded>>

(* The list once the entry found first has moved beyond its end: all after *)
(* it close up, and frames[size], left there by this slice or one before,  *)
(* becomes the last entry.                                                 *)
ClosedUp(list, first, leftover) ==
  Truncate(MoveFrame(Append(list, leftover), first, Len(list) + 1), Len(list))

(* A command more than the list has entries, which nothing refuses: it     *)
(* moves the entry beyond the end of the list.  The leftover that comes in *)
(* can be any buffer (or NULL, which show_frames_list then follows), and   *)
(* the loop, which goes on behind the first entry found, may meet the      *)
(* number again in it.  After NumSlots commands the next write is outside  *)
(* the array.                                                              *)
RemapBeyond(n) ==
  /\ pc = "modify" /\ refIdxL >= Len(lists[l1])
  /\ predicted' = n
  /\ overlong' = overlong \union {l1}
  /\ \/ /\ \E reason \in CASE Named(n) = {}       -> {"remap"}
                           [] refIdxL >= NumSlots -> {"list_array"}
                           [] OTHER               -> {"remap", "null_frame"} :
             pc' = reason
        /\ UNCHANGED <<lists, refIdxL>>
     \/ /\ refIdxL < NumSlots
        /\ \E first \in Named(n), leftover \in Buf :
             LET list == ClosedUp(lists[l1], first, leftover)
             IN  /\ \A i \in Named(n) : first <= i
                 /\ \A i \in DOMAIN list : first < i => num[list[i]] # n
                 /\ lists' = [lists EXCEPT ![l1] = list]
        /\ refIdxL' = refIdxL + 1
        /\ UNCHANGED pc
  /\ UNCHANGED <<sh, dpbVars, picVars, l1, start, prevVars, decoded>>

(* The command of an encoder that wants reference t next: it sends the     *)
(* difference of t's number to its own predictor, and the decoder adds it  *)
(* to predicted_picture.  H.264 allows one for each entry of the list.     *)
Command(t) ==
  /\ Remap((predicted + num[t] - encPred) % MaxFrameNum)
  /\ encPred' = num[t]

(* Any other stream names any number, any number of times.                 *)
AnyCommand ==
  /\ \E n \in 0 .. MaxFrameNum - 1 : Remap(n) \/ RemapBeyond(n)
  /\ UNCHANGED encPred

(* A mutant of EndRemap: every list of a B slice is followed by another.   *)
EndRemapB ==
  /\ pc = "modify"
  /\ encPred' = sh.frame_num
  /\ refIdxL' = 0
  /\ IF sh.type = "B"
       THEN l1' = 1 - l1 /\ UNCHANGED <<pc, predicted>>
       ELSE pc' = "marking" /\ predicted' = sh.frame_num /\ UNCHANGED l1
  /\ UNCHANGED <<sh, dpbVars, picVars, lists, start, overlong, prevVars, decoded>>

(* flag_l1 and idc 3: on to list 1 of a B slice, or out.  Only refIdxL and *)
(* l1 are set for list 1; the encoder starts again from the current number.*)
EndRemap ==
  /\ pc = "modify"
  /\ encPred' = sh.frame_num
  /\ refIdxL' = 0
  /\ IF sh.type = "B" /\ l1 = 0
       THEN l1' = 1 /\ UNCHANGED <<pc, predicted>>
       ELSE pc' = "marking" /\ predicted' = sh.frame_num /\ UNCHANGED l1
  /\ UNCHANGED <<sh, dpbVars, picVars, lists, start, overlong, prevVars, decoded>>

(* memory_management_control_operation 1 names a picture by its number.    *)
Mark(t) ==
  LET found == {i \in RefSlots : num[dpb[i]] = num[t]}
  IN
  /\ pc = "marking" /\ sh.ref /\ ~sh.idr
  /\ IF \E i \in found : found = {i} /\ dpb[i] \in filled
       THEN marked' = marked \union {t} /\ UNCHANGED pc
       ELSE pc' = "mmco" /\ UNCHANGED marked
  /\ UNCHANGED <<sh, dpb, size, filled, wrapped, picVars, listVars, prevVars,
                 decoded>>

EndHeader ==
  /\ pc = "marking"
  /\ pc' = "setup"
  /\ UNCHANGED <<sh, dpbVars, picVars, listVars, prevVars, decoded>>

-----------------------------------------------------------------------------
(* A mutant of FilledOnceSized: the slots are not declared empty.          *)
FilledAsFound == filled

(* tegra_VDE_decoder_init_mem, run for the first slice only, sizes the     *)
(* buffers and declares the slots above the current picture's empty.       *)
FilledOnceSized ==
  IF decoded THEN filled ELSE filled \ {dpb[i] : i \in Slots \ {0}}

(* tegra_setup_FRAMEID gives every buffer up to size its slot number ...   *)
Numbered == Refs \union {dpb[0]}

(* ... and tegra_VDE_setup_IRAM_list names those of the lists by it: they  *)
(* must be filled and not be numbered 0, as the current picture is.        *)
Listed == UNION {{lists[l][k] : k \in DOMAIN lists[l]} : l \in 0 .. 1}

(***************************************************************************)
(* tegra_VDE_decode_frame up to the trigger.  Every buffer given to the    *)
(* engine must be filled, and so must every entry of a list.               *)
(***************************************************************************)
Setup ==
  /\ pc = "setup"
  /\ filled' = FilledOnceSized
  /\ pc' = IF ~(Numbered \subseteq FilledOnceSized) THEN "frameid"
           ELSE IF ~(Listed \subseteq FilledOnceSized \ {dpb[0]}) THEN "iram"
           ELSE "run"
  /\ UNCHANGED <<sh, dpb, size, marked, wrapped, picVars, listVars, prevVars,
                 decoded>>

(* tegra_VDE_decode_trigger returned 0 and the frame is handed out.        *)
Complete ==
  /\ pc = "run"
  /\ decoded' = TRUE
  /\ pc' = "purge"
  /\ UNCHANGED <<sh, dpbVars, picVars, listVars, prevVars>>

(* It returned an error: tegra_VDE_stuck resets the engine and aborts.     *)
Stuck ==
  /\ pc = "run"
  /\ End("stuck")

(* Mutants of Purge: the count is not decremented, or the mark is kept.    *)
PurgeBut(newSize, newMarked(_)) ==
  /\ pc = "purge"
  /\ \E i \in RefSlots :
       /\ dpb[i] \in marked
       /\ \A j \in 1 .. i - 1 : dpb[j] \notin marked
       /\ dpb' = MoveFrame(dpb, i, size)
       /\ size' = newSize
       /\ filled' = filled \ {dpb[i]}
       /\ marked' = newMarked(dpb[i])
       /\ wrapped' = wrapped \ {dpb[i]}
       /\ UNCHANGED pc
  /\ UNCHANGED <<sh, picVars, listVars, prevVars, decoded>>

PurgeUncounted == PurgeBut(size, LAMBDA b : marked \ {b})
PurgeUncleared == PurgeBut(size - 1, LAMBDA b : marked)

(* One turn of purge_unused_ref_frames that finds a marked reference.      *)
Purge ==
  /\ pc = "purge"
  /\ \E i \in RefSlots :
       /\ dpb[i] \in marked
       /\ \A j \in 1 .. i - 1 : dpb[j] \notin marked
       /\ dpb' = MoveFrame(dpb, i, size)
       /\ size' = size - 1
       /\ filled' = filled \ {dpb[i]}
       /\ marked' = marked \ {dpb[i]}
       /\ wrapped' = wrapped \ {dpb[i]}
       /\ pc' = IF dpb[i] \in filled THEN "purge" ELSE "clear_frame"
  /\ UNCHANGED <<sh, picVars, listVars, prevVars, decoded>>

(* Nothing of the lists or of the parser's locals is read after the slice. *)
EndSlice ==
  /\ lists' = [l \in 0 .. 1 |-> << >>]
  /\ l1' = 0 /\ start' = 0 /\ refIdxL' = 0 /\ predicted' = 0 /\ encPred' = 0
  /\ overlong' = {}
  /\ UNCHANGED <<sh, picVars, prevVars, decoded>>

Purged == pc = "purge" /\ Refs \intersect marked = {}

(* Mutants of Slide: the count runs past a full window, or the new picture *)
(* is swapped with the oldest instead of moving the others.                *)
SlideBut(newDpb, newSize) ==
  LET window == sh.sps.max_num_ref_frames
      out    == {dpb[window]} \intersect filled
  IN
  /\ Purged /\ sh.ref
  /\ window \in Slots
  /\ pc' = "nal"
  /\ dpb' = newDpb
  /\ filled' = filled \ {dpb[window]}
  /\ marked' = marked \ out
  /\ wrapped' = wrapped \ out
  /\ size' = newSize
  /\ EndSlice

SlideOvercounted ==
  LET window == sh.sps.max_num_ref_frames
  IN  SlideBut(MoveFrame(dpb, window, 0), IF size <= window THEN size + 1 ELSE size)

SlideSwapped ==
  LET window == sh.sps.max_num_ref_frames
  IN  SlideBut([dpb EXCEPT ![0] = dpb[window], ![window] = dpb[0]],
               IF size < window THEN size + 1 ELSE size)

(* slide_frames: the current picture becomes the newest reference and the  *)
(* buffer of the slot beyond the window takes its place.                   *)
Slide ==
  LET window == sh.sps.max_num_ref_frames
      last   == dpb[window]
      out    == {last} \intersect filled
  IN
  /\ Purged /\ sh.ref
  /\ IF sh.sps.pic_order_cnt_type = 1 \/ window \notin Slots
       THEN /\ pc' = IF sh.sps.pic_order_cnt_type = 1 THEN "poc_type"
                                                     ELSE "dpb_overrun"
            /\ UNCHANGED dpbVars
       ELSE /\ pc' = "nal"
            /\ dpb' = MoveFrame(dpb, window, 0)
            /\ filled' = filled \ {last}
            /\ marked' = marked \ out
            /\ wrapped' = wrapped \ out
            /\ size' = IF size < window THEN size + 1 ELSE size
  /\ EndSlice

(* A picture no other refers to stays in slot 0 and is overwritten there.  *)
NoSlide ==
  /\ Purged /\ ~sh.ref
  /\ pc' = "nal"
  /\ UNCHANGED dpbVars
  /\ EndSlice

-----------------------------------------------------------------------------
NoHeader == [idr |-> FALSE, ref |-> FALSE, type |-> "I",
             sps |-> CHOOSE s \in Sps : TRUE,
             active0 |-> 1, active1 |-> 1, frame_num |-> 0]

(* decoder_init: the context is zeroed and the buffers are fresh from      *)
(* malloc, so their flags are zero too unless the memory was used before.  *)
Init ==
  /\ pc = "nal"
  /\ sh = NoHeader
  /\ dpb \in {f \in [Slots -> Buf] : \A i, j \in Slots : f[i] = f[j] => i = j}
  /\ size = 0
  /\ \E g \in SUBSET Garbage : filled = Buf \ g
  /\ marked \in SUBSET Garbage
  /\ wrapped \in SUBSET Garbage
  /\ num = [b \in Buf |-> 0] /\ poc = [b \in Buf |-> 0]
  /\ lists = [l \in 0 .. 1 |-> << >>]
  /\ l1 = 0 /\ start = 0 /\ refIdxL = 0 /\ predicted = 0 /\ encPred = 0
  /\ overlong = {}
  /\ prevNum = 0 /\ prevMsb = 0 /\ prevLsb = 0
  /\ decoded = FALSE

FormLists == FormP \/ FirstPass \/ SecondPass
Modify    == \/ Conforming /\ \E t \in Refs : Command(t)
             \/ ~Conforming /\ AnyCommand
             \/ EndRemap
Marking   == (\E t \in Refs : Mark(t)) \/ EndHeader
Decode    == Setup \/ Complete \/ Stuck
Retire    == Purge \/ Slide \/ NoSlide

(* The process is gone.                                                    *)
Ended == pc \in Ends /\ UNCHANGED vars

Next ==
  \/ \E h \in Header, lsb \in Lsbs : ParseHeader(h, lsb)
  \/ FormLists \/ Modify \/ Marking \/ Decode \/ Retire
  \/ UnsupportedSyntax
  \/ Ended

Spec == Init /\ [][Next]_vars

-----------------------------------------------------------------------------
(***************************************************************************)
(* Properties.                                                             *)
(***************************************************************************)
(* The type of the state. *)
TypeOK ==
  /\ pc \in Loops \union Ends
  /\ sh \in Header \union {NoHeader}
  /\ dpb \in [Slots -> Buf]
  /\ size \in 0 .. NumSlots - 1
  /\ filled \subseteq Buf /\ marked \subseteq Buf /\ wrapped \subseteq Buf
  /\ num \in [Buf -> 0 .. MaxFrameNum - 1]
  /\ poc \in [Buf -> -MaxPoc .. MaxPoc]
  /\ lists \in [0 .. 1 -> Seq(Buf)]
  /\ l1 \in 0 .. 1
  /\ start \in Int
  /\ refIdxL \in Nat
  /\ predicted \in 0 .. MaxFrameNum - 1 /\ encPred \in 0 .. MaxFrameNum - 1
  /\ overlong \subseteq 0 .. 1
  /\ prevNum \in 0 .. MaxFrameNum - 1
  /\ prevMsb \in Int /\ prevLsb \in 0 .. MaxPicOrderCntLsb - 1
  /\ decoded \in BOOLEAN

(* Every slot points at a buffer of its own: sliding, purging and swapping *)
(* never lose a frame_data or leave two slots sharing one, although each   *)
(* of them overwrites slots one at a time.                                 *)
SlotsDistinct == \A i, j \in Slots : dpb[i] = dpb[j] => i = j

(* Once the buffers are sized, a slot above the current picture's is       *)
(* filled exactly when it is counted in size: the count kept by            *)
(* slide_frames, purge_unused_ref_frames and clear_DPB never drifts from   *)
(* the `empty' flags those functions set one frame at a time.              *)
Occupancy ==
  IF decoded \/ pc = "run"
    THEN pc \notin Ends => \A i \in Slots \ {0} : dpb[i] \in filled <=> i \in RefSlots
    ELSE size = 0

(* Until the engine is done, a list of the slice names references that are *)
(* held, each one once, so it never predicts from a buffer given away: a   *)
(* list can lose that only by more modification commands than it has       *)
(* entries.  (A leftover may then be a buffer given away, empty or not.)   *)
ListsHeld ==
  pc # "purge" => \A l \in (0 .. 1) \ overlong :
    /\ \A k \in DOMAIN lists[l] : lists[l][k] \in Refs
    /\ \A k, m \in DOMAIN lists[l] : lists[l][k] = lists[l][m] => k = m

(* The assertions on `empty' in clear_frame and tegra_setup_FRAMEID hold   *)
(* whatever stream is decoded, and those on the list entries in            *)
(* tegra_VDE_setup_IRAM_list unless a list of the slice was sent more      *)
(* commands than it has entries.                                           *)
AssertionsHold ==
  /\ pc \notin {"clear_frame", "frameid"}
  /\ pc = "iram" => overlong # {}

(* Why a pass of the list construction cannot take a picture twice, and so *)
(* cannot overrun the list on the far side: what it has listed lies        *)
(* between the current picture's count and start, and what the near side   *)
(* listed stays on the near side.                                          *)
PassOrder ==
  LET cur    == poc[dpb[0]]
      listed == {poc[lists[l1][k]] : k \in DOMAIN lists[l1]}
  IN
  /\ pc = "form_P" => l1 = 0 /\ \A p \in listed : p >= start
  /\ pc = "first_pass" =>
       IF l1 = 0 THEN start <= cur /\ \A p \in listed : start <= p /\ p < cur
                 ELSE start >= cur /\ \A p \in listed : cur < p /\ p <= start
  /\ pc = "second_pass" =>
       IF l1 = 0 THEN start >= cur /\ \A p \in listed : p <= start
                 ELSE start <= cur /\ \A p \in listed : p >= start

(* What the loops of a slice find when they start: slot 0 filled, the      *)
(* lists empty, nothing held before the buffers are sized, no list spoilt  *)
(* by a command yet, and none ever in a conforming stream.                 *)
LoopsReady ==
  /\ pc \in {"nal", "form_P", "first_pass", "second_pass"} => overlong = {}
  /\ Conforming => overlong = {}
  /\ pc \in Loops \ {"nal"} => dpb[0] \in filled
  /\ pc = "nal" => l1 = 0 /\ lists[0] = << >> /\ lists[1] = << >>
  /\ pc \in {"first_pass", "second_pass"} /\ l1 = 0 => lists[1] = << >>
  /\ pc = "purge" => decoded
  /\ ~decoded => size = 0

(* The inductive invariant behind SlotsDistinct, Occupancy, ListsHeld and  *)
(* AssertionsHold.                                                         *)
IInv ==
  /\ TypeOK
  /\ SlotsDistinct /\ Occupancy /\ ListsHeld /\ AssertionsHold
  /\ PassOrder /\ LoopsReady

(* No flag outlives its picture: a buffer that is not a reference is       *)
(* neither marked for removal nor wrapped, so the next picture stored in   *)
(* it starts clean although nothing resets the flags when it is filled.    *)
FlagsHeld == marked \union wrapped \subseteq Refs

(* At most max_num_ref_frames references of the active parameter set.      *)
WindowBounded == pc \notin Ends => size <= sh.sps.max_num_ref_frames

(* When the engine starts, frame_num_wrap is set on exactly the references *)
(* numbered above the current picture, i.e. before the number wrapped: the *)
(* flag raised when a picture is numbered 0 stays right until the last     *)
(* such reference is gone.                                                 *)
WrapMatchesNumber ==
  pc \in {"setup", "run"} =>
    \A b \in Refs : b \in wrapped <=> num[b] > sh.frame_num

(* Between slices the references of a conforming stream have numbers of    *)
(* their own, and while a slice lasts none has that of its picture: this   *)
(* is what a reference is found by.                                        *)
NumbersApart ==
  pc \notin Ends =>
    /\ prevNum = sh.frame_num
    /\ \A a, b \in Refs : num[a] = num[b] => a = b
    /\ pc # "nal" => /\ num[dpb[0]] = sh.frame_num
                     /\ \A b \in Refs : num[b] # sh.frame_num

(* The decoder and the encoder start the commands of list 0 from the same  *)
(* number.                                                                 *)
PredictorsAgree ==
  (\/ pc \in {"form_P", "first_pass", "second_pass"}
   \/ pc = "modify" /\ l1 = 0) => predicted = encPred

(* What is behind WrapMatchesNumber: the flag is right between the slices, *)
(* too, relative to the number decoded last.                               *)
WrapFollows == pc \notin Ends => \A b \in Refs : b \in wrapped <=> num[b] > prevNum

(* In a conforming stream a modification command fails the assertions only *)
(* if the held picture it names was cut from the list, or was moved to the *)
(* front by an earlier command, or if list 1 started from the predictor    *)
(* that list 0 left: any other command is carried out.                     *)
RemapRejects ==
  pc = "remap" =>
    \/ l1 = 1 /\ predicted # encPred
    \/ \E b \in Refs :
         /\ num[b] = predicted
         /\ \A k \in DOMAIN lists[l1] : lists[l1][k] = b => k <= refIdxL

(* The count recovered from pic_order_cnt_lsb is the one nearest to the    *)
(* count of the previous picture, half a cycle ahead included.             *)
PocNearest ==
  [][(/\ pc = "nal" /\ pc' \notin {"nal"} \union Ends
      /\ sh'.sps.pic_order_cnt_type = 0) =>
       LET previous == IF sh'.idr THEN 0 ELSE prevMsb + prevLsb
           distance == 2 * (poc'[dpb'[0]] - previous)
       IN  -MaxPicOrderCntLsb < distance /\ distance <= MaxPicOrderCntLsb]_vars

(* The reference order of a slice: a P slice takes the later picture       *)
(* first; list 0 of a B slice goes back from the current picture and then  *)
(* forward from it, list 1 the other way round.                            *)
Precedes(l, a, b) ==
  LET p == poc[a]  q == poc[b]  cur == poc[dpb[0]]
  IN  \/ sh.type = "P" /\ p > q
      \/ /\ sh.type = "B" /\ l = 0
         /\ \/ p < cur /\ (q > cur \/ p > q)
            \/ p > cur /\ q > p
      \/ /\ sh.type = "B" /\ l = 1
         /\ \/ p > cur /\ (q < cur \/ p < q)
            \/ p < cur /\ q < p

(* The slices whose lists the counts alone determine: the references have  *)
(* distinct counts, none that of the current picture and none negative.    *)
CountsTell ==
  /\ sh.sps.pic_order_cnt_type = 0
  /\ \A a \in Refs : poc[a] >= 0
  /\ \A a, b \in Refs \union {dpb[0]} : poc[a] = poc[b] => a = b

Unlisted(list, n) == Refs \ {list[k] : k \in 1 .. n}

(* A list holds the foremost references, in the order of list l. *)
Foremost(l, list) ==
  \A k \in DOMAIN list :
    /\ list[k] \in Refs
    /\ \A b \in Unlisted(list, k) : Precedes(l, list[k], b)

(* The initial lists of such a slice are the first active references in    *)
(* the reference order.                                                    *)
InitialOrder ==
  (pc = "modify" /\ l1 = 0 /\ refIdxL = 0 /\ CountsTell) =>
  \A l \in 0 .. (IF sh.type = "B" THEN 1 ELSE 0) :
    Len(lists[l]) = ActiveRefs(l) /\ Foremost(l, lists[l])

(* How the passes get there: what is not listed yet lies beyond start on   *)
(* the side at work, or on the side that comes next.                       *)
Beyond(b) ==
  LET cur == poc[dpb[0]]
  IN
  /\ pc = "form_P" => poc[b] < start
  /\ pc = "first_pass" => IF l1 = 0 THEN poc[b] < start \/ poc[b] > cur
                                   ELSE poc[b] > start \/ poc[b] < cur
  /\ pc = "second_pass" => IF l1 = 0 THEN poc[b] > start ELSE poc[b] < start

PassesInOrder ==
  /\ pc = "form_P" => sh.type = "P" /\ l1 = 0
  /\ pc \in {"first_pass", "second_pass"} => sh.type = "B"
  /\ pc \in {"form_P", "first_pass", "second_pass"} /\ CountsTell =>
       /\ Foremost(l1, lists[l1])
       /\ \A b \in Unlisted(lists[l1], Len(lists[l1])) : Beyond(b)
       /\ l1 = 1 => Len(lists[0]) = ActiveRefs(0) /\ Foremost(0, lists[0])

(* The strengthening behind RemapRejects, WrapMatchesNumber, InitialOrder. *)
HeaderInv == /\ NumbersApart /\ PredictorsAgree
             /\ WrapFollows
             /\ PassesInOrder

(* How far the slice has come, and what is left of the loop it is in.      *)
Phase ==
  CASE pc = "form_P"      -> 9
    [] pc = "first_pass"  -> IF l1 = 0 THEN 9 ELSE 7
    [] pc = "second_pass" -> IF l1 = 0 THEN 8 ELSE 6
    [] pc = "modify"      -> IF l1 = 0 THEN 5 ELSE 4
    [] pc = "marking"     -> 3
    [] pc = "setup"       -> 2
    [] pc = "run"         -> 1
    [] OTHER              -> 0

Work ==
  CASE pc \in {"form_P", "first_pass", "second_pass"} -> size - Len(lists[l1])
    [] pc = "modify"  -> NumSlots - refIdxL
    [] pc = "marking" -> Cardinality(Refs \ marked)
    [] pc = "purge"   -> size
    [] OTHER          -> 0

(* No loop of a slice can turn without end, whatever the stream: each step *)
(* ends the slice or the process, goes on to a later loop, or leaves less  *)
(* to do of the present one (DPB_routines.c:196-203, 268-424,              *)
(* slice_header.c:281-395).  The list passes only look for one more        *)
(* picture while the list has room, although the room is tested on one     *)
(* side and taken for granted on the other; a modification command takes   *)
(* one more position of the list's array, and after the last one the next  *)
(* is a write outside it; the purge that steps its index back has one      *)
(* reference less to look at.                                              *)
SliceAdvances ==
  [][pc \notin {"nal"} \union Ends =>
       \/ pc' \in {"nal"} \union Ends
       \/ Phase' < Phase
       \/ Phase' = Phase /\ Work' \in 0 .. Work - 1]_vars

Fairness == WF_vars(FormLists \/ Modify \/ Marking \/ Decode \/ Retire)
FairSpec == Spec /\ Fairness

(* Every slice is finished, or ends the process: none of the `for (;;)'    *)
(* loops over the buffer or the purge that steps its index back can go on  *)
(* for ever, nor can the goto loop of the list modification within the     *)
(* array of the list.                                                      *)
SliceEnds == pc # "nal" ~> pc \in {"nal"} \union Ends

(* The references kept across the loops of a slice are a sliding window.   *)
Window == INSTANCE SlidingWindow
            WITH Picture <- Buf, MaxWindow <- NumSlots - 1,
                 refs <- [i \in RefSlots |-> dpb[i]],
                 unused <- marked \intersect Refs
RefinesWindow == Window!Spec

-----------------------------------------------------------------------------
(***************************************************************************)
(* Claims the source makes in an assertion or a message, and that a stream *)
(* refutes: one H.264 allows for the first two, one whose parameter set    *)
(* H.264 does not allow, but parse_SPS lets through, for the last.         *)
(***************************************************************************)
(* form_B_frame_ref_list_l0 and _l1 say of an exhausted list at the top of *)
(* their first loop that it "Shouldn't happen": it does, when every        *)
(* reference lies on that side of the current picture.                     *)
ListNeverOverrun == pc # "list_overrun"

(* assert(remapped_picture == -1): the picture a command names is in the   *)
(* list.  It is not when the initial list was cut to the active references *)
(* before the command, which may name any picture held.                    *)
HeldIsListed ==
  pc = "remap" =>
    \A b \in Refs : num[b] = predicted => \E k \in DOMAIN lists[l1] : lists[l1][k] = b

(* The check "Too many ref frames" of parse_SPS admits only windows that   *)
(* DPB_frames_array has slots for.                                         *)
WindowHasSlots == pc # "dpb_overrun"
=============================================================================
