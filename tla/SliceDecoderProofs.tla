------------------------- MODULE SliceDecoderProofs -------------------------
(***************************************************************************)
(* Proofs about SliceDecoder for any number of buffers, any stream and any *)
(* contents of fresh memory: the state stays well typed, no buffer is lost *)
(* from the slots, the occupancy count and the `empty' flags agree, the    *)
(* reference lists name held pictures once each, and no assertion on       *)
(* `empty' fails, unless for the last two a list is sent more modification *)
(* commands than it has entries.                                           *)
(***************************************************************************)
EXTENDS SliceDecoder, FiniteSetTheorems, TLAPS

(* MoveFrame permutes: it stays within the elements of the array ...       *)
LEMMA MoveFrameType ==
  ASSUME NEW lo \in Nat, NEW hi \in Int, NEW S, NEW f \in [lo .. hi -> S],
         NEW i \in lo .. hi, NEW to \in lo .. hi
  PROVE  /\ MoveFrame(f, i, to) \in [lo .. hi -> S]
         /\ DOMAIN MoveFrame(f, i, to) = lo .. hi
BY DEF MoveFrame

(* ... and sends no two positions to one element.                          *)
LEMMA MoveFrameInjective ==
  ASSUME NEW lo \in Nat, NEW hi \in Int, NEW S, NEW f \in [lo .. hi -> S],
         NEW i \in lo .. hi, NEW to \in lo .. hi,
         \A k, m \in lo .. hi : f[k] = f[m] => k = m
  PROVE  \A k, m \in lo .. hi :
           MoveFrame(f, i, to)[k] = MoveFrame(f, i, to)[m] => k = m
<1> DEFINE g == MoveFrame(f, i, to)
           origin(k) == IF k = to THEN i
                        ELSE IF i <= k /\ k < to THEN k + 1
                        ELSE IF to < k /\ k <= i THEN k - 1 ELSE k
<1>1. \A k \in lo .. hi : origin(k) \in lo .. hi /\ g[k] = f[origin(k)]
  BY DEF MoveFrame
<1>2. \A k, m \in lo .. hi : origin(k) = origin(m) => k = m
  OBVIOUS
<1> QED
  BY <1>1, <1>2

(* A number reduced modulo MaxFrameNum is a frame number.                  *)
LEMMA FrameNumMod ==
  ASSUME NEW n \in Int
  PROVE  n % MaxFrameNum \in 0 .. MaxFrameNum - 1
BY StreamAssumption

(* What is known of the header of the slice at work, the zeroed one        *)
(* included.                                                               *)
LEMMA HeaderType ==
  ASSUME TypeOK
  PROVE  /\ sh.sps \in SpsType
         /\ sh.sps.max_num_ref_frames \in 0 .. NumSlots
         /\ sh.active0 \in Nat \ {0} /\ sh.active1 \in Nat \ {0}
         /\ sh.frame_num \in 0 .. MaxFrameNum - 1
<1>1. NoHeader.sps \in Sps
  BY StreamAssumption DEF NoHeader
<1>2. sh.sps \in Sps
  BY <1>1 DEF TypeOK, Header
<1>3. sh.active0 \in Nat \ {0} /\ sh.active1 \in Nat \ {0}
  BY StreamAssumption DEF TypeOK, Header, NoHeader
<1>4. sh.frame_num \in 0 .. MaxFrameNum - 1
  BY StreamAssumption DEF TypeOK, Header, NoHeader
<1>5. sh.sps \in SpsType
  BY <1>2, StreamAssumption
<1> QED
  BY <1>3, <1>4, <1>5 DEF SpsType

(* The reference slots are slots, and slot 0 is not one of them.           *)
LEMMA RefsType ==
  ASSUME TypeOK
  PROVE  /\ NumSlots \in Nat \ {0} /\ size \in Nat /\ size <= NumSlots - 1
         /\ 0 \in Slots /\ RefSlots \subseteq Slots \ {0}
         /\ dpb[0] \in Buf /\ Refs \subseteq Buf
<1>1. NumSlots \in Nat \ {0} /\ size \in Nat /\ size <= NumSlots - 1
  BY SlotsAssumption DEF TypeOK
<1>2. 0 \in Slots /\ RefSlots \subseteq Slots \ {0}
  BY <1>1 DEF Slots, RefSlots
<1>3. dpb \in [Slots -> Buf]
  BY DEF TypeOK
<1> QED
  BY <1>1, <1>2, <1>3 DEF Refs

(* The array helpers on lists.                                             *)
LEMMA TruncateType ==
  ASSUME NEW S, NEW s \in Seq(S), NEW n \in Nat, n <= Len(s)
  PROVE  /\ Truncate(s, n) \in Seq(S) /\ Len(Truncate(s, n)) = n
         /\ \A k \in 1 .. n : Truncate(s, n)[k] = s[k]
BY DEF Truncate

(* Moving an entry within a list yields a list of the same length.         *)
LEMMA MoveInListType ==
  ASSUME NEW S, NEW s \in Seq(S), NEW i \in 1 .. Len(s), NEW to \in 1 .. Len(s)
  PROVE  /\ MoveFrame(s, i, to) \in Seq(S)
         /\ Len(MoveFrame(s, i, to)) = Len(s)
<1>1. s \in [1 .. Len(s) -> S] /\ Len(s) \in Nat
  OBVIOUS
<1>2. MoveFrame(s, i, to) \in [1 .. Len(s) -> S]
  BY <1>1 DEF MoveFrame
<1> QED
  BY <1>1, <1>2

-----------------------------------------------------------------------------
(***************************************************************************)
(* Type correctness.                                                       *)
(***************************************************************************)
(* The context decoder_init sets up is well typed.                         *)
LEMMA InitType == Init => TypeOK
<1> SUFFICES ASSUME Init PROVE TypeOK
  OBVIOUS
<1>1. /\ pc \in Loops \union Ends /\ sh \in Header \union {NoHeader}
      /\ dpb \in [Slots -> Buf] /\ decoded \in BOOLEAN
  BY DEF Init, Loops
<1>2. size \in 0 .. NumSlots - 1
  BY SlotsAssumption DEF Init
<1>3. filled \subseteq Buf /\ marked \subseteq Buf /\ wrapped \subseteq Buf
  BY SlotsAssumption DEF Init
<1>4. num \in [Buf -> 0 .. MaxFrameNum - 1] /\ poc \in [Buf -> -MaxPoc .. MaxPoc]
  BY StreamAssumption DEF Init
<1>5. lists \in [0 .. 1 -> Seq(Buf)] /\ l1 \in 0 .. 1 /\ overlong \subseteq 0 .. 1
  BY DEF Init
<1>6. /\ start \in Int /\ refIdxL \in Nat
      /\ prevMsb \in Int /\ prevLsb \in 0 .. MaxPicOrderCntLsb - 1
      /\ predicted \in 0 .. MaxFrameNum - 1 /\ encPred \in 0 .. MaxFrameNum - 1
      /\ prevNum \in 0 .. MaxFrameNum - 1
  BY StreamAssumption DEF Init
<1> QED
  BY <1>1, <1>2, <1>3, <1>4, <1>5, <1>6 DEF TypeOK

(* The header types: an IDR picture empties the buffer, the number and the *)
(* count of the picture go to the buffer of slot 0.                        *)
LEMMA ParseHeaderType ==
  ASSUME TypeOK, NEW h \in Header, NEW lsb \in Lsbs, ParseHeader(h, lsb)
  PROVE  TypeOK'
<1>1. /\ h.frame_num \in 0 .. MaxFrameNum - 1
      /\ lsb \in 0 .. MaxPicOrderCntLsb - 1 /\ lsb \in Int
      /\ MaxPicOrderCntLsb \in Int /\ MaxPoc \in Int
  BY StreamAssumption DEF Header
<1>2. dpb[0] \in Buf /\ Refs \subseteq Buf
  BY RefsType
<1>3. ASSUME NEW p \in Int, NEW m \in Int
      PROVE  PicOrderCntMsb(lsb, p, m) \in Int
  BY <1>1 DEF PicOrderCntMsb
<1> DEFINE typed == h.sps.pic_order_cnt_type = 0
           msb   == IF typed THEN PicOrderCntMsb(lsb, IF h.idr THEN 0 ELSE prevLsb,
                                                 IF h.idr THEN 0 ELSE prevMsb) ELSE 0
<1>4. msb \in Int
  <2>1. (IF h.idr THEN 0 ELSE prevLsb) \in Int /\ (IF h.idr THEN 0 ELSE prevMsb) \in Int
    BY DEF TypeOK
  <2>2. PicOrderCntMsb(lsb, IF h.idr THEN 0 ELSE prevLsb,
                       IF h.idr THEN 0 ELSE prevMsb) \in Int
    BY <2>1, <1>3
  <2> QED
    BY <2>2
<1> HIDE DEF msb
<1>5. /\ sh' = h /\ size' = (IF h.idr THEN 0 ELSE size)
      /\ msb + lsb \in -MaxPoc .. MaxPoc
      /\ num' = [num EXCEPT ![dpb[0]] = h.frame_num]
      /\ poc' = [poc EXCEPT ![dpb[0]] = msb + lsb]
      /\ prevNum' = h.frame_num /\ predicted' = h.frame_num /\ encPred' = h.frame_num
      /\ prevLsb' = IF typed THEN lsb ELSE prevLsb
      /\ prevMsb' = IF typed THEN msb ELSE prevMsb
      /\ UNCHANGED <<dpb, lists, l1, refIdxL, overlong, decoded>>
  BY DEF ParseHeader, msb
<1>6. start' \in {IntMax, msb + lsb, 0}
  BY DEF ParseHeader, msb
<1>7. pc' \in Loops \union Ends
  BY DEF ParseHeader, Loops, Ends
<1>8. filled' \subseteq Buf /\ marked' \subseteq Buf /\ wrapped' \subseteq Buf
  BY <1>2 DEF ParseHeader, NewlyWrapped, TypeOK
<1>9. start' \in Int
  BY <1>1, <1>4, <1>6 DEF IntMax
<1>10. sh' \in Header \union {NoHeader} /\ size' \in 0 .. NumSlots - 1
  BY <1>5, SlotsAssumption DEF TypeOK
<1>11. num' \in [Buf -> 0 .. MaxFrameNum - 1] /\ poc' \in [Buf -> -MaxPoc .. MaxPoc]
  BY <1>1, <1>2, <1>4, <1>5 DEF TypeOK
<1>12. prevMsb' \in Int /\ prevLsb' \in 0 .. MaxPicOrderCntLsb - 1
  BY <1>1, <1>4, <1>5 DEF TypeOK
<1>13. /\ prevNum' \in 0 .. MaxFrameNum - 1 /\ predicted' \in 0 .. MaxFrameNum - 1
       /\ encPred' \in 0 .. MaxFrameNum - 1
  BY <1>1, <1>5
<1> QED
  BY <1>5, <1>7, <1>8, <1>9, <1>10, <1>11, <1>12, <1>13 DEF TypeOK, Slots

(* The lists are sequences of buffers, and some reference is active.       *)
LEMMA ListsType ==
  ASSUME TypeOK
  PROVE  /\ lists[0] \in Seq(Buf) /\ lists[1] \in Seq(Buf) /\ lists[l1] \in Seq(Buf)
         /\ ActiveRefs(l1) \in Nat \ {0}
BY HeaderType DEF TypeOK, ActiveRefs

(* Taking the next picture types.                                          *)
LEMMA PickType ==
  ASSUME TypeOK, NEW i \in RefSlots, Pick(i)
  PROVE  lists' \in [0 .. 1 -> Seq(Buf)] /\ start' \in Int
<1>1. dpb[i] \in Buf
  BY RefsType DEF TypeOK
<1>2. Append(lists[l1], dpb[i]) \in Seq(Buf)
  BY <1>1, ListsType
<1> QED
  BY <1>1, <1>2 DEF Pick, TypeOK

(* Closing a list types: it is cut only when it is long enough.            *)
LEMMA CloseListType ==
  ASSUME TypeOK, NEW list \in Seq(Buf), NEW next, CloseList(list, next)
  PROVE  lists' \in [0 .. 1 -> Seq(Buf)] /\ pc' \in {"list_short", next}
<1>1. CASE Len(list) < ActiveRefs(l1)
  BY <1>1 DEF CloseList, TypeOK
<1>2. CASE ~(Len(list) < ActiveRefs(l1))
  <2>1. Truncate(list, ActiveRefs(l1)) \in Seq(Buf)
    BY <1>2, ListsType, TruncateType
  <2> QED
    BY <1>2, <2>1 DEF CloseList, TypeOK
<1> QED
  BY <1>1, <1>2

(* The picture found is a candidate, and a candidate a reference.          *)
LEMMA NextFrameType == \A after \in BOOLEAN : NextFrame(after) \subseteq Candidates(after)
                                          /\ Candidates(after) \subseteq RefSlots
BY DEF NextFrame, Candidates, FirstLeast, FirstMost

(* The passes that build the lists type.                                   *)
LEMMA FormListsType ==
  ASSUME TypeOK, FormLists
  PROVE  TypeOK'
<1>1. UNCHANGED <<sh, dpbVars, picVars, refIdxL, predicted, encPred, overlong,
                  prevVars, decoded>>
  BY DEF FormLists, FormP, FirstPass, SecondPass
<1>2. ASSUME FormP PROVE lists' \in [0 .. 1 -> Seq(Buf)] /\ pc' \in Loops \union Ends
                         /\ l1' \in 0 .. 1 /\ start' \in Int
  <2> DEFINE full == IF sh.sps.pic_order_cnt_type = 2
                       THEN [i \in 1 .. size |-> dpb[i]] ELSE lists[0]
  <2>1. l1' \in 0 .. 1
    BY <1>2 DEF FormP, TypeOK
  <2>2. full \in Seq(Buf)
    BY RefsType, ListsType DEF TypeOK, RefSlots
  <2>3. CASE \E i \in NextFrame(FALSE) : Pick(i) /\ UNCHANGED pc
    BY <2>1, <2>3, PickType, NextFrameType DEF TypeOK
  <2>4. CASE CloseList(full, "modify") /\ UNCHANGED start
    <3> HIDE DEF full
    <3> QED
      BY <2>1, <2>2, <2>4, CloseListType DEF TypeOK, Loops, Ends
  <2> QED
    BY <1>2, <2>3, <2>4 DEF FormP
<1>3. ASSUME FirstPass PROVE lists' \in [0 .. 1 -> Seq(Buf)] /\ pc' \in Loops \union Ends
                             /\ l1' \in 0 .. 1 /\ start' \in Int
  <2>1. l1' \in 0 .. 1
    BY <1>3 DEF FirstPass, TypeOK
  <2>2. CASE pc' = "list_overrun" /\ UNCHANGED <<lists, start>>
    BY <2>1, <2>2 DEF TypeOK, Ends
  <2>3. CASE (\E i \in NextFrame(l1 = 1) : Pick(i)) /\ UNCHANGED pc
    BY <2>1, <2>3, PickType, NextFrameType DEF TypeOK
  <2>4. CASE pc' = "second_pass" /\ start' = poc[dpb[0]] /\ UNCHANGED lists
    BY <2>1, <2>4, RefsType DEF TypeOK, Loops
  <2> QED
    BY <1>3, <2>2, <2>3, <2>4 DEF FirstPass
<1>4. ASSUME SecondPass PROVE lists' \in [0 .. 1 -> Seq(Buf)] /\ pc' \in Loops \union Ends
                              /\ l1' \in 0 .. 1 /\ start' \in Int
  <2>1. CASE pc' = "list_overrun" /\ UNCHANGED <<lists, start, l1>>
    BY <2>1 DEF TypeOK, Ends
  <2>2. CASE (\E i \in NextFrame(l1 = 0) : Pick(i)) /\ UNCHANGED <<pc, l1>>
    BY <2>2, PickType, NextFrameType DEF TypeOK
  <2>3. CASE /\ CloseList(lists[l1], IF l1 = 0 THEN "first_pass" ELSE "modify")
             /\ start' = poc[dpb[0]] /\ l1' = 1 - l1
    <3>1. start' \in Int /\ l1' \in 0 .. 1
      BY <2>3, RefsType DEF TypeOK
    <3>2. lists' \in [0 .. 1 -> Seq(Buf)] /\ pc' \in {"list_short", "first_pass", "modify"}
      BY <2>3, ListsType, CloseListType
    <3> QED
      BY <3>1, <3>2 DEF Loops, Ends
  <2> QED
    BY <1>4, <2>1, <2>2, <2>3 DEF SecondPass
<1>5. lists' \in [0 .. 1 -> Seq(Buf)] /\ pc' \in Loops \union Ends
      /\ l1' \in 0 .. 1 /\ start' \in Int
  BY <1>2, <1>3, <1>4 DEF FormLists
<1> QED
  BY <1>1, <1>5 DEF TypeOK, dpbVars, picVars, prevVars

(* The commands carried out: an entry moves within its list, or beyond the *)
(* end of the list and a leftover comes in behind the others.              *)
Moved(n) ==
  /\ refIdxL < Len(lists[l1])
  /\ \E i \in Named(n) :
       /\ Named(n) = {i} /\ refIdxL < i
       /\ lists' = [lists EXCEPT ![l1] = MoveFrame(lists[l1], i, refIdxL + 1)]
  /\ refIdxL' = refIdxL + 1
  /\ UNCHANGED <<pc, overlong>>

MovedBeyond ==
  /\ refIdxL >= Len(lists[l1]) /\ refIdxL < NumSlots
  /\ \E i \in DOMAIN lists[l1], b \in Buf :
       lists' = [lists EXCEPT ![l1] = ClosedUp(lists[l1], i, b)]
  /\ refIdxL' = refIdxL + 1
  /\ overlong' = overlong \union {l1}
  /\ UNCHANGED pc

(* A command is carried out, or ends the process with the list as it was.  *)
CommandEnds ==
  /\ pc' \in {"remap", "null_frame", "list_array"}
  /\ overlong \subseteq overlong' /\ overlong' \subseteq overlong \union {l1}
  /\ UNCHANGED <<lists, refIdxL>>

LEMMA RemapCases ==
  ASSUME NEW n, Remap(n)
  PROVE  /\ \/ Moved(n)
            \/ CommandEnds /\ UNCHANGED overlong /\ pc' = "remap"
         /\ pc = "modify" /\ predicted' = n
         /\ UNCHANGED <<sh, dpbVars, picVars, l1, start, prevVars, decoded>>
<1>1. CASE \E i \in Named(n) : Named(n) = {i} /\ refIdxL < i
  <2>1. PICK i \in Named(n) : Named(n) = {i} /\ refIdxL < i
    BY <1>1
  <2>2. (CHOOSE j \in Named(n) : TRUE) = i
    BY <2>1
  <2>3. /\ lists' = [lists EXCEPT ![l1] = MoveFrame(@, CHOOSE j \in Named(n) : TRUE,
                                                     refIdxL + 1)]
        /\ refIdxL < Len(lists[l1]) /\ refIdxL' = refIdxL + 1
        /\ UNCHANGED <<pc, overlong>>
    BY <1>1 DEF Remap
  <2>4. lists' = [lists EXCEPT ![l1] = MoveFrame(lists[l1], i, refIdxL + 1)]
    BY <2>2, <2>3
  <2>5. Moved(n)
    BY <2>1, <2>3, <2>4 DEF Moved
  <2> QED
    BY <2>5 DEF Remap
<1>2. CASE ~\E i \in Named(n) : Named(n) = {i} /\ refIdxL < i
  BY <1>2 DEF Remap, CommandEnds
<1> QED
  BY <1>1, <1>2 DEF Remap

LEMMA RemapBeyondCases ==
  ASSUME NEW n, RemapBeyond(n)
  PROVE  /\ MovedBeyond \/ CommandEnds
         /\ pc = "modify" /\ predicted' = n
         /\ UNCHANGED <<sh, dpbVars, picVars, l1, start, prevVars, decoded>>
<1>1. CASE /\ pc' \in {"remap", "null_frame", "list_array"}
           /\ UNCHANGED <<lists, refIdxL>>
  BY <1>1 DEF RemapBeyond, CommandEnds
<1>2. CASE /\ refIdxL < NumSlots /\ refIdxL' = refIdxL + 1 /\ UNCHANGED pc
           /\ \E first \in Named(n), leftover \in Buf :
                lists' = [lists EXCEPT ![l1] = ClosedUp(lists[l1], first, leftover)]
  BY <1>2 DEF RemapBeyond, MovedBeyond, Named
<1> QED
  BY <1>1, <1>2 DEF RemapBeyond

(* The number a command names, and what any command may do.                *)
LEMMA ModifyCases ==
  ASSUME TypeOK, Modify
  PROVE  \/ EndRemap
         \/ /\ ~Conforming \/ UNCHANGED overlong
            /\ \/ \E n \in 0 .. MaxFrameNum - 1 : Moved(n)
               \/ MovedBeyond
               \/ CommandEnds
            /\ pc = "modify" /\ predicted' \in 0 .. MaxFrameNum - 1
            /\ encPred' \in 0 .. MaxFrameNum - 1
            /\ UNCHANGED <<sh, dpbVars, picVars, l1, start, prevVars, decoded>>
<1>1. ASSUME NEW t \in Refs
      PROVE  /\ num[t] \in 0 .. MaxFrameNum - 1
             /\ (predicted + num[t] - encPred) % MaxFrameNum \in 0 .. MaxFrameNum - 1
  <2>1. num[t] \in 0 .. MaxFrameNum - 1
    BY RefsType DEF TypeOK
  <2>2. predicted + num[t] - encPred \in Int
    BY <2>1, StreamAssumption DEF TypeOK
  <2> QED
    BY <2>1, <2>2, FrameNumMod
<1>2. ASSUME NEW t \in Refs, Command(t)
      PROVE  /\ UNCHANGED overlong
             /\ (\E n \in 0 .. MaxFrameNum - 1 : Moved(n)) \/ CommandEnds
             /\ pc = "modify" /\ predicted' \in 0 .. MaxFrameNum - 1
             /\ encPred' \in 0 .. MaxFrameNum - 1
             /\ UNCHANGED <<sh, dpbVars, picVars, l1, start, prevVars, decoded>>
  <2> DEFINE n == (predicted + num[t] - encPred) % MaxFrameNum
  <2>1. n \in 0 .. MaxFrameNum - 1 /\ encPred' \in 0 .. MaxFrameNum - 1 /\ Remap(n)
    BY <1>1, <1>2 DEF Command
  <2> HIDE DEF n
  <2> QED
    BY <2>1, RemapCases DEF Moved
<1>3. ASSUME AnyCommand
      PROVE  /\ \/ \E n \in 0 .. MaxFrameNum - 1 : Moved(n)
                \/ MovedBeyond
                \/ CommandEnds
             /\ pc = "modify" /\ predicted' \in 0 .. MaxFrameNum - 1
             /\ encPred' \in 0 .. MaxFrameNum - 1
             /\ UNCHANGED <<sh, dpbVars, picVars, l1, start, prevVars, decoded>>
  <2>1. PICK n \in 0 .. MaxFrameNum - 1 : Remap(n) \/ RemapBeyond(n)
    BY <1>3 DEF AnyCommand
  <2>2. encPred' \in 0 .. MaxFrameNum - 1
    BY <1>3 DEF AnyCommand, TypeOK
  <2> QED
    BY <2>1, <2>2, RemapCases, RemapBeyondCases
<1> QED
  BY <1>2, <1>3 DEF Modify

(* The list of a surplus command has buffers for entries, as many.         *)
LEMMA ClosedUpType ==
  ASSUME NEW list \in Seq(Buf), NEW i \in DOMAIN list, NEW b \in Buf
  PROVE  ClosedUp(list, i, b) \in Seq(Buf) /\ Len(ClosedUp(list, i, b)) = Len(list)
<1> DEFINE longer == Append(list, b)
           moved  == MoveFrame(longer, i, Len(list) + 1)
<1>1. longer \in Seq(Buf) /\ Len(longer) = Len(list) + 1 /\ Len(list) \in Nat
      /\ i \in 1 .. Len(list)
  OBVIOUS
<1> HIDE DEF longer
<1>2. moved \in Seq(Buf) /\ Len(moved) = Len(list) + 1
  <2>1. i \in 1 .. Len(longer) /\ Len(list) + 1 \in 1 .. Len(longer)
    BY <1>1
  <2> QED
    BY <1>1, <2>1, MoveInListType
<1> HIDE DEF moved
<1>3. Truncate(moved, Len(list)) \in Seq(Buf) /\ Len(Truncate(moved, Len(list))) = Len(list)
  <2>1. Len(list) \in Nat /\ Len(list) <= Len(moved) /\ moved \in Seq(Buf)
    BY <1>1, <1>2
  <2> QED
    BY <2>1, TruncateType
<1> QED
  BY <1>3 DEF ClosedUp, moved, longer

(* A modification command types: the entry moved is one of the list.       *)
LEMMA CommandType ==
  ASSUME TypeOK, Modify, ~EndRemap
  PROVE  TypeOK'
<1>1. lists[l1] \in Seq(Buf) /\ l1 \in 0 .. 1 /\ refIdxL \in Nat
  BY ListsType DEF TypeOK
<1>2. /\ predicted' \in 0 .. MaxFrameNum - 1 /\ encPred' \in 0 .. MaxFrameNum - 1
      /\ UNCHANGED <<sh, dpbVars, picVars, l1, start, prevVars, decoded>>
      /\ (\E n \in 0 .. MaxFrameNum - 1 : Moved(n)) \/ MovedBeyond \/ CommandEnds
  BY ModifyCases
<1>3. /\ lists' \in [0 .. 1 -> Seq(Buf)] /\ refIdxL' \in Nat
      /\ pc' \in Loops \union Ends /\ overlong' \subseteq 0 .. 1
  <2>1. ASSUME NEW n, Moved(n)
        PROVE  lists' \in [0 .. 1 -> Seq(Buf)] /\ refIdxL' \in Nat
    <3>1. PICK i \in Named(n) :
            lists' = [lists EXCEPT ![l1] = MoveFrame(lists[l1], i, refIdxL + 1)]
      BY <2>1 DEF Moved
    <3>2. i \in 1 .. Len(lists[l1]) /\ refIdxL + 1 \in 1 .. Len(lists[l1])
      BY <1>1, <2>1 DEF Moved, Named
    <3>3. MoveFrame(lists[l1], i, refIdxL + 1) \in Seq(Buf)
      BY <1>1, <3>2, MoveInListType
    <3> QED
      BY <1>1, <2>1, <3>1, <3>3 DEF Moved, TypeOK
  <2>2. ASSUME MovedBeyond
        PROVE  lists' \in [0 .. 1 -> Seq(Buf)] /\ refIdxL' \in Nat
    <3>1. PICK i \in DOMAIN lists[l1], b \in Buf :
            lists' = [lists EXCEPT ![l1] = ClosedUp(lists[l1], i, b)]
      BY <2>2 DEF MovedBeyond
    <3>2. ClosedUp(lists[l1], i, b) \in Seq(Buf)
      BY <1>1, ClosedUpType
    <3>3. refIdxL' \in Nat
      BY <1>1, <2>2 DEF MovedBeyond
    <3>4. lists \in [0 .. 1 -> Seq(Buf)]
      BY DEF TypeOK
    <3> QED
      BY <3>1, <3>2, <3>3, <3>4
  <2>3. CASE \E n \in 0 .. MaxFrameNum - 1 : Moved(n)
    BY <2>1, <2>3 DEF Moved, TypeOK
  <2>4. CASE MovedBeyond
    BY <1>1, <2>2, <2>4 DEF MovedBeyond, TypeOK
  <2>5. CASE CommandEnds
    BY <1>1, <2>5 DEF CommandEnds, TypeOK, Ends
  <2> QED
    BY <1>2, <2>3, <2>4, <2>5
<1> QED
  BY <1>2, <1>3 DEF TypeOK, dpbVars, picVars, prevVars

(* The end of the header, the set-up of the frame and the engine type.     *)
LEMMA ModifyMarkingType ==
  ASSUME TypeOK, EndRemap \/ Marking \/ Decode \/ UnsupportedSyntax
  PROVE  TypeOK'
<1>1. CASE EndRemap
  BY <1>1, HeaderType DEF EndRemap, TypeOK, Loops, dpbVars, picVars, prevVars
<1>2. CASE Marking
  <2>1. ASSUME NEW t \in Refs, Mark(t) PROVE TypeOK'
    <3>1. marked' \in {marked, marked \union {t}} /\ pc' \in {pc, "mmco"}
      BY <2>1 DEF Mark
    <3>2. marked' \subseteq Buf /\ pc' \in Loops \union Ends
      BY <3>1, RefsType DEF TypeOK, Ends
    <3> QED
      BY <2>1, <3>2 DEF Mark, TypeOK, picVars, listVars, prevVars
  <2>2. ASSUME EndHeader PROVE TypeOK'
    BY <2>2 DEF EndHeader, TypeOK, Loops, dpbVars, picVars, listVars, prevVars
  <2> QED
    BY <1>2, <2>1, <2>2 DEF Marking
<1>3. CASE Setup
  <2>1. pc' \in Loops \union Ends
    BY <1>3 DEF Setup, Loops, Ends
  <2>2. filled' \subseteq Buf
    BY <1>3 DEF Setup, FilledOnceSized, TypeOK
  <2> QED
    BY <1>3, <2>1, <2>2 DEF Setup, TypeOK, picVars, listVars, prevVars
<1>4. CASE Complete
  BY <1>4 DEF Complete, TypeOK, Loops, dpbVars, picVars, listVars, prevVars
<1>5. CASE Stuck \/ UnsupportedSyntax
  BY <1>5 DEF Stuck, UnsupportedSyntax, End, TypeOK, Ends, dpbVars, picVars, listVars, prevVars
<1> QED
  BY <1>1, <1>2, <1>3, <1>4, <1>5 DEF Decode

(* move_frame between two slots types.                                     *)
LEMMA MoveInDpb ==
  ASSUME TypeOK, NEW i \in Slots, NEW to \in Slots
  PROVE  MoveFrame(dpb, i, to) \in [Slots -> Buf]
<1>1. /\ dpb \in [0 .. NumSlots - 1 -> Buf] /\ 0 \in Nat /\ NumSlots - 1 \in Int
      /\ i \in 0 .. NumSlots - 1 /\ to \in 0 .. NumSlots - 1
  BY SlotsAssumption DEF Slots, TypeOK
<1> QED
  BY <1>1, MoveFrameType DEF Slots

(* Purging and sliding type: size stays below the number of slots.         *)
LEMMA RetireType ==
  ASSUME TypeOK, Retire
  PROVE  TypeOK'
<1>1. CASE Purge
  <2>1. PICK i \in RefSlots :
          /\ dpb' = MoveFrame(dpb, i, size) /\ size' = size - 1
          /\ filled' = filled \ {dpb[i]} /\ marked' = marked \ {dpb[i]}
          /\ wrapped' = wrapped \ {dpb[i]}
          /\ pc' = IF dpb[i] \in filled THEN "purge" ELSE "clear_frame"
    BY <1>1 DEF Purge
  <2>2. i \in Slots /\ size \in Slots /\ size \in Nat /\ size > 0
    BY RefsType DEF RefSlots, Slots
  <2>3. dpb' \in [Slots -> Buf]
    BY <2>1, <2>2, MoveInDpb
  <2>4. size' \in 0 .. NumSlots - 1 /\ pc' \in Loops \union Ends
    BY <2>1, <2>2, SlotsAssumption DEF TypeOK, Loops, Ends
  <2> QED
    BY <1>1, <2>1, <2>3, <2>4 DEF Purge, TypeOK, picVars, listVars, prevVars
<1>2. ASSUME EndSlice
      PROVE  /\ lists' \in [0 .. 1 -> Seq(Buf)] /\ l1' \in 0 .. 1 /\ start' \in Int
             /\ refIdxL' \in Nat /\ predicted' \in 0 .. MaxFrameNum - 1
             /\ encPred' \in 0 .. MaxFrameNum - 1 /\ overlong' \subseteq 0 .. 1
             /\ UNCHANGED <<sh, picVars, prevVars, decoded>>
  BY <1>2, StreamAssumption DEF EndSlice
<1>3. CASE Slide
  <2> DEFINE window == sh.sps.max_num_ref_frames
  <2>1. pc' \in Loops \union Ends
    BY <1>3 DEF Slide, Loops, Ends
  <2>2. CASE UNCHANGED dpbVars
    BY <1>2, <1>3, <2>1, <2>2 DEF Slide, TypeOK, dpbVars, picVars, prevVars
  <2>3. CASE /\ window \in Slots
             /\ dpb' = MoveFrame(dpb, window, 0)
             /\ filled' \subseteq filled /\ marked' \subseteq marked /\ wrapped' \subseteq wrapped
             /\ size' = IF size < window THEN size + 1 ELSE size
    <3>1. dpb' \in [Slots -> Buf]
      BY <2>3, RefsType, MoveInDpb
    <3>2. size' \in 0 .. NumSlots - 1
      <4>1. window \in 0 .. NumSlots - 1
        BY <2>3 DEF Slots
      <4>2. size' = IF size < window THEN size + 1 ELSE size
        BY <2>3
      <4>3. NumSlots \in Nat /\ size \in 0 .. NumSlots - 1
        BY RefsType DEF TypeOK
      <4> HIDE DEF window
      <4> QED
        BY <4>1, <4>2, <4>3
    <3> QED
      BY <1>2, <1>3, <2>1, <2>3, <3>1, <3>2 DEF Slide, TypeOK, picVars, prevVars
  <2> QED
    BY <1>3, <2>2, <2>3 DEF Slide
<1>4. CASE NoSlide
  BY <1>2, <1>4 DEF NoSlide, TypeOK, Loops, dpbVars, picVars, prevVars
<1> QED
  BY <1>1, <1>3, <1>4 DEF Retire

(* Every step types.                                                       *)
LEMMA TypeStep == TypeOK /\ [Next]_vars => TypeOK'
<1> SUFFICES ASSUME TypeOK, [Next]_vars PROVE TypeOK'
  OBVIOUS
<1>1. ASSUME NEW h \in Header, NEW lsb \in Lsbs, ParseHeader(h, lsb) PROVE TypeOK'
  BY <1>1, ParseHeaderType
<1>2. CASE Modify
  BY <1>2, CommandType, ModifyMarkingType
<1>3. CASE UNCHANGED vars
  BY <1>3 DEF TypeOK, vars, dpbVars, picVars, listVars, prevVars
<1> QED
  BY <1>1, <1>2, <1>3, FormListsType, ModifyMarkingType, RetireType
  DEF Next, Ended

(* Every reachable state is well typed: in particular size stays below the *)
(* number of slots and every list entry is a buffer.                       *)
THEOREM TypeCorrect == Spec => []TypeOK
BY InitType, TypeStep, PTL DEF Spec

-----------------------------------------------------------------------------
(***************************************************************************)
(* The inductive invariant.                                                *)
(***************************************************************************)
LEMMA InitIInv == Init => IInv
<1> SUFFICES ASSUME Init PROVE IInv
  OBVIOUS
<1>1. TypeOK
  BY InitType
<1>2. SlotsDistinct
  BY DEF Init, SlotsDistinct
<1>3. Occupancy /\ AssertionsHold /\ PassOrder
  BY DEF Init, Occupancy, AssertionsHold, PassOrder
<1>4. lists[0] = << >> /\ lists[1] = << >>
  BY DEF Init
<1>5. ListsHeld
  BY <1>4 DEF ListsHeld
<1>6. LoopsReady
  BY <1>4 DEF Init, LoopsReady, Loops
<1> QED
  BY <1>1, <1>2, <1>3, <1>5, <1>6 DEF IInv

(* Sharing no buffer between slots survives any move along the slots.      *)
LEMMA MoveKeepsDistinct ==
  ASSUME TypeOK, SlotsDistinct, NEW i \in Slots, NEW to \in Slots,
         dpb' = MoveFrame(dpb, i, to)
  PROVE  SlotsDistinct'
<1>1. dpb \in [0 .. NumSlots - 1 -> Buf] /\ 0 \in Nat /\ NumSlots - 1 \in Int
  BY RefsType DEF TypeOK, Slots
<1>2. \A k, m \in 0 .. NumSlots - 1 :
        MoveFrame(dpb, i, to)[k] = MoveFrame(dpb, i, to)[m] => k = m
  BY <1>1, MoveFrameInjective DEF SlotsDistinct, Slots
<1> QED
  BY <1>2 DEF SlotsDistinct, Slots

(* References and the current picture are different buffers.               *)
LEMMA CurrentApart ==
  ASSUME TypeOK, SlotsDistinct
  PROVE  dpb[0] \notin Refs
BY RefsType DEF SlotsDistinct, Refs

(* Before the buffers are sized nothing is held; after that exactly the    *)
(* references are filled, at the start of a slice and while it lasts.      *)
LEMMA HeldFilled ==
  ASSUME TypeOK, Occupancy, pc \notin Ends
  PROVE  Refs \subseteq filled
<1>1. CASE decoded \/ pc = "run"
  BY <1>1, RefsType DEF Occupancy, Refs
<1>2. CASE ~(decoded \/ pc = "run")
  BY <1>2 DEF Occupancy, Refs, RefSlots
<1> QED
  BY <1>1, <1>2

(* The header keeps the invariant: an IDR picture frees what was held, and *)
(* the pass it starts has listed nothing yet.                              *)
LEMMA ParseHeaderInv ==
  ASSUME IInv, NEW h \in Header, NEW lsb \in Lsbs, ParseHeader(h, lsb)
  PROVE  IInv'
<1> USE DEF IInv
<1>1. TypeOK'
  BY ParseHeaderType
<1>2. /\ pc = "nal" /\ pc' \in {"clear_frame", "frame_num_gap", "form_P", "first_pass", "marking"}
      /\ UNCHANGED <<dpb, lists, l1, refIdxL, decoded>>
      /\ size' = (IF h.idr THEN 0 ELSE size)
      /\ filled' = (filled \ (IF h.idr THEN Refs ELSE {})) \union {dpb[0]}
      /\ pc' = "form_P" => start' = IntMax
      /\ pc' = "first_pass" => start' = poc'[dpb[0]]
  <2>1. dpb[0] \in Buf /\ poc \in [Buf -> Int]
    BY RefsType DEF TypeOK
  <2>2. pc' = "form_P" => h.type = "P"
    BY DEF ParseHeader
  <2>3. pc' = "first_pass" => h.type = "B" /\ h.type # "P"
    BY DEF ParseHeader
  <2> QED
    BY <2>1, <2>2, <2>3 DEF ParseHeader
<1>3. SlotsDistinct'
  BY <1>2 DEF SlotsDistinct
<1>4. lists[0] = << >> /\ lists[1] = << >> /\ l1 = 0 /\ lists[l1] = << >>
  BY <1>2 DEF LoopsReady
<1>5. ListsHeld' /\ PassOrder'
  <2>1. ListsHeld'
    BY <1>2, <1>4 DEF ListsHeld
  <2>2. pc' = "first_pass" => start' \in Int /\ start' = poc'[dpb'[0]]
    BY <1>1, <1>2 DEF TypeOK
  <2> QED
    BY <1>2, <1>4, <2>1, <2>2 DEF PassOrder
<1>6. Refs \subseteq filled
  BY <1>2, HeldFilled DEF Ends
<1>7. AssertionsHold'
  <2>1. pc' # "clear_frame"
    BY <1>6 DEF ParseHeader
  <2> QED
    BY <1>2, <2>1 DEF AssertionsHold
<1>8. Occupancy'
  <2>1. CASE ~decoded
    BY <1>2, <2>1 DEF Occupancy
  <2>2. CASE decoded
    <3>1. \A i \in Slots \ {0} : dpb[i] \in filled <=> i \in 1 .. size
      BY <1>2, <2>2 DEF Occupancy, Ends, RefSlots
    <3>2. \A i \in Slots \ {0} : dpb[i] # dpb[0]
      BY RefsType DEF SlotsDistinct
    <3>3. \A i \in Slots \ {0} : dpb[i] \in Refs => i \in 1 .. size
      BY RefsType DEF SlotsDistinct, Refs, RefSlots
    <3>4. \A i \in Slots \ {0} : i \in 1 .. size => dpb[i] \in Refs
      BY DEF Refs, RefSlots
    <3>5. \A i \in Slots \ {0} : dpb'[i] \in filled' <=> i \in 1 .. size'
      BY <1>2, <3>1, <3>2, <3>3, <3>4
    <3> QED
      BY <1>2, <2>2, <3>5 DEF Occupancy, RefSlots
  <2> QED
    BY <2>1, <2>2 DEF TypeOK
<1>9. LoopsReady'
  <2>1. overlong' = {}
    BY <1>2 DEF ParseHeader, LoopsReady
  <2> QED
    BY <1>2, <1>4, <2>1 DEF LoopsReady, TypeOK
<1> QED
  BY <1>1, <1>3, <1>5, <1>7, <1>8, <1>9

(* A list of held pictures, each once.                                     *)
HeldOnce(list) ==
  /\ \A k \in DOMAIN list : list[k] \in Refs
  /\ \A k, m \in DOMAIN list : list[k] = list[m] => k = m

(* A step that leaves the buffer alone and is not the start of the engine  *)
(* keeps everything said of the slots.                                     *)
LEMMA SlotsKept ==
  ASSUME IInv, UNCHANGED <<dpb, size, filled, decoded>>,
         pc # "run", pc' # "run", pc \notin Ends
  PROVE  SlotsDistinct' /\ Occupancy' /\ Refs' = Refs
BY DEF IInv, SlotsDistinct, Occupancy, RefSlots, Refs

(* A list changed to one of the pictures still held keeps ListsHeld.       *)
LEMMA ListReplaced ==
  ASSUME IInv, pc # "purge", Refs' = Refs, NEW list,
         l1 \notin overlong => HeldOnce(list),
         lists' = [lists EXCEPT ![l1] = list], overlong \subseteq overlong'
  PROVE  ListsHeld'
<1>1. ASSUME NEW l \in (0 .. 1) \ overlong PROVE HeldOnce(lists'[l])
  <2>1. HeldOnce(lists[l])
    BY <1>1 DEF IInv, ListsHeld, HeldOnce
  <2>2. lists'[l] = IF l = l1 THEN list ELSE lists[l]
    BY <1>1 DEF IInv, TypeOK
  <2> QED
    BY <2>1, <2>2
<1> QED
  BY <1>1 DEF ListsHeld, HeldOnce

(* The picture a pass takes is held, and beyond all those it has listed,   *)
(* so it is listed once.                                                   *)
LEMMA PickHeld ==
  ASSUME IInv, pc # "purge", Refs' = Refs, NEW i \in RefSlots, Pick(i),
         UNCHANGED overlong, overlong = {},
         \A k \in DOMAIN lists[l1] : poc[lists[l1][k]] # poc[dpb[i]]
  PROVE  /\ ListsHeld'
         /\ start' = poc[dpb[i]]
         /\ lists' = [lists EXCEPT ![l1] = Append(lists[l1], dpb[i])]
<1> DEFINE list == Append(lists[l1], dpb[i])
<1>1. lists[l1] \in Seq(Buf) /\ HeldOnce(lists[l1]) /\ l1 \in 0 .. 1
  BY ListsType DEF IInv, TypeOK, ListsHeld, HeldOnce
<1>2. dpb[i] \in Refs /\ dpb[i] \in Buf
  BY RefsType DEF IInv, Refs, TypeOK
<1>3. HeldOnce(list)
  <2>1. DOMAIN list = 1 .. Len(lists[l1]) + 1 /\ Len(lists[l1]) \in Nat
        /\ DOMAIN lists[l1] = 1 .. Len(lists[l1])
    BY <1>1, <1>2
  <2>2. \A k \in DOMAIN list : list[k] = IF k \in DOMAIN lists[l1] THEN lists[l1][k] ELSE dpb[i]
    BY <1>1, <1>2, <2>1
  <2>3. \A k \in DOMAIN lists[l1] : lists[l1][k] # dpb[i]
    OBVIOUS
  <2> HIDE DEF list
  <2>4. \A k \in DOMAIN list : list[k] \in Refs
    BY <1>1, <1>2, <2>2 DEF HeldOnce
  <2>5. \A k, m \in DOMAIN list : list[k] = list[m] => k = m
    BY <1>1, <2>1, <2>2, <2>3 DEF HeldOnce
  <2> QED
    BY <2>4, <2>5 DEF HeldOnce
<1>4. lists' = [lists EXCEPT ![l1] = list] /\ start' = poc[dpb[i]]
  BY DEF Pick
<1> HIDE DEF list
<1>5. ListsHeld'
  BY <1>3, <1>4, ListReplaced
<1> QED
  BY <1>4, <1>5 DEF list

(* Cutting a list keeps it within the references.                          *)
LEMMA CloseListHeld ==
  ASSUME IInv, pc # "purge", Refs' = Refs, NEW list \in Seq(Buf), HeldOnce(list),
         UNCHANGED overlong, NEW next, CloseList(list, next)
  PROVE  /\ ListsHeld'
         /\ pc' \in {"list_short", next}
         /\ lists'[1 - l1] = lists[1 - l1]
<1> l1 \in 0 .. 1 /\ lists \in [0 .. 1 -> Seq(Buf)]
  BY DEF IInv, TypeOK
<1>1. CASE Len(list) < ActiveRefs(l1)
  <2>1. lists' = lists /\ pc' = "list_short"
    BY <1>1 DEF CloseList
  <2> QED
    BY <2>1 DEF IInv, ListsHeld
<1>2. CASE ~(Len(list) < ActiveRefs(l1))
  <2> DEFINE cut == Truncate(list, ActiveRefs(l1))
  <2>1. ActiveRefs(l1) \in Nat /\ ActiveRefs(l1) <= Len(list) /\ Len(list) \in Nat
    BY <1>2, ListsType DEF IInv
  <2>2. /\ DOMAIN cut = 1 .. ActiveRefs(l1)
        /\ \A k \in 1 .. ActiveRefs(l1) : cut[k] = list[k] /\ k \in DOMAIN list
    BY <2>1 DEF Truncate
  <2>3. lists' = [lists EXCEPT ![l1] = cut] /\ pc' = next
    BY <1>2 DEF CloseList
  <2> HIDE DEF cut
  <2>4. HeldOnce(cut)
    BY <2>2 DEF HeldOnce
  <2>5. ListsHeld'
    BY <2>3, <2>4, ListReplaced
  <2> QED
    BY <2>3, <2>5
<1> QED
  BY <1>1, <1>2

(* The counts in the list at work after a pick.                            *)
LEMMA PickedCounts ==
  ASSUME TypeOK, NEW i \in RefSlots, NEW k \in DOMAIN Append(lists[l1], dpb[i])
  PROVE  LET e == Append(lists[l1], dpb[i])[k]
         IN  e = dpb[i] \/ \E m \in DOMAIN lists[l1] : e = lists[l1][m]
BY ListsType

(* The counts the passes compare are integers.                             *)
LEMMA CountsType ==
  ASSUME TypeOK
  PROVE  /\ \A i \in RefSlots : poc[dpb[i]] \in Int
         /\ \A k \in DOMAIN lists[l1] : poc[lists[l1][k]] \in Int
         /\ poc[dpb[0]] \in Int /\ start \in Int
BY ListsType, RefsType DEF TypeOK

(* The loop of form_P_frame_ref_list_l0 keeps the invariant.               *)
LEMMA FormPInv ==
  ASSUME IInv, FormP
  PROVE  IInv'
<1> USE DEF IInv
<1>1. TypeOK'
  BY FormListsType DEF FormLists
<1>2. /\ UNCHANGED <<sh, dpb, size, filled, marked, wrapped, num, poc, l1, decoded>>
      /\ pc = "form_P" /\ l1 = 0 /\ l1 \in 0 .. 1
      /\ overlong = {} /\ overlong' = {}
      /\ lists \in [0 .. 1 -> Seq(Buf)]
  BY DEF FormP, dpbVars, picVars, PassOrder, TypeOK, LoopsReady
<1> DEFINE full == IF sh.sps.pic_order_cnt_type = 2
                     THEN [i \in 1 .. size |-> dpb[i]] ELSE lists[0]
<1>3. CASE \E i \in NextFrame(FALSE) : Pick(i) /\ UNCHANGED pc
  <2>1. PICK i \in NextFrame(FALSE) : Pick(i) /\ UNCHANGED pc
    BY <1>3
  <2>2. i \in RefSlots /\ poc[dpb[i]] < start
    BY <2>1, NextFrameType DEF Candidates
  <2>3. SlotsDistinct' /\ Occupancy' /\ Refs' = Refs
    BY <1>2, <2>1, SlotsKept DEF Ends
  <2>4. \A k \in DOMAIN lists[l1] : poc[lists[l1][k]] >= start
    BY <1>2 DEF PassOrder
  <2>5. \A k \in DOMAIN lists[l1] : poc[lists[l1][k]] # poc[dpb[i]]
    BY <2>2, <2>4, CountsType
  <2>6. /\ ListsHeld' /\ start' = poc[dpb[i]]
        /\ lists' = [lists EXCEPT ![l1] = Append(lists[l1], dpb[i])]
    BY <1>2, <2>1, <2>2, <2>3, <2>5, PickHeld
  <2>7. lists'[l1'] = Append(lists[l1], dpb[i])
    BY <1>2, <2>6
  <2>8. \A k \in DOMAIN lists'[l1'] : poc[lists'[l1'][k]] >= start'
    BY <2>2, <2>4, <2>6, <2>7, PickedCounts, CountsType
  <2>9. PassOrder'
    BY <1>2, <2>1, <2>8 DEF PassOrder
  <2>10. AssertionsHold' /\ LoopsReady'
    BY <1>2, <2>1 DEF AssertionsHold, LoopsReady, Loops
  <2> QED
    BY <1>1, <2>3, <2>6, <2>9, <2>10
<1>4. CASE CloseList(full, "modify") /\ UNCHANGED start
  <2>1. full \in Seq(Buf)
    <3>1. \A i \in 1 .. size : dpb[i] \in Buf
      BY RefsType DEF TypeOK, RefSlots
    <3> QED
      BY <3>1, RefsType, ListsType
  <2>2. HeldOnce(full)
    <3>1. CASE sh.sps.pic_order_cnt_type = 2
      <4>1. full = [i \in 1 .. size |-> dpb[i]]
        BY <3>1
      <4>2. \A i, j \in 1 .. size : dpb[i] \in Refs /\ (dpb[i] = dpb[j] => i = j)
        BY RefsType DEF Refs, RefSlots, SlotsDistinct
      <4> HIDE DEF full
      <4> QED
        BY <4>1, <4>2 DEF HeldOnce
    <3>2. CASE ~(sh.sps.pic_order_cnt_type = 2)
      BY <1>2, <3>2 DEF HeldOnce, ListsHeld
    <3> QED
      BY <3>1, <3>2
  <2> HIDE DEF full
  <2>3. Refs' = Refs
    BY <1>2 DEF Refs, RefSlots
  <2>4. ListsHeld' /\ pc' \in {"list_short", "modify"}
    BY <1>2, <1>4, <2>1, <2>2, <2>3, CloseListHeld
  <2>5. SlotsDistinct' /\ Occupancy'
    BY <1>2, <2>4, SlotsKept DEF Ends
  <2>6. PassOrder' /\ AssertionsHold' /\ LoopsReady'
    BY <1>2, <2>4 DEF PassOrder, AssertionsHold, LoopsReady, Loops
  <2> QED
    BY <1>1, <2>4, <2>5, <2>6
<1> QED
  BY <1>3, <1>4 DEF FormP

(* The near side of a B list keeps the invariant.                          *)
LEMMA FirstPassInv ==
  ASSUME IInv, FirstPass
  PROVE  IInv'
<1> USE DEF IInv
<1>1. TypeOK'
  BY FormListsType DEF FormLists
<1>2. /\ UNCHANGED <<sh, dpb, size, filled, marked, wrapped, num, poc, l1, decoded>>
      /\ pc = "first_pass" /\ l1 \in 0 .. 1
      /\ overlong = {} /\ overlong' = {}
      /\ lists \in [0 .. 1 -> Seq(Buf)]
  BY DEF FirstPass, dpbVars, picVars, TypeOK, LoopsReady
<1>3. Refs' = Refs
  BY <1>2 DEF Refs, RefSlots
<1>4. CASE pc' = "list_overrun" /\ UNCHANGED <<lists, start>>
  BY <1>1, <1>2, <1>3, <1>4, SlotsKept
  DEF ListsHeld, PassOrder, AssertionsHold, LoopsReady, Loops, Ends
<1>5. CASE (\E i \in NextFrame(l1 = 1) : Pick(i)) /\ UNCHANGED pc
  <2>1. PICK i \in NextFrame(l1 = 1) : Pick(i)
    BY <1>5
  <2>2. i \in RefSlots /\ IF l1 = 1 THEN poc[dpb[i]] > start ELSE poc[dpb[i]] < start
    BY <2>1, NextFrameType DEF Candidates
  <2>3. SlotsDistinct' /\ Occupancy'
    BY <1>2, <1>5, SlotsKept DEF Ends
  <2>4. IF l1 = 0
          THEN /\ start <= poc[dpb[0]]
               /\ \A k \in DOMAIN lists[l1] :
                    start <= poc[lists[l1][k]] /\ poc[lists[l1][k]] < poc[dpb[0]]
          ELSE /\ start >= poc[dpb[0]]
               /\ \A k \in DOMAIN lists[l1] :
                    poc[dpb[0]] < poc[lists[l1][k]] /\ poc[lists[l1][k]] <= start
    BY <1>2 DEF PassOrder
  <2>5. \A k \in DOMAIN lists[l1] : poc[lists[l1][k]] # poc[dpb[i]]
    BY <1>2, <2>2, <2>4, CountsType
  <2>6. /\ ListsHeld' /\ start' = poc[dpb[i]]
        /\ lists' = [lists EXCEPT ![l1] = Append(lists[l1], dpb[i])]
    BY <1>2, <1>3, <2>1, <2>2, <2>5, PickHeld
  <2>7. lists'[l1'] = Append(lists[l1], dpb[i])
    BY <1>2, <2>6
  <2>8. IF l1 = 0
          THEN /\ start' <= poc[dpb[0]]
               /\ \A k \in DOMAIN lists'[l1'] :
                    start' <= poc[lists'[l1'][k]] /\ poc[lists'[l1'][k]] < poc[dpb[0]]
          ELSE /\ start' >= poc[dpb[0]]
               /\ \A k \in DOMAIN lists'[l1'] :
                    poc[dpb[0]] < poc[lists'[l1'][k]] /\ poc[lists'[l1'][k]] <= start'
    BY <1>2, <2>2, <2>4, <2>6, <2>7, PickedCounts, CountsType
  <2>9. PassOrder'
    BY <1>2, <1>5, <2>8 DEF PassOrder
  <2>10. lists'[1] = lists[1] \/ l1 = 1
    BY <1>2, <2>6
  <2>11. AssertionsHold' /\ LoopsReady'
    BY <1>2, <1>5, <2>10 DEF AssertionsHold, LoopsReady, Loops
  <2> QED
    BY <1>1, <2>3, <2>6, <2>9, <2>11
<1>6. CASE pc' = "second_pass" /\ start' = poc[dpb[0]] /\ UNCHANGED lists
  <2>1. SlotsDistinct' /\ Occupancy'
    BY <1>2, <1>6, SlotsKept DEF Ends
  <2>2. ListsHeld' /\ AssertionsHold' /\ LoopsReady'
    BY <1>2, <1>3, <1>6 DEF ListsHeld, AssertionsHold, LoopsReady, Loops
  <2>3. PassOrder'
    <3>1. \A k \in DOMAIN lists[l1] :
            IF l1 = 0 THEN poc[lists[l1][k]] < poc[dpb[0]] ELSE poc[dpb[0]] < poc[lists[l1][k]]
      BY <1>2 DEF PassOrder
    <3> QED
      BY <1>2, <1>6, <3>1, CountsType DEF PassOrder
  <2> QED
    BY <1>1, <2>1, <2>2, <2>3
<1> QED
  BY <1>4, <1>5, <1>6 DEF FirstPass

(* The far side of a B list, and the turn to list 1, keep the invariant.   *)
LEMMA SecondPassInv ==
  ASSUME IInv, SecondPass
  PROVE  IInv'
<1> USE DEF IInv
<1>1. TypeOK'
  BY FormListsType DEF FormLists
<1>2. /\ UNCHANGED <<sh, dpb, size, filled, marked, wrapped, num, poc, decoded>>
      /\ pc = "second_pass" /\ l1 \in 0 .. 1
      /\ overlong = {} /\ overlong' = {}
      /\ lists \in [0 .. 1 -> Seq(Buf)]
  BY DEF SecondPass, dpbVars, picVars, TypeOK, LoopsReady
<1>3. Refs' = Refs
  BY <1>2 DEF Refs, RefSlots
<1>4. CASE pc' = "list_overrun" /\ UNCHANGED <<lists, start, l1>>
  BY <1>1, <1>2, <1>3, <1>4, SlotsKept
  DEF ListsHeld, PassOrder, AssertionsHold, LoopsReady, Loops, Ends
<1>5. CASE (\E i \in NextFrame(l1 = 0) : Pick(i)) /\ UNCHANGED <<pc, l1>>
  <2>1. PICK i \in NextFrame(l1 = 0) : Pick(i)
    BY <1>5
  <2>2. i \in RefSlots /\ IF l1 = 0 THEN poc[dpb[i]] > start ELSE poc[dpb[i]] < start
    BY <2>1, NextFrameType DEF Candidates
  <2>3. SlotsDistinct' /\ Occupancy'
    BY <1>2, <1>5, SlotsKept DEF Ends
  <2>4. IF l1 = 0
          THEN /\ start >= poc[dpb[0]]
               /\ \A k \in DOMAIN lists[l1] : poc[lists[l1][k]] <= start
          ELSE /\ start <= poc[dpb[0]]
               /\ \A k \in DOMAIN lists[l1] : poc[lists[l1][k]] >= start
    BY <1>2 DEF PassOrder
  <2>5. \A k \in DOMAIN lists[l1] : poc[lists[l1][k]] # poc[dpb[i]]
    BY <1>2, <2>2, <2>4, CountsType
  <2>6. /\ ListsHeld' /\ start' = poc[dpb[i]]
        /\ lists' = [lists EXCEPT ![l1] = Append(lists[l1], dpb[i])]
    BY <1>2, <1>3, <2>1, <2>2, <2>5, PickHeld
  <2>7. lists'[l1'] = Append(lists[l1], dpb[i])
    BY <1>2, <1>5, <2>6
  <2>8. IF l1 = 0
          THEN /\ start' >= poc[dpb[0]]
               /\ \A k \in DOMAIN lists'[l1'] : poc[lists'[l1'][k]] <= start'
          ELSE /\ start' <= poc[dpb[0]]
               /\ \A k \in DOMAIN lists'[l1'] : poc[lists'[l1'][k]] >= start'
    <3>1. CASE l1 = 0
      BY <2>2, <2>4, <2>6, <2>7, <3>1, PickedCounts, CountsType
    <3>2. CASE l1 = 1
      BY <2>2, <2>4, <2>6, <2>7, <3>2, PickedCounts, CountsType
    <3> QED
      BY <1>2, <3>1, <3>2
  <2>9. PassOrder'
    BY <1>2, <1>5, <2>8 DEF PassOrder
  <2>10. lists'[1] = lists[1] \/ l1 = 1
    BY <1>2, <2>6
  <2>11. AssertionsHold' /\ LoopsReady'
    BY <1>2, <1>5, <2>10 DEF AssertionsHold, LoopsReady, Loops
  <2> QED
    BY <1>1, <2>3, <2>6, <2>9, <2>11
<1>6. CASE /\ CloseList(lists[l1], IF l1 = 0 THEN "first_pass" ELSE "modify")
           /\ start' = poc[dpb[0]] /\ l1' = 1 - l1
  <2>1. HeldOnce(lists[l1]) /\ lists[l1] \in Seq(Buf)
    BY <1>2 DEF HeldOnce, ListsHeld
  <2>2. /\ ListsHeld' /\ pc' \in {"list_short", IF l1 = 0 THEN "first_pass" ELSE "modify"}
        /\ lists'[1 - l1] = lists[1 - l1]
    BY <1>2, <1>3, <1>6, <2>1, CloseListHeld
  <2>3. SlotsDistinct' /\ Occupancy'
    BY <1>2, <2>2, SlotsKept DEF Ends
  <2>4. pc' = "first_pass" => l1' = 1 /\ lists'[l1'] = << >>
    <3>1. l1 = 0 => lists[1] = << >>
      BY <1>2 DEF LoopsReady
    <3>2. pc' = "first_pass" => l1 = 0
      BY <1>2, <2>2
    <3> QED
      BY <1>2, <1>6, <2>2, <3>1, <3>2
  <2>5. PassOrder'
    BY <1>2, <1>6, <2>2, <2>4, CountsType DEF PassOrder
  <2>6. AssertionsHold' /\ LoopsReady'
    BY <1>2, <2>2, <2>4 DEF AssertionsHold, LoopsReady, Loops
  <2> QED
    BY <1>1, <2>2, <2>3, <2>5, <2>6
<1> QED
  BY <1>4, <1>5, <1>6 DEF SecondPass

(* Moving an entry keeps a list one of held pictures, each once.           *)
LEMMA MoveKeepsHeldOnce ==
  ASSUME NEW list \in Seq(Buf), HeldOnce(list),
         NEW i \in 1 .. Len(list), NEW to \in 1 .. Len(list)
  PROVE  HeldOnce(MoveFrame(list, i, to))
<1> DEFINE moved == MoveFrame(list, i, to)
<1>1. list \in [1 .. Len(list) -> Buf] /\ Len(list) \in Int /\ 1 \in Nat
  OBVIOUS
<1>2. \A k, m \in 1 .. Len(list) : list[k] = list[m] => k = m
  BY DEF HeldOnce
<1>3. \A k, m \in 1 .. Len(list) : moved[k] = moved[m] => k = m
  <2> DEFINE origin(k) == IF k = to THEN i
                          ELSE IF i <= k /\ k < to THEN k + 1
                          ELSE IF to < k /\ k <= i THEN k - 1 ELSE k
  <2>1. \A k \in 1 .. Len(list) : origin(k) \in 1 .. Len(list) /\ moved[k] = list[origin(k)]
    BY <1>1 DEF MoveFrame
  <2>2. \A k, m \in 1 .. Len(list) : origin(k) = origin(m) => k = m
    BY <1>1
  <2> QED
    BY <1>2, <2>1, <2>2
<1>4. DOMAIN moved = 1 .. Len(list) /\ \A k \in 1 .. Len(list) : moved[k] \in Refs
  BY <1>1 DEF MoveFrame, HeldOnce
<1> HIDE DEF moved
<1>5. HeldOnce(moved)
  BY <1>3, <1>4 DEF HeldOnce
<1> QED
  BY <1>5 DEF moved

(* A list modification moves an entry within its list, or spoils the list. *)
LEMMA CommandInv ==
  ASSUME IInv, Modify, ~EndRemap
  PROVE  IInv'
<1> USE DEF IInv
<1>1. TypeOK'
  BY CommandType
<1>2. /\ UNCHANGED <<dpb, size, filled, decoded, poc, l1>>
      /\ pc = "modify" /\ l1 \in 0 .. 1
      /\ lists[l1] \in Seq(Buf) /\ refIdxL \in Nat
      /\ ~Conforming \/ UNCHANGED overlong
      /\ (\E n \in 0 .. MaxFrameNum - 1 : Moved(n)) \/ MovedBeyond \/ CommandEnds
  BY ModifyCases, ListsType DEF TypeOK, dpbVars, picVars
<1>3. Refs' = Refs
  BY <1>2 DEF Refs, RefSlots
<1>4. ListsHeld' /\ pc' \in {"modify", "remap", "null_frame", "list_array"}
  <2>1. ASSUME NEW n, Moved(n) PROVE ListsHeld'
    <3>1. PICK i \in Named(n) :
            lists' = [lists EXCEPT ![l1] = MoveFrame(lists[l1], i, refIdxL + 1)]
      BY <2>1 DEF Moved
    <3>2. i \in 1 .. Len(lists[l1]) /\ refIdxL + 1 \in 1 .. Len(lists[l1])
      BY <1>2, <2>1 DEF Moved, Named
    <3>3. l1 \notin overlong => HeldOnce(MoveFrame(lists[l1], i, refIdxL + 1))
      <4>1. ASSUME l1 \notin overlong PROVE HeldOnce(lists[l1])
        BY <1>2, <4>1 DEF ListsHeld, HeldOnce
      <4> QED
        BY <1>2, <3>2, <4>1, MoveKeepsHeldOnce
    <3> QED
      BY <1>2, <1>3, <2>1, <3>1, <3>3, ListReplaced DEF Moved
  <2>2. ASSUME MovedBeyond PROVE ListsHeld'
    <3>1. \E list : lists' = [lists EXCEPT ![l1] = list]
      BY <2>2 DEF MovedBeyond
    <3>2. \A l \in (0 .. 1) \ overlong' : lists'[l] = lists[l] /\ l \notin overlong
      BY <1>2, <2>2, <3>1 DEF MovedBeyond, TypeOK
    <3> QED
      BY <1>2, <1>3, <3>2 DEF ListsHeld
  <2>3. CASE CommandEnds
    BY <1>2, <1>3, <2>3 DEF ListsHeld, CommandEnds
  <2>4. pc' \in {"modify", "remap", "null_frame", "list_array"}
    BY <1>2 DEF Moved, MovedBeyond, CommandEnds
  <2> QED
    BY <1>2, <2>1, <2>2, <2>3, <2>4
<1>5. SlotsDistinct' /\ Occupancy'
  BY <1>2, <1>4, SlotsKept DEF Ends
<1>6. PassOrder' /\ AssertionsHold' /\ LoopsReady'
  BY <1>2, <1>4 DEF PassOrder, AssertionsHold, LoopsReady, Loops
<1> QED
  BY <1>1, <1>4, <1>5, <1>6

(* The end of a modification, the marking and the end of the header keep   *)
(* the invariant.                                                          *)
LEMMA HeaderEndInv ==
  ASSUME IInv, EndRemap \/ Marking \/ UnsupportedSyntax
  PROVE  IInv'
<1> USE DEF IInv
<1>1. TypeOK'
  BY ModifyMarkingType
<1>2. /\ UNCHANGED <<dpb, size, filled, decoded, poc, lists, overlong>>
      /\ pc \in {"nal", "modify", "marking"}
      /\ pc' \in {"unsupported", "mmco", "setup", "modify", "marking"}
      /\ pc = "nal" => pc' = "unsupported"
  BY DEF EndRemap, Marking, Mark, EndHeader, UnsupportedSyntax, End,
         dpbVars, picVars, listVars
<1>3. SlotsDistinct' /\ Occupancy' /\ Refs' = Refs
  BY <1>2, SlotsKept DEF Ends
<1>4. ListsHeld'
  BY <1>2, <1>3 DEF ListsHeld
<1>5. PassOrder' /\ AssertionsHold' /\ LoopsReady'
  BY <1>2 DEF PassOrder, AssertionsHold, LoopsReady, Loops
<1> QED
  BY <1>1, <1>3, <1>4, <1>5

(* The set-up of the frame, where the buffers are sized once, and the end  *)
(* of the engine's work keep the invariant.                                *)
LEMMA DecodeInv ==
  ASSUME IInv, Decode
  PROVE  IInv'
<1> USE DEF IInv
<1>1. TypeOK'
  BY ModifyMarkingType
<1>2. UNCHANGED <<dpb, size, lists, l1, start, poc, overlong>>
  BY DEF Decode, Setup, Complete, Stuck, End, dpbVars, picVars, listVars
<1>3. SlotsDistinct' /\ Refs' = Refs
  BY <1>2 DEF SlotsDistinct, Refs, RefSlots
<1>4. CASE Setup
  <2> DEFINE now == IF decoded THEN filled ELSE filled \ {dpb[i] : i \in Slots \ {0}}
             listed == UNION {{lists[l][k] : k \in DOMAIN lists[l]} : l \in 0 .. 1}
  <2>1. pc = "setup" /\ filled' = now /\ UNCHANGED decoded
    BY <1>4 DEF Setup, FilledOnceSized
  <2>2. overlong = {} => listed \subseteq Refs
    BY <2>1 DEF ListsHeld
  <2>3. dpb[0] \in now
    <3>1. dpb[0] \in filled /\ dpb[0] \notin {dpb[i] : i \in Slots \ {0}}
      BY <2>1, RefsType DEF LoopsReady, Loops, SlotsDistinct
    <3> QED
      BY <3>1
  <2>4. Refs \subseteq now
    <3>1. CASE decoded
      BY <2>1, <3>1, HeldFilled DEF Ends
    <3>2. CASE ~decoded
      BY <3>2 DEF LoopsReady, Refs, RefSlots
    <3> QED
      BY <3>1, <3>2
  <2>5. pc' = "run" \/ (pc' = "iram" /\ overlong # {})
    <3>1. Numbered \subseteq FilledOnceSized /\ Listed = listed /\ FilledOnceSized = now
      BY <2>3, <2>4 DEF FilledOnceSized, Numbered, Listed
    <3>2. overlong = {} => Listed \subseteq FilledOnceSized \ {dpb[0]}
      BY <2>2, <2>4, <3>1, CurrentApart
    <3>3. pc' = IF ~(Listed \subseteq FilledOnceSized \ {dpb[0]}) THEN "iram" ELSE "run"
      BY <1>4, <3>1 DEF Setup
    <3> QED
      BY <3>2, <3>3
  <2>6. \A i \in Slots \ {0} : dpb[i] \in now <=> i \in RefSlots
    <3>1. CASE decoded
      BY <2>1, <3>1 DEF Occupancy, Ends
    <3>2. CASE ~decoded
      BY <3>2 DEF LoopsReady, RefSlots
    <3> QED
      BY <3>1, <3>2
  <2>7. Occupancy'
    <3>1. pc' = "iram" /\ ~decoded => size = 0
      BY <2>1 DEF LoopsReady
    <3> QED
      BY <1>2, <2>1, <2>5, <2>6, <3>1 DEF Occupancy, RefSlots, Ends
  <2> HIDE DEF now
  <2>8. ListsHeld' /\ PassOrder' /\ AssertionsHold' /\ LoopsReady'
    BY <1>2, <1>3, <2>1, <2>3, <2>5
    DEF ListsHeld, PassOrder, AssertionsHold, LoopsReady, Loops
  <2> QED
    BY <1>1, <1>3, <2>7, <2>8
<1>5. CASE Complete
  <2>1. pc = "run" /\ pc' = "purge" /\ decoded' /\ UNCHANGED filled
    BY <1>5 DEF Complete, dpbVars
  <2>2. Occupancy'
    BY <1>2, <2>1 DEF Occupancy, RefSlots, Ends
  <2>3. ListsHeld' /\ PassOrder' /\ AssertionsHold' /\ LoopsReady'
    BY <1>2, <2>1 DEF ListsHeld, PassOrder, AssertionsHold, LoopsReady, Loops
  <2> QED
    BY <1>1, <1>3, <2>2, <2>3
<1>6. CASE Stuck
  <2>1. pc = "run" /\ pc' = "stuck" /\ UNCHANGED <<filled, decoded>>
    BY <1>6 DEF Stuck, End, dpbVars
  <2>2. Occupancy'
    BY <1>2, <2>1 DEF Occupancy, LoopsReady, Ends
  <2>3. ListsHeld' /\ PassOrder' /\ AssertionsHold' /\ LoopsReady'
    BY <1>2, <1>3, <2>1 DEF ListsHeld, PassOrder, AssertionsHold, LoopsReady, Loops
  <2> QED
    BY <1>1, <1>3, <2>2, <2>3
<1> QED
  BY <1>4, <1>5, <1>6 DEF Decode

(* A purge keeps the invariant: the slots it moves stay filled exactly up  *)
(* to the new size.                                                        *)
LEMMA PurgeInv ==
  ASSUME IInv, Purge
  PROVE  IInv'
<1> USE DEF IInv
<1>1. TypeOK'
  BY RetireType DEF Retire
<1>2. PICK i \in RefSlots :
        /\ dpb' = MoveFrame(dpb, i, size) /\ size' = size - 1
        /\ filled' = filled \ {dpb[i]}
        /\ pc' = IF dpb[i] \in filled THEN "purge" ELSE "clear_frame"
  BY DEF Purge
<1>3. pc = "purge" /\ decoded /\ UNCHANGED <<decoded, overlong>>
  BY DEF Purge, LoopsReady, listVars
<1>4. \A k \in Slots \ {0} : dpb[k] \in filled <=> k \in 1 .. size
  BY <1>3 DEF Occupancy, Ends, RefSlots
<1>5. /\ i \in Nat /\ size \in Nat /\ 1 <= i /\ i <= size /\ size \in Slots
      /\ i \in Slots /\ 0 \in Slots
  BY RefsType DEF RefSlots, Slots
<1>6. dpb[i] \in filled /\ pc' = "purge"
  BY <1>2, <1>4, <1>5
<1>7. SlotsDistinct'
  BY <1>2, <1>5, MoveKeepsDistinct
<1>8. dpb'[0] = dpb[0] /\ dpb[0] # dpb[i]
  BY <1>2, <1>5 DEF MoveFrame, SlotsDistinct, TypeOK
<1>9. \A k \in Slots \ {0} : dpb'[k] \in filled' <=> k \in 1 .. size'
  <2> SUFFICES ASSUME NEW k \in Slots \ {0}
               PROVE  dpb'[k] \in filled' <=> k \in 1 .. size'
    OBVIOUS
  <2>1. k \in Nat /\ k >= 1
    BY DEF Slots
  <2>2. CASE k = size
    <3>1. dpb'[k] = dpb[i]
      BY <1>2, <1>5, <2>2 DEF MoveFrame, TypeOK
    <3> QED
      BY <1>2, <1>5, <2>2, <3>1
  <2>3. CASE i <= k /\ k < size
    <3>1. k + 1 \in Slots \ {0}
      BY <1>5, <2>1, <2>3, RefsType DEF Slots
    <3>2. DOMAIN dpb = Slots
      BY DEF TypeOK
    <3>3. dpb'[k] = dpb[k + 1]
      BY <1>2, <1>5, <2>1, <2>3, <3>2 DEF MoveFrame
    <3>4. dpb[k + 1] \in filled /\ dpb[k + 1] # dpb[i]
      BY <1>4, <1>5, <2>1, <2>3, <3>1 DEF SlotsDistinct
    <3> QED
      BY <1>2, <1>5, <2>1, <2>3, <3>3, <3>4
  <2>4. CASE k < i \/ size < k
    <3>1. dpb'[k] = dpb[k] /\ dpb[k] # dpb[i]
      BY <1>2, <1>5, <2>1, <2>4 DEF MoveFrame, TypeOK, SlotsDistinct
    <3> QED
      BY <1>2, <1>4, <1>5, <2>1, <2>4, <3>1
  <2> QED
    BY <1>5, <2>1, <2>2, <2>3, <2>4
<1>10. Occupancy'
  BY <1>3, <1>6, <1>9 DEF Occupancy, RefSlots
<1>11. LoopsReady'
  BY <1>2, <1>3, <1>6, <1>8 DEF LoopsReady, Loops
<1>12. ListsHeld' /\ PassOrder' /\ AssertionsHold'
  BY <1>6 DEF ListsHeld, PassOrder, AssertionsHold
<1> QED
  BY <1>1, <1>7, <1>10, <1>11, <1>12

(* Sliding keeps the invariant: the current picture joins the filled slots *)
(* and the one beyond the window leaves them.                              *)
LEMMA SlideInv ==
  ASSUME IInv, Slide
  PROVE  IInv'
<1> USE DEF IInv
<1> DEFINE window == sh.sps.max_num_ref_frames
<1>1. TypeOK'
  BY RetireType DEF Retire
<1>2. /\ pc = "purge" /\ decoded /\ UNCHANGED decoded
      /\ l1' = 0 /\ lists'[0] = << >> /\ lists'[1] = << >>
      /\ lists' = [l \in 0 .. 1 |-> << >>] /\ overlong' = {}
  BY DEF Slide, Purged, LoopsReady, EndSlice
<1>3. ListsHeld'
  BY <1>2 DEF ListsHeld
<1>4. CASE pc' \in {"poc_type", "dpb_overrun"} /\ UNCHANGED dpbVars
  <2>1. SlotsDistinct'
    BY <1>4 DEF SlotsDistinct, dpbVars
  <2>2. Occupancy' /\ PassOrder' /\ AssertionsHold' /\ LoopsReady'
    BY <1>2, <1>4 DEF Occupancy, PassOrder, AssertionsHold, LoopsReady, Loops, Ends
  <2> QED
    BY <1>1, <1>3, <2>1, <2>2
<1>5. CASE /\ window \in Slots
           /\ dpb' = MoveFrame(dpb, window, 0)
           /\ filled' = filled \ {dpb[window]}
           /\ size' = IF size < window THEN size + 1 ELSE size
           /\ pc' = "nal"
  <2> HIDE DEF window
  <2>1. \A k \in Slots \ {0} : dpb[k] \in filled <=> k \in 1 .. size
    BY <1>2 DEF Occupancy, Ends, RefSlots
  <2>2. dpb[0] \in filled /\ 0 \in Slots /\ size \in Nat /\ window \in Nat
    BY <1>2, <1>5, RefsType DEF LoopsReady, Loops, Slots
  <2>3. SlotsDistinct'
    BY <1>5, <2>2, MoveKeepsDistinct
  <2>4. \A k \in Slots \ {0} : dpb'[k] \in filled' <=> k \in 1 .. size'
    <3> SUFFICES ASSUME NEW k \in Slots \ {0}
                 PROVE  dpb'[k] \in filled' <=> k \in 1 .. size'
      OBVIOUS
    <3>1. k \in Nat /\ k >= 1 /\ k - 1 \in Slots
      BY <2>2, RefsType DEF Slots
    <3>2. CASE k <= window
      <4>1. DOMAIN dpb = Slots
        BY DEF TypeOK
      <4>2. dpb'[k] = dpb[k - 1]
        BY <1>5, <2>2, <3>1, <3>2, <4>1 DEF MoveFrame
      <4>3. dpb[k - 1] # dpb[window]
        BY <1>5, <2>2, <3>1, <3>2 DEF SlotsDistinct
      <4>4. dpb[k - 1] \in filled <=> k - 1 \in 0 .. size
        BY <2>1, <2>2, <3>1
      <4> QED
        BY <1>5, <2>2, <3>1, <3>2, <4>2, <4>3, <4>4
    <3>3. CASE window < k
      <4>1. DOMAIN dpb = Slots
        BY DEF TypeOK
      <4>2. dpb'[k] = dpb[k]
        BY <1>5, <2>2, <3>1, <3>3, <4>1 DEF MoveFrame
      <4>3. dpb[k] # dpb[window]
        BY <1>5, <2>2, <3>1, <3>3 DEF SlotsDistinct
      <4> QED
        BY <1>5, <2>1, <2>2, <3>1, <3>3, <4>2, <4>3
    <3> QED
      BY <2>2, <3>1, <3>2, <3>3
  <2>5. Occupancy'
    BY <1>2, <1>5, <2>4 DEF Occupancy, RefSlots
  <2>6. PassOrder' /\ AssertionsHold' /\ LoopsReady'
    BY <1>2, <1>5 DEF PassOrder, AssertionsHold, LoopsReady
  <2> QED
    BY <1>1, <1>3, <2>3, <2>5, <2>6
<1> QED
  BY <1>4, <1>5 DEF Slide

(* A picture that is not slid keeps the invariant.                         *)
LEMMA NoSlideInv ==
  ASSUME IInv, NoSlide
  PROVE  IInv'
<1> USE DEF IInv
<1>1. TypeOK'
  BY RetireType DEF Retire
<1>2. /\ pc = "purge" /\ pc' = "nal" /\ decoded /\ UNCHANGED decoded /\ UNCHANGED <<dpb, size, filled>>
      /\ l1' = 0 /\ lists'[0] = << >> /\ lists'[1] = << >>
      /\ lists' = [l \in 0 .. 1 |-> << >>] /\ overlong' = {}
  BY DEF NoSlide, Purged, LoopsReady, EndSlice, dpbVars
<1>3. SlotsDistinct' /\ Occupancy'
  BY <1>2, SlotsKept DEF Ends
<1>4. ListsHeld' /\ PassOrder' /\ AssertionsHold' /\ LoopsReady'
  BY <1>2 DEF ListsHeld, PassOrder, AssertionsHold, LoopsReady
<1> QED
  BY <1>1, <1>3, <1>4

(* Every step keeps the invariant.                                         *)
LEMMA StepIInv == IInv /\ [Next]_vars => IInv'
<1> SUFFICES ASSUME IInv, [Next]_vars PROVE IInv'
  OBVIOUS
<1>1. ASSUME NEW h \in Header, NEW lsb \in Lsbs, ParseHeader(h, lsb) PROVE IInv'
  BY <1>1, ParseHeaderInv
<1>2. CASE FormLists
  BY <1>2, FormPInv, FirstPassInv, SecondPassInv DEF FormLists
<1>3. CASE Modify
  BY <1>3, CommandInv, HeaderEndInv
<1>4. CASE Marking \/ UnsupportedSyntax
  BY <1>4, HeaderEndInv
<1>5. CASE Decode
  BY <1>5, DecodeInv
<1>6. CASE Retire
  BY <1>6, PurgeInv, SlideInv, NoSlideInv DEF Retire
<1>7. CASE UNCHANGED vars
  <2>1. TypeOK'
    BY <1>7, TypeStep DEF IInv
  <2>2. UNCHANGED <<pc, dpb, size, filled, lists, l1, start, poc, overlong, decoded>>
    BY <1>7 DEF vars, dpbVars, picVars, listVars
  <2>3. SlotsDistinct' /\ Occupancy' /\ ListsHeld' /\ AssertionsHold'
    BY <2>2 DEF IInv, SlotsDistinct, Occupancy, ListsHeld, AssertionsHold, Refs, RefSlots
  <2>4. PassOrder' /\ LoopsReady'
    BY <2>2 DEF IInv, PassOrder, LoopsReady
  <2> QED
    BY <2>1, <2>3, <2>4 DEF IInv
<1> QED
  BY <1>1, <1>2, <1>3, <1>4, <1>5, <1>6, <1>7 DEF Next, Ended

(* The inductive invariant: TypeOK, the four properties below, and what    *)
(* the list passes and the loops rely on.                                  *)
THEOREM Inductive == Spec => []IInv
BY InitIInv, StepIInv, PTL DEF Spec

(* No frame_data is ever lost from the slots or shared by two of them.     *)
THEOREM BuffersKept == Spec => []SlotsDistinct
<1>1. IInv => SlotsDistinct
  BY DEF IInv
<1> QED
  BY <1>1, Inductive, PTL

(* size and the `empty' flags tell the same story between any two steps.   *)
THEOREM OccupancyKept == Spec => []Occupancy
<1>1. IInv => Occupancy
  BY DEF IInv
<1> QED
  BY <1>1, Inductive, PTL

(* A list given to the engine names held pictures, each once, unless it    *)
(* was sent more modification commands than it has entries.                *)
THEOREM ListsNameHeld == Spec => []ListsHeld
<1>1. IInv => ListsHeld
  BY DEF IInv
<1> QED
  BY <1>1, Inductive, PTL

(* The assertions of clear_frame and tegra_setup_FRAMEID cannot fail,      *)
(* whatever the stream and whatever malloc returned, and those of          *)
(* tegra_VDE_setup_IRAM_list only after more modification commands than a  *)
(* list has entries.                                                       *)
THEOREM NoEmptyAssertion == Spec => []AssertionsHold
<1>1. IInv => AssertionsHold
  BY DEF IInv
<1> QED
  BY <1>1, Inductive, PTL

-----------------------------------------------------------------------------
(***************************************************************************)
(* The flags of frame_data, and the size of the window.                    *)
(***************************************************************************)
(* A step that leaves the slots, size and the flags alone keeps FlagsHeld. *)
LEMMA FlagsKept ==
  ASSUME FlagsHeld, UNCHANGED <<dpb, size, marked, wrapped>>
  PROVE  FlagsHeld'
BY DEF FlagsHeld, Refs, RefSlots

(* The header clears the flags with the pictures of an IDR flush, and      *)
(* raises frame_num_wrap on held pictures only.                            *)
LEMMA ParseHeaderFlags ==
  ASSUME IInv, FlagsHeld, NEW h \in Header, NEW lsb \in Lsbs, ParseHeader(h, lsb)
  PROVE  FlagsHeld'
<1>1. CASE h.idr
  <2>1. marked' = marked \ Refs
    BY <1>1 DEF ParseHeader
  <2>2. wrapped' = wrapped \ Refs
    BY <1>1 DEF ParseHeader, NewlyWrapped
  <2> QED
    BY <2>1, <2>2 DEF FlagsHeld
<1>2. CASE ~h.idr
  <2>1. marked' = marked /\ size' = size /\ dpb' = dpb
    BY <1>2 DEF ParseHeader, NewlyWrapped
  <2>2. wrapped' \subseteq wrapped \union Refs
    BY <1>2 DEF ParseHeader, NewlyWrapped
  <2> QED
    BY <2>1, <2>2 DEF FlagsHeld, Refs, RefSlots
<1> QED
  BY <1>1, <1>2

(* A purged buffer loses its flags as it leaves the window; the others     *)
(* move up by at most one slot and stay within size.                       *)
LEMMA PurgeFlags ==
  ASSUME IInv, FlagsHeld, Purge
  PROVE  FlagsHeld'
<1> USE DEF IInv
<1>1. PICK i \in RefSlots :
        /\ dpb' = MoveFrame(dpb, i, size) /\ size' = size - 1
        /\ marked' = marked \ {dpb[i]} /\ wrapped' = wrapped \ {dpb[i]}
  BY DEF Purge
<1>2. i \in Nat /\ size \in Nat /\ 1 <= i /\ i <= size /\ DOMAIN dpb = Slots
  BY RefsType DEF RefSlots, TypeOK
<1>3. ASSUME NEW k \in RefSlots, k # i PROVE dpb[k] \in Refs'
  <2>1. k \in Slots /\ k \in Nat /\ k >= 1 /\ k <= size
    BY RefsType, <1>2 DEF RefSlots
  <2>2. CASE k < i
    <3>1. dpb'[k] = dpb[k] /\ k \in 1 .. size'
      BY <1>1, <1>2, <2>1, <2>2 DEF MoveFrame
    <3> QED
      BY <3>1 DEF Refs, RefSlots
  <2>3. CASE i < k
    <3>1. k - 1 \in Slots /\ k - 1 \in 1 .. size'
      BY <1>1, <1>2, <2>1, <2>3, RefsType DEF Slots
    <3>2. dpb'[k - 1] = dpb[k]
      BY <1>1, <1>2, <2>1, <2>3, <3>1 DEF MoveFrame
    <3> QED
      BY <3>1, <3>2 DEF Refs, RefSlots
  <2> QED
    BY <1>2, <1>3, <2>1, <2>2, <2>3
<1>4. Refs \ {dpb[i]} \subseteq Refs'
  BY <1>3 DEF Refs
<1> QED
  BY <1>1, <1>4 DEF FlagsHeld

(* The buffer that falls off the window is cleared; the others move down   *)
(* by at most one slot, and size grows when the window is not full.        *)
LEMMA SlideFlags ==
  ASSUME IInv, FlagsHeld, Slide
  PROVE  FlagsHeld'
<1> USE DEF IInv
<1> DEFINE window == sh.sps.max_num_ref_frames
<1>1. CASE UNCHANGED dpbVars
  BY <1>1, FlagsKept DEF dpbVars
<1>2. CASE /\ window \in Slots
           /\ dpb' = MoveFrame(dpb, window, 0)
           /\ marked' = marked \ ({dpb[window]} \intersect filled)
           /\ wrapped' = wrapped \ ({dpb[window]} \intersect filled)
           /\ size' = IF size < window THEN size + 1 ELSE size
  <2> HIDE DEF window
  <2>1. window \in Nat /\ size \in Nat /\ 0 \in Slots /\ DOMAIN dpb = Slots
    BY <1>2, RefsType DEF Slots, TypeOK
  <2>2. Refs \subseteq filled
    <3>1. decoded /\ pc = "purge"
      BY DEF Slide, Purged, LoopsReady
    <3> QED
      BY <3>1, RefsType DEF Occupancy, Ends, Refs
  <2>3. ASSUME NEW k \in RefSlots, k # window PROVE dpb[k] \in Refs'
    <3>1. k \in Slots /\ k \in Nat /\ k >= 1 /\ k <= size
      BY RefsType, <2>1 DEF RefSlots
    <3>2. CASE k < window
      <4>1. k + 1 \in Slots /\ k + 1 \in 1 .. size'
        BY <1>2, <2>1, <3>1, <3>2, RefsType DEF Slots
      <4>2. dpb'[k + 1] = dpb[k]
        BY <1>2, <2>1, <3>1, <3>2, <4>1 DEF MoveFrame
      <4> QED
        BY <4>1, <4>2 DEF Refs, RefSlots
    <3>3. CASE window < k
      <4>1. dpb'[k] = dpb[k] /\ k \in 1 .. size'
        BY <1>2, <2>1, <3>1, <3>3 DEF MoveFrame
      <4> QED
        BY <4>1 DEF Refs, RefSlots
    <3> QED
      BY <2>1, <2>3, <3>1, <3>2, <3>3
  <2>4. Refs \ {dpb[window]} \subseteq Refs'
    BY <2>3 DEF Refs
  <2> QED
    BY <1>2, <2>2, <2>4 DEF FlagsHeld
<1> QED
  BY <1>1, <1>2 DEF Slide

(* Every step keeps the flags on held buffers.                             *)
LEMMA StepFlags == IInv /\ FlagsHeld /\ [Next]_vars => FlagsHeld'
<1> SUFFICES ASSUME IInv, FlagsHeld, [Next]_vars PROVE FlagsHeld'
  OBVIOUS
<1>1. ASSUME NEW h \in Header, NEW lsb \in Lsbs, ParseHeader(h, lsb) PROVE FlagsHeld'
  BY <1>1, ParseHeaderFlags
<1>2. CASE FormLists
  BY <1>2, FlagsKept DEF FormLists, FormP, FirstPass, SecondPass, dpbVars
<1>3. CASE Modify
  BY <1>3, FlagsKept DEF Modify, Command, AnyCommand, Remap, RemapBeyond, EndRemap, dpbVars
<1>4. ASSUME NEW t \in Refs, Mark(t) PROVE FlagsHeld'
  <2>1. marked' \subseteq marked \union {t} /\ UNCHANGED <<dpb, size, wrapped>>
    BY <1>4 DEF Mark
  <2> QED
    BY <2>1 DEF FlagsHeld, Refs, RefSlots
<1>5. CASE EndHeader \/ UnsupportedSyntax \/ UNCHANGED vars
  BY <1>5, FlagsKept DEF EndHeader, UnsupportedSyntax, End, dpbVars, vars
<1>6. CASE Decode
  BY <1>6, FlagsKept DEF Decode, Setup, Complete, Stuck, End, dpbVars
<1>7. CASE Retire
  BY <1>7, PurgeFlags, SlideFlags, FlagsKept DEF Retire, NoSlide, dpbVars
<1> QED
  BY <1>1, <1>2, <1>3, <1>4, <1>5, <1>6, <1>7 DEF Next, Ended, Marking

(* With memory that malloc returns zeroed, a buffer that is not a          *)
(* reference is neither marked for removal nor wrapped.                    *)
THEOREM FlagsFollowReferences ==
  ASSUME Garbage = {}
  PROVE  Spec => []FlagsHeld
<1>1. Init => FlagsHeld
  BY DEF Init, FlagsHeld
<1> QED
  BY <1>1, Inductive, StepFlags, PTL DEF Spec

(* A conforming stream, which changes its parameter set only on an IDR     *)
(* picture, never holds more references than the set allows.               *)
THEOREM WindowKept ==
  ASSUME Conforming
  PROVE  Spec => []WindowBounded
<1>1. Init => WindowBounded
  <2>1. NoHeader.sps \in Sps
    BY StreamAssumption DEF NoHeader
  <2>2. NoHeader.sps.max_num_ref_frames \in 0 .. NumSlots
    BY <2>1, StreamAssumption DEF SpsType
  <2> QED
    BY <2>2, SlotsAssumption DEF Init, WindowBounded
<1>2. IInv /\ WindowBounded /\ [Next]_vars => WindowBounded'
  <2> SUFFICES ASSUME IInv, WindowBounded, [Next]_vars PROVE WindowBounded'
    OBVIOUS
  <2> USE DEF WindowBounded
  <2>1. ASSUME NEW h \in Header, NEW lsb \in Lsbs, ParseHeader(h, lsb)
        PROVE  WindowBounded'
    <3>1. sh' = h /\ pc = "nal" /\ size' = (IF h.idr THEN 0 ELSE size) /\ InStream(h, lsb)
      BY <2>1 DEF ParseHeader
    <3>2. h.sps.max_num_ref_frames \in Nat
      <4>1. h.sps \in Sps
        BY DEF Header
      <4> QED
        BY <4>1, StreamAssumption, SlotsAssumption DEF SpsType
    <3>3. ~h.idr => h.sps = sh.sps
      BY <3>1 DEF InStream
    <3> QED
      BY <3>1, <3>2, <3>3 DEF Ends
  <2>2. CASE FormLists \/ Modify \/ Marking \/ Decode \/ NoSlide
    <3>1. UNCHANGED <<size, sh>> /\ pc \notin Ends
      BY <2>2 DEF FormLists, Modify, Marking, Decode, FormP, FirstPass, SecondPass,
         Command, AnyCommand, Remap, RemapBeyond, EndRemap, Mark, EndHeader, Setup, Complete, Stuck, End, NoSlide,
         EndSlice, Purged, dpbVars, Ends
    <3> QED
      BY <3>1
  <2>3. CASE UnsupportedSyntax \/ UNCHANGED vars
    BY <2>3 DEF UnsupportedSyntax, End, vars, dpbVars, Ends
  <2>4. CASE Purge
    <3>1. size' = size - 1 /\ UNCHANGED sh /\ pc = "purge"
      BY <2>4 DEF Purge
    <3> QED
      BY <3>1, RefsType, HeaderType DEF IInv, Ends
  <2>5. CASE Slide
    <3>1. UNCHANGED sh /\ pc = "purge"
          /\ size' \in {size, IF size < sh.sps.max_num_ref_frames THEN size + 1 ELSE size}
      BY <2>5 DEF Slide, EndSlice, Purged, dpbVars
    <3> QED
      BY <3>1, RefsType, HeaderType DEF IInv, Ends
  <2> QED
    BY <2>1, <2>2, <2>3, <2>4, <2>5 DEF Next, Ended, Retire
<1> QED
  BY <1>1, <1>2, Inductive, PTL DEF Spec
-----------------------------------------------------------------------------
(***************************************************************************)
(* No loop of a slice turns without end.                                   *)
(***************************************************************************)
(* A list never outgrows the references while it is built, nor afterwards  *)
(* its array.                                                              *)
ListsFit ==
  /\ pc \in {"form_P", "first_pass", "second_pass"} => Len(lists[l1]) <= size
  /\ \A l \in 0 .. 1 : Len(lists[l]) < NumSlots

(* What SliceAdvances asks of a step.                                      *)
Advance ==
  \/ pc' \in {"nal"} \union Ends
  \/ Phase' < Phase
  \/ Phase' = Phase /\ Work' \in 0 .. Work - 1

Passes == {"form_P", "first_pass", "second_pass"}

(* A list that is not full takes one more picture.                         *)
LEMMA PickAdvances ==
  ASSUME IInv, ListsFit, pc \in Passes, NEW i \in RefSlots, Pick(i),
         Len(lists[l1]) < size, UNCHANGED <<pc, l1, size>>
  PROVE  Advance /\ ListsFit'
<1>1. /\ lists \in [0 .. 1 -> Seq(Buf)] /\ l1 \in 0 .. 1 /\ size \in Nat
      /\ dpb[i] \in Buf
  BY RefsType DEF IInv, TypeOK
<1>2. lists'[l1'] = Append(lists[l1], dpb[i]) /\ lists[l1] \in Seq(Buf)
  BY <1>1 DEF Pick
<1>3. Len(lists'[l1']) = Len(lists[l1]) + 1 /\ Len(lists[l1]) \in Nat
  BY <1>1, <1>2
<1>4. Work = size - Len(lists[l1]) /\ Work' = size - Len(lists'[l1'])
  BY DEF Work, Passes
<1>5. Phase' = Phase
  BY DEF Phase
<1>6. \A l \in 0 .. 1 : Len(lists'[l]) < NumSlots
  <2>1. size < NumSlots /\ NumSlots \in Nat
    BY RefsType DEF IInv
  <2>2. \A l \in 0 .. 1 : lists'[l] = IF l = l1 THEN Append(lists[l1], dpb[i]) ELSE lists[l]
    BY <1>1 DEF Pick
  <2> QED
    BY <1>1, <1>2, <1>3, <2>1, <2>2 DEF ListsFit
<1> QED
  BY <1>1, <1>3, <1>4, <1>5, <1>6 DEF Advance, ListsFit

(* A list that is closed keeps at most the entries it had.                 *)
LEMMA CloseListFits ==
  ASSUME TypeOK, ListsFit, NEW list \in Seq(Buf), Len(list) < NumSlots,
         NEW next, CloseList(list, next)
  PROVE  \A l \in 0 .. 1 : Len(lists'[l]) < NumSlots
<1>1. lists \in [0 .. 1 -> Seq(Buf)] /\ l1 \in 0 .. 1 /\ NumSlots \in Nat
      /\ ActiveRefs(l1) \in Nat
  BY ListsType, RefsType DEF TypeOK
<1>2. CASE Len(list) < ActiveRefs(l1)
  BY <1>2 DEF CloseList, ListsFit
<1>3. CASE ~(Len(list) < ActiveRefs(l1))
  <2> DEFINE cut == Truncate(list, ActiveRefs(l1))
  <2>1. ActiveRefs(l1) <= Len(list) /\ Len(list) \in Nat
    BY <1>1, <1>3
  <2>2. Len(cut) = ActiveRefs(l1)
    BY <1>1, <2>1, TruncateType
  <2>3. lists' = [lists EXCEPT ![l1] = cut]
    BY <1>3 DEF CloseList
  <2> HIDE DEF cut
  <2> QED
    BY <1>1, <2>1, <2>2, <2>3 DEF ListsFit
<1> QED
  BY <1>2, <1>3

(* A pass that finds nothing more goes on to what comes after it.          *)
LEMMA FormListsAdvance ==
  ASSUME IInv, ListsFit, FormLists
  PROVE  Advance /\ ListsFit'
<1> USE DEF IInv
<1>1. /\ lists \in [0 .. 1 -> Seq(Buf)] /\ l1 \in 0 .. 1 /\ size \in Nat
      /\ Len(lists[0]) \in Nat /\ Len(lists[1]) \in Nat
  BY RefsType DEF TypeOK
<1>2. ASSUME NEW after \in BOOLEAN, NEW i \in NextFrame(after) PROVE i \in RefSlots
  BY NextFrameType DEF Candidates
<1>3. CASE FormP
  <2>1. /\ pc = "form_P" /\ l1 = 0 /\ UNCHANGED <<l1, size>>
    BY <1>3 DEF FormP, dpbVars, PassOrder
  <2>2. CASE /\ Len(lists[0]) < size
             /\ \E i \in NextFrame(FALSE) : Pick(i) /\ UNCHANGED pc
    BY <1>2, <2>1, <2>2, PickAdvances DEF Passes
  <2> DEFINE full == IF sh.sps.pic_order_cnt_type = 2
                       THEN [i \in 1 .. size |-> dpb[i]] ELSE lists[0]
  <2>3. CASE CloseList(full, "modify")
    <3>0. pc' \in {"list_short", "modify"}
      BY <2>3 DEF CloseList
    <3>1. ListsFit'
      <4>1. \A i \in 1 .. size : dpb[i] \in Buf
        BY RefsType DEF TypeOK, RefSlots
      <4>2. full \in Seq(Buf) /\ Len(full) < NumSlots
        BY <1>1, <4>1, RefsType DEF ListsFit
      <4> HIDE DEF full
      <4>3. \A l \in 0 .. 1 : Len(lists'[l]) < NumSlots
        BY <2>3, <4>2, CloseListFits
      <4> QED
        BY <3>0, <4>3 DEF ListsFit
    <3>2. pc' = "modify" => Phase = 9 /\ Phase' = 5
      BY <2>1 DEF Phase
    <3> QED
      BY <3>0, <3>1, <3>2 DEF Advance, Ends
  <2> QED
    BY <1>3, <2>2, <2>3 DEF FormP
<1>4. CASE FirstPass
  <2>1. /\ pc = "first_pass" /\ UNCHANGED <<l1, size>>
    BY <1>4 DEF FirstPass, dpbVars
  <2>2. CASE /\ Len(lists[l1]) # size
             /\ \E i \in NextFrame(l1 = 1) : Pick(i) /\ UNCHANGED pc
    <3>1. PICK i \in RefSlots : Pick(i) /\ UNCHANGED pc
      BY <1>2, <2>2
    <3>2. Len(lists[l1]) < size
      BY <1>1, <2>1, <2>2 DEF ListsFit
    <3> QED
      BY <2>1, <3>1, <3>2, PickAdvances DEF Passes
  <2>3. CASE pc' = "list_overrun" /\ UNCHANGED lists
    BY <2>3 DEF ListsFit, Advance, Ends
  <2>4. CASE pc' = "second_pass" /\ UNCHANGED lists
    <3>1. ListsFit'
      BY <2>1, <2>4 DEF ListsFit
    <3>2. Phase' = Phase - 1 /\ Phase \in Nat
      BY <2>1, <2>4 DEF Phase
    <3> QED
      BY <3>1, <3>2 DEF Advance
  <2> QED
    BY <1>4, <2>2, <2>3, <2>4 DEF FirstPass
<1>5. CASE SecondPass
  <2>1. /\ pc = "second_pass" /\ UNCHANGED size
        /\ l1 = 0 => lists[1] = << >>
    BY <1>5 DEF SecondPass, dpbVars, LoopsReady
  <2>2. CASE /\ Len(lists[l1]) # size /\ UNCHANGED l1
             /\ \E i \in NextFrame(l1 = 0) : Pick(i) /\ UNCHANGED pc
    <3>1. PICK i \in RefSlots : Pick(i) /\ UNCHANGED pc
      BY <1>2, <2>2
    <3>2. Len(lists[l1]) < size
      BY <1>1, <2>1, <2>2 DEF ListsFit
    <3> QED
      BY <2>1, <2>2, <3>1, <3>2, PickAdvances DEF Passes
  <2>3. CASE pc' \in {"list_overrun", "list_short"} /\ UNCHANGED lists
    BY <2>3 DEF ListsFit, Advance, Ends
  <2>4. CASE /\ pc' = IF l1 = 0 THEN "first_pass" ELSE "modify"
             /\ \E full : lists' = [lists EXCEPT ![l1] = full]
             /\ CloseList(lists[l1], IF l1 = 0 THEN "first_pass" ELSE "modify")
             /\ l1' = 1 - l1
    <3>1. ListsFit'
      <4>0. \A l \in 0 .. 1 : Len(lists'[l]) < NumSlots
        <5>1. lists[l1] \in Seq(Buf) /\ Len(lists[l1]) < NumSlots
          BY <1>1 DEF ListsFit
        <5> QED
          BY <2>4, <5>1, CloseListFits
      <4>1. CASE l1 = 0
        <5>1. lists'[l1'] = << >>
          BY <1>1, <2>1, <2>4, <4>1
        <5> QED
          BY <1>1, <2>1, <4>0, <5>1 DEF ListsFit
      <4>2. CASE l1 = 1
        BY <2>4, <4>0, <4>2 DEF ListsFit
      <4> QED
        BY <1>1, <4>1, <4>2
    <3>2. Phase' = Phase - 1 /\ Phase \in Nat
      <4>1. CASE l1 = 0
        BY <2>1, <2>4, <4>1 DEF Phase
      <4>2. CASE l1 = 1
        BY <2>1, <2>4, <4>2 DEF Phase
      <4> QED
        BY <1>1, <4>1, <4>2
    <3> QED
      BY <3>1, <3>2 DEF Advance
  <2> QED
    BY <1>5, <2>2, <2>3, <2>4 DEF SecondPass, CloseList
<1> QED
  BY <1>3, <1>4, <1>5 DEF FormLists

(* A command fills one more position of the array, within the list or      *)
(* beyond it, and there are two lists.                                     *)
LEMMA ModifyAdvances ==
  ASSUME TypeOK, ListsFit, Modify
  PROVE  Advance /\ ListsFit'
<1>1. /\ pc = "modify" /\ l1 \in 0 .. 1 /\ refIdxL \in Nat /\ NumSlots \in Nat
      /\ lists \in [0 .. 1 -> Seq(Buf)]
  <2>1. pc = "modify"
    BY DEF Modify, Command, AnyCommand, Remap, RemapBeyond, EndRemap
  <2> QED
    BY <2>1, RefsType DEF TypeOK
<1>2. CASE EndRemap
  <2>0. ListsFit'
    BY <1>1, <1>2 DEF EndRemap, ListsFit
  <2>1. CASE l1 = 0 /\ l1' = 1 /\ UNCHANGED pc
    <3>1. Phase = 5 /\ Phase' = 4
      BY <1>1, <2>1 DEF Phase
    <3> QED
      BY <2>0, <3>1 DEF Advance
  <2>2. CASE pc' = "marking"
    <3>1. Phase \in {4, 5} /\ Phase' = 3
      BY <1>1, <2>2 DEF Phase
    <3> QED
      BY <2>0, <3>1 DEF Advance
  <2> QED
    BY <1>2, <2>1, <2>2 DEF EndRemap
<1>3. ASSUME ~EndRemap PROVE Advance /\ ListsFit'
  <2>1. /\ UNCHANGED l1
        /\ (\E n \in 0 .. MaxFrameNum - 1 : Moved(n)) \/ MovedBeyond \/ CommandEnds
    BY <1>3, ModifyCases
  <2>2. CASE CommandEnds
    <3>1. pc' \in {"remap", "null_frame", "list_array"} /\ UNCHANGED lists
      BY <2>2 DEF CommandEnds
    <3> QED
      BY <3>1 DEF Advance, Ends, ListsFit
  <2>3. ASSUME NEW list, Len(list) = Len(lists[l1]), lists' = [lists EXCEPT ![l1] = list],
               refIdxL < NumSlots, refIdxL' = refIdxL + 1, UNCHANGED pc
        PROVE  Advance /\ ListsFit'
    <3>1. \A l \in 0 .. 1 : Len(lists'[l]) = Len(lists[l])
      BY <1>1, <2>3
    <3>2. Phase' = Phase
      BY <2>1, <2>3 DEF Phase
    <3>3. Work = NumSlots - refIdxL /\ Work' = NumSlots - (refIdxL + 1)
      BY <1>1, <2>1, <2>3 DEF Work
    <3>4. Advance
      BY <1>1, <2>3, <3>2, <3>3 DEF Advance
    <3> QED
      BY <1>1, <2>3, <3>1, <3>4 DEF ListsFit
  <2>4. ASSUME NEW n, Moved(n) PROVE Advance /\ ListsFit'
    <3>1. PICK i \in Named(n) :
            lists' = [lists EXCEPT ![l1] = MoveFrame(lists[l1], i, refIdxL + 1)]
      BY <2>4 DEF Moved
    <3>2. /\ lists[l1] \in Seq(Buf) /\ i \in 1 .. Len(lists[l1])
          /\ refIdxL + 1 \in 1 .. Len(lists[l1])
      BY <1>1, <2>4 DEF Moved, Named
    <3>3. Len(MoveFrame(lists[l1], i, refIdxL + 1)) = Len(lists[l1])
      BY <3>2, MoveInListType
    <3>4. refIdxL < NumSlots
      BY <1>1, <3>2, <2>4 DEF ListsFit, Moved
    <3> QED
      BY <2>3, <2>4, <3>1, <3>3, <3>4 DEF Moved
  <2>5. ASSUME MovedBeyond PROVE Advance /\ ListsFit'
    <3>1. PICK i \in DOMAIN lists[l1], b \in Buf :
            lists' = [lists EXCEPT ![l1] = ClosedUp(lists[l1], i, b)]
      BY <2>5 DEF MovedBeyond
    <3>2. Len(ClosedUp(lists[l1], i, b)) = Len(lists[l1])
      BY <1>1, ClosedUpType
    <3> QED
      BY <2>3, <2>5, <3>1, <3>2 DEF MovedBeyond
  <2> QED
    BY <2>1, <2>2, <2>4, <2>5
<1> QED
  BY <1>2, <1>3

(* Marking a reference that was not marked leaves one less to mark.        *)
LEMMA MarkingAdvances ==
  ASSUME TypeOK, Marking, ~ UNCHANGED vars
  PROVE  Advance
<1>1. pc = "marking"
  BY DEF Marking, Mark, EndHeader
<1>2. ASSUME NEW t \in Refs, Mark(t) PROVE Advance
  <2>1. CASE marked' = marked \union {t} /\ UNCHANGED pc
    <3>1. UNCHANGED <<dpb, size>> /\ t \notin marked
      BY <1>2, <2>1 DEF Mark, vars, dpbVars
    <3>2. Refs' = Refs
      BY <3>1 DEF Refs, RefSlots
    <3>3. IsFiniteSet(Refs \ marked)
      <4>1. IsFiniteSet(RefSlots)
        BY RefsType, FS_Interval DEF RefSlots
      <4>2. IsFiniteSet(Refs)
        <5> DEFINE at == [i \in RefSlots |-> dpb[i]]
        <5>1. at \in Surjection(RefSlots, Refs)
          BY DEF Surjection, Refs
        <5> HIDE DEF at
        <5> QED
          BY <4>1, <5>1, FS_Surjection
      <4> QED
        BY <4>2, FS_Difference
    <3>4. Refs' \ marked' = (Refs \ marked) \ {t} /\ t \in Refs \ marked
      BY <2>1, <3>1, <3>2
    <3>5. Cardinality(Refs' \ marked') = Cardinality(Refs \ marked) - 1
      BY <3>3, <3>4, FS_RemoveElement
    <3>6. Cardinality(Refs \ marked) \in Nat /\ Cardinality(Refs' \ marked') \in Nat
      BY <3>3, <3>4, FS_CardinalityType, FS_RemoveElement
    <3>7. Work = Cardinality(Refs \ marked) /\ Work' = Cardinality(Refs' \ marked')
      BY <1>1, <2>1 DEF Work
    <3>8. Phase' = Phase
      BY <1>1, <2>1 DEF Phase
    <3> QED
      BY <3>5, <3>6, <3>7, <3>8 DEF Advance
  <2>2. CASE pc' = "mmco"
    BY <2>2 DEF Advance, Ends
  <2> QED
    BY <1>2, <2>1, <2>2 DEF Mark
<1>3. CASE EndHeader
  <2>1. Phase = 3 /\ Phase' = 2
    BY <1>3 DEF EndHeader, Phase
  <2> QED
    BY <2>1 DEF Advance
<1> QED
  BY <1>2, <1>3 DEF Marking

(* The engine runs once, and each purge leaves one reference less.         *)
LEMMA DecodeAdvances ==
  ASSUME TypeOK, Decode \/ Retire
  PROVE  Advance
<1>1. CASE Setup
  <2>1. pc' \in Ends \/ pc' = "run"
    BY <1>1 DEF Setup, Ends
  <2>2. pc' = "run" => Phase = 2 /\ Phase' = 1
    BY <1>1 DEF Setup, Phase
  <2> QED
    BY <2>1, <2>2 DEF Advance
<1>2. CASE Complete
  <2>1. Phase = 1 /\ Phase' = 0
    BY <1>2 DEF Complete, Phase
  <2> QED
    BY <2>1 DEF Advance
<1>3. CASE Stuck
  BY <1>3 DEF Stuck, End, Advance, Ends
<1>4. CASE Purge
  <2>1. pc = "purge" /\ size' = size - 1 /\ size \in Nat /\ size' \in Nat
        /\ pc' \in {"purge", "clear_frame"}
    BY <1>4, RefsType DEF Purge, RefSlots
  <2>2. CASE pc' = "purge"
    <3>1. Phase' = Phase /\ Work = size /\ Work' = size'
      BY <2>1, <2>2 DEF Phase, Work
    <3> QED
      BY <2>1, <3>1 DEF Advance
  <2>3. CASE pc' = "clear_frame"
    BY <2>3 DEF Advance, Ends
  <2> QED
    BY <2>1, <2>2, <2>3
<1>5. CASE Slide \/ NoSlide
  BY <1>5 DEF Slide, NoSlide, Advance, Ends
<1> QED
  BY <1>1, <1>2, <1>3, <1>4, <1>5 DEF Decode, Retire

(* Every step of a slice leaves less to do, and the lists fit.             *)
LEMMA StepAdvances ==
  ASSUME IInv, ListsFit, [Next]_vars
  PROVE  /\ ListsFit'
         /\ pc \notin {"nal"} \union Ends /\ ~ UNCHANGED vars => Advance
<1> USE DEF IInv
<1>1. ASSUME NEW h \in Header, NEW lsb \in Lsbs, ParseHeader(h, lsb)
      PROVE  ListsFit' /\ pc = "nal"
  <2>1. /\ pc = "nal" /\ l1' = 0 /\ lists'[0] = << >> /\ size' \in Nat
        /\ UNCHANGED lists
    BY <1>1, RefsType DEF ParseHeader, LoopsReady
  <2> QED
    BY <2>1 DEF ListsFit
<1>2. CASE FormLists
  BY <1>2, FormListsAdvance
<1>3. CASE Modify
  BY <1>3, ModifyAdvances
<1>4. CASE Marking
  <2>1. ListsFit'
    BY <1>4 DEF Marking, Mark, EndHeader, listVars, ListsFit
  <2> QED
    BY <1>4, <2>1, MarkingAdvances
<1>5. CASE Decode \/ Retire
  <2>1. \/ UNCHANGED lists
        \/ lists' = [l \in 0 .. 1 |-> << >>]
    BY <1>5 DEF Decode, Setup, Complete, Stuck, End, Retire, Purge, Slide, NoSlide, EndSlice,
                listVars
  <2>2. pc' \notin {"form_P", "first_pass", "second_pass"}
    BY <1>5 DEF Decode, Setup, Complete, Stuck, End, Retire, Purge, Slide, NoSlide
  <2>3. NumSlots \in Nat \ {0}
    BY RefsType
  <2>4. ListsFit'
    BY <2>1, <2>2, <2>3 DEF ListsFit
  <2> QED
    BY <1>5, <2>4, DecodeAdvances
<1>6. CASE UnsupportedSyntax
  BY <1>6 DEF UnsupportedSyntax, End, listVars, ListsFit, Advance, Ends
<1>7. CASE UNCHANGED vars
  BY <1>7 DEF vars, dpbVars, listVars, ListsFit
<1> QED
  BY <1>1, <1>2, <1>3, <1>4, <1>5, <1>6, <1>7 DEF Next, Ended

(* Whatever the stream, a slice has only finitely many steps to its end:   *)
(* the pair of phase and work falls with each of them.                     *)
THEOREM SlicesAdvance == Spec => SliceAdvances
<1>1. Init => ListsFit
  BY SlotsAssumption DEF Init, ListsFit
<1>2. IInv /\ ListsFit /\ [Next]_vars =>
        [pc \notin {"nal"} \union Ends =>
           \/ pc' \in {"nal"} \union Ends
           \/ Phase' < Phase
           \/ Phase' = Phase /\ Work' \in 0 .. Work - 1]_vars
  BY StepAdvances DEF Advance
<1>3. IInv /\ ListsFit /\ [Next]_vars => ListsFit'
  BY StepAdvances
<1> QED
  BY <1>1, <1>2, <1>3, Inductive, PTL DEF Spec, SliceAdvances
=============================================================================
