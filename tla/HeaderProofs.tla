---------------------------- MODULE HeaderProofs ----------------------------
(***************************************************************************)
(* What SliceDecoder computes from the syntax: the picture order count,    *)
(* frame_num with its wrap flag, and the picture a modification command    *)
(* names; and the order in which form_P_frame_ref_list and                 *)
(* form_B_frame_ref_list_l0 and _l1 list the references.                   *)
(***************************************************************************)
EXTENDS SliceDecoderProofs

(***************************************************************************)
(* The picture order count.                                                *)
(***************************************************************************)
(* The count PicOrderCntMsb completes is within half a cycle of the one    *)
(* before it, and ahead when it is exactly half a cycle away.              *)
LEMMA NearestCount ==
  ASSUME NEW lsb \in 0 .. MaxPicOrderCntLsb - 1,
         NEW pLsb \in 0 .. MaxPicOrderCntLsb - 1, NEW pMsb \in Int
  PROVE  LET count == PicOrderCntMsb(lsb, pLsb, pMsb) + lsb
         IN  /\ -MaxPicOrderCntLsb < 2 * (count - (pMsb + pLsb))
             /\ 2 * (count - (pMsb + pLsb)) <= MaxPicOrderCntLsb
<1> DEFINE half == MaxPicOrderCntLsb \div 2
<1>1. half \in Nat /\ MaxPicOrderCntLsb = 2 * half
  BY StreamAssumption
<1> HIDE DEF half
<1>2. CASE lsb < pLsb /\ pLsb - lsb >= half
  <2>1. PicOrderCntMsb(lsb, pLsb, pMsb) = pMsb + MaxPicOrderCntLsb
    BY <1>1, <1>2 DEF PicOrderCntMsb, half
  <2> QED
    BY <1>1, <1>2, <2>1
<1>3. CASE lsb > pLsb /\ lsb - pLsb > half
  <2>1. PicOrderCntMsb(lsb, pLsb, pMsb) = pMsb - MaxPicOrderCntLsb
    BY <1>1, <1>3 DEF PicOrderCntMsb, half
  <2> QED
    BY <1>1, <1>3, <2>1
<1>4. CASE /\ ~(lsb < pLsb /\ pLsb - lsb >= half)
           /\ ~(lsb > pLsb /\ lsb - pLsb > half)
  <2>1. PicOrderCntMsb(lsb, pLsb, pMsb) = pMsb
    BY <1>4 DEF PicOrderCntMsb, half
  <2> QED
    BY <1>1, <1>4, <2>1
<1> QED
  BY <1>2, <1>3, <1>4

(* Of the steps that start from "nal" only a header begins a slice. *)
LEMMA SliceBegins ==
  ASSUME Next, pc = "nal", pc' \notin {"nal"} \union Ends
  PROVE  \E h \in Header, lsb \in Lsbs : ParseHeader(h, lsb)
<1>1. ~FormLists /\ ~Modify /\ ~Marking /\ ~Decode /\ ~Retire
  BY DEF FormLists, FormP, FirstPass, SecondPass, Modify, Command, AnyCommand,
     Remap, RemapBeyond, EndRemap, Marking,
     Mark, EndHeader, Decode, Setup, Complete, Stuck, Retire, Purge, Slide, NoSlide,
     Purged
<1>2. ~UnsupportedSyntax /\ ~Ended
  BY DEF UnsupportedSyntax, End, Ended, Ends
<1> QED
  BY <1>1, <1>2 DEF Next

(* The count recovered from pic_order_cnt_lsb is the one nearest to the    *)
(* count of the previous picture, half a cycle ahead included.             *)
THEOREM CountNearest == Spec => PocNearest
<1>1. TypeOK /\ [Next]_vars =>
        [(/\ pc = "nal" /\ pc' \notin {"nal"} \union Ends
          /\ sh'.sps.pic_order_cnt_type = 0) =>
           LET previous == IF sh'.idr THEN 0 ELSE prevMsb + prevLsb
               distance == 2 * (poc'[dpb'[0]] - previous)
           IN  -MaxPicOrderCntLsb < distance /\ distance <= MaxPicOrderCntLsb]_vars
  <2> DEFINE previous == IF sh'.idr THEN 0 ELSE prevMsb + prevLsb
             distance == 2 * (poc'[dpb'[0]] - previous)
  <2> SUFFICES ASSUME TypeOK, Next, pc = "nal", pc' \notin {"nal"} \union Ends,
                      sh'.sps.pic_order_cnt_type = 0
               PROVE  -MaxPicOrderCntLsb < distance /\ distance <= MaxPicOrderCntLsb
    OBVIOUS
  <2>1. PICK h \in Header, lsb \in Lsbs : ParseHeader(h, lsb)
    BY SliceBegins
  <2> DEFINE pLsb == IF h.idr THEN 0 ELSE prevLsb
             pMsb == IF h.idr THEN 0 ELSE prevMsb
             count == PicOrderCntMsb(lsb, pLsb, pMsb) + lsb
  <2>2. /\ lsb \in 0 .. MaxPicOrderCntLsb - 1
        /\ pLsb \in 0 .. MaxPicOrderCntLsb - 1 /\ pMsb \in Int
    <3>1. lsb \in 0 .. MaxPicOrderCntLsb - 1 /\ 0 \in 0 .. MaxPicOrderCntLsb - 1
      BY StreamAssumption
    <3>2. prevLsb \in 0 .. MaxPicOrderCntLsb - 1 /\ prevMsb \in Int
      BY DEF TypeOK
    <3> QED
      BY <3>1, <3>2
  <2>3. sh' = h /\ dpb' = dpb /\ poc' = [poc EXCEPT ![dpb[0]] = count]
    BY <2>1 DEF ParseHeader
  <2>4. poc'[dpb'[0]] = count
    BY <2>3, RefsType DEF TypeOK
  <2>5. previous = pMsb + pLsb
    BY <2>3 DEF TypeOK
  <2>6. /\ -MaxPicOrderCntLsb < 2 * (count - (pMsb + pLsb))
        /\ 2 * (count - (pMsb + pLsb)) <= MaxPicOrderCntLsb
    <3> HIDE DEF pLsb, pMsb
    <3> QED
      BY <2>2, NearestCount
  <2> HIDE DEF previous, count, pLsb, pMsb
  <2> QED
    BY <2>4, <2>5, <2>6, Zenon
<1> QED
  BY <1>1, TypeCorrect, PTL DEF Spec, PocNearest

-----------------------------------------------------------------------------
(***************************************************************************)
(* How the references change.                                              *)
(***************************************************************************)
(* Purging takes one buffer out of the references and adds none. *)
LEMMA PurgeRefs ==
  ASSUME IInv, NEW i \in RefSlots, dpb' = MoveFrame(dpb, i, size), size' = size - 1
  PROVE  Refs' \subseteq Refs \ {dpb[i]} /\ dpb'[0] = dpb[0]
<1> USE DEF IInv
<1>1. /\ i \in Nat /\ size \in Nat /\ 1 <= i /\ i <= size
      /\ DOMAIN dpb = Slots /\ 0 \in Slots
  BY RefsType DEF RefSlots, TypeOK
<1>2. dpb'[0] = dpb[0]
  BY <1>1 DEF MoveFrame
<1>3. ASSUME NEW k \in 1 .. size - 1 PROVE dpb'[k] \in Refs \ {dpb[i]}
  <2>1. k \in Slots /\ k + 1 \in RefSlots /\ k \in RefSlots /\ k < size
    BY <1>1, RefsType DEF RefSlots, Slots
  <2>2. dpb'[k] = IF i <= k THEN dpb[k + 1] ELSE dpb[k]
    BY <1>1, <2>1 DEF MoveFrame
  <2>3. \A j \in RefSlots : j # i => dpb[j] \in Refs \ {dpb[i]}
    BY RefsType DEF SlotsDistinct, Refs
  <2> QED
    BY <1>1, <2>1, <2>2, <2>3
<1>4. Refs' \subseteq Refs \ {dpb[i]}
  BY <1>3 DEF Refs, RefSlots
<1> QED
  BY <1>2, <1>4

(* Sliding adds the current picture and takes out what goes to slot 0. *)
LEMMA SlideRefs ==
  ASSUME IInv, NEW window \in Slots, dpb' = MoveFrame(dpb, window, 0),
         size' = IF size < window THEN size + 1 ELSE size
  PROVE  Refs' \subseteq (Refs \union {dpb[0]}) \ {dpb[window]}
<1> USE DEF IInv
<1>1. /\ window \in Nat /\ size \in Nat /\ DOMAIN dpb = Slots /\ size <= NumSlots - 1
      /\ window <= NumSlots - 1 /\ NumSlots \in Nat
  BY RefsType DEF Slots, TypeOK
<1>2. ASSUME NEW k \in 1 .. size' PROVE dpb'[k] \in (Refs \union {dpb[0]}) \ {dpb[window]}
  <2>1. k \in Slots /\ k \in Nat /\ k >= 1 /\ k - 1 \in Slots
    BY <1>1 DEF Slots
  <2>2. k > window => k \in RefSlots
    BY <1>1, <2>1 DEF RefSlots
  <2>3. k <= window => k - 1 \in RefSlots \union {0}
    BY <1>1, <2>1 DEF RefSlots
  <2>4. dpb'[k] = IF k <= window THEN dpb[k - 1] ELSE dpb[k]
    BY <1>1, <2>1 DEF MoveFrame
  <2>5. \A j \in Slots : j # window /\ j \in RefSlots \union {0} =>
          dpb[j] \in (Refs \union {dpb[0]}) \ {dpb[window]}
    BY DEF SlotsDistinct, Refs
  <2> QED
    BY <1>1, <2>1, <2>2, <2>3, <2>4, <2>5
<1> QED
  BY <1>2 DEF Refs, RefSlots

(* A slice that is being decoded keeps its header, its numbers and the     *)
(* references until the purge.                                             *)
LEMMA HeaderKept ==
  ASSUME FormLists \/ Modify \/ Marking \/ Decode
  PROVE  /\ UNCHANGED <<sh, dpb, size, wrapped, num, poc, prevNum>>
         /\ Refs' = Refs
         /\ pc \notin Ends \union {"nal"}
<1>1. UNCHANGED <<sh, dpb, size, wrapped, num, poc, prevNum>>
  BY DEF FormLists, FormP, FirstPass, SecondPass, Modify, Command, AnyCommand,
     Remap, RemapBeyond, EndRemap, Marking,
     Mark, EndHeader, Decode, Setup, Complete, Stuck, End, dpbVars, picVars, prevVars
<1>2. pc \notin Ends \union {"nal"}
  BY DEF FormLists, FormP, FirstPass, SecondPass, Modify, Command, AnyCommand,
     Remap, RemapBeyond, EndRemap, Marking,
     Mark, EndHeader, Decode, Setup, Complete, Stuck, Ends
<1> QED
  BY <1>1, <1>2 DEF Refs, RefSlots

(* Ending the process or doing nothing leaves everything but pc alone. *)
LEMMA NothingElse ==
  ASSUME UnsupportedSyntax \/ Ended \/ UNCHANGED vars
  PROVE  /\ UNCHANGED <<sh, dpb, size, wrapped, num, poc, prevNum, lists, l1, refIdxL,
                        predicted, encPred>>
         /\ Refs' = Refs
         /\ pc' = "unsupported" \/ pc' = pc
BY DEF UnsupportedSyntax, End, Ended, vars, dpbVars, picVars, prevVars, listVars,
   Refs, RefSlots

-----------------------------------------------------------------------------
(***************************************************************************)
(* The numbers of a conforming stream.                                     *)
(***************************************************************************)
(* A picture is numbered apart from every picture held. *)
LEMMA ParseHeaderNumbers ==
  ASSUME Conforming, IInv, NumbersApart, NEW h \in Header, NEW lsb \in Lsbs,
         ParseHeader(h, lsb)
  PROVE  NumbersApart'
<1> USE DEF IInv
<1>1. /\ pc = "nal" /\ sh' = h /\ prevNum' = h.frame_num /\ dpb' = dpb
      /\ num' = [num EXCEPT ![dpb[0]] = h.frame_num]
      /\ size' = (IF h.idr THEN 0 ELSE size) /\ InStream(h, lsb)
  BY DEF ParseHeader
<1>2. Refs' = IF h.idr THEN {} ELSE Refs
  <2>1. CASE h.idr
    BY <1>1, <2>1 DEF Refs, RefSlots
  <2>2. CASE ~h.idr
    BY <1>1, <2>2 DEF Refs, RefSlots
  <2> QED
    BY <2>1, <2>2
<1>3. dpb[0] \notin Refs /\ dpb[0] \in Buf /\ num \in [Buf -> 0 .. MaxFrameNum - 1]
  BY CurrentApart, RefsType DEF TypeOK
<1>4. ASSUME NEW b \in Refs' PROVE num'[b] = num[b] /\ num[b] # h.frame_num /\ b \in Refs
  BY <1>1, <1>2, <1>3, <1>4, RefsType DEF InStream
<1>5. num'[dpb'[0]] = h.frame_num
  BY <1>1, <1>3
<1> QED
  BY <1>1, <1>4, <1>5 DEF NumbersApart, Ends

(* Every step keeps the numbers apart. *)
LEMMA StepNumbers ==
  ASSUME Conforming, IInv, NumbersApart, [Next]_vars
  PROVE  NumbersApart'
<1> USE DEF NumbersApart
<1>1. ASSUME NEW h \in Header, NEW lsb \in Lsbs, ParseHeader(h, lsb) PROVE NumbersApart'
  BY <1>1, ParseHeaderNumbers
<1>2. CASE FormLists \/ Modify \/ Marking \/ Decode
  BY <1>2, HeaderKept
<1>3. CASE UnsupportedSyntax \/ Ended \/ UNCHANGED vars
  BY <1>3, NothingElse DEF Ends
<1>4. CASE Purge
  <2>1. PICK i \in RefSlots : dpb' = MoveFrame(dpb, i, size) /\ size' = size - 1
    BY <1>4 DEF Purge
  <2>2. UNCHANGED <<sh, num, prevNum>> /\ pc = "purge"
    BY <1>4 DEF Purge, picVars, prevVars
  <2>3. Refs' \subseteq Refs /\ dpb'[0] = dpb[0]
    BY <2>1, PurgeRefs
  <2> QED
    BY <2>2, <2>3 DEF Ends
<1>5. CASE Slide
  <2>1. UNCHANGED <<sh, num, prevNum>> /\ pc = "purge" /\ pc' \in {"nal"} \union Ends
    BY <1>5 DEF Slide, EndSlice, Purged, picVars, prevVars, Ends
  <2>2. CASE pc' = "nal"
    <3>1. Refs' \subseteq Refs \union {dpb[0]}
      BY <1>5, <2>2, SlideRefs DEF Slide
    <3> QED
      BY <2>1, <2>2, <3>1 DEF Ends
  <2> QED
    BY <2>1, <2>2
<1>6. CASE NoSlide
  <2>1. UNCHANGED <<sh, num, prevNum, dpb, size>> /\ pc = "purge" /\ pc' = "nal"
    BY <1>6 DEF NoSlide, EndSlice, Purged, picVars, prevVars, dpbVars
  <2> QED
    BY <2>1 DEF Refs, RefSlots, Ends
<1> QED
  BY <1>1, <1>2, <1>3, <1>4, <1>5, <1>6 DEF Next, Retire

(* Pictures are told apart by their number in every conforming stream.     *)
LEMMA NumbersStayApart ==
  ASSUME Conforming
  PROVE  Spec => []NumbersApart
<1>1. Init => NumbersApart
  BY DEF Init, NumbersApart, NoHeader, Refs, RefSlots
<1> QED
  BY <1>1, Inductive, StepNumbers, PTL DEF Spec
-----------------------------------------------------------------------------
(***************************************************************************)
(* The modification commands.                                              *)
(***************************************************************************)
(* When the predictors agree a command names the picture it means. *)
LEMMA AgreedRemap ==
  ASSUME TypeOK, NEW t \in Refs, predicted = encPred
  PROVE  (predicted + num[t] - encPred) % MaxFrameNum = num[t]
<1>1. num[t] \in 0 .. MaxFrameNum - 1 /\ predicted \in Int /\ encPred \in Int
  BY RefsType DEF TypeOK
<1>2. predicted + num[t] - encPred = num[t]
  BY <1>1
<1> QED
  BY <1>1, <1>2, StreamAssumption

(* Every step keeps the predictors of list 0 together. *)
LEMMA StepPredictors ==
  ASSUME Conforming, IInv, PredictorsAgree, [Next]_vars
  PROVE  PredictorsAgree'
<1> USE DEF IInv, PredictorsAgree
<1>1. ASSUME NEW h \in Header, NEW lsb \in Lsbs, ParseHeader(h, lsb) PROVE PredictorsAgree'
  BY <1>1 DEF ParseHeader
<1>2. CASE FormLists
  BY <1>2 DEF FormLists, FormP, FirstPass, SecondPass
<1>3. ASSUME NEW t \in Refs, Command(t) PROVE PredictorsAgree'
  <2>1. /\ pc = "modify" /\ l1' = l1 /\ encPred' = num[t]
        /\ predicted' = (predicted + num[t] - encPred) % MaxFrameNum
        /\ pc' \in {"modify", "remap"}
    BY <1>3 DEF Command, Remap
  <2> QED
    BY <2>1, AgreedRemap
<1>4. CASE EndRemap
  BY <1>4 DEF EndRemap
<1>5. CASE Marking \/ Decode \/ Retire
  BY <1>5 DEF Marking, Mark, EndHeader, Decode, Setup, Complete, Stuck, End, Retire,
     Purge, Slide, NoSlide, Purged, EndSlice
<1>6. CASE UnsupportedSyntax \/ Ended \/ UNCHANGED vars
  BY <1>6, NothingElse
<1> QED
  BY <1>1, <1>2, <1>3, <1>4, <1>5, <1>6 DEF Next, Modify

(* A command that fails an assertion although both predictors agreed named *)
(* a picture whose entry, if it has one, is already in front.              *)
LEMMA RemapFails ==
  ASSUME Conforming, IInv, NumbersApart, PredictorsAgree, NEW t \in Refs, Command(t), pc' = "remap"
  PROVE  RemapRejects'
<1> USE DEF IInv
<1> DEFINE list  == lists[l1]
           remap == (predicted + num[t] - encPred) % MaxFrameNum
           same  == {i \in DOMAIN list : num[list[i]] = remap}
<1>1. /\ pc = "modify" /\ predicted' = remap /\ encPred' = num[t]
      /\ UNCHANGED <<num, dpb, size, l1, lists, refIdxL>>
      /\ ~(\E i \in same : same = {i} /\ refIdxL < i)
  BY DEF Command, Remap, Named, dpbVars, picVars
<1>2. Refs' = Refs /\ num[t] \in Int /\ refIdxL \in Nat /\ l1 \in 0 .. 1
  BY <1>1, RefsType DEF Refs, RefSlots, TypeOK
<1>3. CASE predicted' # encPred'
  <2>1. l1 = 1
    <3>1. CASE l1 = 0
      BY <1>1, <1>3, <3>1, AgreedRemap DEF PredictorsAgree
    <3> QED
      BY <1>2, <3>1
  <2> QED
    BY <1>1, <1>3, <2>1 DEF RemapRejects
<1>4. CASE predicted' = encPred'
  <2>1. remap = num[t]
    BY <1>1, <1>4
  <2>2. ASSUME NEW k \in DOMAIN list, list[k] = t PROVE k <= refIdxL
    <3>1. /\ \A i \in DOMAIN list : list[i] \in Refs
          /\ \A i, m \in DOMAIN list : list[i] = list[m] => i = m
      BY <1>1, <1>2 DEF ListsHeld, LoopsReady
    <3>2. \A a, b \in Refs : num[a] = num[b] => a = b
      BY <1>1 DEF NumbersApart, Ends
    <3>3. same = {k}
      <4>1. k \in same
        BY <2>1, <2>2
      <4>2. ASSUME NEW i \in same PROVE i = k
        BY <2>1, <2>2, <3>1, <3>2
      <4> QED
        BY <4>1, <4>2
    <3>4. DOMAIN list \subseteq Nat
      BY ListsType
    <3> HIDE DEF same, list
    <3> QED
      BY <1>1, <1>2, <3>3, <3>4
  <2>3. num'[t] = predicted' /\ \A k \in DOMAIN lists'[l1'] : lists'[l1'][k] = t => k <= refIdxL'
    BY <1>1, <2>1, <2>2
  <2> QED
    BY <1>2, <2>3 DEF RemapRejects
<1> QED
  BY <1>3, <1>4

(* Only a command ends the program with "remap". *)
LEMMA OnlyRemap ==
  ASSUME Conforming, IInv, Next, pc' = "remap", pc # "remap"
  PROVE  \E t \in Refs : Command(t)
<1> USE DEF IInv
<1>1. ASSUME NEW h \in Header, NEW lsb \in Lsbs, ParseHeader(h, lsb) PROVE FALSE
  BY <1>1 DEF ParseHeader
<1>2. ~FormLists
  <2>1. ~FormP
    BY DEF FormP, CloseList
  <2>2. ~FirstPass
    BY DEF FirstPass
  <2>3. ~SecondPass
    BY DEF SecondPass, CloseList
  <2> QED
    BY <2>1, <2>2, <2>3 DEF FormLists
<1>3. ~Marking /\ ~Decode /\ ~EndRemap
  BY DEF EndRemap, Marking, Mark, EndHeader, Decode, Setup, Complete, Stuck, End
<1>4. ~Retire
  BY DEF Retire, Purge, Slide, NoSlide, Purged
<1>5. ~UnsupportedSyntax /\ ~Ended
  BY DEF UnsupportedSyntax, End, Ended, vars
<1> QED
  BY <1>1, <1>2, <1>3, <1>4, <1>5 DEF Next, Modify

(* In a conforming stream a command is refused only if the picture it      *)
(* names was cut from the list or is in front already, or if list 1        *)
(* started from the predictor list 0 left.                                 *)
THEOREM CommandsRefused ==
  ASSUME Conforming
  PROVE  Spec => []RemapRejects
<1>1. Init => PredictorsAgree /\ RemapRejects
  BY DEF Init, PredictorsAgree, RemapRejects
<1>2. IInv /\ NumbersApart /\ PredictorsAgree /\ RemapRejects /\ [Next]_vars
        => PredictorsAgree' /\ RemapRejects'
  <2> SUFFICES ASSUME IInv, NumbersApart, PredictorsAgree, RemapRejects, [Next]_vars
               PROVE  RemapRejects'
    BY StepPredictors
  <2>1. CASE pc' # "remap"
    BY <2>1 DEF RemapRejects
  <2>2. CASE pc = "remap"
    <3>1. UnsupportedSyntax \/ Ended \/ UNCHANGED vars
      BY <2>2 DEF Next, ParseHeader, FormLists, FormP, FirstPass, SecondPass, Modify,
         Command, AnyCommand, Remap, RemapBeyond, EndRemap, Marking, Mark, EndHeader, Decode, Setup, Complete, Stuck,
         Retire, Purge, Slide, NoSlide, Purged
    <3> QED
      BY <2>2, <3>1, NothingElse DEF RemapRejects
  <2>3. CASE pc' = "remap" /\ pc # "remap"
    <3>1. Next
      BY <2>3 DEF vars
    <3> QED
      BY <2>3, <3>1, OnlyRemap, RemapFails
  <2> QED
    BY <2>1, <2>2, <2>3
<1> QED
  BY <1>1, <1>2, Inductive, NumbersStayApart, PTL DEF Spec
-----------------------------------------------------------------------------
(***************************************************************************)
(* The wrap of frame_num.                                                  *)
(***************************************************************************)
(* The number after n. *)
LEMMA NextNumber ==
  ASSUME NEW n \in 0 .. MaxFrameNum - 1
  PROVE  (n + 1) % MaxFrameNum = IF n = MaxFrameNum - 1 THEN 0 ELSE n + 1
<1>1. MaxFrameNum \in Nat \ {0}
  BY StreamAssumption
<1>2. CASE n = MaxFrameNum - 1
  BY <1>1, <1>2
<1>3. CASE n # MaxFrameNum - 1
  <2>1. n + 1 \in 0 .. MaxFrameNum - 1
    BY <1>1, <1>3
  <2> QED
    BY <1>1, <1>3, <2>1
<1> QED
  BY <1>2, <1>3

(* The header of a conforming slice that flushes nothing: its number is 0, *)
(* the previous one or the next, and unlike that of any picture held.      *)
LEMMA ConformingNumber ==
  ASSUME Conforming, TypeOK, NumbersApart, pc = "nal", NEW h \in Header, NEW lsb, InStream(h, lsb),
         ~h.idr
  PROVE  /\ h.frame_num \in {0, prevNum, prevNum + 1}
         /\ h.frame_num \in Nat /\ prevNum \in Nat
         /\ \A b \in Refs : num[b] # h.frame_num /\ num[b] \in Nat
<1>1. h.frame_num = NextFrameNum /\ \A b \in Refs : num[b] # h.frame_num
  BY DEF InStream
<1>2. prevNum \in 0 .. MaxFrameNum - 1 /\ h.frame_num \in 0 .. MaxFrameNum - 1
  BY DEF TypeOK, Header
<1>3. NextFrameNum \in {0, prevNum, prevNum + 1}
  BY <1>2, NextNumber DEF NextFrameNum
<1>4. \A b \in Refs : num[b] \in Nat
  BY RefsType DEF TypeOK
<1> QED
  BY <1>1, <1>2, <1>3, <1>4

(* The header raises the flag exactly when its number starts over. *)
LEMMA ParseHeaderWrap ==
  ASSUME Conforming, IInv, NumbersApart, WrapFollows,
         NEW h \in Header, NEW lsb \in Lsbs, ParseHeader(h, lsb)
  PROVE  WrapFollows'
<1> USE DEF IInv
<1>1. /\ pc = "nal" /\ prevNum' = h.frame_num /\ dpb' = dpb /\ InStream(h, lsb)
      /\ num' = [num EXCEPT ![dpb[0]] = h.frame_num]
      /\ size' = (IF h.idr THEN 0 ELSE size)
      /\ wrapped' = (wrapped \ (IF h.idr THEN Refs ELSE {})) \union NewlyWrapped(h)
  BY DEF ParseHeader
<1>2. CASE h.idr
  <2>1. Refs' = {}
    BY <1>1, <1>2 DEF Refs, RefSlots
  <2> QED
    BY <2>1 DEF WrapFollows
<1>3. CASE ~h.idr
  <2>1. Refs' = Refs
    BY <1>1, <1>3 DEF Refs, RefSlots
  <2>2. /\ h.frame_num \in {0, prevNum, prevNum + 1}
        /\ h.frame_num \in Nat /\ prevNum \in Nat
        /\ \A b \in Refs : num[b] # h.frame_num /\ num[b] \in Nat
    BY <1>1, <1>3, ConformingNumber
  <2>3. \A b \in Refs : num'[b] = num[b]
    BY <1>1, CurrentApart, RefsType DEF TypeOK
  <2>4. \A b \in Refs : b \in wrapped <=> num[b] > prevNum
    BY <1>1 DEF WrapFollows, Ends
  <2>5. wrapped' = wrapped \union (IF h.frame_num = 0 THEN Refs ELSE {})
    BY <1>1, <1>3 DEF NewlyWrapped
  <2>6. ASSUME NEW b \in Refs PROVE b \in wrapped' <=> num[b] > h.frame_num
    <3>1. CASE h.frame_num = 0
      BY <2>2, <2>5, <2>6, <3>1
    <3>2. CASE h.frame_num # 0
      <4>1. num[b] > h.frame_num <=> num[b] > prevNum
        BY <2>2, <2>6, <3>2
      <4> QED
        BY <2>4, <2>5, <2>6, <3>2, <4>1
    <3> QED
      BY <3>1, <3>2
  <2> QED
    BY <1>1, <2>1, <2>3, <2>6 DEF WrapFollows
<1> QED
  BY <1>2, <1>3

(* Every step keeps the flag right.  The new picture comes with a cleared  *)
(* flag (FlagsHeld) and a purged one loses it only as it leaves.           *)
LEMMA StepWrap ==
  ASSUME Conforming, IInv, FlagsHeld, NumbersApart, WrapFollows, [Next]_vars
  PROVE  WrapFollows'
<1> USE DEF WrapFollows
<1>1. ASSUME NEW h \in Header, NEW lsb \in Lsbs, ParseHeader(h, lsb) PROVE WrapFollows'
  BY <1>1, ParseHeaderWrap
<1>2. CASE FormLists \/ Modify \/ Marking \/ Decode
  BY <1>2, HeaderKept
<1>3. CASE UnsupportedSyntax \/ Ended \/ UNCHANGED vars
  BY <1>3, NothingElse DEF Ends
<1>4. CASE Purge
  <2>1. PICK i \in RefSlots :
          /\ dpb' = MoveFrame(dpb, i, size) /\ size' = size - 1
          /\ wrapped' = wrapped \ {dpb[i]}
    BY <1>4 DEF Purge
  <2>2. UNCHANGED <<num, prevNum>> /\ pc = "purge"
    BY <1>4 DEF Purge, picVars, prevVars
  <2>3. Refs' \subseteq Refs \ {dpb[i]}
    BY <2>1, PurgeRefs
  <2> QED
    BY <2>1, <2>2, <2>3 DEF Ends
<1>5. CASE Slide
  <2> DEFINE window == sh.sps.max_num_ref_frames
  <2>1. UNCHANGED <<num, prevNum>> /\ pc = "purge" /\ pc' \in {"nal"} \union Ends
    BY <1>5 DEF Slide, EndSlice, Purged, picVars, prevVars, Ends
  <2>2. CASE pc' = "nal"
    <3>1. /\ window \in Slots /\ dpb' = MoveFrame(dpb, window, 0)
          /\ size' = IF size < window THEN size + 1 ELSE size
          /\ wrapped' = wrapped \ ({dpb[window]} \intersect filled)
      BY <1>5, <2>2 DEF Slide
    <3> HIDE DEF window
    <3>2. Refs' \subseteq (Refs \union {dpb[0]}) \ {dpb[window]}
      BY <3>1, SlideRefs
    <3>3. dpb[0] \notin wrapped /\ ~(num[dpb[0]] > prevNum)
      <4>1. dpb[0] \notin wrapped
        BY CurrentApart DEF FlagsHeld, IInv
      <4>2. num[dpb[0]] = prevNum /\ prevNum \in Int
        BY <2>1 DEF NumbersApart, Ends, IInv, TypeOK
      <4> QED
        BY <4>1, <4>2
    <3>4. \A b \in Refs : b \in wrapped <=> num[b] > prevNum
      BY <2>1 DEF Ends
    <3> QED
      BY <2>1, <3>1, <3>2, <3>3, <3>4
  <2> QED
    BY <2>1, <2>2
<1>6. CASE NoSlide
  BY <1>6 DEF NoSlide, EndSlice, Purged, picVars, prevVars, dpbVars, Refs, RefSlots, Ends
<1> QED
  BY <1>1, <1>2, <1>3, <1>4, <1>5, <1>6 DEF Next, Retire

(* With memory that malloc returns zeroed and a conforming stream, the     *)
(* engine always finds frame_num_wrap set on exactly the references that   *)
(* were numbered before the number started over.                           *)
THEOREM WrapFlagRight ==
  ASSUME Conforming, Garbage = {}
  PROVE  Spec => []WrapMatchesNumber
<1>1. Init => WrapFollows
  BY DEF Init, WrapFollows, Refs, RefSlots
<1>2. NumbersApart /\ WrapFollows => WrapMatchesNumber
  BY DEF NumbersApart, WrapFollows, WrapMatchesNumber, Ends
<1> QED
  BY <1>1, <1>2, StepWrap, Inductive, FlagsFollowReferences, NumbersStayApart, PTL DEF Spec

-----------------------------------------------------------------------------
(***************************************************************************)
(* The order of the lists.                                                 *)
(***************************************************************************)
(* A further entry that precedes all that is not listed keeps the list     *)
(* foremost.                                                               *)
LEMMA AppendForemost ==
  ASSUME NEW l, NEW list \in Seq(Buf), Foremost(l, list), NEW r \in Refs,
         \A b \in Unlisted(list, Len(list)) : b # r => Precedes(l, r, b)
  PROVE  /\ Foremost(l, Append(list, r))
         /\ Unlisted(Append(list, r), Len(list) + 1) = Unlisted(list, Len(list)) \ {r}
<1> DEFINE n    == Len(list)
           more == Append(list, r)
<1>1. /\ n \in Nat /\ DOMAIN list = 1 .. n
      /\ DOMAIN more = 1 .. n + 1 /\ Len(more) = n + 1
      /\ more[n + 1] = r /\ \A k \in 1 .. n : more[k] = list[k]
  OBVIOUS
<1> HIDE DEF more, n
<1>2. \A k \in 1 .. n : {more[m] : m \in 1 .. k} = {list[m] : m \in 1 .. k}
  BY <1>1
<1>3. {more[m] : m \in 1 .. n + 1} = {list[m] : m \in 1 .. n} \union {r}
  <2>1. 1 .. n + 1 = (1 .. n) \union {n + 1}
    BY <1>1
  <2> QED
    BY <1>1, <2>1
<1>4. Unlisted(more, n + 1) = Unlisted(list, n) \ {r}
  BY <1>3 DEF Unlisted
<1>5. ASSUME NEW k \in 1 .. n + 1
      PROVE  more[k] \in Refs /\ \A b \in Unlisted(more, k) : Precedes(l, more[k], b)
  <2>1. CASE k = n + 1
    BY <1>1, <1>4, <2>1 DEF n
  <2>2. CASE k \in 1 .. n
    <3>1. more[k] = list[k] /\ Unlisted(more, k) = Unlisted(list, k)
      BY <1>1, <1>2, <2>2 DEF Unlisted
    <3> QED
      BY <1>1, <2>2, <3>1 DEF Foremost
  <2> QED
    BY <1>1, <2>1, <2>2
<1> QED
  BY <1>1, <1>4, <1>5 DEF Foremost, more, n

(* Cutting a foremost list leaves one. *)
LEMMA TruncateForemost ==
  ASSUME NEW l, NEW list \in Seq(Buf), Foremost(l, list), NEW n \in Nat, n <= Len(list)
  PROVE  Foremost(l, Truncate(list, n))
<1> DEFINE cut == Truncate(list, n)
<1>1. DOMAIN cut = 1 .. n /\ \A k \in 1 .. n : cut[k] = list[k] /\ k \in DOMAIN list
  BY TruncateType
<1> HIDE DEF cut
<1>2. ASSUME NEW k \in 1 .. n
      PROVE  cut[k] = list[k] /\ Unlisted(cut, k) = Unlisted(list, k)
  BY <1>1 DEF Unlisted
<1> QED
  BY <1>1, <1>2 DEF Foremost, cut

(* Whether a list is foremost rests on the header, the references and      *)
(* their counts.                                                           *)
LEMMA ForemostKept ==
  ASSUME UNCHANGED <<sh, poc, dpb, size>>, NEW l, NEW list
  PROVE  /\ Foremost(l, list)' <=> Foremost(l, list)
         /\ \A n : Unlisted(list, n)' = Unlisted(list, n)
         /\ ActiveRefs(l)' = ActiveRefs(l)
BY DEF Foremost, Unlisted, Precedes, Refs, RefSlots, ActiveRefs

LEMMA CountsTellKept ==
  ASSUME UNCHANGED <<sh, poc, dpb, size>>
  PROVE  CountsTell' <=> CountsTell
BY DEF CountsTell, Refs, RefSlots
-----------------------------------------------------------------------------
(***************************************************************************)
(* The searches.                                                           *)
(***************************************************************************)
(* What a pass knows of the references when the counts tell them apart. *)
LEMMA TellingCounts ==
  ASSUME IInv, CountsTell, pc \notin Ends
  PROVE  /\ start \in Int /\ poc[dpb[0]] \in Int /\ MaxPoc \in Nat
         /\ \A b \in Refs : /\ b \in filled /\ poc[b] \in Nat /\ poc[b] <= MaxPoc
                            /\ poc[b] # poc[dpb[0]]
         /\ \A a, b \in Refs : poc[a] = poc[b] => a = b
<1> USE DEF IInv
<1>1. start \in Int /\ poc[dpb[0]] \in Int /\ MaxPoc \in Nat
  BY CountsType, StreamAssumption DEF TypeOK
<1>2. Refs \subseteq filled
  BY HeldFilled
<1>3. \A b \in Refs : poc[b] \in Nat /\ poc[b] <= MaxPoc
  BY <1>1, RefsType DEF TypeOK, CountsTell
<1>4. \A b \in Refs : poc[b] # poc[dpb[0]]
  BY CurrentApart DEF CountsTell
<1> QED
  BY <1>1, <1>2, <1>3, <1>4 DEF CountsTell

(* A reference before start is a candidate of the backward search, one     *)
(* after it of the forward search.                                         *)
LEMMA BeyondStart ==
  ASSUME IInv, CountsTell, pc \notin Ends, NEW b \in Refs
  PROVE  /\ poc[b] < start => \E j \in Candidates(FALSE) : dpb[j] = b
         /\ poc[b] > start => \E j \in Candidates(TRUE) : dpb[j] = b
<1>1. PICK j \in RefSlots : dpb[j] = b
  BY DEF Refs
<1>2. poc[b] > -1 /\ poc[b] < IntMax /\ b \in filled
  BY TellingCounts DEF IntMax
<1> QED
  BY <1>1, <1>2 DEF Candidates

(* The backward search finds the reference with the greatest count below   *)
(* start, the forward search the one with the least above it.              *)
LEMMA FoundNext ==
  ASSUME IInv, CountsTell, pc \notin Ends, NEW after \in BOOLEAN, NEW i \in NextFrame(after)
  PROVE  /\ i \in RefSlots /\ dpb[i] \in Refs /\ poc[dpb[i]] \in Int
         /\ ~after => /\ poc[dpb[i]] < start
                      /\ \A b \in Refs : b # dpb[i] /\ poc[b] < start => poc[b] < poc[dpb[i]]
         /\ after => /\ poc[dpb[i]] > start
                     /\ \A b \in Refs : b # dpb[i] /\ poc[b] > start => poc[b] > poc[dpb[i]]
<1> DEFINE key == [j \in RefSlots |-> poc[dpb[j]]]
<1>1. i \in Candidates(after) /\ i \in RefSlots /\ dpb[i] \in Refs
  BY NextFrameType DEF Refs
<1>2. poc[dpb[i]] \in Int
  BY <1>1, TellingCounts
<1>3. IF after THEN poc[dpb[i]] > start ELSE poc[dpb[i]] < start
  BY <1>1 DEF Candidates
<1>4. \A j \in Candidates(after) \ {i} :
        IF after THEN key[i] < key[j] \/ (key[i] = key[j] /\ i < j)
                 ELSE key[i] > key[j] \/ (key[i] = key[j] /\ i < j)
  BY DEF NextFrame, FirstMost, FirstLeast
<1>5. ASSUME NEW b \in Refs, b # dpb[i],
             IF after THEN poc[b] > start ELSE poc[b] < start
      PROVE  IF after THEN poc[b] > poc[dpb[i]] ELSE poc[b] < poc[dpb[i]]
  <2>1. PICK j \in Candidates(after) : dpb[j] = b
    BY <1>5, BeyondStart
  <2>2. j \in RefSlots /\ j # i /\ key[i] = poc[dpb[i]] /\ key[j] = poc[b]
    BY <1>1, <1>5, <2>1, NextFrameType
  <2>3. poc[b] # poc[dpb[i]] /\ poc[b] \in Int
    BY <1>1, <1>5, TellingCounts
  <2> HIDE DEF key
  <2>4. IF after THEN key[i] < key[j] \/ key[i] = key[j]
                 ELSE key[i] > key[j] \/ key[i] = key[j]
    BY <1>4, <2>1, <2>2
  <2> QED
    BY <1>2, <2>2, <2>3, <2>4
<1> QED
  BY <1>1, <1>2, <1>3, <1>5

(* The two searches, each by itself. *)
LEMMA FoundBefore ==
  ASSUME IInv, CountsTell, pc \notin Ends, NEW i \in NextFrame(FALSE)
  PROVE  /\ i \in RefSlots /\ dpb[i] \in Refs /\ poc[dpb[i]] \in Int
         /\ poc[dpb[i]] < start
         /\ \A b \in Refs : b # dpb[i] /\ poc[b] < start => poc[b] < poc[dpb[i]]
BY FoundNext, Zenon

LEMMA FoundAfter ==
  ASSUME IInv, CountsTell, pc \notin Ends, NEW i \in NextFrame(TRUE)
  PROVE  /\ i \in RefSlots /\ dpb[i] \in Refs /\ poc[dpb[i]] \in Int
         /\ poc[dpb[i]] > start
         /\ \A b \in Refs : b # dpb[i] /\ poc[b] > start => poc[b] > poc[dpb[i]]
BY FoundNext, Zenon

(* Which search the near side and the far side of a list use. *)
LEMMA SearchSides ==
  /\ l1 = 0 => /\ NextFrame(l1 = 1) = NextFrame(FALSE) /\ Candidates(l1 = 1) = Candidates(FALSE)
               /\ NextFrame(l1 = 0) = NextFrame(TRUE) /\ Candidates(l1 = 0) = Candidates(TRUE)
  /\ l1 = 1 => /\ NextFrame(l1 = 1) = NextFrame(TRUE) /\ Candidates(l1 = 1) = Candidates(TRUE)
               /\ NextFrame(l1 = 0) = NextFrame(FALSE) /\ Candidates(l1 = 0) = Candidates(FALSE)
<1>1. /\ l1 = 0 => (l1 = 1) = FALSE /\ (l1 = 0) = TRUE
      /\ l1 = 1 => (l1 = 1) = TRUE /\ (l1 = 0) = FALSE
  OBVIOUS
<1> QED
  BY <1>1

-----------------------------------------------------------------------------
(***************************************************************************)
(* The passes.                                                             *)
(***************************************************************************)
(* What the passes leave alone. *)
LEMMA PassesKeep ==
  ASSUME FormLists
  PROVE  /\ UNCHANGED <<sh, poc, dpb, size, refIdxL>>
         /\ Refs' = Refs
         /\ pc \in Passes
BY DEF FormLists, FormP, FirstPass, SecondPass, dpbVars, picVars, Refs, RefSlots, Passes

(* A pass that takes a reference which precedes all that is not listed,    *)
(* and leaves none of them behind.                                         *)
LEMMA PickInOrder ==
  ASSUME IInv, PassesInOrder, CountsTell, FormLists, UNCHANGED <<pc, l1>>,
         NEW i \in RefSlots, Pick(i),
         \A b \in Unlisted(lists[l1], Len(lists[l1])) :
           b # dpb[i] => Precedes(l1, dpb[i], b) /\ Beyond(b)'
  PROVE  PassesInOrder'
<1> USE DEF IInv, Passes
<1>1. /\ UNCHANGED <<sh, poc, dpb, size>> /\ Refs' = Refs /\ pc \in Passes
      /\ l1 \in 0 .. 1 /\ lists \in [0 .. 1 -> Seq(Buf)]
  BY PassesKeep DEF TypeOK
<1> DEFINE list == lists[l1]
           more == Append(list, dpb[i])
<1>2. lists' = [lists EXCEPT ![l1] = more]
  BY DEF Pick
<1>3. /\ lists'[l1] = more /\ (l1 = 1 => lists'[0] = lists[0])
      /\ list \in Seq(Buf) /\ dpb[i] \in Refs /\ Len(more) = Len(list) + 1
  BY <1>1, <1>2, ListsType DEF Refs
<1>4. /\ Foremost(l1, list)
      /\ l1 = 1 => Len(lists[0]) = ActiveRefs(0) /\ Foremost(0, lists[0])
  BY <1>1 DEF PassesInOrder
<1>5. /\ Foremost(l1, more)
      /\ Unlisted(more, Len(list) + 1) = Unlisted(list, Len(list)) \ {dpb[i]}
  <2>1. \A b \in Unlisted(list, Len(list)) : b # dpb[i] => Precedes(l1, dpb[i], b)
    OBVIOUS
  <2> HIDE DEF list
  <2> QED
    BY <1>3, <1>4, <2>1, AppendForemost
<1> HIDE DEF more
<1>6. \A b \in Unlisted(more, Len(more)) : Beyond(b)'
  BY <1>3, <1>5
<1>7. /\ Foremost(l1, lists[l1])'
      /\ (l1 = 1 => Len(lists[0]) = ActiveRefs(0) /\ Foremost(0, lists[0]))'
  BY <1>1, <1>3, <1>4, <1>5, ForemostKept
<1>8. (\A b \in Unlisted(lists[l1], Len(lists[l1])) : Beyond(b))'
  BY <1>1, <1>3, <1>6 DEF Unlisted
<1> QED
  BY <1>1, <1>7, <1>8 DEF PassesInOrder
(* CloseList leaves the first active references of a foremost list. *)
LEMMA CloseInOrder ==
  ASSUME TypeOK, UNCHANGED <<sh, poc, dpb, size>>, Foremost(l1, lists[l1]),
         NEW next, CloseList(lists[l1], next), pc' # "list_short"
  PROVE  /\ pc' = next
         /\ lists'[1 - l1] = lists[1 - l1]
         /\ Len(lists'[l1]) = ActiveRefs(l1) /\ Foremost(l1, lists'[l1])
<1> DEFINE list == lists[l1]
           cut  == Truncate(list, ActiveRefs(l1))
<1>1. /\ lists \in [0 .. 1 -> Seq(Buf)] /\ l1 \in 0 .. 1 /\ 1 - l1 \in 0 .. 1 /\ 1 - l1 # l1
      /\ list \in Seq(Buf) /\ ActiveRefs(l1) \in Nat
  BY ListsType DEF TypeOK
<1>2. pc' = next /\ lists' = [lists EXCEPT ![l1] = cut] /\ ActiveRefs(l1) <= Len(list)
  BY <1>1 DEF CloseList
<1>3. Len(cut) = ActiveRefs(l1)
  BY <1>1, <1>2, TruncateType
<1>4. Foremost(l1, cut)
  <2> HIDE DEF list
  <2> QED
    BY <1>1, <1>2, TruncateForemost DEF list
<1> HIDE DEF cut
<1> QED
  BY <1>1, <1>2, <1>3, <1>4

(* The loop of form_P_frame_ref_list. *)
LEMMA FormPInOrder ==
  ASSUME IInv, PassesInOrder, FormP
  PROVE  PassesInOrder' /\ InitialOrder'
<1> USE DEF IInv
<1>1. /\ pc = "form_P" /\ l1 = 0 /\ l1' = 0 /\ sh.type = "P" /\ UNCHANGED <<sh, poc, dpb, size>>
      /\ FormLists /\ Refs' = Refs
  BY PassesKeep DEF FormLists, FormP, PassesInOrder
<1>2. CASE ~CountsTell
  BY <1>1, <1>2, CountsTellKept DEF PassesInOrder, InitialOrder, FormP, CloseList, Pick
<1>3. CASE CountsTell
  <2>1. /\ sh.sps.pic_order_cnt_type # 2 /\ Foremost(0, lists[0])
        /\ \A b \in Unlisted(lists[0], Len(lists[0])) : poc[b] < start
    BY <1>1, <1>3 DEF PassesInOrder, Beyond, CountsTell
  <2>2. CASE UNCHANGED pc /\ \E i \in NextFrame(FALSE) : Pick(i)
    <3>1. PICK i \in NextFrame(FALSE) : Pick(i)
      BY <2>2
    <3>2. /\ i \in RefSlots /\ dpb[i] \in Refs
          /\ \A b \in Refs : b # dpb[i] /\ poc[b] < start => poc[b] < poc[dpb[i]]
      BY <1>1, <1>3, FoundBefore DEF Ends
    <3>3. start' = poc[dpb[i]]
      BY <3>1 DEF Pick
    <3>4. ASSUME NEW b \in Unlisted(lists[0], Len(lists[0])), b # dpb[i]
          PROVE  Precedes(0, dpb[i], b) /\ Beyond(b)'
      <4>1. poc[b] < poc[dpb[i]] /\ poc[b] \in Int /\ poc[dpb[i]] \in Int
        BY <1>1, <1>3, <2>1, <3>2, <3>4, TellingCounts DEF Unlisted, Ends
      <4>2. Precedes(0, dpb[i], b)
        BY <1>1, <4>1 DEF Precedes
      <4>3. Beyond(b)'
        BY <1>1, <2>2, <3>3, <4>1 DEF Beyond
      <4> QED
        BY <4>2, <4>3
    <3>5. PassesInOrder'
      BY <1>1, <1>3, <2>2, <3>1, <3>2, <3>4, PickInOrder
    <3> QED
      BY <1>1, <2>2, <3>5 DEF InitialOrder
  <2>3. CASE CloseList(lists[0], "modify")
    <3>1. CASE pc' = "list_short"
      BY <3>1 DEF PassesInOrder, InitialOrder
    <3>2. CASE pc' # "list_short"
      <4>1. pc' = "modify" /\ Len(lists'[0]) = ActiveRefs(0) /\ Foremost(0, lists'[0])
        BY <1>1, <2>1, <2>3, <3>2, CloseInOrder
      <4>2. (Len(lists[0]) = ActiveRefs(0) /\ Foremost(0, lists[0]))'
        BY <1>1, <4>1, ForemostKept
      <4> QED
        BY <1>1, <4>1, <4>2 DEF PassesInOrder, InitialOrder
    <3> QED
      BY <3>1, <3>2
  <2> QED
    BY <2>1, <2>2, <2>3 DEF FormP
<1> QED
  BY <1>2, <1>3

(* The loop of the near side. *)
LEMMA FirstPassInOrder ==
  ASSUME IInv, PassesInOrder, FirstPass
  PROVE  PassesInOrder' /\ InitialOrder'
<1> DEFINE cur == poc[dpb[0]]
<1>1. /\ pc = "first_pass" /\ l1' = l1 /\ l1 \in 0 .. 1 /\ sh.type = "B"
      /\ UNCHANGED <<sh, poc, dpb, size>> /\ FormLists /\ Refs' = Refs
      /\ pc' \in {"first_pass", "second_pass", "list_overrun"}
      /\ pc \notin Ends
  BY PassesKeep DEF FormLists, FirstPass, PassesInOrder, IInv, TypeOK, Ends
<1>2. InitialOrder'
  BY <1>1 DEF InitialOrder
<1>3. CASE ~CountsTell \/ pc' = "list_overrun"
  BY <1>1, <1>2, <1>3, CountsTellKept DEF PassesInOrder
<1>4. CASE CountsTell /\ pc' # "list_overrun"
  <2>1. /\ cur \in Int /\ start \in Int /\ Foremost(l1, lists[l1])
        /\ l1 = 1 => Len(lists[0]) = ActiveRefs(0) /\ Foremost(0, lists[0])
    BY <1>1, <1>4, TellingCounts DEF PassesInOrder
  <2>2. \A b \in Unlisted(lists[l1], Len(lists[l1])) :
          /\ b \in Refs /\ poc[b] \in Int /\ poc[b] # cur
          /\ IF l1 = 0 THEN poc[b] < start \/ poc[b] > cur
                       ELSE poc[b] > start \/ poc[b] < cur
    BY <1>1, <1>4, TellingCounts DEF PassesInOrder, Beyond, Unlisted
  <2>3. IF l1 = 0 THEN start <= cur ELSE start >= cur
    BY <1>1 DEF IInv, PassOrder
  <2>4. CASE UNCHANGED pc /\ \E i \in NextFrame(l1 = 1) : Pick(i)
    <3>1. PICK i \in NextFrame(l1 = 1) : Pick(i)
      BY <2>4
    <3>2. /\ i \in RefSlots /\ dpb[i] \in Refs /\ poc[dpb[i]] \in Int
          /\ l1 = 0 => /\ poc[dpb[i]] < start
                       /\ \A b \in Refs : b # dpb[i] /\ poc[b] < start => poc[b] < poc[dpb[i]]
          /\ l1 = 1 => /\ poc[dpb[i]] > start
                       /\ \A b \in Refs : b # dpb[i] /\ poc[b] > start => poc[b] > poc[dpb[i]]
      <4>1. CASE l1 = 0
        <5>1. i \in NextFrame(FALSE)
          BY <4>1, SearchSides
        <5>2. /\ i \in RefSlots /\ dpb[i] \in Refs /\ poc[dpb[i]] \in Int
              /\ poc[dpb[i]] < start
              /\ \A b \in Refs : b # dpb[i] /\ poc[b] < start => poc[b] < poc[dpb[i]]
          <6>1. IInv /\ CountsTell /\ pc \notin Ends
            BY <1>1, <1>4
          <6> QED
            BY <5>1, <6>1, FoundBefore
        <5> QED
          BY <4>1, <5>2
      <4>2. CASE l1 = 1
        <5>1. i \in NextFrame(TRUE)
          BY <4>2, SearchSides
        <5>2. /\ i \in RefSlots /\ dpb[i] \in Refs /\ poc[dpb[i]] \in Int
              /\ poc[dpb[i]] > start
              /\ \A b \in Refs : b # dpb[i] /\ poc[b] > start => poc[b] > poc[dpb[i]]
          <6>1. IInv /\ CountsTell /\ pc \notin Ends
            BY <1>1, <1>4
          <6> QED
            BY <5>1, <6>1, FoundAfter
        <5> QED
          BY <4>2, <5>2
      <4> QED
        BY <1>1, <4>1, <4>2
    <3>3. start' = poc[dpb[i]]
      BY <3>1 DEF Pick
    <3>4. ASSUME NEW b \in Unlisted(lists[l1], Len(lists[l1])), b # dpb[i]
          PROVE  Precedes(l1, dpb[i], b) /\ Beyond(b)'
      <4>1. /\ poc[b] \in Int /\ poc[dpb[i]] \in Int
            /\ l1 = 0 => poc[dpb[i]] < cur /\ (poc[b] < poc[dpb[i]] \/ poc[b] > cur)
            /\ l1 = 1 => poc[dpb[i]] > cur /\ (poc[b] > poc[dpb[i]] \/ poc[b] < cur)
        BY <1>1, <2>1, <2>2, <2>3, <3>2, <3>4
      <4>2. Precedes(l1, dpb[i], b)
        BY <1>1, <2>1, <4>1 DEF Precedes
      <4>3. Beyond(b)'
        BY <1>1, <2>4, <3>3, <4>1 DEF Beyond
      <4> QED
        BY <4>2, <4>3
    <3>5. PassesInOrder'
      BY <1>1, <1>4, <2>4, <3>1, <3>2, <3>4, PickInOrder
    <3> QED
      BY <1>2, <3>5
  <2>5. CASE /\ pc' = "second_pass" /\ start' = cur /\ UNCHANGED lists
             /\ Candidates(l1 = 1) = {}
    <3>1. ASSUME NEW b \in Unlisted(lists[l1], Len(lists[l1])) PROVE Beyond(b)'
      <4>1. IF l1 = 0 THEN ~(poc[b] < start) ELSE ~(poc[b] > start)
        <5>1. (l1 = 0 => Candidates(FALSE) = {}) /\ (l1 = 1 => Candidates(TRUE) = {})
          BY <2>5, SearchSides
        <5>2. b \in Refs /\ IInv /\ CountsTell /\ pc \notin Ends
          BY <1>1, <1>4, <2>2, <3>1
        <5>3. /\ poc[b] < start => Candidates(FALSE) # {}
              /\ poc[b] > start => Candidates(TRUE) # {}
          BY <5>2, BeyondStart
        <5>4. l1 = 0 \/ l1 = 1
          BY <1>1
        <5>5. (l1 = 0 => ~(poc[b] < start)) /\ (l1 = 1 => ~(poc[b] > start))
          BY <5>1, <5>3, Zenon
        <5> QED
          BY <5>4, <5>5
      <4>2. IF l1 = 0 THEN poc[b] > cur ELSE poc[b] < cur
        BY <1>1, <2>2, <3>1, <4>1
      <4> QED
        BY <1>1, <2>5, <4>2 DEF Beyond
    <3>2. Unlisted(lists[l1], Len(lists[l1]))' = Unlisted(lists[l1], Len(lists[l1]))
      BY <1>1, <2>5, ForemostKept
    <3>3. /\ Foremost(l1, lists[l1])'
          /\ (l1 = 1 => Len(lists[0]) = ActiveRefs(0) /\ Foremost(0, lists[0]))'
      BY <1>1, <2>1, <2>5, ForemostKept
    <3> QED
      BY <1>1, <1>2, <2>5, <3>1, <3>2, <3>3 DEF PassesInOrder
  <2> QED
    BY <1>4, <2>4, <2>5 DEF FirstPass
<1> QED
  BY <1>2, <1>3, <1>4

(* The loop of the far side, which goes on with list 1 or ends.            *)
LEMMA SecondPassInOrder ==
  ASSUME IInv, PassesInOrder, SecondPass
  PROVE  PassesInOrder' /\ InitialOrder'
<1> DEFINE cur  == poc[dpb[0]]
           list == lists[l1]
<1>1. /\ pc = "second_pass" /\ l1 \in 0 .. 1 /\ sh.type = "B"
      /\ UNCHANGED <<sh, poc, dpb, size>> /\ FormLists /\ Refs' = Refs
      /\ pc \notin Ends
      /\ lists \in [0 .. 1 -> Seq(Buf)]
  BY PassesKeep DEF FormLists, SecondPass, PassesInOrder, IInv, TypeOK, Ends
<1>2. \/ UNCHANGED <<pc, l1>> /\ \E i \in NextFrame(l1 = 0) : Pick(i)
      \/ pc' = "list_overrun"
      \/ CloseList(list, IF l1 = 0 THEN "first_pass" ELSE "modify") /\ start' = cur /\ l1' = 1 - l1
  BY DEF SecondPass
<1>3. CASE pc' \notin {"first_pass", "second_pass", "modify"}
  <2>1. pc' # "form_P"
    BY <1>1, <1>2 DEF CloseList
  <2> QED
    BY <1>3, <2>1 DEF PassesInOrder, InitialOrder
<1>4. CASE ~CountsTell
  <2>1. pc' # "form_P"
    BY <1>1, <1>2 DEF CloseList
  <2> QED
    BY <1>1, <1>4, <2>1, CountsTellKept DEF PassesInOrder, InitialOrder
<1>5. CASE CountsTell /\ pc' \in {"first_pass", "second_pass", "modify"}
  <2>1. /\ cur \in Int /\ start \in Int /\ Foremost(l1, list)
        /\ l1 = 1 => Len(lists[0]) = ActiveRefs(0) /\ Foremost(0, lists[0])
    BY <1>1, <1>5, TellingCounts DEF PassesInOrder
  <2>2. \A b \in Unlisted(list, Len(list)) :
          /\ b \in Refs /\ poc[b] \in Int
          /\ IF l1 = 0 THEN poc[b] > start ELSE poc[b] < start
    BY <1>1, <1>5, TellingCounts DEF PassesInOrder, Beyond, Unlisted
  <2>3. IF l1 = 0 THEN start >= cur ELSE start <= cur
    BY <1>1 DEF IInv, PassOrder
  <2>4. CASE UNCHANGED <<pc, l1>> /\ \E i \in NextFrame(l1 = 0) : Pick(i)
    <3>1. PICK i \in NextFrame(l1 = 0) : Pick(i)
      BY <2>4
    <3>2. /\ i \in RefSlots /\ dpb[i] \in Refs /\ poc[dpb[i]] \in Int
          /\ l1 = 0 => /\ poc[dpb[i]] > start
                       /\ \A b \in Refs : b # dpb[i] /\ poc[b] > start => poc[b] > poc[dpb[i]]
          /\ l1 = 1 => /\ poc[dpb[i]] < start
                       /\ \A b \in Refs : b # dpb[i] /\ poc[b] < start => poc[b] < poc[dpb[i]]
      <4>1. IInv /\ CountsTell /\ pc \notin Ends
        BY <1>1, <1>5
      <4>2. CASE l1 = 0
        <5>1. i \in NextFrame(TRUE)
          BY <4>2, SearchSides
        <5>2. /\ i \in RefSlots /\ dpb[i] \in Refs /\ poc[dpb[i]] \in Int
              /\ poc[dpb[i]] > start
              /\ \A b \in Refs : b # dpb[i] /\ poc[b] > start => poc[b] > poc[dpb[i]]
          BY <4>1, <5>1, FoundAfter
        <5> QED
          BY <4>2, <5>2
      <4>3. CASE l1 = 1
        <5>1. i \in NextFrame(FALSE)
          BY <4>3, SearchSides
        <5>2. /\ i \in RefSlots /\ dpb[i] \in Refs /\ poc[dpb[i]] \in Int
              /\ poc[dpb[i]] < start
              /\ \A b \in Refs : b # dpb[i] /\ poc[b] < start => poc[b] < poc[dpb[i]]
          BY <4>1, <5>1, FoundBefore
        <5> QED
          BY <4>3, <5>2
      <4> QED
        BY <1>1, <4>2, <4>3
    <3>3. start' = poc[dpb[i]]
      BY <3>1 DEF Pick
    <3>4. ASSUME NEW b \in Unlisted(list, Len(list)), b # dpb[i]
          PROVE  Precedes(l1, dpb[i], b) /\ Beyond(b)'
      <4>1. /\ poc[b] \in Int /\ poc[dpb[i]] \in Int
            /\ l1 = 0 => poc[dpb[i]] > cur /\ poc[b] > poc[dpb[i]]
            /\ l1 = 1 => poc[dpb[i]] < cur /\ poc[b] < poc[dpb[i]]
        BY <1>1, <2>1, <2>2, <2>3, <3>2, <3>4
      <4>2. Precedes(l1, dpb[i], b)
        BY <1>1, <2>1, <4>1 DEF Precedes
      <4>3. Beyond(b)'
        BY <1>1, <2>4, <3>3, <4>1 DEF Beyond
      <4> QED
        BY <4>2, <4>3
    <3>5. PassesInOrder'
      BY <1>1, <1>5, <2>4, <3>1, <3>2, <3>4, PickInOrder
    <3> QED
      BY <1>1, <2>4, <3>5 DEF InitialOrder
  <2>5. CASE /\ CloseList(list, IF l1 = 0 THEN "first_pass" ELSE "modify")
             /\ start' = cur /\ l1' = 1 - l1
    <3>1. /\ pc' = (IF l1 = 0 THEN "first_pass" ELSE "modify")
          /\ lists'[1 - l1] = lists[1 - l1]
          /\ Len(lists'[l1]) = ActiveRefs(l1) /\ Foremost(l1, lists'[l1])
      <4>1. TypeOK /\ pc' # "list_short"
        BY <1>5 DEF IInv
      <4> QED
        BY <1>1, <2>1, <2>5, <4>1, CloseInOrder
    <3>2. CASE l1 = 0
      <4>1. /\ pc' = "first_pass" /\ l1' = 1 /\ lists'[1] = << >>
            /\ Len(lists'[0]) = ActiveRefs(0) /\ Foremost(0, lists'[0])
        BY <1>1, <2>5, <3>1, <3>2 DEF IInv, LoopsReady
      <4>2. Foremost(l1, lists[l1])'
        BY <4>1 DEF Foremost
      <4>3. (Len(lists[0]) = ActiveRefs(0) /\ Foremost(0, lists[0]))'
        BY <1>1, <4>1, ForemostKept
      <4>4. ASSUME NEW b \in Unlisted(lists[l1], Len(lists[l1]))' PROVE Beyond(b)'
        <5>1. b \in Refs
          BY <1>1, <4>4 DEF Unlisted
        <5>2. poc[b] > cur \/ poc[b] < cur
          <6>1. cur \in Int /\ poc[b] \in Int /\ poc[b] # cur
            BY <1>1, <1>5, <5>1, TellingCounts
          <6> QED
            BY <6>1
        <5> QED
          BY <1>1, <2>5, <4>1, <5>2 DEF Beyond
      <4> QED
        BY <1>1, <4>1, <4>2, <4>3, <4>4 DEF PassesInOrder, InitialOrder
    <3>3. CASE l1 = 1
      <4>1. /\ pc' = "modify" /\ lists'[0] = lists[0]
            /\ Len(lists'[1]) = ActiveRefs(1) /\ Foremost(1, lists'[1])
        BY <3>1, <3>3
      <4>2. \A l \in 0 .. 1 : (Len(lists[l]) = ActiveRefs(l) /\ Foremost(l, lists[l]))'
        <5>1. (Len(lists[0]) = ActiveRefs(0) /\ Foremost(0, lists[0]))'
          BY <1>1, <2>1, <3>3, <4>1, ForemostKept
        <5>2. (Len(lists[1]) = ActiveRefs(1) /\ Foremost(1, lists[1]))'
          BY <1>1, <4>1, ForemostKept
        <5> QED
          BY <5>1, <5>2
      <4> QED
        BY <1>1, <4>1, <4>2 DEF PassesInOrder, InitialOrder
    <3> QED
      BY <1>1, <3>2, <3>3
  <2> QED
    BY <1>2, <1>5, <2>4, <2>5
<1> QED
  BY <1>3, <1>4, <1>5

-----------------------------------------------------------------------------
(* The header of a slice starts the passes with every reference ahead.     *)
LEMMA ParseHeaderInOrder ==
  ASSUME IInv, NEW h \in Header, NEW lsb \in Lsbs, ParseHeader(h, lsb)
  PROVE  PassesInOrder' /\ InitialOrder'
<1>1. /\ pc = "nal" /\ sh' = h /\ dpb' = dpb /\ UNCHANGED <<lists, l1>>
      /\ pc' \in {"clear_frame", "frame_num_gap", "form_P", "first_pass", "marking"}
      /\ pc' = "form_P" => h.type = "P"
      /\ pc' = "first_pass" => h.type = "B"
      /\ size' = (IF h.idr THEN 0 ELSE size)
  BY DEF ParseHeader
<1>2. l1 = 0 /\ l1' = 0 /\ lists[0] = << >> /\ lists'[0] = << >>
  BY <1>1 DEF IInv, LoopsReady
<1>3. TypeOK' /\ SlotsDistinct' /\ MaxPoc \in Nat
  BY ParseHeaderInv, StreamAssumption DEF IInv
<1>4. Foremost(l1, lists[l1])'
  BY <1>2 DEF Foremost
<1>5. ASSUME NEW b \in Refs', CountsTell' PROVE Beyond(b)'
  <2>1. /\ b \in Buf /\ poc'[b] \in -MaxPoc .. MaxPoc /\ dpb[0] \in Buf /\ dpb[0] # b
    <3>1. Refs' \subseteq Refs
      BY <1>1 DEF Refs, RefSlots
    <3> QED
      BY <1>1, <1>3, <1>5, <3>1, RefsType, CurrentApart DEF IInv, TypeOK
  <2>2. poc'[b] # poc'[dpb[0]] /\ poc'[dpb[0]] \in -MaxPoc .. MaxPoc
    BY <1>1, <1>3, <1>5, <2>1 DEF CountsTell, TypeOK
  <2>3. /\ pc' = "form_P" => start' = IntMax
        /\ pc' = "first_pass" => start' = poc'[dpb[0]]
    <3>1. dpb[0] \in Buf /\ poc \in [Buf -> -MaxPoc .. MaxPoc]
      BY <2>1 DEF IInv, TypeOK
    <3> QED
      BY <1>1, <3>1 DEF ParseHeader
  <2> QED
    BY <1>1, <1>2, <1>3, <2>1, <2>2, <2>3 DEF Beyond, IntMax
<1> QED
  BY <1>1, <1>2, <1>4, <1>5 DEF PassesInOrder, InitialOrder, Unlisted

(* Every step keeps the order.  The commands of a list end the moment the  *)
(* property is about: each fills a position, EndRemap goes to list 1.      *)
LEMMA StepInOrder ==
  ASSUME IInv, PassesInOrder, InitialOrder, [Next]_vars
  PROVE  PassesInOrder' /\ InitialOrder'
<1>1. ASSUME NEW h \in Header, NEW lsb \in Lsbs, ParseHeader(h, lsb)
      PROVE  PassesInOrder' /\ InitialOrder'
  BY <1>1, ParseHeaderInOrder
<1>2. CASE FormLists
  BY <1>2, FormPInOrder, FirstPassInOrder, SecondPassInOrder DEF FormLists
<1>3. CASE Modify /\ ~EndRemap
  <2>1. \/ pc' \in {"remap", "null_frame", "list_array"}
        \/ pc' = "modify" /\ refIdxL' = refIdxL + 1
    BY <1>3, ModifyCases DEF IInv, Moved, MovedBeyond, CommandEnds
  <2>2. refIdxL \in Nat
    BY DEF IInv, TypeOK
  <2> QED
    BY <2>1, <2>2 DEF PassesInOrder, InitialOrder
<1>4. CASE EndRemap
  BY <1>4 DEF EndRemap, PassesInOrder, InitialOrder
<1>5. CASE Marking \/ Decode \/ Retire \/ UnsupportedSyntax
  <2>1. pc' \notin {"form_P", "first_pass", "second_pass", "modify"}
    BY <1>5 DEF Marking, Mark, EndHeader, Decode, Setup, Complete, Stuck, End,
                Retire, Purge, Slide, NoSlide, UnsupportedSyntax
  <2> QED
    BY <2>1 DEF PassesInOrder, InitialOrder
<1>6. CASE Ended \/ UNCHANGED vars
  <2>1. UNCHANGED <<pc, sh, poc, dpb, size, lists, l1, start, refIdxL>>
    BY <1>6 DEF Ended, vars, dpbVars, picVars, listVars
  <2> QED
    BY <2>1 DEF PassesInOrder, InitialOrder, CountsTell, Foremost, Unlisted, Precedes,
                Beyond, Refs, RefSlots, ActiveRefs
<1> QED
  BY <1>1, <1>2, <1>3, <1>4, <1>5, <1>6 DEF Next

(* form_P_frame_ref_list and form_B_frame_ref_list_l0 and _l1 hand the     *)
(* commands of the slice the first active references in the reference      *)
(* order, whenever the counts alone determine that order: for any number   *)
(* of slots, any counts and any history of the buffer.                     *)
THEOREM ListsInOrder == Spec => []InitialOrder
<1>1. Init => PassesInOrder /\ InitialOrder
  BY DEF Init, PassesInOrder, InitialOrder
<1> QED
  BY <1>1, StepInOrder, Inductive, PTL DEF Spec

(* The strengthening the runs check, whole: with zeroed memory and a       *)
(* conforming stream it holds of every state.                              *)
THEOREM HeaderInvariant ==
  ASSUME Conforming, Garbage = {}
  PROVE  Spec => []HeaderInv
<1>1. Init => PassesInOrder /\ InitialOrder /\ WrapFollows /\ PredictorsAgree
  BY DEF Init, PassesInOrder, InitialOrder, WrapFollows, PredictorsAgree, Refs, RefSlots
<1>2. IInv /\ PassesInOrder /\ InitialOrder /\ [Next]_vars => PassesInOrder' /\ InitialOrder'
  BY StepInOrder
<1> QED
  BY <1>1, <1>2, StepWrap, StepPredictors, Inductive, FlagsFollowReferences,
     NumbersStayApart, PTL DEF Spec, HeaderInv
=============================================================================
