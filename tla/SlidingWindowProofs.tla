------------------------ MODULE SlidingWindowProofs ------------------------
(***************************************************************************)
(* The decoded picture buffer implements the sliding window: whatever      *)
(* slide_frames, purge_unused_ref_frames, clear_DPB and the marking loop   *)
(* do to the slots and the flags is a step of SlidingWindow, or none.      *)
(***************************************************************************)
EXTENDS HeaderProofs, SequenceTheorems

(* The references as the window has them: newest first. *)
Held == [i \in RefSlots |-> dpb[i]]

-----------------------------------------------------------------------------
(***************************************************************************)
(* Sequences.                                                              *)
(***************************************************************************)
(* Two sequences in a row, as a function. *)
LEMMA ConcatElements ==
  ASSUME NEW S, NEW s \in Seq(S), NEW t \in Seq(S)
  PROVE  s \o t = [j \in 1 .. Len(s) + Len(t) |->
                     IF j <= Len(s) THEN s[j] ELSE t[j - Len(s)]]
<1> DEFINE both == s \o t
<1>1. /\ both \in Seq(S) /\ Len(both) = Len(s) + Len(t)
      /\ \A j \in 1 .. Len(s) + Len(t) : both[j] = IF j <= Len(s) THEN s[j] ELSE t[j - Len(s)]
  BY ConcatProperties
<1> HIDE DEF both
<1>2. both = [j \in 1 .. Len(both) |-> both[j]]
  BY <1>1
<1>3. both = [j \in 1 .. Len(s) + Len(t) |-> IF j <= Len(s) THEN s[j] ELSE t[j - Len(s)]]
  BY <1>1, <1>2
<1> QED
  BY <1>3 DEF both

(* A sequence without its i-th element. *)
LEMMA RemoveAtElements ==
  ASSUME NEW S, NEW s \in Seq(S), NEW i \in 1 .. Len(s)
  PROVE  Window!RemoveAt(s, i)
           = [j \in 1 .. Len(s) - 1 |-> IF j < i THEN s[j] ELSE s[j + 1]]
<1> DEFINE before == SubSeq(s, 1, i - 1)
           after  == SubSeq(s, i + 1, Len(s))
<1>1. i \in Nat /\ i >= 1 /\ i <= Len(s) /\ Len(s) \in Nat
  OBVIOUS
<1>2. /\ before \in Seq(S) /\ Len(before) = i - 1
      /\ \A j \in 1 .. i - 1 : before[j] = s[j]
  OBVIOUS
<1>3. /\ after \in Seq(S) /\ Len(after) = Len(s) - i
      /\ \A j \in 1 .. Len(s) - i : after[j] = s[i + j]
  OBVIOUS
<1> HIDE DEF before, after
<1>4. before \o after = [j \in 1 .. Len(s) - 1 |->
                           IF j <= i - 1 THEN before[j] ELSE after[j - (i - 1)]]
  <2>1. Len(before) + Len(after) = Len(s) - 1
    BY <1>1, <1>2, <1>3
  <2> QED
    BY <1>2, <1>3, <2>1, ConcatElements
<1>5. ASSUME NEW j \in 1 .. Len(s) - 1
      PROVE  (IF j <= i - 1 THEN before[j] ELSE after[j - (i - 1)])
                = IF j < i THEN s[j] ELSE s[j + 1]
  <2>1. CASE j < i
    BY <1>1, <1>2, <2>1
  <2>2. CASE ~(j < i)
    <3>1. j - (i - 1) \in 1 .. Len(s) - i /\ i + (j - (i - 1)) = j + 1
      BY <1>1, <2>2
    <3>2. after[j - (i - 1)] = s[j + 1]
      BY <1>3, <3>1
    <3> QED
      BY <1>1, <2>2, <3>2
  <2> QED
    BY <2>1, <2>2
<1>6. before \o after = [j \in 1 .. Len(s) - 1 |-> IF j < i THEN s[j] ELSE s[j + 1]]
  BY <1>4, <1>5
<1> QED
  BY <1>6 DEF Window!RemoveAt, before, after

(* A sequence with an element before it. *)
LEMMA PrependElements ==
  ASSUME NEW S, NEW s \in Seq(S), NEW e \in S
  PROVE  <<e>> \o s = [j \in 1 .. Len(s) + 1 |-> IF j = 1 THEN e ELSE s[j - 1]]
<1> DEFINE one == <<e>>
<1>1. one \in Seq(S) /\ Len(one) = 1 /\ one[1] = e /\ Len(s) \in Nat
  OBVIOUS
<1> HIDE DEF one
<1>2. one \o s = [j \in 1 .. Len(one) + Len(s) |->
                   IF j <= Len(one) THEN one[j] ELSE s[j - Len(one)]]
  BY <1>1, ConcatElements
<1>3. one \o s = [j \in 1 .. Len(s) + 1 |-> IF j = 1 THEN e ELSE s[j - 1]]
  BY <1>1, <1>2
<1> QED
  BY <1>3 DEF one

(* The references are a sequence of buffers. *)
LEMMA HeldType ==
  ASSUME TypeOK
  PROVE  /\ Held \in Seq(Buf) /\ Len(Held) = size /\ DOMAIN Held = RefSlots
         /\ Window!ToSet(Held) = Refs
         /\ size \in Nat
<1>1. size \in Nat /\ RefSlots \subseteq Slots /\ dpb \in [Slots -> Buf]
  BY RefsType DEF TypeOK
<1>2. Held \in [1 .. size -> Buf]
  BY <1>1 DEF Held, RefSlots
<1>3. Held \in Seq(Buf) /\ Len(Held) = size
  BY <1>1, <1>2
<1> QED
  BY <1>1, <1>3 DEF Held, Window!ToSet, Refs

-----------------------------------------------------------------------------
(***************************************************************************)
(* The steps.                                                              *)
(***************************************************************************)
(* A step that leaves the slots and the marks alone is not seen.           *)
LEMMA WindowStays ==
  ASSUME UNCHANGED <<dpb, size, marked>>
  PROVE  Window!vars' = Window!vars
BY DEF Window!vars, RefSlots, Refs

(* clear_DPB on an IDR picture flushes the window; nothing else in the     *)
(* header touches it.                                                      *)
LEMMA HeaderFlushes ==
  ASSUME NEW h \in Header, NEW lsb \in Lsbs, ParseHeader(h, lsb)
  PROVE  Window!Flush \/ UNCHANGED Window!vars
<1>1. /\ dpb' = dpb
      /\ size' = (IF h.idr THEN 0 ELSE size)
      /\ marked' = marked \ (IF h.idr THEN Refs ELSE {})
  BY DEF ParseHeader
<1>2. CASE h.idr
  <2>1. RefSlots' = {} /\ Refs' = {}
    BY <1>1, <1>2 DEF RefSlots, Refs
  <2>2. Held' = << >>
    BY <2>1 DEF Held
  <2> QED
    BY <2>1, <2>2 DEF Window!Flush, Held
<1>3. CASE ~h.idr
  <2>1. marked' = marked
    BY <1>1, <1>3
  <2> QED
    BY <1>1, <1>3, <2>1, WindowStays
<1> QED
  BY <1>2, <1>3

(* A marking command marks a picture of the window. *)
LEMMA MarkMarks ==
  ASSUME TypeOK, NEW t \in Refs, Mark(t)
  PROVE  Window!Mark(t) \/ UNCHANGED Window!vars
<1>1. UNCHANGED <<dpb, size>> /\ (marked' = marked \union {t} \/ marked' = marked)
  BY DEF Mark
<1>2. CASE marked' = marked
  BY <1>1, <1>2, WindowStays
<1>3. CASE marked' = marked \union {t}
  <2>1. Held' = Held /\ Refs' = Refs
    BY <1>1 DEF Held, Refs, RefSlots
  <2>2. (marked \intersect Refs)' = (marked \intersect Refs) \union {t}
    BY <1>3, <2>1
  <2> QED
    BY <2>1, <2>2, HeldType DEF Window!Mark, Held
<1> QED
  BY <1>1, <1>2, <1>3

(* A turn of the purge drops a marked picture and closes the gap.          *)
LEMMA PurgeDrops ==
  ASSUME TypeOK, SlotsDistinct, Purge
  PROVE  \E b \in Buf : Window!Drop(b)
<1>1. PICK i \in RefSlots :
        /\ dpb[i] \in marked
        /\ dpb' = MoveFrame(dpb, i, size) /\ size' = size - 1
        /\ marked' = marked \ {dpb[i]}
  BY DEF Purge
<1> DEFINE b == dpb[i]
<1>2. /\ Held \in Seq(Buf) /\ Len(Held) = size /\ DOMAIN Held = 1 .. size
      /\ i \in 1 .. size /\ size \in Nat /\ dpb \in [Slots -> Buf]
      /\ RefSlots \subseteq Slots /\ b \in Buf /\ Held[i] = b
  BY HeldType, RefsType DEF RefSlots, Held, TypeOK
<1>3. Held' = Window!RemoveAt(Held, i)
  <2>1. Window!RemoveAt(Held, i)
          = [j \in 1 .. size - 1 |-> IF j < i THEN Held[j] ELSE Held[j + 1]]
    BY <1>2, RemoveAtElements
  <2>2. ASSUME NEW j \in 1 .. size - 1
        PROVE  dpb'[j] = IF j < i THEN Held[j] ELSE Held[j + 1]
    <3>1. j \in RefSlots /\ j + 1 \in RefSlots /\ j \in Slots
      BY <1>2 DEF RefSlots
    <3>2. dpb'[j] = IF j < i THEN dpb[j] ELSE dpb[j + 1]
      BY <1>1, <1>2, <3>1 DEF MoveFrame
    <3> QED
      BY <3>1, <3>2 DEF Held
  <2>3. Held' = [j \in 1 .. size - 1 |-> dpb'[j]]
    BY <1>1 DEF Held, RefSlots
  <2> QED
    BY <2>1, <2>2, <2>3
<1>4. (marked \intersect Refs)' = (marked \intersect Refs) \ {b}
  <2>1. Refs' = {Held'[j] : j \in 1 .. size - 1}
    BY <1>1 DEF Refs, Held, RefSlots
  <2>2. \A j \in 1 .. size - 1 : Held'[j] = IF j < i THEN dpb[j] ELSE dpb[j + 1]
    <3>1. Held' = [j \in 1 .. size - 1 |-> IF j < i THEN Held[j] ELSE Held[j + 1]]
      BY <1>2, <1>3, RemoveAtElements
    <3>2. \A j \in 1 .. size : Held[j] = dpb[j]
      BY DEF Held, RefSlots
    <3> QED
      BY <1>2, <3>1, <3>2
  <2>3. Refs = {dpb[j] : j \in 1 .. size}
    BY DEF Refs, RefSlots
  <2>4. \A j \in 1 .. size : dpb[j] = b => j = i
    BY <1>2 DEF SlotsDistinct, RefSlots
  <2>5. ASSUME NEW a \in Refs, a # b PROVE a \in Refs'
    <3>1. PICK j \in 1 .. size : dpb[j] = a
      BY <2>3, <2>5
    <3>2. CASE j < i
      BY <1>2, <2>1, <2>2, <3>1, <3>2
    <3>3. CASE j > i
      <4>1. j - 1 \in 1 .. size - 1 /\ ~(j - 1 < i) /\ (j - 1) + 1 = j
        BY <1>2, <3>3
      <4> QED
        BY <2>1, <2>2, <3>1, <4>1
    <3> QED
      BY <1>2, <2>5, <3>1, <3>2, <3>3
  <2>6. Refs' \subseteq Refs
    BY <1>2, <2>1, <2>2, <2>3
  <2> QED
    BY <1>1, <2>5, <2>6
<1>5. b \in marked \intersect Refs
  BY <1>1 DEF Refs
<1> QED
  BY <1>2, <1>3, <1>4, <1>5 DEF Window!Drop, Held

(* The picture that slide_frames brings to the front enters the window.    *)
LEMMA SlideStores ==
  ASSUME TypeOK, SlotsDistinct, FlagsHeld, Slide
  PROVE  \/ \E b \in Buf, w \in 1 .. NumSlots - 1 : Window!Store(b, w)
         \/ UNCHANGED Window!vars
<1> DEFINE w == sh.sps.max_num_ref_frames
           b == dpb[0]
<1>1. /\ size \in Nat /\ dpb \in [Slots -> Buf] /\ b \in Buf /\ b \notin Refs
      /\ Held \in Seq(Buf) /\ Len(Held) = size /\ DOMAIN Held = 1 .. size
      /\ size <= NumSlots - 1 /\ NumSlots \in Nat
      /\ marked \intersect Refs = {}
  BY HeldType, RefsType, CurrentApart DEF RefSlots, TypeOK, Slide, Purged
<1>2. CASE UNCHANGED dpbVars
  BY <1>2, WindowStays DEF dpbVars
<1>3. CASE ~UNCHANGED dpbVars
  <2>1. /\ w \in Slots /\ dpb' = MoveFrame(dpb, w, 0)
        /\ marked' = marked \ ({dpb[w]} \intersect filled)
        /\ size' = IF size < w THEN size + 1 ELSE size
    BY <1>3 DEF Slide
  <2>2. w \in 0 .. NumSlots - 1
    BY <2>1 DEF Slots
  <2> HIDE DEF w
  <2>3. (marked \intersect Refs)' = {}
    <3>1. Refs' \subseteq Refs \union {b}
      <4>1. ASSUME NEW k \in 1 .. size' PROVE dpb'[k] \in Refs \union {b}
        <5>1. k \in Slots /\ k \in Nat /\ k >= 1 /\ k - 1 \in Slots
          BY <1>1, <2>1, <2>2 DEF Slots
        <5>2. dpb'[k] = IF k <= w THEN dpb[k - 1] ELSE dpb[k]
          BY <1>1, <2>1, <2>2, <5>1 DEF MoveFrame
        <5>3. k > w => k \in RefSlots
          BY <1>1, <2>1, <2>2 DEF RefSlots
        <5>4. k <= w => k - 1 \in RefSlots \union {0}
          BY <1>1, <2>1, <2>2 DEF RefSlots
        <5> QED
          BY <2>2, <5>1, <5>2, <5>3, <5>4 DEF Refs
      <4> QED
        BY <4>1 DEF Refs, RefSlots
    <3>2. marked' \subseteq marked /\ b \notin marked
      BY <1>1, <2>1 DEF FlagsHeld
    <3> QED
      BY <1>1, <3>1, <3>2
  <2>4. CASE w = 0
    <3>1. size' = size /\ \A k \in 1 .. size : dpb'[k] = dpb[k]
      <4>1. size' = size
        BY <1>1, <2>1, <2>4
      <4>2. \A k \in 1 .. size : k \in Slots
        BY <1>1 DEF Slots
      <4> QED
        BY <1>1, <2>1, <2>4, <4>1, <4>2 DEF MoveFrame
    <3>2. Held' = Held
      BY <3>1 DEF Held, RefSlots
    <3> QED
      BY <1>1, <2>3, <3>2 DEF Window!vars, Held
  <2>5. CASE w # 0
    <3> DEFINE kept == IF size < w THEN Held ELSE Window!RemoveAt(Held, w)
    <3>1. /\ kept \in Seq(Buf) /\ Len(kept) + 1 = size'
          /\ \A k \in 1 .. Len(kept) : kept[k] = IF k < w THEN dpb[k] ELSE dpb[k + 1]
      <4>1. \A k \in 1 .. size : Held[k] = dpb[k] /\ dpb[k] \in Buf
        BY <1>1 DEF Held, RefSlots, Slots
      <4>2. CASE size < w
        <5>1. kept = Held
          BY <4>2
        <5> HIDE DEF kept
        <5> QED
          BY <1>1, <2>1, <2>2, <4>1, <4>2, <5>1
      <4>3. CASE ~(size < w)
        <5>1. w \in 1 .. size
          BY <1>1, <2>2, <2>5, <4>3
        <5>2. kept = [k \in 1 .. size - 1 |-> IF k < w THEN Held[k] ELSE Held[k + 1]]
          BY <1>1, <4>3, <5>1, RemoveAtElements
        <5> HIDE DEF kept
        <5>3. ASSUME NEW k \in 1 .. size - 1
              PROVE  kept[k] \in Buf /\ kept[k] = IF k < w THEN dpb[k] ELSE dpb[k + 1]
          <6>1. k \in 1 .. size /\ k + 1 \in 1 .. size
            BY <1>1
          <6> QED
            BY <4>1, <5>2, <6>1
        <5>4. kept \in [1 .. size - 1 -> Buf] /\ size - 1 \in Nat
          BY <1>1, <5>1, <5>2, <5>3
        <5>5. kept \in Seq(Buf) /\ Len(kept) = size - 1
          BY <5>4
        <5> QED
          BY <1>1, <2>1, <4>3, <5>3, <5>5
      <4> QED
        BY <4>2, <4>3
    <3> HIDE DEF kept
    <3>2. <<b>> \o kept = [k \in 1 .. size' |-> IF k = 1 THEN b ELSE kept[k - 1]]
      BY <1>1, <3>1, PrependElements
    <3>3. ASSUME NEW k \in 1 .. size' PROVE dpb'[k] = IF k = 1 THEN b ELSE kept[k - 1]
      <4>1. size' \in Nat /\ size' <= NumSlots - 1
        BY <1>1, <2>1, <2>2
      <4>2. k \in Slots /\ k \in Nat /\ k >= 1
        BY <1>1, <4>1 DEF Slots
      <4>3. dpb'[k] = IF k <= w THEN dpb[k - 1] ELSE dpb[k]
        BY <1>1, <2>1, <2>2, <4>2 DEF MoveFrame
      <4>4. k # 1 => k - 1 \in 1 .. Len(kept) /\ (k - 1) + 1 = k
        BY <3>1, <4>2
      <4> QED
        BY <2>2, <2>5, <3>1, <4>2, <4>3, <4>4
    <3>4. Held' = <<b>> \o kept
      <4>1. Held' = [k \in 1 .. size' |-> dpb'[k]]
        BY DEF Held, RefSlots
      <4> QED
        BY <3>2, <3>3, <4>1
    <3>5. b \notin Window!ToSet(Held)
      BY <1>1, HeldType
    <3>6. b \in Buf /\ w \in 1 .. NumSlots - 1
      BY <1>1, <2>2, <2>5
    <3>7. PICK c \in Buf, v \in 1 .. NumSlots - 1 : c = b /\ v = w
      BY <3>6
    <3>8. Window!Store(c, v)
      BY <1>1, <2>3, <3>4, <3>5, <3>7 DEF Window!Store, kept, Held
    <3> QED
      BY <3>8
  <2> QED
    BY <2>4, <2>5
<1> QED
  BY <1>2, <1>3

(* Every step of the decoder is a step of the window or none. *)
LEMMA StepSlides ==
  ASSUME IInv, FlagsHeld, [Next]_vars
  PROVE  [Window!Next]_(Window!vars)
<1> USE DEF IInv
<1>1. ASSUME NEW h \in Header, NEW lsb \in Lsbs, ParseHeader(h, lsb)
      PROVE  [Window!Next]_(Window!vars)
  BY <1>1, HeaderFlushes DEF Window!Next
<1>2. ASSUME NEW t \in Refs, Mark(t) PROVE [Window!Next]_(Window!vars)
  <2>1. t \in Buf
    BY RefsType
  <2> QED
    BY <1>2, <2>1, MarkMarks DEF Window!Next
<1>3. CASE FormLists \/ Modify \/ EndHeader \/ Decode \/ NoSlide \/ UnsupportedSyntax \/ Ended
           \/ UNCHANGED vars
  <2>1. UNCHANGED <<dpb, size, marked>>
    BY <1>3 DEF FormLists, FormP, FirstPass, SecondPass, Modify, Command,
                AnyCommand, Remap, RemapBeyond, EndRemap, EndHeader,
                Decode, Setup, Complete, Stuck, End, NoSlide, UnsupportedSyntax, Ended,
                dpbVars, vars
  <2> QED
    BY <2>1, WindowStays
<1>4. CASE Purge
  BY <1>4, PurgeDrops DEF Window!Next
<1>5. CASE Slide
  BY <1>5, SlideStores DEF Window!Next
<1> QED
  BY <1>1, <1>2, <1>3, <1>4, <1>5 DEF Next, Marking, Retire

(* With memory that malloc returns zeroed, the references are a sliding    *)
(* window for every stream, conforming or not: a picture enters at the     *)
(* front, unmarked, and leaves flushed, marked or past a full window.      *)
THEOREM BufferIsWindow ==
  ASSUME Garbage = {}
  PROVE  Spec => RefinesWindow
<1>1. Init => Window!Init
  BY DEF Init, Window!Init, RefSlots, Refs
<1> QED
  BY <1>1, StepSlides, Inductive, FlagsFollowReferences, PTL
     DEF Spec, RefinesWindow, Window!Spec
=============================================================================
