----------------------------- MODULE FrameArray -----------------------------
(***************************************************************************)
(* What the array helpers of DPB_routines.c return, and the two searches   *)
(* as they run.  The loops of move_frame and slide_frames are FrameMover.  *)
(***************************************************************************)
EXTENDS Integers

(* A mutant: the frame next to the moved one is not shifted.               *)
MoveFrameShort(f, i, to) ==
  [k \in DOMAIN f |->
     CASE k = to -> f[i]
       [] i <= k /\ k < to -> f[k + 1]
       [] to < k /\ k < i -> f[k - 1]
       [] OTHER -> f[k]]

(* move_frame: f[i] arrives at position `to' and everything between shifts *)
(* by one towards i.                                                       *)
MoveFrame(f, i, to) ==
  [k \in DOMAIN f |->
     CASE k = to -> f[i]
       [] i <= k /\ k < to -> f[k + 1]
       [] to < k /\ k <= i -> f[k - 1]
       [] OTHER -> f[k]]

(* Out of the positions S, the one with the extreme key, the first of      *)
(* equals.                                                                 *)
FirstMost(S, key) ==
  {i \in S : \A j \in S \ {i} : key[i] > key[j] \/ (key[i] = key[j] /\ i < j)}

FirstLeast(S, key) ==
  {i \in S : \A j \in S \ {i} : key[i] < key[j] \/ (key[i] = key[j] /\ i < j)}

(***************************************************************************)
(* The searches as they run: one pass over the first n frames, keeping the *)
(* best so far and its count, which the caller starts at `bound'.  A frame *)
(* that is empty or on the wrong side of start_stop is skipped.  The       *)
(* search for the least has sign 1, that for the most sign -1.             *)
(***************************************************************************)
(* A mutant: the count of the current picture itself is not skipped.       *)
SkippedBeyond(poc, empty, start_stop, after, i) ==
  \/ i \in empty
  \/ ~after /\ poc[i] > start_stop
  \/ after /\ poc[i] < start_stop

Skipped(poc, empty, start_stop, after, i) ==
  \/ i \in empty
  \/ ~after /\ poc[i] >= start_stop
  \/ after /\ poc[i] <= start_stop

(* One turn of the loop, at frame i. *)
Look(poc, empty, start_stop, after, sign, i, best) ==
  IF ~Skipped(poc, empty, start_stop, after, i) /\ sign * poc[i] < sign * best.count
    THEN [frame_id |-> i, count |-> poc[i]]
    ELSE best

Search(poc, empty, n, bound, start_stop, after, sign) ==
  LET looked[i \in 0 .. n] ==
        IF i = 0 THEN [frame_id |-> -1, count |-> bound]
        ELSE Look(poc, empty, start_stop, after, sign, i - 1, looked[i - 1])
  IN  looked[n].frame_id

get_frame_id_with_least_pic_order_cnt(poc, empty, n, bound, start_stop, after) ==
  Search(poc, empty, n, bound, start_stop, after, 1)

get_frame_id_with_most_pic_order_cnt(poc, empty, n, bound, start_stop, after) ==
  Search(poc, empty, n, bound, start_stop, after, -1)
=============================================================================
