---------------------------- MODULE MCFrameMover ----------------------------
(***************************************************************************)
(* FrameMover on every array of four frames.  A frame is identified with   *)
(* its picture order count, so frames of equal count are included; the     *)
(* searches are checked on the same arrays.                                *)
(***************************************************************************)
EXTENDS FrameMover

CONSTANT IntMax   \* INT_MAX, where the search for the least starts

ASSUME CountsAssumption == Frame \subseteq Int /\ IntMax \in Int

FourCounts == {-1, 0, 1, 3}

(* The frames on the right side of start_stop. *)
Eligible(n, empty, start_stop, after) ==
  {i \in 0 .. n - 1 \ empty :
     IF after THEN frames[i] > start_stop ELSE frames[i] < start_stop}

(* get_frame_id_with_most_ and _least_pic_order_cnt return the first       *)
(* extreme among the eligible frames whose count lies beyond the value the *)
(* search starts from, or -1 exactly when there is none, on every list     *)
(* within the array, for every bound and side.  The search for the most    *)
(* starts from -1 and so finds no negative count.                          *)
SearchFinds ==
  from = 0 /\ idx = to_idx /\ to_idx = 0 =>
    \A n \in 0 .. Last + 1, empty \in SUBSET Index,
       start_stop \in Frame \union {IntMax}, after \in BOOLEAN :
      LET most     == get_frame_id_with_most_pic_order_cnt(
                        frames, empty, n, -1, start_stop, after)
          least    == get_frame_id_with_least_pic_order_cnt(
                        frames, empty, n, IntMax, start_stop, after)
          eligible == Eligible(n, empty, start_stop, after)
      IN  /\ FirstMost({i \in eligible : frames[i] > -1}, frames) = {most} \ {-1}
          /\ FirstLeast({i \in eligible : frames[i] < IntMax}, frames) = {least} \ {-1}
=============================================================================
