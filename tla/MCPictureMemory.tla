-------------------------- MODULE MCPictureMemory --------------------------
(***************************************************************************)
(* A finite instance of PictureMemory for TLC: a small memory, two ids of  *)
(* each table, and the units that tell the exits of the parsers apart.     *)
(***************************************************************************)
EXTENDS PictureMemory

Sps(id, profile, width, height) ==
  [id |-> id, reserved |-> 0, profile_idc |-> profile,
   chroma_format_idc |-> 1, bit_depth |-> 0, scaling |-> FALSE,
   long_cycle |-> FALSE,
   max_num_ref_frames |-> 1, frame_mbs_only_flag |-> TRUE,
   width |-> width, height |-> height, trailing |-> FALSE]

(* Baseline, main and high; pictures that fit the memory, odd sizes among  *)
(* them, that exceed it, and whose sizes or addresses wrap.                *)
GoodSps ==
  {Sps(0, 77, 1, 1), Sps(0, 100, 2, 1), Sps(1, 66, 2, 2), Sps(1, 77, 3, 1),
   Sps(1, 77, 6, 6), Sps(0, 66, 16, 15), Sps(0, 66, 16, 16)}

(* One thing wrong with each.                                              *)
BadSps ==
  LET s == Sps(0, 100, 1, 1)
  IN  {[s EXCEPT !.reserved = 1], [s EXCEPT !.id = NumSps],
       [s EXCEPT !.scaling = TRUE], [s EXCEPT !.chroma_format_idc = 2],
       [s EXCEPT !.bit_depth = 1], [s EXCEPT !.long_cycle = TRUE],
       [s EXCEPT !.max_num_ref_frames = NumSlots + 1],
       [s EXCEPT !.frame_mbs_only_flag = FALSE], [s EXCEPT !.trailing = TRUE]}

MCSpsUnits == GoodSps \union BadSps

Pps(id, set) ==
  [id |-> id, sps |-> set, cabac |-> FALSE, map_type |-> -1,
   transform_8x8 |-> FALSE, second_offset |-> 0, trailing |-> FALSE]

MCPpsUnits ==
  {Pps(0, 0), Pps(1, 1), Pps(0, 1), Pps(NumPps, 0), Pps(0, NumSps),
   [Pps(1, 0) EXCEPT !.map_type = 2], [Pps(1, 0) EXCEPT !.cabac = TRUE],
   [Pps(1, 0) EXCEPT !.transform_8x8 = TRUE],
   [Pps(1, 0) EXCEPT !.second_offset = -1], [Pps(1, 0) EXCEPT !.trailing = TRUE]}
=============================================================================
