--------------------------- MODULE MCSliceDecoder ---------------------------
(***************************************************************************)
(* Finite instances of SliceDecoder for TLC.                               *)
(***************************************************************************)
EXTENDS SliceDecoder, TLC

CONSTANTS b1, b2, b3, b4

FourBufs  == {b1, b2, b3, b4}
ThreeBufs == {b1, b2, b3}

(* The buffers are interchangeable: no constant names one of them.         *)
BufSymmetry == Permutations(Buf)

Sps1(refs, type, gaps) ==
  [max_num_ref_frames |-> refs, pic_order_cnt_type |-> type, gaps |-> gaps]

SpsMixed     == {Sps1(3, 2, FALSE), Sps1(1, 2, TRUE), Sps1(0, 2, FALSE),
                 Sps1(0, 1, FALSE)}
SpsType0     == {Sps1(3, 0, FALSE)}
SpsType0Gaps == {Sps1(2, 0, TRUE)}
SpsType0Two  == {Sps1(2, 0, FALSE)}
SpsTooMany   == {Sps1(NumSlots, 2, FALSE)}
=============================================================================
