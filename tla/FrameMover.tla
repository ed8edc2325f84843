----------------------------- MODULE FrameMover -----------------------------
(***************************************************************************)
(* The two loops that carry a frame to another position of an array:       *)
(* move_frame swaps it with its neighbour, one position a turn, up or      *)
(* down; slide_frames keeps the last one aside, shifts the others up into  *)
(* the gap, and puts it first.                                             *)
(***************************************************************************)
EXTENDS FrameArray

CONSTANTS Frame,  \* the pointers an array holds
          Last    \* the array's last index

ASSUME LastAssumption == Last \in Nat

VARIABLES frames,   \* the array
          idx,      \* where the moved frame is, or the gap kept for it
          sliding,  \* the frame is not in the array (slide_frames)
          given,    \* the array as it was passed in
          from,     \* idx as it was passed in
          to_idx    \* where the frame must go

vars == <<frames, idx, sliding, given, from, to_idx>>

Index == 0 .. Last

(* last_frame, read before the loop of slide_frames                        *)
last_frame == given[from]

Init ==
  /\ given \in [Index -> Frame]
  /\ from \in Index /\ to_idx \in Index
  /\ sliding \in BOOLEAN /\ (sliding => to_idx = 0)
  /\ frames = given /\ idx = from

(* A mutant: no temporary. *)
swap_frames_untidy(f, id1, id2) == [f EXCEPT ![id1] = f[id2]]

swap_frames(f, id1, id2) == [f EXCEPT ![id1] = f[id2], ![id2] = f[id1]]

Step == IF to_idx < idx THEN -1 ELSE 1

(* A mutant: the index is not stepped. *)
SwapInPlace ==
  /\ ~sliding /\ idx # to_idx
  /\ frames' = swap_frames(frames, idx, idx + Step)
  /\ UNCHANGED <<idx, sliding, given, from, to_idx>>

Swap ==
  /\ ~sliding /\ idx # to_idx
  /\ frames' = swap_frames(frames, idx, idx + Step)
  /\ idx' = idx + Step
  /\ UNCHANGED <<sliding, given, from, to_idx>>

(* A mutant: the copy goes the other way. *)
ShiftDown ==
  /\ sliding /\ idx > 0
  /\ frames' = [frames EXCEPT ![idx - 1] = frames[idx]]
  /\ idx' = idx - 1
  /\ UNCHANGED <<sliding, given, from, to_idx>>

Shift ==
  /\ sliding /\ idx > 0
  /\ frames' = [frames EXCEPT ![idx] = frames[idx - 1]]
  /\ idx' = idx - 1
  /\ UNCHANGED <<sliding, given, from, to_idx>>

PutFirst ==
  /\ sliding /\ idx = 0
  /\ frames' = [frames EXCEPT ![0] = last_frame]
  /\ sliding' = FALSE
  /\ UNCHANGED <<idx, given, from, to_idx>>

Carry == Swap \/ Shift \/ PutFirst

Next == Carry \/ (~sliding /\ idx = to_idx /\ UNCHANGED vars)

Spec == Init /\ [][Next]_vars /\ WF_vars(Carry)

TypeOK ==
  /\ frames \in [Index -> Frame] /\ given \in [Index -> Frame]
  /\ idx \in Index /\ from \in Index /\ to_idx \in Index
  /\ sliding \in BOOLEAN /\ (sliding => to_idx = 0)

(* After every turn the array, with the frame put into its gap, is the     *)
(* given one with the frame moved as far as idx: no turn of move_frame or  *)
(* slide_frames loses a frame, doubles one, disturbs the order of the      *)
(* others or reaches past the two ends of the move                         *)
(* (DPB_routines.c:169-184, 220-228).                                      *)
MovedSoFar ==
  (IF sliding THEN [frames EXCEPT ![idx] = last_frame] ELSE frames)
    = MoveFrame(given, from, idx)

(* Either loop ends, with the frame where it was asked for.                *)
Arrives == <>[](~sliding /\ idx = to_idx /\ frames[to_idx] = given[from])
=============================================================================
