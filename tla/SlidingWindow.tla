--------------------------- MODULE SlidingWindow ---------------------------
(***************************************************************************)
(* What the decoded picture buffer promises the stream: the pictures held  *)
(* for reference are a window on the decoded ones, newest first.  A        *)
(* picture enters at the front and leaves only because the stream flushed  *)
(* the buffer, because it was marked as unused, or because it fell off the *)
(* end of a full window.  This is what slide_frames,                       *)
(* purge_unused_ref_frames, clear_DPB and the marking loop of              *)
(* parse_slice_header do together.                                         *)
(***************************************************************************)
EXTENDS Naturals, Sequences, SequencesExt

CONSTANTS Picture,    \* the places a picture can be held in
          MaxWindow   \* the largest window a parameter set may ask for

VARIABLES refs,   \* the pictures held for reference, newest first
          unused  \* those of them the current slice marked as unused

vars == <<refs, unused>>

TypeOK ==
  /\ refs \in Seq(Picture)
  /\ unused \subseteq ToSet(refs)

Init == refs = << >> /\ unused = {}

Flush == refs' = << >> /\ unused' = {}

Mark(b) ==
  /\ b \in ToSet(refs)
  /\ unused' = unused \union {b}
  /\ UNCHANGED refs

Drop(b) ==
  /\ b \in unused
  /\ \E i \in DOMAIN refs : refs[i] = b /\ refs' = RemoveAt(refs, i)
  /\ unused' = unused \ {b}

(* A window of w takes the new picture; the one beyond it goes.            *)
Store(b, w) ==
  /\ unused = {}
  /\ b \notin ToSet(refs)
  /\ refs' = <<b>> \o (IF Len(refs) < w THEN refs ELSE RemoveAt(refs, w))
  /\ UNCHANGED unused

Next ==
  \/ Flush
  \/ \E b \in Picture : Mark(b) \/ Drop(b)
  \/ \E b \in Picture, w \in 1 .. MaxWindow : Store(b, w)

Spec == Init /\ [][Next]_vars
=============================================================================
