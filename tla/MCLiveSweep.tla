---------------------------- MODULE MCLiveSweep ----------------------------
(* Instance of LiveSweep for TLC: one slot of the ring with the volume of   *)
(* interest, a remnant of an older one and an end chunk out of place.       *)
EXTENDS LiveSweep

VolumeAt(started) == [index |-> 1, started |-> started]
Volumes == {VolumeAt(1), VolumeAt(2)}

Piece(started, sequence, kind, size) ==
  [volume |-> VolumeAt(started), sequence |-> sequence, kind |-> kind,
   size |-> size]

Volume2 ==
  {Piece(2, 1, "start", 1), Piece(2, 2, "intermediate", 1),
   Piece(2, 3, "intermediate", 1), Piece(2, 4, "end", 1)}

(* The stray end chunk only fits while others are missing.                  *)
Objects == Volume2 \cup {Piece(1, 1, "start", 1), Piece(2, 3, "end", 3)}

Constraints ==
  {[kind |-> "exact", started |-> 2], [kind |-> "after", started |-> 1],
   [kind |-> "before", started |-> 3]}
=============================================================================
