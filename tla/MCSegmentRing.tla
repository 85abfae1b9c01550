--------------------------- MODULE MCSegmentRing ---------------------------
(* TLC instance of SegmentRing alone; the sizes are in the .cfg file. *)
EXTENDS SegmentRing
=============================================================================
