--------------------------- MODULE MCChartIngest ----------------------------
(***************************************************************************)
(* The ENC pipeline on one cell, with the loop's passes and sync_now's.    *)
(***************************************************************************)
EXTENDS ChartIngest

(* A cell published, then updated with one of its features withdrawn.      *)
TwoReleases == << <<1, 0, {"a", "b"}>>, <<1, 1, {"a"}>> >>
=============================================================================
