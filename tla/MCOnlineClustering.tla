------------------------- MODULE MCOnlineClustering -------------------------
(***************************************************************************)
(* Voices for model-checking OnlineClustering: directions in the plane     *)
(* with integer coordinates and length 5.                                  *)
(***************************************************************************)
EXTENDS OnlineClustering

MCUnit == 25

\* an acute, a right and an obtuse angle among them
Voices == {<<5, 0>>, <<3, 4>>, <<-4, 3>>}

\* two voices 0.2 apart, less than delta_new
SimilarVoices == {<<5, 0>>, <<4, 3>>}
=============================================================================
