------------------------------ MODULE MCBatch ------------------------------
(***************************************************************************)
(* Two stretches of speech one frame apart, one stretch that the window    *)
(* cuts off, and one too short for an embedding; four voices, of which the *)
(* first two are closest, the third is within reach of their centroid but  *)
(* of neither of them, and the fourth is within reach of the second by    *)
(* the mean distance but not of the first two together.                    *)
(* A step is 2.4 frames, so that the second chunk is moved down to a frame *)
(* of the grid and the third one up.                                       *)
(***************************************************************************)
EXTENDS Batch

MCPatterns == {{0, 1, 3, 4}, {3, 4}, {1}}
MCPoints == {<<2, 6, 9>>, <<6, 2, 9>>, <<0, 0, 11>>, <<11, 0, 0>>}
MCMaxEmbeddings == [l \in Lengths |-> IF l >= Window + Step THEN 3 ELSE 4]
=============================================================================
