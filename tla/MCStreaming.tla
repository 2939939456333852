---------------------------- MODULE MCStreaming ----------------------------
(***************************************************************************)
(* A Hamming window of four frames for model-checking Streaming.           *)
(***************************************************************************)
EXTENDS Streaming

MCWindow == [i \in 0 .. 3 |-> IF i \in {0, 3} THEN 8 ELSE 77]
=============================================================================
