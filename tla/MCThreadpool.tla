---------------------------- MODULE MCThreadpool ----------------------------
(***************************************************************************)
(* Small graphs for model-checking Threadpool.                             *)
(***************************************************************************)
EXTENDS Threadpool

nop == [op |-> "nop", plan |-> 0]
plain == [op |-> "plain", plan |-> 0]
matmul(chunks) == [op |-> "mul_mat", plan |-> chunks]

\* three threads: one chunk per thread, an empty node between two barriers
TeamGraphs == {<<matmul(1), nop, plain>>}

\* two threads: eight chunks are handed out dynamically, twice in a row, and the graph ends empty
StealGraphs == {<<nop, matmul(8), matmul(8)>>, <<matmul(8), plain, nop>>}

\* no node at all, and one node
TinyGraphs == {<< >>, <<plain>>}
=============================================================================
