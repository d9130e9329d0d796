---------------------------- MODULE MCNshWorkers ----------------------------
(***************************************************************************)
(* Two workers, an entry that is swapped in, and one with two options that *)
(* is pushed.                                                              *)
(***************************************************************************)
EXTENDS NshWorkers

CONSTANTS w1, w2

MCWorker == {w1, w2}
Interchangeable == Permutations(MCWorker)

MCPackets == {<< 1 >>, << 1, 2 >>}
MCPushed == [e \in {"push"} |-> << 1, 1 >>]
=============================================================================
