--------------------------- MODULE MCToreroServe ---------------------------
EXTENDS ToreroServe, TLC

CONSTANTS w1, w2

MCWorkers == {w1, w2}

(* The workers run the same loop and are interchangeable. *)
WorkerSymmetry == Permutations(MCWorkers)
=============================================================================
