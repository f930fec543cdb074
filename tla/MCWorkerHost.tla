---------------------------- MODULE MCWorkerHost ----------------------------
(* TLC instances of WorkerHost. *)
EXTENDS WorkerHost, TLC

WorkerSymmetry == Permutations(Workers)
=============================================================================
