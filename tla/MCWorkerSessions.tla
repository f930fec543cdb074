-------------------------- MODULE MCWorkerSessions --------------------------
(* TLC instances of WorkerSessions. *)
EXTENDS WorkerSessions, TLC

\* Port 80's decimal form begins that of port 8080.
MCPortPrefix == {<<80, 8080>>}

CallSymmetry == Permutations(Calls)
=============================================================================
