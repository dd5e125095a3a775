---------------------------- MODULE MCServerWorker ----------------------------
(* Instances of ServerWorker for TLC. *)
EXTENDS ServerWorker, TLC

Symmetry ==
    Permutations(Conns) \cup Permutations(Fds)
        \cup Permutations(Addrs) \cup Permutations(Bufs)
================================================================================
