------------------------------ MODULE UringEngine ------------------------------
(***************************************************************************)
(* UringEngine (src/uring_engine.cpp): the submission side of one worker's *)
(* io_uring ring, as operators on the submission queue.  A queue is a      *)
(* sequence of SQEs that were prepared and not yet submitted.  The callers *)
(* of prep_* ignore the Boolean it returns, so the model keeps only what   *)
(* the call does to the queue: with the queue full io_uring_get_sqe()      *)
(* returns null and the operation is silently not prepared.                *)
(*                                                                         *)
(* An SQE keeps its opcode, the descriptor number it names (the kernel     *)
(* resolves it at submission, not when it is prepared) and its user_data,  *)
(* the address of an IOContext.  Lengths, registered-buffer and            *)
(* registered-file flags choose among equivalent ways of naming the same   *)
(* buffer and socket and are left out.                                     *)
(***************************************************************************)
EXTENDS Integers, Sequences

CONSTANT QueueDepth     \* entries of the submission queue (-q)

ASSUME QueueDepthAssumption == QueueDepth \in Nat \ {0}

Lesser(m, n) == IF m < n THEN m ELSE n

\* The historical defect described in prep_send_zc's own comment: an SQE is
\* pulled and discarded before the one that is used.
GetSqeWastingASlot(q, sqe) ==
    IF Len(q) + 1 < QueueDepth THEN q \o <<sqe, sqe>> ELSE q

GetSqe(q, sqe) == IF Len(q) < QueueDepth THEN Append(q, sqe) ELSE q

prep_send_zc(q, fd, ctx) ==
    GetSqe(q, [kind |-> "SEND_ZC", fd |-> fd, ctx |-> ctx])

prep_send_standard(q, fd, ctx) ==
    GetSqe(q, [kind |-> "SEND", fd |-> fd, ctx |-> ctx])

prep_recv(q, fd, ctx) ==
    GetSqe(q, [kind |-> "RECV", fd |-> fd, ctx |-> ctx])

prep_recv_multishot(q, fd, ctx) ==
    GetSqe(q, [kind |-> "RECV_MULTISHOT", fd |-> fd, ctx |-> ctx])

prep_accept(q, listen_fd, ctx) ==
    GetSqe(q, [kind |-> "ACCEPT", fd |-> listen_fd, ctx |-> ctx])

\* The prep_* calls of a loop over contexts: as many of the SQEs, in order,
\* as the queue has room for.
PrepEach(q, sqes) ==
    q \o SubSeq(sqes, 1, Lesser(Len(sqes), QueueDepth - Len(q)))

\* How many of the n completions present one call hands to the worker.
reap_completions(n, max_reap) == Lesser(n, max_reap)

--------------------------------------------------------------------------------
(* For the properties of the workers *)

\* The places of a queue that hold an element of M.
Hits(q, M) == {i \in DOMAIN q : q[i] \in M}

One(S) == \E x \in S : \A y \in S : y = x
================================================================================
