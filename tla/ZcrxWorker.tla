------------------------------- MODULE ZcrxWorker -------------------------------
(***************************************************************************)
(* Zero-copy receive (src/worker.cpp): run_server_zcrx(), which accepts    *)
(* connections, and run_client_reverse_recv_zcrx(), which receives on one  *)
(* connection, each on a ring of its own with one multishot receive per    *)
(* connection.  role says which of the two this worker is.                 *)
(*                                                                         *)
(* The NIC fills buffers of a registered area; a completion hands one to   *)
(* the worker, which gives it back through the refill queue, a ring of     *)
(* RqEntries slots indexed by two unsigned counters that wrap.  The kernel *)
(* is external: with DEFER_TASKRUN it posts completions only inside        *)
(* submit_and_wait, but takes buffers from the refill queue at any time.   *)
(* A ZcrxConn lives as long as its descriptor and is named by it.          *)
(***************************************************************************)
EXTENDS UringEngine, FiniteSets

CONSTANTS
    Fds,            \* descriptors accept() may return
    Bufs,           \* buffers of the area
    RqEntries,      \* config_.zcrx_rq_entries
    CqEntries,      \* config_.zcrx_cq_entries
    Word            \* values of the counters of the refill queue: 2^32

Sock == "sockfd"    \* the client's connection

ASSUME ZcrxAssumption ==
    /\ RqEntries \in Nat \ {0}
    /\ CqEntries \in Nat \ {0}
    /\ Word \in Nat /\ Word > RqEntries /\ Word % RqEntries = 0
    /\ IsFiniteSet(Fds) /\ Sock \notin Fds
    /\ IsFiniteSet(Bufs)
    /\ QueueDepth > Cardinality(Fds)

VARIABLES
    role,           \* "server" or "client"
    pc,             \* where the worker's thread is
    stop,           \* stop_signal_
    peer_closed,    \* of the client
    held,           \* what the worker acquired and has not released
    open,           \* accepted descriptors that are open
    conns,          \* connections the worker knows
    sq,             \* SQEs prepared and not submitted
    accepting,      \* accepts the kernel holds
    armed,          \* receives of each connection the kernel holds
    cq,             \* completions in the ring, then those that overflowed
    count,          \* completions of the current batch that were handled
    pool,           \* buffers of the area the kernel may fill
    rqes,           \* the slots of the refill queue
    rq_tail,        \* written by the worker
    khead,          \* written by the kernel
    lost            \* buffers nobody will ever give back

refill == <<rqes, rq_tail>>
kernel == <<accepting, armed, pool, khead>>
vars == <<role, pc, stop, peer_closed, held, open, conns, sq, kernel, cq, count,
          refill, lost>>

Conns == Fds \cup {Sock}

Accept == [kind |-> "ACCEPT", conn |-> Sock]

Rx(c) == [kind |-> "RECV_ZC", conn |-> c]

Sqes == {Accept} \cup {Rx(c) : c \in Conns}

\* conn: of an accept the new descriptor, of a receive its connection.
Cqes == [op : {"ACCEPT", "RECV_ZC"}, conn : Conns, more : BOOLEAN, buf : SUBSET Bufs,
         res : {"positive", "nospc", "nomem", "error"}]   \* error: or end of stream

Init ==
    /\ role \in {"server", "client"}
    /\ pc = IF role = "server" THEN "listen" ELSE "queue_init"
    /\ stop = FALSE
    /\ peer_closed = FALSE
    /\ held = {}
    /\ open = {}
    /\ conns = {}
    /\ sq = <<>>
    /\ accepting = 0
    /\ armed = [c \in Conns |-> 0]
    /\ cq = <<>>
    /\ count = 0
    /\ pool = Bufs
    /\ rqes = [i \in 0..(RqEntries - 1) |-> {}]
    /\ rq_tail = 0
    /\ khead = 0
    /\ lost = {}

--------------------------------------------------------------------------------
(* Starting *)

Acquire(at, what, next) ==
    /\ pc = at
    /\ held' = held \cup what
    /\ pc' = next

Fails(at, released) ==
    /\ pc = at
    /\ held' = held \ released
    /\ pc' = "done"

\* What the caller releases when zcrx_setup() returns false.
Callers == {"listen_fd", "ring"}

\* Mutant: the refill ring stays mapped.
MmapAreaFailsKeepingRing == Fails("mmap_area", Callers)

MmapAreaFails == Fails("mmap_area", Callers \cup {"ring_map"})

zcrx_setup ==
    \/ Acquire("if_nametoindex", {}, "mmap_ring")
    \/ Fails("if_nametoindex", Callers)
    \/ Acquire("mmap_ring", {"ring_map"}, "mmap_area")
    \/ Fails("mmap_ring", Callers)
    \/ Acquire("mmap_area", {"area_map"}, "register_ifq")
    \/ MmapAreaFails
    \/ Acquire("register_ifq", {}, "ready")
    \/ Fails("register_ifq", Callers \cup {"area_map", "ring_map"})

Start ==
    /\ \/ Acquire("listen", {"listen_fd"}, "queue_init")
       \/ Fails("listen", {})
       \/ Acquire("queue_init", {"ring"}, "if_nametoindex")
       \/ Fails("queue_init", {"listen_fd"})
       \/ zcrx_setup
    /\ UNCHANGED <<role, stop, peer_closed, open, conns, sq, kernel, cq, count, refill, lost>>

\* The first operation is prepared and submitted.
Ready ==
    /\ pc = "ready"
    /\ \/ role = "server" /\ accepting' = 1 /\ UNCHANGED <<armed, conns>>
       \/ role = "client" /\ armed' = [armed EXCEPT ![Sock] = 1] /\ conns' = {Sock}
          /\ UNCHANGED accepting
    /\ pc' = "loop"
    /\ UNCHANGED <<role, stop, peer_closed, held, open, sq, pool, khead, cq, count, refill, lost>>

--------------------------------------------------------------------------------
(* The loop *)

LeaveLoop ==
    /\ pc = "loop"
    /\ stop \/ peer_closed
    /\ pc' = "exit"
    /\ UNCHANGED <<role, stop, peer_closed, held, open, conns, sq, kernel, cq, count, refill, lost>>

\* io_uring_submit_and_wait_timeout() hands the kernel every SQE, then waits.
SubmitAndWait ==
    /\ pc = "loop"
    /\ ~stop /\ ~peer_closed
    /\ accepting' = accepting + Cardinality(Hits(sq, {Accept}))
    /\ armed' = [c \in Conns |-> armed[c] + Cardinality(Hits(sq, {Rx(c)}))]
    /\ sq' = <<>>
    /\ pc' = "wait"
    /\ UNCHANGED <<role, stop, peer_closed, held, open, conns, pool, khead, cq, count, refill, lost>>

\* Mutant: the wait has no time limit.
WaitDoneAtCompletion ==
    /\ pc = "wait"
    /\ pc' = IF cq = <<>> THEN "wait" ELSE "cqe"
    /\ UNCHANGED <<role, stop, peer_closed, held, open, conns, sq, kernel, cq, count, refill, lost>>

\* A completion is there, 200ms have passed (-ETIME), or the call failed, which
\* ends the loop.
WaitDone ==
    /\ pc = "wait"
    /\ pc' \in {"cqe", "exit"}
    /\ UNCHANGED <<role, stop, peer_closed, held, open, conns, sq, kernel, cq, count, refill, lost>>

cqe == cq[count + 1]

\* io_uring_for_each_cqe: the next completion the ring holds.
Completion(op) ==
    /\ pc = "cqe"
    /\ count < Lesser(Len(cq), CqEntries)
    /\ cqe.op = op
    /\ count' = count + 1
    /\ UNCHANGED <<role, stop, held, kernel, cq>>

\* Mutant: a second SQE is pulled and left unused.
SubmitTwice(sqes) ==
    /\ sq' = sq \o sqes \o sqes
    /\ pc' = IF Len(sq') > QueueDepth THEN "crashed" ELSE pc

\* zcrx_submit_accept() and zcrx_submit_recv() fill in the SQE without looking
\* whether there is one.
Submit(sqes) ==
    /\ sq' = sq \o sqes
    /\ pc' = IF Len(sq') > QueueDepth THEN "crashed" ELSE pc

Rearmed == IF stop THEN <<>> ELSE <<Accept>>

HandleAccept ==
    /\ Completion("ACCEPT")
    /\ cqe.res = "positive"
    /\ conns' = conns \cup {cqe.conn}
    /\ Submit(<<Rx(cqe.conn)>> \o Rearmed)
    /\ UNCHANGED <<peer_closed, open, refill, lost>>

\* Mutant: after a failed accept there is no other.
HandleAcceptErrorNoRearm ==
    /\ Completion("ACCEPT")
    /\ cqe.res = "error"
    /\ UNCHANGED <<pc, sq, peer_closed, open, conns, refill, lost>>

HandleAcceptError ==
    /\ Completion("ACCEPT")
    /\ cqe.res = "error"
    /\ Submit(Rearmed)
    /\ UNCHANGED <<peer_closed, open, conns, refill, lost>>

\* Mutant: a receive that ended for want of memory is not armed again.
HandleRecoverableNoMem ==
    /\ Completion("RECV_ZC")
    /\ ~cqe.more
    /\ cqe.res \in {"nospc", "nomem"}
    /\ Submit(IF cqe.res = "nospc" THEN <<Rx(cqe.conn)>> ELSE <<>>)
    /\ UNCHANGED <<peer_closed, open, conns, refill, lost>>

HandleRecoverable ==
    /\ Completion("RECV_ZC")
    /\ ~cqe.more
    /\ cqe.res \in {"nospc", "nomem"}
    /\ Submit(<<Rx(cqe.conn)>>)
    /\ UNCHANGED <<peer_closed, open, conns, refill, lost>>

\* Mutant: the connection is forgotten and its descriptor left open.
HandleRxEndLeaking ==
    /\ Completion("RECV_ZC")
    /\ ~cqe.more
    /\ cqe.res \notin {"nospc", "nomem"}
    /\ conns' = IF role = "server" THEN conns \ {cqe.conn} ELSE conns
    /\ peer_closed' = (role = "client")
    /\ UNCHANGED <<pc, sq, open, refill, lost>>

\* The end of the stream or an error: the server closes the connection, for the
\* client it is the end.
HandleRxEnd ==
    /\ Completion("RECV_ZC")
    /\ ~cqe.more
    /\ cqe.res \notin {"nospc", "nomem"}
    /\ \/ /\ role = "server"
          /\ open' = open \ ({cqe.conn} \cap conns)
          /\ conns' = conns \ {cqe.conn}
          /\ UNCHANGED peer_closed
       \/ /\ role = "client"
          /\ peer_closed' = TRUE
          /\ UNCHANGED <<open, conns>>
    /\ UNCHANGED <<pc, sq, refill, lost>>

\* Mutant: the counters are compared as if they never wrapped.
zcrx_rq_nr_queuedUnwrapped == IF rq_tail > khead THEN rq_tail - khead ELSE 0

zcrx_rq_nr_queued == (rq_tail - khead) % Word

\* Mutant: the queue is taken for full with one slot to spare.
RefillFullEarly == zcrx_rq_nr_queued >= RqEntries - 1

RefillFull == zcrx_rq_nr_queued = RqEntries

\* The buffer goes to the slot of the tail; with the queue full it is dropped.
zcrx_return_buffer(b) ==
    \/ /\ RefillFull
       /\ lost' = lost \cup b
       /\ UNCHANGED refill
    \/ /\ ~RefillFull
       /\ rqes' = [rqes EXCEPT ![rq_tail % RqEntries] = b]
       /\ rq_tail' = (rq_tail + 1) % Word
       /\ UNCHANGED lost

HandleData ==
    /\ Completion("RECV_ZC")
    /\ cqe.more
    /\ zcrx_return_buffer(cqe.buf)
    /\ UNCHANGED <<pc, sq, peer_closed, open, conns>>

\* Mutant: the count of handled completions is not reset.
BatchEndKeepingCount ==
    /\ pc = "cqe"
    /\ count = Lesser(Len(cq), CqEntries)
    /\ cq' = SubSeq(cq, count + 1, Len(cq))
    /\ pc' = "loop"
    /\ UNCHANGED <<role, stop, peer_closed, held, open, conns, sq, kernel, count, refill, lost>>

\* io_uring_cq_advance: the slots of the batch become free at once.
BatchEnd ==
    /\ pc = "cqe"
    /\ count = Lesser(Len(cq), CqEntries)
    /\ cq' = SubSeq(cq, count + 1, Len(cq))
    /\ count' = 0
    /\ pc' = "loop"
    /\ UNCHANGED <<role, stop, peer_closed, held, open, conns, sq, kernel, refill, lost>>

\* Connections closed, the area and the refill ring unmapped, the ring destroyed
\* with all it holds, the listening socket closed.
Exit ==
    /\ pc = "exit"
    /\ open' = open \ conns
    /\ conns' = {}
    /\ held' = held \ {"area_map", "ring_map", "ring", "listen_fd"}
    /\ sq' = <<>>
    /\ cq' = <<>>
    /\ accepting' = 0
    /\ armed' = [c \in Conns |-> 0]
    /\ pc' = "done"
    /\ UNCHANGED <<role, stop, peer_closed, pool, khead, count, refill, lost>>

--------------------------------------------------------------------------------
(* The kernel and the stop signal (external) *)

Post(op, c, r, more, b) ==
    /\ pc = "wait"
    /\ cq' = Append(cq, [op |-> op, conn |-> c, res |-> r, more |-> more, buf |-> b])
    /\ UNCHANGED <<role, pc, stop, peer_closed, held, conns, sq, khead, count, refill, lost>>

KernelAccept ==
    /\ accepting > 0
    /\ accepting' = accepting - 1
    /\ \/ \E f \in Fds \ open : open' = open \cup {f} /\ Post("ACCEPT", f, "positive", FALSE, {})
       \/ Post("ACCEPT", Sock, "error", FALSE, {}) /\ UNCHANGED open
    /\ UNCHANGED <<armed, pool>>

\* Data, while the completion queue has room; the end of the receive, with
\* -ENOSPC if it has none.
KernelRecv ==
    \E c \in Conns :
        /\ armed[c] > 0
        /\ \/ \E b \in pool :
                /\ Len(cq) < CqEntries
                /\ Post("RECV_ZC", c, "positive", TRUE, {b})
                /\ pool' = pool \ {b}
                /\ UNCHANGED armed
           \/ \E r \in {"nospc", "nomem", "error"} :
                /\ r = "nospc" => Len(cq) >= CqEntries
                /\ Post("RECV_ZC", c, r, FALSE, {})
                /\ armed' = [armed EXCEPT ![c] = @ - 1]
                /\ UNCHANGED pool
        /\ UNCHANGED <<accepting, open>>

\* The NIC needs a buffer: the kernel takes the oldest one given back.  (What the
\* slot still holds is read by nobody, and is left out.)
KernelRefill ==
    /\ pc \notin {"done", "crashed"}
    /\ khead # rq_tail
    /\ pool' = pool \cup rqes[khead % RqEntries]
    /\ rqes' = [rqes EXCEPT ![khead % RqEntries] = {}]
    /\ khead' = (khead + 1) % Word
    /\ UNCHANGED <<role, pc, stop, peer_closed, held, open, conns, sq, accepting, armed, cq,
                   count, rq_tail, lost>>

StopSignal ==
    /\ ~stop
    /\ stop' = TRUE
    /\ UNCHANGED <<role, pc, peer_closed, held, open, conns, sq, kernel, cq, count, refill, lost>>

Terminated ==
    /\ pc = "done"
    /\ UNCHANGED vars

--------------------------------------------------------------------------------

Worker ==
    \/ Start \/ Ready \/ LeaveLoop \/ SubmitAndWait \/ WaitDone \/ HandleAccept \/ HandleAcceptError
    \/ HandleRecoverable \/ HandleRxEnd \/ HandleData \/ BatchEnd \/ Exit

Next ==
    Worker \/ KernelAccept \/ KernelRecv \/ KernelRefill \/ StopSignal \/ Terminated

Spec == Init /\ [][Next]_vars

\* The thread is scheduled; the kernel owes nothing.
FairSpec == Spec /\ WF_vars(Worker)

--------------------------------------------------------------------------------
(* Properties *)

\* Every variable stays in its domain.
TypeOK ==
    /\ role \in {"server", "client"}
    /\ {stop, peer_closed} \subseteq BOOLEAN
    /\ held \subseteq {"listen_fd", "ring", "ring_map", "area_map"}
    /\ open \subseteq Fds
    /\ conns \subseteq Conns
    /\ sq \in Seq(Sqes)
    /\ accepting \in Nat
    /\ armed \in [Conns -> Nat]
    /\ cq \in Seq(Cqes)
    /\ count \in 0..Len(cq)
    /\ pool \subseteq Bufs
    /\ rqes \in [0..(RqEntries - 1) -> SUBSET Bufs]
    /\ {rq_tail, khead} \subseteq 0..(Word - 1)
    /\ lost \subseteq Bufs

\* The completions still to be handled.
Pending == SubSeq(cq, count + 1, Len(cq))

InLoop == pc \in {"loop", "wait", "cqe"}

\* The accepts: prepared, in the kernel, or completed and not handled.
Accepts ==
    Cardinality(Hits(sq, {Accept})) + accepting
        + Cardinality(Hits(Pending, {e \in Cqes : e.op = "ACCEPT"}))

\* The receives of connection c: likewise.
Receives(c) ==
    Cardinality(Hits(sq, {Rx(c)})) + armed[c]
        + Cardinality(Hits(Pending, {e \in Cqes : e.op = "RECV_ZC" /\ e.conn = c /\ ~e.more}))

\* Until the stop signal the server always has exactly one accept under way,
\* also after an accept that failed.  Every connection the worker knows has
\* exactly one receive, and no receive outlives its connection: no completion
\* names a ZcrxConn that was freed, and no connection is left open without
\* anybody reading it.
OneOperationEach ==
    InLoop =>
        /\ role = "server" /\ ~stop => Accepts = 1
        /\ \A c \in Conns : Receives(c) = IF c \in conns /\ ~peer_closed THEN 1 ELSE 0

\* The submission queue never runs out inside a batch of completions, where
\* get_sqe() would return null: each connection and the accept need one SQE.
SqeAvailable == pc # "crashed"

\* The slots of the refill queue the kernel has not taken yet.
Queued == {(khead + i) % RqEntries : i \in 0..(zcrx_rq_nr_queued - 1)}

\* Every buffer of the area is in exactly one place: with the kernel, in one
\* slot of the refill queue, in one completion not yet handled, or lost.  Full
\* and wrapped counters included, no slot is overwritten before it is taken.
BuffersAccounted ==
    InLoop => \A b \in Bufs :
        Cardinality({b} \cap pool) + Cardinality({b} \cap lost)
            + Cardinality({i \in Queued : b \in rqes[i]})
            + Cardinality(Hits(Pending, {e \in Cqes : b \in e.buf})) = 1

\* Dropping buffers when the refill queue is full never starves the area: as
\* many buffers as the queue has slots stay in circulation for ever.
NeverStarved ==
    Cardinality(Bufs \ lost) >= Lesser(RqEntries, Cardinality(Bufs))

\* Every accepted descriptor that is open is a connection's, or waits in one
\* completion still to be handled; a connection's descriptor is open.
FdsOwned ==
    InLoop => \A f \in Fds :
        LET new == Hits(Pending, {e \in Cqes : e.op = "ACCEPT" /\ e.conn = f})
        IN  Cardinality({f} \cap conns) + Cardinality(new) = Cardinality({f} \cap open)

\* When the worker returns, from its loop or from a step of its set-up that
\* failed, it has given back its listening socket, its ring and its mappings and
\* closed every connection it knew.  (A descriptor whose accept it did not come
\* to handle stays open.)
ReturnsClean == pc = "done" => held = {} /\ conns = {}

\* Once the stop signal is set the worker returns, also when nothing arrives.
Stops == stop ~> pc = "done"
================================================================================
